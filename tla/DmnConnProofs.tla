---------------------------- MODULE DmnConnProofs ----------------------------
(* Proofs about the message thread (MsgTask), for every set of messages:    *)
(* type correctness, who deletes what, and that it is the channel           *)
(* MsgChannel.  Then about the daemon connection composed with it           *)
(* (DmnConn): what is proved of the thread alone holds there too, as each   *)
(* step of the composition is one of the thread's or leaves its variables   *)
(* alone, and no request is lost, repeated or overtaken.                    *)
EXTENDS DmnConn, TLAPS

OwnerCounts == owner \in {"IDLE", "READ", "BYE", "JOIN", "DROP", "CRASH"}

(* The count is exact: one for the owner until it lets go, one for the      *)
(* thread until it ends.                                                    *)
Counted ==
    thread # "NONE" =>
        /\ OwnerCounts /\ ThreadHolds => mRefCount = 2
        /\ OwnerCounts /\ ~ThreadHolds => mRefCount = 1
        /\ ~OwnerCounts /\ ThreadHolds => mRefCount = 1
        /\ ~OwnerCounts /\ ~ThreadHolds => mRefCount = 0

(* The owner deletes the task only when it never had a thread; otherwise    *)
(* the thread does, when it has left its loop.                              *)
Deletion ==
    /\ thread # "NONE" /\ owner \in {"IDLE", "READ"} => mThread
    /\ thread = "NONE" => /\ ~mThread
                          /\ owner \in {"IDLE", "READ", "DELETE", "DONE"}
                          /\ owner # "DONE" => task = "LIVE"
    /\ owner = "DELETE" => thread = "NONE"
    /\ task = "DELETED" => thread \in {"NONE", "DROP", "ENDED"}

(* Nothing leaves the loop before the queue is unblocked.                   *)
Unblocking ==
    /\ owner # "IDLE" => unblocked
    /\ thread \notin {"NONE", "DROP", "ENDED"} /\ ~mRunnable => unblocked
    /\ thread = "DELETE" => unblocked

IInv == TypeOK /\ Counted /\ Deletion /\ Unblocking

LEMMA InitEstablishes == Init => IInv
  <1> SUFFICES ASSUME Init PROVE IInv
    OBVIOUS
  <1>1. TypeOK
    <2>1. {mThread, unblocked, mRunnable, mJoinable} \subseteq BOOLEAN
      BY DEF Init
    <2>2. /\ owner \in OwnerSteps /\ thread \in ThreadSteps
          /\ task \in {"LIVE", "DELETED"}
          /\ msg_list \in Seq(Messages)
          /\ msg \in Messages \cup {NoMessage}
          /\ msg # NoMessage <=> thread = "PROC"
          /\ mRefCount \in 0 .. 2
          /\ sent \subseteq Messages
      BY DEF Init, OwnerSteps, ThreadSteps
    <2> QED BY <2>1, <2>2 DEF TypeOK
  <1>2. Counted /\ Deletion /\ Unblocking
    BY DEF Init, Counted, Deletion, Unblocking, OwnerCounts, ThreadHolds
  <1> QED BY <1>1, <1>2 DEF IInv

(* The number of holders and the queue are typed again after each step.     *)
LEMMA SendPreserves ==
    ASSUME IInv, NEW m \in Messages, SendMsg(m)
    PROVE  IInv'
  <1> USE DEF SendMsg, delegateVars, Wake, IInv
  <1>1. TypeOK'
    BY DEF TypeOK, OwnerSteps, ThreadSteps
  <1>2. Counted' /\ Deletion' /\ Unblocking'
    BY DEF Counted, Deletion, Unblocking, OwnerCounts, ThreadHolds, TypeOK
  <1> QED BY <1>1, <1>2

LEMMA OwnerPreserves ==
    ASSUME IInv, Unblock \/ Destroy
    PROVE  IInv'
  <1> USE DEF IInv, OwnerAt, delegateVars, queueVars
  <1>1. CASE Unblock
    <2>1. TypeOK'
      BY <1>1 DEF Unblock, Wake, TypeOK, OwnerSteps, ThreadSteps
    <2>2. Counted' /\ Deletion' /\ Unblocking'
      BY <1>1 DEF Unblock, Wake, Counted, Deletion, Unblocking, OwnerCounts,
                  ThreadHolds, TypeOK
    <2> QED BY <2>1, <2>2
  <1>2. CASE ReadThread
    <2>1. TypeOK'
      BY <1>2 DEF ReadThread, TypeOK, OwnerSteps, ThreadSteps
    <2>2. Counted' /\ Deletion' /\ Unblocking'
      BY <1>2 DEF ReadThread, Counted, Deletion, Unblocking, OwnerCounts,
                  ThreadHolds, TypeOK
    <2> QED BY <2>1, <2>2
  <1>3. CASE DeleteThis
    <2>1. TypeOK'
      BY <1>3 DEF DeleteThis, DeleteTask, TypeOK, OwnerSteps, ThreadSteps
    <2>2. Counted' /\ Deletion' /\ Unblocking'
      BY <1>3 DEF DeleteThis, DeleteTask, Counted, Deletion, Unblocking,
                  OwnerCounts, ThreadHolds
    <2> QED BY <2>1, <2>2
  <1>4. CASE Bye
    <2>1. TypeOK'
      BY <1>4 DEF Bye, TypeOK, OwnerSteps, ThreadSteps
    <2>2. Counted' /\ Deletion' /\ Unblocking'
      BY <1>4 DEF Bye, Counted, Deletion, Unblocking, OwnerCounts, ThreadHolds
    <2> QED BY <2>1, <2>2
  <1>5. CASE Join
    <2>1. TypeOK'
      BY <1>5 DEF Join, TypeOK, OwnerSteps, ThreadSteps
    <2>2. Counted' /\ Deletion' /\ Unblocking'
      BY <1>5 DEF Join, Counted, Deletion, Unblocking, OwnerCounts, ThreadHolds
    <2> QED BY <2>1, <2>2
  <1>6. CASE OwnerDrops
    <2>1. TypeOK'
      BY <1>6 DEF OwnerDrops, TypeOK, OwnerSteps, ThreadSteps
    <2>2. Counted' /\ Deletion' /\ Unblocking'
      BY <1>6 DEF OwnerDrops, Counted, Deletion, Unblocking, OwnerCounts,
                  ThreadHolds, TypeOK
    <2> QED BY <2>1, <2>2
  <1> QED BY <1>1, <1>2, <1>3, <1>4, <1>5, <1>6 DEF Destroy

LEMMA TakePreserves ==
    ASSUME IInv, NEW step \in {"RCV", "WOKEN"}, TakeHead(step),
           UNCHANGED <<owner, task, mThread, unblocked, delegateVars, sent>>
    PROVE  IInv'
  <1> USE DEF IInv, ThreadAt, TakeHead, delegateVars
  <1>1. TypeOK'
    BY NoMessageAssumption DEF TypeOK, OwnerSteps, ThreadSteps
  <1>2. Counted' /\ Deletion' /\ Unblocking'
    BY DEF Counted, Deletion, Unblocking, OwnerCounts, ThreadHolds
  <1> QED BY <1>1, <1>2

LEMMA ThreadPreserves ==
    ASSUME IInv, ThreadMain \/ SpuriousWakeup
    PROVE  IInv'
  <1> USE DEF IInv, ThreadAt, delegateVars, queueVars
  <1>1. CASE Main \/ Loop
    <2>1. TypeOK'
      BY <1>1 DEF Main, Loop, TypeOK, OwnerSteps, ThreadSteps
    <2>2. Counted' /\ Deletion' /\ Unblocking'
      BY <1>1 DEF Main, Loop, Counted, Deletion, Unblocking, OwnerCounts, ThreadHolds
    <2> QED BY <2>1, <2>2
  <1>2. CASE Rcv
    <2>1. CASE TakeHead("RCV")
      BY <1>2, <2>1, TakePreserves DEF Rcv
    <2>2. CASE ~TakeHead("RCV")
      <3>1. TypeOK'
        BY <1>2, <2>2 DEF Rcv, TypeOK, OwnerSteps, ThreadSteps
      <3>2. Counted' /\ Deletion' /\ Unblocking'
        BY <1>2, <2>2 DEF Rcv, Counted, Deletion, Unblocking, OwnerCounts, ThreadHolds
      <3> QED BY <3>1, <3>2
    <2> QED BY <2>1, <2>2
  <1>3. CASE RcvWoken
    <2>1. CASE TakeHead("WOKEN")
      BY <1>3, <2>1, TakePreserves DEF RcvWoken
    <2>2. CASE ~TakeHead("WOKEN")
      <3>1. TypeOK'
        BY <1>3, <2>2 DEF RcvWoken, TypeOK, OwnerSteps, ThreadSteps
      <3>2. Counted' /\ Deletion' /\ Unblocking'
        BY <1>3, <2>2 DEF RcvWoken, Counted, Deletion, Unblocking, OwnerCounts, ThreadHolds
      <3> QED BY <3>1, <3>2
    <2> QED BY <2>1, <2>2
  <1>4. CASE Processed \/ SpuriousWakeup
    <2>1. TypeOK'
      BY <1>4, NoMessageAssumption
      DEF Processed, SpuriousWakeup, TypeOK, OwnerSteps, ThreadSteps
    <2>2. Counted' /\ Deletion' /\ Unblocking'
      BY <1>4 DEF Processed, SpuriousWakeup, Counted, Deletion, Unblocking,
                  OwnerCounts, ThreadHolds
    <2> QED BY <2>1, <2>2
  <1>5. CASE DeleteRunnable
    <2>1. TypeOK'
      <3>1. msg_list' \in Seq(Messages) /\ thread' = "DROP" /\ msg' = NoMessage
        BY <1>5 DEF DeleteRunnable, DeleteTask, TypeOK
      <3>2. {mThread, unblocked, mRunnable, mJoinable}' \subseteq BOOLEAN
        BY <1>5 DEF DeleteRunnable, DeleteTask, TypeOK
      <3> QED
        BY <1>5, <3>1, <3>2
        DEF DeleteRunnable, DeleteTask, TypeOK, OwnerSteps, ThreadSteps
    <2>2. Counted' /\ Deletion' /\ Unblocking'
      BY <1>5 DEF DeleteRunnable, DeleteTask, Counted, Deletion, Unblocking,
                  OwnerCounts, ThreadHolds, TypeOK
    <2> QED BY <2>1, <2>2
  <1>6. CASE ThreadDrops
    <2>1. TypeOK'
      BY <1>6 DEF ThreadDrops, TypeOK, OwnerSteps, ThreadSteps
    <2>2. Counted' /\ Deletion' /\ Unblocking'
      BY <1>6 DEF ThreadDrops, Counted, Deletion, Unblocking, OwnerCounts,
                  ThreadHolds, TypeOK
    <2> QED BY <2>1, <2>2
  <1> QED BY <1>1, <1>2, <1>3, <1>4, <1>5, <1>6 DEF ThreadMain

LEMMA NextPreserves == IInv /\ [Next]_vars => IInv'
  <1> SUFFICES ASSUME IInv, [Next]_vars PROVE IInv'
    OBVIOUS
  <1>1. CASE Next
    BY <1>1, SendPreserves, OwnerPreserves, ThreadPreserves DEF Next
  <1>2. CASE UNCHANGED vars
    BY <1>2 DEF vars, queueVars, delegateVars, IInv, TypeOK, Counted, Deletion,
                Unblocking, OwnerCounts, ThreadHolds, OwnerSteps, ThreadSteps
  <1> QED BY <1>1, <1>2

(* The inductive invariant holds in every reachable state.                  *)
THEOREM Invariance == Spec => []IInv
  BY InitEstablishes, NextPreserves, PTL DEF Spec

(* Types, and the thread holds a message exactly while it processes one.    *)
THEOREM TypeCorrect == Spec => []TypeOK
  BY Invariance, PTL DEF IInv

LEMMA HoldersFound == IInv => DelegateOutlivesUsers
  BY DEF IInv, TypeOK, Counted, Deletion, DelegateOutlivesUsers, OwnerHolds,
         ThreadHolds, OwnerCounts, OwnerSteps, ThreadSteps

(* Neither the delegate nor the task is deleted under anyone who still uses *)
(* it: MsgTask::destroy against the thread it wakes.                        *)
THEOREM DelegateFound == Spec => []DelegateOutlivesUsers
  BY Invariance, HoldersFound, PTL

----------------------------------------------------------------------------
(* The refinement of the channel, step by step                              *)

LEMMA InitRefines == Init => Channel!Init
  BY DEF Init, Channel!Init

LEMMA TakeRefines ==
    ASSUME IInv, NEW step \in {"RCV", "WOKEN"}, TakeHead(step), UNCHANGED unblocked
    PROVE  Channel!Take
  BY DEF IInv, TypeOK, TakeHead, ThreadAt, Channel!Take

LEMMA StepRefines ==
    IInv /\ [Next]_vars => [Channel!Next]_Channel!channel
  <1> SUFFICES ASSUME IInv, Next PROVE Channel!Next \/ UNCHANGED Channel!channel
    BY DEF vars, queueVars, Channel!channel
  <1> USE DEF ThreadAt, OwnerAt, queueVars, delegateVars, Channel!channel
  <1>1. ASSUME NEW m \in Messages, SendMsg(m)
        PROVE  Channel!Next \/ UNCHANGED Channel!channel
    BY <1>1 DEF SendMsg, Wake, Channel!Next, Channel!Put
  <1>2. CASE Unblock
    BY <1>2 DEF Unblock, Wake, IInv, Unblocking, Channel!Next, Channel!Close
  <1>3. CASE ReadThread \/ Bye \/ Join \/ OwnerDrops
    BY <1>3 DEF ReadThread, Bye, Join, OwnerDrops
  <1>4. CASE DeleteThis
    BY <1>4 DEF DeleteThis, DeleteTask, IInv, TypeOK, Unblocking, Deletion,
                Channel!Next, Channel!Discard
  <1>5. CASE Main \/ Loop \/ SpuriousWakeup \/ ThreadDrops
    BY <1>5 DEF Main, Loop, SpuriousWakeup, ThreadDrops
  <1>6. CASE Rcv
    BY <1>6, TakeRefines DEF Rcv, Channel!Next
  <1>7. CASE RcvWoken
    BY <1>7, TakeRefines DEF RcvWoken, Channel!Next
  <1>8. CASE Processed
    BY <1>8 DEF Processed, IInv, TypeOK, Channel!Next, Channel!Done
  <1>9. CASE DeleteRunnable
    BY <1>9 DEF DeleteRunnable, DeleteTask, IInv, TypeOK, Unblocking,
                Channel!Next, Channel!Discard
  <1> QED BY <1>1, <1>2, <1>3, <1>4, <1>5, <1>6, <1>7, <1>8, <1>9
          DEF Next, Destroy, ThreadMain

(* The safety of ImplementsChannel: every step of the task is a step of the *)
(* channel or leaves it as it is, so messages are processed one at a time,  *)
(* in order, each once.                                                     *)
THEOREM ChannelSafety == Spec => Channel!Init /\ [][Channel!Next]_Channel!channel
  BY Invariance, InitRefines, StepRefines, PTL DEF Spec

----------------------------------------------------------------------------
(* The daemon connection around the message thread                          *)

LEMMA StepsOfTask == [DmnNext]_dmnVars => [Next]_vars
  <1> SUFFICES ASSUME DmnNext PROVE Next \/ UNCHANGED vars
    BY DEF dmnVars, taskVars
  <1> USE DEF NothingElse, TaskOnly, taskVars
  <1>1. CASE Launching \/ SignalWoken \/ UnblockThelper \/ ShuttingDown
    BY <1>1 DEF Launching, Launch, SignalWait, SignalWoken, UnblockThelper,
                ShuttingDown, UnblockProc, JoinThelper
  <1>2. CASE ServerMain
    <2>1. CASE Handle
      BY <2>1 DEF Handle, Requests, Next
    <2>2. CASE ~Handle
      BY <1>2, <2>2 DEF ServerMain, ProcInit, SignalReady, Receive, ProcPost
    <2> QED BY <2>1, <2>2
  <1>3. CASE ReceiveFails
    BY <1>3 DEF ReceiveFails
  <1>4. CASE MessageThread
    BY <1>4 DEF MessageThread, ProcReturns, Next, ThreadMain
  <1>5. CASE BeginAnswer \/ DaemonReads
    BY <1>5 DEF BeginAnswer, DaemonReads
  <1>6. CASE Unblock \/ Destroy \/ SpuriousWakeup
    BY <1>6 DEF Next
  <1>7. CASE DaemonWrites
    BY <1>7 DEF DaemonWrites, Write
  <1> QED BY <1>1, <1>2, <1>3, <1>4, <1>5, <1>6, <1>7 DEF DmnNext

LEMMA DmnKeepsIInv == DmnSpec => []IInv
  <1>1. DmnInit => IInv
    BY InitEstablishes DEF DmnInit
  <1>2. IInv /\ [DmnNext]_dmnVars => IInv'
    BY StepsOfTask, NextPreserves
  <1> QED BY <1>1, <1>2, PTL DEF DmnSpec

----------------------------------------------------------------------------
(* Types of the connection                                                  *)

Controls == Requests \cup {INVALID, UNBLOCK}

(* DmnTypeOK by the thread that changes it.                                 *)
ServerTypes ==
    /\ server \in ServerSteps
    /\ pipes \in {"NONE", "OPEN", "CLOSED", "FAILED"}
    /\ pipe \in Seq(Controls)
    /\ ctrl \in Controls \cup {NoMessage}
    /\ ctrl # NoMessage <=> server = "HANDLE"
    /\ failed \in BOOLEAN

ManagerTypes ==
    /\ manager \in ManagerSteps
    /\ thread_ready \in BOOLEAN /\ thread_exit \in BOOLEAN
    /\ manager = "LAUNCH" => server = "NONE"

AnswerTypes ==
    /\ answering \in BOOLEAN
    /\ answers \in 0 .. PIPE_ROOM
    /\ answering => thread = "PROC"
    /\ done \in Seq(Requests)

WrittenTypes == written \in Seq(Requests \cup {INVALID})

Types == ServerTypes /\ ManagerTypes /\ AnswerTypes /\ WrittenTypes

LEMMA TypesSuffice == IInv /\ Types => DmnTypeOK
  BY DEF IInv, Types, ServerTypes, ManagerTypes, AnswerTypes, WrittenTypes,
         Controls, DmnTypeOK

LEMMA DmnInitTypes == DmnInit => Types
  <1> SUFFICES ASSUME DmnInit PROVE Types
    OBVIOUS
  <1> USE DEF DmnInit
  <1>1. ServerTypes
    <2>1. pipe \in Seq(Controls)
      OBVIOUS
    <2> QED BY <2>1 DEF ServerTypes, ServerSteps
  <1>2. ManagerTypes
    BY DEF ManagerTypes, ManagerSteps
  <1>3. AnswerTypes
    <2>1. done \in Seq(Requests)
      OBVIOUS
    <2>2. answers \in 0 .. PIPE_ROOM
      BY PipeRoomAssumption
    <2> QED BY <2>1, <2>2 DEF AnswerTypes
  <1>4. WrittenTypes
    BY DEF WrittenTypes
  <1> QED BY <1>1, <1>2, <1>3, <1>4 DEF Types

LEMMA ManagerKeepsTypes ==
    ASSUME Types, Launching \/ SignalWoken \/ UnblockThelper \/ ShuttingDown
    PROVE  Types'
  <1> USE DEF ManagerAt, NothingElse, taskVars, pipeVars, answerVars, vars
  <1>1. CASE Launching \/ SignalWoken \/ UnblockThelper \/ JoinThelper
    <2> USE <1>1 DEF Launching, Launch, SignalWait, SignalWoken, UnblockThelper,
                     JoinThelper, Types
    <2>1. ManagerTypes'
      BY DEF ManagerTypes, ManagerSteps
    <2>2. ServerTypes'
      BY DEF ManagerTypes, ServerTypes, ServerSteps
    <2>3. AnswerTypes' /\ WrittenTypes'
      BY DEF AnswerTypes, WrittenTypes
    <2> QED BY <2>1, <2>2, <2>3
  <1>2. CASE UnblockProc
    <2>1. pipe' \in Seq(Controls)
      BY <1>2 DEF UnblockProc, Types, ServerTypes, Controls
    <2> QED
      BY <1>2, <2>1 DEF UnblockProc, Types, ServerTypes, ManagerTypes,
         AnswerTypes, WrittenTypes, ServerSteps, ManagerSteps
  <1> QED BY <1>1, <1>2 DEF ShuttingDown

LEMMA ServerKeepsTypes ==
    ASSUME Types, IInv, ServerMain \/ ReceiveFails
    PROVE  Types'
  <1> USE DEF ServerAt, NothingElse, taskVars, pipeVars, answerVars, vars
  <1>1. CASE ProcInit \/ SignalReady \/ ReceiveFails
    <2> USE <1>1 DEF ProcInit, SignalReady, ReceiveFails, Types
    <2>1. ManagerTypes'
      BY DEF ManagerTypes, ManagerSteps
    <2>2. ServerTypes'
      BY DEF ServerTypes, ServerSteps
    <2>3. AnswerTypes' /\ WrittenTypes'
      BY DEF AnswerTypes, WrittenTypes
    <2> QED BY <2>1, <2>2, <2>3
  <1>2. CASE Receive
    <2>1. pipe' \in Seq(Controls) /\ ctrl' \in Controls
      BY <1>2 DEF Receive, Types, ServerTypes
    <2>2. ctrl' # NoMessage
      BY <2>1, ControlsAssumption, NoMessageAssumption DEF Controls, Requests
    <2> QED
      BY <1>2, <2>1, <2>2 DEF Receive, Types, ServerTypes, ManagerTypes,
         AnswerTypes, WrittenTypes, ServerSteps
  <1>3. CASE Handle
    <2>1. thread = "PROC" => thread' = "PROC"
      BY <1>3 DEF Handle, SendMsg, Wake
    <2> QED
      BY <1>3, <2>1 DEF Handle, Types, ServerTypes, ManagerTypes,
         AnswerTypes, WrittenTypes, ServerSteps
  <1>4. CASE ProcPost
    <2>1. pipe' \in Seq(Controls) /\ answers' \in 0 .. PIPE_ROOM
      BY <1>4, PipeRoomAssumption DEF ProcPost
    <2> QED
      BY <1>4, <2>1 DEF ProcPost, Types, ServerTypes, ManagerTypes,
         AnswerTypes, WrittenTypes, ServerSteps
  <1> QED BY <1>1, <1>2, <1>3, <1>4 DEF ServerMain

LEMMA TaskKeepsTypes ==
    ASSUME Types, IInv,
           MessageThread \/ ((Unblock \/ Destroy \/ SpuriousWakeup) /\ TaskOnly)
    PROVE  Types'
  <1> USE DEF launchVars, pipeVars, answerVars
  <1>1. CASE ProcReturns
    <2>1. msg \in Requests
      BY <1>1 DEF ProcReturns, Processed, ThreadAt, IInv, TypeOK, Requests
    <2>2. done' \in Seq(Requests)
      BY <1>1, <2>1 DEF ProcReturns, Types, AnswerTypes
    <2>3. answers' \in 0 .. PIPE_ROOM
      BY <1>1, PipeRoomAssumption DEF ProcReturns, Types, AnswerTypes
    <2> QED
      BY <1>1, <2>2, <2>3 DEF ProcReturns, Types, ServerTypes, ManagerTypes,
         AnswerTypes, WrittenTypes
  <1>2. CASE ~ProcReturns
    <2>1. TaskOnly
      BY <1>2 DEF MessageThread
    <2>2. thread = "PROC" => thread' = "PROC"
      BY <1>2 DEF MessageThread, Main, Loop, Rcv, RcvWoken, TakeHead,
         DeleteRunnable, ThreadDrops, Unblock, Wake, Destroy, ReadThread,
         DeleteThis, Bye, Join, OwnerDrops, SpuriousWakeup, ThreadAt
    <2> QED
      BY <2>1, <2>2 DEF TaskOnly, Types, ServerTypes, ManagerTypes,
         AnswerTypes, WrittenTypes
  <1> QED BY <1>1, <1>2

LEMMA DaemonsKeepTypes ==
    ASSUME Types, BeginAnswer \/ DaemonReads \/ DaemonWrites
    PROVE  Types'
  <1> USE DEF taskVars, launchVars, pipeVars, answerVars, vars
  <1>1. CASE BeginAnswer \/ DaemonReads
    <2>1. answers' \in 0 .. PIPE_ROOM
      BY <1>1, PipeRoomAssumption DEF BeginAnswer, DaemonReads, Types, AnswerTypes
    <2>2. answering' \in BOOLEAN /\ (answering' => thread' = "PROC")
      <3>1. thread' = thread
        BY <1>1 DEF BeginAnswer, DaemonReads
      <3>2. CASE answering' = TRUE /\ thread = "PROC"
        BY <3>1, <3>2
      <3>3. CASE answering' = answering
        BY <3>1, <3>3 DEF Types, AnswerTypes
      <3> QED BY <1>1, <3>2, <3>3 DEF BeginAnswer, DaemonReads
    <2>3. ServerTypes' /\ ManagerTypes' /\ WrittenTypes'
      BY <1>1 DEF BeginAnswer, DaemonReads, Types, ServerTypes, ManagerTypes,
                  WrittenTypes
    <2>4. done' \in Seq(Requests)
      BY <1>1 DEF BeginAnswer, DaemonReads, Types, AnswerTypes
    <2> QED BY <2>1, <2>2, <2>3, <2>4 DEF Types, AnswerTypes
  <1>2. CASE DaemonWrites
    <2>1. PICK m \in Requests \cup {INVALID} : Write(m)
      BY <1>2 DEF DaemonWrites, Unwritten
    <2>2. pipe' \in Seq(Controls)
      BY <2>1 DEF Write, Types, ServerTypes, Controls
    <2>3. written' \in Seq(Requests \cup {INVALID})
      BY <2>1 DEF Write, Types, WrittenTypes
    <2> QED
      BY <2>1, <2>2, <2>3 DEF Write, Types, ServerTypes, ManagerTypes,
         AnswerTypes, WrittenTypes
  <1> QED BY <1>1, <1>2

LEMMA DmnKeepsTypes == IInv /\ Types /\ [DmnNext]_dmnVars => Types'
  <1> SUFFICES ASSUME IInv, Types, [DmnNext]_dmnVars PROVE Types'
    OBVIOUS
  <1>1. CASE DmnNext
    BY <1>1, ManagerKeepsTypes, ServerKeepsTypes, TaskKeepsTypes,
       DaemonsKeepTypes DEF DmnNext
  <1>2. CASE UNCHANGED dmnVars
    BY <1>2 DEF dmnVars, taskVars, vars, launchVars, pipeVars, answerVars,
       Types, ServerTypes, ManagerTypes, AnswerTypes, WrittenTypes
  <1> QED BY <1>1, <1>2

(* Task, server, manager and daemons keep their types; the server holds a   *)
(* message exactly while it handles one, and a daemon is answered only by a *)
(* message in process.                                                      *)
THEOREM DmnTypeCorrect == DmnSpec => []DmnTypeOK
  BY DmnKeepsIInv, DmnInitTypes, DmnKeepsTypes, TypesSuffice, PTL DEF DmnSpec

----------------------------------------------------------------------------
(* The delegate and the task outlive their users while daemons send,        *)
(* answers block and the server comes and goes.                             *)
THEOREM DelegateFoundBesideServer == DmnSpec => []DelegateOutlivesUsers
  BY DmnKeepsIInv, HoldersFound, PTL

(* The message thread is still an ordered channel for what the server       *)
(* posts.                                                                   *)
THEOREM ChannelBesideServer ==
    DmnSpec => Channel!Init /\ [][Channel!Next]_Channel!channel
  <1>1. DmnInit => Channel!Init
    BY InitRefines DEF DmnInit
  <1>2. IInv /\ [DmnNext]_dmnVars => [Channel!Next]_Channel!channel
    BY StepsOfTask, StepRefines
  <1> QED BY <1>1, <1>2, DmnKeepsIInv, PTL DEF DmnSpec

----------------------------------------------------------------------------
(* Requests are conserved                                                   *)

(* Contains and Before of a sequence made of two, of one element, of none.  *)
LEMMA ContainsConcat ==
    ASSUME NEW T, NEW s \in Seq(T), NEW t \in Seq(T), NEW m
    PROVE  Contains(s \o t, m) <=> Contains(s, m) \/ Contains(t, m)
  <1>1. /\ Len(s \o t) = Len(s) + Len(t) /\ Len(s) \in Nat /\ Len(t) \in Nat
        /\ \A k \in 1 .. Len(s) : (s \o t)[k] = s[k]
        /\ \A k \in 1 .. Len(t) : (s \o t)[Len(s) + k] = t[k]
    OBVIOUS
  <1>2. ASSUME Contains(s \o t, m) PROVE Contains(s, m) \/ Contains(t, m)
    <2>1. PICK k \in 1 .. Len(s \o t) : (s \o t)[k] = m
      BY <1>2 DEF Contains
    <2>2. CASE k \in 1 .. Len(s)
      BY <1>1, <2>1, <2>2 DEF Contains
    <2>3. CASE k \notin 1 .. Len(s)
      <3>1. k - Len(s) \in 1 .. Len(t) /\ k = Len(s) + (k - Len(s))
        BY <1>1, <2>3
      <3>2. t[k - Len(s)] = m
        BY <1>1, <2>1, <3>1
      <3> QED BY <3>1, <3>2 DEF Contains
    <2> QED BY <2>2, <2>3
  <1>3. ASSUME Contains(s, m) PROVE Contains(s \o t, m)
    BY <1>1, <1>3 DEF Contains
  <1>4. ASSUME Contains(t, m) PROVE Contains(s \o t, m)
    <2>1. PICK k \in 1 .. Len(t) : t[k] = m
      BY <1>4 DEF Contains
    <2>2. Len(s) + k \in 1 .. Len(s \o t) /\ (s \o t)[Len(s) + k] = m
      BY <1>1, <2>1
    <2> QED BY <2>2 DEF Contains
  <1> QED BY <1>2, <1>3, <1>4

LEMMA BeforeConcat ==
    ASSUME NEW T, NEW s \in Seq(T), NEW t \in Seq(T), NEW m, NEW n
    PROVE  Before(s \o t, m, n) <=>
              \/ Before(s, m, n)
              \/ Contains(s, m) /\ Contains(t, n)
              \/ Before(t, m, n)
  <1>1. /\ Len(s \o t) = Len(s) + Len(t) /\ Len(s) \in Nat /\ Len(t) \in Nat
        /\ \A k \in 1 .. Len(s) : (s \o t)[k] = s[k]
        /\ \A k \in 1 .. Len(t) : (s \o t)[Len(s) + k] = t[k]
    OBVIOUS
  <1>2. ASSUME Before(s \o t, m, n)
        PROVE  \/ Before(s, m, n)
               \/ Contains(s, m) /\ Contains(t, n)
               \/ Before(t, m, n)
    <2>1. PICK j \in 1 .. Len(s \o t) : \E k \in j + 1 .. Len(s \o t) :
                  (s \o t)[j] = m /\ (s \o t)[k] = n
      BY <1>2 DEF Before
    <2>2. PICK k \in j + 1 .. Len(s \o t) : (s \o t)[j] = m /\ (s \o t)[k] = n
      BY <2>1
    <2>3. ASSUME NEW i \in 1 .. Len(s \o t), i > Len(s)
          PROVE  i - Len(s) \in 1 .. Len(t) /\ (s \o t)[i] = t[i - Len(s)]
      <3>1. i - Len(s) \in 1 .. Len(t) /\ i = Len(s) + (i - Len(s))
        BY <1>1, <2>3
      <3> QED BY <1>1, <3>1
    <2>4. CASE k <= Len(s)
      <3>1. j \in 1 .. Len(s) /\ k \in j + 1 .. Len(s) /\ k \in 1 .. Len(s)
        BY <1>1, <2>4
      <3> QED BY <1>1, <2>2, <3>1 DEF Before
    <2>5. CASE j <= Len(s) /\ k > Len(s)
      <3>1. j \in 1 .. Len(s) /\ k \in 1 .. Len(s \o t)
        BY <1>1, <2>5
      <3>2. Contains(s, m)
        BY <1>1, <2>2, <3>1 DEF Contains
      <3>3. Contains(t, n)
        BY <2>2, <2>3, <2>5, <3>1 DEF Contains
      <3> QED BY <3>2, <3>3
    <2>6. CASE j > Len(s)
      <3>1. k \in 1 .. Len(s \o t) /\ k > Len(s)
        BY <1>1, <2>6
      <3>2. /\ j - Len(s) \in 1 .. Len(t) /\ t[j - Len(s)] = m
            /\ k - Len(s) \in 1 .. Len(t) /\ t[k - Len(s)] = n
        BY <2>2, <2>3, <2>6, <3>1
      <3>3. k - Len(s) \in (j - Len(s)) + 1 .. Len(t)
        BY <1>1, <3>2
      <3> QED BY <3>2, <3>3 DEF Before
    <2> QED BY <1>1, <2>4, <2>5, <2>6
  <1>3. ASSUME Before(s, m, n) PROVE Before(s \o t, m, n)
    <2>1. PICK j \in 1 .. Len(s) : \E k \in j + 1 .. Len(s) : s[j] = m /\ s[k] = n
      BY <1>3 DEF Before
    <2>2. PICK k \in j + 1 .. Len(s) : s[j] = m /\ s[k] = n
      BY <2>1
    <2>3. /\ j \in 1 .. Len(s \o t) /\ k \in j + 1 .. Len(s \o t)
          /\ k \in 1 .. Len(s)
      BY <1>1
    <2> QED BY <1>1, <2>2, <2>3 DEF Before
  <1>4. ASSUME Contains(s, m), Contains(t, n) PROVE Before(s \o t, m, n)
    <2>1. PICK j \in 1 .. Len(s) : s[j] = m
      BY <1>4 DEF Contains
    <2>2. PICK k \in 1 .. Len(t) : t[k] = n
      BY <1>4 DEF Contains
    <2>3. j \in 1 .. Len(s \o t) /\ Len(s) + k \in j + 1 .. Len(s \o t)
      BY <1>1
    <2> QED BY <1>1, <2>1, <2>2, <2>3 DEF Before
  <1>5. ASSUME Before(t, m, n) PROVE Before(s \o t, m, n)
    <2>1. PICK j \in 1 .. Len(t) : \E k \in j + 1 .. Len(t) : t[j] = m /\ t[k] = n
      BY <1>5 DEF Before
    <2>2. PICK k \in j + 1 .. Len(t) : t[j] = m /\ t[k] = n
      BY <2>1
    <2>3. /\ Len(s) + j \in 1 .. Len(s \o t)
          /\ Len(s) + k \in (Len(s) + j) + 1 .. Len(s \o t)
          /\ k \in 1 .. Len(t)
      BY <1>1
    <2> QED BY <1>1, <2>2, <2>3 DEF Before
  <1> QED BY <1>2, <1>3, <1>4, <1>5

LEMMA OneElement ==
    ASSUME NEW x, NEW m, NEW n
    PROVE  /\ Contains(<<x>>, m) <=> x = m
           /\ ~Before(<<x>>, m, n)
           /\ ~Contains(<<>>, m) /\ ~Before(<<>>, m, n)
  BY DEF Contains, Before

LEMMA Appended ==
    ASSUME NEW T, NEW s \in Seq(T), NEW x \in T, NEW m, NEW n
    PROVE  /\ Contains(Append(s, x), m) <=> Contains(s, m) \/ x = m
           /\ Before(Append(s, x), m, n) <=>
                 Before(s, m, n) \/ (Contains(s, m) /\ x = n)
  <1>1. Append(s, x) = s \o <<x>> /\ <<x>> \in Seq(T)
    OBVIOUS
  <1>2. Contains(s \o <<x>>, m) <=> Contains(s, m) \/ Contains(<<x>>, m)
    BY <1>1, ContainsConcat
  <1>3. Before(s \o <<x>>, m, n) <=>
           \/ Before(s, m, n)
           \/ Contains(s, m) /\ Contains(<<x>>, n)
           \/ Before(<<x>>, m, n)
    BY <1>1, BeforeConcat
  <1>4. /\ Contains(<<x>>, m) <=> x = m
        /\ Contains(<<x>>, n) <=> x = n
        /\ ~Before(<<x>>, m, n)
    BY OneElement
  <1> QED BY <1>1, <1>2, <1>3, <1>4

LEMMA HeadFirst ==
    ASSUME NEW T, NEW s \in Seq(T), s # <<>>, NEW m, NEW n
    PROVE  /\ Contains(s, m) <=> Head(s) = m \/ Contains(Tail(s), m)
           /\ Before(s, m, n) <=>
                 (Head(s) = m /\ Contains(Tail(s), n)) \/ Before(Tail(s), m, n)
  <1>1. /\ s = <<Head(s)>> \o Tail(s)
        /\ <<Head(s)>> \in Seq(T) /\ Tail(s) \in Seq(T)
    OBVIOUS
  <1>2. /\ Contains(<<Head(s)>> \o Tail(s), m) <=>
              Contains(<<Head(s)>>, m) \/ Contains(Tail(s), m)
        /\ Before(<<Head(s)>> \o Tail(s), m, n) <=>
              \/ Before(<<Head(s)>>, m, n)
              \/ Contains(<<Head(s)>>, m) /\ Contains(Tail(s), n)
              \/ Before(Tail(s), m, n)
    BY <1>1, ContainsConcat, BeforeConcat
  <1> QED BY <1>1, <1>2, OneElement

(* The same of five places: a sequence, one, a sequence, one, a sequence.   *)
Somewhere(a, x, c, y, e, m) ==
    Contains(a, m) \/ x = m \/ Contains(c, m) \/ y = m \/ Contains(e, m)
InOrder(a, x, c, y, e, m, n) ==
    \/ Before(a, m, n) \/ Before(c, m, n) \/ Before(e, m, n)
    \/ Contains(a, m) /\ (x = n \/ Contains(c, n) \/ y = n \/ Contains(e, n))
    \/ x = m /\ (Contains(c, n) \/ y = n \/ Contains(e, n))
    \/ Contains(c, m) /\ (y = n \/ Contains(e, n))
    \/ y = m /\ Contains(e, n)

LEMMA Places ==
    ASSUME NEW T, NEW a \in Seq(T), NEW x \in T, NEW c \in Seq(T), NEW y \in T,
           NEW e \in Seq(T), NEW m, NEW n
    PROVE  LET line == a \o <<x>> \o c \o <<y>> \o e IN
           /\ Contains(line, m) <=> Somewhere(a, x, c, y, e, m)
           /\ Before(line, m, n) <=> InOrder(a, x, c, y, e, m, n)
  <1> DEFINE ax == Append(a, x)
             axc == ax \o c
             axcy == Append(axc, y)
             line == axcy \o e
  <1>1. /\ a \o <<x>> \o c \o <<y>> \o e = line
        /\ ax \in Seq(T) /\ axc \in Seq(T) /\ axcy \in Seq(T)
    <2>1. ax = a \o <<x>> /\ ax \in Seq(T)
      OBVIOUS
    <2> HIDE DEF ax
    <2>2. axc \in Seq(T)
      BY <2>1
    <2> HIDE DEF axc
    <2>3. axcy = axc \o <<y>> /\ axcy \in Seq(T)
      BY <2>2
    <2> QED BY <2>1, <2>2, <2>3 DEF axc
  <1>2. ASSUME NEW z
        PROVE  /\ Contains(ax, z) <=> Contains(a, z) \/ x = z
               /\ Before(ax, z, n) <=> Before(a, z, n) \/ (Contains(a, z) /\ x = n)
    BY Appended
  <1>3. ASSUME NEW z
        PROVE  /\ Contains(axc, z) <=> Contains(ax, z) \/ Contains(c, z)
               /\ Before(axc, z, n) <=> \/ Before(ax, z, n) \/ Before(c, z, n)
                                        \/ Contains(ax, z) /\ Contains(c, n)
    <2> HIDE DEF ax
    <2> QED BY <1>1, ContainsConcat, BeforeConcat
  <1>4. ASSUME NEW z
        PROVE  /\ Contains(axcy, z) <=> Contains(axc, z) \/ y = z
               /\ Before(axcy, z, n) <=> Before(axc, z, n) \/ (Contains(axc, z) /\ y = n)
    <2> HIDE DEF axc
    <2> QED BY <1>1, Appended
  <1>5. ASSUME NEW z
        PROVE  /\ Contains(line, z) <=> Contains(axcy, z) \/ Contains(e, z)
               /\ Before(line, z, n) <=> \/ Before(axcy, z, n) \/ Before(e, z, n)
                                         \/ Contains(axcy, z) /\ Contains(e, n)
    <2> HIDE DEF axcy
    <2> QED BY <1>1, ContainsConcat, BeforeConcat
  <1> HIDE DEF ax, axc, axcy, line
  <1> QED BY <1>1, <1>2, <1>3, <1>4, <1>5 DEF Somewhere, InOrder

(* The task is deleted only behind an unblocked queue; the pipes are opened *)
(* once, by a server that starts; nothing is written twice.                 *)
Onceness ==
    /\ task = "DELETED" => unblocked
    /\ server \in {"NONE", "INIT"} => pipes = "NONE"
    /\ \A m \in Requests : ~Before(written, m, m)

OrderInv == IInv /\ Types /\ Onceness /\ RequestsConserved

Things == Controls \cup {NoMessage}

LEMMA LineTypes ==
    ASSUME IInv, Types
    PROVE  /\ done \in Seq(Things) /\ msg \in Things /\ msg_list \in Seq(Things)
           /\ ctrl \in Things /\ pipe \in Seq(Things)
  <1>1. Seq(Requests) \subseteq Seq(Things) /\ Seq(Controls) \subseteq Seq(Things)
    BY DEF Things, Controls
  <1> QED
    BY <1>1 DEF IInv, TypeOK, Types, AnswerTypes, ServerTypes, Things, Controls, Requests

LEMMA OncenessStep ==
    ASSUME IInv, Types, Onceness, DmnNext
    PROVE  Onceness'
  <1> USE DEF Onceness
  <1>1. task' = "DELETED" => unblocked'
    <2>1. CASE Next
      BY <2>1 DEF IInv, Unblocking, Next, SendMsg, Unblock, Destroy, ReadThread,
         DeleteThis, DeleteTask, Bye, Join, OwnerDrops, ThreadMain, Main, Loop, Rcv,
         RcvWoken, TakeHead, Processed, DeleteRunnable, ThreadDrops, SpuriousWakeup,
         ThreadAt, OwnerAt, queueVars
    <2>2. CASE UNCHANGED vars
      BY <2>2 DEF vars, queueVars
    <2> QED BY <2>1, <2>2, StepsOfTask
  <1>2. server' \in {"NONE", "INIT"} => pipes' = "NONE"
    BY DEF Types, ManagerTypes, DmnNext, Launching, Launch, SignalWait, SignalWoken,
       UnblockThelper, ShuttingDown, UnblockProc, JoinThelper, ManagerAt, NothingElse,
       ServerMain, ProcInit, SignalReady, Receive, Handle, ProcPost, ReceiveFails,
       ServerAt, MessageThread, ProcReturns, TaskOnly, BeginAnswer, DaemonWrites,
       Write, DaemonReads, launchVars, pipeVars
  <1>3. ASSUME NEW m \in Requests PROVE ~Before(written', m, m)
    <2>1. CASE written' = written
      BY <2>1
    <2>2. CASE DaemonWrites
      <3>1. PICK w \in Requests \cup {INVALID} :
                   Write(w) /\ (w \in Requests => ~Contains(written, w))
        <4>1. CASE ~Contains(written, INVALID) /\ Write(INVALID)
          BY <4>1, ControlsAssumption DEF Requests
        <4>2. CASE Unwritten # {} /\ Write(CHOOSE w \in Unwritten : TRUE)
          BY <4>2 DEF Unwritten, ToSet, Contains, Types, WrittenTypes
        <4> QED BY <2>2, <4>1, <4>2 DEF DaemonWrites
      <3>2. written' = Append(written, w) /\ written \in Seq(Requests \cup {INVALID})
        BY <3>1 DEF Write, Types, WrittenTypes
      <3>3. Before(Append(written, w), m, m) <=>
               Before(written, m, m) \/ (Contains(written, m) /\ w = m)
        BY <3>2, Appended
      <3> QED BY <3>1, <3>2, <3>3
    <2> QED
      BY <2>1, <2>2
      DEF DmnNext, Launching, Launch, SignalWait, SignalWoken, UnblockThelper,
          ShuttingDown, UnblockProc, JoinThelper, NothingElse, ServerMain, ProcInit,
          SignalReady, Receive, Handle, ProcPost, ReceiveFails, MessageThread,
          ProcReturns, TaskOnly, BeginAnswer, DaemonReads, pipeVars
  <1> QED BY <1>1, <1>2, <1>3

(* What a step leaves in its order.                                         *)
SameLine ==
    \A m, n \in Requests :
        /\ Contains(Line', m) <=> Contains(Line, m)
        /\ Before(Line', m, n) <=> Before(Line, m, n)

(* A request moves along the line and overtakes nothing.                    *)
LEMMA LineStep ==
    ASSUME IInv, Types, Onceness, IInv', Types', DmnNext,
           ~unblocked', pipes' # "CLOSED"
    PROVE  \/ SameLine /\ written' = written
           \/ \E w \in Requests \cup {INVALID} :
                 /\ written' = Append(written, w) /\ Line' = Append(Line, w)
  <1> USE DEF Requests
  <1>1. ASSUME NEW m, NEW n
        PROVE  /\ Contains(Line, m) <=> Somewhere(done, msg, msg_list, ctrl, pipe, m)
               /\ Before(Line, m, n) <=> InOrder(done, msg, msg_list, ctrl, pipe, m, n)
    BY LineTypes, Places DEF Line
  <1>2. ASSUME NEW m, NEW n
        PROVE  /\ Contains(Line', m) <=> Somewhere(done', msg', msg_list', ctrl', pipe', m)
               /\ Before(Line', m, n) <=> InOrder(done', msg', msg_list', ctrl', pipe', m, n)
    <2>1. /\ done' \in Seq(Things) /\ msg' \in Things /\ msg_list' \in Seq(Things)
          /\ ctrl' \in Things /\ pipe' \in Seq(Things)
      <3>1. Seq(Requests) \subseteq Seq(Things) /\ Seq(Controls) \subseteq Seq(Things)
        BY DEF Things, Controls
      <3> QED
        BY <3>1 DEF IInv, TypeOK, Types, AnswerTypes, ServerTypes, Things, Controls
    <2> QED BY <2>1, Places DEF Line
  <1>3. CASE UNCHANGED <<done, msg, msg_list, ctrl, pipe, written>>
    BY <1>3 DEF SameLine, Line
  <1>4. CASE UnblockProc
    <2>1. CASE pipes = "OPEN"
      <3>1. /\ pipe' = Append(pipe, UNBLOCK) /\ pipe \in Seq(Things) /\ UNBLOCK \in Things
            /\ UNCHANGED <<done, msg, msg_list, ctrl, written>>
        BY <1>4, <2>1, LineTypes
        DEF UnblockProc, taskVars, vars, queueVars, answerVars, Things, Controls
      <3>2. ASSUME NEW m \in Requests, NEW n \in Requests
            PROVE  /\ Contains(pipe', m) <=> Contains(pipe, m)
                   /\ Before(pipe', m, n) <=> Before(pipe, m, n)
        BY <3>1, Appended, ControlsAssumption
      <3> QED BY <1>1, <1>2, <3>1, <3>2 DEF SameLine, Somewhere, InOrder
    <2>2. CASE pipes # "OPEN"
      BY <1>3, <1>4, <2>2 DEF UnblockProc, taskVars, vars, queueVars, answerVars
    <2> QED BY <2>1, <2>2
  <1>5. CASE Receive
    <2>1. /\ pipe # <<>> /\ pipe \in Seq(Things)
          /\ ctrl' = Head(pipe) /\ pipe' = Tail(pipe) /\ ctrl = NoMessage
          /\ UNCHANGED <<done, msg, msg_list, written>>
      BY <1>5, LineTypes
      DEF Receive, ServerAt, Types, ServerTypes, taskVars, vars, queueVars, answerVars
    <2>2. ASSUME NEW m \in Requests, NEW n \in Requests
          PROVE  /\ Contains(pipe, m) <=> ctrl' = m \/ Contains(pipe', m)
                 /\ Before(pipe, m, n) <=> (ctrl' = m /\ Contains(pipe', n)) \/ Before(pipe', m, n)
                 /\ Contains(pipe, n) <=> ctrl' = n \/ Contains(pipe', n)
                 /\ ctrl # m /\ ctrl # n
      BY <2>1, HeadFirst, NoMessageAssumption
    <2> QED BY <1>1, <1>2, <2>1, <2>2 DEF SameLine, Somewhere, InOrder
  <1>6. CASE Handle
    <2>1. ctrl' = NoMessage /\ UNCHANGED <<done, pipe, written>>
      BY <1>6 DEF Handle, answerVars
    <2>2. CASE ctrl \in Requests
      <3>1. task = "LIVE"
        <4>1. unblocked' = unblocked
          BY <1>6 DEF Handle, SendMsg, taskVars, vars, queueVars
        <4> QED BY <4>1 DEF Onceness, IInv, TypeOK
      <3>2. msg_list' = Append(msg_list, ctrl) /\ UNCHANGED msg /\ msg_list \in Seq(Requests)
        BY <1>6, <2>2, <3>1 DEF Handle, SendMsg, IInv, TypeOK
      <3>3. ASSUME NEW m \in Requests, NEW n \in Requests
            PROVE  /\ Contains(msg_list', m) <=> Contains(msg_list, m) \/ ctrl = m
                   /\ Contains(msg_list', n) <=> Contains(msg_list, n) \/ ctrl = n
                   /\ Before(msg_list', m, n) <=>
                         Before(msg_list, m, n) \/ (Contains(msg_list, m) /\ ctrl = n)
                   /\ ctrl' # m /\ ctrl' # n
        BY <2>1, <2>2, <3>2, Appended, NoMessageAssumption
      <3> QED BY <1>1, <1>2, <2>1, <3>2, <3>3 DEF SameLine, Somewhere, InOrder
    <2>3. CASE ctrl \notin Requests
      <3>1. UNCHANGED <<msg_list, msg>>
        BY <1>6, <2>3 DEF Handle, taskVars, vars, queueVars
      <3>2. ASSUME NEW m \in Requests PROVE ctrl # m /\ ctrl' # m
        BY <2>1, <2>3, NoMessageAssumption
      <3> QED BY <1>1, <1>2, <2>1, <3>1, <3>2 DEF SameLine, Somewhere, InOrder
    <2> QED BY <2>2, <2>3
  <1>7. CASE ProcReturns
    <2>1. /\ done' = Append(done, msg) /\ msg' = NoMessage /\ msg \in Requests
          /\ done \in Seq(Requests)
          /\ UNCHANGED <<msg_list, ctrl, pipe, written>>
      BY <1>7
      DEF ProcReturns, Processed, ThreadAt, IInv, TypeOK, Types, AnswerTypes,
          queueVars, pipeVars
    <2>2. ASSUME NEW m \in Requests, NEW n \in Requests
          PROVE  /\ Contains(done', m) <=> Contains(done, m) \/ msg = m
                 /\ Contains(done', n) <=> Contains(done, n) \/ msg = n
                 /\ Before(done', m, n) <=> Before(done, m, n) \/ (Contains(done, m) /\ msg = n)
                 /\ msg' # m /\ msg' # n
      BY <2>1, Appended, NoMessageAssumption
    <2> QED BY <1>1, <1>2, <2>1, <2>2 DEF SameLine, Somewhere, InOrder
  <1>8. CASE (TakeHead("RCV") \/ TakeHead("WOKEN")) /\ TaskOnly
    <2>1. /\ msg_list # <<>> /\ msg_list \in Seq(Requests)
          /\ msg' = Head(msg_list) /\ msg_list' = Tail(msg_list) /\ msg = NoMessage
          /\ UNCHANGED <<done, ctrl, pipe, written>>
      BY <1>8 DEF TakeHead, ThreadAt, TaskOnly, IInv, TypeOK, pipeVars, answerVars
    <2>2. ASSUME NEW m \in Requests, NEW n \in Requests
          PROVE  /\ Contains(msg_list, m) <=> msg' = m \/ Contains(msg_list', m)
                 /\ Contains(msg_list, n) <=> msg' = n \/ Contains(msg_list', n)
                 /\ Before(msg_list, m, n) <=>
                       (msg' = m /\ Contains(msg_list', n)) \/ Before(msg_list', m, n)
                 /\ msg # m /\ msg # n
      BY <2>1, HeadFirst, NoMessageAssumption
    <2> QED BY <1>1, <1>2, <2>1, <2>2 DEF SameLine, Somewhere, InOrder
  <1>9. CASE DaemonWrites
    <2>1. PICK w \in Requests \cup {INVALID} : Write(w)
      BY <1>9 DEF DaemonWrites, Unwritten
    <2>2. /\ pipe' = Append(pipe, w) /\ written' = Append(written, w)
          /\ UNCHANGED <<done, msg, msg_list, ctrl>>
      BY <2>1 DEF Write, taskVars, vars, queueVars, answerVars
    <2>3. Line' = Append(Line, w)
      <3>1. /\ done \in Seq(Things) /\ msg \in Things /\ msg_list \in Seq(Things)
            /\ ctrl \in Things /\ pipe \in Seq(Things) /\ w \in Things
        BY LineTypes DEF Things, Controls
      <3> DEFINE front == done \o <<msg>> \o msg_list \o <<ctrl>>
      <3>2. Line = front \o pipe /\ Line' = front \o Append(pipe, w)
        BY <2>2 DEF Line
      <3>3. front \in Seq(Things)
        BY <3>1
      <3> HIDE DEF front
      <3>4. front \o Append(pipe, w) = Append(front \o pipe, w)
        BY <3>1, <3>3
      <3> QED BY <3>2, <3>4
    <2> QED BY <2>2, <2>3
  <1>10. CASE Next /\ TaskOnly /\ (DeleteThis \/ DeleteRunnable)
    BY <1>10 DEF DeleteThis, DeleteRunnable, DeleteTask, IInv, Unblocking, ThreadAt, OwnerAt
  <1>11. CASE ProcPost
    BY <1>11 DEF ProcPost
  <1>12. CASE Launching \/ SignalWoken \/ UnblockThelper \/ JoinThelper
              \/ ProcInit \/ SignalReady \/ ReceiveFails \/ BeginAnswer \/ DaemonReads
    BY <1>3, <1>12
    DEF Launching, Launch, SignalWait, SignalWoken, UnblockThelper, JoinThelper,
        ProcInit, SignalReady, ReceiveFails, BeginAnswer, DaemonReads, NothingElse,
        taskVars, vars, queueVars, pipeVars, answerVars
  <1>13. CASE /\ TaskOnly
              /\ ~TakeHead("RCV") /\ ~TakeHead("WOKEN") /\ ~DeleteThis /\ ~DeleteRunnable
              /\ Main \/ Loop \/ Rcv \/ RcvWoken \/ ThreadDrops \/ Unblock \/ Destroy
                 \/ SpuriousWakeup
    BY <1>3, <1>13
    DEF Main, Loop, Rcv, RcvWoken, ThreadDrops, Unblock, Destroy, ReadThread, Bye, Join,
        OwnerDrops, SpuriousWakeup, TaskOnly, pipeVars, answerVars, queueVars
  <1>14. DeleteThis \/ DeleteRunnable => Next
    BY DEF Next, Destroy, ThreadMain
  <1> QED
    BY <1>4, <1>5, <1>6, <1>7, <1>8, <1>9, <1>10, <1>11, <1>12, <1>13, <1>14
    DEF DmnNext, ShuttingDown, ServerMain, MessageThread, Destroy

LEMMA ConservedStep ==
    ASSUME OrderInv, IInv', Types', DmnNext
    PROVE  RequestsConserved'
  <1> SUFFICES ASSUME ~unblocked', pipes' # "CLOSED", NEW m \in Requests, NEW n \in Requests
               PROVE  /\ Contains(Line', m) <=> Contains(written', m)
                      /\ ~Before(Line', m, m)
                      /\ Before(Line', m, n) <=> Before(written', m, n)
    BY DEF RequestsConserved
  <1>1. ~unblocked /\ pipes # "CLOSED"
    <2>1. ~unblocked
      <3>1. CASE Next
        BY <3>1 DEF Next, SendMsg, Unblock, Destroy, ReadThread,
           DeleteThis, DeleteTask, Bye, Join, OwnerDrops, ThreadMain, Main, Loop, Rcv,
           RcvWoken, Processed, DeleteRunnable, ThreadDrops, SpuriousWakeup, queueVars
      <3>2. CASE UNCHANGED vars
        BY <3>2 DEF vars, queueVars
      <3> QED BY <3>1, <3>2, StepsOfTask
    <2>2. pipes # "CLOSED"
      BY DEF OrderInv, Onceness, DmnNext, Launching, Launch, SignalWait, SignalWoken,
         UnblockThelper, ShuttingDown, UnblockProc, JoinThelper, NothingElse,
         ServerMain, ProcInit, SignalReady, Receive, Handle, ProcPost, ReceiveFails,
         ServerAt, MessageThread, ProcReturns, TaskOnly, BeginAnswer, DaemonWrites,
         Write, DaemonReads, pipeVars
    <2> QED BY <2>1, <2>2
  <1>2. /\ Contains(Line, m) <=> Contains(written, m)
        /\ ~Before(Line, m, m)
        /\ Before(Line, m, n) <=> Before(written, m, n)
        /\ Before(Line, m, m) <=> Before(written, m, m)
    BY <1>1 DEF OrderInv, RequestsConserved
  <1>3. CASE SameLine /\ written' = written
    BY <1>2, <1>3 DEF SameLine
  <1>4. ASSUME NEW w \in Requests \cup {INVALID},
               written' = Append(written, w), Line' = Append(Line, w)
        PROVE  /\ Contains(Line', m) <=> Contains(written', m)
               /\ ~Before(Line', m, m)
               /\ Before(Line', m, n) <=> Before(written', m, n)
    <2>1. Line \in Seq(Things) /\ w \in Things /\ written \in Seq(Requests \cup {INVALID})
      BY LineTypes DEF OrderInv, Types, WrittenTypes, Line, Things, Controls
    <2>2. ASSUME NEW p
          PROVE  /\ Contains(Append(Line, w), m) <=> Contains(Line, m) \/ w = m
                 /\ Before(Append(Line, w), m, p) <=>
                       Before(Line, m, p) \/ (Contains(Line, m) /\ w = p)
                 /\ Contains(Append(written, w), m) <=> Contains(written, m) \/ w = m
                 /\ Before(Append(written, w), m, p) <=>
                       Before(written, m, p) \/ (Contains(written, m) /\ w = p)
      <3>1. w \in Requests \cup {INVALID}
        OBVIOUS
      <3>2. /\ Contains(Append(Line, w), m) <=> Contains(Line, m) \/ w = m
            /\ Before(Append(Line, w), m, p) <=>
                  Before(Line, m, p) \/ (Contains(Line, m) /\ w = p)
        BY <2>1, Appended
      <3>3. /\ Contains(Append(written, w), m) <=> Contains(written, m) \/ w = m
            /\ Before(Append(written, w), m, p) <=>
                  Before(written, m, p) \/ (Contains(written, m) /\ w = p)
        BY <2>1, <3>1, Appended
      <3> QED BY <3>2, <3>3
    <2>3. ~Before(written', m, m)
      BY OncenessStep DEF OrderInv, Onceness
    <2> QED BY <1>2, <1>4, <2>2, <2>3
  <1> QED BY <1>3, <1>4, LineStep DEF OrderInv

(* Requests are neither lost, repeated nor overtaken on their way from the  *)
(* daemons' pipe to the engine, for any number of them and however the      *)
(* threads interleave.                                                      *)
THEOREM Conservation == DmnSpec => []RequestsConserved
  <1>1. DmnInit => OrderInv
    <2> SUFFICES ASSUME DmnInit PROVE OrderInv
      OBVIOUS
    <2>1. IInv /\ Types
      BY InitEstablishes, DmnInitTypes DEF DmnInit
    <2>2. Onceness
      BY OneElement DEF Onceness, DmnInit, Init
    <2>3. RequestsConserved
      <3>1. /\ done = <<>> /\ msg = NoMessage /\ msg_list = <<>> /\ ctrl = NoMessage
            /\ pipe = <<>> /\ written = <<>>
        BY DEF DmnInit, Init
      <3>2. ASSUME NEW m \in Requests, NEW n \in Requests
            PROVE  ~Contains(Line, m) /\ ~Before(Line, m, n)
        <4>1. /\ Contains(Line, m) <=> Somewhere(done, msg, msg_list, ctrl, pipe, m)
              /\ Before(Line, m, n) <=> InOrder(done, msg, msg_list, ctrl, pipe, m, n)
          BY <2>1, LineTypes, Places DEF Line
        <4>2. m # NoMessage /\ ~Contains(<<>>, m) /\ ~Before(<<>>, m, n)
          BY OneElement, NoMessageAssumption DEF Requests
        <4> QED BY <3>1, <4>1, <4>2 DEF Somewhere, InOrder
      <3> QED BY <3>1, <3>2, OneElement DEF RequestsConserved
    <2> QED BY <2>1, <2>2, <2>3 DEF OrderInv
  <1>2. OrderInv /\ [DmnNext]_dmnVars => OrderInv'
    <2> SUFFICES ASSUME OrderInv, [DmnNext]_dmnVars PROVE OrderInv'
      OBVIOUS
    <2>1. IInv' /\ Types'
      BY StepsOfTask, NextPreserves, DmnKeepsTypes DEF OrderInv
    <2>2. CASE DmnNext
      BY <2>1, <2>2, OncenessStep, ConservedStep DEF OrderInv
    <2>3. CASE UNCHANGED dmnVars
      BY <2>1, <2>3
      DEF OrderInv, Onceness, RequestsConserved, Line, dmnVars, taskVars, vars,
          queueVars, launchVars, pipeVars, answerVars
    <2> QED BY <2>2, <2>3
  <1>3. OrderInv => RequestsConserved
    BY DEF OrderInv
  <1> QED BY <1>1, <1>2, <1>3, PTL DEF DmnSpec
=============================================================================
