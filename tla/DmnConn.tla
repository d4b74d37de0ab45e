------------------------------ MODULE DmnConn ------------------------------
(* The connection to the positioning daemons (loc_eng_dmn_conn*.c* of       *)
(* gps/loc_api/libloc_api_50001), composed with the engine's message thread *)
(* (MsgTask).  A server thread reads the requests of daemons from a named   *)
(* pipe and posts them to the message thread, which answers into the pipes  *)
(* of the daemons while it processes messages.  The manager launches the    *)
(* server and may shut it down: loc_eng_agps_init, loc_eng_cleanup.         *)
(*                                                                          *)
(* The five pipes are one pair: requests in, answers out.                   *)
EXTENDS MsgTask, SequencesExt

CONSTANTS
    INVALID,    \* a control message that is read whole and ignored
    UNBLOCK,    \* GPSONE_UNBLOCK
    PIPE_ROOM   \* answers an answer pipe holds before a write to it blocks

ASSUME ControlsAssumption ==
    INVALID \notin Messages \cup {NoMessage} /\ UNBLOCK \notin Messages \cup {NoMessage}
ASSUME PipeRoomAssumption == PIPE_ROOM \in Nat \ {0}

(* The valid requests and releases of daemons, each read once.  Whoever     *)
(* else sends to the task only delays them.                                 *)
Requests == Messages

VARIABLES
    manager,        \* what the manager does next
    server,         \* what the server thread does next
    thread_ready,   \* thelper
    thread_exit,    \* thelper
    pipes,          \* "NONE", "OPEN", "CLOSED", or "FAILED" to open
    pipe,           \* what daemons have written and the server not read
    ctrl,           \* what the server has read and not handled
    failed,         \* history: did a read fail?
    answering,      \* does the message in process answer a daemon?
    answers,        \* answers in the pipe, unread
    written,        \* history: what the daemons have written, each once
    done            \* history: those processed, in order

taskVars == vars
launchVars == <<manager, server, thread_ready, thread_exit>>
pipeVars == <<pipes, pipe, ctrl, written, failed>>
answerVars == <<answering, answers, done>>
dmnVars == <<taskVars, launchVars, pipeVars, answerVars>>

DmnInit ==
    /\ Init
    /\ manager = "LAUNCH" /\ server = "NONE"
    /\ thread_ready = FALSE /\ thread_exit = FALSE
    /\ pipes = "NONE" /\ pipe = <<>> /\ ctrl = NoMessage
    /\ failed = FALSE
    /\ answering = FALSE /\ answers = 0
    /\ written = <<>> /\ done = <<>>

----------------------------------------------------------------------------
(* The manager                                                              *)

ManagerAt(step, next) == manager = step /\ manager' = next
NothingElse == UNCHANGED <<taskVars, pipeVars, answerVars>>

(* loc_eng_dmn_conn_launch_thelper, up to the wait.  The result of a        *)
(* create_thread_cb is not looked at: without a thread nobody will signal.  *)
Launch ==
    /\ ManagerAt("LAUNCH", "CREATED")
    /\ server' \in {"INIT", "ENDED"}
    /\ UNCHANGED <<thread_ready, thread_exit>>
    /\ NothingElse

(* thelper_signal_wait: one test, one wait.                                 *)
SignalWait ==
    /\ ManagerAt("CREATED", IF thread_ready \/ thread_exit THEN "BACK" ELSE "WAIT")
    /\ UNCHANGED <<server, thread_ready, thread_exit>>
    /\ NothingElse

(* Signalled, or not: the condition is not tested again, and a spurious     *)
(* wakeup ends a launch before the server is ready.                         *)
SignalWoken ==
    /\ ManagerAt("WOKEN", "BACK") \/ ManagerAt("WAIT", "BACK")
    /\ UNCHANGED <<server, thread_ready, thread_exit>>
    /\ NothingElse

(* loc_eng_dmn_conn_unblock_thelper                                         *)
UnblockThelper ==
    /\ ManagerAt("BACK", "FLAGGED")
    /\ thread_exit' = TRUE
    /\ UNCHANGED <<server, thread_ready>>
    /\ NothingElse

(* loc_eng_dmn_conn_unblock_proc: a message that makes the server look at   *)
(* the flag.  What is written before the pipe is open goes elsewhere: its   *)
(* descriptor is still 0.                                                   *)
UnblockProc ==
    /\ ManagerAt("FLAGGED", IF pipes = "NONE" THEN "JOIN_UNHEARD" ELSE "JOIN")
    /\ pipe' = IF pipes = "OPEN" THEN Append(pipe, UNBLOCK) ELSE pipe
    /\ UNCHANGED <<server, thread_ready, thread_exit, pipes, ctrl, written, failed>>
    /\ UNCHANGED <<taskVars, answerVars>>

(* pthread_join                                                             *)
JoinThelper ==
    /\ ManagerAt("JOIN", "JOINED") \/ ManagerAt("JOIN_UNHEARD", "JOINED")
    /\ server = "ENDED"
    /\ UNCHANGED <<server, thread_ready, thread_exit>>
    /\ NothingElse

Launching == Launch \/ SignalWait \/ (manager = "WOKEN" /\ SignalWoken)
ShuttingDown == UnblockProc \/ JoinThelper

----------------------------------------------------------------------------
(* The server thread: thelper_main and loc_api_server_proc                  *)

ServerAt(step, next) == server = step /\ server' = next

(* loc_api_server_proc_init reports success whatever becomes of the pipes.  *)
ProcInit ==
    /\ ServerAt("INIT", "SIGNAL")
    /\ pipes' \in {"OPEN", "FAILED"}
    /\ UNCHANGED <<manager, thread_ready, thread_exit, pipe, ctrl, written, failed>>
    /\ UNCHANGED <<taskVars, answerVars>>

(* Faulty variant: the flag is set and nobody is woken.                     *)
SignalReadyUnheard ==
    /\ ServerAt("SIGNAL", "READ")
    /\ thread_ready' = TRUE
    /\ UNCHANGED <<manager, thread_exit>>
    /\ NothingElse

(* thelper_signal_ready                                                     *)
SignalReady ==
    /\ ServerAt("SIGNAL", "READ")
    /\ thread_ready' = TRUE
    /\ manager' = IF manager = "WAIT" THEN "WOKEN" ELSE manager
    /\ UNCHANGED thread_exit
    /\ NothingElse

(* loc_eng_dmn_conn_glue_msgrcv                                             *)
Receive ==
    /\ ServerAt("READ", "HANDLE")
    /\ pipes = "OPEN" /\ pipe # <<>>
    /\ ctrl' = Head(pipe) /\ pipe' = Tail(pipe)
    /\ UNCHANGED <<manager, thread_ready, thread_exit, pipes, written, failed>>
    /\ UNCHANGED <<taskVars, answerVars>>

(* A read that fails, or returns less than the sender announced, ends the   *)
(* server: thelper_main takes the -1 for good.                              *)
ReceiveFails ==
    /\ ServerAt("READ", "CLOSE")
    /\ thread_exit' = TRUE
    /\ failed' = TRUE
    /\ UNCHANGED <<manager, thread_ready, pipes, pipe, ctrl, written>>
    /\ UNCHANGED <<taskVars, answerVars>>

(* Faulty variant: the result of the handler is returned.                   *)
HandleStrictly ==
    /\ server = "HANDLE"
    /\ IF ctrl \in Requests /\ task = "LIVE"
       THEN SendMsg(ctrl) /\ UNCHANGED thread_exit
       ELSE thread_exit' = (thread_exit \/ ctrl = INVALID) /\ UNCHANGED taskVars
    /\ server' = IF thread_exit' THEN "CLOSE" ELSE "READ"
    /\ ctrl' = NoMessage
    /\ UNCHANGED <<manager, thread_ready, pipes, pipe, written, failed, answerVars>>

(* The if_request and if_release handlers post a valid request; the result  *)
(* of an invalid one is dropped.  What is sent to a task that has been      *)
(* deleted is lost at best.  Then thelper_main tests thread_exit.           *)
Handle ==
    /\ server = "HANDLE"
    /\ IF ctrl \in Requests /\ task = "LIVE" THEN SendMsg(ctrl) ELSE UNCHANGED taskVars
    /\ server' = IF thread_exit THEN "CLOSE" ELSE "READ"
    /\ ctrl' = NoMessage
    /\ UNCHANGED <<manager, thread_ready, thread_exit, pipes, pipe, written,
                   failed, answerVars>>

(* loc_api_server_proc_post: the pipes are removed with what is in them,    *)
(* for the message thread too.                                              *)
ProcPost ==
    /\ ServerAt("CLOSE", "ENDED")
    /\ pipes' = "CLOSED"
    /\ pipe' = <<>> /\ answers' = 0
    /\ UNCHANGED <<manager, thread_ready, thread_exit, ctrl, written, failed>>
    /\ UNCHANGED <<taskVars, answering, done>>

ServerMain == ProcInit \/ SignalReady \/ Receive \/ Handle \/ ProcPost

----------------------------------------------------------------------------
(* The message thread: the steps of MsgTask, and the answers between them   *)

(* notifyRsrcStatus: while the thread processes a request, or an event that *)
(* decides an earlier one, the interface answers a daemon.                  *)
BeginAnswer ==
    /\ thread = "PROC" /\ ~answering
    /\ answering' = TRUE
    /\ UNCHANGED <<taskVars, launchVars, pipeVars, answers, done>>

(* proc of a message returns: after the write of the answer, if it has one. *)
(* loc_eng_dmn_conn_loc_api_server_data_conn blocks while the pipe is full; *)
(* a write to a pipe that is gone fails, which is ignored.                  *)
ProcReturns ==
    /\ Processed
    /\ IF answering /\ pipes = "OPEN"
       THEN answers < PIPE_ROOM /\ answers' = answers + 1
       ELSE UNCHANGED answers
    /\ answering' = FALSE
    /\ done' = Append(done, msg)
    /\ UNCHANGED <<launchVars, pipeVars>>

(* The other steps of the task's thread, and of its owner.                  *)
TaskOnly == UNCHANGED <<launchVars, pipeVars, answerVars>>

MessageThread ==
    \/ /\ Main \/ Loop \/ Rcv \/ RcvWoken \/ DeleteRunnable \/ ThreadDrops
       /\ TaskOnly
    \/ ProcReturns

----------------------------------------------------------------------------
(* The daemons                                                              *)

Write(m) ==
    /\ pipes = "OPEN"
    /\ pipe' = Append(pipe, m)
    /\ written' = Append(written, m)
    /\ UNCHANGED <<taskVars, launchVars, pipes, ctrl, failed, answerVars>>

Unwritten == Requests \ ToSet(written)

(* Requests differ in nothing but their order: any one may be the next.     *)
DaemonWrites ==
    \/ ~Contains(written, INVALID) /\ Write(INVALID)
    \/ Unwritten # {} /\ Write(CHOOSE m \in Unwritten : TRUE)

DaemonReads ==
    /\ answers > 0
    /\ answers' = answers - 1
    /\ UNCHANGED <<taskVars, launchVars, pipeVars, answering, done>>

----------------------------------------------------------------------------
DmnNext ==
    \/ Launching \/ SignalWoken \/ UnblockThelper \/ ShuttingDown
    \/ ServerMain \/ ReceiveFails
    \/ MessageThread \/ BeginAnswer
    \/ (Unblock \/ Destroy \/ SpuriousWakeup) /\ TaskOnly
    \/ DaemonWrites \/ DaemonReads

(* Threads that can run do; the daemons read their answers.  Nobody is made *)
(* to write, to shut down or to destroy, and no read has to fail but one    *)
(* from a pipe that is not there.                                           *)
DmnFairness ==
    /\ WF_dmnVars(Launching) /\ WF_dmnVars(ShuttingDown)
    /\ WF_dmnVars(ServerMain) /\ WF_dmnVars(pipes = "FAILED" /\ ReceiveFails)
    /\ WF_dmnVars(MessageThread) /\ WF_dmnVars(Destroy /\ TaskOnly)
    /\ WF_dmnVars(DaemonReads)

DmnSpec == DmnInit /\ [][DmnNext]_dmnVars /\ DmnFairness

----------------------------------------------------------------------------
(* Properties                                                               *)

ManagerSteps ==
    {"LAUNCH", "CREATED", "WAIT", "WOKEN", "BACK", "FLAGGED", "JOIN",
     "JOIN_UNHEARD", "JOINED"}
ServerSteps == {"NONE", "INIT", "SIGNAL", "READ", "HANDLE", "CLOSE", "ENDED"}

(* The task's variables and the connection's have their types, and the      *)
(* server holds a message exactly while it handles one.                     *)
DmnTypeOK ==
    /\ TypeOK
    /\ manager \in ManagerSteps /\ server \in ServerSteps
    /\ {thread_ready, thread_exit, failed, answering} \subseteq BOOLEAN
    /\ pipes \in {"NONE", "OPEN", "CLOSED", "FAILED"}
    /\ pipe \in Seq(Requests \cup {INVALID, UNBLOCK})
    /\ ctrl \in Requests \cup {INVALID, UNBLOCK, NoMessage}
    /\ ctrl # NoMessage <=> server = "HANDLE"
    /\ answers \in 0 .. PIPE_ROOM
    /\ answering => thread = "PROC"
    /\ written \in Seq(Requests \cup {INVALID}) /\ done \in Seq(Requests)

(* Where a request may be, from the engine back to the daemon.              *)
Line == done \o <<msg>> \o msg_list \o <<ctrl>> \o pipe

(* m stands somewhere before n; before itself, if it is there twice.        *)
Before(s, m, n) ==
    \E j \in 1 .. Len(s) : \E k \in j + 1 .. Len(s) : s[j] = m /\ s[k] = n

(* Until task or server go, every valid request is in exactly one place     *)
(* between the daemon and the engine, and all are in the order they were    *)
(* written: two threads, a pipe and a queue neither lose, repeat nor        *)
(* overtake one, whatever invalid messages lie between.                     *)
RequestsConserved ==
    ~unblocked /\ pipes # "CLOSED" =>
        \A m \in Requests :
            /\ Contains(Line, m) <=> Contains(written, m)
            /\ ~Before(Line, m, m)
            /\ \A n \in Requests : Before(Line, m, n) <=> Before(written, m, n)

(* A request that is written is processed, though the message thread may    *)
(* block in the answers to others, unless its server is shut down or lost   *)
(* its pipe first, or there is no message thread (any more).                *)
Unserved(m) ==
    \/ m \notin sent /\ (failed \/ manager \in {"FLAGGED", "JOIN", "JOIN_UNHEARD", "JOINED"})
    \/ owner # "IDLE" \/ thread = "NONE"
RequestReachesEngine ==
    \A m \in Requests :
        Contains(written, m) ~> (Contains(done, m) \/ Unserved(m))

(* The manager is never left waiting for the server: a launch returns once  *)
(* there is a server, and a shutdown ends it whatever it is doing; neither  *)
(* wakeup is lost, but for a shutdown after a launch that was over before   *)
(* the pipe was open.                                                       *)
ManagerReturns ==
    /\ manager = "CREATED" ~> (manager = "BACK" \/ server = "ENDED")
    /\ manager = "JOIN" ~> server = "ENDED"
=============================================================================
