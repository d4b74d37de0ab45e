------------------------------ MODULE MsgTask ------------------------------
(* The message thread: MsgTask.cpp over msg_q.c and LocThread.cpp of        *)
(* gps/utils.                                                               *)
(*                                                                          *)
(* The owner constructs the task, which starts its thread, and may destroy  *)
(* it.  The thread runs the task's loop, deletes the task on its way out    *)
(* and drops its share of the LocThreadDelegate, which both hold.  Others   *)
(* send messages.  A step is a critical section of the queue's mutex, or    *)
(* one access to what is shared without one.                                *)
EXTENDS Naturals, Sequences, FiniteSets

CONSTANTS
    Messages,   \* what is sent, each once
    NoMessage

ASSUME NoMessageAssumption == NoMessage \notin Messages

VARIABLES
    owner,      \* what the owner does next
    thread,     \* what the thread does next
    task,       \* the MsgTask object: "LIVE", "DELETED"
    mThread,    \* MsgTask: is the pointer to its thread set?
    msg_list,   \* msg_q: the messages
    unblocked,  \* msg_q
    msg,        \* the message the thread processes
    mRunnable,  \* LocThreadDelegate: is the pointer to the task set?
    mJoinable,  \* LocThreadDelegate
    mRefCount,  \* LocThreadDelegate
    sent        \* the messages that have been sent

queueVars == <<msg_list, unblocked>>
delegateVars == <<mRunnable, mJoinable, mRefCount>>
vars == <<owner, thread, task, mThread, queueVars, msg, delegateVars, sent>>

(* The constructor: the thread is created, joinable or not, or cannot be.   *)
Init ==
    /\ task = "LIVE"
    /\ msg_list = <<>> /\ unblocked = FALSE
    /\ msg = NoMessage
    /\ owner = "IDLE"
    /\ sent = {}
    /\ \/ /\ mThread = TRUE
          /\ thread = "MAIN"
          /\ mRunnable = TRUE /\ mJoinable \in BOOLEAN /\ mRefCount = 2
       \/ /\ mThread = FALSE
          /\ thread = "NONE"
          /\ mRunnable = FALSE /\ mJoinable = FALSE /\ mRefCount = 0

----------------------------------------------------------------------------
(* Those who send                                                           *)

(* Faulty variant: the thread is not woken.                                 *)
WakeNobody == thread

(* pthread_cond_signal, pthread_cond_broadcast: one thread waits at most.   *)
Wake == IF thread = "WAIT" THEN "WOKEN" ELSE thread

(* msg_q_snd.  A message that is refused is not seen again.                 *)
SendMsg(m) ==
    /\ task = "LIVE"
    /\ m \notin sent
    /\ sent' = sent \cup {m}
    /\ \/ /\ ~unblocked
          /\ msg_list' = Append(msg_list, m)
          /\ thread' = Wake
       \/ /\ unblocked
          /\ UNCHANGED <<msg_list, thread>>
    /\ UNCHANGED <<owner, task, mThread, unblocked, msg, delegateVars>>

----------------------------------------------------------------------------
(* The owner: MsgTask::destroy                                              *)

OwnerAt(step, next) == owner = step /\ owner' = next

(* msg_q_unblock.                                                           *)
Unblock ==
    /\ OwnerAt("IDLE", "READ")
    /\ unblocked' = TRUE
    /\ thread' = Wake
    /\ UNCHANGED <<task, mThread, msg_list, msg, delegateVars, sent>>

(* mThread is read and reset.  The thread may have deleted the task by now: *)
(* what is read then is what was there, or anything.                        *)
ReadThread ==
    /\ \/ OwnerAt("READ", "BYE") /\ task = "LIVE" /\ mThread
       \/ OwnerAt("READ", "DELETE") /\ task = "LIVE" /\ ~mThread
       \/ OwnerAt("READ", "BYE") /\ task = "DELETED"
       \/ OwnerAt("READ", "CRASH") /\ task = "DELETED"
    /\ mThread' = FALSE
    /\ UNCHANGED <<thread, task, queueVars, msg, delegateVars, sent>>

(* ~MsgTask flushes and destroys the queue.                                 *)
DeleteTask ==
    /\ task' = "DELETED"
    /\ msg_list' = <<>>
    /\ UNCHANGED unblocked

(* Without a thread the owner deletes the task itself.                      *)
DeleteThis ==
    /\ OwnerAt("DELETE", "DONE")
    /\ DeleteTask
    /\ UNCHANGED <<thread, mThread, msg, delegateVars, sent>>

(* Faulty variant: a joinable thread's delegate is let go before the join.  *)
ByeDestroysFirst ==
    /\ OwnerAt("BYE", IF mJoinable THEN "JOIN" ELSE "DONE")
    /\ mRunnable' = (mRunnable /\ ~mJoinable)
    /\ mJoinable' = FALSE
    /\ mRefCount' = IF mRefCount > 0 THEN mRefCount - 1 ELSE 0
    /\ UNCHANGED <<thread, task, mThread, queueVars, msg, sent>>

(* ~LocThread calls bye: a joinable thread is stopped, a detached one let   *)
(* go.                                                                      *)
Bye ==
    /\ OwnerAt("BYE", IF mJoinable THEN "JOIN" ELSE "DROP")
    /\ mRunnable' = (mRunnable /\ ~mJoinable)
    /\ mJoinable' = FALSE
    /\ UNCHANGED <<thread, task, mThread, queueVars, msg, mRefCount, sent>>

(* pthread_join.                                                            *)
Join ==
    /\ OwnerAt("JOIN", "DROP")
    /\ thread = "ENDED"
    /\ UNCHANGED <<thread, task, mThread, queueVars, msg, delegateVars, sent>>

(* LocThreadDelegate::destroy: who is last deletes the delegate.            *)
OwnerDrops ==
    /\ OwnerAt("DROP", "DONE")
    /\ mRefCount' = IF mRefCount > 0 THEN mRefCount - 1 ELSE 0
    /\ UNCHANGED <<thread, task, mThread, queueVars, msg, mRunnable,
                   mJoinable, sent>>

Destroy == ReadThread \/ DeleteThis \/ Bye \/ Join \/ OwnerDrops

----------------------------------------------------------------------------
(* The thread: LocThreadDelegate::threadMain and MsgTask::run               *)

ThreadAt(step, next) == thread = step /\ thread' = next

(* It reads mRunnable; if the owner has stopped it before, the task is      *)
(* never run, nor deleted.                                                  *)
Main ==
    /\ ThreadAt("MAIN", IF mRunnable THEN "LOOP" ELSE "DROP")
    /\ UNCHANGED <<owner, task, mThread, queueVars, msg, delegateVars, sent>>

(* isRunning, before each run.                                              *)
Loop ==
    /\ ThreadAt("LOOP", IF mRunnable THEN "RCV" ELSE "DELETE")
    /\ UNCHANGED <<owner, task, mThread, queueVars, msg, delegateVars, sent>>

(* Faulty variant: what was added last is taken first.                      *)
TakeLast(step) ==
    /\ ThreadAt(step, "PROC")
    /\ msg_list # <<>>
    /\ msg' = msg_list[Len(msg_list)]
    /\ msg_list' = SubSeq(msg_list, 1, Len(msg_list) - 1)

(* linked_list_remove.                                                      *)
TakeHead(step) ==
    /\ ThreadAt(step, "PROC")
    /\ msg_list # <<>>
    /\ msg' = Head(msg_list)
    /\ msg_list' = Tail(msg_list)

(* msg_q_rcv, on entry: refused when unblocked, messages or not.            *)
Rcv ==
    /\ \/ ThreadAt("RCV", "DELETE") /\ unblocked /\ UNCHANGED <<msg_list, msg>>
       \/ ~unblocked /\ TakeHead("RCV")
       \/ /\ ThreadAt("RCV", "WAIT")
          /\ ~unblocked /\ msg_list = <<>>
          /\ UNCHANGED <<msg_list, msg>>
    /\ UNCHANGED <<owner, task, mThread, unblocked, delegateVars, sent>>

(* Faulty variant: the condition is tested once, as if every wakeup meant a *)
(* message.                                                                 *)
RcvWokenOnce ==
    /\ \/ TakeHead("WOKEN")
       \/ /\ ThreadAt("WOKEN", "DELETE")
          /\ msg_list = <<>>
          /\ UNCHANGED <<msg_list, msg>>
    /\ UNCHANGED <<owner, task, mThread, unblocked, delegateVars, sent>>

(* msg_q_rcv, after a wakeup: it waits again, or fails, or takes a message  *)
(* even from a queue that has been unblocked.                               *)
RcvWoken ==
    /\ \/ TakeHead("WOKEN")
       \/ /\ msg_list = <<>>
          /\ ThreadAt("WOKEN", IF unblocked THEN "DELETE" ELSE "WAIT")
          /\ UNCHANGED <<msg_list, msg>>
    /\ UNCHANGED <<owner, task, mThread, unblocked, delegateVars, sent>>

(* pthread_cond_wait may return by itself.                                  *)
SpuriousWakeup ==
    /\ ThreadAt("WAIT", "WOKEN")
    /\ UNCHANGED <<owner, task, mThread, queueVars, msg, delegateVars, sent>>

(* Faulty variant: the message outlives its processing.                     *)
ProcessedHolding ==
    /\ ThreadAt("PROC", "LOOP")
    /\ UNCHANGED <<owner, task, mThread, queueVars, msg, delegateVars, sent>>

(* proc has returned.                                                       *)
Processed ==
    /\ ThreadAt("PROC", "LOOP")
    /\ msg' = NoMessage
    /\ UNCHANGED <<owner, task, mThread, queueVars, delegateVars, sent>>

(* The thread deletes what it ran.                                          *)
DeleteRunnable ==
    /\ ThreadAt("DELETE", "DROP")
    /\ DeleteTask
    /\ mRunnable' = FALSE
    /\ UNCHANGED <<owner, mThread, msg, mJoinable, mRefCount, sent>>

ThreadDrops ==
    /\ ThreadAt("DROP", "ENDED")
    /\ mRefCount' = IF mRefCount > 0 THEN mRefCount - 1 ELSE 0
    /\ UNCHANGED <<owner, task, mThread, queueVars, msg, mRunnable,
                   mJoinable, sent>>

ThreadMain ==
    \/ Main \/ Loop \/ Rcv \/ RcvWoken \/ Processed
    \/ DeleteRunnable \/ ThreadDrops

Next ==
    \/ \E m \in Messages : SendMsg(m)
    \/ Unblock
    \/ Destroy
    \/ ThreadMain
    \/ SpuriousWakeup

(* Threads that can run do; nobody is made to send or to destroy.           *)
Spec == Init /\ [][Next]_vars /\ WF_vars(ThreadMain) /\ WF_vars(Destroy)

----------------------------------------------------------------------------
(* Properties                                                               *)

OwnerSteps == {"IDLE", "READ", "BYE", "DELETE", "JOIN", "DROP", "DONE", "CRASH"}
ThreadSteps ==
    {"NONE", "MAIN", "LOOP", "RCV", "WAIT", "WOKEN", "PROC", "DELETE",
     "DROP", "ENDED"}

(* Every variable has its type, and the thread holds a message exactly      *)
(* while it processes one.                                                  *)
TypeOK ==
    /\ owner \in OwnerSteps /\ thread \in ThreadSteps
    /\ task \in {"LIVE", "DELETED"}
    /\ {mThread, unblocked, mRunnable, mJoinable} \subseteq BOOLEAN
    /\ msg_list \in Seq(Messages)
    /\ msg \in Messages \cup {NoMessage}
    /\ msg # NoMessage <=> thread = "PROC"
    /\ mRefCount \in 0 .. 2
    /\ sent \subseteq Messages

(* What each still does with the delegate.                                  *)
OwnerHolds == owner \in {"BYE", "JOIN", "DROP"}
ThreadHolds == thread \notin {"NONE", "ENDED"}

(* Whoever still uses the delegate finds it: its count reaches zero, and it *)
(* is deleted, only when the thread has ended and the owner let go, in      *)
(* whatever order they do; and the thread never runs a deleted task.        *)
DelegateOutlivesUsers ==
    /\ ThreadHolds => mRefCount >= 1
    /\ OwnerHolds => mRefCount >= 1
    /\ ThreadHolds /\ OwnerHolds => mRefCount = 2
    /\ thread \in ThreadSteps \ {"NONE", "MAIN", "DROP", "ENDED"} => task = "LIVE"

(* A task whose destruction has begun is deleted, whatever waits in the     *)
(* queue and wherever the thread is: unless the owner stopped a joinable    *)
(* thread before it began.                                                  *)
StoppedUnseen == ~mRunnable /\ thread \in {"MAIN", "DROP", "ENDED"}
TaskFreed == owner # "IDLE" ~> (task = "DELETED" \/ StoppedUnseen)

(* The task is a channel, unserved if its thread could not be created:      *)
(* messages accepted are processed in order, once, with no wakeup lost, and *)
(* what waits at the destruction is processed or discarded.                 *)
Channel ==
    INSTANCE MsgChannel WITH
        waiting <- msg_list,
        handling <- msg,
        state <- IF unblocked THEN "CLOSED"
                 ELSE IF thread = "NONE" THEN "UNSERVED" ELSE "OPEN"

ImplementsChannel == Channel!Spec
=============================================================================
