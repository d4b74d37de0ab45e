------------------------------ MODULE LocTimer ------------------------------
(* The timer service, gps/utils/LocTimer.cpp: clients start and stop timers *)
(* from any thread; a message thread keeps the running ones in a heap and   *)
(* calls the clients back; a polling thread waits for the one timerfd,      *)
(* which is set for the timer that expires first.                           *)
(*                                                                          *)
(* One container of timers (timers and alarms have one each).  Time is in   *)
(* seconds, as LocTimerDelegate::ranks compares it.  The heap is a set:     *)
(* timers of the same second may be popped in any order.  LocHeap is the    *)
(* heap that this set stands for.                                           *)
EXTENDS LocHeap, Sequences, FiniteSets

CONSTANTS
    Clients,      \* LocTimer objects, which outlive the runs
    Delays,       \* time outs they ask for
    MaxStarts,    \* bound: starts of each client
    MaxTime,      \* bound: of the clock
    NULL

ASSUME ConstantsAssumption ==
    /\ Delays \subseteq Nat
    /\ MaxStarts \in Nat /\ MaxTime \in Nat
    /\ NULL \notin Nat \cup [client : Clients, no : Nat, due : Nat]

VARIABLES
    now,          \* CLOCK_BOOTTIME
    starts,       \* how often each client has started its timer
    mTimer,       \* the client's running timer, or NULL
    live,         \* LocTimerDelegate objects not yet deleted
    mTree,        \* those in the heap
    msgs,         \* queue of the message thread
    expiring,     \* the handler of MsgTimerExpire: its step, clock and timer
    armed,        \* time the timerfd is set for, or NULL
    polled,       \* is the timerfd in the epoll set?
    pollPc,       \* step of the polling thread
    calledBack    \* history: timers whose client was called back

clientVars == <<starts, mTimer>>
heapVars == <<live, mTree>>
fdVars == <<armed, polled>>
vars == <<now, clientVars, heapVars, msgs, expiring, fdVars, pollPc, calledBack>>

Delegates == [client : Clients, no : 1 .. MaxStarts, due : 0 .. MaxTime]
Idle == [pc |-> "idle", clock |-> 0, timer |-> NULL]

(* LocTimerDelegate::mClient, nulled together with the client's mTimer.     *)
HasClient(d) == mTimer[d.client] = d

SoonestOf(tree) == {d \in tree : \A e \in tree : d.due <= e.due}

Init ==
    /\ now = 0
    /\ starts = [c \in Clients |-> 0]
    /\ mTimer = [c \in Clients |-> NULL]
    /\ live = {} /\ mTree = {}
    /\ msgs = <<>>
    /\ expiring = Idle
    /\ armed = NULL /\ polled = FALSE
    /\ pollPc = "epoll_wait"
    /\ calledBack = {}

----------------------------------------------------------------------------
(* Any thread, under the lock of the timer                                  *)

Send(kind, d) == msgs' = Append(msgs, [kind |-> kind, timer |-> d])

(* LocTimer::start does nothing if the timer is running.                    *)
Start(c, delay) ==
    /\ mTimer[c] = NULL
    /\ starts[c] < MaxStarts /\ now + delay <= MaxTime
    /\ starts' = [starts EXCEPT ![c] = @ + 1]
    /\ LET d == [client |-> c, no |-> starts[c] + 1, due |-> now + delay] IN
          /\ mTimer' = [mTimer EXCEPT ![c] = d]
          /\ live' = live \cup {d}
          /\ Send("Push", d)
    /\ UNCHANGED <<now, mTree, expiring, fdVars, pollPc, calledBack>>

(* Faulty variant: stopped without a look at the lock: the second of two    *)
(* threads sends Remove once more.                                          *)
DoStopTwice(c) ==
    /\ Send("Remove", mTimer[c])
    /\ UNCHANGED <<now, starts, mTimer, heapVars, fdVars, pollPc>>

(* Faulty variant: only the heap's timers are sent for removal.             *)
DoStopUnlessPopped(c) ==
    /\ mTimer' = [mTimer EXCEPT ![c] = NULL]
    /\ IF mTimer[c] \in mTree THEN Send("Remove", mTimer[c]) ELSE UNCHANGED msgs
    /\ UNCHANGED <<now, starts, heapVars, fdVars, pollPc>>

(* LocTimer::stop of a running timer, which then returns true.              *)
DoStop(c) ==
    /\ mTimer' = [mTimer EXCEPT ![c] = NULL]
    /\ Send("Remove", mTimer[c])
    /\ UNCHANGED <<now, starts, heapVars, fdVars, pollPc>>

Stop(c) ==
    /\ mTimer[c] # NULL
    /\ DoStop(c)
    /\ UNCHANGED <<expiring, calledBack>>

----------------------------------------------------------------------------
(* The message thread                                                       *)

Take(kind, d) ==
    /\ expiring.pc = "idle"
    /\ msgs # <<>> /\ Head(msgs) = [kind |-> kind, timer |-> d]
    /\ msgs' = Tail(msgs)

(* updateSoonestTime(NULL): an empty heap leaves the timerfd as it is.      *)
SetSoonest ==
    IF mTree' = {} THEN UNCHANGED fdVars
    ELSE /\ polled' = TRUE
         /\ \E d \in SoonestOf(mTree') : armed' = d.due

(* Faulty variant: the timerfd is set only when the heap was empty.         *)
PushFirst(d) ==
    /\ Take("Push", d)
    /\ mTree' = mTree \cup {d}
    /\ IF mTree = {} THEN SetSoonest ELSE UNCHANGED fdVars
    /\ UNCHANGED <<now, clientVars, live, expiring, pollPc, calledBack>>

(* MsgTimerPush: the timerfd is set if the new timer is now the soonest.    *)
Push(d) ==
    /\ Take("Push", d)
    /\ mTree' = mTree \cup {d}
    /\ IF \A e \in mTree : d.due < e.due THEN SetSoonest ELSE UNCHANGED fdVars
    /\ UNCHANGED <<now, clientVars, live, expiring, pollPc, calledBack>>

(* Faulty variant: the object is deleted and stays in the heap.             *)
RemoveDangling(d) ==
    /\ Take("Remove", d)
    /\ live' = live \ {d}
    /\ UNCHANGED <<now, clientVars, mTree, fdVars, expiring, pollPc, calledBack>>

(* MsgTimerRemove: the timerfd is set again if the timer was the top, which *)
(* another of the same second may have been instead; the object is deleted  *)
(* whether or not it is still in the heap.                                  *)
Remove(d) ==
    /\ Take("Remove", d)
    /\ mTree' = mTree \ {d}
    /\ \/ d \in SoonestOf(mTree) /\ SetSoonest
       \/ SoonestOf(mTree) # {d} /\ UNCHANGED fdVars
    /\ live' = live \ {d}
    /\ UNCHANGED <<now, clientVars, expiring, pollPc, calledBack>>

(* MsgTimerExpire: the clock is read, then the top is popped whatever its   *)
(* time, and after it the timers that are not later than the clock.         *)
Expire ==
    /\ Take("Expire", NULL)
    /\ expiring' = [pc |-> "pop first", clock |-> now, timer |-> NULL]
    /\ UNCHANGED <<now, clientVars, heapVars, fdVars, pollPc, calledBack>>

Pop ==
    /\ expiring.pc \in {"pop first", "pop next"}
    /\ \E d \in SoonestOf(mTree) :
          /\ expiring.pc = "pop next" => d.due <= expiring.clock
          /\ mTree' = mTree \ {d}
          /\ expiring' = [expiring EXCEPT !.pc = "expire", !.timer = d]
    /\ UNCHANGED <<now, clientVars, live, msgs, fdVars, pollPc, calledBack>>

PopNone ==
    /\ \/ expiring.pc = "pop first" /\ mTree = {}
       \/ expiring.pc = "pop next" /\ \A d \in mTree : d.due > expiring.clock
    /\ expiring' = Idle
    /\ UNCHANGED mTree /\ SetSoonest
    /\ UNCHANGED <<now, clientVars, live, msgs, pollPc, calledBack>>

(* LocTimerDelegate::expire copies mClient, without the lock.               *)
ReadClient ==
    /\ expiring.pc = "expire"
    /\ expiring' = IF HasClient(expiring.timer) THEN [expiring EXCEPT !.pc = "stop"]
                   ELSE [expiring EXCEPT !.pc = "pop next", !.timer = NULL]
    /\ UNCHANGED <<now, clientVars, heapVars, msgs, fdVars, pollPc, calledBack>>

(* client->stop(), of whatever timer the client has by now; then its        *)
(* callback, which may start the timer again.                               *)
StopAndCall ==
    /\ expiring.pc = "stop"
    /\ LET c == expiring.timer.client IN
          IF mTimer[c] = NULL
          THEN UNCHANGED <<now, clientVars, heapVars, msgs, fdVars, pollPc, calledBack>>
          ELSE DoStop(c) /\ calledBack' = calledBack \cup {mTimer[c]}
    /\ expiring' = [expiring EXCEPT !.pc = "pop next", !.timer = NULL]

MsgThread ==
    \/ \E d \in live : Push(d) \/ Remove(d)
    \/ Expire \/ Pop \/ PopNone \/ ReadClient \/ StopAndCall

----------------------------------------------------------------------------
(* The polling thread: epoll_wait and LocTimerContainer::expire             *)

Wake ==
    /\ pollPc = "epoll_wait"
    /\ polled /\ armed # NULL /\ armed <= now
    /\ pollPc' = "disarm"
    /\ UNCHANGED <<now, clientVars, heapVars, msgs, expiring, fdVars, calledBack>>

Disarm ==
    /\ pollPc = "disarm"
    /\ armed' = NULL
    /\ pollPc' = "removePoll"
    /\ UNCHANGED <<now, clientVars, heapVars, msgs, expiring, polled, calledBack>>

RemovePoll ==
    /\ pollPc = "removePoll"
    /\ polled' = FALSE
    /\ pollPc' = "sendMsg"
    /\ UNCHANGED <<now, clientVars, heapVars, msgs, expiring, armed, calledBack>>

(* Faulty variant: Expire is not sent if the timerfd was set meanwhile.     *)
SendExpireUnlessArmed ==
    /\ pollPc = "sendMsg"
    /\ IF armed = NULL THEN Send("Expire", NULL) ELSE UNCHANGED msgs
    /\ pollPc' = "epoll_wait"
    /\ UNCHANGED <<now, clientVars, heapVars, expiring, fdVars, calledBack>>

SendExpire ==
    /\ pollPc = "sendMsg"
    /\ Send("Expire", NULL)
    /\ pollPc' = "epoll_wait"
    /\ UNCHANGED <<now, clientVars, heapVars, expiring, fdVars, calledBack>>

PollThread == Wake \/ Disarm \/ RemovePoll \/ SendExpire

Tick ==
    /\ now < MaxTime
    /\ now' = now + 1
    /\ UNCHANGED <<clientVars, heapVars, msgs, expiring, fdVars, pollPc, calledBack>>

Next ==
    \/ \E c \in Clients : Stop(c) \/ \E delay \in Delays : Start(c, delay)
    \/ MsgThread
    \/ PollThread
    \/ Tick

Fairness == WF_vars(MsgThread) /\ WF_vars(PollThread) /\ WF_vars(Tick)

Spec == Init /\ [][Next]_vars /\ Fairness

----------------------------------------------------------------------------
InQueue(kind) == {msgs[k].timer : k \in {j \in 1 .. Len(msgs) : msgs[j].kind = kind}}
Running == {mTimer[c] : c \in Clients} \ {NULL}

TypeOK ==
    /\ now \in 0 .. MaxTime
    /\ starts \in [Clients -> 0 .. MaxStarts]
    /\ mTimer \in [Clients -> Delegates \cup {NULL}]
    /\ live \subseteq Delegates /\ mTree \subseteq live
    /\ msgs \in Seq([kind : {"Push", "Remove", "Expire"}, timer : Delegates \cup {NULL}])
    /\ expiring \in [pc : {"idle", "pop first", "pop next", "expire", "stop"},
                     clock : 0 .. MaxTime, timer : Delegates \cup {NULL}]
    /\ armed \in (0 .. MaxTime) \cup {NULL}
    /\ polled \in BOOLEAN
    /\ pollPc \in {"epoll_wait", "disarm", "removePoll", "sendMsg"}
    /\ calledBack \subseteq Delegates

(* No delegate is used once it is deleted: by the heap, a message, or the   *)
(* handler that is expiring it.                                             *)
NoDanglingTimer ==
    /\ mTree \cup InQueue("Push") \cup InQueue("Remove") \subseteq live
    /\ expiring.pc = "expire" => expiring.timer \in live
    /\ Running \subseteq live

(* "All timers are deleted here, and only here": one that has ended has one *)
(* Remove in the queue, and so is deleted; none is leaked or deleted twice. *)
EndedAreRemoved ==
    /\ live \ Running = InQueue("Remove")
    /\ \A j, k \in 1 .. Len(msgs) :
          msgs[j] = msgs[k] /\ msgs[j].kind # "Expire" => j = k

(* Whatever the polling thread takes away from the timerfd while the        *)
(* message thread sets it, once no Expire is due the timerfd is set and     *)
(* polled for the soonest timer.                                            *)
ExpireDue == pollPc # "epoll_wait" \/ NULL \in InQueue("Expire") \/ expiring # Idle
SoonestIsArmed ==
    mTree # {} /\ ~ExpireDue =>
       polled /\ armed # NULL /\ \A d \in mTree : armed <= d.due

(* "Continuously pop the heap until the top node's timeout is in the        *)
(* future": no client is called back before its time.                       *)
NotEarly == [][\A d \in calledBack' \ calledBack : d.due <= now]_vars

(* A set may take the place of the heap: whatever is done to the empty heap *)
(* that the service begins with, its top is the soonest, and each operation *)
(* adds or takes the one timer it is meant to (LocHeap.cpp).                *)
HeapServes == Init => HeapSorts

(* Every timer that is started is stopped or called back.                   *)
TimerEnds == \A c \in Clients, n \in 1 .. MaxStarts :
    (mTimer[c] # NULL /\ mTimer[c].no = n) ~> (mTimer[c] = NULL \/ mTimer[c].no # n)
=============================================================================
