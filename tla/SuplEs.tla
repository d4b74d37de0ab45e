------------------------------- MODULE SuplEs -------------------------------
(* Data connections for emergency SUPL sessions: DSStateMachine             *)
(* (gps/loc_api/libloc_api_50001/loc_eng_agps.cpp), which brings up a data  *)
(* call through ds_client, retries when the modem is busy, and falls back   *)
(* to an ordinary connection on agnss_nif, an AgpsStateMachine; and the     *)
(* message handlers of loc_eng.cpp that choose between the two machines.    *)
(* Handlers run on the engine's message thread, in the order of the queue.  *)
EXTENDS Naturals, Sequences

CONSTANTS
    Ids,          \* ATL connection handles the modem gives its sessions
    MaxRetries,   \* MAX_START_DATA_CALL_RETRIES
    MaxPending,   \* bound: queues of agnss_nif
    NULL

ASSUME ConstantsAssumption ==
    /\ MaxRetries \in Nat
    /\ MaxPending \in Nat
    /\ NULL \notin Ids

VARIABLES
    mState, mRetries,   \* of ds_nif
    mSubscribers,       \* of ds_nif, newest first: ID and mIsInactive
    timers,             \* retry timers started and not expired
    call,               \* the data call, as the data service knows it
    msgs,               \* the engine's message queue
    wants,              \* what the modem does with each handle, once
    told,               \* the ATL status ds_nif last reported for it
    handedOver,         \* history: handles for which agnss_nif was asked
    agState, agSubscribers, agClient, toAfw, fromAfw, afw   \* agnss_nif

agnssVars == <<agState, agSubscribers, agClient, toAfw, fromAfw, afw>>
dsVars == <<mState, mRetries, mSubscribers, timers, told, handedOver>>
vars == <<dsVars, call, msgs, wants, agnssVars>>

agnss == INSTANCE AgpsStateMachine WITH
    mState <- agState, mSubscribers <- agSubscribers, client <- agClient,
    kind <- "mobile", EngineRestarts <- FALSE

States == {"Released", "Pending", "Acquired", "Releasing"}
Outcomes == {"SUCCESS", "BUSY", "UNSUPPORTED"}

Msg(kind, i) == [kind |-> kind, id |-> i]
Entry(i, inactive) == [ID |-> i, mIsInactive |-> inactive]

Init ==
    /\ mState = "Released" /\ mRetries = 0 /\ mSubscribers = <<>> /\ timers = 0
    /\ call = "none"
    /\ msgs = <<>>
    /\ wants = [i \in Ids |-> "new"]
    /\ told = [i \in Ids |-> "none"]
    /\ handedOver = {}
    /\ agnss!Init

(* The active subscribers, in the order of the list.                        *)
ActiveOf(list) ==
    LET kept[n \in 0 .. Len(list)] ==
            IF n = 0 THEN <<>>
            ELSE IF list[n].mIsInactive THEN kept[n - 1]
            ELSE Append(kept[n - 1], list[n])
    IN  kept[Len(list)]
IdsOf(list) == {list[k].ID : k \in 1 .. Len(list)}

Added(i) == IF i \in IdsOf(mSubscribers) THEN mSubscribers
            ELSE <<Entry(i, FALSE)>> \o mSubscribers
Deactivated(i) == [k \in 1 .. Len(mSubscribers) |->
                      IF mSubscribers[k].ID = i THEN Entry(i, TRUE) ELSE mSubscribers[k]]

(* The message thread takes the next message, and appends those it sends.   *)
Take(kind, i) == msgs # <<>> /\ Head(msgs) = Msg(kind, i)
Post(new) == msgs' = Tail(msgs) \o new

(* informStatus(RSRC_DENIED): the handles are passed on to agnss_nif.       *)
HandOver(ids) ==
    /\ Post([k \in 1 .. Len(ids) |-> Msg("RequestATL", ids[k])])
    /\ handedOver' = handedOver \cup {ids[k] : k \in 1 .. Len(ids)}
    /\ mRetries' = 0

(* Faulty variant: the retries are not counted.                             *)
RequestCallUncapped(outcome, callBefore) ==
    \/ /\ outcome = "SUCCESS"
       /\ call' = "starting"
       /\ Post(<<>>)
       /\ UNCHANGED <<mRetries, timers, handedOver>>
    \/ /\ outcome = "BUSY"
       /\ mRetries' = mRetries + 1
       /\ timers' = timers + 1
       /\ call' = callBefore
       /\ Post(<<>>)
       /\ UNCHANGED handedOver
    \/ /\ outcome = "UNSUPPORTED"
       /\ HandOver(<<ActiveOf(mSubscribers')[1].ID>>)
       /\ call' = callBefore
       /\ UNCHANGED timers

(* Faulty variant: the retry timer is not started.                          *)
RequestCallUntimed(outcome, callBefore) ==
    \/ /\ outcome = "SUCCESS"
       /\ call' = "starting"
       /\ Post(<<>>)
       /\ UNCHANGED <<mRetries, timers, handedOver>>
    \/ /\ outcome = "BUSY" /\ mRetries < MaxRetries
       /\ mRetries' = mRetries + 1
       /\ call' = callBefore
       /\ Post(<<>>)
       /\ UNCHANGED <<timers, handedOver>>
    \/ /\ outcome = "UNSUPPORTED" \/ (outcome = "BUSY" /\ mRetries >= MaxRetries)
       /\ HandOver(<<ActiveOf(mSubscribers')[1].ID>>)
       /\ call' = callBefore
       /\ UNCHANGED timers

(* DSStateMachine::sendRsrcRequest(GPS_REQUEST_AGPS_DATA_CONN), once the    *)
(* list has changed: the call is started, or retried in a while, or the     *)
(* newest active subscriber is passed on; every failure leaves the list.    *)
RequestCall(outcome, callBefore) ==
    \/ /\ outcome = "SUCCESS"
       /\ call' = "starting"
       /\ Post(<<>>)
       /\ UNCHANGED <<mRetries, timers, handedOver>>
    \/ /\ outcome = "BUSY" /\ mRetries < MaxRetries
       /\ mRetries' = mRetries + 1
       /\ timers' = timers + 1
       /\ call' = callBefore
       /\ Post(<<>>)
       /\ UNCHANGED handedOver
    \/ /\ outcome = "UNSUPPORTED" \/ (outcome = "BUSY" /\ mRetries >= MaxRetries)
       /\ HandOver(<<ActiveOf(mSubscribers')[1].ID>>)
       /\ call' = callBefore
       /\ UNCHANGED timers

StopCall == call' = IF call \in {"starting", "up"} THEN "stopping" ELSE call

----------------------------------------------------------------------------
(* LocEngRequestSuplEs: from the modem, or from the retry timer             *)

SubscribeReleased(i) ==
    /\ mState = "Released"
    /\ Take("RequestSuplEs", i)
    /\ mSubscribers' = Added(i)
    /\ \E outcome \in Outcomes :
          RequestCall(outcome, call)
          /\ mState' = IF outcome = "SUCCESS" THEN "Pending" ELSE "Released"
    /\ UNCHANGED <<told, wants, agnssVars>>

(* Faulty variant: the subscriber is not put on the list.                   *)
SubscribeWaitingUnlisted(i) ==
    /\ mState \in {"Pending", "Releasing"}
    /\ Take("RequestSuplEs", i)
    /\ Post(<<>>)
    /\ UNCHANGED <<mState, mRetries, mSubscribers, timers, told, handedOver, call,
                   wants, agnssVars>>

SubscribeWaiting(i) ==
    /\ mState \in {"Pending", "Releasing"}
    /\ Take("RequestSuplEs", i)
    /\ mSubscribers' = Added(i)
    /\ Post(<<>>)
    /\ UNCHANGED <<mState, mRetries, timers, told, handedOver, call, wants, agnssVars>>

SubscribeAcquired(i) ==
    /\ mState = "Acquired"
    /\ Take("RequestSuplEs", i)
    /\ mSubscribers' = Added(i)
    /\ told' = [told EXCEPT ![i] = "open"]
    /\ Post(<<>>)
    /\ UNCHANGED <<mState, mRetries, timers, handedOver, call, wants, agnssVars>>

----------------------------------------------------------------------------
(* LocEngReleaseATL: the first machine that has the handle, agnss_nif before*)
(* ds_nif, unsubscribes it                                                  *)

ReleaseAgnss(i) ==
    /\ Take("ReleaseATL", i)
    /\ agnss!Unsubscribe(i)
    /\ Post(<<>>)
    /\ UNCHANGED <<dsVars, call, wants>>

(* setInactive or the Released state's answer: told closed at once, and     *)
(* still on the list; the last active one stops the call.                   *)
ReleaseDs(i) ==
    /\ Take("ReleaseATL", i)
    /\ i \notin agnss!Subscribed
    /\ i \in IdsOf(mSubscribers)
    /\ told' = [told EXCEPT ![i] = "closed"]
    /\ IF mState = "Released" THEN UNCHANGED <<mState, mSubscribers, call>>
       ELSE /\ mSubscribers' = Deactivated(i)
            /\ IF mState # "Releasing" /\ ActiveOf(mSubscribers') = <<>>
               THEN mState' = "Releasing" /\ StopCall
               ELSE UNCHANGED <<mState, call>>
    /\ Post(<<>>)
    /\ UNCHANGED <<mRetries, timers, handedOver, wants, agnssVars>>

(* Nobody has it: the close is reported as failed.                          *)
ReleaseUnknown(i) ==
    /\ Take("ReleaseATL", i)
    /\ i \notin agnss!Subscribed \cup IdsOf(mSubscribers)
    /\ told' = [told EXCEPT ![i] = "closed"]
    /\ Post(<<>>)
    /\ UNCHANGED <<mState, mRetries, mSubscribers, timers, handedOver, call,
                   wants, agnssVars>>

(* LocEngRequestATL, which a fallback has sent.                             *)
RequestAtl(i) ==
    /\ Take("RequestATL", i)
    /\ agnss!Subscribe(i)
    /\ Post(<<>>)
    /\ UNCHANGED <<dsVars, call, wants>>

----------------------------------------------------------------------------
(* LocEngSuplEsOpened, LocEngSuplEsClosed: DSStateMachine::onRsrcEvent      *)

(* Faulty variant: a call that came up after it was given back is taken.    *)
OnOpenedLate ==
    /\ Take("Opened", NULL)
    /\ IF mState \notin {"Pending", "Releasing"} THEN UNCHANGED <<mState, told>>
       ELSE /\ mState' = "Acquired"
            /\ told' = [i \in Ids |-> IF i \in IdsOf(ActiveOf(mSubscribers)) THEN "open"
                                      ELSE told[i]]
    /\ Post(<<>>)
    /\ UNCHANGED <<mRetries, mSubscribers, timers, handedOver, call, wants, agnssVars>>

OnOpened ==
    /\ Take("Opened", NULL)
    /\ IF mState # "Pending" THEN UNCHANGED <<mState, told>>
       ELSE /\ mState' = "Acquired"
            /\ told' = [i \in Ids |-> IF i \in IdsOf(ActiveOf(mSubscribers)) THEN "open"
                                      ELSE told[i]]
    /\ Post(<<>>)
    /\ UNCHANGED <<mRetries, mSubscribers, timers, handedOver, call, wants, agnssVars>>

(* Pending ignores RELEASED, so the event becomes DENIED: everyone is       *)
(* passed on and taken off the list.                                        *)
OnClosedPending ==
    /\ mState = "Pending"
    /\ Take("Closed", NULL)
    /\ HandOver([k \in 1 .. Len(mSubscribers) |-> mSubscribers[k].ID])
    /\ mSubscribers' = <<>>
    /\ mState' = "Released"
    /\ UNCHANGED <<timers, told, call, wants, agnssVars>>

(* The call was lost: closeDataCall for each; nobody is told.               *)
OnClosedAcquired ==
    /\ mState = "Acquired"
    /\ Take("Closed", NULL)
    /\ mSubscribers' = <<>>
    /\ mState' = "Released"
    /\ call' = "none"
    /\ Post(<<>>)
    /\ UNCHANGED <<mRetries, timers, told, handedOver, wants, agnssVars>>

(* closeDataCall for the inactive; the active get a new call, and Pending   *)
(* whatever sendRsrcRequest returns.                                        *)
OnClosedReleasing ==
    /\ mState = "Releasing"
    /\ Take("Closed", NULL)
    /\ mSubscribers' = ActiveOf(mSubscribers)
    /\ IF mSubscribers' # <<>>
       THEN mState' = "Pending" /\ \E outcome \in Outcomes : RequestCall(outcome, "none")
       ELSE /\ mState' = "Released" /\ call' = "none"
            /\ Post(<<>>)
            /\ UNCHANGED <<mRetries, timers, handedOver>>
    /\ UNCHANGED <<told, wants, agnssVars>>

(* The Released state would ignore it, and does not meet it.                *)
OnClosed == OnClosedPending \/ OnClosedAcquired \/ OnClosedReleasing

----------------------------------------------------------------------------
(* Other threads: they append to the message queue                          *)

Send(m) == msgs' = Append(msgs, m)

(* DSStateMachine::retryCallback, on the timer's thread.                    *)
RetryCallback ==
    /\ timers > 0
    /\ timers' = timers - 1
    /\ LET active == ActiveOf(mSubscribers) IN
          IF active = <<>> THEN UNCHANGED msgs
          ELSE Send(Msg("RequestSuplEs", active[1].ID))
    /\ UNCHANGED <<mState, mRetries, mSubscribers, told, handedOver, call, wants, agnssVars>>

(* net_ev_cb, on the data service's thread: the call is up, did not come up,*)
(* is lost, or has stopped.                                                 *)
CallConnected ==
    /\ call = "starting"
    /\ call' = "up"
    /\ Send(Msg("Opened", NULL))
    /\ UNCHANGED <<dsVars, wants, agnssVars>>

CallDisconnected ==
    /\ call # "none"
    /\ call' = "none"
    /\ Send(Msg("Closed", NULL))
    /\ UNCHANGED <<dsVars, wants, agnssVars>>

(* The modem opens an emergency session with a new handle, one at a time,   *)
(* and closes it.                                                           *)
OpenSession(i) ==
    /\ wants[i] = "new"
    /\ \A j \in Ids : wants[j] # "asked"
    /\ wants' = [wants EXCEPT ![i] = "asked"]
    /\ Send(Msg("RequestSuplEs", i))
    /\ UNCHANGED <<dsVars, call, agnssVars>>

CloseSession(i) ==
    /\ wants[i] = "asked"
    /\ wants' = [wants EXCEPT ![i] = "done"]
    /\ Send(Msg("ReleaseATL", i))
    /\ UNCHANGED <<dsVars, call, agnssVars>>

(* agnss_nif and the framework by themselves.                               *)
AgnssStep ==
    /\ agnss!OnRsrcEvent \/ agnss!Afw \/ agnss!AfwLost
    /\ UNCHANGED <<dsVars, call, msgs, wants>>

Next ==
    \/ \E i \in Ids :
          \/ SubscribeReleased(i) \/ SubscribeWaiting(i) \/ SubscribeAcquired(i)
          \/ ReleaseAgnss(i) \/ ReleaseDs(i) \/ ReleaseUnknown(i) \/ RequestAtl(i)
          \/ OpenSession(i) \/ CloseSession(i)
    \/ OnOpened \/ OnClosed
    \/ RetryCallback
    \/ CallConnected \/ CallDisconnected
    \/ AgnssStep

Spec == Init /\ [][Next]_vars

----------------------------------------------------------------------------
Queued(kind) == {msgs[k].id : k \in {j \in 1 .. Len(msgs) : msgs[j].kind = kind}}

TypeOK ==
    /\ mState \in States
    /\ mRetries \in 0 .. MaxRetries
    /\ mSubscribers \in Seq([ID : Ids, mIsInactive : BOOLEAN])
    /\ timers \in Nat
    /\ call \in {"none", "starting", "up", "stopping"}
    /\ msgs \in Seq([kind : {"RequestSuplEs", "ReleaseATL", "RequestATL", "Opened",
                             "Closed"}, id : Ids \cup {NULL}])
    /\ wants \in [Ids -> {"new", "asked", "done"}]
    /\ told \in [Ids -> {"none", "open", "closed"}]
    /\ handedOver \subseteq Ids
    /\ agnss!TypeOK

(* A session that has been told nothing and was not passed on to agnss_nif  *)
(* is an active subscriber, or its request is still queued: neither a busy  *)
(* modem nor the end of an earlier call makes the machine forget it.        *)
Unanswered == {i \in Ids : wants[i] = "asked" /\ told[i] = "none" /\ i \notin handedOver}
NotForgotten ==
    Unanswered \subseteq IdsOf(ActiveOf(mSubscribers)) \cup Queued("RequestSuplEs")

(* While the machine is Released such a session is about to be tried again, *)
(* unless a closed session is still listed as active (ReleaseDs above):     *)
(* that one may be the newest and take the retry.                           *)
Ghosts == {i \in IdsOf(ActiveOf(mSubscribers)) :
              wants[i] = "done" /\ i \notin Queued("ReleaseATL")}
RetryUnderWay ==
    mState = "Released" /\ Unanswered # {} /\ Ghosts = {} =>
       timers > 0 \/ Queued("RequestSuplEs") # {}

(* An acquired machine has its call, or will hear that it ended: no event of*)
(* an earlier call, however late, is taken for the present one's.           *)
AcquiredHasCall ==
    mState = "Acquired" => call = "up" \/ NULL \in Queued("Closed")

(* "In case the data call setup fails we want to retry in Released state":  *)
(* a Pending machine with an unanswered session is waiting for something, a *)
(* call that is starting or stopping, an event, or a retry.                 *)
AnswerOnItsWay ==
    mState = "Pending" /\ Unanswered # {} =>
       call \in {"starting", "stopping"} \/ timers > 0 \/ msgs # <<>>
=============================================================================
