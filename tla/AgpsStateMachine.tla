-------------------------- MODULE AgpsStateMachine --------------------------
(* One network interface (NIF) shared by assisted-GPS clients, the class    *)
(* AgpsStateMachine of gps/loc_api/libloc_api_50001/loc_eng_agps.cpp: the   *)
(* clients subscribe, the first one makes the machine ask the Android       *)
(* framework (AFW) for the interface, the last one to leave makes it        *)
(* release it.  An instance is agnss_nif or internet_nif (clients of the    *)
(* modem and of a daemon, gone at once when they unsubscribe) or wifi_nif   *)
(* (one client at a time, which stays, inactive, until the interface is     *)
(* down).  DSStateMachine, the subclass for emergency calls, is in SuplEs.  *)
(*                                                                          *)
(* Every handler is a message that the engine's one message thread          *)
(* processes whole.  The AFW runs by itself: a FIFO each way.               *)
EXTENDS Naturals, Sequences

CONSTANTS
    Ids,             \* Subscriber::ID, all of one subscriber class
    EngineRestarts,  \* may the modem restart (loc_eng_handle_engine_up)?
    MaxPending       \* bound: messages in each FIFO when the environment acts

ASSUME ConstantsAssumption ==
    /\ EngineRestarts \in BOOLEAN
    /\ MaxPending \in Nat

VARIABLES
    kind,           \* which interface it is: never changes
    mState,         \* mStatePtr
    mSubscribers,   \* each ID's entry in the list, and its mIsInactive
    client,         \* what each client was last told, or has asked for since
    toAfw,          \* actions given to mServicer->requestRsrc, unhandled
    fromAfw,        \* events the AFW reported, unhandled
    afw             \* the connection, as the AFW knows it

machineVars == <<mState, mSubscribers, client>>
vars == <<kind, machineVars, toAfw, fromAfw, afw>>

(* mEnforceSingleSubscriber and Subscriber::waitForCloseComplete: both are  *)
(* peculiar to wifi_nif.                                                    *)
Kinds == {"mobile", "wifi"}
EnforceSingle == kind = "wifi"
WaitsForClose == kind = "wifi"

States == {"Released", "Pending", "Acquired", "Releasing"}
Actions == {"REQUEST", "RELEASE"}
Events == {"GRANTED", "RELEASED", "DENIED"}

Active == {i \in Ids : mSubscribers[i] = "active"}
Inactive == {i \in Ids : mSubscribers[i] = "inactive"}
Subscribed == Active \cup Inactive

(* linked_list_empty starts true, and nothing was asked.                    *)
Init ==
    /\ kind \in Kinds
    /\ mState = "Released"
    /\ mSubscribers = [i \in Ids |-> "absent"]
    /\ client = [i \in Ids |-> "idle"]
    /\ toAfw = <<>>
    /\ fromAfw = <<>>
    /\ afw = "down"

(* addSubscriber keeps the entry an ID already has.                         *)
AddSubscriber(i) ==
    mSubscribers' = [mSubscribers EXCEPT ![i] = IF @ = "absent" THEN "active" ELSE @]

(* notifySubscribers to a group: RELEASED and DENIED leave it with nothing. *)
Tell(group, what) ==
    client' = [i \in Ids |-> IF i \in group THEN what ELSE client[i]]
Delete(group) ==
    mSubscribers' = [i \in Ids |-> IF i \in group THEN "absent" ELSE mSubscribers[i]]

(* Faulty variant: the comparison inverted.                                 *)
SendRsrcRequestInverted(action) ==
    toAfw' = IF (Active' = {}) # (action = "RELEASE") THEN Append(toAfw, action)
                                                      ELSE toAfw

(* sendRsrcRequest, after the list has changed: a RELEASE goes out only if  *)
(* no active subscriber is left, a REQUEST only if there is one.            *)
SendRsrcRequest(action) ==
    toAfw' = IF (Active' = {}) = (action = "RELEASE") THEN Append(toAfw, action)
                                                      ELSE toAfw

----------------------------------------------------------------------------
(* A client asks for the interface: subscribeRsrc                           *)

RoomForClients == Len(toAfw) < MaxPending /\ Len(fromAfw) < MaxPending

(* A second subscriber is told DENIED, and so is the first if it repeats    *)
(* its request: it is told it failed and stays subscribed.                  *)
SubscribeRefused(i) ==
    /\ EnforceSingle
    /\ Subscribed # {}
    /\ client' = [client EXCEPT ![i] = "idle"]
    /\ UNCHANGED <<mState, mSubscribers, toAfw, fromAfw, afw>>

MayJoin == RoomForClients /\ ~(EnforceSingle /\ Subscribed # {})

SubscribeReleased(i) ==
    /\ mState = "Released"
    /\ MayJoin
    /\ AddSubscriber(i)
    /\ client' = [client EXCEPT ![i] = "requested"]
    /\ SendRsrcRequest("REQUEST")
    /\ mState' = "Pending"
    /\ UNCHANGED <<fromAfw, afw>>

(* No notification until GRANTED.                                           *)
SubscribeWaiting(i) ==
    /\ mState \in {"Pending", "Releasing"}
    /\ MayJoin
    /\ AddSubscriber(i)
    /\ client' = [client EXCEPT ![i] = "requested"]
    /\ UNCHANGED <<mState, toAfw, fromAfw, afw>>

(* The interface is in hand: granted right away.                            *)
SubscribeAcquired(i) ==
    /\ mState = "Acquired"
    /\ MayJoin
    /\ AddSubscriber(i)
    /\ client' = [client EXCEPT ![i] = "granted"]
    /\ UNCHANGED <<mState, toAfw, fromAfw, afw>>

Subscribe(i) ==
    \/ SubscribeRefused(i)
    \/ SubscribeReleased(i)
    \/ SubscribeWaiting(i)
    \/ SubscribeAcquired(i)

----------------------------------------------------------------------------
(* A client is done with the interface: unsubscribeRsrc, which does nothing *)
(* for an ID not on the list.                                               *)

(* The subscriber leaves, or becomes inactive until the interface is down.  *)
Leave(i) ==
    IF WaitsForClose
    THEN /\ mSubscribers' = [mSubscribers EXCEPT ![i] = "inactive"]
         /\ client' = [client EXCEPT ![i] = "releasing"]
    ELSE Delete({i}) /\ Tell({i}, "idle")

(* Faulty variant: released as soon as somebody leaves.                     *)
UnsubscribeHeldAlways(i) ==
    /\ mState \in {"Pending", "Acquired"}
    /\ i \in Subscribed
    /\ RoomForClients
    /\ Leave(i)
    /\ mState' = IF Subscribed' = {} THEN "Released" ELSE "Releasing"
    /\ SendRsrcRequest("RELEASE")
    /\ UNCHANGED <<fromAfw, afw>>

(* Faulty variant: the state is not left when the list becomes empty.       *)
UnsubscribeHeldStays(i) ==
    /\ mState \in {"Pending", "Acquired"}
    /\ i \in Subscribed
    /\ RoomForClients
    /\ Leave(i)
    /\ SendRsrcRequest("RELEASE")
    /\ UNCHANGED <<mState, fromAfw, afw>>

(* AgpsPendingState and AgpsAcquiredState: the last active subscriber to    *)
(* leave gives the interface back.                                          *)
UnsubscribeHeld(i) ==
    /\ mState \in {"Pending", "Acquired"}
    /\ i \in Subscribed
    /\ RoomForClients
    /\ Leave(i)
    /\ mState' = IF Subscribed' = {} THEN "Released"
                 ELSE IF Active' = {} THEN "Releasing" ELSE mState
    /\ SendRsrcRequest("RELEASE")
    /\ UNCHANGED <<fromAfw, afw>>

UnsubscribeReleasing(i) ==
    /\ mState = "Releasing"
    /\ i \in Subscribed
    /\ Leave(i)
    /\ mState' = IF Subscribed' = {} THEN "Released" ELSE mState
    /\ UNCHANGED <<toAfw, fromAfw, afw>>

(* AgpsReleasedState answers an unsubscriber without removing it; it needs  *)
(* one on the list, which ReleasedIsEmpty excludes.                         *)
Unsubscribe(i) == UnsubscribeHeld(i) \/ UnsubscribeReleasing(i)

----------------------------------------------------------------------------
(* An event from the AFW: onRsrcEvent                                       *)

Receive(event) ==
    /\ fromAfw # <<>>
    /\ Head(fromAfw) = event
    /\ fromAfw' = Tail(fromAfw)

(* Faulty variant: only one of the waiting subscribers is told.             *)
OnGrantedFirst ==
    /\ mState = "Pending"
    /\ Receive("GRANTED")
    /\ \E i \in Active : Tell({i}, "granted")
    /\ mState' = "Acquired"
    /\ UNCHANGED <<mSubscribers, toAfw, afw>>

OnGranted ==
    /\ mState = "Pending"
    /\ Receive("GRANTED")
    /\ Tell(Active, "granted")
    /\ mState' = "Acquired"
    /\ UNCHANGED <<mSubscribers, toAfw, afw>>

(* Denied, or released by force: everyone is told and taken off the list.   *)
OnTakenAway ==
    /\ \/ mState = "Pending" /\ Receive("DENIED")
       \/ mState = "Acquired" /\ Receive("RELEASED")
    /\ Tell(Subscribed, "idle")
    /\ Delete(Subscribed)
    /\ mState' = "Released"
    /\ UNCHANGED <<toAfw, afw>>

(* The interface is down: the inactive subscribers are told and deleted,    *)
(* and if somebody subscribed meanwhile it is requested again.              *)
OnClosed ==
    /\ mState = "Releasing"
    /\ Receive("RELEASED") \/ Receive("DENIED")
    /\ Tell(Inactive, "idle")
    /\ Delete(Inactive)
    /\ SendRsrcRequest("REQUEST")
    /\ mState' = IF Active' # {} THEN "Pending" ELSE "Released"
    /\ UNCHANGED afw

OnIgnored ==
    /\ \/ mState = "Released" /\ \E e \in Events : Receive(e)
       \/ mState = "Pending" /\ Receive("RELEASED")
       \/ mState = "Acquired" /\ (Receive("GRANTED") \/ Receive("DENIED"))
       \/ mState = "Releasing" /\ Receive("GRANTED")
    /\ UNCHANGED <<machineVars, toAfw, afw>>

OnRsrcEvent == OnGranted \/ OnTakenAway \/ OnClosed \/ OnIgnored

(* The modem is back: loc_eng_handle_engine_up drops the list and leaves    *)
(* the state; the clients, in the modem, are gone with their requests.      *)
(* Only agnss_nif and internet_nif are treated so.                          *)
EngineUp ==
    /\ EngineRestarts
    /\ ~EnforceSingle
    /\ Subscribed # {}
    /\ mSubscribers' = [i \in Ids |-> "absent"]
    /\ client' = [i \in Ids |-> "idle"]
    /\ UNCHANGED <<mState, toAfw, fromAfw, afw>>

----------------------------------------------------------------------------
(* The AFW, external: it opens the connection or fails, closes one that is  *)
(* open or opening when told to, and may lose it.  It handles the actions   *)
(* in order and does not wait for an opening one before it takes the next.  *)

Report(event) == fromAfw' = Append(fromAfw, event)

AfwRequest ==
    /\ toAfw # <<>> /\ Head(toAfw) = "REQUEST"
    /\ toAfw' = Tail(toAfw)
    /\ \/ afw = "up" /\ Report("GRANTED") /\ UNCHANGED afw
       \/ afw # "up" /\ afw' = "opening" /\ UNCHANGED fromAfw
    /\ UNCHANGED machineVars

AfwOpened ==
    /\ afw = "opening"
    /\ \/ afw' = "up" /\ Report("GRANTED")
       \/ afw' = "down" /\ Report("DENIED")
    /\ UNCHANGED <<machineVars, toAfw>>

AfwRelease ==
    /\ toAfw # <<>> /\ Head(toAfw) = "RELEASE"
    /\ toAfw' = Tail(toAfw)
    /\ afw' = "down"
    /\ IF afw = "down" THEN UNCHANGED fromAfw ELSE Report("RELEASED")
    /\ UNCHANGED machineVars

AfwLost ==
    /\ afw = "up"
    /\ Len(fromAfw) < MaxPending
    /\ afw' = "down"
    /\ Report("RELEASED")
    /\ UNCHANGED <<machineVars, toAfw>>

Afw == AfwRequest \/ AfwOpened \/ AfwRelease

Next ==
    /\ \/ \E i \in Ids : Subscribe(i) \/ Unsubscribe(i)
       \/ OnRsrcEvent
       \/ EngineUp
       \/ Afw
       \/ AfwLost
    /\ UNCHANGED kind

(* The message thread and the framework keep running; clients owe nothing.  *)
Fairness ==
    /\ WF_vars(OnRsrcEvent /\ UNCHANGED kind)
    /\ WF_vars(Afw /\ UNCHANGED kind)

Spec == Init /\ [][Next]_vars /\ Fairness

----------------------------------------------------------------------------
(* Properties                                                               *)

TypeOK ==
    /\ kind \in Kinds
    /\ mState \in States
    /\ mSubscribers \in [Ids -> {"absent", "active", "inactive"}]
    /\ client \in [Ids -> {"idle", "requested", "granted", "releasing"}]
    /\ toAfw \in Seq(Actions)
    /\ fromAfw \in Seq(Events)
    /\ afw \in {"down", "opening", "up"}

(* The interface is asked for, or kept, only for somebody who wants it ...  *)
Held == mState \in {"Pending", "Acquired"}
HeldForSomebody == Held => Active # {}

(* ... unless a restart of the modem may have taken its clients away: all   *)
(* that remains as an invariant, the machine keeping no record of restarts. *)
HeldUnlessRestarted == HeldForSomebody \/ (EngineRestarts /\ ~EnforceSingle)

(* The interface is asked for or kept exactly while somebody wants it, and  *)
(* the only step that ends this is a restart of the modem with clients on   *)
(* the list; once a new client has subscribed it is so again, until the     *)
(* next restart.  Whoever leaves last, before or after the answer, with     *)
(* inactive clients on the list or none, gives the interface back, and      *)
(* nobody earlier.                                                          *)
HeldExactly == Held <=> Active # {}
OnlyRestartsOrphan == [][HeldExactly => HeldExactly' \/ EngineUp]_vars

(* In the Released state the list is empty: the error that                  *)
(* AgpsReleasedState::onRsrcEvent logs cannot happen.                       *)
ReleasedIsEmpty == mState = "Released" => Subscribed = {}

(* Nobody waits for a close except while the interface is being released    *)
(* or is still used by others.                                              *)
ClosersAreKept ==
    /\ mState = "Releasing" => Inactive # {}
    /\ Inactive # {} => WaitsForClose

(* A client told GRANTED, and not told otherwise since, is an active        *)
(* subscriber of an acquired interface; one whose request is unanswered is  *)
(* active and the machine is about to ask or to be answered; one that waits *)
(* for the close is inactive.  No refusal, denial, release or stale event   *)
(* leaves a client and the machine disagreeing.                             *)
ClientsMatchMachine ==
    \A i \in Ids :
       /\ client[i] = "granted" => mSubscribers[i] = "active" /\ mState = "Acquired"
       /\ client[i] = "requested" =>
             mSubscribers[i] = "active" /\ mState \in {"Pending", "Releasing"}
       /\ client[i] = "releasing" => mSubscribers[i] = "inactive"

(* The converse, for an interface that may be shared: every active          *)
(* subscriber of an acquired interface has been granted it.  (A lone        *)
(* subscriber that asks again is told DENIED and stays.)                    *)
ActiveAreGranted ==
    ~EnforceSingle /\ mState = "Acquired" => \A i \in Active : client[i] = "granted"

(* wifi_nif has at most one subscriber.                                     *)
SingleSubscriber == EnforceSingle => \A i, j \in Subscribed : i = j

(* While the machine is Pending an answer will come, even if connections    *)
(* are lost and closed around the request: the REQUEST is the last action   *)
(* the framework has to handle, or the connection is opening and nothing    *)
(* else will happen to it, or an answer is on its way.                      *)
InQueue(queue) == {queue[k] : k \in 1 .. Len(queue)}
RequestOnItsWay ==
    mState = "Pending" =>
       \/ toAfw # <<>> /\ toAfw[Len(toAfw)] = "REQUEST"
       \/ toAfw = <<>> /\ afw = "opening"
       \/ InQueue(fromAfw) \cap {"GRANTED", "DENIED"} # {}

(* Likewise while it is Releasing.                                          *)
CloseOnItsWay ==
    mState = "Releasing" =>
       "RELEASE" \in InQueue(toAfw) \/ InQueue(fromAfw) \cap {"RELEASED", "DENIED"} # {}

(* The inductive invariant.                                                 *)
IInv ==
    /\ TypeOK
    /\ HeldUnlessRestarted
    /\ ReleasedIsEmpty
    /\ ClosersAreKept
    /\ ClientsMatchMachine
    /\ ActiveAreGranted
    /\ SingleSubscriber
    /\ RequestOnItsWay

(* Every request is answered, and every client that waits for the close is  *)
(* told, whatever the other clients and the framework do meanwhile.         *)
RequestAnswered ==
    \A i \in Ids : client[i] = "requested" ~> client[i] # "requested"
CloseAnswered ==
    \A i \in Ids : client[i] = "releasing" ~> client[i] # "releasing"
=============================================================================
