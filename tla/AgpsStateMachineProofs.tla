----------------------- MODULE AgpsStateMachineProofs -----------------------
(* Proofs about AgpsStateMachine for every set of clients, every kind of    *)
(* interface and queues of any length.                                      *)
EXTENDS AgpsStateMachine, SequenceTheorems, TLAPS

USE ConstantsAssumption DEF Kinds, EnforceSingle, WaitsForClose

(* The queues: what appending one message and taking one do to the last     *)
(* message and to the set of those queued.                                  *)
LEMMA AppendedMessage ==
    ASSUME NEW S, NEW q \in Seq(S), NEW m \in S
    PROVE  /\ Append(q, m) \in Seq(S)
           /\ Append(q, m) # <<>>
           /\ Append(q, m)[Len(Append(q, m))] = m
           /\ InQueue(Append(q, m)) = InQueue(q) \cup {m}
  <1>1. /\ Append(q, m) \in Seq(S)
        /\ Len(Append(q, m)) = Len(q) + 1
        /\ \A k \in 1 .. Len(q) : Append(q, m)[k] = q[k]
        /\ Append(q, m)[Len(q) + 1] = m
    OBVIOUS
  <1>2. Append(q, m) # <<>>
    BY <1>1
  <1>3. InQueue(Append(q, m)) = InQueue(q) \cup {m}
    BY <1>1 DEF InQueue
  <1>4. QED
    BY <1>1, <1>2, <1>3

LEMMA TakenMessage ==
    ASSUME NEW S, NEW q \in Seq(S), q # <<>>
    PROVE  /\ Tail(q) \in Seq(S)
           /\ Head(q) \in S
           /\ Tail(q) # <<>> => Tail(q)[Len(Tail(q))] = q[Len(q)]
           /\ Tail(q) = <<>> => Head(q) = q[Len(q)]
           /\ InQueue(q) \subseteq InQueue(Tail(q)) \cup {Head(q)}
  <1>1. /\ Tail(q) \in Seq(S)
        /\ Head(q) = q[1] /\ q[1] \in S
        /\ Len(q) \in Nat \ {0}
        /\ Len(Tail(q)) = Len(q) - 1
        /\ \A k \in 1 .. Len(q) - 1 : Tail(q)[k] = q[k + 1]
    OBVIOUS
  <1>2. Tail(q) # <<>> => Tail(q)[Len(Tail(q))] = q[Len(q)]
    <2>1. SUFFICES ASSUME Tail(q) # <<>> PROVE Tail(q)[Len(q) - 1] = q[Len(q)]
      BY <1>1
    <2>2. Len(q) - 1 \in 1 .. Len(q) - 1
      BY <1>1, <2>1
    <2>3. QED
      BY <1>1, <2>2
  <1>3. ASSUME Tail(q) = <<>> PROVE Head(q) = q[Len(q)]
    <2>1. Len(Tail(q)) = 0
      BY <1>3, EmptySeq
    <2>2. Len(q) # 1 => Len(q) - 1 # 0
      BY <1>1
    <2>3. Len(q) = 1
      BY <1>1, <2>1, <2>2, Zenon
    <2>4. QED
      BY <1>1, <2>3
  <1>4. ASSUME NEW k \in 1 .. Len(q), k # 1
        PROVE  q[k] \in InQueue(Tail(q))
    <2>1. k - 1 \in 1 .. Len(q) - 1
      BY <1>1, <1>4
    <2>2. q[k] = Tail(q)[k - 1]
      BY <1>1, <2>1
    <2>3. QED
      BY <1>1, <2>1, <2>2 DEF InQueue
  <1>5. InQueue(q) \subseteq InQueue(Tail(q)) \cup {Head(q)}
    BY <1>1, <1>4 DEF InQueue
  <1>6. QED
    BY <1>1, <1>2, <1>3, <1>5

(* The initial state satisfies the inductive invariant.                     *)
LEMMA InitInv == Init => IInv
  BY DEF Init, IInv, TypeOK, States, Actions, Events,
     HeldUnlessRestarted, HeldForSomebody, Held, ReleasedIsEmpty, ClosersAreKept, ClientsMatchMachine, ActiveAreGranted,
     SingleSubscriber, RequestOnItsWay, Active, Inactive, Subscribed

(* Only messages move: the framework's steps touch nothing of the machine.  *)
LEMMA MachineUnchanged ==
    ASSUME IInv, UNCHANGED <<kind, machineVars>>
    PROVE  /\ HeldUnlessRestarted'
           /\ ReleasedIsEmpty' /\ ClosersAreKept' /\ ClientsMatchMachine'
           /\ ActiveAreGranted' /\ SingleSubscriber'
  BY DEF IInv, machineVars, HeldUnlessRestarted, HeldForSomebody, Held, EnforceSingle, ReleasedIsEmpty, ClosersAreKept,
     ClientsMatchMachine, ActiveAreGranted, SingleSubscriber, Active, Inactive,
     Subscribed

(* What an event taken from the queue leaves of it.                         *)
LEMMA ReceivedEvent ==
    ASSUME NEW e \in Events, TypeOK, Receive(e)
    PROVE  /\ fromAfw' \in Seq(Events)
           /\ InQueue(fromAfw) \subseteq InQueue(fromAfw)' \cup {e}
  <1>1. fromAfw \in Seq(Events) /\ fromAfw # <<>>
    BY DEF TypeOK, Receive
  <1>2. /\ Tail(fromAfw) \in Seq(Events)
        /\ InQueue(fromAfw) \subseteq InQueue(Tail(fromAfw)) \cup {Head(fromAfw)}
    BY <1>1, TakenMessage
  <1>3. fromAfw' = Tail(fromAfw) /\ Head(fromAfw) = e
    BY DEF Receive
  <1>4. InQueue(fromAfw)' = InQueue(Tail(fromAfw))
    BY <1>3 DEF InQueue
  <1>5. QED
    BY <1>2, <1>3, <1>4

(* What sendRsrcRequest leaves in the queue.                                *)
LEMMA SentAction ==
    ASSUME NEW a \in Actions, TypeOK, SendRsrcRequest(a)
    PROVE  /\ toAfw' \in Seq(Actions)
           /\ toAfw' # toAfw => (Active' = {}) = (a = "RELEASE")
           /\ (Active' = {}) = (a = "RELEASE") =>
                 toAfw' # <<>> /\ toAfw'[Len(toAfw')] = a
  <1>1. toAfw \in Seq(Actions)
    BY DEF TypeOK
  <1>2. /\ Append(toAfw, a) \in Seq(Actions)
        /\ Append(toAfw, a) # <<>>
        /\ Append(toAfw, a)[Len(Append(toAfw, a))] = a
    BY <1>1, AppendedMessage
  <1>3. CASE (Active' = {}) = (a = "RELEASE")
    <2>1. toAfw' = Append(toAfw, a)
      BY <1>3 DEF SendRsrcRequest
    <2>2. QED
      BY <1>2, <1>3, <2>1
  <1>4. CASE ~((Active' = {}) = (a = "RELEASE"))
    BY <1>1, <1>4 DEF SendRsrcRequest
  <1>5. QED
    BY <1>3, <1>4

(* Every step keeps the variables in their types.                           *)
LEMMA TypeStep == IInv /\ Next => TypeOK'
  <1> SUFFICES ASSUME IInv, Next PROVE TypeOK'
    OBVIOUS
  <1>0. TypeOK /\ kind' = kind
    BY DEF IInv, Next
  <1> USE DEF States, Tell, Delete
  <1>1. ASSUME NEW i \in Ids, SubscribeRefused(i) PROVE TypeOK'
    BY <1>0, <1>1 DEF SubscribeRefused, TypeOK
  <1>2. ASSUME NEW i \in Ids, SubscribeReleased(i) PROVE TypeOK'
    <2>1. toAfw' \in Seq(Actions)
      BY <1>0, <1>2, SentAction DEF SubscribeReleased, Actions
    <2>2. QED
      BY <1>0, <1>2, <2>1 DEF SubscribeReleased, AddSubscriber, TypeOK
  <1>3. ASSUME NEW i \in Ids, SubscribeWaiting(i) PROVE TypeOK'
    BY <1>0, <1>3 DEF SubscribeWaiting, AddSubscriber, TypeOK
  <1>4. ASSUME NEW i \in Ids, SubscribeAcquired(i) PROVE TypeOK'
    BY <1>0, <1>4 DEF SubscribeAcquired, AddSubscriber, TypeOK
  <1>5. ASSUME NEW i \in Ids, UnsubscribeHeld(i) PROVE TypeOK'
    <2>1. toAfw' \in Seq(Actions)
      BY <1>0, <1>5, SentAction DEF UnsubscribeHeld, Actions
    <2>2. QED
      BY <1>0, <1>5, <2>1 DEF UnsubscribeHeld, Leave, TypeOK
  <1>6. ASSUME NEW i \in Ids, UnsubscribeReleasing(i) PROVE TypeOK'
    BY <1>0, <1>6 DEF UnsubscribeReleasing, Leave, TypeOK
  <1>7. CASE OnGranted
    BY <1>0, <1>7, ReceivedEvent DEF OnGranted, Events, TypeOK
  <1>8. CASE OnTakenAway
    BY <1>0, <1>8, ReceivedEvent DEF OnTakenAway, Events, TypeOK
  <1>9. CASE OnClosed
    <2>1. toAfw' \in Seq(Actions)
      BY <1>0, <1>9, SentAction DEF OnClosed, Actions
    <2>2. fromAfw' \in Seq(Events)
      BY <1>0, <1>9, ReceivedEvent DEF OnClosed, Events
    <2>3. QED
      BY <1>0, <1>9, <2>1, <2>2 DEF OnClosed, TypeOK
  <1>10. CASE OnIgnored
    <2>1. fromAfw' \in Seq(Events)
      BY <1>0, <1>10, ReceivedEvent DEF OnIgnored, Events
    <2>2. QED
      BY <1>0, <1>10, <2>1 DEF OnIgnored, machineVars, TypeOK
  <1>11. CASE EngineUp
    BY <1>0, <1>11 DEF EngineUp, TypeOK
  <1>12. ASSUME NEW e \in Events, Report(e) PROVE fromAfw' \in Seq(Events)
    BY <1>0, <1>12, AppendedMessage DEF Report, TypeOK
  <1>13. CASE AfwRequest
    <2>1. toAfw' \in Seq(Actions)
      BY <1>0, <1>13, TakenMessage DEF AfwRequest, TypeOK
    <2>2. fromAfw' \in Seq(Events)
      BY <1>0, <1>12, <1>13 DEF AfwRequest, Events, TypeOK
    <2>3. QED
      BY <1>0, <1>13, <2>1, <2>2 DEF AfwRequest, machineVars, TypeOK
  <1>14. CASE AfwOpened
    <2>1. fromAfw' \in Seq(Events)
      BY <1>0, <1>12, <1>14 DEF AfwOpened, Events
    <2>2. QED
      BY <1>0, <1>14, <2>1 DEF AfwOpened, machineVars, TypeOK
  <1>15. CASE AfwRelease
    <2>1. toAfw' \in Seq(Actions)
      BY <1>0, <1>15, TakenMessage DEF AfwRelease, TypeOK
    <2>2. fromAfw' \in Seq(Events)
      BY <1>0, <1>12, <1>15 DEF AfwRelease, Events, TypeOK
    <2>3. QED
      BY <1>0, <1>15, <2>1, <2>2 DEF AfwRelease, machineVars, TypeOK
  <1>16. CASE AfwLost
    <2>1. fromAfw' \in Seq(Events)
      BY <1>0, <1>12, <1>16 DEF AfwLost, Events
    <2>2. QED
      BY <1>0, <1>16, <2>1 DEF AfwLost, machineVars, TypeOK
  <1>17. QED
    BY <1>1, <1>2, <1>3, <1>4, <1>5, <1>6, <1>7, <1>8, <1>9, <1>10, <1>11,
       <1>13, <1>14, <1>15, <1>16
       DEF Next, Subscribe, Unsubscribe, OnRsrcEvent, Afw

(* The agreement of state, list and clients, as one formula.                *)
Agreement ==
    /\ HeldUnlessRestarted
    /\ ReleasedIsEmpty
    /\ ClosersAreKept
    /\ ClientsMatchMachine
    /\ ActiveAreGranted
    /\ SingleSubscriber

(* Every step keeps it.                                                     *)
LEMMA AgreementStep == IInv /\ Next => Agreement'
  <1> SUFFICES ASSUME IInv, Next PROVE Agreement'
    OBVIOUS
  <1>0. TypeOK /\ Agreement /\ kind' = kind
    BY DEF IInv, Agreement, Next
  <1> USE DEF TypeOK, States, Agreement, HeldUnlessRestarted, HeldForSomebody,
              Held, ReleasedIsEmpty,
              ClosersAreKept, ClientsMatchMachine, ActiveAreGranted,
              SingleSubscriber, Active, Inactive, Subscribed
  <1>1. ASSUME NEW i \in Ids, SubscribeRefused(i) PROVE Agreement'
    BY <1>0, <1>1 DEF SubscribeRefused
  <1>2. ASSUME NEW i \in Ids, SubscribeReleased(i) PROVE Agreement'
    <2>1. /\ mState' = "Pending" /\ mSubscribers[i] = "absent"
          /\ mSubscribers' = [mSubscribers EXCEPT ![i] = "active"]
          /\ client' = [client EXCEPT ![i] = "requested"]
          /\ EnforceSingle => Subscribed = {}
      BY <1>0, <1>2 DEF SubscribeReleased, AddSubscriber, MayJoin
    <2>2. HeldUnlessRestarted' /\ ReleasedIsEmpty' /\ ClosersAreKept'
      BY <1>0, <2>1
    <2>3. ClientsMatchMachine'
      <3>1. ASSUME NEW j \in Ids, j # i
            PROVE  client'[j] \notin {"granted", "requested", "releasing"}
        BY <1>0, <1>2, <2>1, <3>1 DEF SubscribeReleased
      <3>2. client'[i] = "requested" /\ mSubscribers'[i] = "active"
        BY <1>0, <2>1
      <3>3. QED
        BY <2>1, <3>1, <3>2
    <2>4. ActiveAreGranted' /\ SingleSubscriber'
      BY <1>0, <2>1
    <2>5. QED
      BY <2>2, <2>3, <2>4
  <1>3. ASSUME NEW i \in Ids, SubscribeWaiting(i) PROVE Agreement'
    BY <1>0, <1>3 DEF SubscribeWaiting, AddSubscriber, MayJoin
  <1>4. ASSUME NEW i \in Ids, SubscribeAcquired(i) PROVE Agreement'
    BY <1>0, <1>4 DEF SubscribeAcquired, AddSubscriber, MayJoin
  <1>5. ASSUME NEW i \in Ids, UnsubscribeHeld(i) PROVE Agreement'
    BY <1>0, <1>5 DEF UnsubscribeHeld, Leave, Tell, Delete
  <1>6. ASSUME NEW i \in Ids, UnsubscribeReleasing(i) PROVE Agreement'
    BY <1>0, <1>6 DEF UnsubscribeReleasing, Leave, Tell, Delete
  <1>7. CASE OnGranted
    BY <1>0, <1>7 DEF OnGranted, Tell
  <1>8. CASE OnTakenAway
    BY <1>0, <1>8 DEF OnTakenAway, Tell, Delete
  <1>9. CASE OnClosed
    BY <1>0, <1>9 DEF OnClosed, Tell, Delete
  <1>10. CASE EngineUp
    BY <1>0, <1>10 DEF EngineUp
  <1>11. CASE UNCHANGED machineVars
    BY <1>0, <1>11, MachineUnchanged
  <1>12. QED
    BY <1>1, <1>2, <1>3, <1>4, <1>5, <1>6, <1>7, <1>8, <1>9, <1>10, <1>11
       DEF Next, Subscribe, Unsubscribe, OnRsrcEvent, OnIgnored, Afw,
           AfwRequest, AfwOpened, AfwRelease, AfwLost

(* A report keeps what the queue holds and adds one event.                  *)
LEMMA ReportedEvent ==
    ASSUME NEW e \in Events, TypeOK, Report(e)
    PROVE  InQueue(fromAfw)' = InQueue(fromAfw) \cup {e}
  <1>1. fromAfw' = Append(fromAfw, e) /\ fromAfw \in Seq(Events)
    BY DEF Report, TypeOK
  <1>2. InQueue(Append(fromAfw, e)) = InQueue(fromAfw) \cup {e}
    BY <1>1, AppendedMessage
  <1>3. QED
    BY <1>1, <1>2 DEF InQueue

(* Every step keeps an answer under way for a Pending machine.              *)
LEMMA RequestStep == IInv /\ Next => RequestOnItsWay'
  <1> SUFFICES ASSUME IInv, Next, mState' = "Pending"
               PROVE  \/ toAfw' # <<>> /\ toAfw'[Len(toAfw')] = "REQUEST"
                      \/ toAfw' = <<>> /\ afw' = "opening"
                      \/ (InQueue(fromAfw) \cap {"GRANTED", "DENIED"} # {})'
    BY DEF RequestOnItsWay
  <1>0. /\ TypeOK
        /\ ReleasedIsEmpty
        /\ mState = "Pending" =>
              \/ toAfw # <<>> /\ toAfw[Len(toAfw)] = "REQUEST"
              \/ toAfw = <<>> /\ afw = "opening"
              \/ InQueue(fromAfw) \cap {"GRANTED", "DENIED"} # {}
    BY DEF IInv, RequestOnItsWay
  <1>1. ASSUME NEW i \in Ids, SubscribeReleased(i)
        PROVE  toAfw' # <<>> /\ toAfw'[Len(toAfw')] = "REQUEST"
    <2>1. mSubscribers[i] = "absent"
      BY <1>0, <1>1 DEF SubscribeReleased, TypeOK, ReleasedIsEmpty, Subscribed,
                        Active, Inactive
    <2>2. i \in Active'
      BY <1>0, <1>1, <2>1 DEF SubscribeReleased, AddSubscriber, TypeOK, Active
    <2>3. QED
      BY <1>0, <1>1, <2>2, SentAction DEF SubscribeReleased, Actions
  <1>2. ASSUME mState = "Pending", toAfw' = toAfw, afw' = afw,
               InQueue(fromAfw) \cap {"GRANTED", "DENIED"}
                   \subseteq InQueue(fromAfw)'
        PROVE  \/ toAfw' # <<>> /\ toAfw'[Len(toAfw')] = "REQUEST"
               \/ toAfw' = <<>> /\ afw' = "opening"
               \/ (InQueue(fromAfw) \cap {"GRANTED", "DENIED"} # {})'
    BY <1>0, <1>2
  <1>3. fromAfw' = fromAfw => InQueue(fromAfw)' = InQueue(fromAfw)
    BY DEF InQueue
  <1>4. ASSUME NEW i \in Ids, SubscribeRefused(i) \/ SubscribeWaiting(i)
        PROVE  mState = "Pending" /\ toAfw' = toAfw /\ afw' = afw /\ fromAfw' = fromAfw
    BY <1>4 DEF SubscribeRefused, SubscribeWaiting
  <1>5. ASSUME NEW i \in Ids, SubscribeAcquired(i) \/ UnsubscribeReleasing(i)
        PROVE  FALSE
    BY <1>5 DEF SubscribeAcquired, UnsubscribeReleasing
  <1>6. ASSUME NEW i \in Ids, UnsubscribeHeld(i)
        PROVE  mState = "Pending" /\ toAfw' = toAfw /\ afw' = afw /\ fromAfw' = fromAfw
    <2>1. mState = "Pending" /\ Active' # {}
      BY <1>6 DEF UnsubscribeHeld
    <2>2. toAfw' = toAfw
      BY <1>0, <1>6, <2>1, SentAction DEF UnsubscribeHeld, Actions
    <2>3. QED
      BY <1>6, <2>1, <2>2 DEF UnsubscribeHeld
  <1>7. ASSUME OnGranted \/ OnTakenAway PROVE FALSE
    BY <1>7 DEF OnGranted, OnTakenAway
  <1>8. ASSUME OnClosed
        PROVE  toAfw' # <<>> /\ toAfw'[Len(toAfw')] = "REQUEST"
    <2>1. Active' # {}
      BY <1>8 DEF OnClosed
    <2>2. QED
      BY <1>0, <1>8, <2>1, SentAction DEF OnClosed, Actions
  <1>9. ASSUME OnIgnored
        PROVE  /\ mState = "Pending" /\ toAfw' = toAfw /\ afw' = afw
               /\ InQueue(fromAfw) \cap {"GRANTED", "DENIED"} \subseteq InQueue(fromAfw)'
    <2>1. mState = "Pending" /\ Receive("RELEASED") /\ toAfw' = toAfw /\ afw' = afw
      BY <1>9 DEF OnIgnored, machineVars
    <2>2. QED
      BY <1>0, <2>1, ReceivedEvent DEF Events
  <1>10. ASSUME EngineUp
         PROVE  mState = "Pending" /\ toAfw' = toAfw /\ afw' = afw /\ fromAfw' = fromAfw
    BY <1>10 DEF EngineUp
  <1>11. ASSUME toAfw # <<>>, toAfw' = Tail(toAfw)
         PROVE  /\ toAfw' # <<>> => toAfw'[Len(toAfw')] = toAfw[Len(toAfw)]
                /\ toAfw' = <<>> => Head(toAfw) = toAfw[Len(toAfw)]
    BY <1>0, <1>11, TakenMessage DEF TypeOK
  <1>12. ASSUME NEW e \in Events, Report(e)
         PROVE  InQueue(fromAfw)' = InQueue(fromAfw) \cup {e}
    BY <1>0, <1>12, ReportedEvent
  <1>13. CASE AfwRequest
    <2>1. mState = "Pending" /\ toAfw # <<>> /\ toAfw' = Tail(toAfw)
      BY <1>13 DEF AfwRequest, machineVars
    <2>2. CASE afw = "up" /\ Report("GRANTED")
      BY <1>12, <2>2 DEF Events
    <2>3. CASE afw' = "opening" /\ fromAfw' = fromAfw
      BY <1>0, <1>3, <1>11, <2>1, <2>3
    <2>4. QED
      BY <1>13, <2>2, <2>3 DEF AfwRequest
  <1>14. CASE AfwOpened
    <2>1. CASE Report("GRANTED")
      BY <1>12, <2>1 DEF Events
    <2>2. CASE Report("DENIED")
      BY <1>12, <2>2 DEF Events
    <2>3. QED
      BY <1>14, <2>1, <2>2 DEF AfwOpened
  <1>15. CASE AfwRelease
    <2>1. mState = "Pending" /\ toAfw # <<>> /\ toAfw' = Tail(toAfw)
          /\ Head(toAfw) = "RELEASE"
      BY <1>15 DEF AfwRelease, machineVars
    <2>2. InQueue(fromAfw) \subseteq InQueue(fromAfw)'
      BY <1>3, <1>12, <1>15 DEF AfwRelease, Events
    <2>3. QED
      BY <1>0, <1>11, <2>1, <2>2
  <1>16. CASE AfwLost
    <2>1. mState = "Pending" /\ toAfw' = toAfw /\ afw = "up"
      BY <1>16 DEF AfwLost, machineVars
    <2>2. InQueue(fromAfw) \subseteq InQueue(fromAfw)'
      BY <1>12, <1>16 DEF AfwLost, Events
    <2>3. QED
      BY <1>0, <2>1, <2>2
  <1>17. QED
    BY <1>1, <1>2, <1>3, <1>4, <1>5, <1>6, <1>7, <1>8, <1>9, <1>10, <1>13,
       <1>14, <1>15, <1>16
       DEF Next, Subscribe, Unsubscribe, OnRsrcEvent, Afw

----------------------------------------------------------------------------
(* The theorems                                                             *)

(* Every step keeps the inductive invariant.                                *)
LEMMA NextPreserves == IInv /\ [Next]_vars => IInv'
  <1>1. ASSUME IInv, Next PROVE IInv'
    BY <1>1, TypeStep, AgreementStep, RequestStep DEF IInv, Agreement
  <1>2. ASSUME IInv, UNCHANGED vars PROVE IInv'
    <2>1. TypeOK' /\ RequestOnItsWay'
      BY <1>2 DEF IInv, vars, machineVars, TypeOK, RequestOnItsWay, InQueue
    <2>2. QED
      BY <1>2, <2>1, MachineUnchanged DEF IInv, vars
  <1>3. QED
    BY <1>1, <1>2

(* The inductive invariant holds in every reachable state.                  *)
THEOREM Invariance == Spec => []IInv
  BY InitInv, NextPreserves, PTL DEF Spec

(* Type correctness.                                                        *)
THEOREM TypeCorrect == Spec => []TypeOK
  <1>1. IInv => TypeOK
    BY DEF IInv
  <1>2. QED
    BY Invariance, <1>1, PTL

(* Whoever is active, the machine holds the interface or has asked for it.  *)
LEMMA UsedIsHeld == IInv /\ Active # {} => Held
  <1> SUFFICES ASSUME IInv, NEW i \in Active PROVE Held
    OBVIOUS
  <1>1. i \in Subscribed /\ i \in Ids /\ i \notin Inactive
    BY DEF Subscribed, Active, Inactive
  <1>2. mState # "Released"
    BY <1>1 DEF IInv, ReleasedIsEmpty
  <1>3. ASSUME mState = "Releasing" PROVE FALSE
    <2>1. PICK j \in Inactive : EnforceSingle
      BY <1>3 DEF IInv, ClosersAreKept, WaitsForClose, EnforceSingle
    <2>2. QED
      BY <1>1, <2>1 DEF IInv, SingleSubscriber, Subscribed
  <1>4. QED
    BY <1>2, <1>3 DEF IInv, TypeOK, States, Held

(* No step but a restart leaves it held for nobody.                         *)
LEMMA HeldStep ==
    ASSUME IInv, HeldForSomebody, Next, ~EngineUp
    PROVE  HeldForSomebody'
  <1>0. TypeOK /\ kind' = kind
    BY DEF IInv, Next
  <1> USE DEF TypeOK, States, HeldForSomebody, Held, Active
  <1>1. ASSUME NEW i \in Ids, Subscribe(i) PROVE HeldForSomebody'
    <2>1. CASE SubscribeReleased(i)
      BY <1>0, <2>1 DEF SubscribeReleased, AddSubscriber, IInv,
                        ReleasedIsEmpty, Subscribed, Inactive
    <2>2. QED
      BY <1>0, <1>1, <2>1 DEF Subscribe, SubscribeRefused, SubscribeWaiting,
                              SubscribeAcquired, AddSubscriber
  <1>2. ASSUME NEW i \in Ids, Unsubscribe(i) PROVE HeldForSomebody'
    BY <1>0, <1>2 DEF Unsubscribe, UnsubscribeHeld, UnsubscribeReleasing
  <1>3. CASE OnRsrcEvent
    BY <1>0, <1>3 DEF OnRsrcEvent, OnGranted, OnTakenAway, OnClosed, OnIgnored,
                      machineVars
  <1>4. CASE Afw \/ AfwLost
    BY <1>0, <1>4 DEF Afw, AfwRequest, AfwOpened, AfwRelease, AfwLost, machineVars
  <1>5. QED
    BY <1>1, <1>2, <1>3, <1>4 DEF Next

(* The interface is asked for or kept exactly while somebody wants it, and  *)
(* only a restart of the modem with clients on the list ends this.          *)
THEOREM Needed == Spec => OnlyRestartsOrphan
  <1>1. ASSUME IInv, IInv', [Next]_vars
        PROVE  [HeldExactly => HeldExactly' \/ EngineUp]_vars
    <2>1. CASE UNCHANGED vars
      BY <2>1
    <2>2. ASSUME Next, HeldExactly, ~EngineUp PROVE HeldExactly'
      <3>1. HeldForSomebody'
        BY <1>1, <2>2, HeldStep DEF HeldExactly, HeldForSomebody
      <3>2. (Active # {} => Held)'
        BY <1>1, UsedIsHeld, PTL
      <3>3. QED
        BY <3>1, <3>2 DEF HeldExactly, HeldForSomebody
    <2>3. QED
      BY <1>1, <2>1, <2>2
  <1>2. QED
    BY <1>1, Invariance, PTL DEF Spec, OnlyRestartsOrphan

(* What the clients were told is what the machine's state and list say, and *)
(* a released machine has nobody on its list, modem restarts included.      *)
THEOREM ClientsAgree == Spec => [](ClientsMatchMachine /\ ReleasedIsEmpty)
  <1>1. IInv => ClientsMatchMachine /\ ReleasedIsEmpty
    BY DEF IInv
  <1>2. QED
    BY Invariance, <1>1, PTL

(* A Pending machine always has an answer to its request coming.            *)
THEOREM NotForgotten == Spec => []RequestOnItsWay
  <1>1. IInv => RequestOnItsWay
    BY DEF IInv
  <1>2. QED
    BY Invariance, <1>1, PTL

(* An interface for one subscriber never has two.                           *)
THEOREM Single == Spec => []SingleSubscriber
  <1>1. IInv => SingleSubscriber
    BY DEF IInv
  <1>2. QED
    BY Invariance, <1>1, PTL
=============================================================================
