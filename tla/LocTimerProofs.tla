--------------------------- MODULE LocTimerProofs ---------------------------
(* Proofs about LocTimer, for any clients, delays and bounds: no timer is   *)
(* used after its end or leaked, and the soonest one is armed; and of the   *)
(* heap they are in, for any objects, ranks and number of operations.       *)
EXTENDS LocTimer, WellFoundedInduction, TLAPS

Messages == [kind : {"Push", "Remove", "Expire"}, timer : Delegates \cup {NULL}]
Places == 1 .. Len(msgs)

(* A client's running timer is its own, and exists; numbers are used once.  *)
ClientInv ==
    /\ \A c \in Clients : mTimer[c] # NULL => mTimer[c] \in live /\ mTimer[c].client = c
    /\ \A d \in live : d.no <= starts[d.client]

(* Messages are about timers that exist, each sent once, Push first; those  *)
(* that do not run any more have their Remove in the queue.                 *)
QueueInv ==
    /\ \A j \in Places : msgs[j].kind # "Expire" => msgs[j].timer \in live
    /\ \A j, k \in Places : msgs[j] = msgs[k] /\ msgs[j].kind # "Expire" => j = k
    /\ \A j, k \in Places :
          /\ msgs[j].kind = "Push" /\ msgs[k].kind = "Remove"
          /\ msgs[j].timer = msgs[k].timer
          => j < k
    /\ \A d \in live :
          (\A c \in Clients : mTimer[c] # d) <=>
          (\E j \in Places : msgs[j] = [kind |-> "Remove", timer |-> d])

ExpiringInv ==
    /\ expiring.pc = "idle" => expiring = Idle
    /\ expiring.pc = "expire" => expiring.timer \in live
    /\ expiring.pc = "stop" => expiring.timer \in Delegates

LifeInv == TypeOK /\ ClientInv /\ QueueInv /\ ExpiringInv

LEMMA NullIsNone == NULL \notin Delegates
  BY ConstantsAssumption DEF Delegates

LEMMA LifeSuffices == LifeInv => NoDanglingTimer /\ EndedAreRemoved
  <1> SUFFICES ASSUME LifeInv PROVE NoDanglingTimer /\ EndedAreRemoved
    OBVIOUS
  <1>1. Running \subseteq live
    BY DEF LifeInv, ClientInv, Running
  <1>2. InQueue("Push") \subseteq live /\ InQueue("Remove") \subseteq live
    BY DEF LifeInv, QueueInv, InQueue, Places
  <1>3. NoDanglingTimer
    BY <1>1, <1>2 DEF LifeInv, TypeOK, ExpiringInv, NoDanglingTimer
  <1>4. \A d \in live : d \notin Running <=> \A c \in Clients : mTimer[c] # d
    BY NullIsNone DEF Running, LifeInv, TypeOK
  <1>5. \A d \in Delegates : d \in InQueue("Remove") <=>
           \E j \in Places : msgs[j] = [kind |-> "Remove", timer |-> d]
    <2>1. \A j \in Places : msgs[j] \in Messages
      <3>1. msgs \in Seq(Messages)
        BY DEF LifeInv, TypeOK, Messages
      <3> QED BY <3>1 DEF Places
    <2>2. \A m \in Messages : m = [kind |-> m.kind, timer |-> m.timer]
      BY DEF Messages
    <2>3. ASSUME NEW d \in Delegates
          PROVE  d \in InQueue("Remove") <=>
                    \E j \in Places : msgs[j].kind = "Remove" /\ msgs[j].timer = d
      BY DEF InQueue, Places
    <2> QED BY <2>1, <2>2, <2>3
  <1>6. live \ Running = InQueue("Remove")
    <2>1. live \subseteq Delegates
      BY DEF LifeInv, TypeOK
    <2>2. \A d \in live : (\A c \in Clients : mTimer[c] # d) <=> d \in InQueue("Remove")
      BY <1>5, <2>1 DEF LifeInv, QueueInv
    <2> QED BY <1>2, <1>4, <2>2
  <1> QED BY <1>3, <1>6 DEF EndedAreRemoved, LifeInv, QueueInv, Places

LEMMA InitLife == Init => LifeInv
  <1> SUFFICES ASSUME Init PROVE LifeInv
    OBVIOUS
  <1> USE ConstantsAssumption
  <1>1. msgs = <<>> /\ Places = {}
    BY DEF Init, Places
  <1>2. TypeOK
    <2>1. msgs \in Seq([kind : {"Push", "Remove", "Expire"}, timer : Delegates \cup {NULL}])
      BY <1>1
    <2>2. expiring \in [pc : {"idle", "pop first", "pop next", "expire", "stop"},
                       clock : 0 .. MaxTime, timer : Delegates \cup {NULL}]
      BY DEF Init, Idle
    <2>3. /\ now \in 0 .. MaxTime
          /\ starts \in [Clients -> 0 .. MaxStarts]
          /\ mTimer \in [Clients -> Delegates \cup {NULL}]
      BY DEF Init
    <2> QED BY <2>1, <2>2, <2>3 DEF Init, TypeOK
  <1>3. ClientInv /\ ExpiringInv
    <2>1. live = {} /\ (\A c \in Clients : mTimer[c] = NULL)
      BY DEF Init
    <2>2. expiring = Idle /\ Idle.pc = "idle"
      BY DEF Init, Idle
    <2> QED BY <2>1, <2>2 DEF ClientInv, ExpiringInv
  <1>4. QueueInv
    <2>1. live = {}
      BY DEF Init
    <2> QED BY <1>1, <2>1 DEF QueueInv
  <1> QED BY <1>2, <1>3, <1>4 DEF LifeInv

----------------------------------------------------------------------------
(* The queue                                                                *)

LEMMA Sent ==
    ASSUME TypeOK, NEW kind \in {"Push", "Remove", "Expire"},
           NEW d \in Delegates \cup {NULL}, Send(kind, d)
    PROVE  /\ msgs' \in Seq(Messages)
           /\ Len(msgs') = Len(msgs) + 1 /\ Len(msgs) \in Nat
           /\ Places' = 1 .. Len(msgs) + 1
           /\ msgs'[Len(msgs) + 1] = [kind |-> kind, timer |-> d]
           /\ \A j \in Places : msgs'[j] = msgs[j]
  <1>1. msgs \in Seq(Messages)
    BY DEF TypeOK, Messages
  <1>2. [kind |-> kind, timer |-> d] \in Messages
    BY DEF Messages
  <1> QED BY <1>1, <1>2 DEF Send, Places

LEMMA Taken ==
    ASSUME TypeOK, NEW kind, NEW d, Take(kind, d)
    PROVE  /\ msgs' \in Seq(Messages)
           /\ expiring.pc = "idle"
           /\ Len(msgs') = Len(msgs) - 1 /\ Len(msgs) \in Nat \ {0}
           /\ Places' = 1 .. Len(msgs) - 1
           /\ msgs[1] = [kind |-> kind, timer |-> d]
           /\ \A j \in Places' : msgs'[j] = msgs[j + 1] /\ j + 1 \in Places
  <1>1. msgs \in Seq(Messages)
    BY DEF TypeOK, Messages
  <1> QED BY <1>1 DEF Take, Places

(* Any other message is still there.                                        *)
LEMMA TakenRest ==
    ASSUME TypeOK, NEW kind, NEW d, Take(kind, d),
           NEW m, m # [kind |-> kind, timer |-> d]
    PROVE  (\E j \in Places : msgs[j] = m) <=> (\E j \in Places' : msgs'[j] = m)
  <1>1. /\ Len(msgs) \in Nat \ {0} /\ Places' = 1 .. Len(msgs) - 1
        /\ msgs[1] = [kind |-> kind, timer |-> d]
        /\ \A j \in Places' : msgs'[j] = msgs[j + 1] /\ j + 1 \in Places
    BY Taken
  <1>2. ASSUME NEW j \in Places, msgs[j] = m
        PROVE  \E k \in Places' : msgs'[k] = m
    <2>1. j # 1
      BY <1>1, <1>2
    <2>2. j - 1 \in 1 .. Len(msgs) - 1 /\ (j - 1) + 1 = j
      BY <1>1, <2>1 DEF Places
    <2> QED BY <1>1, <1>2, <2>2
  <1>3. ASSUME NEW k \in Places', msgs'[k] = m
        PROVE  \E j \in Places : msgs[j] = m
    BY <1>1, <1>3
  <1> QED BY <1>2, <1>3

(* A message about a timer whose Remove is still to be sent, or Expire.     *)
LEMMA SentExpireKeeps ==
    ASSUME LifeInv, Send("Expire", NULL), UNCHANGED <<mTimer, live>>
    PROVE  QueueInv'
  <1>1. TypeOK
    BY DEF LifeInv
  <1>2. /\ Len(msgs) \in Nat /\ Places' = 1 .. Len(msgs) + 1
        /\ msgs'[Len(msgs) + 1] = [kind |-> "Expire", timer |-> NULL]
        /\ \A j \in Places : msgs'[j] = msgs[j]
    BY <1>1, Sent
  <1>3. \A j \in Places' : j \in Places \/ j = Len(msgs) + 1
    BY <1>2 DEF Places
  <1>4. Places \subseteq Places'
    BY <1>2 DEF Places
  <1>5. \A j \in Places' : msgs'[j].kind # "Expire" => j \in Places
    BY <1>2, <1>3
  <1>6. \A j \in Places' : msgs'[j].kind # "Expire" => msgs'[j].timer \in live
    BY <1>2, <1>5 DEF LifeInv, QueueInv
  <1>7. \A j, k \in Places' : msgs'[j] = msgs'[k] /\ msgs'[j].kind # "Expire" => j = k
    BY <1>2, <1>5 DEF LifeInv, QueueInv
  <1>8. \A j, k \in Places' :
           /\ msgs'[j].kind = "Push" /\ msgs'[k].kind = "Remove"
           /\ msgs'[j].timer = msgs'[k].timer
           => j < k
    <2> SUFFICES ASSUME NEW j \in Places', NEW k \in Places',
                        msgs'[j].kind = "Push", msgs'[k].kind = "Remove",
                        msgs'[j].timer = msgs'[k].timer
                 PROVE  j < k
      OBVIOUS
    <2>1. j \in Places /\ k \in Places
      BY <1>5
    <2> QED BY <1>2, <2>1 DEF LifeInv, QueueInv
  <1>9. \A e : (\E j \in Places : msgs[j] = [kind |-> "Remove", timer |-> e]) <=>
               (\E j \in Places' : msgs'[j] = [kind |-> "Remove", timer |-> e])
    BY <1>2, <1>3, <1>4
  <1> QED BY <1>6, <1>7, <1>8, <1>9 DEF LifeInv, QueueInv

(* Taking a message that is not a Remove leaves what there is.              *)
LEMMA TakenKeeps ==
    ASSUME LifeInv, NEW kind \in {"Push", "Expire"}, NEW d, Take(kind, d),
           UNCHANGED <<mTimer, live>>
    PROVE  QueueInv'
  <1>1. TypeOK
    BY DEF LifeInv
  <1>2. /\ Len(msgs) \in Nat \ {0} /\ Places' = 1 .. Len(msgs) - 1
        /\ msgs[1] = [kind |-> kind, timer |-> d]
        /\ \A j \in Places' : msgs'[j] = msgs[j + 1] /\ j + 1 \in Places
    BY <1>1, Taken
  <1>3. \A e : (\E j \in Places : msgs[j] = [kind |-> "Remove", timer |-> e]) <=>
               (\E j \in Places' : msgs'[j] = [kind |-> "Remove", timer |-> e])
    <2> TAKE e
    <2>1. [kind |-> "Remove", timer |-> e] # [kind |-> kind, timer |-> d]
      OBVIOUS
    <2> QED BY <1>1, <2>1, TakenRest
  <1>4. \A j, k \in Places' : j + 1 = k + 1 => j = k
    BY <1>2
  <1>5. \A j, k \in Places' : j + 1 < k + 1 => j < k
    BY <1>2
  <1>6. \A j \in Places' : msgs'[j].kind # "Expire" => msgs'[j].timer \in live
    BY <1>2 DEF LifeInv, QueueInv
  <1>7. \A j, k \in Places' : msgs'[j] = msgs'[k] /\ msgs'[j].kind # "Expire" => j = k
    BY <1>2, <1>4 DEF LifeInv, QueueInv
  <1>8. \A j, k \in Places' :
           /\ msgs'[j].kind = "Push" /\ msgs'[k].kind = "Remove"
           /\ msgs'[j].timer = msgs'[k].timer
           => j < k
    BY <1>2, <1>5 DEF LifeInv, QueueInv
  <1>9. \A e \in live :
           (\A c \in Clients : mTimer[c] # e) <=>
           (\E j \in Places' : msgs'[j] = [kind |-> "Remove", timer |-> e])
    BY <1>3 DEF LifeInv, QueueInv
  <1> QED BY <1>6, <1>7, <1>8, <1>9 DEF QueueInv

(* The first message, when it is a Remove, is the only one about its timer, *)
(* which does not run.                                                      *)
LEMMA TakenRemove ==
    ASSUME LifeInv, NEW d \in live, Take("Remove", d), UNCHANGED mTimer,
           live' = live \ {d}
    PROVE  QueueInv' /\ \A c \in Clients : mTimer[c] # d
  <1>1. TypeOK
    BY DEF LifeInv
  <1>2. /\ Len(msgs) \in Nat \ {0} /\ Places' = 1 .. Len(msgs) - 1
        /\ msgs[1] = [kind |-> "Remove", timer |-> d]
        /\ \A j \in Places' : msgs'[j] = msgs[j + 1] /\ j + 1 \in Places
    BY <1>1, Taken
  <1>3. 1 \in Places /\ msgs[1].kind = "Remove" /\ msgs[1].timer = d
    BY <1>2 DEF Places
  <1>4. \A c \in Clients : mTimer[c] # d
    BY <1>2, <1>3 DEF LifeInv, QueueInv
  <1>5. ASSUME NEW j \in Places, msgs[j].kind # "Expire", msgs[j].timer = d
        PROVE  j = 1
    <2>1. msgs \in Seq(Messages)
      BY <1>1 DEF TypeOK, Messages
    <2>2. msgs[j] \in Messages
      BY <2>1 DEF Places
    <2>3. CASE msgs[j].kind = "Remove"
      <3>1. \A m \in Messages : m = [kind |-> m.kind, timer |-> m.timer]
        BY DEF Messages
      <3>2. msgs[j] = msgs[1]
        BY <1>2, <1>5, <2>2, <2>3, <3>1
      <3> QED BY <1>3, <1>5, <3>2 DEF LifeInv, QueueInv
    <2>4. CASE msgs[j].kind = "Push"
      <3>1. j < 1
        BY <1>3, <1>5, <2>4 DEF LifeInv, QueueInv
      <3> QED BY <3>1, <1>2 DEF Places
    <2> QED BY <1>5, <2>2, <2>3, <2>4 DEF Messages
  <1>6. ASSUME NEW e, e # d
        PROVE  (\E j \in Places : msgs[j] = [kind |-> "Remove", timer |-> e]) <=>
               (\E j \in Places' : msgs'[j] = [kind |-> "Remove", timer |-> e])
    <2>1. [kind |-> "Remove", timer |-> e] # [kind |-> "Remove", timer |-> d]
      BY <1>6
    <2> QED BY <1>1, <2>1, TakenRest
  <1>7. \A j, k \in Places' : (j + 1 = k + 1 => j = k) /\ (j + 1 < k + 1 => j < k)
    BY <1>2
  <1>8. \A j \in Places' : msgs'[j].kind # "Expire" => msgs'[j].timer \in live'
    <2> SUFFICES ASSUME NEW j \in Places', msgs'[j].kind # "Expire"
                 PROVE  msgs'[j].timer \in live'
      OBVIOUS
    <2>1. msgs'[j] = msgs[j + 1] /\ j + 1 \in Places /\ j + 1 # 1
      BY <1>2
    <2>2. msgs[j + 1].timer \in live /\ msgs[j + 1].timer # d
      BY <1>5, <2>1 DEF LifeInv, QueueInv
    <2> QED BY <2>1, <2>2
  <1>9. QueueInv'
    <2>1. \A j, k \in Places' : msgs'[j] = msgs'[k] /\ msgs'[j].kind # "Expire" => j = k
      BY <1>2, <1>7 DEF LifeInv, QueueInv
    <2>2. \A j, k \in Places' :
             /\ msgs'[j].kind = "Push" /\ msgs'[k].kind = "Remove"
             /\ msgs'[j].timer = msgs'[k].timer
             => j < k
      BY <1>2, <1>7 DEF LifeInv, QueueInv
    <2>3. \A e \in live' :
             (\A c \in Clients : mTimer[c] # e) <=>
             (\E j \in Places' : msgs'[j] = [kind |-> "Remove", timer |-> e])
      BY <1>6 DEF LifeInv, QueueInv
    <2> QED BY <1>8, <2>1, <2>2, <2>3 DEF QueueInv
  <1> QED BY <1>4, <1>9

(* LocTimer::stop sends the one Remove of the timer.                        *)
LEMMA StoppedKeeps ==
    ASSUME LifeInv, NEW c \in Clients, mTimer[c] # NULL,
           mTimer' = [mTimer EXCEPT ![c] = NULL], Send("Remove", mTimer[c]),
           UNCHANGED <<starts, live>>
    PROVE  ClientInv' /\ QueueInv'
  <1> DEFINE d == mTimer[c]
             n == Len(msgs) + 1
  <1>1. TypeOK /\ d \in live /\ d \in Delegates /\ d # NULL
    BY NullIsNone DEF LifeInv, ClientInv, TypeOK
  <1>2. /\ Len(msgs) \in Nat /\ Places' = 1 .. n
        /\ msgs'[n] = [kind |-> "Remove", timer |-> d]
        /\ \A j \in Places : msgs'[j] = msgs[j]
    BY <1>1, Sent
  <1>3. /\ \A j \in Places' : j \in Places \/ j = n
        /\ Places \subseteq Places' /\ n \in Places'
        /\ \A j \in Places : j < n
    BY <1>2 DEF Places
  <1>4. \A e \in Clients : mTimer'[e] = IF e = c THEN NULL ELSE mTimer[e]
    BY <1>1 DEF TypeOK
  <1>5. \A e \in Clients : e # c => mTimer[e] # d
    BY <1>1 DEF LifeInv, ClientInv
  <1>6. ClientInv'
    BY <1>4 DEF LifeInv, ClientInv
  <1>7. ~ \E j \in Places : msgs[j] = [kind |-> "Remove", timer |-> d]
    BY <1>1 DEF LifeInv, QueueInv
  <1> HIDE DEF d, n
  <1>8. \A j \in Places' : msgs'[j].kind # "Expire" => msgs'[j].timer \in live
    BY <1>1, <1>2, <1>3 DEF LifeInv, QueueInv
  <1>9. \A j, k \in Places' : msgs'[j] = msgs'[k] /\ msgs'[j].kind # "Expire" => j = k
    <2> SUFFICES ASSUME NEW j \in Places', NEW k \in Places',
                        msgs'[j] = msgs'[k], msgs'[j].kind # "Expire"
                 PROVE  j = k
      OBVIOUS
    <2>1. CASE j \in Places /\ k \in Places
      BY <1>2, <2>1 DEF LifeInv, QueueInv
    <2>2. CASE j = n \/ k = n
      BY <1>2, <1>3, <1>7, <2>2
    <2> QED BY <1>3, <2>1, <2>2
  <1>10. \A j, k \in Places' :
            /\ msgs'[j].kind = "Push" /\ msgs'[k].kind = "Remove"
            /\ msgs'[j].timer = msgs'[k].timer
            => j < k
    <2> SUFFICES ASSUME NEW j \in Places', NEW k \in Places',
                        msgs'[j].kind = "Push", msgs'[k].kind = "Remove",
                        msgs'[j].timer = msgs'[k].timer
                 PROVE  j < k
      OBVIOUS
    <2>1. j \in Places
      BY <1>2, <1>3
    <2>2. CASE k \in Places
      BY <1>2, <2>1, <2>2 DEF LifeInv, QueueInv
    <2>3. CASE k = n
      BY <1>3, <2>1, <2>3
    <2> QED BY <1>3, <2>2, <2>3
  <1>11. ASSUME NEW e \in live
         PROVE  (\A b \in Clients : mTimer'[b] # e) <=>
                (\E j \in Places' : msgs'[j] = [kind |-> "Remove", timer |-> e])
    <2>1. CASE e = d
      BY <1>1, <1>2, <1>3, <1>4, <1>5, <2>1
    <2>2. CASE e # d
      <3>1. e # NULL
        BY <1>1, NullIsNone DEF TypeOK
      <3>2. (\A b \in Clients : mTimer'[b] # e) <=> (\A b \in Clients : mTimer[b] # e)
        BY <1>4, <2>2, <3>1 DEF d
      <3>3. (\E j \in Places' : msgs'[j] = [kind |-> "Remove", timer |-> e]) <=>
            (\E j \in Places : msgs[j] = [kind |-> "Remove", timer |-> e])
        BY <1>2, <1>3, <2>2
      <3> QED BY <3>2, <3>3 DEF LifeInv, QueueInv
    <2> QED BY <2>1, <2>2
  <1> QED BY <1>6, <1>8, <1>9, <1>10, <1>11 DEF QueueInv

(* LocTimer::start: no message and no heap knows the new timer.             *)
LEMMA StartedKeeps ==
    ASSUME LifeInv, NEW c \in Clients, NEW delay \in Delays, Start(c, delay)
    PROVE  TypeOK' /\ ClientInv' /\ QueueInv'
  <1> DEFINE d == [client |-> c, no |-> starts[c] + 1, due |-> now + delay]
             n == Len(msgs) + 1
  <1>1. TypeOK
    BY DEF LifeInv
  <1>2. /\ mTimer[c] = NULL /\ starts[c] < MaxStarts /\ now + delay <= MaxTime
        /\ starts' = [starts EXCEPT ![c] = @ + 1]
        /\ mTimer' = [mTimer EXCEPT ![c] = d]
        /\ live' = live \cup {d}
        /\ Send("Push", d)
        /\ UNCHANGED <<now, mTree, expiring, fdVars, pollPc, calledBack>>
    BY DEF Start
  <1>3. d \in Delegates /\ starts[c] + 1 \in 0 .. MaxStarts /\ starts[c] \in Nat
    <2>1. /\ starts[c] \in 0 .. MaxStarts /\ now \in 0 .. MaxTime /\ delay \in Nat
          /\ MaxStarts \in Nat /\ MaxTime \in Nat
      BY <1>1, ConstantsAssumption DEF TypeOK
    <2>2. starts[c] + 1 \in 1 .. MaxStarts /\ now + delay \in 0 .. MaxTime
      BY <1>2, <2>1
    <2> QED BY <2>1, <2>2 DEF Delegates
  <1>4. d \notin live
    BY <1>3 DEF LifeInv, ClientInv
  <1>5. /\ msgs' \in Seq(Messages)
        /\ Len(msgs) \in Nat /\ Places' = 1 .. n
        /\ msgs'[n] = [kind |-> "Push", timer |-> d]
        /\ \A j \in Places : msgs'[j] = msgs[j]
    BY <1>1, <1>2, <1>3, Sent
  <1>6. /\ \A j \in Places' : j \in Places \/ j = n
        /\ Places \subseteq Places' /\ n \in Places'
    BY <1>5 DEF Places
  <1>7. d.client = c /\ d.no = starts[c] + 1
    OBVIOUS
  <1> HIDE DEF d, n
  <1>8. TypeOK'
    <2>1. starts' \in [Clients -> 0 .. MaxStarts]
      BY <1>1, <1>2, <1>3 DEF TypeOK
    <2>2. /\ mTimer' \in [Clients -> Delegates \cup {NULL}]
          /\ live' \subseteq Delegates /\ mTree' \subseteq live'
      BY <1>1, <1>2, <1>3 DEF TypeOK
    <2>3. msgs' \in Seq([kind : {"Push", "Remove", "Expire"},
                         timer : Delegates \cup {NULL}])
      BY <1>5 DEF Messages
    <2> QED BY <1>1, <1>2, <2>1, <2>2, <2>3 DEF TypeOK, fdVars
  <1>9. ClientInv'
    <2>1. ASSUME NEW e \in Clients, mTimer'[e] # NULL
          PROVE  mTimer'[e] \in live' /\ mTimer'[e].client = e
      <3>1. CASE e = c
        BY <1>1, <1>2, <1>7, <3>1 DEF TypeOK
      <3>2. CASE e # c
        BY <1>1, <1>2, <2>1, <3>2 DEF TypeOK, LifeInv, ClientInv
      <3> QED BY <3>1, <3>2
    <2>2. ASSUME NEW e \in live'
          PROVE  e.no <= starts'[e.client]
      <3>1. CASE e = d
        <4>1. starts'[c] = starts[c] + 1
          BY <1>1, <1>2 DEF TypeOK
        <4> QED BY <1>3, <1>7, <3>1, <4>1
      <3>2. CASE e # d
        <4>0. e \in live /\ e \in Delegates
          BY <1>1, <1>2, <3>2 DEF TypeOK
        <4>1. e.client \in Clients /\ e.no \in Nat
          BY <4>0 DEF Delegates
        <4>2. e.no <= starts[e.client] /\ starts[e.client] \in Nat
          <5>1. starts[e.client] \in 0 .. MaxStarts
            BY <1>1, <4>1 DEF TypeOK
          <5> QED BY <4>0, <5>1 DEF LifeInv, ClientInv
        <4>3. starts'[e.client] = IF e.client = c THEN starts[c] + 1 ELSE starts[e.client]
          BY <1>1, <1>2, <4>1 DEF TypeOK
        <4> QED BY <4>1, <4>2, <4>3
      <3> QED BY <3>1, <3>2
    <2> QED BY <2>1, <2>2 DEF ClientInv
  <1>10. \A j \in Places : msgs[j].kind # "Expire" => msgs[j].timer # d
    BY <1>4 DEF LifeInv, QueueInv
  <1>11. QueueInv'
    <2>1. \A j \in Places' : msgs'[j].kind # "Expire" => msgs'[j].timer \in live'
      BY <1>2, <1>5, <1>6 DEF LifeInv, QueueInv
    <2>2. \A j, k \in Places' : msgs'[j] = msgs'[k] /\ msgs'[j].kind # "Expire" => j = k
      BY <1>5, <1>6, <1>10 DEF LifeInv, QueueInv
    <2>3. \A j, k \in Places' :
             /\ msgs'[j].kind = "Push" /\ msgs'[k].kind = "Remove"
             /\ msgs'[j].timer = msgs'[k].timer
             => j < k
      <3> SUFFICES ASSUME NEW j \in Places', NEW k \in Places',
                          msgs'[j].kind = "Push", msgs'[k].kind = "Remove",
                          msgs'[j].timer = msgs'[k].timer
                   PROVE  j < k
        OBVIOUS
      <3>1. k \in Places
        BY <1>5, <1>6
      <3>2. j # n
        BY <1>5, <1>10, <3>1
      <3> QED BY <1>5, <1>6, <3>1, <3>2 DEF LifeInv, QueueInv
    <2>4. ASSUME NEW e \in live'
          PROVE  (\A b \in Clients : mTimer'[b] # e) <=>
                 (\E j \in Places' : msgs'[j] = [kind |-> "Remove", timer |-> e])
      <3>1. (\E j \in Places' : msgs'[j] = [kind |-> "Remove", timer |-> e]) <=>
            (\E j \in Places : msgs[j] = [kind |-> "Remove", timer |-> e])
        BY <1>5, <1>6
      <3>2. CASE e = d
        <4>1. mTimer'[c] = d
          BY <1>1, <1>2 DEF TypeOK
        <4> QED BY <1>10, <3>1, <3>2, <4>1
      <3>3. CASE e # d
        <4>1. e \in live /\ e # NULL
          BY <1>1, <1>2, <3>3, NullIsNone DEF TypeOK
        <4>2. (\A b \in Clients : mTimer'[b] # e) <=> (\A b \in Clients : mTimer[b] # e)
          BY <1>1, <1>2, <3>3, <4>1 DEF TypeOK
        <4> QED BY <3>1, <4>1, <4>2 DEF LifeInv, QueueInv
      <3> QED BY <3>2, <3>3
    <2> QED BY <2>1, <2>2, <2>3, <2>4 DEF QueueInv
  <1> QED BY <1>8, <1>9, <1>11

----------------------------------------------------------------------------
(* The threads                                                              *)

LEMMA ArmedType ==
    ASSUME TypeOK, mTree' \in SUBSET Delegates, SetSoonest \/ UNCHANGED fdVars
    PROVE  armed' \in (0 .. MaxTime) \cup {NULL} /\ polled' \in BOOLEAN
  <1>1. CASE UNCHANGED fdVars
    BY <1>1 DEF fdVars, TypeOK
  <1>2. CASE ~UNCHANGED fdVars
    <2>1. PICK d \in SoonestOf(mTree') : armed' = d.due
      BY <1>2 DEF SetSoonest
    <2>2. d \in Delegates
      BY <2>1 DEF SoonestOf
    <2>3. polled' = TRUE
      BY <1>2 DEF SetSoonest
    <2> QED BY <2>1, <2>2, <2>3 DEF Delegates
  <1> QED BY <1>1, <1>2

LEMMA MessagesTyped ==
    ASSUME msgs' \in Seq(Messages)
    PROVE  msgs' \in Seq([kind : {"Push", "Remove", "Expire"},
                          timer : Delegates \cup {NULL}])
  BY DEF Messages

LEMMA DoStopKeeps ==
    ASSUME LifeInv, NEW c \in Clients, mTimer[c] # NULL, DoStop(c)
    PROVE  /\ ClientInv' /\ QueueInv'
           /\ mTimer' \in [Clients -> Delegates \cup {NULL}]
           /\ msgs' \in Seq(Messages)
           /\ UNCHANGED <<now, starts, live, mTree, armed, polled, pollPc>>
  <1>1. /\ mTimer' = [mTimer EXCEPT ![c] = NULL] /\ Send("Remove", mTimer[c])
        /\ UNCHANGED <<now, starts, live, mTree, armed, polled, pollPc>>
    BY DEF DoStop, heapVars, fdVars
  <1>2. ClientInv' /\ QueueInv'
    BY <1>1, StoppedKeeps
  <1>3. TypeOK /\ mTimer[c] \in Delegates \cup {NULL}
    BY DEF LifeInv, TypeOK
  <1>4. msgs' \in Seq(Messages)
    BY <1>1, <1>3, Sent
  <1>5. mTimer' \in [Clients -> Delegates \cup {NULL}]
    BY <1>1, <1>3 DEF TypeOK
  <1> QED BY <1>1, <1>2, <1>4, <1>5

LEMMA ClientsKeepLife ==
    ASSUME LifeInv, NEW c \in Clients,
           Stop(c) \/ \E delay \in Delays : Start(c, delay)
    PROVE  LifeInv'
  <1>1. CASE Stop(c)
    <2>1. mTimer[c] # NULL /\ DoStop(c) /\ UNCHANGED <<expiring, calledBack>>
      BY <1>1 DEF Stop
    <2>2. TypeOK'
      BY <2>1, DoStopKeeps, MessagesTyped DEF LifeInv, TypeOK
    <2> QED BY <2>1, <2>2, DoStopKeeps DEF LifeInv, ExpiringInv
  <1>2. ASSUME NEW delay \in Delays, Start(c, delay)
        PROVE  LifeInv'
    <2>1. ExpiringInv'
      BY <1>2 DEF Start, LifeInv, ExpiringInv
    <2> QED BY <1>2, <2>1, StartedKeeps DEF LifeInv
  <1> QED BY <1>1, <1>2

LEMMA PushKeepsLife ==
    ASSUME LifeInv, NEW d \in live, Push(d)
    PROVE  LifeInv'
  <1>1. /\ Take("Push", d) /\ mTree' = mTree \cup {d}
        /\ SetSoonest \/ UNCHANGED fdVars
        /\ UNCHANGED <<now, starts, mTimer, live, expiring, pollPc, calledBack>>
    BY DEF Push, clientVars
  <1>2. TypeOK /\ mTree' \in SUBSET Delegates
    BY <1>1 DEF LifeInv, TypeOK
  <1>3. armed' \in (0 .. MaxTime) \cup {NULL} /\ polled' \in BOOLEAN
    BY <1>1, <1>2, ArmedType
  <1>4. msgs' \in Seq(Messages)
    BY <1>1, <1>2, Taken
  <1>5. TypeOK'
    BY <1>1, <1>2, <1>3, <1>4, MessagesTyped DEF TypeOK
  <1>6. QueueInv'
    BY <1>1, TakenKeeps
  <1>7. ClientInv' /\ ExpiringInv'
    BY <1>1 DEF LifeInv, ClientInv, ExpiringInv
  <1> QED BY <1>5, <1>6, <1>7 DEF LifeInv

LEMMA RemoveKeepsLife ==
    ASSUME LifeInv, NEW d \in live, Remove(d)
    PROVE  LifeInv'
  <1>1. /\ Take("Remove", d) /\ mTree' = mTree \ {d} /\ live' = live \ {d}
        /\ SetSoonest \/ UNCHANGED fdVars
        /\ UNCHANGED <<now, starts, mTimer, expiring, pollPc, calledBack>>
    BY DEF Remove, clientVars
  <1>2. TypeOK /\ mTree' \in SUBSET Delegates /\ mTree' \subseteq live'
    BY <1>1 DEF LifeInv, TypeOK
  <1>3. armed' \in (0 .. MaxTime) \cup {NULL} /\ polled' \in BOOLEAN
    BY <1>1, <1>2, ArmedType
  <1>4. msgs' \in Seq(Messages) /\ expiring.pc = "idle"
    BY <1>1, <1>2, Taken
  <1>5. TypeOK'
    BY <1>1, <1>2, <1>3, <1>4, MessagesTyped DEF TypeOK
  <1>6. QueueInv' /\ \A c \in Clients : mTimer[c] # d
    BY <1>1, TakenRemove
  <1>7. ClientInv' /\ ExpiringInv'
    BY <1>1, <1>4, <1>6 DEF LifeInv, ClientInv, ExpiringInv
  <1> QED BY <1>5, <1>6, <1>7 DEF LifeInv

LEMMA ExpiringKeepsLife ==
    ASSUME LifeInv, Expire \/ Pop \/ PopNone \/ ReadClient \/ StopAndCall
    PROVE  LifeInv'
  <1>0. TypeOK
    BY DEF LifeInv
  <1>1. CASE Expire
    <2>1. /\ Take("Expire", NULL)
          /\ expiring' = [pc |-> "pop first", clock |-> now, timer |-> NULL]
          /\ UNCHANGED <<now, starts, mTimer, live, mTree, armed, polled, pollPc,
                         calledBack>>
      BY <1>1 DEF Expire, clientVars, heapVars, fdVars
    <2>2. msgs' \in Seq(Messages)
      BY <1>0, <2>1, Taken
    <2>3. TypeOK'
      BY <1>0, <2>1, <2>2, MessagesTyped DEF TypeOK
    <2>4. QueueInv'
      BY <2>1, TakenKeeps
    <2> QED BY <2>1, <2>3, <2>4 DEF LifeInv, ClientInv, ExpiringInv
  <1>2. CASE Pop
    <2>1. PICK d \in mTree : /\ mTree' = mTree \ {d}
                             /\ expiring' = [expiring EXCEPT !.pc = "expire", !.timer = d]
      BY <1>2 DEF Pop, SoonestOf
    <2>2. UNCHANGED <<now, starts, mTimer, live, msgs, armed, polled, pollPc, calledBack>>
      BY <1>2 DEF Pop, clientVars, fdVars
    <2>3. TypeOK'
      BY <1>0, <2>1, <2>2 DEF TypeOK
    <2>4. ExpiringInv'
      BY <1>0, <2>1, <2>2 DEF TypeOK, ExpiringInv
    <2> QED BY <2>2, <2>3, <2>4 DEF LifeInv, ClientInv, QueueInv, Places
  <1>3. CASE PopNone
    <2>1. /\ expiring' = Idle /\ mTree' = mTree /\ SetSoonest
          /\ UNCHANGED <<now, starts, mTimer, live, msgs, pollPc, calledBack>>
      BY <1>3 DEF PopNone, clientVars
    <2>2. armed' \in (0 .. MaxTime) \cup {NULL} /\ polled' \in BOOLEAN
      <3>1. mTree' \in SUBSET Delegates
        BY <1>0, <2>1 DEF TypeOK
      <3> QED BY <1>0, <2>1, <3>1, ArmedType
    <2>3. expiring' \in [pc : {"idle", "pop first", "pop next", "expire", "stop"},
                         clock : 0 .. MaxTime, timer : Delegates \cup {NULL}]
      BY <2>1, ConstantsAssumption DEF Idle
    <2>4. TypeOK'
      BY <1>0, <2>1, <2>2, <2>3 DEF TypeOK
    <2>5. ExpiringInv'
      BY <2>1 DEF ExpiringInv, Idle
    <2> QED BY <2>1, <2>4, <2>5 DEF LifeInv, ClientInv, QueueInv, Places
  <1>4. CASE ReadClient
    <2>1. UNCHANGED <<now, starts, mTimer, live, mTree, msgs, armed, polled,
                      pollPc, calledBack>>
      BY <1>4 DEF ReadClient, clientVars, heapVars, fdVars
    <2>2. /\ expiring.timer \in Delegates
          /\ \/ expiring' = [expiring EXCEPT !.pc = "stop"]
             \/ expiring' = [expiring EXCEPT !.pc = "pop next", !.timer = NULL]
      BY <1>0, <1>4 DEF ReadClient, LifeInv, ExpiringInv, TypeOK
    <2>3. TypeOK'
      BY <1>0, <2>1, <2>2 DEF TypeOK
    <2>4. ExpiringInv'
      BY <1>0, <2>2 DEF ExpiringInv, TypeOK
    <2> QED BY <2>1, <2>3, <2>4 DEF LifeInv, ClientInv, QueueInv, Places
  <1>5. CASE StopAndCall
    <2> DEFINE c == expiring.timer.client
    <2>1. expiring' = [expiring EXCEPT !.pc = "pop next", !.timer = NULL]
          /\ expiring.timer \in Delegates
      BY <1>5 DEF StopAndCall, LifeInv, ExpiringInv
    <2>2. c \in Clients
      BY <2>1 DEF Delegates
    <2>3. ExpiringInv'
      BY <1>0, <2>1 DEF ExpiringInv, TypeOK
    <2>4. expiring' \in [pc : {"idle", "pop first", "pop next", "expire", "stop"},
                         clock : 0 .. MaxTime, timer : Delegates \cup {NULL}]
      BY <1>0, <2>1 DEF TypeOK
    <2> HIDE DEF c
    <2>5. CASE mTimer[c] = NULL
      <3>1. UNCHANGED <<now, starts, mTimer, live, mTree, msgs, armed, polled,
                        pollPc, calledBack>>
        BY <1>5, <2>5 DEF c, StopAndCall, clientVars, heapVars, fdVars
      <3>2. TypeOK'
        BY <1>0, <2>4, <3>1 DEF TypeOK
      <3> QED BY <2>3, <3>1, <3>2 DEF LifeInv, ClientInv, QueueInv, Places
    <2>6. CASE mTimer[c] # NULL
      <3>1. DoStop(c) /\ calledBack' = calledBack \cup {mTimer[c]}
        BY <1>5, <2>6 DEF c, StopAndCall
      <3>2. mTimer[c] \in Delegates
        BY <1>0, <2>2, <2>6 DEF TypeOK
      <3>3. TypeOK'
        BY <1>0, <2>2, <2>4, <2>6, <3>1, <3>2, DoStopKeeps, MessagesTyped DEF TypeOK
      <3> QED BY <2>2, <2>3, <2>6, <3>1, <3>3, DoStopKeeps DEF LifeInv
    <2> QED BY <2>5, <2>6
  <1> QED BY <1>1, <1>2, <1>3, <1>4, <1>5

LEMMA PollKeepsLife ==
    ASSUME LifeInv, PollThread \/ Tick
    PROVE  LifeInv'
  <1>0. TypeOK
    BY DEF LifeInv
  <1>1. UNCHANGED <<starts, mTimer, live, mTree, expiring, calledBack>>
    BY DEF PollThread, Wake, Disarm, RemovePoll, SendExpire, Tick, clientVars,
       heapVars
  <1>2. /\ now' \in 0 .. MaxTime
        /\ armed' \in (0 .. MaxTime) \cup {NULL}
        /\ polled' \in BOOLEAN
        /\ pollPc' \in {"epoll_wait", "disarm", "removePoll", "sendMsg"}
    <2>1. now' \in 0 .. MaxTime
      <3>1. now' = now \/ (now < MaxTime /\ now' = now + 1)
        BY DEF PollThread, Wake, Disarm, RemovePoll, SendExpire, Tick
      <3>2. now \in 0 .. MaxTime /\ MaxTime \in Nat
        BY <1>0, ConstantsAssumption DEF TypeOK
      <3> QED BY <3>1, <3>2
    <2>2. armed' \in (0 .. MaxTime) \cup {NULL}
      BY <1>0 DEF PollThread, Wake, Disarm, RemovePoll, SendExpire, Tick, fdVars,
         TypeOK
    <2>3. polled' \in BOOLEAN
      BY <1>0 DEF PollThread, Wake, Disarm, RemovePoll, SendExpire, Tick, fdVars,
         TypeOK
    <2>4. pollPc' \in {"epoll_wait", "disarm", "removePoll", "sendMsg"}
      BY <1>0 DEF PollThread, Wake, Disarm, RemovePoll, SendExpire, Tick, TypeOK
    <2> QED BY <2>1, <2>2, <2>3, <2>4
  <1>3. msgs' \in Seq(Messages) /\ QueueInv'
    <2>1. CASE SendExpire
      <3>1. Send("Expire", NULL)
        BY <2>1 DEF SendExpire
      <3> QED BY <1>0, <1>1, <3>1, Sent, SentExpireKeeps
    <2>2. CASE UNCHANGED msgs
      <3>1. msgs' \in Seq(Messages)
        BY <1>0, <2>2 DEF TypeOK, Messages
      <3>2. QueueInv'
        BY <1>1, <2>2 DEF LifeInv, QueueInv, Places
      <3> QED BY <3>1, <3>2
    <2> QED BY <2>1, <2>2 DEF PollThread, Wake, Disarm, RemovePoll, Tick
  <1>4. TypeOK'
    BY <1>0, <1>1, <1>2, <1>3, MessagesTyped DEF TypeOK
  <1>5. ClientInv' /\ ExpiringInv'
    BY <1>1 DEF LifeInv, ClientInv, ExpiringInv
  <1> QED BY <1>3, <1>4, <1>5 DEF LifeInv

LEMMA NextKeepsLife == LifeInv /\ [Next]_vars => LifeInv'
  <1> SUFFICES ASSUME LifeInv, [Next]_vars PROVE LifeInv'
    OBVIOUS
  <1>1. CASE UNCHANGED vars
    <2>1. UNCHANGED <<now, starts, mTimer, live, mTree, msgs, expiring, armed,
                      polled, pollPc, calledBack>>
      BY <1>1 DEF vars, clientVars, heapVars, fdVars
    <2>2. TypeOK'
      BY <2>1 DEF LifeInv, TypeOK
    <2>3. QueueInv'
      BY <2>1 DEF LifeInv, QueueInv, Places
    <2>4. ClientInv' /\ ExpiringInv'
      BY <2>1 DEF LifeInv, ClientInv, ExpiringInv
    <2> QED BY <2>2, <2>3, <2>4 DEF LifeInv
  <1>2. CASE Next
    BY <1>2, ClientsKeepLife, PushKeepsLife, RemoveKeepsLife, ExpiringKeepsLife,
       PollKeepsLife DEF Next, MsgThread
  <1> QED BY <1>1, <1>2

LEMMA LifeAlways == Spec => []LifeInv
  BY InitLife, NextKeepsLife, PTL DEF Spec

----------------------------------------------------------------------------
(* The timerfd                                                              *)

ExpireQueued == \E j \in Places : msgs[j] = [kind |-> "Expire", timer |-> NULL]

LEMMA ExpireAmong ==
    ASSUME NEW q \in Seq(Messages)
    PROVE  NULL \in {q[k].timer : k \in {j \in 1 .. Len(q) : q[j].kind = "Expire"}}
           <=> \E j \in 1 .. Len(q) : q[j] = [kind |-> "Expire", timer |-> NULL]
  <1>1. \A j \in 1 .. Len(q) : q[j] \in Messages
    OBVIOUS
  <1>2. \A m \in Messages : m = [kind |-> m.kind, timer |-> m.timer]
    BY DEF Messages
  <1>3. NULL \in {q[k].timer : k \in {j \in 1 .. Len(q) : q[j].kind = "Expire"}}
        <=> \E j \in 1 .. Len(q) : q[j].kind = "Expire" /\ q[j].timer = NULL
    OBVIOUS
  <1> QED BY <1>1, <1>2, <1>3

(* What SoonestIsArmed asks of the timerfd.                                 *)
ArmedFor(tree) ==
    tree # {} => polled /\ armed # NULL /\ \A d \in tree : armed <= d.due

LEMMA SetSoonestArms ==
    ASSUME mTree' \in SUBSET Delegates, SetSoonest
    PROVE  ArmedFor(mTree)'
  <1> SUFFICES ASSUME mTree' # {}
               PROVE  polled' /\ armed' # NULL /\ \A d \in mTree' : armed' <= d.due
    BY DEF ArmedFor
  <1>1. PICK d \in SoonestOf(mTree') : armed' = d.due
    BY DEF SetSoonest
  <1>2. d \in Delegates /\ \A e \in mTree' : d.due <= e.due
    BY <1>1 DEF SoonestOf
  <1>3. d.due \in Nat
    BY <1>2, ConstantsAssumption DEF Delegates
  <1>4. polled' = TRUE
    BY DEF SetSoonest
  <1> QED BY <1>1, <1>2, <1>3, <1>4, ConstantsAssumption

LEMMA SentStays ==
    ASSUME TypeOK, ExpireQueued, NEW kind \in {"Push", "Remove", "Expire"},
           NEW d \in Delegates \cup {NULL}, Send(kind, d)
    PROVE  ExpireQueued'
  <1>1. /\ Len(msgs) \in Nat /\ Places' = 1 .. Len(msgs) + 1
        /\ \A j \in Places : msgs'[j] = msgs[j]
    BY Sent
  <1>2. Places \subseteq Places'
    BY <1>1 DEF Places
  <1> QED BY <1>1, <1>2 DEF ExpireQueued

LEMMA NextKeepsArmed ==
    ASSUME LifeInv, LifeInv', SoonestIsArmed, [Next]_vars
    PROVE  SoonestIsArmed'
  <1>0. TypeOK /\ TypeOK'
    BY DEF LifeInv
  <1> SUFFICES ASSUME ~ExpireDue' PROVE ArmedFor(mTree)'
    BY DEF SoonestIsArmed, ArmedFor
  <1>1. pollPc' = "epoll_wait" /\ ~ExpireQueued' /\ expiring' = Idle
    <2>1. msgs' \in Seq(Messages)
      BY <1>0 DEF TypeOK, Messages
    <2> QED BY <2>1, ExpireAmong DEF ExpireDue, InQueue, ExpireQueued, Places
  <1>2. expiring'.pc = "idle"
    BY <1>1 DEF Idle
  <1>3. pollPc = "epoll_wait" /\ ~ExpireQueued /\ expiring = Idle => ArmedFor(mTree)
    <2>1. msgs \in Seq(Messages)
      BY <1>0 DEF TypeOK, Messages
    <2>2. pollPc = "epoll_wait" /\ ~ExpireQueued /\ expiring = Idle => ~ExpireDue
      BY <2>1, ExpireAmong DEF ExpireDue, InQueue, ExpireQueued, Places
    <2> QED BY <2>2 DEF SoonestIsArmed, ArmedFor
  <1>4. /\ mTree \in SUBSET Delegates /\ mTree' \in SUBSET Delegates
        /\ \A d \in Delegates : d.due \in Nat
    <2>1. \A d \in Delegates : d.due \in Nat
      BY ConstantsAssumption DEF Delegates
    <2>2. mTree \in SUBSET Delegates
      BY <1>0 DEF TypeOK
    <2>3. mTree' \in SUBSET Delegates
      BY <1>0 DEF TypeOK
    <2> QED BY <2>1, <2>2, <2>3
  <1>5. ASSUME NEW c \in Clients,
               Stop(c) \/ \E delay \in Delays : Start(c, delay)
        PROVE  ArmedFor(mTree)'
    <2>1. UNCHANGED <<mTree, armed, polled, pollPc, expiring>>
      BY <1>5 DEF Stop, DoStop, Start, heapVars, fdVars
    <2>2. \E kind \in {"Push", "Remove"}, d \in Delegates \cup {NULL} : Send(kind, d)
      <3>1. CASE Stop(c)
        BY <1>0, <3>1 DEF Stop, DoStop, TypeOK
      <3>2. CASE \E delay \in Delays : Start(c, delay)
        <4>1. PICK d : Send("Push", d) /\ mTimer' = [mTimer EXCEPT ![c] = d]
          BY <3>2 DEF Start
        <4>2. mTimer'[c] = d /\ mTimer'[c] \in Delegates \cup {NULL}
          BY <1>0, <4>1 DEF TypeOK
        <4> QED BY <4>1, <4>2
      <3> QED BY <1>5, <3>1, <3>2
    <2>3. ~ExpireQueued
      BY <1>0, <1>1, <2>2, SentStays
    <2> QED BY <1>1, <1>3, <2>1, <2>3 DEF ArmedFor
  <1>6. ASSUME NEW d \in live, Push(d)
        PROVE  ArmedFor(mTree)'
    <2>1. Take("Push", d) /\ mTree' = mTree \cup {d} /\ UNCHANGED <<pollPc, expiring>>
      BY <1>6 DEF Push
    <2>2. ~ExpireQueued
      BY <1>0, <1>1, <2>1, TakenRest DEF ExpireQueued
    <2>3. ArmedFor(mTree)
      BY <1>1, <1>3, <2>1, <2>2
    <2>4. CASE SetSoonest
      BY <1>4, <2>4, SetSoonestArms
    <2>5. CASE (\E e \in mTree : ~(d.due < e.due)) /\ UNCHANGED fdVars
      <3>1. PICK e \in mTree : ~(d.due < e.due)
        BY <2>5
      <3>2. d.due \in Nat /\ e.due \in Nat /\ e.due <= d.due
        BY <1>4, <2>1, <3>1
      <3>3. polled /\ armed # NULL /\ armed \in Nat /\ armed <= e.due
        <4>1. polled /\ armed # NULL /\ armed <= e.due
          BY <2>3, <3>1 DEF ArmedFor
        <4>2. armed \in (0 .. MaxTime) \cup {NULL} /\ MaxTime \in Nat
          BY <1>0, ConstantsAssumption DEF TypeOK
        <4>3. armed \in Nat
          BY <4>1, <4>2
        <4> QED BY <4>1, <4>3
      <3>4. armed <= d.due
        BY <3>2, <3>3
      <3> QED BY <2>1, <2>3, <2>5, <3>3, <3>4 DEF ArmedFor, fdVars
    <2> QED BY <1>6, <2>4, <2>5 DEF Push
  <1>7. ASSUME NEW d \in live, Remove(d)
        PROVE  ArmedFor(mTree)'
    <2>1. Take("Remove", d) /\ mTree' = mTree \ {d} /\ UNCHANGED <<pollPc, expiring>>
      BY <1>7 DEF Remove
    <2>2. ~ExpireQueued
      BY <1>0, <1>1, <2>1, TakenRest DEF ExpireQueued
    <2>3. ArmedFor(mTree)
      BY <1>1, <1>3, <2>1, <2>2
    <2>4. CASE SetSoonest
      BY <1>4, <2>4, SetSoonestArms
    <2>5. CASE UNCHANGED fdVars
      BY <2>1, <2>3, <2>5 DEF ArmedFor, fdVars
    <2> QED BY <1>7, <2>4, <2>5 DEF Remove
  <1>8. CASE PopNone
    BY <1>4, <1>8, SetSoonestArms DEF PopNone
  <1>9. CASE Expire \/ Pop \/ ReadClient \/ StopAndCall
    <2>1. expiring'.pc \in {"pop first", "expire", "stop", "pop next"}
      <3>0. \A pc, t : /\ [expiring EXCEPT !.pc = pc].pc = pc
                       /\ [expiring EXCEPT !.pc = pc, !.timer = t].pc = pc
        BY <1>0 DEF TypeOK
      <3>1. CASE Expire
        BY <3>1 DEF Expire
      <3>2. CASE Pop
        <4>1. \E t : expiring' = [expiring EXCEPT !.pc = "expire", !.timer = t]
          BY <3>2 DEF Pop
        <4> QED BY <3>0, <4>1
      <3>3. CASE ReadClient
        <4>1. \/ expiring' = [expiring EXCEPT !.pc = "stop"]
              \/ expiring' = [expiring EXCEPT !.pc = "pop next", !.timer = NULL]
          BY <3>3 DEF ReadClient
        <4>2. CASE expiring' = [expiring EXCEPT !.pc = "stop"]
          <5>1. [expiring EXCEPT !.pc = "stop"].pc = "stop"
            BY <3>0
          <5> QED BY <4>2, <5>1
        <4>3. CASE expiring' = [expiring EXCEPT !.pc = "pop next", !.timer = NULL]
          BY <3>0, <4>3
        <4> QED BY <4>1, <4>2, <4>3
      <3>4. CASE StopAndCall
        <4>1. expiring' = [expiring EXCEPT !.pc = "pop next", !.timer = NULL]
          BY <3>4 DEF StopAndCall
        <4> QED BY <3>0, <4>1
      <3> QED BY <1>9, <3>1, <3>2, <3>3, <3>4
    <2> QED BY <1>2, <2>1
  <1>10. CASE PollThread
    <2>1. CASE SendExpire
      <3>1. /\ Len(msgs) \in Nat /\ Places' = 1 .. Len(msgs) + 1
            /\ msgs'[Len(msgs) + 1] = [kind |-> "Expire", timer |-> NULL]
        BY <1>0, <2>1, Sent DEF SendExpire
      <3>2. Len(msgs) + 1 \in Places'
        BY <3>1
      <3> QED BY <1>1, <3>1, <3>2 DEF ExpireQueued
    <2>2. CASE Wake \/ Disarm \/ RemovePoll
      BY <1>1, <2>2 DEF Wake, Disarm, RemovePoll
    <2> QED BY <1>10, <2>1, <2>2 DEF PollThread
  <1>11. CASE UNCHANGED <<mTree, armed, polled, pollPc, expiring, msgs>>
    BY <1>1, <1>3, <1>11 DEF ArmedFor, ExpireQueued, Places
  <1>12. Tick \/ UNCHANGED vars => UNCHANGED <<mTree, armed, polled, pollPc, expiring, msgs>>
    BY DEF Tick, vars, heapVars, fdVars
  <1> QED BY <1>5, <1>6, <1>7, <1>8, <1>9, <1>10, <1>11, <1>12 DEF Next, MsgThread

(* Every variable has its type.                                             *)
THEOREM TypeCorrect == Spec => []TypeOK
  <1>1. LifeInv => TypeOK
    BY DEF LifeInv
  <1> QED BY <1>1, LifeAlways, PTL

(* Whatever thread ends a timer first, no message, heap or handler uses it  *)
(* after it is deleted (LocTimerDelegate, MsgTimerRemove).                  *)
THEOREM NoneDangling == Spec => []NoDanglingTimer
  BY LifeSuffices, LifeAlways, PTL

(* A timer that has ended has one Remove in the queue: none is leaked, none *)
(* is deleted twice.                                                        *)
THEOREM EndedRemoved == Spec => []EndedAreRemoved
  BY LifeSuffices, LifeAlways, PTL

(* Whatever the polling thread takes away from the timerfd while the        *)
(* message thread sets it, the soonest timer is armed once no Expire is     *)
(* due (LocTimerContainer::updateSoonestTime, expire).                      *)
THEOREM SoonestArmed == Spec => []SoonestIsArmed
  <1>1. Init => SoonestIsArmed
    BY DEF Init, SoonestIsArmed
  <1>2. LifeInv /\ LifeInv' /\ SoonestIsArmed /\ [Next]_vars => SoonestIsArmed'
    BY NextKeepsArmed
  <1> QED BY <1>1, <1>2, LifeAlways, PTL DEF Spec

----------------------------------------------------------------------------
(* The least element of a set of numbers: induction, without an operator    *)
(* for the induction hypothesis.                                            *)

Less == {ss \in Nat \X Nat : ss[1] < ss[2]}

LEMMA LeastNumber ==
    ASSUME NEW T \in SUBSET Nat, T # {}
    PROVE  \E n \in T : \A m \in T : n <= m
  <1>1. IsWellFoundedOn(Less, Nat)
    <2>1. IsWellFoundedOn({ss \in Nat \X Nat : ss[1] < ss[2]}, Nat)
      BY NatLessThanWellFounded DEF OpToRel
    <2> QED BY <2>1 DEF Less
  <1>2. PICK n \in T : \A m \in T : ~(<<m, n>> \in Less)
    BY <1>1, WFMin
  <1>3. ASSUME NEW m \in T PROVE n <= m
    <2>1. m \in Nat /\ n \in Nat /\ ~(<<m, n>> \in Less)
      BY <1>2
    <2>2. ~(m < n)
      BY <2>1 DEF Less
    <2> QED BY <2>1, <2>2
  <1> QED BY <1>3

(* A set of numbers that has 0 and, with a number, the next, up to a bound. *)
LEMMA UpTo ==
    ASSUME NEW m \in Nat, NEW S, 0 \in S,
           \A n \in 0 .. m : n \in S /\ n < m => n + 1 \in S
    PROVE  \A n \in 0 .. m : n \in S
  <1> DEFINE T == {n \in 0 .. m : n \notin S}
  <1>1. SUFFICES ASSUME T # {} PROVE FALSE
    OBVIOUS
  <1>2. T \in SUBSET Nat
    OBVIOUS
  <1> HIDE DEF T
  <1>3. PICK n \in T : \A j \in T : n <= j
    BY <1>1, <1>2, LeastNumber
  <1>4. n \in 0 .. m /\ n \notin S
    BY <1>3 DEF T
  <1>5. n - 1 \in 0 .. m /\ n - 1 < m /\ (n - 1) + 1 = n /\ n - 1 \notin T
    BY <1>3, <1>4
  <1>6. n - 1 \in S
    BY <1>5 DEF T
  <1> QED BY <1>4, <1>5, <1>6

----------------------------------------------------------------------------
(* The recursive definitions                                                *)

Level(h, n) == IF n = 0 THEN Lowest ELSE Above(h[n - 1])

LEMMA LevelsExist ==
    ASSUME NEW m \in Nat
    PROVE  \E h : h = [n \in 0 .. m |-> Level(h, n)]
  <1> DEFINE S == {j \in 0 .. m : \E h : h = [n \in 0 .. j |-> Level(h, n)]}
  <1>1. 0 \in S
    <2> DEFINE h == [n \in 0 .. 0 |-> Lowest]
    <2>1. h = [n \in 0 .. 0 |-> Level(h, n)]
      BY DEF Level
    <2> QED BY <2>1
  <1>2. ASSUME NEW j \in 0 .. m, j \in S, j < m PROVE j + 1 \in S
    <2>1. PICK h : h = [n \in 0 .. j |-> Level(h, n)]
      BY <1>2
    <2> DEFINE q == [n \in 0 .. j + 1 |-> IF n = j + 1 THEN Level(h, j + 1) ELSE h[n]]
    <2>2. ASSUME NEW n \in 0 .. j + 1 PROVE q[n] = Level(q, n)
      <3>1. CASE n = j + 1
        <4>1. q[n] = Level(h, j + 1) /\ q[j] = h[j] /\ (j + 1) - 1 = j
          BY <3>1
        <4>2. Level(h, j + 1) = Level(q, j + 1)
          BY <4>1 DEF Level
        <4> QED BY <3>1, <4>1, <4>2
      <3>2. CASE n # j + 1
        <4>1. n \in 0 .. j /\ q[n] = h[n]
          BY <3>2
        <4>2. h[n] = Level(h, n)
          BY <2>1, <4>1
        <4>3. n # 0 => q[n - 1] = h[n - 1]
          BY <3>2
        <4>4. Level(h, n) = Level(q, n)
          BY <4>3 DEF Level
        <4> QED BY <4>1, <4>2, <4>4
      <3> QED BY <3>1, <3>2
    <2>3. q = [n \in 0 .. j + 1 |-> Level(q, n)]
      BY <2>2
    <2> HIDE DEF q
    <2>4. j + 1 \in 0 .. m
      BY <1>2
    <2> QED BY <2>3, <2>4
  <1> HIDE DEF S
  <1>3. m \in S
    <2>1. \A n \in 0 .. m : n \in S
      BY <1>1, <1>2, UpTo
    <2> QED BY <2>1
  <1> QED BY <1>3 DEF S

LEMMA HeapLevels ==
    /\ Heaps[0] = Lowest
    /\ \A n \in 0 .. HeapSteps : n < HeapSteps => Heaps[n + 1] = Above(Heaps[n])
  <1>1. HeapSteps \in Nat
    BY HeapAssumption
  <1> DEFINE h == CHOOSE h : h = [n \in 0 .. HeapSteps |-> Level(h, n)]
  <1>2. h = [n \in 0 .. HeapSteps |-> Level(h, n)]
    BY <1>1, LevelsExist
  <1>3. Heaps = h
    BY DEF Heaps, Level
  <1> HIDE DEF h
  <1>4. \A n \in 0 .. HeapSteps : Heaps[n] = Level(Heaps, n)
    BY <1>2, <1>3
  <1>5. Heaps[0] = Lowest
    BY <1>1, <1>4 DEF Level
  <1>6. ASSUME NEW n \in 0 .. HeapSteps, n < HeapSteps
        PROVE  Heaps[n + 1] = Above(Heaps[n])
    <2>1. n + 1 \in 0 .. HeapSteps /\ n + 1 # 0 /\ (n + 1) - 1 = n
      BY <1>1, <1>6
    <2>2. Heaps[n + 1] = Level(Heaps, n + 1)
      BY <1>4, <2>1
    <2> QED BY <2>1, <2>2 DEF Level
  <1> QED BY <1>5, <1>6

LEMMA HeapFields ==
    ASSUME NEW sub, NEW nodes, NEW built, NEW h, h = HeapOf(sub, nodes, built)
    PROVE  /\ h.trees = {NIL} \cup nodes
           /\ h.built = built
           /\ h.checked = {NIL} \cup {t \in nodes : checkNodes(sub, t)}
           /\ \A t \in h.trees :
                 /\ h.items[t] = ItemsIn(sub, t)
                 /\ h.pop[t] = PopNode(sub, t)
                 /\ \A d \in HeapItems :
                       /\ h.push[t][d] = PushNode(sub, t, d)
                       /\ h.remove[t][d] = RemoveNode(sub, t, d)
  <1>1. h.trees = {NIL} \cup nodes
    BY DEF HeapOf
  <1>2. h.checked = {NIL} \cup {t \in nodes : checkNodes(sub, t)}
    BY DEF HeapOf
  <1>3. h.items = [t \in {NIL} \cup nodes |-> ItemsIn(sub, t)]
    BY DEF HeapOf
  <1>4. h.pop = [t \in {NIL} \cup nodes |-> PopNode(sub, t)]
    BY DEF HeapOf
  <1>5. h.push = [t \in {NIL} \cup nodes |-> [d \in HeapItems |-> PushNode(sub, t, d)]]
    BY DEF HeapOf
  <1>6. h.remove = [t \in {NIL} \cup nodes |-> [d \in HeapItems |-> RemoveNode(sub, t, d)]]
    BY DEF HeapOf
  <1>9. h.built = built
    BY DEF HeapOf
  <1>7. ASSUME NEW t \in {NIL} \cup nodes, NEW d \in HeapItems
        PROVE  /\ h.items[t] = ItemsIn(sub, t)
               /\ h.pop[t] = PopNode(sub, t)
               /\ h.push[t][d] = PushNode(sub, t, d)
               /\ h.remove[t][d] = RemoveNode(sub, t, d)
    BY <1>3, <1>4, <1>5, <1>6
  <1>8. ASSUME NEW t \in {NIL} \cup nodes
        PROVE  h.items[t] = ItemsIn(sub, t) /\ h.pop[t] = PopNode(sub, t)
    BY <1>3, <1>4
  <1> QED BY <1>1, <1>2, <1>7, <1>8, <1>9

----------------------------------------------------------------------------
(* A level of heaps                                                         *)

(* What a heap is, whatever its depth.                                      *)
Shaped(h) ==
    /\ NIL \in h.trees /\ h.checked \subseteq h.trees /\ NIL \in h.checked
    /\ h.items[NIL] = {}
    /\ \A t \in h.trees \ {NIL} : t.mData \in HeapItems /\ t.mSize \in Nat \ {0}
    /\ \A t \in h.checked \ {NIL} :
          /\ h.items[t] \subseteq HeapItems
          /\ t.mData \in h.items[t]
          /\ \A d \in h.items[t] : ~outRanks(d, t.mData)

LEMMA RanksOrdered ==
    ASSUME NEW a \in HeapItems, NEW b \in HeapItems
    PROVE  /\ ~outRanks(a, a)
           /\ outRanks(a, b) => ~outRanks(b, a)
           /\ \A c \in HeapItems : ~outRanks(a, b) /\ ~outRanks(b, c) => ~outRanks(a, c)
  <1>1. /\ HeapRank[a] \in Nat /\ HeapRank[b] \in Nat
        /\ \A c \in HeapItems : HeapRank[c] \in Nat
    BY HeapAssumption
  <1> QED BY <1>1 DEF outRanks

LEMMA NodeOf ==
    ASSUME NEW trees, NEW t \in NodesOver(trees)
    PROVE  /\ t.mData \in HeapItems /\ t.mSize \in Nat \ {0}
           /\ t.mLeft \in trees /\ t.mRight \in trees /\ t # NIL
  BY DEF NodesOver, NIL

LEMMA ShapedBase == Shaped(Lowest)
  <1> DEFINE h == Lowest
  <1>1. h.trees = {NIL} /\ h.checked = {NIL} /\ h.items[NIL] = ItemsIn(NIL, NIL)
    BY HeapFields DEF Lowest
  <1> HIDE DEF h
  <1>2. h.items[NIL] = {}
    BY <1>1 DEF ItemsIn
  <1>3. Shaped(h)
    BY <1>1, <1>2 DEF Shaped
  <1> QED BY <1>3 DEF h

LEMMA ShapedStep ==
    ASSUME NEW h, Shaped(h)
    PROVE  Shaped(Above(h))
  <1> DEFINE k == Above(h)
  <1>1. /\ k.trees = {NIL} \cup NodesOver(h.trees)
        /\ k.checked = {NIL} \cup {t \in NodesOver(h.trees) : checkNodes(h, t)}
        /\ \A t \in k.trees : k.items[t] = ItemsIn(h, t)
    BY HeapFields DEF Above
  <1> HIDE DEF k
  <1>2. NIL \in k.trees /\ k.checked \subseteq k.trees /\ NIL \in k.checked
    BY <1>1
  <1>3. k.items[NIL] = {}
    BY <1>1, <1>2 DEF ItemsIn
  <1>4. \A t \in k.trees \ {NIL} : t.mData \in HeapItems /\ t.mSize \in Nat \ {0}
    BY <1>1, NodeOf
  <1>5. ASSUME NEW t \in k.checked \ {NIL}
        PROVE  /\ k.items[t] \subseteq HeapItems
               /\ t.mData \in k.items[t]
               /\ \A d \in k.items[t] : ~outRanks(d, t.mData)
    <2>1. t \in NodesOver(h.trees) /\ checkNodes(h, t) /\ t \in k.trees
      BY <1>1
    <2>2. t.mData \in HeapItems /\ t.mLeft \in h.trees /\ t.mRight \in h.trees /\ t # NIL
      BY <2>1, NodeOf
    <2>3. k.items[t] = {t.mData} \cup h.items[t.mLeft] \cup h.items[t.mRight]
      BY <1>1, <2>1, <2>2 DEF ItemsIn
    <2>4. ASSUME NEW c \in {t.mLeft, t.mRight}
          PROVE  h.items[c] \subseteq HeapItems /\ \A d \in h.items[c] : ~outRanks(d, t.mData)
      <3>1. c \in h.checked
        BY <2>1 DEF checkNodes
      <3>2. CASE c = NIL
        BY <3>2 DEF Shaped
      <3>3. CASE c # NIL
        <4>1. ~outRanks(c.mData, t.mData)
          BY <2>1, <3>3 DEF checkNodes
        <4>2. /\ h.items[c] \subseteq HeapItems /\ c.mData \in h.items[c]
              /\ \A d \in h.items[c] : ~outRanks(d, c.mData)
          BY <3>1, <3>3 DEF Shaped
        <4>3. c.mData \in HeapItems
          BY <4>2
        <4>4. ASSUME NEW d \in h.items[c] PROVE ~outRanks(d, t.mData)
          <5>1. d \in HeapItems /\ ~outRanks(d, c.mData)
            BY <4>2
          <5> QED BY <5>1, <4>1, <4>3, <2>2, RanksOrdered
        <4> QED BY <4>2, <4>4
      <3> QED BY <3>2, <3>3
    <2>5. ~outRanks(t.mData, t.mData)
      BY <2>2, RanksOrdered
    <2> QED BY <2>2, <2>3, <2>4, <2>5
  <1>6. Shaped(k)
    BY <1>2, <1>3, <1>4, <1>5 DEF Shaped
  <1> QED BY <1>6 DEF k

----------------------------------------------------------------------------
(* A level has the heaps of the one below                                   *)

Extended(h, k) ==
    /\ h.trees \subseteq k.trees /\ h.checked \subseteq k.checked
    /\ \A t \in h.trees : k.items[t] = h.items[t]

LEMMA ExtendedBase == Extended(Lowest, Above(Lowest))
  <1> DEFINE h == Lowest
             k == Above(h)
  <1>1. h.trees = {NIL} /\ h.checked = {NIL} /\ h.items[NIL] = ItemsIn(NIL, NIL)
    BY HeapFields DEF Lowest
  <1>2. NIL \in k.trees /\ NIL \in k.checked /\ k.items[NIL] = ItemsIn(h, NIL)
    BY HeapFields DEF Above
  <1> HIDE DEF h, k
  <1>3. k.items[NIL] = h.items[NIL]
    BY <1>1, <1>2 DEF ItemsIn
  <1>4. Extended(h, k)
    BY <1>1, <1>2, <1>3 DEF Extended
  <1> QED BY <1>4 DEF h, k

LEMMA ExtendedStep ==
    ASSUME NEW h, NEW k, Extended(h, k), Shaped(h)
    PROVE  Extended(Above(h), Above(k))
  <1> DEFINE hh == Above(h)
             kk == Above(k)
  <1>1. /\ hh.trees = {NIL} \cup NodesOver(h.trees)
        /\ hh.checked = {NIL} \cup {t \in NodesOver(h.trees) : checkNodes(h, t)}
        /\ \A t \in hh.trees : hh.items[t] = ItemsIn(h, t)
    BY HeapFields DEF Above
  <1>2. /\ kk.trees = {NIL} \cup NodesOver(k.trees)
        /\ kk.checked = {NIL} \cup {t \in NodesOver(k.trees) : checkNodes(k, t)}
        /\ \A t \in kk.trees : kk.items[t] = ItemsIn(k, t)
    BY HeapFields DEF Above
  <1> HIDE DEF hh, kk
  <1>3. NodesOver(h.trees) \subseteq NodesOver(k.trees)
    BY DEF NodesOver, Extended
  <1>4. ASSUME NEW t \in hh.trees PROVE kk.items[t] = hh.items[t]
    <2>1. t \in kk.trees
      BY <1>1, <1>2, <1>3
    <2>2. kk.items[t] = ItemsIn(k, t) /\ hh.items[t] = ItemsIn(h, t)
      BY <1>1, <1>2, <2>1
    <2>3. CASE t = NIL
      BY <2>2, <2>3 DEF ItemsIn
    <2>4. CASE t # NIL
      <3>1. t.mLeft \in h.trees /\ t.mRight \in h.trees
        BY <1>1, <2>4, NodeOf
      <3>2. k.items[t.mLeft] = h.items[t.mLeft] /\ k.items[t.mRight] = h.items[t.mRight]
        BY <3>1 DEF Extended
      <3> QED BY <2>2, <2>4, <3>2 DEF ItemsIn
    <2> QED BY <2>3, <2>4
  <1>5. ASSUME NEW t \in NodesOver(h.trees), checkNodes(h, t) PROVE checkNodes(k, t)
    <2>1. t.mLeft \in h.trees /\ t.mRight \in h.trees
      BY NodeOf
    <2>2. k.items[t.mLeft] = h.items[t.mLeft] /\ k.items[t.mRight] = h.items[t.mRight]
      BY <2>1 DEF Extended
    <2>3. t.mLeft \in k.checked /\ t.mRight \in k.checked
      BY <1>5 DEF checkNodes, Extended
    <2> QED BY <1>5, <2>2, <2>3 DEF checkNodes
  <1>6. hh.trees \subseteq kk.trees /\ hh.checked \subseteq kk.checked
    BY <1>1, <1>2, <1>3, <1>5
  <1>7. Extended(hh, kk)
    BY <1>4, <1>6 DEF Extended
  <1> QED BY <1>7 DEF hh, kk

----------------------------------------------------------------------------
(* Heaps from smaller heaps                                                 *)

LEMMA HeapParts ==
    ASSUME NEW h, Shaped(h), NEW t \in Above(h).checked, t # NIL
    PROVE  /\ t \in Above(h).trees /\ t \in NodesOver(h.trees)
           /\ t.mData \in HeapItems
           /\ t.mLeft \in h.checked /\ t.mRight \in h.checked
           /\ t.mLeft.mSize \in Nat /\ t.mRight.mSize \in Nat
           /\ t.mSize = t.mLeft.mSize + t.mRight.mSize + 1
           /\ Above(h).items[t] = {t.mData} \cup h.items[t.mLeft] \cup h.items[t.mRight]
           /\ t.mData \notin h.items[t.mLeft] \cup h.items[t.mRight]
           /\ h.items[t.mLeft] \cap h.items[t.mRight] = {}
           /\ h.items[t.mLeft] \subseteq HeapItems /\ h.items[t.mRight] \subseteq HeapItems
           /\ \A d \in h.items[t.mLeft] \cup h.items[t.mRight] : ~outRanks(d, t.mData)
  <1> DEFINE k == Above(h)
  <1>1. /\ k.trees = {NIL} \cup NodesOver(h.trees)
        /\ k.checked = {NIL} \cup {n \in NodesOver(h.trees) : checkNodes(h, n)}
        /\ \A n \in k.trees : k.items[n] = ItemsIn(h, n)
    BY HeapFields DEF Above
  <1>2. Shaped(k)
    BY ShapedStep
  <1> HIDE DEF k
  <1>3. t \in NodesOver(h.trees) /\ checkNodes(h, t) /\ t \in k.checked
    BY <1>1 DEF k
  <1>4. k.items[t] = {t.mData} \cup h.items[t.mLeft] \cup h.items[t.mRight]
    BY <1>1, <1>3 DEF ItemsIn
  <1>5. \A d \in k.items[t] : ~outRanks(d, t.mData)
    BY <1>2, <1>3 DEF Shaped
  <1>6. ASSUME NEW c \in h.checked PROVE h.items[c] \subseteq HeapItems /\ c.mSize \in Nat
    <2>1. CASE c = NIL
      BY <2>1 DEF Shaped, NIL
    <2>2. CASE c # NIL
      BY <2>2 DEF Shaped
    <2> QED BY <2>1, <2>2
  <1>7. t.mLeft \in h.checked /\ t.mRight \in h.checked
    BY <1>3 DEF checkNodes
  <1>8. /\ t.mSize = t.mLeft.mSize + t.mRight.mSize + 1
        /\ t.mData \notin h.items[t.mLeft] \cup h.items[t.mRight]
        /\ h.items[t.mLeft] \cap h.items[t.mRight] = {}
    BY <1>3 DEF checkNodes
  <1>9. t.mData \in HeapItems
    BY <1>3, NodeOf
  <1>10. t \in k.trees
    BY <1>1, <1>3
  <1> QED BY <1>3, <1>4, <1>5, <1>6, <1>7, <1>8, <1>9, <1>10 DEF k

LEMMA HeapJoined ==
    ASSUME NEW h, Shaped(h), NEW l \in h.checked, NEW r \in h.checked, NEW d \in HeapItems,
           NEW size, size = l.mSize + r.mSize + 1,
           d \notin h.items[l] \cup h.items[r], h.items[l] \cap h.items[r] = {},
           \A x \in h.items[l] \cup h.items[r] : ~outRanks(x, d)
    PROVE  /\ Node(d, size, l, r) \in Above(h).checked
           /\ Node(d, size, l, r) # NIL
           /\ Above(h).items[Node(d, size, l, r)] = {d} \cup h.items[l] \cup h.items[r]
  <1> DEFINE k == Above(h)
             t == Node(d, size, l, r)
  <1>1. /\ k.trees = {NIL} \cup NodesOver(h.trees)
        /\ k.checked = {NIL} \cup {n \in NodesOver(h.trees) : checkNodes(h, n)}
        /\ \A n \in k.trees : k.items[n] = ItemsIn(h, n)
    BY HeapFields DEF Above
  <1>2. t.mData = d /\ t.mSize = size /\ t.mLeft = l /\ t.mRight = r
    BY DEF Node
  <1>3. ASSUME NEW c \in h.checked PROVE c.mSize \in Nat
    <2>1. CASE c = NIL
      BY <2>1 DEF NIL
    <2>2. CASE c # NIL
      BY <2>2 DEF Shaped
    <2> QED BY <2>1, <2>2
  <1>4. l.mSize \in Nat /\ r.mSize \in Nat
    BY <1>3
  <1>5. size \in Nat \ {0}
    BY <1>4
  <1>6. l \in h.trees /\ r \in h.trees
    BY DEF Shaped
  <1>7. t \in NodesOver(h.trees)
    BY <1>5, <1>6 DEF Node, NodesOver
  <1> HIDE DEF k, t
  <1>8. ASSUME NEW c \in {l, r} \ {NIL} PROVE ~outRanks(c.mData, d)
    <2>1. c.mData \in h.items[c]
      BY DEF Shaped
    <2> QED BY <2>1
  <1>9. checkNodes(h, t)
    BY <1>2, <1>8 DEF checkNodes
  <1>10. t \in k.checked /\ t # NIL
    BY <1>1, <1>7, <1>9, NodeOf
  <1>11. k.items[t] = {d} \cup h.items[l] \cup h.items[r]
    BY <1>1, <1>2, <1>7, <1>10 DEF ItemsIn
  <1> QED BY <1>10, <1>11 DEF k, t

----------------------------------------------------------------------------
(* The operations                                                           *)

Pops(h) ==
    /\ h.pop[NIL] = NIL
    /\ \A t \in h.checked \ {NIL} :
          /\ h.pop[t] \in h.checked
          /\ h.items[h.pop[t]] = h.items[t] \ {t.mData}
          /\ h.pop[t].mSize = t.mSize - 1

LEMMA PopsBase == Pops(Lowest)
  <1> DEFINE h == Lowest
  <1>1. h.trees = {NIL} /\ h.checked = {NIL} /\ h.pop[NIL] = PopNode(NIL, NIL)
    BY HeapFields DEF Lowest
  <1> HIDE DEF h
  <1>2. Pops(h)
    BY <1>1 DEF Pops, PopNode
  <1> QED BY <1>2 DEF h

LEMMA PopsStep ==
    ASSUME NEW h, Shaped(h), Pops(h)
    PROVE  Pops(Above(h))
  <1> DEFINE k == Above(h)
  <1>1. NIL \in k.trees /\ \A t \in k.trees : k.pop[t] = PopNode(h, t)
    BY HeapFields DEF Above
  <1>2. Shaped(k)
    BY ShapedStep
  <1>3. k.pop[NIL] = NIL
    BY <1>1 DEF PopNode
  <1>4. ASSUME NEW t \in k.checked, t # NIL
        PROVE  /\ k.pop[t] \in k.checked
               /\ k.items[k.pop[t]] = k.items[t] \ {t.mData}
               /\ k.pop[t].mSize = t.mSize - 1
    <2> DEFINE l == t.mLeft
               r == t.mRight
    <2>1. /\ t \in k.trees
          /\ t.mData \in HeapItems
          /\ l \in h.checked /\ r \in h.checked
          /\ l.mSize \in Nat /\ r.mSize \in Nat
          /\ t.mSize = l.mSize + r.mSize + 1
          /\ k.items[t] = {t.mData} \cup h.items[l] \cup h.items[r]
          /\ t.mData \notin h.items[l] \cup h.items[r]
          /\ h.items[l] \cap h.items[r] = {}
          /\ h.items[l] \subseteq HeapItems /\ h.items[r] \subseteq HeapItems
      BY <1>4, HeapParts
    <2>2. k.pop[t] = PopNode(h, t)
      BY <1>1, <2>1
    <2> HIDE DEF k, l, r
    <2>3. CASE l = NIL /\ r = NIL
      <3>1. k.pop[t] = NIL
        BY <2>2, <2>3 DEF PopNode, l, r
      <3>2. k.items[NIL] = {} /\ h.items[NIL] = {} /\ NIL \in k.checked
        BY <1>2 DEF Shaped
      <3>3. NIL.mSize = 0
        BY DEF NIL
      <3> QED BY <2>1, <2>3, <3>1, <3>2, <3>3
    <2>4. ASSUME NEW x \in h.checked, NEW y \in h.checked, x # NIL,
                 {x, y} = {l, r}, x = l => y = r, x = r => y = l,
                 y # NIL => ~outRanks(y.mData, x.mData)
          PROVE  /\ x.mData \in HeapItems
                 /\ h.pop[x] \in h.checked
                 /\ h.pop[x].mSize + y.mSize + 1 = t.mSize - 1
                 /\ x.mData \notin h.items[h.pop[x]] \cup h.items[y]
                 /\ h.items[h.pop[x]] \cap h.items[y] = {}
                 /\ \A d \in h.items[h.pop[x]] \cup h.items[y] : ~outRanks(d, x.mData)
                 /\ {x.mData} \cup h.items[h.pop[x]] \cup h.items[y] = k.items[t] \ {t.mData}
      <3>1. /\ h.items[x] \cap h.items[y] = {}
            /\ k.items[t] \ {t.mData} = h.items[x] \cup h.items[y]
            /\ t.mSize = x.mSize + y.mSize + 1
            /\ x.mSize \in Nat /\ y.mSize \in Nat
        BY <2>1, <2>4
      <3>2. /\ x.mData \in h.items[x] /\ h.items[x] \subseteq HeapItems
            /\ \A d \in h.items[x] : ~outRanks(d, x.mData)
        BY <2>4 DEF Shaped
      <3>3. /\ h.pop[x] \in h.checked
            /\ h.items[h.pop[x]] = h.items[x] \ {x.mData}
            /\ h.pop[x].mSize = x.mSize - 1
        BY <2>4 DEF Pops
      <3>4. ASSUME NEW d \in h.items[y] PROVE ~outRanks(d, x.mData)
        <4>1. y # NIL
          BY <3>4 DEF Shaped
        <4>2. d \in HeapItems /\ y.mData \in HeapItems /\ ~outRanks(d, y.mData)
          BY <4>1 DEF Shaped
        <4>3. ~outRanks(y.mData, x.mData) /\ x.mData \in HeapItems
          BY <2>4, <3>2, <4>1
        <4> QED BY <4>2, <4>3, RanksOrdered
      <3> QED BY <3>1, <3>2, <3>3, <3>4
    <2>5. (l # NIL => l.mData \in HeapItems) /\ (r # NIL => r.mData \in HeapItems)
      BY <2>1 DEF Shaped
    <2>6. CASE l # NIL /\ (r = NIL \/ outRanks(l.mData, r.mData))
      <3>1. k.pop[t] = Node(l.mData, t.mSize - 1, h.pop[l], r)
        BY <1>4, <2>2, <2>6 DEF PopNode, l, r
      <3>2. r # NIL => ~outRanks(r.mData, l.mData)
        BY <2>5, <2>6, RanksOrdered
      <3>3. /\ l.mData \in HeapItems
            /\ h.pop[l] \in h.checked
            /\ h.pop[l].mSize + r.mSize + 1 = t.mSize - 1
            /\ l.mData \notin h.items[h.pop[l]] \cup h.items[r]
            /\ h.items[h.pop[l]] \cap h.items[r] = {}
            /\ \A d \in h.items[h.pop[l]] \cup h.items[r] : ~outRanks(d, l.mData)
            /\ {l.mData} \cup h.items[h.pop[l]] \cup h.items[r] = k.items[t] \ {t.mData}
        BY <2>1, <2>4, <2>6, <3>2
      <3>4. /\ k.pop[t] \in k.checked
            /\ k.items[k.pop[t]] = {l.mData} \cup h.items[h.pop[l]] \cup h.items[r]
        BY <2>1, <3>1, <3>3, HeapJoined DEF k
      <3>5. k.pop[t].mSize = t.mSize - 1
        BY <3>1 DEF Node
      <3> QED BY <3>3, <3>4, <3>5
    <2>7. CASE r # NIL /\ (l = NIL \/ ~outRanks(l.mData, r.mData))
      <3>1. k.pop[t] = Node(r.mData, t.mSize - 1, l, h.pop[r])
        BY <1>4, <2>2, <2>7 DEF PopNode, l, r
      <3>3. /\ r.mData \in HeapItems
            /\ h.pop[r] \in h.checked
            /\ h.pop[r].mSize + l.mSize + 1 = t.mSize - 1
            /\ r.mData \notin h.items[h.pop[r]] \cup h.items[l]
            /\ h.items[h.pop[r]] \cap h.items[l] = {}
            /\ \A d \in h.items[h.pop[r]] \cup h.items[l] : ~outRanks(d, r.mData)
            /\ {r.mData} \cup h.items[h.pop[r]] \cup h.items[l] = k.items[t] \ {t.mData}
        BY <2>1, <2>4, <2>7
      <3>4. l.mSize + h.pop[r].mSize + 1 = t.mSize - 1
        <4>1. h.pop[r].mSize = r.mSize - 1
          BY <2>1, <2>7 DEF Pops
        <4> QED BY <2>1, <4>1
      <3>5. /\ k.pop[t] \in k.checked
            /\ k.items[k.pop[t]] = {r.mData} \cup h.items[l] \cup h.items[h.pop[r]]
        BY <2>1, <3>1, <3>3, <3>4, HeapJoined DEF k
      <3>6. k.pop[t].mSize = t.mSize - 1
        BY <3>1 DEF Node
      <3> QED BY <3>3, <3>5, <3>6
    <2> QED BY <2>3, <2>6, <2>7
  <1>5. Pops(k)
    BY <1>3, <1>4 DEF Pops
  <1> QED BY <1>5

Removes(h) ==
    \A t \in h.checked, d \in HeapItems :
        /\ h.remove[t][d] \in h.checked
        /\ h.items[h.remove[t][d]] = h.items[t] \ {d}
        /\ d \in h.items[t] => h.remove[t][d].mSize = t.mSize - 1
        /\ d \notin h.items[t] => h.remove[t][d] = t

LEMMA RemovesNothing ==
    ASSUME NEW h, Shaped(h), NEW d \in HeapItems, h.remove[NIL][d] = NIL
    PROVE  /\ h.remove[NIL][d] \in h.checked
           /\ h.items[h.remove[NIL][d]] = h.items[NIL] \ {d}
           /\ d \notin h.items[NIL]
  BY DEF Shaped

LEMMA RemovesBase == Removes(Lowest)
  <1> DEFINE h == Lowest
  <1>1. h.checked = {NIL} /\ \A d \in HeapItems : h.remove[NIL][d] = RemoveNode(NIL, NIL, d)
    BY HeapFields DEF Lowest
  <1>2. Shaped(h)
    BY ShapedBase
  <1> HIDE DEF h
  <1>3. \A d \in HeapItems : h.remove[NIL][d] = NIL
    BY <1>1 DEF RemoveNode
  <1>4. ASSUME NEW t \in h.checked, NEW d \in HeapItems
        PROVE  /\ h.remove[t][d] \in h.checked
               /\ h.items[h.remove[t][d]] = h.items[t] \ {d}
               /\ d \notin h.items[t]
               /\ h.remove[t][d] = t
    <2>1. t = NIL
      BY <1>1
    <2> QED BY <1>2, <1>3, <2>1, RemovesNothing
  <1>5. Removes(h)
    BY <1>4 DEF Removes
  <1> QED BY <1>5 DEF h, Lowest

LEMMA RemovesStep ==
    ASSUME NEW h, Shaped(h), Pops(h), Removes(h)
    PROVE  Removes(Above(h))
  <1> DEFINE k == Above(h)
  <1>1. /\ NIL \in k.trees
        /\ \A t \in k.trees :
              /\ k.pop[t] = PopNode(h, t)
              /\ \A d \in HeapItems : k.remove[t][d] = RemoveNode(h, t, d)
    BY HeapFields DEF Above
  <1>2. Shaped(k) /\ Pops(k)
    BY ShapedStep, PopsStep
  <1>3. ASSUME NEW t \in k.checked, NEW d \in HeapItems
        PROVE  /\ k.remove[t][d] \in k.checked
               /\ k.items[k.remove[t][d]] = k.items[t] \ {d}
               /\ d \in k.items[t] => k.remove[t][d].mSize = t.mSize - 1
               /\ d \notin k.items[t] => k.remove[t][d] = t
    <2>1. CASE t = NIL
      <3> HIDE DEF k
      <3>1. k.remove[NIL][d] = NIL
        BY <1>1 DEF RemoveNode
      <3> QED BY <1>2, <2>1, <3>1, RemovesNothing
    <2>2. CASE t # NIL
      <3> DEFINE l == t.mLeft
                 r == t.mRight
                 ll == h.remove[l][d]
                 rr == h.remove[r][d]
      <3>1. /\ t \in k.trees
            /\ t.mData \in HeapItems
            /\ l \in h.checked /\ r \in h.checked
            /\ l.mSize \in Nat /\ r.mSize \in Nat
            /\ t.mSize = l.mSize + r.mSize + 1
            /\ k.items[t] = {t.mData} \cup h.items[l] \cup h.items[r]
            /\ t.mData \notin h.items[l] \cup h.items[r]
            /\ h.items[l] \cap h.items[r] = {}
            /\ \A x \in h.items[l] \cup h.items[r] : ~outRanks(x, t.mData)
        BY <2>2, HeapParts
      <3>2. k.remove[t][d] = RemoveNode(h, t, d)
        BY <1>1, <3>1
      <3>3. /\ ll \in h.checked
            /\ h.items[ll] = h.items[l] \ {d}
            /\ d \in h.items[l] => ll.mSize = l.mSize - 1
            /\ d \notin h.items[l] => ll = l
        BY <3>1 DEF Removes
      <3>4. /\ rr \in h.checked
            /\ h.items[rr] = h.items[r] \ {d}
            /\ d \in h.items[r] => rr.mSize = r.mSize - 1
            /\ d \notin h.items[r] => rr = r
        BY <3>1 DEF Removes
      <3>5. (ll # l <=> d \in h.items[l]) /\ (rr # r <=> d \in h.items[r])
        BY <3>1, <3>3, <3>4
      <3> HIDE DEF k, l, r, ll, rr
      <3>6. CASE t.mData = d
        <4>1. k.remove[t][d] = k.pop[t]
          BY <1>1, <2>2, <3>1, <3>2, <3>6 DEF RemoveNode
        <4>2. /\ k.pop[t] \in k.checked
              /\ k.items[k.pop[t]] = k.items[t] \ {t.mData}
              /\ k.pop[t].mSize = t.mSize - 1
          BY <1>2, <2>2 DEF Pops
        <4> QED BY <3>1, <3>6, <4>1, <4>2
      <3>7. CASE t.mData # d /\ outRanks(d, t.mData)
        <4>1. k.remove[t][d] = t
          BY <2>2, <3>2, <3>7 DEF RemoveNode
        <4>2. d \notin k.items[t]
          BY <3>1, <3>7
        <4> QED BY <4>1, <4>2
      <3>8. CASE t.mData # d /\ ~outRanks(d, t.mData) /\ ll # l
        <4>1. k.remove[t][d] = Node(t.mData, t.mSize - 1, ll, r)
          BY <2>2, <3>2, <3>8 DEF RemoveNode, l, r, ll, rr
        <4>2. d \in h.items[l] /\ d \notin h.items[r]
          BY <3>1, <3>5, <3>8
        <4>3. /\ t.mSize - 1 = ll.mSize + r.mSize + 1
              /\ t.mData \notin h.items[ll] \cup h.items[r]
              /\ h.items[ll] \cap h.items[r] = {}
              /\ \A x \in h.items[ll] \cup h.items[r] : ~outRanks(x, t.mData)
          BY <3>1, <3>3, <4>2
        <4>4. /\ k.remove[t][d] \in k.checked
              /\ k.items[k.remove[t][d]] = {t.mData} \cup h.items[ll] \cup h.items[r]
          BY <3>1, <3>3, <4>1, <4>3, HeapJoined DEF k
        <4>5. k.remove[t][d].mSize = t.mSize - 1
          BY <4>1 DEF Node
        <4>6. k.items[t] \ {d} = {t.mData} \cup h.items[ll] \cup h.items[r]
          BY <3>1, <3>3, <3>8, <4>2
        <4> QED BY <3>1, <4>2, <4>4, <4>5, <4>6
      <3>9. CASE t.mData # d /\ ~outRanks(d, t.mData) /\ ll = l /\ rr # r
        <4>1. k.remove[t][d] = Node(t.mData, t.mSize - 1, l, rr)
          BY <2>2, <3>2, <3>9 DEF RemoveNode, l, r, ll, rr
        <4>2. d \in h.items[r] /\ d \notin h.items[l]
          BY <3>1, <3>5, <3>9
        <4>3. /\ t.mSize - 1 = l.mSize + rr.mSize + 1
              /\ t.mData \notin h.items[l] \cup h.items[rr]
              /\ h.items[l] \cap h.items[rr] = {}
              /\ \A x \in h.items[l] \cup h.items[rr] : ~outRanks(x, t.mData)
          BY <3>1, <3>4, <4>2
        <4>4. /\ k.remove[t][d] \in k.checked
              /\ k.items[k.remove[t][d]] = {t.mData} \cup h.items[l] \cup h.items[rr]
          BY <3>1, <3>4, <4>1, <4>3, HeapJoined DEF k
        <4>5. k.remove[t][d].mSize = t.mSize - 1
          BY <4>1 DEF Node
        <4>6. k.items[t] \ {d} = {t.mData} \cup h.items[l] \cup h.items[rr]
          BY <3>1, <3>4, <3>9, <4>2
        <4> QED BY <3>1, <4>2, <4>4, <4>5, <4>6
      <3>10. CASE t.mData # d /\ ~outRanks(d, t.mData) /\ ll = l /\ rr = r
        <4>1. k.remove[t][d] = t
          BY <2>2, <3>2, <3>10 DEF RemoveNode, l, r, ll, rr
        <4>2. d \notin k.items[t]
          BY <3>1, <3>5, <3>10
        <4> QED BY <4>1, <4>2
      <3> QED BY <3>6, <3>7, <3>8, <3>9, <3>10
    <2> QED BY <2>1, <2>2
  <1>4. Removes(k)
    BY <1>3 DEF Removes
  <1> QED BY <1>4

(* What a push returns may be one level deeper.                             *)
Pushes(h, k) ==
    \A t \in h.checked, d \in HeapItems :
        d \notin h.items[t] =>
            /\ h.push[t][d] \in k.checked
            /\ k.items[h.push[t][d]] = h.items[t] \cup {d}
            /\ h.push[t][d].mSize = t.mSize + 1

LEMMA PushesLeaf ==
    ASSUME NEW h, Shaped(h), NEW d \in HeapItems
    PROVE  /\ Leaf(d) \in Above(h).checked
           /\ Above(h).items[Leaf(d)] = {d}
           /\ Leaf(d).mSize = NIL.mSize + 1
  <1>1. NIL \in h.checked /\ h.items[NIL] = {} /\ NIL.mSize = 0
    BY DEF Shaped, NIL
  <1> HIDE DEF NIL
  <1>2. /\ Node(d, 1, NIL, NIL) \in Above(h).checked
        /\ Above(h).items[Node(d, 1, NIL, NIL)] = {d} \cup h.items[NIL] \cup h.items[NIL]
    BY <1>1, HeapJoined
  <1>3. Leaf(d).mSize = 1
    BY DEF Leaf, Node
  <1> QED BY <1>1, <1>2, <1>3 DEF Leaf

LEMMA PushesBase == Pushes(Lowest, Above(Lowest))
  <1> DEFINE h == Lowest
             k == Above(h)
  <1>1. h.checked = {NIL} /\ \A d \in HeapItems : h.push[NIL][d] = PushNode(NIL, NIL, d)
    BY HeapFields DEF Lowest
  <1>2. Shaped(h)
    BY ShapedBase
  <1>3. \A d \in HeapItems : Leaf(d) \in k.checked /\ k.items[Leaf(d)] = {d} /\ Leaf(d).mSize = NIL.mSize + 1
    BY <1>2, PushesLeaf
  <1> HIDE DEF h, k
  <1>4. \A d \in HeapItems : h.push[NIL][d] = Leaf(d)
    BY <1>1 DEF PushNode
  <1>5. h.items[NIL] = {}
    BY <1>2 DEF Shaped
  <1>6. Pushes(h, k)
    BY <1>1, <1>3, <1>4, <1>5 DEF Pushes
  <1> QED BY <1>6 DEF h, k

LEMMA PushesStep ==
    ASSUME NEW h, NEW k, Shaped(h), Shaped(k), Extended(h, k), Pushes(h, k), k = Above(h)
    PROVE  Pushes(k, Above(k))
  <1> DEFINE m == Above(k)
  <1>1. /\ NIL \in k.trees
        /\ \A t \in k.trees : \A d \in HeapItems : k.push[t][d] = PushNode(h, t, d)
    BY HeapFields DEF Above
  <1>2. ASSUME NEW t \in k.checked, NEW d \in HeapItems, d \notin k.items[t]
        PROVE  /\ k.push[t][d] \in m.checked
               /\ m.items[k.push[t][d]] = k.items[t] \cup {d}
               /\ k.push[t][d].mSize = t.mSize + 1
    <2>1. CASE t = NIL
      <3>1. k.push[t][d] = Leaf(d)
        BY <1>1, <2>1 DEF PushNode
      <3>2. k.items[t] = {}
        BY <2>1 DEF Shaped
      <3>3. /\ Leaf(d) \in m.checked
            /\ m.items[Leaf(d)] = {d}
            /\ Leaf(d).mSize = NIL.mSize + 1
        BY PushesLeaf
      <3> HIDE DEF m
      <3> QED BY <2>1, <3>1, <3>2, <3>3
    <2>2. CASE t # NIL
      <3> DEFINE l == t.mLeft
                 r == t.mRight
                 above == IF outRanks(d, t.mData) THEN d ELSE t.mData
                 below == IF outRanks(d, t.mData) THEN t.mData ELSE d
      <3>1. /\ t \in k.trees
            /\ t.mData \in HeapItems
            /\ l \in h.checked /\ r \in h.checked
            /\ l.mSize \in Nat /\ r.mSize \in Nat
            /\ t.mSize = l.mSize + r.mSize + 1
            /\ k.items[t] = {t.mData} \cup h.items[l] \cup h.items[r]
            /\ t.mData \notin h.items[l] \cup h.items[r]
            /\ h.items[l] \cap h.items[r] = {}
            /\ h.items[l] \subseteq HeapItems /\ h.items[r] \subseteq HeapItems
            /\ \A x \in h.items[l] \cup h.items[r] : ~outRanks(x, t.mData)
        BY <2>2, HeapParts
      <3>2. /\ above \in HeapItems /\ below \in HeapItems
            /\ {above, below} = {t.mData, d} /\ above # below
            /\ ~outRanks(below, above)
        BY <1>2, <3>1, RanksOrdered
      <3>3. \A x \in h.items[l] \cup h.items[r] : ~outRanks(x, above)
        <4>1. ASSUME NEW x \in h.items[l] \cup h.items[r], outRanks(d, t.mData)
              PROVE  ~outRanks(x, d)
          <5>1. x \in HeapItems /\ ~outRanks(x, t.mData) /\ ~outRanks(t.mData, d)
            BY <3>1, <4>1, RanksOrdered
          <5> QED BY <3>1, <5>1, RanksOrdered
        <4> QED BY <3>1, <4>1
      <3>4. ASSUME NEW c \in {l, r}
            PROVE  /\ c \in k.checked /\ k.items[c] = h.items[c]
                   /\ h.push[c][below] \in k.checked
                   /\ k.items[h.push[c][below]] = h.items[c] \cup {below}
                   /\ h.push[c][below].mSize = c.mSize + 1
        <4>1. c \in h.checked /\ c \in h.trees
          BY <3>1 DEF Shaped
        <4>2. below \notin h.items[c]
          BY <1>2, <3>1, <3>2
        <4> QED BY <3>2, <4>1, <4>2 DEF Pushes, Extended
      <3>5. k.push[t][d] = PushNode(h, t, d)
        BY <1>1, <3>1
      <3>6. \/ k.push[t][d] = Node(above, t.mSize + 1, h.push[l][below], r)
            \/ k.push[t][d] = Node(above, t.mSize + 1, l, h.push[r][below])
        BY <2>2, <3>5 DEF PushNode
      <3> HIDE DEF m, l, r, above, below
      <3>7. above \notin h.items[l] \cup h.items[r] \cup {below} /\ below \notin h.items[l] \cup h.items[r]
        BY <1>2, <3>1, <3>2
      <3>8. CASE k.push[t][d] = Node(above, t.mSize + 1, h.push[l][below], r)
        <4> DEFINE ll == h.push[l][below]
        <4>1. ll \in k.checked /\ r \in k.checked
          BY <3>4
        <4>2. k.items[ll] = h.items[l] \cup {below} /\ k.items[r] = h.items[r]
          BY <3>4
        <4>3. ll.mSize = l.mSize + 1
          BY <3>4
        <4> HIDE DEF ll
        <4>4. /\ t.mSize + 1 = ll.mSize + r.mSize + 1
              /\ above \notin k.items[ll] \cup k.items[r]
              /\ k.items[ll] \cap k.items[r] = {}
              /\ \A x \in k.items[ll] \cup k.items[r] : ~outRanks(x, above)
          BY <3>1, <3>2, <3>3, <3>7, <4>2, <4>3
        <4>5. /\ k.push[t][d] \in m.checked
              /\ m.items[k.push[t][d]] = {above} \cup k.items[ll] \cup k.items[r]
          BY <3>2, <3>8, <4>1, <4>4, HeapJoined DEF m, ll
        <4>6. k.push[t][d].mSize = t.mSize + 1
          BY <3>8 DEF Node
        <4> QED BY <3>1, <3>2, <4>2, <4>5, <4>6
      <3>9. CASE k.push[t][d] = Node(above, t.mSize + 1, l, h.push[r][below])
        <4> DEFINE rr == h.push[r][below]
        <4>1. l \in k.checked /\ rr \in k.checked
          BY <3>4
        <4>2. k.items[rr] = h.items[r] \cup {below} /\ k.items[l] = h.items[l]
          BY <3>4
        <4>3. rr.mSize = r.mSize + 1
          BY <3>4
        <4> HIDE DEF rr
        <4>4. /\ t.mSize + 1 = l.mSize + rr.mSize + 1
              /\ above \notin k.items[l] \cup k.items[rr]
              /\ k.items[l] \cap k.items[rr] = {}
              /\ \A x \in k.items[l] \cup k.items[rr] : ~outRanks(x, above)
          BY <3>1, <3>2, <3>3, <3>7, <4>2, <4>3
        <4>5. /\ k.push[t][d] \in m.checked
              /\ m.items[k.push[t][d]] = {above} \cup k.items[l] \cup k.items[rr]
          BY <3>2, <3>9, <4>1, <4>4, HeapJoined DEF m, rr
        <4>6. k.push[t][d].mSize = t.mSize + 1
          BY <3>9 DEF Node
        <4> QED BY <3>1, <3>2, <4>2, <4>5, <4>6
      <3> QED BY <3>6, <3>8, <3>9
    <2> QED BY <2>1, <2>2
  <1>3. Pushes(k, m)
    BY <1>2 DEF Pushes
  <1> QED BY <1>3

----------------------------------------------------------------------------
(* Any number of operations                                                 *)

HeapWorks(h) ==
    /\ Shaped(h) /\ Pops(h) /\ Removes(h)
    /\ Extended(h, Above(h)) /\ Pushes(h, Above(h))
    /\ h.built \subseteq h.checked

LEMMA HeapWorksBase == HeapWorks(Lowest)
  <1>1. Lowest.built \subseteq Lowest.checked
    <2> DEFINE h == Lowest
    <2>1. h.built = {NIL} /\ h.checked = {NIL}
      BY HeapFields DEF Lowest
    <2> HIDE DEF h
    <2>2. h.built \subseteq h.checked
      BY <2>1
    <2> QED BY <2>2 DEF h
  <1> QED BY <1>1, ShapedBase, PopsBase, RemovesBase, ExtendedBase, PushesBase DEF HeapWorks

LEMMA HeapWorksStep ==
    ASSUME NEW h, HeapWorks(h)
    PROVE  HeapWorks(Above(h))
  <1> DEFINE k == Above(h)
  <1>1. /\ Shaped(h) /\ Pops(h) /\ Removes(h)
        /\ Extended(h, k) /\ Pushes(h, k)
        /\ h.built \subseteq h.checked
    BY DEF HeapWorks
  <1>2. Shaped(k) /\ Pops(k) /\ Removes(k)
    BY <1>1, ShapedStep, PopsStep, RemovesStep
  <1>3. Extended(k, Above(k))
    BY <1>1, ExtendedStep
  <1>4. Pushes(k, Above(k))
    BY <1>1, <1>2, PushesStep
  <1>5. k.built = OneStep(h)
    BY HeapFields DEF Above
  <1> HIDE DEF k
  <1>6. ASSUME NEW t \in k.built PROVE t \in k.checked
    <2>1. h.checked \subseteq k.checked
      BY <1>1 DEF Extended
    <2>2. \/ t \in h.built
          \/ \E b \in h.built : t = h.pop[b]
          \/ \E b \in h.built : \E d \in HeapItems \ h.items[b] : t = h.push[b][d]
          \/ \E b \in h.built : \E d \in HeapItems : t = h.remove[b][d]
      BY <1>5 DEF OneStep
    <2>3. CASE t \in h.built
      BY <1>1, <2>1, <2>3
    <2>4. ASSUME NEW b \in h.built, t = h.pop[b] PROVE t \in k.checked
      <3>1. b \in h.checked /\ NIL \in h.checked
        BY <1>1 DEF Shaped
      <3>2. CASE b = NIL
        BY <1>1, <2>1, <2>4, <3>1, <3>2 DEF Pops
      <3>3. CASE b # NIL
        BY <1>1, <2>1, <2>4, <3>1, <3>3 DEF Pops
      <3> QED BY <3>2, <3>3
    <2>5. ASSUME NEW b \in h.built, NEW d \in HeapItems \ h.items[b], t = h.push[b][d]
          PROVE  t \in k.checked
      BY <1>1, <2>5 DEF Pushes
    <2>6. ASSUME NEW b \in h.built, NEW d \in HeapItems, t = h.remove[b][d]
          PROVE  t \in k.checked
      BY <1>1, <2>1, <2>6 DEF Removes
    <2> QED BY <2>2, <2>3, <2>4, <2>5, <2>6
  <1>7. k.built \subseteq k.checked
    BY <1>6
  <1>8. HeapWorks(k)
    BY <1>2, <1>3, <1>4, <1>7 DEF HeapWorks
  <1> QED BY <1>8 DEF k

LEMMA HeapSorted == HeapSorts
  <1> DEFINE S == {n \in 0 .. HeapSteps : HeapWorks(Heaps[n])}
  <1>1. HeapSteps \in Nat
    BY HeapAssumption
  <1>2. 0 \in S
    BY <1>1, HeapLevels, HeapWorksBase
  <1>3. ASSUME NEW n \in 0 .. HeapSteps, n \in S, n < HeapSteps PROVE n + 1 \in S
    <2>1. HeapWorks(Heaps[n])
      BY <1>3
    <2>2. HeapWorks(Heaps[n + 1])
      BY <1>3, <2>1, HeapLevels, HeapWorksStep
    <2> QED BY <1>1, <1>3, <2>2
  <1> HIDE DEF S
  <1>4. HeapSteps \in S
    <2>1. \A n \in 0 .. HeapSteps : n \in S
      BY <1>1, <1>2, <1>3, UpTo
    <2> QED BY <1>1, <2>1
  <1> DEFINE heap == Heaps[HeapSteps]
             higher == Above(heap)
  <1>5. HeapWorks(heap)
    BY <1>4 DEF S
  <1> HIDE DEF heap
  <1>6. /\ Shaped(heap) /\ Pops(heap) /\ Removes(heap) /\ Pushes(heap, higher)
        /\ heap.built \subseteq heap.checked
    BY <1>5 DEF HeapWorks
  <1> HIDE DEF higher
  <1>7. ASSUME NEW t \in heap.built PROVE Sorts(t, heap, higher)
    <2>1. t \in heap.checked
      BY <1>6
    <2>2. t # NIL => /\ t.mData \in heap.items[t]
                     /\ \A d \in heap.items[t] : ~outRanks(d, t.mData)
                     /\ heap.items[heap.pop[t]] = heap.items[t] \ {t.mData}
      BY <1>6, <2>1 DEF Shaped, Pops
    <2>3. ASSUME NEW d \in HeapItems
          PROVE  /\ heap.items[heap.remove[t][d]] = heap.items[t] \ {d}
                 /\ d \notin heap.items[t] =>
                       higher.items[heap.push[t][d]] = heap.items[t] \cup {d}
      BY <1>6, <2>1 DEF Removes, Pushes
    <2> QED BY <2>1, <2>2, <2>3 DEF Sorts
  <1> QED BY <1>7 DEF HeapSorts, heap, higher

(* The heap the service stands on sorts, and loses nothing, after any       *)
(* pushes, pops and removals of any objects of any ranks (LocHeap.cpp).     *)
THEOREM HeapServed == Spec => []HeapServes
  <1>1. HeapServes
    BY HeapSorted DEF HeapServes
  <1> QED BY <1>1, PTL
=============================================================================
