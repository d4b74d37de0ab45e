---------------------------- MODULE SuplEsProofs ----------------------------
(* Theorems about SuplEs, for any number of sessions, retries and queued    *)
(* messages. The list of subscribers is reasoned about as a set of entries, *)
(* the queue by its positions: a handler takes the first message, any other *)
(* thread adds a last one. The invariant IInv says what the order of the    *)
(* queue guarantees; on it rest the promises to the sessions, Remembered    *)
(* and Retried.                                                             *)
EXTENDS SuplEs, WellFoundedInduction, TLAPS

----------------------------------------------------------------------------
(* The least element of a set of numbers: induction, without an operator    *)
(* for the induction hypothesis.                                            *)

Less == {ss \in Nat \X Nat : ss[1] < ss[2]}

LEMMA LeastNumber ==
    ASSUME NEW T \in SUBSET Nat, T # {}
    PROVE  \E n \in T : \A m \in T : n <= m
  <1>1. IsWellFoundedOn(Less, Nat)
    <2>1. IsWellFoundedOn({ss \in Nat \X Nat : ss[1] < ss[2]}, Nat)
      BY NatLessThanWellFounded DEF OpToRel
    <2> QED BY <2>1 DEF Less
  <1>2. PICK n \in T : \A m \in T : ~(<<m, n>> \in Less)
    BY <1>1, WFMin
  <1>3. ASSUME NEW m \in T PROVE n <= m
    <2>1. m \in Nat /\ n \in Nat /\ ~(<<m, n>> \in Less)
      BY <1>2
    <2>2. ~(m < n)
      BY <2>1 DEF Less
    <2> QED BY <2>1, <2>2
  <1> QED BY <1>3

----------------------------------------------------------------------------
(* What the list of the active subscribers contains                         *)

Kept(list, k, n) ==
    IF n = 0 THEN <<>>
    ELSE IF list[n].mIsInactive THEN k[n - 1]
    ELSE Append(k[n - 1], list[n])

LEMMA KeptExists ==
    ASSUME NEW list, NEW m \in Nat
    PROVE  \E k : k = [n \in 0 .. m |-> Kept(list, k, n)]
  <1> DEFINE T == {j \in Nat : ~\E k : k = [n \in 0 .. j |-> Kept(list, k, n)]}
  <1>1. SUFFICES ASSUME T # {} PROVE FALSE
    OBVIOUS
  <1>2. T \in SUBSET Nat
    OBVIOUS
  <1> HIDE DEF T
  <1>3. PICK j \in T : \A i \in T : j <= i
    BY <1>1, <1>2, LeastNumber
  <1>4. j \in Nat
    BY <1>2, <1>3
  <1>5. CASE j = 0
    <2>1. [n \in 0 .. 0 |-> <<>>] = [n \in 0 .. 0 |-> Kept(list, [i \in 0 .. 0 |-> <<>>], n)]
      BY DEF Kept
    <2> QED BY <1>3, <1>5, <2>1 DEF T
  <1>6. CASE j # 0
    <2>1. j - 1 \in Nat /\ j - 1 \notin T
      BY <1>3, <1>4, <1>6
    <2>2. PICK k : k = [n \in 0 .. j - 1 |-> Kept(list, k, n)]
      BY <2>1 DEF T
    <2> DEFINE q == [n \in 0 .. j |-> IF n = j THEN Kept(list, k, j) ELSE k[n]]
    <2>3. ASSUME NEW n \in 0 .. j PROVE q[n] = Kept(list, q, n)
      <3>1. CASE n = j
        <4>1. q[n] = Kept(list, k, j) /\ q[j - 1] = k[j - 1] 
          BY <1>4, <1>6, <3>1
        <4>2. Kept(list, k, j) = Kept(list, q, j)
          BY <1>6, <4>1 DEF Kept
        <4> QED BY <3>1, <4>1, <4>2
      <3>2. CASE n # j
        <4>1. n \in 0 .. j - 1 /\ q[n] = k[n]
          BY <1>4, <3>2
        <4>2. k[n] = Kept(list, k, n)
          BY <2>2, <4>1
        <4>3. n # 0 => q[n - 1] = k[n - 1]
          BY <1>4, <3>2
        <4>4. Kept(list, k, n) = Kept(list, q, n)
          BY <4>3 DEF Kept
        <4> QED BY <4>1, <4>2, <4>4
      <3> QED BY <3>1, <3>2
    <2>4. q = [n \in 0 .. j |-> Kept(list, q, n)]
      BY <2>3
    <2> HIDE DEF q
    <2> QED BY <1>3, <2>4 DEF T
  <1> QED BY <1>5, <1>6

LEMMA KeptUnfolds ==
    ASSUME NEW list, Len(list) \in Nat
    PROVE  \E k : /\ ActiveOf(list) = k[Len(list)]
                  /\ k[0] = <<>>
                  /\ \A n \in 1 .. Len(list) :
                        k[n] = IF list[n].mIsInactive THEN k[n - 1]
                               ELSE Append(k[n - 1], list[n])
  <1> DEFINE k == CHOOSE k : k = [n \in 0 .. Len(list) |-> Kept(list, k, n)]
  <1>1. k = [n \in 0 .. Len(list) |-> Kept(list, k, n)]
    BY KeptExists
  <1>2. ActiveOf(list) = k[Len(list)]
    BY DEF ActiveOf, Kept
  <1> HIDE DEF k
  <1>3. \A n \in 0 .. Len(list) : k[n] = Kept(list, k, n)
    BY <1>1
  <1>4. k[0] = <<>>
    BY <1>3 DEF Kept
  <1>5. ASSUME NEW n \in 1 .. Len(list)
        PROVE  k[n] = IF list[n].mIsInactive THEN k[n - 1]
                      ELSE Append(k[n - 1], list[n])
    <2>1. n \in 0 .. Len(list) /\ n # 0
      OBVIOUS
    <2> QED BY <1>3, <2>1 DEF Kept
  <1> QED BY <1>2, <1>4, <1>5

----------------------------------------------------------------------------
Subscribers == [ID : Ids, mIsInactive : BOOLEAN]
Entries(list) == {list[n] : n \in 1 .. Len(list)}

LEMMA JoinedSequences ==
    ASSUME NEW S, NEW s \in Seq(S), NEW t \in Seq(S)
    PROVE  /\ s \o t \in Seq(S)
           /\ Len(s \o t) = Len(s) + Len(t) /\ Len(s) \in Nat /\ Len(t) \in Nat
           /\ \A n \in 1 .. Len(s) : (s \o t)[n] = s[n]
           /\ \A n \in 1 .. Len(t) : (s \o t)[Len(s) + n] = t[n]
  OBVIOUS

LEMMA EntriesOfType ==
    ASSUME NEW S, NEW s \in Seq(S)
    PROVE  Entries(s) \subseteq S
  BY DEF Entries

LEMMA JoinedEntries ==
    ASSUME NEW S, NEW s \in Seq(S), NEW t \in Seq(S)
    PROVE  s \o t \in Seq(S) /\ Entries(s \o t) = Entries(s) \cup Entries(t)
  <1>1. /\ s \o t \in Seq(S)
        /\ Len(s \o t) = Len(s) + Len(t) /\ Len(s) \in Nat /\ Len(t) \in Nat
        /\ \A n \in 1 .. Len(s) : (s \o t)[n] = s[n]
        /\ \A n \in 1 .. Len(t) : (s \o t)[Len(s) + n] = t[n]
    BY JoinedSequences
  <1>2. ASSUME NEW n \in 1 .. Len(s \o t)
        PROVE  (s \o t)[n] \in Entries(s) \cup Entries(t)
    <2>1. CASE n <= Len(s)
      BY <1>1, <2>1 DEF Entries
    <2>2. CASE n > Len(s)
      <3>1. n - Len(s) \in 1 .. Len(t) /\ n = Len(s) + (n - Len(s))
        BY <1>1, <2>2
      <3> QED BY <1>1, <3>1 DEF Entries
    <2> QED BY <1>1, <2>1, <2>2
  <1>3. ASSUME NEW n \in 1 .. Len(s) PROVE s[n] \in Entries(s \o t)
    <2>1. n \in 1 .. Len(s \o t) /\ s[n] = (s \o t)[n]
      BY <1>1
    <2> QED BY <2>1 DEF Entries
  <1>4. ASSUME NEW n \in 1 .. Len(t) PROVE t[n] \in Entries(s \o t)
    <2>1. Len(s) + n \in 1 .. Len(s \o t) /\ t[n] = (s \o t)[Len(s) + n]
      BY <1>1
    <2> QED BY <2>1 DEF Entries
  <1> QED BY <1>1, <1>2, <1>3, <1>4 DEF Entries

LEMMA OneEntry ==
    ASSUME NEW S, NEW x \in S
    PROVE  <<x>> \in Seq(S) /\ Entries(<<x>>) = {x}
  <1>1. <<x>> \in Seq(S) /\ Len(<<x>>) = 1 /\ <<x>>[1] = x
    OBVIOUS
  <1> QED BY <1>1 DEF Entries

LEMMA TupleOf ==
    ASSUME NEW S, NEW n \in Nat, NEW f \in [1 .. n -> S]
    PROVE  f \in Seq(S) /\ Len(f) = n
  OBVIOUS

LEMMA FirstEntry ==
    ASSUME NEW S, NEW s \in Seq(S), s # <<>>
    PROVE  s[1] \in Entries(s)
  BY DEF Entries

LEMMA AppendedEntries ==
    ASSUME NEW S, NEW s \in Seq(S), NEW x \in S
    PROVE  Append(s, x) \in Seq(S) /\ Entries(Append(s, x)) = Entries(s) \cup {x}
  <1>1. Append(s, x) = s \o <<x>>
    OBVIOUS
  <1>2. <<x>> \in Seq(S) /\ Entries(<<x>>) = {x}
    BY OneEntry
  <1>3. s \o <<x>> \in Seq(S) /\ Entries(s \o <<x>>) = Entries(s) \cup Entries(<<x>>)
    BY <1>2, JoinedEntries
  <1> QED BY <1>1, <1>2, <1>3

(* The active subscribers are those of the list that are not inactive, and  *)
(* nothing else.                                                            *)
LEMMA ActiveEntries ==
    ASSUME NEW list \in Seq(Subscribers)
    PROVE  /\ ActiveOf(list) \in Seq(Subscribers)
           /\ Entries(ActiveOf(list)) = {e \in Entries(list) : ~e.mIsInactive}
  <1>1. PICK k : /\ ActiveOf(list) = k[Len(list)]
                 /\ k[0] = <<>>
                 /\ \A n \in 1 .. Len(list) :
                       k[n] = IF list[n].mIsInactive THEN k[n - 1]
                              ELSE Append(k[n - 1], list[n])
    BY KeptUnfolds
  <1> DEFINE Right(n) ==
               /\ k[n] \in Seq(Subscribers)
               /\ Entries(k[n]) = {e \in {list[j] : j \in 1 .. n} : ~e.mIsInactive}
             T == {n \in 0 .. Len(list) : ~Right(n)}
  <1>2. Right(0)
    <2>1. k[0] = <<>>
      BY <1>1
    <2> QED BY <2>1 DEF Entries
  <1>3. ASSUME NEW n \in 1 .. Len(list), Right(n - 1) PROVE Right(n)
    <2>1. k[n] = IF list[n].mIsInactive THEN k[n - 1] ELSE Append(k[n - 1], list[n])
      BY <1>1
    <2>2. list[n] \in Subscribers
      OBVIOUS
    <2>3. {list[j] : j \in 1 .. n} = {list[j] : j \in 1 .. n - 1} \cup {list[n]}
      OBVIOUS
    <2>4. CASE list[n].mIsInactive
      BY <1>3, <2>1, <2>3, <2>4
    <2>5. CASE ~list[n].mIsInactive
      <3> DEFINE q == k[n - 1]
      <3>1. q \in Seq(Subscribers) /\ k[n] = Append(q, list[n])
        BY <1>3, <2>1, <2>5
      <3> HIDE DEF q
      <3>2. /\ Append(q, list[n]) \in Seq(Subscribers)
            /\ Entries(Append(q, list[n])) = Entries(q) \cup {list[n]}
        BY <2>2, <3>1, AppendedEntries
      <3>3. Entries(q) = {e \in {list[j] : j \in 1 .. n - 1} : ~e.mIsInactive}
        BY <1>3 DEF q
      <3> QED BY <2>3, <2>5, <3>1, <3>2, <3>3
    <2> QED BY <2>4, <2>5
  <1>4. T = {}
    <2> SUFFICES ASSUME T # {} PROVE FALSE
      OBVIOUS
    <2>1. T \in SUBSET Nat
      OBVIOUS
    <2> HIDE DEF T
    <2>2. PICK n \in T : \A m \in T : n <= m
      BY <2>1, LeastNumber
    <2>3. n \in 0 .. Len(list) /\ ~Right(n)
      BY <2>2 DEF T
    <2> HIDE DEF Right
    <2>4. n \in 1 .. Len(list) /\ n - 1 \in 0 .. Len(list) /\ n - 1 \notin T
      BY <1>2, <2>2, <2>3
    <2> QED BY <1>3, <2>3, <2>4 DEF T
  <1>5. Right(Len(list))
    <2>1. Len(list) \in 0 .. Len(list) /\ Len(list) \notin T
      BY <1>4
    <2> HIDE DEF Right
    <2> QED BY <2>1
  <1> QED BY <1>1, <1>5 DEF Entries

LEMMA ActiveFirst ==
    ASSUME NEW list \in Seq(Subscribers), NEW e \in Entries(list), ~e.mIsInactive
    PROVE  /\ ActiveOf(list) # <<>>
           /\ ActiveOf(list)[1] \in Entries(list) /\ ~ActiveOf(list)[1].mIsInactive
  <1> DEFINE a == ActiveOf(list)
  <1>1. a \in Seq(Subscribers) /\ Entries(a) = {d \in Entries(list) : ~d.mIsInactive}
    BY ActiveEntries
  <1> HIDE DEF a
  <1>2. e \in Entries(a)
    BY <1>1
  <1>3. Len(a) \in Nat /\ Len(a) # 0
    BY <1>1, <1>2 DEF Entries
  <1>4. a # <<>> /\ a[1] \in Entries(a)
    BY <1>3 DEF Entries
  <1> QED BY <1>1, <1>4 DEF a

LEMMA NoneActive ==
    ASSUME NEW list \in Seq(Subscribers)
    PROVE  ActiveOf(list) = <<>> <=> \A e \in Entries(list) : e.mIsInactive
  <1>1. ASSUME ActiveOf(list) = <<>> PROVE \A e \in Entries(list) : e.mIsInactive
    BY <1>1, ActiveFirst
  <1>2. ASSUME \A e \in Entries(list) : e.mIsInactive PROVE ActiveOf(list) = <<>>
    <2> DEFINE a == ActiveOf(list)
    <2>1. a \in Seq(Subscribers) /\ Entries(a) = {}
      BY <1>2, ActiveEntries
    <2> HIDE DEF a
    <2>2. Len(a) = 0
      <3>1. Len(a) \in Nat /\ (Len(a) # 0 => 1 \in 1 .. Len(a))
        BY <2>1
      <3>2. 1 \in 1 .. Len(a) => a[1] \in Entries(a)
        BY DEF Entries
      <3> QED BY <2>1, <3>1, <3>2
    <2>3. a = <<>>
      BY <2>1, <2>2
    <2> QED BY <2>3 DEF a
  <1> QED BY <1>1, <1>2

LEMMA IdsOfEntries ==
    ASSUME NEW list
    PROVE  IdsOf(list) = {e.ID : e \in Entries(list)}
  BY DEF IdsOf, Entries

LEMMA AddedEntries ==
    ASSUME mSubscribers \in Seq(Subscribers), NEW i \in Ids
    PROVE  /\ Added(i) \in Seq(Subscribers)
           /\ Entries(Added(i)) = IF i \in IdsOf(mSubscribers) THEN Entries(mSubscribers)
                                  ELSE Entries(mSubscribers) \cup {Entry(i, FALSE)}
  <1> DEFINE s == mSubscribers
             f == <<Entry(i, FALSE)>>
  <1>1. f \in Seq(Subscribers) /\ Entries(f) = {Entry(i, FALSE)}
    <2>1. Entry(i, FALSE) \in Subscribers
      BY DEF Entry, Subscribers
    <2> QED BY <2>1, OneEntry
  <1> HIDE DEF f
  <1>2. f \o s \in Seq(Subscribers) /\ Entries(f \o s) = Entries(f) \cup Entries(s)
    BY <1>1, JoinedEntries
  <1> QED BY <1>1, <1>2 DEF Added, f

LEMMA DeactivatedEntries ==
    ASSUME mSubscribers \in Seq(Subscribers), NEW i \in Ids
    PROVE  /\ Deactivated(i) \in Seq(Subscribers)
           /\ Entries(Deactivated(i)) =
                 {IF e.ID = i THEN Entry(i, TRUE) ELSE e : e \in Entries(mSubscribers)}
  <1>1. ASSUME NEW e \in Subscribers
        PROVE  (IF e.ID = i THEN Entry(i, TRUE) ELSE e) \in Subscribers
    BY DEF Entry, Subscribers
  <1> DEFINE d == [n \in 1 .. Len(mSubscribers) |->
                      IF mSubscribers[n].ID = i THEN Entry(i, TRUE) ELSE mSubscribers[n]]
  <1>2. /\ \A n \in 1 .. Len(mSubscribers) : mSubscribers[n] \in Subscribers
        /\ Len(mSubscribers) \in Nat
    OBVIOUS
  <1>3. d \in Seq(Subscribers) /\ Len(d) = Len(mSubscribers)
    <2>1. d \in [1 .. Len(mSubscribers) -> Subscribers]
      BY <1>1, <1>2
    <2> HIDE DEF d
    <2> QED BY <1>2, <2>1, TupleOf
  <1> QED BY <1>3 DEF Deactivated, Entries

----------------------------------------------------------------------------
(* Types and the message queue                                              *)

Kinds == {"RequestSuplEs", "ReleaseATL", "RequestATL", "Opened", "Closed"}
Messages == [kind : Kinds, id : Ids \cup {NULL}]
CallStates == {"none", "starting", "up", "stopping"}
Positions == 1 .. Len(msgs)

(* TypeOK but for agnss_nif.                                                *)
Types ==
    /\ mState \in States
    /\ mRetries \in 0 .. MaxRetries
    /\ mSubscribers \in Seq(Subscribers)
    /\ timers \in Nat
    /\ call \in CallStates
    /\ msgs \in Seq(Messages)
    /\ wants \in [Ids -> {"new", "asked", "done"}]
    /\ told \in [Ids -> {"none", "open", "closed"}]
    /\ handedOver \subseteq Ids

LEMMA TypesSuffice == Types /\ agnss!TypeOK <=> TypeOK
  BY DEF Types, TypeOK, Kinds, Messages, CallStates, Subscribers

(* The message thread has taken the first message and sent itself none, or  *)
(* requests for handles that are passed on.                                 *)
Popped ==
    /\ msgs' \in Seq(Messages)
    /\ \A k \in 1 .. Len(msgs') :
          \/ k + 1 \in Positions /\ msgs'[k] = msgs[k + 1]
          \/ /\ k > Len(msgs) - 1
             /\ msgs'[k].kind = "RequestATL" /\ msgs'[k].id \in handedOver'
    /\ \A k \in Positions : k # 1 => k - 1 \in 1 .. Len(msgs') /\ msgs'[k - 1] = msgs[k]

(* Another thread has sent one.                                             *)
Sent(m) ==
    /\ msgs' \in Seq(Messages)
    /\ \A k \in 1 .. Len(msgs') :
          \/ k \in Positions /\ msgs'[k] = msgs[k]
          \/ k = Len(msgs) + 1 /\ msgs'[k] = m
    /\ \A k \in Positions : k \in 1 .. Len(msgs') /\ msgs'[k] = msgs[k]
    /\ Len(msgs) + 1 \in 1 .. Len(msgs') /\ msgs'[Len(msgs) + 1] = m

LEMMA PostPops ==
    ASSUME Types, msgs # <<>>, NEW new \in Seq(Messages), Post(new),
           \A k \in 1 .. Len(new) : new[k].kind = "RequestATL" /\ new[k].id \in handedOver'
    PROVE  Popped
  <1> DEFINE t == Tail(msgs)
  <1>1. /\ t \in Seq(Messages) /\ Len(t) = Len(msgs) - 1 /\ Len(msgs) \in Nat
        /\ \A k \in 1 .. Len(t) : t[k] = msgs[k + 1]
    BY DEF Types
  <1> HIDE DEF t
  <1>2. /\ t \o new \in Seq(Messages)
        /\ Len(t \o new) = Len(t) + Len(new) /\ Len(new) \in Nat /\ Len(t) \in Nat
        /\ \A k \in 1 .. Len(t) : (t \o new)[k] = t[k]
        /\ \A k \in 1 .. Len(new) : (t \o new)[Len(t) + k] = new[k]
    <2>1. t \in Seq(Messages) /\ new \in Seq(Messages)
      BY <1>1
    <2>2. t \o new \in Seq(Messages)
      BY <2>1, JoinedSequences
    <2>3. Len(t \o new) = Len(t) + Len(new) /\ Len(new) \in Nat /\ Len(t) \in Nat
      BY <2>1, JoinedSequences
    <2>4. \A k \in 1 .. Len(t) : (t \o new)[k] = t[k]
      BY <2>1, JoinedSequences
    <2>5. \A k \in 1 .. Len(new) : (t \o new)[Len(t) + k] = new[k]
      BY <2>1, JoinedSequences
    <2> QED BY <2>2, <2>3, <2>4, <2>5
  <1>3. msgs' = t \o new
    BY DEF Post, t
  <1>4. ASSUME NEW k \in 1 .. Len(msgs')
        PROVE  \/ k + 1 \in Positions /\ msgs'[k] = msgs[k + 1]
               \/ /\ k > Len(msgs) - 1
                  /\ msgs'[k].kind = "RequestATL" /\ msgs'[k].id \in handedOver'
    <2>1. CASE k <= Len(t)
      <3>1. k \in 1 .. Len(t) /\ k + 1 \in Positions
        BY <1>1, <1>2, <2>1 DEF Positions
      <3> QED BY <1>1, <1>2, <1>3, <3>1
    <2>2. CASE k > Len(t)
      <3>1. k - Len(t) \in 1 .. Len(new) /\ k = Len(t) + (k - Len(t))
        BY <1>1, <1>2, <1>3, <2>2
      <3>2. msgs'[k] = new[k - Len(t)]
        BY <1>2, <1>3, <3>1
      <3> QED BY <1>1, <2>2, <3>1, <3>2
    <2> QED BY <1>2, <2>1, <2>2
  <1>5. ASSUME NEW k \in Positions, k # 1
        PROVE  k - 1 \in 1 .. Len(msgs') /\ msgs'[k - 1] = msgs[k]
    <2>1. k - 1 \in 1 .. Len(t) /\ k - 1 \in 1 .. Len(msgs') /\ (k - 1) + 1 = k
      BY <1>1, <1>2, <1>3, <1>5 DEF Positions
    <2>2. msgs'[k - 1] = t[k - 1] /\ t[k - 1] = msgs[(k - 1) + 1]
      BY <1>1, <1>2, <1>3, <2>1
    <2> QED BY <2>1, <2>2
  <1> QED BY <1>2, <1>3, <1>4, <1>5 DEF Popped

LEMMA PostNothing == ASSUME Types, msgs # <<>>, Post(<<>>) PROVE Popped
  <1> DEFINE new == <<>>
  <1>1. new \in Seq(Messages) /\ Len(new) = 0 /\ Post(new)
    OBVIOUS
  <1> HIDE DEF new
  <1>2. \A k \in 1 .. Len(new) : new[k].kind = "RequestATL" /\ new[k].id \in handedOver'
    BY <1>1
  <1> QED BY <1>1, <1>2, PostPops

LEMMA SendSends ==
    ASSUME Types, NEW m \in Messages, Send(m)
    PROVE  Sent(m)
  <1>1. /\ Append(msgs, m) \in Seq(Messages)
        /\ Len(Append(msgs, m)) = Len(msgs) + 1 /\ Len(msgs) \in Nat
        /\ \A k \in 1 .. Len(msgs) : Append(msgs, m)[k] = msgs[k]
        /\ Append(msgs, m)[Len(msgs) + 1] = m
    BY DEF Types
  <1> QED BY <1>1 DEF Send, Sent, Positions

LEMMA HandOverPops ==
    ASSUME Types, msgs # <<>>, NEW ids \in Seq(Ids), HandOver(ids)
    PROVE  /\ Popped
           /\ mRetries' \in 0 .. MaxRetries
           /\ handedOver' = handedOver \cup Entries(ids)
           /\ handedOver' \subseteq Ids
  <1> DEFINE new == [k \in 1 .. Len(ids) |-> Msg("RequestATL", ids[k])]
  <1>1. Len(ids) \in Nat /\ \A k \in 1 .. Len(ids) : ids[k] \in Ids
    OBVIOUS
  <1>2. \A k \in 1 .. Len(ids) : Msg("RequestATL", ids[k]) \in Messages
    BY <1>1 DEF Msg, Messages, Kinds
  <1>3. new \in Seq(Messages) /\ Len(new) = Len(ids)
    <2>1. new \in [1 .. Len(ids) -> Messages]
      BY <1>2
    <2> HIDE DEF new
    <2> QED BY <1>1, <2>1, TupleOf
  <1>4. handedOver' = handedOver \cup Entries(ids) /\ Post(new) /\ mRetries' = 0
    BY DEF HandOver, Entries
  <1>5. \A k \in 1 .. Len(new) : new[k].kind = "RequestATL" /\ new[k].id = ids[k]
    BY <1>3 DEF Msg
  <1> HIDE DEF new
  <1>6. \A k \in 1 .. Len(new) : new[k].kind = "RequestATL" /\ new[k].id \in handedOver'
    BY <1>3, <1>4, <1>5 DEF Entries
  <1>7. Popped
    BY <1>3, <1>4, <1>6, PostPops
  <1>8. handedOver' \subseteq Ids
    BY <1>1, <1>4 DEF Entries, Types
  <1> QED BY <1>4, <1>7, <1>8, ConstantsAssumption

(* A request for a call: it starts, or is to be retried, or an active       *)
(* subscriber is passed on.                                                 *)
LEMMA RequestCallDoes ==
    ASSUME Types, msgs # <<>>, mSubscribers' \in Seq(Subscribers),
           NEW e \in Entries(mSubscribers'), ~e.mIsInactive,
           NEW outcome \in Outcomes, NEW callBefore \in CallStates,
           RequestCall(outcome, callBefore)
    PROVE  /\ Popped
           /\ mRetries' \in 0 .. MaxRetries /\ timers' \in Nat
           /\ call' = IF outcome = "SUCCESS" THEN "starting" ELSE callBefore
           /\ handedOver \subseteq handedOver' /\ handedOver' \subseteq Ids
           /\ handedOver' \subseteq handedOver \cup {d.ID : d \in Entries(mSubscribers')}
           /\ outcome # "SUCCESS" =>
                 \/ timers' > 0
                 \/ \E d \in Entries(mSubscribers') : ~d.mIsInactive /\ d.ID \in handedOver'
  <1> USE DEF RequestCall
  <1>1. CASE outcome = "SUCCESS"
    <2>1. Post(<<>>) /\ call' = "starting" /\ UNCHANGED <<mRetries, timers, handedOver>>
      BY <1>1
    <2> QED BY <1>1, <2>1, PostNothing DEF Types
  <1>2. CASE outcome = "BUSY" /\ mRetries < MaxRetries
    <2>1. /\ Post(<<>>) /\ call' = callBefore /\ UNCHANGED handedOver
          /\ mRetries' = mRetries + 1 /\ timers' = timers + 1
      BY <1>2, ConstantsAssumption DEF Types
    <2>2. mRetries' \in 0 .. MaxRetries /\ timers' \in Nat /\ timers' > 0
      BY <1>2, <2>1, ConstantsAssumption DEF Types
    <2>3. Popped
      BY <2>1, PostNothing
    <2> QED BY <1>2, <2>1, <2>2, <2>3 DEF Types
  <1>3. CASE outcome # "SUCCESS" /\ ~(outcome = "BUSY" /\ mRetries < MaxRetries)
    <2> DEFINE d == ActiveOf(mSubscribers')[1]
    <2>1. d \in Entries(mSubscribers') /\ ~d.mIsInactive
      BY ActiveFirst
    <2>2. HandOver(<<d.ID>>) /\ call' = callBefore /\ UNCHANGED timers
      BY <1>3
    <2> HIDE DEF d
    <2>3. d.ID \in Ids
      BY <2>1, EntriesOfType DEF Subscribers
    <2>4. <<d.ID>> \in Seq(Ids) /\ Entries(<<d.ID>>) = {d.ID}
      BY <2>3, OneEntry
    <2>5. /\ Popped /\ mRetries' \in 0 .. MaxRetries
          /\ handedOver' = handedOver \cup {d.ID} /\ handedOver' \subseteq Ids
      BY <2>2, <2>4, HandOverPops
    <2> QED BY <1>3, <2>1, <2>2, <2>5 DEF Types
  <1> QED BY <1>1, <1>2, <1>3

----------------------------------------------------------------------------
(* The inductive invariant                                                  *)

(* Who has been told nothing is active, and not in an acquired machine; a   *)
(* released machine has only active subscribers.                            *)
SubscribersTold ==
    \A e \in Entries(mSubscribers) :
       /\ e.mIsInactive => told[e.ID] # "none" /\ mState # "Released"
       /\ mState = "Acquired" => told[e.ID] # "none"

(* One session at a time; what is known of a new one, and of one that is    *)
(* still behind a release in the queue.                                     *)
Sessions ==
    /\ \A i, j \in Ids : wants[i] = "asked" /\ wants[j] = "asked" => i = j
    /\ \A i \in Ids : wants[i] = "new" =>
          /\ told[i] = "none" /\ i \notin handedOver
          /\ \A e \in Entries(mSubscribers) : e.ID # i
          /\ \A k \in Positions : msgs[k].id # i
    /\ \A k \in Positions, i \in Ids : msgs[k] = Msg("ReleaseATL", i) => wants[i] = "done"
    /\ \A k \in Positions, u \in Ids : msgs[k].kind = "ReleaseATL" /\ wants[u] = "asked" =>
          /\ \A e \in Entries(mSubscribers) : e.ID # u
          /\ \A j \in Positions : msgs[j] = Msg("RequestSuplEs", u) => j > k

(* One call at a time: at most one event of each kind is queued, up before  *)
(* down, and the machine has not been released while one is.                *)
Opened == Msg("Opened", NULL)
Closed == Msg("Closed", NULL)
Events ==
    /\ \A j, k \in Positions : msgs[j] = Closed /\ msgs[k] = Closed => j = k
    /\ \A j, k \in Positions : msgs[j] = Opened /\ msgs[k] = Opened => j = k
    /\ \A k \in Positions : msgs[k] = Closed => call = "none" /\ mState # "Released"
    /\ \A k \in Positions : msgs[k] = Opened =>
          /\ mState \in {"Pending", "Releasing"} /\ call # "starting"
          /\ call = "none" => \E j \in Positions : j > k /\ msgs[j] = Closed

CallOfState ==
    /\ mState = "Released" => call = "none"
    /\ mState = "Pending" => call # "stopping"
    /\ mState = "Acquired" => call \in {"up", "none"}
    /\ mState = "Releasing" => call \in {"stopping", "none"}
    /\ mState = "Acquired" /\ call = "none" => \E k \in Positions : msgs[k] = Closed

IInv == Types /\ SubscribersTold /\ Sessions /\ Events /\ CallOfState

----------------------------------------------------------------------------
(* What each handler does, its types included                               *)

AfterAdd(i) ==
    Entries(mSubscribers') = IF i \in IdsOf(mSubscribers) THEN Entries(mSubscribers)
                             ELSE Entries(mSubscribers) \cup {Entry(i, FALSE)}

LEMMA MessageTaken ==
    ASSUME Types, NEW kind, NEW i, Take(kind, i)
    PROVE  msgs # <<>> /\ 1 \in Positions /\ msgs[1] = Msg(kind, i)
  BY DEF Types, Take, Positions

LEMMA EntryTypes ==
    ASSUME Types, NEW e \in Entries(mSubscribers)
    PROVE  e.ID \in Ids /\ e.mIsInactive \in BOOLEAN
  <1>1. mSubscribers \in Seq(Subscribers)
    BY DEF Types
  <1>2. e \in Subscribers
    BY <1>1, EntriesOfType
  <1> QED BY <1>2 DEF Subscribers

LEMMA SubscribeReleasedDoes ==
    ASSUME IInv, NEW i \in Ids, SubscribeReleased(i)
    PROVE  /\ Types' /\ Popped /\ AfterAdd(i)
           /\ \/ mState' = "Pending" /\ call' = "starting"
              \/ /\ mState' = "Released" /\ call' = call
                 /\ \/ timers' > 0
                    \/ \E d \in Entries(mSubscribers') : ~d.mIsInactive /\ d.ID \in handedOver'
           /\ handedOver \subseteq handedOver'
           /\ handedOver' \subseteq handedOver \cup {d.ID : d \in Entries(mSubscribers')}
  <1> USE DEF SubscribeReleased
  <1>1. msgs # <<>>
    BY MessageTaken DEF IInv
  <1>2. mSubscribers' \in Seq(Subscribers) /\ AfterAdd(i)
    BY AddedEntries DEF IInv, Types, AfterAdd
  <1>3. PICK e \in Entries(mSubscribers') : ~e.mIsInactive
    <2>1. \A e \in Entries(mSubscribers) : ~e.mIsInactive
      BY DEF IInv, SubscribersTold
    <2>2. CASE i \in IdsOf(mSubscribers)
      BY <1>2, <2>1, <2>2, IdsOfEntries DEF AfterAdd
    <2>3. CASE i \notin IdsOf(mSubscribers)
      <3>1. Entry(i, FALSE) \in Entries(mSubscribers')
        BY <1>2, <2>3 DEF AfterAdd
      <3>2. ~Entry(i, FALSE).mIsInactive
        BY DEF Entry
      <3> QED BY <3>1, <3>2
    <2> QED BY <2>2, <2>3
  <1>4. PICK outcome \in Outcomes :
               /\ RequestCall(outcome, call)
               /\ mState' = IF outcome = "SUCCESS" THEN "Pending" ELSE "Released"
    OBVIOUS
  <1>5. /\ Popped
        /\ mRetries' \in 0 .. MaxRetries /\ timers' \in Nat
        /\ call' = IF outcome = "SUCCESS" THEN "starting" ELSE call
        /\ handedOver \subseteq handedOver' /\ handedOver' \subseteq Ids
        /\ handedOver' \subseteq handedOver \cup {d.ID : d \in Entries(mSubscribers')}
        /\ outcome # "SUCCESS" =>
              \/ timers' > 0
              \/ \E d \in Entries(mSubscribers') : ~d.mIsInactive /\ d.ID \in handedOver'
    BY <1>1, <1>2, <1>3, <1>4, RequestCallDoes DEF IInv, Types
  <1>6. Types'
    BY <1>2, <1>4, <1>5 DEF IInv, Types, States, CallStates, Popped
  <1> QED BY <1>2, <1>4, <1>5, <1>6

LEMMA SubscribeDoes ==
    ASSUME IInv, NEW i \in Ids, SubscribeWaiting(i) \/ SubscribeAcquired(i)
    PROVE  Types' /\ Popped /\ AfterAdd(i)
  <1> USE DEF SubscribeWaiting, SubscribeAcquired
  <1>1. Popped
    BY MessageTaken, PostNothing DEF IInv
  <1>2. mSubscribers' \in Seq(Subscribers) /\ AfterAdd(i)
    BY AddedEntries DEF IInv, Types, AfterAdd
  <1>3. told' \in [Ids -> {"none", "open", "closed"}]
    BY DEF IInv, Types
  <1> QED BY <1>1, <1>2, <1>3 DEF IInv, Types, Popped

LEMMA PassDoes ==
    ASSUME IInv, NEW i \in Ids, ReleaseAgnss(i) \/ ReleaseUnknown(i) \/ RequestAtl(i)
    PROVE  Types' /\ Popped
  <1> USE DEF ReleaseAgnss, ReleaseUnknown, RequestAtl, dsVars
  <1>1. Popped
    BY MessageTaken, PostNothing DEF IInv
  <1>2. told' \in [Ids -> {"none", "open", "closed"}]
    BY DEF IInv, Types
  <1> QED BY <1>1, <1>2 DEF IInv, Types, Popped

LEMMA ReleaseDsDoes ==
    ASSUME IInv, NEW i \in Ids, ReleaseDs(i)
    PROVE  /\ Types' /\ Popped
           /\ \/ mState = "Released" /\ UNCHANGED <<mState, mSubscribers, call>>
              \/ /\ mState # "Released"
                 /\ Entries(mSubscribers') =
                       {IF e.ID = i THEN Entry(i, TRUE) ELSE e : e \in Entries(mSubscribers)}
                 /\ \/ mState' = "Releasing" /\ StopCall /\ mState # "Releasing"
                    \/ UNCHANGED <<mState, call>>
  <1> USE DEF ReleaseDs
  <1>1. Popped
    BY MessageTaken, PostNothing DEF IInv
  <1>2. told' \in [Ids -> {"none", "open", "closed"}]
    BY DEF IInv, Types
  <1>3. CASE mState = "Released"
    BY <1>1, <1>2, <1>3 DEF IInv, Types, Popped
  <1>4. CASE mState # "Released"
    <2>1. /\ mSubscribers' \in Seq(Subscribers)
          /\ Entries(mSubscribers') =
                {IF e.ID = i THEN Entry(i, TRUE) ELSE e : e \in Entries(mSubscribers)}
      BY <1>4, DeactivatedEntries DEF IInv, Types
    <2>2. mState' \in States /\ call' \in CallStates
      BY <1>4 DEF IInv, Types, StopCall, States, CallStates
    <2>3. \/ mState' = "Releasing" /\ StopCall /\ mState # "Releasing"
          \/ UNCHANGED <<mState, call>>
      BY <1>4
    <2>4. Types'
      BY <1>1, <1>2, <2>1, <2>2 DEF IInv, Types, Popped
    <2> QED BY <1>1, <1>4, <2>1, <2>3, <2>4
  <1> QED BY <1>3, <1>4

LEMMA OnOpenedDoes ==
    ASSUME IInv, OnOpened
    PROVE  /\ Types' /\ Popped
           /\ \/ mState # "Pending" /\ UNCHANGED <<mState, told>>
              \/ /\ mState = "Pending" /\ mState' = "Acquired"
                 /\ \A e \in Entries(mSubscribers) : ~e.mIsInactive => told'[e.ID] = "open"
                 /\ \A i \in Ids : told[i] # "none" => told'[i] # "none"
  <1> USE DEF OnOpened
  <1>1. Popped
    BY MessageTaken, PostNothing DEF IInv
  <1>2. CASE mState # "Pending"
    BY <1>1, <1>2 DEF IInv, Types, Popped
  <1>3. CASE mState = "Pending"
    <2> DEFINE a == IdsOf(ActiveOf(mSubscribers))
    <2>1. a = {e.ID : e \in {d \in Entries(mSubscribers) : ~d.mIsInactive}}
      BY IdsOfEntries, ActiveEntries DEF IInv, Types
    <2>2. told' = [i \in Ids |-> IF i \in a THEN "open" ELSE told[i]] /\ mState' = "Acquired"
      BY <1>3
    <2> HIDE DEF a
    <2>3. told' \in [Ids -> {"none", "open", "closed"}]
      BY <2>2 DEF IInv, Types
    <2>4. ASSUME NEW e \in Entries(mSubscribers), ~e.mIsInactive PROVE told'[e.ID] = "open"
      <3>1. e.ID \in Ids
        BY EntryTypes DEF IInv
      <3> QED BY <2>1, <2>2, <2>4, <3>1
    <2>5. Types'
      BY <1>1, <1>3, <2>2, <2>3 DEF IInv, Types, Popped, States
    <2> QED BY <1>1, <1>3, <2>2, <2>4, <2>5
  <1> QED BY <1>2, <1>3

LEMMA OnClosedPendingDoes ==
    ASSUME IInv, OnClosedPending
    PROVE  /\ Types' /\ Popped /\ Entries(mSubscribers') = {}
           /\ handedOver' = handedOver \cup {e.ID : e \in Entries(mSubscribers)}
  <1> USE DEF OnClosedPending
  <1> DEFINE ids == [k \in 1 .. Len(mSubscribers) |-> mSubscribers[k].ID]
  <1>1. msgs # <<>>
    BY MessageTaken DEF IInv
  <1>2. /\ \A k \in 1 .. Len(mSubscribers) : mSubscribers[k].ID \in Ids
        /\ Len(mSubscribers) \in Nat
    <2>1. Len(mSubscribers) \in Nat
      BY DEF IInv, Types
    <2>2. ASSUME NEW k \in 1 .. Len(mSubscribers) PROVE mSubscribers[k].ID \in Ids
      <3>1. mSubscribers[k] \in Entries(mSubscribers)
        BY DEF Entries
      <3> QED BY <3>1, EntryTypes DEF IInv
    <2> QED BY <2>1, <2>2
  <1>3. ids \in Seq(Ids) /\ Len(ids) = Len(mSubscribers)
    <2>1. ids \in [1 .. Len(mSubscribers) -> Ids]
      BY <1>2
    <2> HIDE DEF ids
    <2> QED BY <1>2, <2>1, TupleOf
  <1>4. Entries(ids) = {e.ID : e \in Entries(mSubscribers)}
    BY <1>3 DEF Entries
  <1>5. HandOver(ids)
    OBVIOUS
  <1> HIDE DEF ids
  <1>6. /\ Popped /\ mRetries' \in 0 .. MaxRetries
        /\ handedOver' = handedOver \cup Entries(ids) /\ handedOver' \subseteq Ids
    BY <1>1, <1>3, <1>5, HandOverPops DEF IInv
  <1>7. mSubscribers' \in Seq(Subscribers) /\ Entries(mSubscribers') = {}
    BY DEF Entries
  <1>8. Types'
    BY <1>6, <1>7 DEF IInv, Types, Popped, States
  <1> QED BY <1>4, <1>6, <1>7, <1>8

LEMMA OnClosedAcquiredDoes ==
    ASSUME IInv, OnClosedAcquired
    PROVE  Types' /\ Popped /\ Entries(mSubscribers') = {}
  <1> USE DEF OnClosedAcquired
  <1>1. Popped
    BY MessageTaken, PostNothing DEF IInv
  <1>2. mSubscribers' \in Seq(Subscribers) /\ Entries(mSubscribers') = {}
    BY DEF Entries
  <1> QED BY <1>1, <1>2 DEF IInv, Types, Popped, States, CallStates

LEMMA OnClosedReleasingDoes ==
    ASSUME IInv, OnClosedReleasing
    PROVE  /\ Types' /\ Popped
           /\ Entries(mSubscribers') = {e \in Entries(mSubscribers) : ~e.mIsInactive}
           /\ \/ /\ mState' = "Released" /\ call' = "none" /\ Entries(mSubscribers') = {}
                 /\ handedOver' = handedOver
              \/ /\ mState' = "Pending" /\ call' \in {"starting", "none"}
                 /\ handedOver \subseteq handedOver'
                 /\ handedOver' \subseteq handedOver \cup {d.ID : d \in Entries(mSubscribers')}
  <1> USE DEF OnClosedReleasing
  <1>1. msgs # <<>>
    BY MessageTaken DEF IInv
  <1>2. /\ mSubscribers' \in Seq(Subscribers)
        /\ Entries(mSubscribers') = {e \in Entries(mSubscribers) : ~e.mIsInactive}
    BY ActiveEntries DEF IInv, Types
  <1>3. CASE mSubscribers' = <<>>
    <2>1. Popped
      BY <1>1, <1>3, PostNothing DEF IInv
    <2>2. Entries(mSubscribers') = {}
      BY <1>3 DEF Entries
    <2>3. /\ mState' = "Released" /\ call' = "none"
          /\ UNCHANGED <<mRetries, timers, handedOver, told, wants>>
      BY <1>3
    <2>4. Types'
      BY <1>2, <2>1, <2>3 DEF IInv, Types, Popped, States, CallStates
    <2> QED BY <1>2, <2>1, <2>2, <2>3, <2>4
  <1>4. CASE mSubscribers' # <<>>
    <2>1. PICK e \in Entries(mSubscribers') : ~e.mIsInactive
      <3>1. mSubscribers'[1] \in Entries(mSubscribers')
        BY <1>2, <1>4, FirstEntry
      <3> QED BY <1>2, <3>1
    <2>2. PICK outcome \in Outcomes : RequestCall(outcome, "none")
      BY <1>4
    <2>3. mState' = "Pending" /\ UNCHANGED <<told, wants>>
      BY <1>4
    <2>4. "none" \in CallStates
      BY DEF CallStates
    <2>5. /\ Popped
          /\ mRetries' \in 0 .. MaxRetries /\ timers' \in Nat
          /\ call' = IF outcome = "SUCCESS" THEN "starting" ELSE "none"
          /\ handedOver \subseteq handedOver' /\ handedOver' \subseteq Ids
          /\ handedOver' \subseteq handedOver \cup {d.ID : d \in Entries(mSubscribers')}
      BY <1>1, <1>2, <2>1, <2>2, <2>4, RequestCallDoes DEF IInv
    <2>6. Types'
      BY <1>2, <2>3, <2>5 DEF IInv, Types, Popped, States, CallStates
    <2> QED BY <1>2, <2>3, <2>5, <2>6
  <1> QED BY <1>3, <1>4

(* A retry is sent for an active subscriber.                                *)
LEMMA RetryCallbackDoes ==
    ASSUME IInv, RetryCallback
    PROVE  /\ Types'
           /\ \/ UNCHANGED msgs /\ \A e \in Entries(mSubscribers) : e.mIsInactive
              \/ \E e \in Entries(mSubscribers) : e.ID \in Ids /\ Sent(Msg("RequestSuplEs", e.ID))
  <1> USE DEF RetryCallback
  <1>1. timers' \in Nat
    BY DEF IInv, Types
  <1>2. CASE ActiveOf(mSubscribers) = <<>>
    <2>1. UNCHANGED msgs /\ \A e \in Entries(mSubscribers) : e.mIsInactive
      BY <1>2, NoneActive DEF IInv, Types
    <2>2. Types'
      BY <1>1, <2>1 DEF IInv, Types
    <2> QED BY <2>1, <2>2
  <1>3. CASE ActiveOf(mSubscribers) # <<>>
    <2> DEFINE e == ActiveOf(mSubscribers)[1]
    <2>1. PICK d \in Entries(mSubscribers) : ~d.mIsInactive
      BY <1>3, NoneActive DEF IInv, Types
    <2>2. e \in Entries(mSubscribers)
      BY <2>1, ActiveFirst DEF IInv, Types
    <2>3. Send(Msg("RequestSuplEs", e.ID))
      BY <1>3
    <2> HIDE DEF e
    <2>4. e.ID \in Ids
      BY <2>2, EntryTypes DEF IInv
    <2>5. Msg("RequestSuplEs", e.ID) \in Messages
      BY <2>4 DEF Msg, Messages, Kinds
    <2>6. Sent(Msg("RequestSuplEs", e.ID))
      BY <2>3, <2>5, SendSends DEF IInv
    <2>7. Types'
      BY <1>1, <2>6 DEF IInv, Types, Sent
    <2> QED BY <2>2, <2>4, <2>6, <2>7
  <1> QED BY <1>2, <1>3

LEMMA CallDoes ==
    ASSUME IInv, CallConnected \/ CallDisconnected
    PROVE  Types' /\ (CallConnected => Sent(Opened)) /\ (CallDisconnected => Sent(Closed))
  <1> USE DEF CallConnected, CallDisconnected, dsVars
  <1>1. Opened \in Messages /\ Closed \in Messages
    BY DEF Opened, Closed, Msg, Messages, Kinds
  <1>2. /\ CallConnected => Sent(Opened)
        /\ CallDisconnected => Sent(Closed)
    BY <1>1, SendSends DEF IInv, Opened, Closed
  <1>3. msgs' \in Seq(Messages) /\ call' \in CallStates
    BY <1>2 DEF Sent, CallStates
  <1> QED BY <1>2, <1>3 DEF IInv, Types

LEMMA ModemDoes ==
    ASSUME IInv, NEW i \in Ids, OpenSession(i) \/ CloseSession(i)
    PROVE  /\ Types'
           /\ OpenSession(i) => Sent(Msg("RequestSuplEs", i))
           /\ CloseSession(i) => Sent(Msg("ReleaseATL", i))
  <1> USE DEF OpenSession, CloseSession, dsVars
  <1>1. Msg("RequestSuplEs", i) \in Messages /\ Msg("ReleaseATL", i) \in Messages
    BY DEF Msg, Messages, Kinds
  <1>2. /\ OpenSession(i) => Sent(Msg("RequestSuplEs", i))
        /\ CloseSession(i) => Sent(Msg("ReleaseATL", i))
    BY <1>1, SendSends DEF IInv
  <1>3. msgs' \in Seq(Messages) /\ wants' \in [Ids -> {"new", "asked", "done"}]
    BY <1>2 DEF Sent, IInv, Types
  <1> QED BY <1>2, <1>3 DEF IInv, Types
----------------------------------------------------------------------------
(* The order of the data call's events                                      *)

(* What is left in the queue was there, or is a request for agnss_nif.      *)
LEMMA LeftInQueue ==
    ASSUME Types, Popped, NEW k \in Positions', msgs'[k].kind # "RequestATL"
    PROVE  k + 1 \in Positions /\ msgs'[k] = msgs[k + 1]
  BY DEF Popped, Positions

LEMMA StillQueued ==
    ASSUME Types, Popped, NEW k \in Positions, k # 1
    PROVE  k - 1 \in Positions' /\ msgs'[k - 1] = msgs[k]
  BY DEF Popped, Positions

LEMMA EventsDiffer == Opened.kind # "RequestATL" /\ Closed.kind # "RequestATL" /\ Opened # Closed
  <1>1. Opened.kind = "Opened" /\ Closed.kind = "Closed"
    BY DEF Opened, Closed, Msg
  <1> QED BY <1>1

(* A message is handled that is no event for which the machine waits.       *)
LEMMA EventsKept ==
    ASSUME IInv, Popped,
           call' = "none" <=> call = "none",
           call' = "starting" => call = "starting",
           mState # "Released" => mState' # "Released",
           \/ mState \in {"Pending", "Releasing"} => mState' \in {"Pending", "Releasing"}
           \/ \A k \in Positions : msgs[k] = Opened => k = 1
    PROVE  Events'
  <1>1. Types /\ Events
    BY DEF IInv
  <1>2. ASSUME NEW k \in Positions', msgs'[k] = Opened \/ msgs'[k] = Closed
        PROVE  k \in Nat /\ k > 0 /\ k + 1 \in Positions /\ msgs'[k] = msgs[k + 1]
    <2>1. k \in Nat /\ k > 0
      BY DEF Positions
    <2> QED BY <1>1, <1>2, <2>1, LeftInQueue, EventsDiffer
  <1>3. ASSUME NEW j \in Positions', NEW k \in Positions',
               msgs'[j] = Closed, msgs'[k] = Closed
        PROVE  j = k
    <2>1. /\ j \in Nat /\ j + 1 \in Positions /\ msgs[j + 1] = Closed
          /\ k \in Nat /\ k + 1 \in Positions /\ msgs[k + 1] = Closed
      BY <1>2, <1>3
    <2>2. j + 1 = k + 1
      BY <1>1, <2>1 DEF Events
    <2> QED BY <2>1, <2>2
  <1>4. ASSUME NEW j \in Positions', NEW k \in Positions',
               msgs'[j] = Opened, msgs'[k] = Opened
        PROVE  j = k
    <2>1. /\ j \in Nat /\ j + 1 \in Positions /\ msgs[j + 1] = Opened
          /\ k \in Nat /\ k + 1 \in Positions /\ msgs[k + 1] = Opened
      BY <1>2, <1>4
    <2>2. j + 1 = k + 1
      BY <1>1, <2>1 DEF Events
    <2> QED BY <2>1, <2>2
  <1>5. ASSUME NEW k \in Positions', msgs'[k] = Closed
        PROVE  call' = "none" /\ mState' # "Released"
    BY <1>1, <1>2, <1>5 DEF Events
  <1>6. ASSUME NEW k \in Positions', msgs'[k] = Opened
        PROVE  /\ mState' \in {"Pending", "Releasing"} /\ call' # "starting"
               /\ call' = "none" => \E j \in Positions' : j > k /\ msgs'[j] = Closed
    <2>1. k \in Nat /\ k > 0 /\ k + 1 \in Positions /\ msgs[k + 1] = Opened
      BY <1>2, <1>6
    <2>2. /\ mState \in {"Pending", "Releasing"} /\ call # "starting"
          /\ call = "none" => \E j \in Positions : j > k + 1 /\ msgs[j] = Closed
      BY <1>1, <2>1 DEF Events
    <2>3. mState' \in {"Pending", "Releasing"} /\ call' # "starting"
      <3>1. k + 1 # 1
        BY <2>1
      <3> QED BY <2>1, <2>2, <3>1
    <2>4. ASSUME call' = "none" PROVE \E j \in Positions' : j > k /\ msgs'[j] = Closed
      <3>1. PICK j \in Positions : j > k + 1 /\ msgs[j] = Closed
        BY <2>2, <2>4
      <3>2. j \in Nat /\ j # 1 /\ j - 1 > k
        BY <2>1, <3>1 DEF Positions
      <3>3. j - 1 \in Positions' /\ msgs'[j - 1] = Closed
        BY <1>1, <3>1, <3>2, StillQueued
      <3> QED BY <3>2, <3>3
    <2> QED BY <2>3, <2>4
  <1> QED BY <1>3, <1>4, <1>5, <1>6 DEF Events

(* No event is left in the queue.                                           *)
LEMMA EventsOver ==
    ASSUME IInv, Popped,
           \A k \in Positions : k # 1 => msgs[k] # Opened /\ msgs[k] # Closed
    PROVE  /\ \A k \in Positions' : msgs'[k] # Opened /\ msgs'[k] # Closed
           /\ Events'
  <1>1. ASSUME NEW k \in Positions' PROVE msgs'[k] # Opened /\ msgs'[k] # Closed
    <2> SUFFICES ASSUME msgs'[k] = Opened \/ msgs'[k] = Closed PROVE FALSE
      OBVIOUS
    <2>1. k + 1 \in Positions /\ msgs'[k] = msgs[k + 1]
      BY LeftInQueue, EventsDiffer DEF IInv
    <2>2. k + 1 # 1
      BY DEF Positions
    <2> QED BY <2>1, <2>2
  <1> QED BY <1>1 DEF Events

LEMMA NoneAfterClosed ==
    ASSUME IInv, 1 \in Positions, msgs[1] = Closed
    PROVE  /\ call = "none" /\ mState # "Released"
           /\ \A k \in Positions : k # 1 => msgs[k] # Opened /\ msgs[k] # Closed
  <1>1. call = "none" /\ mState # "Released"
    BY DEF IInv, Events
  <1>2. ASSUME NEW k \in Positions, k # 1 PROVE msgs[k] # Closed
    BY <1>2 DEF IInv, Events
  <1>3. ASSUME NEW k \in Positions, msgs[k] = Opened PROVE FALSE
    <2>1. PICK j \in Positions : j > k /\ msgs[j] = Closed
      BY <1>1, <1>3 DEF IInv, Events
    <2>2. j # 1
      BY <2>1 DEF Positions
    <2> QED BY <1>2, <2>1, <2>2
  <1> QED BY <1>1, <1>2, <1>3

LEMMA NoneWhenReleased ==
    ASSUME IInv, mState = "Released"
    PROVE  \A k \in Positions : msgs[k] # Opened /\ msgs[k] # Closed
  BY DEF IInv, Events

LEMMA EventsSent ==
    ASSUME IInv, NEW m, Sent(m), m # Opened, m # Closed, UNCHANGED <<mState, call>>
    PROVE  Events'
  <1>1. Types /\ Events
    BY DEF IInv
  <1>2. ASSUME NEW k \in Positions', msgs'[k] = Opened \/ msgs'[k] = Closed
        PROVE  k \in Positions /\ msgs'[k] = msgs[k]
    BY <1>2 DEF Sent, Positions
  <1>3. \A k \in Positions : k \in Positions' /\ msgs'[k] = msgs[k]
    BY DEF Sent, Positions
  <1> QED BY <1>1, <1>2, <1>3 DEF Events

LEMMA EventsConnected ==
    ASSUME IInv, CallConnected
    PROVE  Events'
  <1>1. Types /\ Events /\ CallOfState /\ Sent(Opened)
    BY CallDoes DEF IInv
  <1>2. call = "starting" /\ call' = "up" /\ mState' = mState /\ mState = "Pending"
    <2>1. call = "starting" /\ call' = "up" /\ mState' = mState
      BY DEF CallConnected, dsVars
    <2> QED BY <1>1, <2>1 DEF CallOfState, Types, States
  <1>3. \A k \in Positions : msgs[k] # Opened /\ msgs[k] # Closed
    BY <1>1, <1>2 DEF Events
  <1>4. ASSUME NEW k \in Positions', msgs'[k] = Opened \/ msgs'[k] = Closed
        PROVE  k = Len(msgs) + 1 /\ msgs'[k] = Opened
    BY <1>1, <1>3, <1>4 DEF Sent, Positions
  <1> QED BY <1>2, <1>4, EventsDiffer DEF Events

LEMMA EventsDisconnected ==
    ASSUME IInv, CallDisconnected
    PROVE  Events'
  <1>1. Types /\ Events /\ CallOfState /\ Sent(Closed)
    BY CallDoes DEF IInv
  <1>2. call # "none" /\ call' = "none" /\ mState' = mState /\ mState # "Released"
    <2>1. call # "none" /\ call' = "none" /\ mState' = mState
      BY DEF CallDisconnected, dsVars
    <2> QED BY <1>1, <2>1 DEF CallOfState
  <1>3. \A k \in Positions : msgs[k] # Closed
    BY <1>1, <1>2 DEF Events
  <1>4. ASSUME NEW k \in Positions', msgs'[k] = Closed
        PROVE  k = Len(msgs) + 1
    BY <1>1, <1>3, <1>4 DEF Sent, Positions
  <1>5. ASSUME NEW k \in Positions', msgs'[k] = Opened
        PROVE  k \in Positions /\ msgs[k] = Opened /\ k < Len(msgs) + 1
    <2>1. k \in Positions /\ msgs[k] = Opened
      BY <1>1, <1>5, EventsDiffer DEF Sent, Positions
    <2>2. Len(msgs) \in Nat
      BY <1>1 DEF Types
    <2> QED BY <2>1, <2>2 DEF Positions
  <1>6. Len(msgs) + 1 \in Positions' /\ msgs'[Len(msgs) + 1] = Closed
    BY <1>1 DEF Sent, Positions
  <1>7. ASSUME NEW k \in Positions', msgs'[k] = Opened
        PROVE  /\ mState' \in {"Pending", "Releasing"} /\ call' # "starting"
               /\ \E j \in Positions' : j > k /\ msgs'[j] = Closed
    <2>1. k \in Positions /\ msgs[k] = Opened /\ k < Len(msgs) + 1
      BY <1>5, <1>7
    <2>2. mState' \in {"Pending", "Releasing"} /\ call' # "starting"
      BY <1>1, <1>2, <2>1 DEF Events
    <2>3. Len(msgs) + 1 > k
      BY <1>1, <2>1 DEF Types, Positions
    <2> QED BY <1>6, <2>2, <2>3
  <1>8. ASSUME NEW j \in Positions', NEW k \in Positions',
               msgs'[j] = Opened, msgs'[k] = Opened
        PROVE  j = k
    <2>1. j \in Positions /\ k \in Positions /\ msgs[j] = Opened /\ msgs[k] = Opened
      BY <1>5, <1>8
    <2> QED BY <1>1, <2>1 DEF Events
  <1> QED BY <1>2, <1>4, <1>7, <1>8 DEF Events

----------------------------------------------------------------------------
(* Every step preserves the invariant                                       *)

LEMMA EventsStep == ASSUME IInv, Next PROVE Events'
  <1>1. CASE \E i \in Ids : SubscribeReleased(i)
    <2>1. PICK i \in Ids : SubscribeReleased(i)
      BY <1>1
    <2>2. Popped /\ mState = "Released"
      BY <2>1, SubscribeReleasedDoes DEF SubscribeReleased
    <2> QED BY <2>2, NoneWhenReleased, EventsOver
  <1>2. CASE \E i \in Ids : SubscribeWaiting(i) \/ SubscribeAcquired(i)
    <2>1. PICK i \in Ids : SubscribeWaiting(i) \/ SubscribeAcquired(i)
      BY <1>2
    <2>2. Popped /\ UNCHANGED <<mState, call>>
      BY <2>1, SubscribeDoes DEF SubscribeWaiting, SubscribeAcquired
    <2> QED BY <2>2, EventsKept
  <1>3. CASE \E i \in Ids : ReleaseAgnss(i) \/ ReleaseUnknown(i) \/ RequestAtl(i)
    <2>1. PICK i \in Ids : ReleaseAgnss(i) \/ ReleaseUnknown(i) \/ RequestAtl(i)
      BY <1>3
    <2>2. Popped /\ UNCHANGED <<mState, call>>
      BY <2>1, PassDoes DEF ReleaseAgnss, ReleaseUnknown, RequestAtl, dsVars
    <2> QED BY <2>2, EventsKept
  <1>4. CASE \E i \in Ids : ReleaseDs(i)
    <2>1. PICK i \in Ids : ReleaseDs(i)
      BY <1>4
    <2>2. Popped
      BY <2>1, ReleaseDsDoes
    <2>3. \/ mState' = "Releasing" /\ StopCall
          \/ UNCHANGED <<mState, call>>
      BY <2>1, ReleaseDsDoes
    <2>4. /\ call' = "none" <=> call = "none"
          /\ call' = "starting" => call = "starting"
          /\ mState # "Released" => mState' # "Released"
          /\ mState \in {"Pending", "Releasing"} => mState' \in {"Pending", "Releasing"}
      BY <2>3 DEF StopCall
    <2> QED BY <2>2, <2>4, EventsKept
  <1>5. CASE OnOpened
    <2>1. 1 \in Positions /\ msgs[1] = Opened
      BY <1>5, MessageTaken DEF OnOpened, IInv, Opened
    <2>2. \A k \in Positions : msgs[k] = Opened => k = 1
      BY <2>1 DEF IInv, Events
    <2>3. Popped /\ UNCHANGED call
      BY <1>5, OnOpenedDoes DEF OnOpened
    <2>4. mState # "Released" => mState' # "Released"
      BY <1>5 DEF OnOpened
    <2> QED BY <2>2, <2>3, <2>4, EventsKept
  <1>6. CASE OnClosed
    <2>1. 1 \in Positions /\ msgs[1] = Closed
      BY <1>6, MessageTaken
         DEF OnClosed, OnClosedPending, OnClosedAcquired, OnClosedReleasing, IInv, Closed
    <2>2. Popped
      BY <1>6, OnClosedPendingDoes, OnClosedAcquiredDoes, OnClosedReleasingDoes DEF OnClosed
    <2> QED BY <2>1, <2>2, NoneAfterClosed, EventsOver
  <1>7. CASE RetryCallback \/ \E i \in Ids : OpenSession(i) \/ CloseSession(i)
    <2>1. UNCHANGED <<mState, call>>
      BY <1>7 DEF RetryCallback, OpenSession, CloseSession, dsVars
    <2>2. \/ UNCHANGED msgs
          \/ \E i \in Ids : Sent(Msg("RequestSuplEs", i)) \/ Sent(Msg("ReleaseATL", i))
      BY <1>7, RetryCallbackDoes, ModemDoes
    <2>3. CASE UNCHANGED msgs
      BY <2>1, <2>3 DEF IInv, Events, Positions
    <2>4. CASE msgs' # msgs
      <3>1. PICK i \in Ids : Sent(Msg("RequestSuplEs", i)) \/ Sent(Msg("ReleaseATL", i))
        BY <2>2, <2>4
      <3>2. /\ Msg("RequestSuplEs", i) # Opened /\ Msg("RequestSuplEs", i) # Closed
            /\ Msg("ReleaseATL", i) # Opened /\ Msg("ReleaseATL", i) # Closed
        <4>1. Opened.kind = "Opened" /\ Closed.kind = "Closed"
          BY DEF Opened, Closed, Msg
        <4>2. Msg("RequestSuplEs", i).kind = "RequestSuplEs" /\ Msg("ReleaseATL", i).kind = "ReleaseATL"
          BY DEF Msg
        <4> QED BY <4>1, <4>2
      <3> QED BY <2>1, <3>1, <3>2, EventsSent
    <2> QED BY <2>3, <2>4
  <1>8. CASE CallConnected \/ CallDisconnected
    BY <1>8, EventsConnected, EventsDisconnected
  <1>9. CASE AgnssStep
    BY <1>9 DEF AgnssStep, dsVars, IInv, Events, Positions
  <1> QED BY <1>1, <1>2, <1>3, <1>4, <1>5, <1>6, <1>7, <1>8, <1>9 DEF Next

LEMMA CallOfStateStep == ASSUME IInv, Next PROVE CallOfState'
  <1>1. Types /\ Events /\ CallOfState
    BY DEF IInv
  <1>2. ASSUME Popped, NEW k \in Positions, k # 1, msgs[k] = Closed
        PROVE  \E j \in Positions' : msgs'[j] = Closed
    BY <1>1, <1>2, StillQueued
  <1>3. ASSUME NEW m, Sent(m), NEW k \in Positions, msgs[k] = Closed
        PROVE  \E j \in Positions' : msgs'[j] = Closed
    BY <1>3 DEF Sent, Positions
  <1>4. ASSUME UNCHANGED <<mState, call>>, Popped, 1 \in Positions => msgs[1] # Closed
        PROVE  CallOfState'
    <2>1. ASSUME mState = "Acquired", call = "none" PROVE \E k \in Positions' : msgs'[k] = Closed
      <3>1. PICK k \in Positions : msgs[k] = Closed
        BY <1>1, <2>1 DEF CallOfState
      <3>2. k # 1
        BY <1>4, <3>1
      <3> QED BY <1>2, <1>4, <3>1, <3>2
    <2> QED BY <1>1, <1>4, <2>1 DEF CallOfState
  <1>5. ASSUME UNCHANGED <<mState, call>>, NEW m, Sent(m)
        PROVE  CallOfState'
    <2>1. ASSUME mState = "Acquired", call = "none" PROVE \E k \in Positions' : msgs'[k] = Closed
      <3>1. PICK k \in Positions : msgs[k] = Closed
        BY <1>1, <2>1 DEF CallOfState
      <3> QED BY <1>3, <1>5, <3>1
    <2> QED BY <1>1, <1>5, <2>1 DEF CallOfState
  <1>6. ASSUME UNCHANGED <<mState, call, msgs>>
        PROVE  CallOfState'
    BY <1>1, <1>6 DEF CallOfState, Positions
  <1>7. ASSUME NEW kind, NEW i, Take(kind, i), kind # "Closed"
        PROVE  1 \in Positions => msgs[1] # Closed
    <2>1. msgs[1] = Msg(kind, i)
      BY <1>1, <1>7, MessageTaken
    <2>2. msgs[1].kind = kind
      BY <2>1 DEF Msg
    <2>3. Closed.kind = "Closed"
      BY DEF Closed, Msg
    <2> QED BY <1>7, <2>2, <2>3
  <1>8. CASE \E i \in Ids : SubscribeReleased(i)
    <2>1. PICK i \in Ids : SubscribeReleased(i)
      BY <1>8
    <2>2. mState = "Released" /\ call = "none"
      BY <1>1, <2>1 DEF SubscribeReleased, CallOfState
    <2>3. \/ mState' = "Pending" /\ call' = "starting"
          \/ mState' = "Released" /\ call' = call
      BY <2>1, SubscribeReleasedDoes
    <2> QED BY <2>2, <2>3 DEF CallOfState
  <1>9. CASE \E i \in Ids : \/ SubscribeWaiting(i) \/ SubscribeAcquired(i)
                            \/ ReleaseAgnss(i) \/ ReleaseUnknown(i) \/ RequestAtl(i)
    <2>1. PICK i \in Ids : \/ SubscribeWaiting(i) \/ SubscribeAcquired(i)
                           \/ ReleaseAgnss(i) \/ ReleaseUnknown(i) \/ RequestAtl(i)
      BY <1>9
    <2>2. Popped
      BY <2>1, SubscribeDoes, PassDoes
    <2>3. UNCHANGED <<mState, call>>
      BY <2>1 DEF SubscribeWaiting, SubscribeAcquired, ReleaseAgnss, ReleaseUnknown,
                  RequestAtl, dsVars
    <2>4. Take("RequestSuplEs", i) \/ Take("ReleaseATL", i) \/ Take("RequestATL", i)
      BY <2>1 DEF SubscribeWaiting, SubscribeAcquired, ReleaseAgnss, ReleaseUnknown,
                  RequestAtl
    <2>5. 1 \in Positions => msgs[1] # Closed
      BY <1>7, <2>4
    <2> QED BY <1>4, <2>2, <2>3, <2>5
  <1>10. CASE \E i \in Ids : ReleaseDs(i)
    <2>1. PICK i \in Ids : ReleaseDs(i)
      BY <1>10
    <2>2. Popped
      BY <2>1, ReleaseDsDoes
    <2>3. CASE UNCHANGED <<mState, call>>
      <3>1. 1 \in Positions => msgs[1] # Closed
        BY <1>7, <2>1 DEF ReleaseDs
      <3> QED BY <1>4, <2>2, <2>3, <3>1
    <2>4. CASE mState' = "Releasing" /\ StopCall /\ mState # "Releasing"
      <3>1. call' \in {"stopping", "none"}
        BY <1>1, <2>4 DEF StopCall, Types, CallStates
      <3> QED BY <2>4, <3>1 DEF CallOfState
    <2> QED BY <2>1, <2>3, <2>4, ReleaseDsDoes
  <1>11. CASE OnOpened
    <2>1. 1 \in Positions /\ msgs[1] = Opened
      BY <1>1, <1>11, MessageTaken DEF OnOpened, Opened
    <2>2. Popped /\ UNCHANGED call
      BY <1>11, OnOpenedDoes DEF OnOpened
    <2>3. CASE mState # "Pending"
      <3>1. UNCHANGED mState
        BY <1>11, <2>3, OnOpenedDoes
      <3> QED BY <1>4, <2>1, <2>2, <3>1, EventsDiffer
    <2>4. CASE mState = "Pending"
      <3>1. mState' = "Acquired"
        BY <1>11, <2>4, OnOpenedDoes
      <3>2. /\ call # "starting" /\ call # "stopping"
            /\ call = "none" => \E j \in Positions : j > 1 /\ msgs[j] = Closed
        BY <1>1, <2>1, <2>4 DEF Events, CallOfState
      <3>3. ASSUME call = "none" PROVE \E j \in Positions' : msgs'[j] = Closed
        <4>1. PICK j \in Positions : j > 1 /\ msgs[j] = Closed
          BY <3>2, <3>3
        <4>2. j # 1
          BY <4>1
        <4> QED BY <1>2, <2>2, <4>1, <4>2
      <3>4. call' = call /\ call \in {"up", "none"}
        BY <1>1, <2>2, <3>2 DEF Types, CallStates
      <3> QED BY <3>1, <3>3, <3>4 DEF CallOfState
    <2> QED BY <2>3, <2>4
  <1>12. CASE OnClosed
    <2>1. CASE OnClosedPending
      <3>1. 1 \in Positions /\ msgs[1] = Closed
        BY <1>1, <2>1, MessageTaken DEF OnClosedPending, Closed
      <3>2. call = "none"
        BY <3>1, NoneAfterClosed
      <3> QED BY <2>1, <3>2 DEF OnClosedPending, CallOfState
    <2>2. CASE OnClosedAcquired
      BY <2>2 DEF OnClosedAcquired, CallOfState
    <2>3. CASE OnClosedReleasing
      <3>1. \/ mState' = "Released" /\ call' = "none"
            \/ mState' = "Pending" /\ call' \in {"starting", "none"}
        BY <2>3, OnClosedReleasingDoes
      <3> QED BY <3>1 DEF CallOfState
    <2> QED BY <1>12, <2>1, <2>2, <2>3 DEF OnClosed
  <1>13. CASE RetryCallback \/ \E i \in Ids : OpenSession(i) \/ CloseSession(i)
    <2>1. UNCHANGED <<mState, call>>
      BY <1>13 DEF RetryCallback, OpenSession, CloseSession, dsVars
    <2>2. UNCHANGED msgs \/ \E m : Sent(m)
      BY <1>13, RetryCallbackDoes, ModemDoes
    <2> QED BY <1>5, <1>6, <2>1, <2>2
  <1>14. CASE CallConnected
    <2>1. call = "starting" /\ call' = "up" /\ mState' = mState
      BY <1>14 DEF CallConnected, dsVars
    <2> QED BY <1>1, <2>1 DEF CallOfState
  <1>15. CASE CallDisconnected
    <2>1. call' = "none" /\ mState' = mState
      BY <1>15 DEF CallDisconnected, dsVars
    <2>2. Len(msgs) + 1 \in Positions' /\ msgs'[Len(msgs) + 1] = Closed
      BY <1>15, CallDoes DEF Sent, Positions
    <2> QED BY <2>1, <2>2 DEF CallOfState
  <1>16. CASE AgnssStep
    BY <1>6, <1>16 DEF AgnssStep, dsVars
  <1> QED BY <1>8, <1>9, <1>10, <1>11, <1>12, <1>13, <1>14, <1>15, <1>16 DEF Next

LEMMA SubscribersToldStep == ASSUME IInv, Next PROVE SubscribersTold'
  <1>1. Types /\ SubscribersTold
    BY DEF IInv
  <1>2. ASSUME Entries(mSubscribers') \subseteq Entries(mSubscribers),
               mState' \in {"Released", "Acquired"} => mState' = mState,
               \A i \in Ids : told[i] # "none" => told'[i] # "none"
        PROVE  SubscribersTold'
    <2>1. ASSUME NEW e \in Entries(mSubscribers')
          PROVE  e \in Entries(mSubscribers) /\ e.ID \in Ids
      BY <1>1, <1>2, EntryTypes
    <2> QED BY <1>1, <1>2, <2>1 DEF SubscribersTold
  <1>3. ASSUME Entries(mSubscribers') = {} PROVE SubscribersTold'
    BY <1>3 DEF SubscribersTold
  <1>4. CASE \E i \in Ids : SubscribeReleased(i)
    <2>1. PICK i \in Ids : SubscribeReleased(i)
      BY <1>4
    <2>2. mState = "Released" /\ AfterAdd(i) /\ mState' # "Acquired"
      BY <2>1, SubscribeReleasedDoes DEF SubscribeReleased
    <2>3. ASSUME NEW e \in Entries(mSubscribers') PROVE ~e.mIsInactive
      <3>1. e \in Entries(mSubscribers) \/ e = Entry(i, FALSE)
        BY <2>2 DEF AfterAdd
      <3>2. ~Entry(i, FALSE).mIsInactive
        BY DEF Entry
      <3> QED BY <1>1, <2>2, <3>1, <3>2 DEF SubscribersTold
    <2> QED BY <2>2, <2>3 DEF SubscribersTold
  <1>5. CASE \E i \in Ids : SubscribeWaiting(i) \/ SubscribeAcquired(i)
    <2>1. PICK i \in Ids : SubscribeWaiting(i) \/ SubscribeAcquired(i)
      BY <1>5
    <2>2. /\ AfterAdd(i)
          /\ mState' = mState /\ mState # "Released"
          /\ mState = "Acquired" => told'[i] # "none"
          /\ \A j \in Ids : told[j] # "none" => told'[j] # "none"
      BY <1>1, <2>1, SubscribeDoes DEF SubscribeWaiting, SubscribeAcquired, Types
    <2>3. ASSUME NEW e \in Entries(mSubscribers')
          PROVE  /\ e.mIsInactive => told'[e.ID] # "none" /\ mState' # "Released"
                 /\ mState' = "Acquired" => told'[e.ID] # "none"
      <3>1. e \in Entries(mSubscribers) \/ e = Entry(i, FALSE)
        BY <2>2 DEF AfterAdd
      <3>2. CASE e \in Entries(mSubscribers)
        <4>1. e.ID \in Ids
          BY <1>1, <3>2, EntryTypes
        <4> QED BY <1>1, <2>2, <3>2, <4>1 DEF SubscribersTold
      <3>3. CASE e = Entry(i, FALSE)
        <4>1. e.ID = i /\ ~e.mIsInactive
          BY <3>3 DEF Entry
        <4> QED BY <2>2, <4>1
      <3> QED BY <3>1, <3>2, <3>3
    <2> QED BY <2>3 DEF SubscribersTold
  <1>6. CASE \E i \in Ids : ReleaseAgnss(i) \/ ReleaseUnknown(i) \/ RequestAtl(i)
    <2>1. PICK i \in Ids : ReleaseAgnss(i) \/ ReleaseUnknown(i) \/ RequestAtl(i)
      BY <1>6
    <2>2. /\ UNCHANGED <<mSubscribers, mState>>
          /\ \A j \in Ids : told[j] # "none" => told'[j] # "none"
      BY <1>1, <2>1 DEF ReleaseAgnss, ReleaseUnknown, RequestAtl, dsVars, Types
    <2> QED BY <1>2, <2>2
  <1>7. CASE \E i \in Ids : ReleaseDs(i)
    <2>1. PICK i \in Ids : ReleaseDs(i)
      BY <1>7
    <2>2. told'[i] = "closed" /\ \A j \in Ids : told[j] # "none" => told'[j] # "none"
      BY <1>1, <2>1 DEF ReleaseDs, Types
    <2>3. CASE mState = "Released"
      <3>1. UNCHANGED <<mState, mSubscribers>>
        BY <2>1, <2>3, ReleaseDsDoes
      <3> QED BY <1>2, <2>2, <3>1
    <2>4. CASE mState # "Released"
      <3>1. Entries(mSubscribers') =
               {IF e.ID = i THEN Entry(i, TRUE) ELSE e : e \in Entries(mSubscribers)}
        BY <2>1, <2>4, ReleaseDsDoes
      <3>2. mState' # "Released" /\ (mState' = "Acquired" => mState = "Acquired")
        BY <2>1, <2>4, ReleaseDsDoes
      <3>3. ASSUME NEW e \in Entries(mSubscribers')
            PROVE  /\ e.mIsInactive => told'[e.ID] # "none" /\ mState' # "Released"
                   /\ mState' = "Acquired" => told'[e.ID] # "none"
        <4>1. PICK d \in Entries(mSubscribers) : e = IF d.ID = i THEN Entry(i, TRUE) ELSE d
          BY <3>1
        <4>2. CASE d.ID = i
          <5>1. e.ID = i
            BY <4>1, <4>2 DEF Entry
          <5> QED BY <2>2, <3>2, <5>1
        <4>3. CASE d.ID # i
          <5>1. e = d /\ d.ID \in Ids
            BY <1>1, <4>1, <4>3, EntryTypes
          <5> QED BY <1>1, <2>2, <3>2, <5>1 DEF SubscribersTold
        <4> QED BY <4>2, <4>3
      <3> QED BY <3>3 DEF SubscribersTold
    <2> QED BY <2>3, <2>4
  <1>8. CASE OnOpened
    <2>1. CASE mState # "Pending"
      <3>1. UNCHANGED <<mState, told, mSubscribers>>
        BY <1>8, <2>1 DEF OnOpened
      <3> QED BY <1>2, <3>1
    <2>2. CASE mState = "Pending"
      <3>1. /\ mState' = "Acquired"
            /\ \A e \in Entries(mSubscribers) : ~e.mIsInactive => told'[e.ID] = "open"
            /\ \A i \in Ids : told[i] # "none" => told'[i] # "none"
        BY <1>8, <2>2, OnOpenedDoes
      <3>2. UNCHANGED mSubscribers
        BY <1>8 DEF OnOpened
      <3>3. ASSUME NEW e \in Entries(mSubscribers) PROVE told'[e.ID] # "none"
        <4>1. e.ID \in Ids
          BY <1>1, EntryTypes
        <4> QED BY <1>1, <3>1, <4>1 DEF SubscribersTold
      <3> QED BY <3>1, <3>2, <3>3 DEF SubscribersTold
    <2> QED BY <2>1, <2>2
  <1>9. CASE OnClosed
    <2>1. CASE OnClosedPending \/ OnClosedAcquired
      BY <1>3, <2>1, OnClosedPendingDoes, OnClosedAcquiredDoes
    <2>2. CASE OnClosedReleasing
      <3>1. /\ Entries(mSubscribers') = {e \in Entries(mSubscribers) : ~e.mIsInactive}
            /\ mState' # "Acquired"
        BY <2>2, OnClosedReleasingDoes
      <3> QED BY <3>1 DEF SubscribersTold
    <2> QED BY <1>9, <2>1, <2>2 DEF OnClosed
  <1>10. CASE \/ RetryCallback \/ \E i \in Ids : OpenSession(i) \/ CloseSession(i)
              \/ CallConnected \/ CallDisconnected \/ AgnssStep
    <2>1. UNCHANGED <<mState, told, mSubscribers>>
      BY <1>10 DEF RetryCallback, OpenSession, CloseSession, CallConnected,
                   CallDisconnected, AgnssStep, dsVars
    <2> QED BY <1>2, <2>1
  <1> QED BY <1>4, <1>5, <1>6, <1>7, <1>8, <1>9, <1>10 DEF Next

(* Sessions, when a message is handled: the list gains the session of the   *)
(* message at most, and new sessions are told and passed on nothing.        *)
LEMMA SessionsKept ==
    ASSUME IInv, Popped, UNCHANGED wants,
           \A e \in Entries(mSubscribers') :
              \/ \E d \in Entries(mSubscribers) : d.ID = e.ID
              \/ 1 \in Positions /\ msgs[1] = Msg("RequestSuplEs", e.ID),
           \A i \in Ids : told'[i] # told[i] => wants[i] # "new",
           handedOver' \subseteq handedOver \cup {e.ID : e \in Entries(mSubscribers')}
                                            \cup {e.ID : e \in Entries(mSubscribers)}
    PROVE  Sessions'
  <1>1. Types /\ Sessions
    BY DEF IInv
  <1>2. ASSUME NEW i \in Ids, wants[i] = "new"
        PROVE  /\ told'[i] = "none" /\ i \notin handedOver'
               /\ \A e \in Entries(mSubscribers') : e.ID # i
               /\ \A k \in Positions' : msgs'[k].id # i
    <2>1. ASSUME NEW e \in Entries(mSubscribers') PROVE e.ID # i
      <3>1. CASE \E d \in Entries(mSubscribers) : d.ID = e.ID
        BY <1>1, <1>2, <3>1 DEF Sessions
      <3>2. CASE 1 \in Positions /\ msgs[1] = Msg("RequestSuplEs", e.ID)
        <4>1. msgs[1].id = e.ID
          BY <3>2 DEF Msg
        <4> QED BY <1>1, <1>2, <3>2, <4>1 DEF Sessions
      <3> QED BY <3>1, <3>2
    <2>2. \A e \in Entries(mSubscribers) : e.ID # i
      BY <1>1, <1>2 DEF Sessions
    <2>3. told'[i] = "none" /\ i \notin handedOver'
      BY <1>1, <1>2, <2>1, <2>2 DEF Sessions
    <2>4. ASSUME NEW k \in Positions' PROVE msgs'[k].id # i
      <3>1. CASE k + 1 \in Positions /\ msgs'[k] = msgs[k + 1]
        BY <1>1, <1>2, <3>1 DEF Sessions
      <3>2. CASE msgs'[k].id \in handedOver'
        BY <2>3, <3>2
      <3> QED BY <3>1, <3>2 DEF Popped, Positions
    <2> QED BY <2>1, <2>3, <2>4
  <1>3. ASSUME NEW k \in Positions', msgs'[k].kind = "ReleaseATL"
        PROVE  k \in Nat /\ k > 0 /\ k + 1 \in Positions /\ msgs'[k] = msgs[k + 1]
    <2>1. k \in Nat /\ k > 0
      BY DEF Positions
    <2>2. msgs'[k].kind # "RequestATL"
      BY <1>3
    <2> QED BY <1>1, <2>1, <2>2, LeftInQueue
  <1>4. ASSUME NEW k \in Positions', NEW i \in Ids, msgs'[k] = Msg("ReleaseATL", i)
        PROVE  wants[i] = "done"
    <2>1. msgs'[k].kind = "ReleaseATL"
      BY <1>4 DEF Msg
    <2>2. k + 1 \in Positions /\ msgs[k + 1] = Msg("ReleaseATL", i)
      BY <1>3, <1>4, <2>1
    <2> QED BY <1>1, <2>2 DEF Sessions
  <1>5. ASSUME NEW k \in Positions', NEW u \in Ids, msgs'[k].kind = "ReleaseATL",
               wants[u] = "asked"
        PROVE  /\ \A e \in Entries(mSubscribers') : e.ID # u
               /\ \A j \in Positions' : msgs'[j] = Msg("RequestSuplEs", u) => j > k
    <2>1. k \in Nat /\ k > 0 /\ k + 1 \in Positions /\ msgs[k + 1].kind = "ReleaseATL"
      BY <1>3, <1>5
    <2>2. /\ \A e \in Entries(mSubscribers) : e.ID # u
          /\ \A j \in Positions : msgs[j] = Msg("RequestSuplEs", u) => j > k + 1
      BY <1>1, <1>5, <2>1 DEF Sessions
    <2>3. ~(1 > k + 1)
      BY <2>1
    <2>4. \A e \in Entries(mSubscribers') : e.ID # u
      BY <2>2, <2>3
    <2>5. ASSUME NEW j \in Positions', msgs'[j] = Msg("RequestSuplEs", u) PROVE j > k
      <3>1. msgs'[j].kind # "RequestATL"
        BY <2>5 DEF Msg
      <3>2. j + 1 \in Positions /\ msgs[j + 1] = Msg("RequestSuplEs", u)
        BY <1>1, <2>5, <3>1, LeftInQueue
      <3>3. j + 1 > k + 1 /\ j \in Nat
        BY <2>2, <3>2 DEF Positions
      <3> QED BY <2>1, <3>3
    <2> QED BY <2>4, <2>5
  <1> QED BY <1>1, <1>2, <1>4, <1>5 DEF Sessions

(* Sessions, when another thread than the modem's sends a message: it is no *)
(* release, and no request of a session that is not on the list.            *)
LEMMA SessionsSent ==
    ASSUME IInv, UNCHANGED <<wants, told, handedOver, mSubscribers>>,
           NEW m, Sent(m), m.kind # "ReleaseATL",
           m.id \notin Ids \/ \E e \in Entries(mSubscribers) : m.id = e.ID
    PROVE  Sessions'
  <1>1. Types /\ Sessions
    BY DEF IInv
  <1>2. ASSUME NEW k \in Positions'
        PROVE  (k \in Positions /\ msgs'[k] = msgs[k]) \/ msgs'[k] = m
    BY DEF Sent, Positions
  <1>3. ASSUME NEW i \in Ids, wants[i] = "new", NEW k \in Positions' PROVE msgs'[k].id # i
    BY <1>1, <1>2, <1>3 DEF Sessions
  <1>4. ASSUME NEW k \in Positions', NEW i \in Ids, msgs'[k] = Msg("ReleaseATL", i)
        PROVE  wants[i] = "done"
    <2>1. msgs'[k].kind = "ReleaseATL"
      BY <1>4 DEF Msg
    <2>2. k \in Positions /\ msgs[k] = Msg("ReleaseATL", i)
      BY <1>2, <1>4, <2>1
    <2> QED BY <1>1, <2>2 DEF Sessions
  <1>5. ASSUME NEW k \in Positions', NEW u \in Ids, msgs'[k].kind = "ReleaseATL",
               wants[u] = "asked"
        PROVE  /\ \A e \in Entries(mSubscribers) : e.ID # u
               /\ \A j \in Positions' : msgs'[j] = Msg("RequestSuplEs", u) => j > k
    <2>1. k \in Positions /\ msgs[k].kind = "ReleaseATL"
      BY <1>2, <1>5
    <2>2. /\ \A e \in Entries(mSubscribers) : e.ID # u
          /\ \A j \in Positions : msgs[j] = Msg("RequestSuplEs", u) => j > k
      BY <1>1, <1>5, <2>1 DEF Sessions
    <2>3. ASSUME NEW j \in Positions', msgs'[j] = Msg("RequestSuplEs", u) PROVE j > k
      <3>1. msgs'[j].id = u
        BY <2>3 DEF Msg
      <3>2. msgs'[j] # m
        BY <2>2, <3>1
      <3> QED BY <1>2, <2>2, <2>3, <3>2
    <2> QED BY <2>2, <2>3
  <1> QED BY <1>1, <1>3, <1>4, <1>5 DEF Sessions

LEMMA SessionsOpened == ASSUME IInv, NEW i \in Ids, OpenSession(i) PROVE Sessions'
  <1> DEFINE m == Msg("RequestSuplEs", i)
  <1>1. Types /\ Sessions /\ Sent(m)
    BY ModemDoes DEF IInv
  <1>2. /\ wants[i] = "new" /\ \A j \in Ids : wants[j] # "asked"
        /\ wants' = [wants EXCEPT ![i] = "asked"]
        /\ UNCHANGED <<told, handedOver, mSubscribers>>
    BY DEF OpenSession, dsVars
  <1>3. wants'[i] = "asked" /\ \A j \in Ids : j # i => wants'[j] = wants[j]
    BY <1>1, <1>2 DEF Types
  <1>4. m.kind = "RequestSuplEs" /\ m.id = i
    BY DEF Msg
  <1> HIDE DEF m
  <1>5. ASSUME NEW k \in Positions'
        PROVE  \/ k \in Positions /\ msgs'[k] = msgs[k]
               \/ k = Len(msgs) + 1 /\ msgs'[k] = m
    BY <1>1 DEF Sent, Positions
  <1>6. ASSUME NEW j \in Ids, wants'[j] = "new", NEW k \in Positions' PROVE msgs'[k].id # j
    <2>1. j # i /\ wants[j] = "new"
      BY <1>3, <1>6
    <2> QED BY <1>1, <1>4, <1>5, <2>1 DEF Sessions
  <1>7. ASSUME NEW k \in Positions', NEW j \in Ids, msgs'[k] = Msg("ReleaseATL", j)
        PROVE  wants'[j] = "done"
    <2>1. msgs'[k].kind = "ReleaseATL"
      BY <1>7 DEF Msg
    <2>2. k \in Positions /\ msgs[k] = Msg("ReleaseATL", j)
      BY <1>4, <1>5, <1>7, <2>1
    <2>3. wants[j] = "done"
      BY <1>1, <2>2 DEF Sessions
    <2> QED BY <1>2, <1>3, <2>3
  <1>8. ASSUME NEW k \in Positions', NEW u \in Ids, msgs'[k].kind = "ReleaseATL",
               wants'[u] = "asked"
        PROVE  /\ \A e \in Entries(mSubscribers) : e.ID # u
               /\ \A j \in Positions' : msgs'[j] = Msg("RequestSuplEs", u) => j > k
    <2>1. u = i
      BY <1>2, <1>3, <1>8
    <2>2. k \in Positions
      BY <1>4, <1>5, <1>8
    <2>3. /\ \A e \in Entries(mSubscribers) : e.ID # u
          /\ \A j \in Positions : msgs[j].id # u
      BY <1>1, <1>2, <2>1 DEF Sessions
    <2>4. ASSUME NEW j \in Positions', msgs'[j] = Msg("RequestSuplEs", u) PROVE j > k
      <3>1. msgs'[j].id = u
        BY <2>4 DEF Msg
      <3>2. j = Len(msgs) + 1
        BY <1>5, <2>3, <3>1
      <3> QED BY <1>1, <2>2, <3>2 DEF Positions, Types
    <2> QED BY <2>3, <2>4
  <1>9. \A j, u \in Ids : wants'[j] = "asked" /\ wants'[u] = "asked" => j = u
    BY <1>2, <1>3
  <1>10. ASSUME NEW j \in Ids, wants'[j] = "new"
         PROVE  /\ told'[j] = "none" /\ j \notin handedOver'
                /\ \A e \in Entries(mSubscribers) : e.ID # j
    <2>1. wants[j] = "new"
      BY <1>3, <1>10
    <2> QED BY <1>1, <1>2, <2>1 DEF Sessions
  <1> QED BY <1>2, <1>6, <1>7, <1>8, <1>9, <1>10 DEF Sessions

LEMMA SessionsClosed == ASSUME IInv, NEW i \in Ids, CloseSession(i) PROVE Sessions'
  <1> DEFINE m == Msg("ReleaseATL", i)
  <1>1. Types /\ Sessions /\ Sent(m)
    BY ModemDoes DEF IInv
  <1>2. /\ wants[i] = "asked" /\ wants' = [wants EXCEPT ![i] = "done"]
        /\ UNCHANGED <<told, handedOver, mSubscribers>>
    BY DEF CloseSession, dsVars
  <1>3. wants'[i] = "done" /\ \A j \in Ids : j # i => wants'[j] = wants[j]
    BY <1>1, <1>2 DEF Types
  <1>4. \A j \in Ids : wants'[j] # "asked"
    BY <1>1, <1>2, <1>3 DEF Sessions
  <1>5. ASSUME NEW k \in Positions'
        PROVE  (k \in Positions /\ msgs'[k] = msgs[k]) \/ msgs'[k] = m
    BY <1>1 DEF Sent, Positions
  <1>6. m.id = i
    BY DEF Msg
  <1>7. ASSUME NEW j \in Ids, wants'[j] = "new"
        PROVE  /\ told'[j] = "none" /\ j \notin handedOver'
               /\ \A e \in Entries(mSubscribers) : e.ID # j
               /\ \A k \in Positions' : msgs'[k].id # j
    <2>1. j # i /\ wants[j] = "new"
      BY <1>3, <1>7
    <2>2. \A k \in Positions' : msgs'[k].id # j
      BY <1>1, <1>5, <1>6, <2>1 DEF Sessions
    <2> QED BY <1>1, <1>2, <2>1, <2>2 DEF Sessions
  <1>8. ASSUME NEW k \in Positions', NEW j \in Ids, msgs'[k] = Msg("ReleaseATL", j)
        PROVE  wants'[j] = "done"
    <2>1. msgs'[k].id = j
      BY <1>8 DEF Msg
    <2>2. CASE msgs'[k] = m
      BY <1>3, <1>6, <2>1, <2>2
    <2>3. CASE k \in Positions /\ msgs'[k] = msgs[k]
      <3>1. wants[j] = "done"
        BY <1>1, <1>8, <2>3 DEF Sessions
      <3> QED BY <1>3, <3>1
    <2> QED BY <1>5, <2>2, <2>3
  <1> QED BY <1>2, <1>4, <1>7, <1>8 DEF Sessions

LEMMA SessionsStep == ASSUME IInv, Next PROVE Sessions'
  <1>1. Types /\ Sessions
    BY DEF IInv
  <1>2. ASSUME NEW i \in Ids, 1 \in Positions, msgs[1].id = i PROVE wants[i] # "new"
    BY <1>1, <1>2 DEF Sessions
  <1>3. ASSUME NEW kind, NEW i \in Ids, Take(kind, i)
        PROVE  1 \in Positions /\ msgs[1] = Msg(kind, i) /\ wants[i] # "new"
    <2>1. 1 \in Positions /\ msgs[1] = Msg(kind, i)
      BY <1>1, <1>3, MessageTaken
    <2>2. msgs[1].id = i
      BY <2>1 DEF Msg
    <2> QED BY <1>2, <2>1, <2>2
  <1>4. CASE \E i \in Ids : \/ SubscribeReleased(i) \/ SubscribeWaiting(i)
                            \/ SubscribeAcquired(i)
    <2>1. PICK i \in Ids : SubscribeReleased(i) \/ SubscribeWaiting(i) \/ SubscribeAcquired(i)
      BY <1>4
    <2>2. Popped /\ AfterAdd(i)
      BY <2>1, SubscribeReleasedDoes, SubscribeDoes
    <2>3. /\ handedOver' \subseteq handedOver \cup {e.ID : e \in Entries(mSubscribers')}
          /\ UNCHANGED wants
      BY <2>1, SubscribeReleasedDoes
         DEF SubscribeReleased, SubscribeWaiting, SubscribeAcquired
    <2>4. 1 \in Positions /\ msgs[1] = Msg("RequestSuplEs", i) /\ wants[i] # "new"
      BY <1>3, <2>1 DEF SubscribeReleased, SubscribeWaiting, SubscribeAcquired
    <2>5. \A j \in Ids : told'[j] # told[j] => wants[j] # "new"
      BY <1>1, <2>1, <2>4
         DEF SubscribeReleased, SubscribeWaiting, SubscribeAcquired, Types
    <2>6. ASSUME NEW e \in Entries(mSubscribers')
          PROVE  \/ \E d \in Entries(mSubscribers) : d.ID = e.ID
                 \/ 1 \in Positions /\ msgs[1] = Msg("RequestSuplEs", e.ID)
      <3>1. e \in Entries(mSubscribers) \/ e = Entry(i, FALSE)
        BY <2>2 DEF AfterAdd
      <3>2. Entry(i, FALSE).ID = i
        BY DEF Entry
      <3> QED BY <2>4, <3>1, <3>2
    <2> QED BY <2>2, <2>3, <2>5, <2>6, SessionsKept
  <1>5. CASE \E i \in Ids : ReleaseAgnss(i) \/ ReleaseUnknown(i) \/ RequestAtl(i)
    <2>1. PICK i \in Ids : ReleaseAgnss(i) \/ ReleaseUnknown(i) \/ RequestAtl(i)
      BY <1>5
    <2>2. Popped
      BY <2>1, PassDoes
    <2>3. UNCHANGED <<wants, mSubscribers, handedOver>>
      BY <2>1 DEF ReleaseAgnss, ReleaseUnknown, RequestAtl, dsVars
    <2>4. wants[i] # "new"
      BY <1>3, <2>1 DEF ReleaseAgnss, ReleaseUnknown, RequestAtl
    <2>5. \A j \in Ids : told'[j] # told[j] => wants[j] # "new"
      BY <1>1, <2>1, <2>4 DEF ReleaseAgnss, ReleaseUnknown, RequestAtl, dsVars, Types
    <2> QED BY <2>2, <2>3, <2>5, SessionsKept
  <1>6. CASE \E i \in Ids : ReleaseDs(i)
    <2>1. PICK i \in Ids : ReleaseDs(i)
      BY <1>6
    <2>2. Popped
      BY <2>1, ReleaseDsDoes
    <2>3. UNCHANGED <<wants, handedOver>>
      BY <2>1 DEF ReleaseDs
    <2>4. wants[i] # "new"
      BY <1>3, <2>1 DEF ReleaseDs
    <2>5. \A j \in Ids : told'[j] # told[j] => wants[j] # "new"
      BY <1>1, <2>1, <2>4 DEF ReleaseDs, Types
    <2>6. ASSUME NEW e \in Entries(mSubscribers')
          PROVE  \E d \in Entries(mSubscribers) : d.ID = e.ID
      <3>1. CASE mState = "Released"
        BY <2>1, <3>1, ReleaseDsDoes
      <3>2. CASE mState # "Released"
        <4>1. PICK d \in Entries(mSubscribers) : e = IF d.ID = i THEN Entry(i, TRUE) ELSE d
          BY <2>1, <3>2, ReleaseDsDoes
        <4>2. Entry(i, TRUE).ID = i
          BY DEF Entry
        <4> QED BY <4>1, <4>2
      <3> QED BY <3>1, <3>2
    <2> QED BY <2>2, <2>3, <2>5, <2>6, SessionsKept
  <1>7. CASE OnOpened
    <2>1. Popped
      BY <1>7, OnOpenedDoes
    <2>2. UNCHANGED <<wants, mSubscribers, handedOver>>
      BY <1>7 DEF OnOpened
    <2>3. ASSUME NEW j \in Ids, told'[j] # told[j] PROVE wants[j] # "new"
      <3>1. j \in IdsOf(ActiveOf(mSubscribers))
        BY <1>7, <2>3 DEF OnOpened
      <3>2. \E e \in Entries(mSubscribers) : e.ID = j
        BY <1>1, <3>1, IdsOfEntries, ActiveEntries DEF Types
      <3> QED BY <1>1, <3>2 DEF Sessions
    <2> QED BY <2>1, <2>2, <2>3, SessionsKept
  <1>8. CASE OnClosed
    <2>1. UNCHANGED <<wants, told>>
      BY <1>8 DEF OnClosed, OnClosedPending, OnClosedAcquired, OnClosedReleasing
    <2>2. CASE OnClosedPending
      <3>1. /\ Popped /\ Entries(mSubscribers') = {}
            /\ handedOver' = handedOver \cup {e.ID : e \in Entries(mSubscribers)}
        BY <2>2, OnClosedPendingDoes
      <3> QED BY <2>1, <3>1, SessionsKept
    <2>3. CASE OnClosedAcquired
      <3>1. Popped /\ Entries(mSubscribers') = {} /\ UNCHANGED handedOver
        BY <2>3, OnClosedAcquiredDoes DEF OnClosedAcquired
      <3> QED BY <2>1, <3>1, SessionsKept
    <2>4. CASE OnClosedReleasing
      <3>1. /\ Popped
            /\ Entries(mSubscribers') \subseteq Entries(mSubscribers)
            /\ handedOver' \subseteq handedOver \cup {e.ID : e \in Entries(mSubscribers')}
        BY <2>4, OnClosedReleasingDoes
      <3> QED BY <2>1, <3>1, SessionsKept
    <2> QED BY <1>8, <2>2, <2>3, <2>4 DEF OnClosed
  <1>9. CASE RetryCallback
    <2>1. UNCHANGED <<wants, told, handedOver, mSubscribers>>
      BY <1>9 DEF RetryCallback
    <2>2. CASE UNCHANGED msgs
      BY <1>1, <2>1, <2>2 DEF Sessions, Positions
    <2>3. CASE \E e \in Entries(mSubscribers) : e.ID \in Ids /\ Sent(Msg("RequestSuplEs", e.ID))
      <3>1. PICK e \in Entries(mSubscribers) : Sent(Msg("RequestSuplEs", e.ID))
        BY <2>3
      <3>2. /\ Msg("RequestSuplEs", e.ID).kind # "ReleaseATL"
            /\ Msg("RequestSuplEs", e.ID).id = e.ID
        BY DEF Msg
      <3> QED BY <2>1, <3>1, <3>2, SessionsSent
    <2> QED BY <1>9, <2>2, <2>3, RetryCallbackDoes
  <1>10. CASE CallConnected \/ CallDisconnected
    <2>1. UNCHANGED <<wants, told, handedOver, mSubscribers>>
      BY <1>10 DEF CallConnected, CallDisconnected, dsVars
    <2>2. /\ Opened.kind = "Opened" /\ Opened.id = NULL
          /\ Closed.kind = "Closed" /\ Closed.id = NULL
      BY DEF Opened, Closed, Msg
    <2>3. PICK m \in {Opened, Closed} : Sent(m)
      BY <1>10, CallDoes
    <2>4. m.kind # "ReleaseATL" /\ m.id \notin Ids
      BY <2>2, <2>3, ConstantsAssumption
    <2> QED BY <2>1, <2>3, <2>4, SessionsSent
  <1>11. CASE \E i \in Ids : OpenSession(i) \/ CloseSession(i)
    BY <1>11, SessionsOpened, SessionsClosed
  <1>12. CASE AgnssStep
    BY <1>1, <1>12 DEF AgnssStep, dsVars, Sessions, Positions
  <1> QED BY <1>4, <1>5, <1>6, <1>7, <1>8, <1>9, <1>10, <1>11, <1>12 DEF Next

LEMMA TypesStep == ASSUME IInv, Next PROVE Types'
  <1>1. CASE AgnssStep
    BY <1>1 DEF AgnssStep, dsVars, IInv, Types
  <1>2. CASE ~AgnssStep
    BY <1>2, SubscribeReleasedDoes, SubscribeDoes, PassDoes, ReleaseDsDoes, OnOpenedDoes,
       OnClosedPendingDoes, OnClosedAcquiredDoes, OnClosedReleasingDoes, RetryCallbackDoes,
       CallDoes, ModemDoes DEF Next, OnClosed
  <1> QED BY <1>1, <1>2

LEMMA NextPreserves == IInv /\ [Next]_vars => IInv'
  <1>1. ASSUME IInv, Next PROVE IInv'
    BY <1>1, TypesStep, SubscribersToldStep, SessionsStep, EventsStep, CallOfStateStep
       DEF IInv
  <1>2. ASSUME IInv, UNCHANGED vars PROVE IInv'
    BY <1>2 DEF IInv, Types, SubscribersTold, Sessions, Events, CallOfState, Positions,
                vars, dsVars
  <1> QED BY <1>1, <1>2

LEMMA InitHolds == Init => IInv
  <1> SUFFICES ASSUME Init PROVE IInv
    OBVIOUS
  <1>1. Types /\ Positions = {} /\ Entries(mSubscribers) = {}
    BY ConstantsAssumption DEF Init, Types, States, CallStates, Positions, Entries
  <1> QED BY <1>1 DEF Init, IInv, SubscribersTold, Sessions, Events, CallOfState

----------------------------------------------------------------------------
(* Nobody is forgotten, and a released machine tries again: the properties, *)
(* in terms of entries and messages                                         *)

Waiting(u) == wants[u] = "asked" /\ told[u] = "none" /\ u \notin handedOver
Listed(u) == \E e \in Entries(mSubscribers) : e.ID = u /\ ~e.mIsInactive
InQueue(kind, u) == \E k \in Positions : msgs[k] = Msg(kind, u)

Remembered == \A u \in Ids : Waiting(u) => Listed(u) \/ InQueue("RequestSuplEs", u)

NoGhosts == \A i \in Ids : Listed(i) /\ wants[i] = "done" => InQueue("ReleaseATL", i)
Retried ==
    mState = "Released" /\ (\E u \in Ids : Waiting(u)) /\ NoGhosts =>
       timers > 0 \/ \E i \in Ids : InQueue("RequestSuplEs", i)

LEMMA ListedActive ==
    ASSUME Types
    PROVE  \A u \in Ids : u \in IdsOf(ActiveOf(mSubscribers)) <=> Listed(u)
  <1>1. mSubscribers \in Seq(Subscribers)
    BY DEF Types
  <1>2. IdsOf(ActiveOf(mSubscribers)) =
           {e.ID : e \in {d \in Entries(mSubscribers) : ~d.mIsInactive}}
    BY <1>1, IdsOfEntries, ActiveEntries
  <1> QED BY <1>2 DEF Listed

LEMMA QueuedInQueue ==
    ASSUME Types, NEW kind
    PROVE  \A u : u \in Queued(kind) <=> InQueue(kind, u)
  <1>1. ASSUME NEW k \in Positions, NEW u
        PROVE  msgs[k] = Msg(kind, u) <=> msgs[k].kind = kind /\ msgs[k].id = u
    <2>1. msgs[k] \in Messages
      BY DEF Types, Positions
    <2> QED BY <2>1 DEF Msg, Messages
  <1> QED BY <1>1 DEF Queued, InQueue, Positions

LEMMA WaitingUnanswered == Unanswered = {u \in Ids : Waiting(u)}
  BY DEF Unanswered, Waiting

LEMMA RememberedIs == ASSUME Types PROVE NotForgotten <=> Remembered
  BY ListedActive, QueuedInQueue, WaitingUnanswered DEF NotForgotten, Remembered

LEMMA RetriedIs == ASSUME Types PROVE Retried => RetryUnderWay
  <1> SUFFICES ASSUME Retried, mState = "Released", Unanswered # {}, Ghosts = {}
               PROVE  timers > 0 \/ Queued("RequestSuplEs") # {}
    BY DEF RetryUnderWay
  <1>1. \E u \in Ids : Waiting(u)
    BY WaitingUnanswered
  <1>2. ASSUME NEW i \in Ids, Listed(i), wants[i] = "done" PROVE InQueue("ReleaseATL", i)
    <2>1. i \in IdsOf(ActiveOf(mSubscribers))
      BY <1>2, ListedActive
    <2>2. i \in Queued("ReleaseATL")
      BY <1>2, <2>1 DEF Ghosts
    <2> QED BY <2>2, QueuedInQueue
  <1>3. timers > 0 \/ \E i \in Ids : InQueue("RequestSuplEs", i)
    BY <1>1, <1>2 DEF Retried, NoGhosts
  <1> QED BY <1>3, QueuedInQueue

(* A handled message leaves what is behind it, ...                          *)
LEMMA QueueKept ==
    ASSUME Types, Popped, NEW kind, NEW u, InQueue(kind, u)
    PROVE  InQueue(kind, u)' \/ (1 \in Positions /\ msgs[1] = Msg(kind, u))
  <1>1. PICK k \in Positions : msgs[k] = Msg(kind, u)
    BY DEF InQueue
  <1>2. CASE k = 1
    BY <1>1, <1>2
  <1>3. CASE k # 1
    BY <1>1, <1>3, StillQueued DEF InQueue
  <1> QED BY <1>2, <1>3

(* ... and brings no release.                                               *)
LEMMA QueueOld ==
    ASSUME Types, Popped, NEW u, InQueue("ReleaseATL", u)'
    PROVE  InQueue("ReleaseATL", u)
  <1>1. PICK k \in Positions' : msgs'[k] = Msg("ReleaseATL", u)
    BY DEF InQueue
  <1>2. msgs'[k].kind # "RequestATL"
    BY <1>1 DEF Msg
  <1>3. k + 1 \in Positions /\ msgs[k + 1] = Msg("ReleaseATL", u)
    BY <1>1, <1>2, LeftInQueue
  <1> QED BY <1>3 DEF InQueue

LEMMA QueueSent ==
    ASSUME NEW m, Sent(m), NEW kind, NEW u
    PROVE  /\ InQueue(kind, u) => InQueue(kind, u)'
           /\ InQueue(kind, u)' => InQueue(kind, u) \/ m = Msg(kind, u)
           /\ m = Msg(kind, u) => InQueue(kind, u)'
  BY DEF Sent, InQueue, Positions

(* A session that waits has waited, or has just been opened.                *)
LEMMA WaitingBefore ==
    ASSUME IInv, Next, NEW u \in Ids, Waiting(u)'
    PROVE  Waiting(u) \/ OpenSession(u)
  <1>1. Types /\ told \in [Ids -> {"none", "open", "closed"}]
    BY DEF IInv, Types
  <1>2. handedOver \subseteq handedOver' 
    <2>1. CASE \E i \in Ids : SubscribeReleased(i)
      BY <2>1, SubscribeReleasedDoes
    <2>2. CASE OnClosed
      BY <2>2, OnClosedPendingDoes, OnClosedReleasingDoes DEF OnClosed, OnClosedAcquired
    <2>3. CASE ~OnClosed /\ ~\E i \in Ids : SubscribeReleased(i)
      BY <2>3 DEF Next, SubscribeWaiting, SubscribeAcquired, ReleaseAgnss, ReleaseDs,
         ReleaseUnknown, RequestAtl, OpenSession, CloseSession, OnOpened, RetryCallback,
         CallConnected, CallDisconnected, AgnssStep, dsVars
    <2> QED BY <2>1, <2>2, <2>3
  <1>3. told'[u] = "none" => told[u] = "none"
    <2>1. CASE UNCHANGED told
      BY <2>1
    <2>2. CASE \E i \in Ids : SubscribeAcquired(i) \/ ReleaseDs(i) \/ ReleaseUnknown(i)
      BY <1>1, <2>2 DEF SubscribeAcquired, ReleaseDs, ReleaseUnknown
    <2>3. CASE OnOpened
      BY <2>3, OnOpenedDoes
    <2> QED BY <2>1, <2>2, <2>3 DEF Next, SubscribeReleased, SubscribeWaiting, ReleaseAgnss,
            RequestAtl, OpenSession, CloseSession, OnClosed, OnClosedPending,
            OnClosedAcquired, OnClosedReleasing, RetryCallback, CallConnected,
            CallDisconnected, AgnssStep, dsVars
  <1>4. wants'[u] = "asked" => wants[u] = "asked" \/ OpenSession(u)
    <2>1. CASE UNCHANGED wants
      BY <2>1
    <2>2. CASE \E i \in Ids : OpenSession(i) \/ CloseSession(i)
      <3>1. PICK i \in Ids : OpenSession(i) \/ CloseSession(i)
        BY <2>2
      <3>2. CASE u = i
        BY <1>1, <3>1, <3>2 DEF CloseSession, Types
      <3>3. CASE u # i
        BY <1>1, <3>1, <3>3 DEF OpenSession, CloseSession, Types
      <3> QED BY <3>2, <3>3
    <2> QED BY <2>1, <2>2 DEF Next, SubscribeReleased, SubscribeWaiting, SubscribeAcquired,
            ReleaseAgnss, ReleaseDs, ReleaseUnknown, RequestAtl, OnOpened, OnClosed,
            OnClosedPending, OnClosedAcquired, OnClosedReleasing, RetryCallback,
            CallConnected, CallDisconnected, AgnssStep
  <1> QED BY <1>2, <1>3, <1>4 DEF Waiting

LEMMA ListedKept ==
    ASSUME IInv, Next, NEW u \in Ids, Waiting(u)', Waiting(u), Listed(u)
    PROVE  Listed(u)'
  <1>1. Types /\ SubscribersTold
    BY DEF IInv
  <1>2. PICK e \in Entries(mSubscribers) : e.ID = u /\ ~e.mIsInactive
    BY DEF Listed
  <1>3. told'[u] = "none" /\ u \notin handedOver' /\ told[u] = "none"
    BY DEF Waiting
  <1>4. CASE \E i \in Ids : SubscribeReleased(i) \/ SubscribeWaiting(i) \/ SubscribeAcquired(i)
    <2>1. PICK i \in Ids : AfterAdd(i)
      BY <1>4, SubscribeReleasedDoes, SubscribeDoes
    <2>2. e \in Entries(mSubscribers')
      BY <2>1 DEF AfterAdd
    <2> QED BY <1>2, <2>2 DEF Listed
  <1>5. CASE \E i \in Ids : ReleaseDs(i)
    <2>1. PICK i \in Ids : ReleaseDs(i)
      BY <1>5
    <2>2. CASE mState = "Released"
      <3>1. UNCHANGED mSubscribers
        BY <2>1, <2>2, ReleaseDsDoes
      <3> QED BY <1>2, <3>1 DEF Listed
    <2>3. CASE mState # "Released"
      <3>1. told'[i] = "closed"
        BY <1>1, <2>1 DEF ReleaseDs, Types
      <3>2. e.ID # i
        BY <1>2, <1>3, <3>1
      <3>3. e \in Entries(mSubscribers')
        BY <2>1, <2>3, <3>2, ReleaseDsDoes
      <3> QED BY <1>2, <3>3 DEF Listed
    <2> QED BY <2>2, <2>3
  <1>6. CASE OnClosed
    <2>1. CASE OnClosedPending
      <3>1. handedOver' = handedOver \cup {d.ID : d \in Entries(mSubscribers)}
        BY <2>1, OnClosedPendingDoes
      <3> QED BY <1>2, <1>3, <3>1
    <2>2. CASE OnClosedAcquired
      BY <1>1, <1>2, <1>3, <2>2 DEF OnClosedAcquired, SubscribersTold
    <2>3. CASE OnClosedReleasing
      <3>1. Entries(mSubscribers') = {d \in Entries(mSubscribers) : ~d.mIsInactive}
        BY <2>3, OnClosedReleasingDoes
      <3>2. e \in Entries(mSubscribers')
        BY <1>2, <3>1
      <3> QED BY <1>2, <3>2 DEF Listed
    <2> QED BY <1>6, <2>1, <2>2, <2>3 DEF OnClosed
  <1>7. CASE UNCHANGED mSubscribers
    BY <1>2, <1>7 DEF Listed
  <1> QED BY <1>4, <1>5, <1>6, <1>7 DEF Next, ReleaseAgnss, ReleaseUnknown, RequestAtl,
          OpenSession, CloseSession, OnOpened, RetryCallback, CallConnected,
          CallDisconnected, AgnssStep, dsVars

(* What a step does to the queue: it takes the first message, or sends one, *)
(* or leaves it alone.                                                      *)
LEMMA QueueStep ==
    ASSUME IInv, Next
    PROVE  Popped \/ (\E m : Sent(m)) \/ UNCHANGED msgs
  BY SubscribeReleasedDoes, SubscribeDoes, PassDoes, ReleaseDsDoes, OnOpenedDoes,
     OnClosedPendingDoes, OnClosedAcquiredDoes, OnClosedReleasingDoes, RetryCallbackDoes,
     CallDoes, ModemDoes DEF Next, OnClosed, AgnssStep

(* A request is taken from the queue by the handler that lists its session. *)
LEMMA RequestTaken ==
    ASSUME IInv, Next, NEW u \in Ids, InQueue("RequestSuplEs", u), ~InQueue("RequestSuplEs", u)'
    PROVE  SubscribeReleased(u) \/ SubscribeWaiting(u) \/ SubscribeAcquired(u)
  <1>1. Types
    BY DEF IInv
  <1>2. ~\E m : Sent(m)
    BY QueueSent
  <1>3. msgs' # msgs
    <2> SUFFICES ASSUME msgs' = msgs PROVE FALSE
      OBVIOUS
    <2> QED BY DEF InQueue, Positions
  <1>4. Popped
    BY <1>2, <1>3, QueueStep
  <1>5. 1 \in Positions /\ msgs[1] = Msg("RequestSuplEs", u)
    BY <1>1, <1>4, QueueKept
  <1>6. ASSUME NEW kind, NEW i, Take(kind, i) PROVE kind = "RequestSuplEs" /\ i = u
    <2>1. msgs[1] = Msg(kind, i)
      BY <1>1, <1>6, MessageTaken
    <2>2. msgs[1].kind = kind /\ msgs[1].id = i
      BY <2>1 DEF Msg
    <2>3. msgs[1].kind = "RequestSuplEs" /\ msgs[1].id = u
      BY <1>5 DEF Msg
    <2> QED BY <2>2, <2>3
  <1>7. ASSUME NEW i \in Ids PROVE ~Take("ReleaseATL", i) /\ ~Take("RequestATL", i)
    BY <1>6
  <1>8. ~Take("Opened", NULL) /\ ~Take("Closed", NULL)
    BY <1>6
  <1>9. ~RetryCallback /\ ~CallConnected /\ ~CallDisconnected /\ ~AgnssStep
    <2>1. ~RetryCallback
      BY <1>2, <1>3, RetryCallbackDoes
    <2>2. ~CallConnected /\ ~CallDisconnected
      BY <1>2, CallDoes
    <2>3. ~AgnssStep
      BY <1>3 DEF AgnssStep
    <2> QED BY <2>1, <2>2, <2>3
  <1>10. \A i \in Ids : ~OpenSession(i) /\ ~CloseSession(i)
    BY <1>2, ModemDoes
  <1>11. PICK i \in Ids : SubscribeReleased(i) \/ SubscribeWaiting(i) \/ SubscribeAcquired(i)
    BY <1>7, <1>8, <1>9, <1>10 DEF Next, ReleaseAgnss, ReleaseDs, ReleaseUnknown,
       RequestAtl, OnOpened, OnClosed, OnClosedPending, OnClosedAcquired, OnClosedReleasing
  <1>12. i = u
    BY <1>6, <1>11 DEF SubscribeReleased, SubscribeWaiting, SubscribeAcquired
  <1> QED BY <1>11, <1>12

LEMMA RememberedStep ==
    ASSUME IInv, Remembered, Next
    PROVE  Remembered'
  <1>1. SUFFICES ASSUME NEW u \in Ids, Waiting(u)', ~InQueue("RequestSuplEs", u)'
                 PROVE  Listed(u)'
    BY DEF Remembered
  <1>2. CASE OpenSession(u)
    <2>1. Sent(Msg("RequestSuplEs", u))
      BY <1>2, ModemDoes
    <2> QED BY <1>1, <2>1, QueueSent
  <1>3. CASE Waiting(u) /\ Listed(u)
    BY <1>1, <1>3, ListedKept
  <1>4. CASE Waiting(u) /\ ~Listed(u)
    <2>1. InQueue("RequestSuplEs", u)
      BY <1>4 DEF Remembered
    <2>2. SubscribeReleased(u) \/ SubscribeWaiting(u) \/ SubscribeAcquired(u)
      BY <1>1, <2>1, RequestTaken
    <2>3. AfterAdd(u)
      BY <2>2, SubscribeReleasedDoes, SubscribeDoes
    <2>4. \A e \in Entries(mSubscribers) : e.ID # u
      <3>1. told[u] = "none" /\ SubscribersTold
        BY <1>4 DEF Waiting, IInv
      <3>2. ASSUME NEW e \in Entries(mSubscribers), e.ID = u PROVE FALSE
        <4>1. ~e.mIsInactive
          BY <3>1, <3>2 DEF SubscribersTold
        <4> QED BY <1>4, <3>2, <4>1 DEF Listed
      <3> QED BY <3>2
    <2>5. u \notin IdsOf(mSubscribers)
      BY <2>4, IdsOfEntries
    <2>6. Entry(u, FALSE) \in Entries(mSubscribers')
      BY <2>3, <2>5 DEF AfterAdd
    <2>7. Entry(u, FALSE).ID = u /\ ~Entry(u, FALSE).mIsInactive
      BY DEF Entry
    <2> QED BY <2>6, <2>7 DEF Listed
  <1> QED BY <1>1, <1>2, <1>3, <1>4, WaitingBefore

(* No ghost is made but by a release that is handled, or by a new list.     *)
LEMMA GhostsStay ==
    ASSUME IInv, Next, NoGhosts', UNCHANGED <<mSubscribers, wants>>
    PROVE  NoGhosts
  <1>1. Types
    BY DEF IInv
  <1>2. ASSUME NEW i \in Ids, InQueue("ReleaseATL", i)' PROVE InQueue("ReleaseATL", i)
    <2>1. CASE Popped
      BY <1>1, <1>2, <2>1, QueueOld
    <2>2. CASE UNCHANGED msgs
      BY <1>2, <2>2 DEF InQueue, Positions
    <2>3. CASE ~Popped /\ msgs' # msgs
      <3>1. ~\E j \in Ids : CloseSession(j)
        BY DEF CloseSession, Types, IInv
      <3>2. \/ \E j \in Ids : Sent(Msg("RequestSuplEs", j))
            \/ Sent(Opened) \/ Sent(Closed)
        BY <2>3, <3>1, SubscribeReleasedDoes, SubscribeDoes, PassDoes, ReleaseDsDoes,
           OnOpenedDoes, OnClosedPendingDoes, OnClosedAcquiredDoes, OnClosedReleasingDoes,
           RetryCallbackDoes, CallDoes, ModemDoes DEF Next, OnClosed, AgnssStep
      <3>3. PICK m : Sent(m) /\ m.kind # "ReleaseATL"
        <4>1. \A j : Msg("RequestSuplEs", j).kind # "ReleaseATL"
          BY DEF Msg
        <4>2. Opened.kind # "ReleaseATL" /\ Closed.kind # "ReleaseATL"
          BY DEF Msg, Opened, Closed
        <4> QED BY <3>2, <4>1, <4>2
      <3>4. m # Msg("ReleaseATL", i)
        BY <3>3 DEF Msg
      <3> QED BY <1>2, <3>3, <3>4, QueueSent
    <2> QED BY <2>1, <2>2, <2>3
  <1>3. ASSUME NEW i \in Ids, Listed(i) PROVE Listed(i)'
    BY <1>3 DEF Listed
  <1> QED BY <1>2, <1>3 DEF NoGhosts

LEMMA RetriedStep ==
    ASSUME IInv, Remembered, Retried, Next
    PROVE  Retried'
  <1>1. SUFFICES ASSUME mState' = "Released", NEW u \in Ids, Waiting(u)', NoGhosts',
                        ~\E i \in Ids : InQueue("RequestSuplEs", i)'
                 PROVE  timers' > 0
    BY DEF Retried
  <1>2. Listed(u)'
    BY <1>1, RememberedStep DEF Remembered
  <1>3. Types /\ Types' /\ Sessions' /\ wants'[u] = "asked" /\ u \notin handedOver'
    BY <1>1, TypesStep, SessionsStep DEF IInv, Waiting
  <1>4. CASE \E i \in Ids : SubscribeReleased(i)
    <2>1. PICK i \in Ids : SubscribeReleased(i)
      BY <1>4
    <2>2. \/ timers' > 0
          \/ \E d \in Entries(mSubscribers') : ~d.mIsInactive /\ d.ID \in handedOver'
      BY <1>1, <2>1, SubscribeReleasedDoes
    <2>3. ASSUME NEW d \in Entries(mSubscribers'), ~d.mIsInactive, d.ID \in handedOver'
          PROVE  FALSE
      <3>1. d.ID \in Ids
        BY <1>3, <2>3 DEF Types
      <3>2. wants'[d.ID] # "asked"
        BY <1>3, <2>3, <3>1 DEF Sessions
      <3>3. wants'[d.ID] # "new"
        BY <1>3, <2>3, <3>1 DEF Sessions
      <3>4. wants'[d.ID] = "done"
        BY <1>3, <3>1, <3>2, <3>3 DEF Types
      <3>5. Listed(d.ID)'
        BY <2>3 DEF Listed
      <3>6. InQueue("ReleaseATL", d.ID)'
        BY <1>1, <3>1, <3>4, <3>5 DEF NoGhosts
      <3>7. PICK k \in Positions' : msgs'[k] = Msg("ReleaseATL", d.ID)
        BY <3>6 DEF InQueue
      <3>8. msgs'[k].kind = "ReleaseATL"
        BY <3>7 DEF Msg
      <3>9. \A e \in Entries(mSubscribers') : e.ID # u
        BY <1>3, <3>8 DEF Sessions
      <3> QED BY <1>2, <3>9 DEF Listed
    <2> QED BY <2>2, <2>3
  <1>5. CASE OnClosed
    <2>1. Entries(mSubscribers') = {}
      BY <1>1, <1>5, OnClosedPendingDoes, OnClosedAcquiredDoes, OnClosedReleasingDoes
         DEF OnClosed
    <2> QED BY <1>2, <2>1 DEF Listed
  <1>6. CASE RetryCallback
    <2>1. \/ UNCHANGED msgs /\ \A e \in Entries(mSubscribers) : e.mIsInactive
          \/ \E i \in Ids : Sent(Msg("RequestSuplEs", i))
      BY <1>6, RetryCallbackDoes
    <2>2. CASE \A e \in Entries(mSubscribers) : e.mIsInactive
      <3>1. UNCHANGED mSubscribers
        BY <1>6 DEF RetryCallback
      <3> QED BY <1>2, <2>2, <3>1 DEF Listed
    <2>3. CASE \E i \in Ids : Sent(Msg("RequestSuplEs", i))
      BY <1>1, <2>3, QueueSent
    <2> QED BY <2>1, <2>2, <2>3
  <1>7. CASE \E i \in Ids : OpenSession(i) \/ CloseSession(i)
    <2>1. PICK i \in Ids : OpenSession(i) \/ CloseSession(i)
      BY <1>7
    <2>2. CASE OpenSession(i)
      <3>1. Sent(Msg("RequestSuplEs", i))
        BY <2>2, ModemDoes
      <3> QED BY <1>1, <3>1, QueueSent
    <2>3. CASE CloseSession(i)
      <3>1. \A j \in Ids : wants'[j] # "asked"
        BY <2>3 DEF CloseSession, IInv, Types, Sessions
      <3> QED BY <1>3, <3>1
    <2> QED BY <2>1, <2>2, <2>3
  <1>8. CASE ~OnClosed /\ ~RetryCallback
             /\ ~\E i \in Ids : SubscribeReleased(i) \/ OpenSession(i) \/ CloseSession(i)
    <2>1. mState = "Released" /\ UNCHANGED <<mSubscribers, wants, timers>>
      <3>1. CASE \E i \in Ids : SubscribeWaiting(i) \/ SubscribeAcquired(i)
        BY <1>1, <3>1 DEF SubscribeWaiting, SubscribeAcquired
      <3>2. CASE \E i \in Ids : ReleaseAgnss(i) \/ ReleaseUnknown(i) \/ RequestAtl(i)
        BY <1>1, <3>2 DEF ReleaseAgnss, ReleaseUnknown, RequestAtl, dsVars
      <3>3. CASE \E i \in Ids : ReleaseDs(i)
        BY <1>1, <3>3, ReleaseDsDoes DEF ReleaseDs
      <3>4. CASE OnOpened
        BY <1>1, <3>4 DEF OnOpened
      <3>5. CASE CallConnected \/ CallDisconnected \/ AgnssStep
        BY <1>1, <3>5 DEF CallConnected, CallDisconnected, AgnssStep, dsVars
      <3> QED BY <1>8, <3>1, <3>2, <3>3, <3>4, <3>5 DEF Next
    <2>2. NoGhosts
      BY <1>1, <2>1, GhostsStay
    <2>3. Waiting(u)
      BY <1>1, <1>8, WaitingBefore
    <2>4. ~\E i \in Ids : InQueue("RequestSuplEs", i)
      <3> SUFFICES ASSUME NEW i \in Ids, InQueue("RequestSuplEs", i) PROVE FALSE
        OBVIOUS
      <3>1. SubscribeWaiting(i) \/ SubscribeAcquired(i)
        BY <1>1, <1>8, RequestTaken
      <3> QED BY <2>1, <3>1 DEF SubscribeWaiting, SubscribeAcquired
    <2> QED BY <2>1, <2>2, <2>3, <2>4 DEF Retried
  <1> QED BY <1>4, <1>5, <1>6, <1>7, <1>8

----------------------------------------------------------------------------
(* agnss_nif, of which another module's theorems hold: its actions are taken*)
(* by the engine's handlers and by the framework                            *)

agnssProofs == INSTANCE AgpsStateMachineProofs WITH
    mState <- agState, mSubscribers <- agSubscribers, client <- agClient,
    kind <- "mobile", EngineRestarts <- FALSE

(* Both instances are the one machine.                                      *)
LEMMA SameIInv == agnss!IInv = agnssProofs!IInv
  BY DEF agnss!IInv, agnssProofs!IInv, agnss!TypeOK, agnssProofs!TypeOK,
     agnss!HeldUnlessRestarted, agnssProofs!HeldUnlessRestarted,
     agnss!HeldForSomebody, agnssProofs!HeldForSomebody,
     agnss!Held, agnssProofs!Held,
     agnss!ReleasedIsEmpty, agnssProofs!ReleasedIsEmpty,
     agnss!ClosersAreKept, agnssProofs!ClosersAreKept,
     agnss!ClientsMatchMachine, agnssProofs!ClientsMatchMachine,
     agnss!ActiveAreGranted, agnssProofs!ActiveAreGranted,
     agnss!SingleSubscriber, agnssProofs!SingleSubscriber,
     agnss!RequestOnItsWay, agnssProofs!RequestOnItsWay, agnss!Kinds,
     agnssProofs!Kinds, agnss!EnforceSingle, agnssProofs!EnforceSingle,
     agnss!WaitsForClose, agnssProofs!WaitsForClose, agnss!States,
     agnssProofs!States, agnss!Actions, agnssProofs!Actions, agnss!Events,
     agnssProofs!Events, agnss!Active, agnssProofs!Active, agnss!Inactive,
     agnssProofs!Inactive, agnss!Subscribed, agnssProofs!Subscribed,
     agnss!InQueue, agnssProofs!InQueue

LEMMA SameIInvNext == agnss!IInv' = agnssProofs!IInv'
  BY DEF agnss!IInv, agnssProofs!IInv, agnss!TypeOK, agnssProofs!TypeOK,
     agnss!HeldUnlessRestarted, agnssProofs!HeldUnlessRestarted,
     agnss!HeldForSomebody, agnssProofs!HeldForSomebody,
     agnss!Held, agnssProofs!Held,
     agnss!ReleasedIsEmpty, agnssProofs!ReleasedIsEmpty,
     agnss!ClosersAreKept, agnssProofs!ClosersAreKept,
     agnss!ClientsMatchMachine, agnssProofs!ClientsMatchMachine,
     agnss!ActiveAreGranted, agnssProofs!ActiveAreGranted,
     agnss!SingleSubscriber, agnssProofs!SingleSubscriber,
     agnss!RequestOnItsWay, agnssProofs!RequestOnItsWay, agnss!Kinds,
     agnssProofs!Kinds, agnss!EnforceSingle, agnssProofs!EnforceSingle,
     agnss!WaitsForClose, agnssProofs!WaitsForClose, agnss!States,
     agnssProofs!States, agnss!Actions, agnssProofs!Actions, agnss!Events,
     agnssProofs!Events, agnss!Active, agnssProofs!Active, agnss!Inactive,
     agnssProofs!Inactive, agnss!Subscribed, agnssProofs!Subscribed,
     agnss!InQueue, agnssProofs!InQueue

LEMMA SameVars == agnss!vars = agnssProofs!vars /\ agnss!vars' = agnssProofs!vars'
  BY DEF agnss!vars, agnssProofs!vars, agnss!machineVars, agnssProofs!machineVars

LEMMA SameNext == agnss!Next = agnssProofs!Next
  BY DEF agnss!Next, agnssProofs!Next, agnss!Subscribe, agnssProofs!Subscribe,
     agnss!SubscribeRefused, agnssProofs!SubscribeRefused,
     agnss!SubscribeReleased, agnssProofs!SubscribeReleased,
     agnss!SubscribeWaiting, agnssProofs!SubscribeWaiting,
     agnss!SubscribeAcquired, agnssProofs!SubscribeAcquired, agnss!MayJoin,
     agnssProofs!MayJoin, agnss!RoomForClients, agnssProofs!RoomForClients,
     agnss!AddSubscriber, agnssProofs!AddSubscriber, agnss!Tell,
     agnssProofs!Tell, agnss!Delete, agnssProofs!Delete,
     agnss!SendRsrcRequest, agnssProofs!SendRsrcRequest, agnss!Unsubscribe,
     agnssProofs!Unsubscribe, agnss!UnsubscribeHeld,
     agnssProofs!UnsubscribeHeld, agnss!UnsubscribeReleasing,
     agnssProofs!UnsubscribeReleasing, agnss!Leave, agnssProofs!Leave,
     agnss!OnRsrcEvent, agnssProofs!OnRsrcEvent, agnss!OnGranted,
     agnssProofs!OnGranted, agnss!OnTakenAway, agnssProofs!OnTakenAway,
     agnss!OnClosed, agnssProofs!OnClosed, agnss!OnIgnored,
     agnssProofs!OnIgnored, agnss!Receive, agnssProofs!Receive,
     agnss!EngineUp, agnssProofs!EngineUp, agnss!Afw, agnssProofs!Afw,
     agnss!AfwRequest, agnssProofs!AfwRequest, agnss!AfwOpened,
     agnssProofs!AfwOpened, agnss!AfwRelease, agnssProofs!AfwRelease,
     agnss!AfwLost, agnssProofs!AfwLost, agnss!Report, agnssProofs!Report,
     agnss!EnforceSingle, agnssProofs!EnforceSingle, agnss!WaitsForClose,
     agnssProofs!WaitsForClose, agnss!Events, agnssProofs!Events,
     agnss!Active, agnssProofs!Active, agnss!Inactive,
     agnssProofs!Inactive, agnss!Subscribed, agnssProofs!Subscribed,
     agnss!machineVars, agnssProofs!machineVars

LEMMA AgnssPreserves == agnss!IInv /\ (agnss!Next \/ UNCHANGED agnss!vars) => agnss!IInv'
  <1>1. agnssProofs!IInv /\ [agnssProofs!Next]_(agnssProofs!vars) => agnssProofs!IInv'
    BY agnssProofs!NextPreserves, ConstantsAssumption DEF agnssProofs!ConstantsAssumption
  <1> QED BY <1>1, SameIInv, SameIInvNext, SameVars, SameNext

LEMMA AgnssStarts == Init => agnss!IInv
  BY ConstantsAssumption DEF Init, agnss!Init, agnss!IInv, agnss!TypeOK,
     agnss!HeldUnlessRestarted, agnss!HeldForSomebody, agnss!Held,
     agnss!ReleasedIsEmpty, agnss!ClosersAreKept,
     agnss!ClientsMatchMachine, agnss!ActiveAreGranted, agnss!SingleSubscriber,
     agnss!RequestOnItsWay, agnss!Kinds, agnss!EnforceSingle, agnss!WaitsForClose,
     agnss!States, agnss!Actions, agnss!Events, agnss!Active, agnss!Inactive,
     agnss!Subscribed, agnss!InQueue

(* Every step is a step of agnss_nif, or leaves it alone.                   *)
LEMMA AgnssSteps == Next => agnss!Next \/ UNCHANGED agnss!vars
  <1>1. UNCHANGED agnssVars => UNCHANGED agnss!vars
    BY DEF agnssVars, agnss!vars, agnss!machineVars
  <1>2. ASSUME NEW i \in Ids, ReleaseAgnss(i) \/ RequestAtl(i) PROVE agnss!Next
    BY <1>2 DEF ReleaseAgnss, RequestAtl, agnss!Next
  <1>3. AgnssStep => agnss!Next
    BY DEF AgnssStep, agnss!Next
  <1> QED BY <1>1, <1>2, <1>3 DEF Next, SubscribeReleased, SubscribeWaiting,
          SubscribeAcquired, ReleaseDs, ReleaseUnknown, OpenSession, CloseSession,
          OnOpened, OnClosed, OnClosedPending, OnClosedAcquired, OnClosedReleasing,
          RetryCallback, CallConnected, CallDisconnected

LEMMA AgnssNextPreserves == agnss!IInv /\ [Next]_vars => agnss!IInv'
  <1>1. UNCHANGED vars => UNCHANGED agnss!vars
    BY DEF vars, agnssVars, agnss!vars, agnss!machineVars
  <1> QED BY <1>1, AgnssSteps, AgnssPreserves

----------------------------------------------------------------------------
(* What holds of every run                                                  *)

Inv == IInv /\ Remembered /\ Retried

LEMMA Induction == Spec => []Inv
  <1>1. Init => Inv
    <2>1. Init => IInv
      BY InitHolds
    <2>2. ASSUME Init PROVE \A u \in Ids : ~Waiting(u)
      BY <2>2 DEF Init, Waiting
    <2> QED BY <2>1, <2>2 DEF Inv, Remembered, Retried
  <1>2. Inv /\ [Next]_vars => Inv'
    <2>1. ASSUME Inv, Next PROVE Inv'
      BY <2>1, NextPreserves, RememberedStep, RetriedStep DEF Inv
    <2>2. ASSUME Inv, UNCHANGED vars PROVE Inv'
      <3>1. UNCHANGED <<mState, mSubscribers, timers, told, handedOver, wants, msgs>>
        BY <2>2 DEF vars, dsVars
      <3>2. IInv'
        BY <2>2, NextPreserves DEF Inv
      <3>3. (\A u : Waiting(u)' = Waiting(u)) /\ (\A u : Listed(u)' = Listed(u))
        BY <3>1 DEF Waiting, Listed
      <3>4. \A kind, u : InQueue(kind, u)' = InQueue(kind, u)
        BY <3>1 DEF InQueue, Positions
      <3>5. Remembered'
        BY <2>2, <3>1, <3>3, <3>4 DEF Inv, Remembered
      <3>6. NoGhosts' => NoGhosts
        BY <3>1, <3>3, <3>4 DEF NoGhosts
      <3>7. Retried'
        BY <2>2, <3>1, <3>3, <3>4, <3>6 DEF Inv, Retried
      <3> QED BY <3>2, <3>5, <3>7 DEF Inv
    <2> QED BY <2>1, <2>2
  <1> QED BY <1>1, <1>2, PTL DEF Spec

(* One call at a time, whatever the modem, the data service and the timers  *)
(* do, and in whatever order the message thread hears of it: the events of  *)
(* an earlier call are handled before the machine is released, at most one  *)
(* of each kind is queued, and the call is in a state the machine's allows. *)
THEOREM Invariance == Spec => []IInv
  <1>1. Inv => IInv
    BY DEF Inv
  <1> QED BY <1>1, Induction, PTL

(* agnss_nif keeps its own invariant as a part of the engine, where its     *)
(* subscribers are the sessions that are passed on to it.                   *)
THEOREM AgnssInvariance == Spec => []agnss!IInv
  BY AgnssStarts, AgnssNextPreserves, PTL DEF Spec

(* The variables of both machines and the queue stay in their types, the    *)
(* retries within MAX_START_DATA_CALL_RETRIES.                              *)
THEOREM TypeCorrect == Spec => []TypeOK
  <1>1. IInv /\ agnss!IInv => TypeOK
    BY TypesSuffice DEF IInv, agnss!IInv
  <1> QED BY <1>1, Invariance, AgnssInvariance, PTL

(* A session that was asked for and has heard nothing is an active          *)
(* subscriber, has been passed on to agnss_nif, or its request is queued:   *)
(* for any number of sessions, retries, and messages under way.             *)
THEOREM NobodyForgotten == Spec => []NotForgotten
  <1>1. Inv => NotForgotten
    BY RememberedIs DEF Inv, IInv
  <1> QED BY <1>1, Induction, PTL

(* A released machine with such a session has a retry timer or a request    *)
(* under way, unless a session that is closed is still an active subscriber.*)
THEOREM RetryDue == Spec => []RetryUnderWay
  <1>1. Inv => RetryUnderWay
    BY RetriedIs DEF Inv, IInv
  <1> QED BY <1>1, Induction, PTL

(* An acquired machine has its call or has yet to hear that it ended.       *)
THEOREM CallHeld == Spec => []AcquiredHasCall
  <1>1. ASSUME IInv PROVE AcquiredHasCall
    <2>1. Types /\ CallOfState
      BY <1>1 DEF IInv
    <2>2. ASSUME NEW k \in Positions, msgs[k] = Closed PROVE NULL \in Queued("Closed")
      BY <2>1, <2>2, QueuedInQueue DEF InQueue, Closed
    <2> QED BY <2>1, <2>2 DEF CallOfState, AcquiredHasCall
  <1> QED BY <1>1, Invariance, PTL
=============================================================================
