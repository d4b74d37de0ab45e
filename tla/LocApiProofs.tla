---------------------------- MODULE LocApiProofs ----------------------------
(* Proofs about LocApi, for any adapters, masks, events and bounds: types,  *)
(* the adapters' array, silence out of sessions, and that what is wanted is *)
(* registered.                                                              *)
EXTENDS LocApi, TLAPS

----------------------------------------------------------------------------
(* The array of adapters                                                    *)

(* Up to the first free slot are adapters there are, each once; after it    *)
(* nothing.  One slot, when it is not 0, is a hole.                         *)
Tidy(slots, there, hole) ==
    \A i \in Slots :
        /\ slots[i] # NULL =>
              /\ slots[i] \in there
              /\ \A k \in 1 .. i - 1 :
                    /\ slots[k] # slots[i]
                    /\ k # hole => slots[k] # NULL
        /\ i = hole => slots[i] = NULL

Absent(a, slots) == \A i \in Slots : slots[i] # a

Last(slots, slot, i) ==
    /\ i \in slot .. MAX_ADAPTERS
    /\ \A k \in slot + 1 .. i : slots[k] # NULL
    /\ i < MAX_ADAPTERS => slots[i + 1] = NULL

(* What the only adapter at work relies on, before each of its steps.       *)
Stage(a, work, slots, there) ==
    /\ a \in there
    /\ work.step = "FILL" =>
          /\ Tidy(slots, there, 0) /\ Absent(a, slots)
          /\ slots[work.slot] = NULL
          /\ \A k \in 1 .. work.slot - 1 : slots[k] # NULL
    /\ work.step = "EMPTY" =>
          Tidy(slots, there, 0) /\ slots[work.slot] = a
    /\ work.step \in {"FIND", "MOVE"} =>
          Absent(a, slots) /\ Tidy(slots, there, work.slot)
    /\ work.step = "MOVE" => Last(slots, work.slot, work.last)
    /\ work.step = "CLEAR" =>
          LET after == [slots EXCEPT ![work.last] = NULL]
          IN  Absent(a, after) /\ Tidy(after, there, 0)

ArrayTypes ==
    /\ constructed \in SUBSET Adapters
    /\ mLocAdapters \in [Slots -> Adapters \cup {NULL}]
    /\ working \in [Adapters -> Works]
    /\ raced \in BOOLEAN

AloneInv ==
    \/ AtWork = {} /\ Tidy(mLocAdapters, constructed, 0)
    \/ \E a \in Adapters :
          /\ AtWork = {a}
          /\ Stage(a, working[a], mLocAdapters, constructed)

ArrayInv == ArrayTypes /\ (raced \/ AloneInv)

LEMMA WorkFields ==
    ASSUME NEW work \in Works, work # NOTHING
    PROVE  /\ work.step \in {"FILL", "EMPTY", "FIND", "MOVE", "CLEAR"}
           /\ work.slot \in Slots /\ work.last \in Slots
           /\ work = Work(work.step, work.slot, work.last)
  BY DEF Works, Work, NOTHING

LEMMA WorkIsWork ==
    ASSUME NEW step \in {"FILL", "EMPTY", "FIND", "MOVE", "CLEAR"},
           NEW slot \in Slots, NEW last \in Slots
    PROVE  /\ Work(step, slot, last) \in Works
           /\ Work(step, slot, last) # NOTHING
           /\ Work(step, slot, last).step = step
           /\ Work(step, slot, last).slot = slot
           /\ Work(step, slot, last).last = last
  BY DEF Works, Work, NOTHING

(* One adapter turns to something else.                                     *)
LEMMA WorkChanges ==
    ASSUME ArrayTypes, NEW a \in Adapters, NEW work \in Works, WorkOn(a, work)
    PROVE  /\ working' \in [Adapters -> Works]
           /\ working'[a] = work
           /\ AtWork \subseteq {a} =>
                 AtWork' = IF work = NOTHING THEN {} ELSE {a}
  <1>1. working' \in [Adapters -> Works] /\ working'[a] = work
    BY DEF ArrayTypes, WorkOn
  <1>2. \A b \in Adapters : b # a => working'[b] = working[b]
    BY DEF ArrayTypes, WorkOn
  <1>3. ASSUME AtWork \subseteq {a}
        PROVE  AtWork' = IF work = NOTHING THEN {} ELSE {a}
    BY <1>1, <1>2, <1>3 DEF AtWork
  <1> QED BY <1>1, <1>3

LEMMA NothingIsWork == NOTHING \in Works
  BY DEF Works

LEMMA StepOfNothing == NOTHING.step = "NOTHING"
  BY DEF NOTHING

(* Who is at work is alone, unless two have been.                           *)
LEMMA Alone ==
    ASSUME ArrayInv, ~raced, NEW a \in AtWork
    PROVE  /\ AtWork = {a}
           /\ Stage(a, working[a], mLocAdapters, constructed)
  <1>1. AloneInv /\ AtWork # {}
    BY DEF ArrayInv
  <1>2. PICK b \in Adapters : /\ AtWork = {b}
                              /\ Stage(b, working[b], mLocAdapters, constructed)
    BY <1>1 DEF AloneInv
  <1>3. a = b
    BY <1>2
  <1> QED BY <1>2, <1>3

LEMMA TidyWithout ==
    ASSUME NEW slots \in [Slots -> Adapters \cup {NULL}], NEW there \in SUBSET Adapters,
           NEW a \in Adapters, Tidy(slots, there, 0), Absent(a, slots)
    PROVE  Tidy(slots, there \ {a}, 0)
  BY DEF Tidy, Absent

LEMMA TidyWith ==
    ASSUME NEW slots \in [Slots -> Adapters \cup {NULL}], NEW there \in SUBSET Adapters,
           NEW a \in Adapters, Tidy(slots, there, 0)
    PROVE  /\ Tidy(slots, there \cup {a}, 0)
           /\ a \notin there => Absent(a, slots)
  BY ConstantsAssumption DEF Tidy, Absent

LEMMA InitArray == Init => ArrayInv
  <1> SUFFICES ASSUME Init PROVE ArrayInv
    OBVIOUS
  <1> USE ConstantsAssumption
  <1> DEFINE n == Len(Early)
  <1>1. n \in Nat /\ n \in 1 .. MAX_ADAPTERS /\ \A i \in 1 .. n : Early[i] \in Adapters
    OBVIOUS
  <1>2. ArrayTypes
    <2>1. constructed \in SUBSET Adapters
      BY <1>1 DEF Init
    <2>2. mLocAdapters \in [Slots -> Adapters \cup {NULL}]
      BY <1>1 DEF Init, Slots
    <2>3. working \in [Adapters -> Works] /\ raced \in BOOLEAN
      BY NothingIsWork DEF Init
    <2> QED BY <2>1, <2>2, <2>3 DEF ArrayTypes
  <1>3. \A i \in Slots : mLocAdapters[i] = IF i <= n THEN Early[i] ELSE NULL
    BY DEF Init
  <1>4. constructed = {Early[i] : i \in 1 .. n} /\ AtWork = {}
    BY DEF Init, AtWork
  <1>5. Tidy(mLocAdapters, constructed, 0)
    <2> SUFFICES ASSUME NEW i \in Slots
                 PROVE  /\ mLocAdapters[i] # NULL =>
                              /\ mLocAdapters[i] \in constructed
                              /\ \A k \in 1 .. i - 1 :
                                    /\ mLocAdapters[k] # mLocAdapters[i]
                                    /\ mLocAdapters[k] # NULL
      BY DEF Tidy, Slots
    <2> HIDE DEF n
    <2>1. CASE i <= n
      <3>1. i \in 1 .. n /\ mLocAdapters[i] = Early[i]
        BY <1>1, <1>3, <2>1 DEF Slots
      <3>2. ASSUME NEW k \in 1 .. i - 1
            PROVE  /\ mLocAdapters[k] # mLocAdapters[i]
                   /\ mLocAdapters[k] # NULL
        <4>1. k \in Slots /\ k \in 1 .. n /\ k # i
          BY <3>1, <1>1 DEF Slots
        <4>2. mLocAdapters[k] = Early[k]
          BY <1>3, <4>1, <1>1
        <4> QED BY <3>1, <4>1, <4>2, <1>1 DEF n
      <3> QED BY <3>1, <3>2, <1>4 DEF Slots
    <2>2. CASE ~(i <= n)
      BY <1>3, <2>2
    <2> QED BY <2>1, <2>2
  <1> QED BY <1>2, <1>4, <1>5 DEF ArrayInv, AloneInv

LEMMA AddKeepsArray ==
    ASSUME ArrayInv, NEW a \in Adapters, AddAdapter(a)
    PROVE  ArrayInv'
  <1> DEFINE there == constructed \cup {a}
  <1>0. /\ a \notin constructed /\ constructed' = there
        /\ mLocAdapters' = mLocAdapters
        /\ raced' = (raced \/ AtWork # {}) /\ ArrayTypes
    BY DEF AddAdapter, Begin, ArrayInv
  <1>1. constructed' \in SUBSET Adapters /\ raced' \in BOOLEAN
    BY <1>0 DEF ArrayTypes
  <1>2. ASSUME ~raced'
        PROVE  /\ AtWork = {} /\ Absent(a, mLocAdapters)
               /\ Tidy(mLocAdapters, constructed, 0) /\ Tidy(mLocAdapters, there, 0)
    <2>1. AtWork = {} /\ Tidy(mLocAdapters, constructed, 0)
      BY <1>0, <1>2 DEF ArrayInv, AloneInv
    <2> QED BY <1>0, <2>1, TidyWith DEF ArrayTypes
  <1>3. CASE UNCHANGED working
    <2>1. AtWork' = AtWork
      BY <1>3 DEF AtWork
    <2> QED BY <1>0, <1>1, <1>2, <1>3, <2>1 DEF ArrayInv, ArrayTypes, AloneInv
  <1>4. ASSUME NEW i \in Slots, FirstFree(a, i), WorkOn(a, Work("FILL", i, i))
        PROVE  ArrayInv'
    <2> DEFINE work == Work("FILL", i, i)
    <2>1. work \in Works /\ work # NOTHING /\ work.step = "FILL" /\ work.slot = i
      BY WorkIsWork
    <2> HIDE DEF work
    <2>2. /\ working' \in [Adapters -> Works] /\ working'[a] = work
          /\ AtWork \subseteq {a} => AtWork' = {a}
      BY <1>0, <1>4, <2>1, WorkChanges DEF work
    <2>3. ASSUME ~raced'
          PROVE  Stage(a, work, mLocAdapters, there)
      BY <1>2, <1>4, <2>1, <2>3 DEF Stage, FirstFree
    <2>4. ~raced' => AloneInv'
      BY <1>0, <1>2, <2>2, <2>3 DEF AloneInv
    <2> QED BY <1>0, <1>1, <2>2, <2>4 DEF ArrayInv, ArrayTypes
  <1> QED BY <1>3, <1>4 DEF AddAdapter

(* The end of a destructor.                                                 *)
LEMMA DestroyedKeepsArray ==
    ASSUME ArrayTypes, NEW a \in Adapters, Destroyed(a, mLocAdapters'),
           mLocAdapters' \in [Slots -> Adapters \cup {NULL}], raced' \in BOOLEAN,
           raced' \/ /\ AtWork \subseteq {a} /\ Absent(a, mLocAdapters')
                     /\ Tidy(mLocAdapters', constructed, 0)
    PROVE  ArrayInv'
  <1>1. constructed' = constructed \ {a} /\ WorkOn(a, NOTHING)
    BY DEF Destroyed
  <1>2. /\ working' \in [Adapters -> Works]
        /\ AtWork \subseteq {a} => AtWork' = {}
    BY <1>1, NothingIsWork, WorkChanges
  <1>3. raced' \/ Tidy(mLocAdapters', constructed', 0)
    BY <1>1, TidyWithout DEF ArrayTypes
  <1> QED BY <1>1, <1>2, <1>3 DEF ArrayInv, ArrayTypes, AloneInv

(* In a tidy array the search finds who is listed.                          *)
LEMMA NotFound ==
    ASSUME NEW slots, NEW there, Tidy(slots, there, 0), NEW a \in Adapters,
           ~ \E i \in Slots : Found(a, slots, 1, i)
    PROVE  Absent(a, slots)
  <1> SUFFICES ASSUME NEW i \in Slots, slots[i] = a
               PROVE  FALSE
    BY DEF Absent
  <1>1. a # NULL /\ i \in 1 .. MAX_ADAPTERS /\ 1 .. i - 1 \subseteq Slots
    BY ConstantsAssumption DEF Slots
  <1>2. \A k \in 1 .. i - 1 : slots[k] # a /\ slots[k] # NULL
    BY <1>1 DEF Tidy, Slots
  <1> QED BY <1>1, <1>2 DEF Found

LEMMA RemoveKeepsArray ==
    ASSUME ArrayInv, NEW a \in Adapters, RemoveAdapter(a)
    PROVE  ArrayInv'
  <1>0. /\ a \in constructed /\ mLocAdapters' = mLocAdapters
        /\ raced' = (raced \/ AtWork # {}) /\ ArrayTypes
    BY DEF RemoveAdapter, Begin, ArrayInv
  <1>1. /\ mLocAdapters' \in [Slots -> Adapters \cup {NULL}]
        /\ raced' \in BOOLEAN
    BY <1>0 DEF ArrayTypes
  <1>2. ~raced' => AtWork = {} /\ Tidy(mLocAdapters, constructed, 0)
    BY <1>0 DEF ArrayInv, AloneInv
  <1>3. ASSUME NEW i \in Slots, Found(a, mLocAdapters, 1, i),
               WorkOn(a, Work("EMPTY", i, i)), UNCHANGED constructed
        PROVE  ArrayInv'
    <2> DEFINE work == Work("EMPTY", i, i)
    <2>1. work \in Works /\ work # NOTHING /\ work.step = "EMPTY" /\ work.slot = i
      BY WorkIsWork
    <2> HIDE DEF work
    <2>2. /\ working' \in [Adapters -> Works] /\ working'[a] = work
          /\ AtWork \subseteq {a} => AtWork' = {a}
      BY <1>0, <1>3, <2>1, WorkChanges DEF work
    <2>3. ~raced' => Stage(a, work, mLocAdapters, constructed)
      BY <1>0, <1>2, <1>3, <2>1 DEF Stage, Found
    <2>4. ~raced' => AloneInv'
      BY <1>0, <1>2, <1>3, <2>2, <2>3 DEF AloneInv
    <2> QED BY <1>0, <1>1, <1>3, <2>2, <2>4 DEF ArrayInv, ArrayTypes
  <1>4. ASSUME ~ \E i \in Slots : Found(a, mLocAdapters, 1, i),
               Destroyed(a, mLocAdapters)
        PROVE  ArrayInv'
    <2>1. raced' \/ Absent(a, mLocAdapters)
      BY <1>2, <1>4, NotFound
    <2> QED BY <1>0, <1>1, <1>2, <1>4, <2>1, DestroyedKeepsArray
  <1> QED BY <1>3, <1>4 DEF RemoveAdapter

(* What a step of an adapter at work starts from.                           *)
LEMMA WorkingStage ==
    ASSUME ArrayInv, NEW a \in Adapters, NEW step, step # "NOTHING", Working(a, step)
    PROVE  /\ ArrayTypes /\ raced' = raced /\ raced' \in BOOLEAN
           /\ working[a] \in Works /\ working[a] # NOTHING
           /\ working[a].step = step
           /\ working[a].slot \in Slots /\ working[a].last \in Slots
           /\ ~raced => /\ AtWork \subseteq {a}
                        /\ Stage(a, working[a], mLocAdapters, constructed)
  <1>1. ArrayTypes /\ raced' = raced /\ working[a].step = step
    BY DEF ArrayInv, Working
  <1>2. working[a] \in Works /\ working[a] # NOTHING /\ raced' \in BOOLEAN
    BY <1>1, StepOfNothing DEF ArrayTypes
  <1>3. a \in AtWork
    BY <1>2 DEF AtWork
  <1>4. ~raced => /\ AtWork \subseteq {a}
                  /\ Stage(a, working[a], mLocAdapters, constructed)
    BY <1>3, Alone
  <1>5. working[a].slot \in Slots /\ working[a].last \in Slots
    BY <1>2, WorkFields
  <1> QED BY <1>1, <1>2, <1>4, <1>5

(* It ends at another step, or is done.                                     *)
LEMMA WorkingEnds ==
    ASSUME ArrayTypes, NEW a \in Adapters, NEW work \in Works, WorkOn(a, work),
           mLocAdapters' \in [Slots -> Adapters \cup {NULL}],
           UNCHANGED constructed, raced' \in BOOLEAN,
           raced' \/ AtWork \subseteq {a},
           raced' \/ IF work = NOTHING THEN Tidy(mLocAdapters', constructed, 0)
                     ELSE Stage(a, work, mLocAdapters', constructed)
    PROVE  ArrayInv'
  <1>1. /\ working' \in [Adapters -> Works] /\ working'[a] = work
        /\ AtWork \subseteq {a} => AtWork' = IF work = NOTHING THEN {} ELSE {a}
    BY WorkChanges
  <1>2. raced' \/ AloneInv'
    BY <1>1 DEF AloneInv
  <1> QED BY <1>1, <1>2 DEF ArrayInv, ArrayTypes

LEMMA FillKeepsArray ==
    ASSUME ArrayInv, NEW a \in Adapters, Fill(a)
    PROVE  ArrayInv'
  <1> DEFINE i == working[a].slot
             slots == mLocAdapters
  <1>1. /\ ArrayTypes /\ raced' = raced /\ raced' \in BOOLEAN
        /\ i \in Slots /\ working[a].step = "FILL"
        /\ ~raced => /\ AtWork \subseteq {a}
                     /\ Stage(a, working[a], slots, constructed)
    BY WorkingStage DEF Fill
  <1>2. /\ mLocAdapters' = [slots EXCEPT ![i] = a]
        /\ WorkOn(a, NOTHING) /\ UNCHANGED constructed
    BY DEF Fill
  <1>3. /\ slots \in [Slots -> Adapters \cup {NULL}]
        /\ mLocAdapters' \in [Slots -> Adapters \cup {NULL}]
    BY <1>1, <1>2 DEF ArrayTypes
  <1>4. ASSUME ~raced
        PROVE  Tidy(mLocAdapters', constructed, 0)
    <2>1. /\ Tidy(slots, constructed, 0) /\ Absent(a, slots) /\ a \in constructed
          /\ slots[i] = NULL /\ \A k \in 1 .. i - 1 : slots[k] # NULL
      BY <1>1, <1>4 DEF Stage
    <2> HIDE DEF i, slots
    <2>2. \A k \in Slots : mLocAdapters'[k] = IF k = i THEN a ELSE slots[k]
      BY <1>2, <1>3
    <2>3. ASSUME NEW j \in Slots, slots[j] # NULL
          PROVE  j < i
      BY <1>1, <2>1, <2>3 DEF Tidy, Slots
    <2> SUFFICES ASSUME NEW j \in Slots, mLocAdapters'[j] # NULL
                 PROVE  /\ mLocAdapters'[j] \in constructed
                        /\ \A k \in 1 .. j - 1 :
                              /\ mLocAdapters'[k] # mLocAdapters'[j]
                              /\ mLocAdapters'[k] # NULL
      BY DEF Tidy, Slots
    <2>4. CASE j = i
      BY <1>1, <2>1, <2>2, <2>4, ConstantsAssumption DEF Absent, Slots
    <2>5. CASE j # i
      <3>1. j < i /\ mLocAdapters'[j] = slots[j]
        BY <2>2, <2>3, <2>5
      <3>2. \A k \in 1 .. j - 1 : mLocAdapters'[k] = slots[k]
        BY <1>1, <2>2, <3>1, ConstantsAssumption DEF Slots
      <3> QED BY <2>1, <3>1, <3>2 DEF Tidy, Slots
    <2> QED BY <2>4, <2>5
  <1> QED BY <1>1, <1>2, <1>3, <1>4, NothingIsWork, WorkingEnds

LEMMA EmptyKeepsArray ==
    ASSUME ArrayInv, NEW a \in Adapters, Empty(a)
    PROVE  ArrayInv'
  <1> DEFINE i == working[a].slot
             work == Work("FIND", i, working[a].last)
             slots == mLocAdapters
  <1>1. /\ ArrayTypes /\ raced' = raced /\ raced' \in BOOLEAN
        /\ i \in Slots /\ working[a].last \in Slots /\ working[a].step = "EMPTY"
        /\ working[a] \in Works /\ working[a] # NOTHING
        /\ ~raced => /\ AtWork \subseteq {a}
                     /\ Stage(a, working[a], slots, constructed)
    BY WorkingStage DEF Empty
  <1>2. /\ mLocAdapters' = [slots EXCEPT ![i] = NULL]
        /\ WorkOn(a, work) /\ UNCHANGED constructed
    <2>1. [working[a] EXCEPT !.step = "FIND"] = work
      BY <1>1, WorkFields DEF Work
    <2> QED BY <2>1 DEF Empty
  <1>3. /\ slots \in [Slots -> Adapters \cup {NULL}]
        /\ mLocAdapters' \in [Slots -> Adapters \cup {NULL}]
    BY <1>1, <1>2 DEF ArrayTypes
  <1>4. work \in Works /\ work # NOTHING /\ work.step = "FIND" /\ work.slot = i
    BY <1>1, WorkIsWork
  <1>5. ASSUME ~raced
        PROVE  Stage(a, work, mLocAdapters', constructed)
    <2>1. Tidy(slots, constructed, 0) /\ slots[i] = a /\ a \in constructed
      BY <1>1, <1>5 DEF Stage
    <2> HIDE DEF i, slots, work
    <2>2. \A k \in Slots : mLocAdapters'[k] = IF k = i THEN NULL ELSE slots[k]
      BY <1>2, <1>3
    <2>3. \A j \in Slots : j # i => slots[j] # a
      BY <1>1, <2>1, ConstantsAssumption DEF Tidy, Slots
    <2>4. Absent(a, mLocAdapters')
      BY <2>2, <2>3, ConstantsAssumption DEF Absent
    <2>5. Tidy(mLocAdapters', constructed, i)
      BY <1>1, <2>1, <2>2, ConstantsAssumption DEF Tidy, Slots
    <2> QED BY <1>4, <2>1, <2>4, <2>5 DEF Stage
  <1> HIDE DEF i, slots, work
  <1> QED BY <1>1, <1>2, <1>3, <1>4, <1>5, WorkingEnds

LEMMA FindLastKeepsArray ==
    ASSUME ArrayInv, NEW a \in Adapters, FindLast(a)
    PROVE  ArrayInv'
  <1> DEFINE i == working[a].slot
             slots == mLocAdapters
  <1>1. /\ ArrayTypes /\ raced' = raced /\ raced' \in BOOLEAN
        /\ i \in Slots /\ working[a].step = "FIND"
        /\ ~raced => /\ AtWork \subseteq {a}
                     /\ Stage(a, working[a], slots, constructed)
    BY WorkingStage DEF FindLast
  <1>2. PICK last \in Slots : LastFrom(i, last) /\ WorkOn(a, Work("MOVE", i, last))
    BY DEF FindLast
  <1>3. UNCHANGED <<mLocAdapters, constructed>>
    BY DEF FindLast
  <1> DEFINE work == Work("MOVE", i, last)
  <1>4. /\ work \in Works /\ work # NOTHING
        /\ work.step = "MOVE" /\ work.slot = i /\ work.last = last
    BY <1>1, WorkIsWork
  <1>5. Last(slots, i, last)
    BY <1>2 DEF LastFrom, Last
  <1>6. mLocAdapters' \in [Slots -> Adapters \cup {NULL}]
    BY <1>1, <1>3 DEF ArrayTypes
  <1> HIDE DEF work, i
  <1>7. ASSUME ~raced
        PROVE  Stage(a, work, mLocAdapters', constructed)
    <2>1. a \in constructed /\ Absent(a, slots) /\ Tidy(slots, constructed, i)
      BY <1>1, <1>7 DEF Stage, i
    <2> QED BY <1>3, <1>4, <1>5, <2>1 DEF Stage
  <1>8. WorkOn(a, work)
    BY <1>2 DEF work
  <1> QED BY <1>1, <1>3, <1>4, <1>6, <1>7, <1>8, WorkingEnds

LEMMA MoveKeepsArray ==
    ASSUME ArrayInv, NEW a \in Adapters, Move(a)
    PROVE  ArrayInv'
  <1> DEFINE i == working[a].slot
             last == working[a].last
             work == Work("CLEAR", i, last)
             slots == mLocAdapters
             after == [mLocAdapters' EXCEPT ![last] = NULL]
  <1>1. /\ ArrayTypes /\ raced' = raced /\ raced' \in BOOLEAN
        /\ i \in Slots /\ last \in Slots /\ working[a].step = "MOVE"
        /\ working[a] \in Works /\ working[a] # NOTHING
        /\ ~raced => /\ AtWork \subseteq {a}
                     /\ Stage(a, working[a], slots, constructed)
    BY WorkingStage DEF Move
  <1>2. /\ mLocAdapters' = [slots EXCEPT ![i] = slots[last]]
        /\ WorkOn(a, work) /\ UNCHANGED constructed
    <2>1. [working[a] EXCEPT !.step = "CLEAR"] = work
      BY <1>1, WorkFields DEF Work
    <2> QED BY <2>1 DEF Move
  <1>3. /\ slots \in [Slots -> Adapters \cup {NULL}]
        /\ mLocAdapters' \in [Slots -> Adapters \cup {NULL}]
    BY <1>1, <1>2 DEF ArrayTypes
  <1>4. /\ work \in Works /\ work # NOTHING /\ work.step = "CLEAR"
        /\ work.slot = i /\ work.last = last
    BY <1>1, WorkIsWork
  <1>5. ASSUME ~raced
        PROVE  Stage(a, work, mLocAdapters', constructed)
    <2>1. /\ a \in constructed /\ Absent(a, slots) /\ Tidy(slots, constructed, i)
          /\ Last(slots, i, last)
      BY <1>1, <1>5 DEF Stage
    <2> HIDE DEF i, last, slots, work
    <2>2. \A k \in Slots : after[k] =
             IF k = last THEN NULL ELSE IF k = i THEN slots[last] ELSE slots[k]
      BY <1>1, <1>2, <1>3
    <2> HIDE DEF after
    <2>3. Absent(a, after)
      BY <1>1, <2>1, <2>2, ConstantsAssumption DEF Absent
    <2>4. last \in i .. MAX_ADAPTERS /\ slots[i] = NULL
      BY <1>1, <2>1 DEF Last, Tidy
    <2>5. ASSUME NEW j \in Slots, last < j
          PROVE  slots[j] = NULL
      <3>1. last + 1 \in Slots /\ slots[last + 1] = NULL /\ last + 1 # i
        BY <1>1, <2>1, <2>4, <2>5, ConstantsAssumption DEF Last, Slots
      <3> QED BY <1>1, <2>1, <2>5, <3>1 DEF Tidy, Slots
    <2>6. Tidy(after, constructed, 0)
      <3> SUFFICES ASSUME NEW j \in Slots, after[j] # NULL
                   PROVE  /\ after[j] \in constructed
                          /\ \A k \in 1 .. j - 1 : after[k] # after[j] /\ after[k] # NULL
        BY DEF Tidy, Slots
      <3>1. j # last /\ j < last
        BY <1>1, <2>2, <2>4, <2>5 DEF Slots
      <3>2. CASE last = i
        <4>1. \A k \in Slots : after[k] = slots[k]
          BY <2>2, <2>4, <3>2
        <4>2. \A k \in 1 .. j - 1 : k \in Slots /\ k # i
          BY <1>1, <3>1, <3>2, ConstantsAssumption DEF Slots
        <4> QED BY <2>1, <4>1, <4>2 DEF Tidy
      <3>3. CASE last # i
        <4>1. slots[last] # NULL
          BY <1>1, <2>1, <2>4, <3>3 DEF Last, Slots
        <4>2. \A k \in 1 .. last - 1 :
                 slots[k] # slots[last] /\ (k # i => slots[k] # NULL)
          BY <1>1, <2>1, <4>1 DEF Tidy
        <4>3. after[j] \in constructed
          BY <1>1, <2>1, <2>2, <3>1, <4>1 DEF Tidy
        <4>4. ASSUME NEW k \in 1 .. j - 1
              PROVE  after[k] # after[j] /\ after[k] # NULL
          <5>1. k \in Slots /\ k \in 1 .. last - 1 /\ j \in 1 .. last - 1 /\ k # j
            BY <1>1, <3>1, ConstantsAssumption DEF Slots
          <5>2. j # i => slots[j] # NULL /\ slots[k] # slots[j]
            BY <2>1, <4>2, <5>1, <4>4 DEF Tidy, Slots
          <5> QED BY <5>1, <5>2, <3>1, <4>1, <4>2, <2>2
        <4> QED BY <4>3, <4>4
      <3> QED BY <3>2, <3>3
    <2> QED BY <1>4, <2>1, <2>3, <2>6 DEF Stage, after
  <1> HIDE DEF i, last, slots, work
  <1> QED BY <1>1, <1>2, <1>3, <1>4, <1>5, WorkingEnds

LEMMA ClearKeepsArray ==
    ASSUME ArrayInv, NEW a \in Adapters, Clear(a)
    PROVE  /\ ArrayInv'
           /\ ~raced => Absent(a, mLocAdapters') /\ Tidy(mLocAdapters', constructed, 0)
  <1> DEFINE last == working[a].last
  <1>1. /\ ArrayTypes /\ raced' = raced /\ raced' \in BOOLEAN
        /\ last \in Slots /\ working[a].step = "CLEAR"
        /\ ~raced => /\ AtWork \subseteq {a}
                     /\ Stage(a, working[a], mLocAdapters, constructed)
    BY WorkingStage DEF Clear
  <1>2. mLocAdapters' = [mLocAdapters EXCEPT ![last] = NULL]
    BY DEF Clear
  <1>3. mLocAdapters' \in [Slots -> Adapters \cup {NULL}]
    BY <1>1, <1>2 DEF ArrayTypes
  <1>4. ~raced => Absent(a, mLocAdapters') /\ Tidy(mLocAdapters', constructed, 0)
    BY <1>1, <1>2 DEF Stage
  <1>5. ASSUME NEW i \in Slots, Found(a, mLocAdapters', last + 1, i),
               WorkOn(a, Work("EMPTY", i, i)), UNCHANGED constructed
        PROVE  ArrayInv'
    <2>1. raced
      BY <1>4, <1>5 DEF Found, Absent
    <2>2. Work("EMPTY", i, i) \in Works
      BY WorkIsWork
    <2> QED BY <1>1, <1>3, <1>5, <2>1, <2>2, WorkingEnds
  <1>6. ASSUME Destroyed(a, mLocAdapters')
        PROVE  ArrayInv'
    BY <1>1, <1>3, <1>4, <1>6, DestroyedKeepsArray
  <1> QED BY <1>4, <1>5, <1>6 DEF Clear

LEMMA NextKeepsArray == ArrayInv /\ [Next]_vars => ArrayInv'
  <1> SUFFICES ASSUME ArrayInv, [Next]_vars PROVE ArrayInv'
    OBVIOUS
  <1>1. CASE UNCHANGED <<constructed, mLocAdapters, working, raced>>
    BY <1>1 DEF ArrayInv, ArrayTypes, AloneInv, AtWork
  <1>2. CASE AdaptersChange
    BY <1>1, <1>2, AddKeepsArray, RemoveKeepsArray DEF AdaptersChange, UpdateEvtMask
  <1>3. CASE ArrayChanges
    BY <1>3, FillKeepsArray, EmptyKeepsArray, FindLastKeepsArray, MoveKeepsArray,
       ClearKeepsArray DEF ArrayChanges
  <1>4. CASE \/ FrameworkCalls \/ MessageThread \/ ServiceComes
             \/ ServiceLost \/ ErrorCb \/ ModemEngine
    <2>1. UNCHANGED adapterVars
      BY <1>4 DEF FrameworkCalls, Start, Stop, GpsMeasurementInit,
         GpsMeasurementClose, Call, MessageThread, OnOpen, OnUpdate, OnSsr,
         OnStart, OnStop, OnUp, OnEngineState, Process, LocClientOpen, Connect,
         OpenRegisters, OpenFails, OpenEnds, InOpen, ServiceComes, ServiceLost,
         ErrorCb, ModemEngine
    <2> QED BY <2>1, <1>1 DEF adapterVars
  <1> QED BY <1>1, <1>2, <1>3, <1>4 DEF Next, vars, adapterVars

(* When no constructor or destructor is at work the array has neither holes *)
(* nor duplicates nor destroyed adapters, if never were two at work at once *)
(* (they take no lock): addAdapter and removeAdapter of LocApiBase.         *)
THEOREM ArrayCompact == Spec => []AdaptersListed
  <1>1. ArrayInv => AdaptersListed
    BY DEF ArrayInv, AloneInv, AdaptersListed, Tidy, Slots
  <1> QED BY <1>1, InitArray, NextKeepsArray, PTL DEF Spec

(* The engine's adapter stays in the first slot, whoever else is at work.   *)
BehindEngine ==
    \A a \in Adapters : working[a] # NOTHING =>
        /\ working[a].slot \in 2 .. MAX_ADAPTERS
        /\ working[a].last \in 2 .. MAX_ADAPTERS

EngineInv == ArrayTypes /\ EngineListed /\ BehindEngine

LEMMA BehindKept ==
    ASSUME EngineInv, NEW a \in Adapters, NEW work \in Works, WorkOn(a, work),
           \/ work = NOTHING
           \/ work.slot \in 2 .. MAX_ADAPTERS /\ work.last \in 2 .. MAX_ADAPTERS
    PROVE  BehindEngine'
  <1>1. \A b \in Adapters : working'[b] = IF b = a THEN work ELSE working[b]
    BY DEF EngineInv, ArrayTypes, WorkOn
  <1> QED BY <1>1 DEF EngineInv, BehindEngine

LEMMA FirstKept ==
    ASSUME EngineInv, NEW i \in 2 .. MAX_ADAPTERS, NEW x,
           mLocAdapters' = [mLocAdapters EXCEPT ![i] = x]
    PROVE  EngineListed'
  BY ConstantsAssumption DEF EngineInv, EngineListed, ArrayTypes, Slots

LEMMA DestroyedBehind ==
    ASSUME EngineInv, NEW a \in Adapters, NEW slots, Destroyed(a, slots)
    PROVE  BehindEngine'
  BY NothingIsWork, BehindKept DEF Destroyed

LEMMA ArrayChangesKeepEngine ==
    ASSUME EngineInv, NEW a \in Adapters,
           Fill(a) \/ Empty(a) \/ FindLast(a) \/ Move(a) \/ Clear(a)
    PROVE  EngineListed' /\ BehindEngine'
  <1> DEFINE work == working[a]
  <1>1. work \in Works /\ work # NOTHING
    BY StepOfNothing
    DEF EngineInv, ArrayTypes, Fill, Empty, FindLast, Move, Clear, Working
  <1>2. /\ work.slot \in 2 .. MAX_ADAPTERS /\ work.last \in 2 .. MAX_ADAPTERS
        /\ work.slot \in Slots /\ work.last \in Slots
        /\ work = Work(work.step, work.slot, work.last)
    BY <1>1, WorkFields DEF EngineInv, BehindEngine
  <1>3. EngineListed'
    <2>1. CASE FindLast(a)
      BY <2>1 DEF FindLast, EngineInv, EngineListed
    <2>2. CASE Fill(a) \/ Empty(a) \/ Move(a) \/ Clear(a)
      BY <1>2, <2>2, FirstKept DEF Fill, Empty, Move, Clear
    <2> QED BY <2>1, <2>2
  <1>4. ASSUME NEW step \in {"FIND", "CLEAR"}, WorkOn(a, [work EXCEPT !.step = step])
        PROVE  BehindEngine'
    <2>1. [work EXCEPT !.step = step] = Work(step, work.slot, work.last)
      BY <1>2 DEF Work
    <2> HIDE DEF work
    <2> QED BY <1>2, <1>4, <2>1, WorkIsWork, BehindKept
  <1>5. CASE Fill(a)
    BY <1>3, <1>5, NothingIsWork, BehindKept DEF Fill
  <1>6. CASE Empty(a) \/ Move(a)
    BY <1>3, <1>4, <1>6 DEF Empty, Move
  <1>7. CASE FindLast(a)
    <2>1. PICK i \in Slots : LastFrom(work.slot, i) /\ WorkOn(a, Work("MOVE", work.slot, i))
      BY <1>7 DEF FindLast
    <2>2. i \in 2 .. MAX_ADAPTERS
      BY <1>2, <2>1, ConstantsAssumption DEF LastFrom
    <2> QED BY <1>2, <1>3, <2>1, <2>2, WorkIsWork, BehindKept
  <1>8. CASE Clear(a)
    <2>1. CASE Destroyed(a, mLocAdapters')
      BY <1>3, <2>1, DestroyedBehind
    <2>2. CASE \E i \in Slots : /\ Found(a, mLocAdapters', work.last + 1, i)
                                /\ WorkOn(a, Work("EMPTY", i, i))
      <3>1. PICK i \in Slots : /\ Found(a, mLocAdapters', work.last + 1, i)
                               /\ WorkOn(a, Work("EMPTY", i, i))
        BY <2>2
      <3>2. i \in 2 .. MAX_ADAPTERS
        BY <1>2, <3>1, ConstantsAssumption DEF Found, Slots
      <3> QED BY <1>3, <3>1, <3>2, WorkIsWork, BehindKept
    <2> QED BY <1>8, <2>1, <2>2 DEF Clear
  <1> QED BY <1>3, <1>5, <1>6, <1>7, <1>8

LEMMA NextKeepsEngine ==
    EngineInv /\ ArrayTypes' /\ [Next]_vars => EngineInv'
  <1> SUFFICES ASSUME EngineInv, ArrayTypes', [Next]_vars
               PROVE  EngineListed' /\ BehindEngine'
    BY DEF EngineInv
  <1>1. CASE UNCHANGED <<mLocAdapters, working>>
    BY <1>1 DEF EngineInv, EngineListed, BehindEngine
  <1>2. ASSUME NEW a \in Adapters, AddAdapter(a) \/ RemoveAdapter(a)
        PROVE  EngineListed' /\ BehindEngine'
    <2>1. mLocAdapters' = mLocAdapters
      BY <1>2 DEF AddAdapter, RemoveAdapter, Begin
    <2>2. ASSUME NEW i \in Slots, NEW step \in {"FILL", "EMPTY"}, mLocAdapters[i] # Engine,
                 WorkOn(a, Work(step, i, i))
          PROVE  BehindEngine'
      <3>1. i \in 2 .. MAX_ADAPTERS
        BY <2>2, ConstantsAssumption DEF EngineInv, EngineListed, Slots
      <3> QED BY <2>2, <3>1, WorkIsWork, BehindKept
    <2>3. CASE AddAdapter(a)
      <3>1. \A i \in Slots : FirstFree(a, i) => mLocAdapters[i] # Engine
        BY ConstantsAssumption DEF FirstFree
      <3> QED BY <1>1, <2>1, <2>2, <2>3, <3>1 DEF AddAdapter, EngineInv, EngineListed
    <2>4. CASE RemoveAdapter(a)
      <3>1. \A i \in Slots : Found(a, mLocAdapters, 1, i) => mLocAdapters[i] # Engine
        BY <2>4 DEF Found, RemoveAdapter
      <3> QED BY <2>1, <2>2, <2>4, <3>1, DestroyedBehind
              DEF RemoveAdapter, EngineInv, EngineListed
    <2> QED BY <1>2, <2>3, <2>4
  <1>3. CASE AdaptersChange
    BY <1>1, <1>2, <1>3 DEF AdaptersChange, UpdateEvtMask
  <1>4. CASE ArrayChanges
    BY <1>4, ArrayChangesKeepEngine DEF ArrayChanges
  <1>5. CASE \/ FrameworkCalls \/ MessageThread \/ ServiceComes
             \/ ServiceLost \/ ErrorCb \/ ModemEngine
    BY <1>1, <1>5 DEF FrameworkCalls, Start, Stop, GpsMeasurementInit,
       GpsMeasurementClose, Call, MessageThread, OnOpen, OnUpdate, OnSsr,
       OnStart, OnStop, OnUp, OnEngineState, Process, LocClientOpen, Connect,
       OpenRegisters, OpenFails, OpenEnds, InOpen, ServiceComes, ServiceLost,
       ErrorCb, ModemEngine, adapterVars
  <1> QED BY <1>1, <1>3, <1>4, <1>5 DEF Next, vars, adapterVars

(* Even if several constructors and destructors work in the array at once   *)
(* the engine's adapter, never destroyed, stays first in it: removeAdapter  *)
(* never finds the list empty and never closes the Loc API.                 *)
THEOREM EngineFirst == Spec => []EngineListed
  <1>1. Init => EngineInv
    <2> SUFFICES ASSUME Init PROVE EngineInv
      OBVIOUS
    <2>1. ArrayTypes
      BY InitArray DEF ArrayInv
    <2>2. EngineListed
      BY ConstantsAssumption DEF Init, EngineListed, Slots
    <2>3. BehindEngine
      BY DEF Init, BehindEngine
    <2> QED BY <2>1, <2>2, <2>3 DEF EngineInv
  <1>2. ArrayInv => ArrayTypes
    BY DEF ArrayInv
  <1>3. EngineInv => EngineListed
    BY DEF EngineInv
  <1> QED BY <1>1, <1>2, <1>3, InitArray, NextKeepsArray, NextKeepsEngine, PTL DEF Spec

----------------------------------------------------------------------------
(* Types                                                                    *)

LEMMA ConvertedAreEvents ==
    ASSUME NEW mask \in SUBSET Bits
    PROVE  convertMask(mask) \in SUBSET QmiEvents
  BY ConstantsAssumption DEF convertMask

LEMMA RegisteredAreEvents ==
    ASSUME NEW qmiMask \in SUBSET QmiEvents, NEW inSession
    PROVE  EventMask(qmiMask, inSession) \in SUBSET QmiEvents
  BY DEF EventMask, adjustMaskForNoSession

LEMMA WantedAreBits ==
    ASSUME NEW slots \in [Slots -> Adapters \cup {NULL}],
           NEW masks \in [Adapters -> SUBSET Bits]
    PROVE  getEvtMask(slots, masks) \in SUBSET Bits
  <1>1. ASSUME NEW a \in Listed(slots)
        PROVE  masks[a] \in SUBSET Bits
    <2>1. PICK i \in Slots : /\ a = slots[i]
                             /\ \A k \in 1 .. i : slots[k] # NULL
      BY DEF Listed
    <2>2. i \in 1 .. i
      BY ConstantsAssumption DEF Slots
    <2> QED BY <2>1, <2>2
  <1> QED BY <1>1 DEF getEvtMask

QueueTypes == queue \in Seq(Messages)
MaskTypes ==
    /\ mEvtMask \in [Adapters -> SUBSET Bits]
    /\ opening \in Openings
    /\ mMask \in SUBSET Bits /\ mQmiMask \in SUBSET QmiEvents
    /\ registered \in SUBSET QmiEvents
FlagTypes ==
    /\ clientHandle \in BOOLEAN /\ mInSession \in BOOLEAN
    /\ mEngineOn \in BOOLEAN /\ mNavigating \in BOOLEAN
    /\ started \in BOOLEAN /\ measuring \in BOOLEAN
    /\ serviceUp \in BOOLEAN /\ connected \in BOOLEAN
    /\ engine \in BOOLEAN /\ unreported \in BOOLEAN /\ stale \in BOOLEAN
    /\ errorCb \in {"IDLE", "SSR", "UP"}
CounterTypes ==
    calls \in Nat /\ losses \in Nat /\ failures \in Nat /\ toggles \in Nat

Types == QueueTypes /\ MaskTypes /\ FlagTypes /\ CounterTypes

LEMMA TypesSuffice == ArrayTypes /\ Types => TypeOK
  BY DEF ArrayTypes, Types, QueueTypes, MaskTypes, FlagTypes, CounterTypes, TypeOK

LEMMA OpenIsMessage ==
    ASSUME NEW mask \in SUBSET Bits
    PROVE  OpenMessage(mask) \in Messages
  BY DEF OpenMessage, Messages

LEMMA MessageIsMessage ==
    ASSUME NEW type \in {"SSR", "UP", "START", "STOP"}
    PROVE  Message(type) \in Messages
  BY DEF Message, Messages

LEMMA PostKeepsType ==
    ASSUME NEW q \in Seq(Messages), NEW m \in Messages
    PROVE  Append(q, m) \in Seq(Messages)
  OBVIOUS

LEMMA TakeKeepsType ==
    ASSUME NEW q \in Seq(Messages), q # <<>>
    PROVE  Head(q) \in Messages /\ Tail(q) \in Seq(Messages)
  OBVIOUS

LEMMA InitTypes == Init => Types
  <1> SUFFICES ASSUME Init PROVE Types
    OBVIOUS
  <1> USE ConstantsAssumption
  <1>1. QueueTypes
    <2>1. \A i \in 1 .. Len(Early) : OpenMessage(InitialMask[Early[i]]) \in Messages
      BY OpenIsMessage
    <2>2. queue = [i \in 1 .. Len(Early) |-> OpenMessage(InitialMask[Early[i]])]
      BY DEF Init
    <2>3. queue \in [1 .. Len(Early) -> Messages] /\ Len(Early) \in Nat
      BY <2>1, <2>2
    <2> QED BY <2>3 DEF QueueTypes
  <1>2. MaskTypes
    BY DEF Init, MaskTypes, Openings
  <1>3. FlagTypes /\ CounterTypes
    BY DEF Init, FlagTypes, CounterTypes
  <1> QED BY <1>1, <1>2, <1>3 DEF Types

LEMMA AdaptersKeepTypes ==
    ASSUME ArrayTypes, Types, ArrayTypes', AdaptersChange \/ ArrayChanges
    PROVE  Types'
  <1> USE ConstantsAssumption
  <1>0. /\ mEvtMask \in [Adapters -> SUBSET Bits]
        /\ queue \in Seq(Messages)
    BY DEF Types, MaskTypes, QueueTypes
  <1>1. ASSUME queue' \in Seq(Messages), mEvtMask' \in [Adapters -> SUBSET Bits],
               calls' \in Nat,
               UNCHANGED <<opening, maskVars, sessionVars, framework, client,
                           environment>>
        PROVE  Types'
    <2>1. QueueTypes' /\ MaskTypes' /\ CounterTypes'
      BY <1>1 DEF Types, QueueTypes, MaskTypes, CounterTypes, maskVars, client,
         environment
    <2>2. FlagTypes'
      BY <1>1 DEF Types, FlagTypes, maskVars, sessionVars, framework, client,
         environment
    <2> QED BY <2>1, <2>2 DEF Types
  <1>2. calls' \in Nat
    <2>1. calls' = calls + 1 \/ calls' = calls
      BY DEF AdaptersChange, AddAdapter, RemoveAdapter, UpdateEvtMask, Begin,
         Change, ArrayChanges, Fill, Empty, FindLast, Move, Clear, Working
    <2> QED BY <2>1 DEF Types, CounterTypes
  <1>3. UNCHANGED <<opening, maskVars, sessionVars, framework, client, environment>>
    BY DEF AdaptersChange, AddAdapter, RemoveAdapter, UpdateEvtMask, Begin, Change,
       ArrayChanges, Fill, Empty, FindLast, Move, Clear, Working
  <1>4. ASSUME NEW a \in Adapters, NEW slots, Destroyed(a, slots)
        PROVE  mEvtMask' \in [Adapters -> SUBSET Bits]
    <2>1. PICK mask \in SUBSET Bits : mEvtMask' = [mEvtMask EXCEPT ![a] = mask]
      BY <1>0, <1>4 DEF Destroyed
    <2> QED BY <1>0, <2>1
  <1>5. ASSUME NEW a \in Adapters, AddAdapter(a)
        PROVE  Types'
    <2>1. queue' = queue /\ mEvtMask' = [mEvtMask EXCEPT ![a] = InitialMask[a]]
      BY <1>5 DEF AddAdapter, Begin
    <2>2. mEvtMask' \in [Adapters -> SUBSET Bits]
      BY <1>0, <2>1
    <2> QED BY <1>0, <1>1, <1>2, <1>3, <2>1, <2>2
  <1>6. ASSUME NEW a \in Adapters, RemoveAdapter(a)
        PROVE  Types'
    <2>1. queue' = queue /\ (UNCHANGED mEvtMask \/ Destroyed(a, mLocAdapters))
      BY <1>6 DEF RemoveAdapter, Begin
    <2> QED BY <1>0, <1>1, <1>2, <1>3, <1>4, <2>1
  <1>7. ASSUME NEW a \in Adapters, NEW bit \in Updates, UpdateEvtMask(a, bit)
        PROVE  Types'
    <2>1. mEvtMask' \in [Adapters -> SUBSET Bits]
      <3>1. PICK mask \in {mEvtMask[a] \cup {bit}, mEvtMask[a] \ {bit}} :
               mEvtMask' = [mEvtMask EXCEPT ![a] = mask]
        BY <1>7 DEF UpdateEvtMask
      <3>2. mask \in SUBSET Bits
        BY <1>0
      <3> QED BY <1>0, <3>1, <3>2
    <2>2. getEvtMask(mLocAdapters, mEvtMask') \in SUBSET Bits
      BY <2>1, WantedAreBits DEF ArrayTypes
    <2>3. queue' \in Seq(Messages)
      BY <1>0, <1>7, <2>2, OpenIsMessage, PostKeepsType DEF UpdateEvtMask, Post
    <2> QED BY <1>1, <1>2, <1>3, <2>1, <2>3
  <1>8. ASSUME NEW a \in Adapters, Fill(a)
        PROVE  Types'
    <2>1. mEvtMask[a] \in SUBSET Bits /\ mEvtMask' = mEvtMask
      BY <1>0, <1>8 DEF Fill
    <2>2. queue' \in Seq(Messages)
      BY <1>0, <1>8, <2>1, OpenIsMessage, PostKeepsType DEF Fill, Post
    <2> QED BY <1>0, <1>1, <1>2, <1>3, <2>1, <2>2
  <1>9. ASSUME NEW a \in Adapters, Empty(a) \/ FindLast(a) \/ Move(a)
        PROVE  Types'
    <2>1. UNCHANGED <<queue, mEvtMask>>
      BY <1>9 DEF Empty, FindLast, Move
    <2> QED BY <1>0, <1>1, <1>2, <1>3, <2>1
  <1>10. ASSUME NEW a \in Adapters, Clear(a)
         PROVE  Types'
    <2>1. getEvtMask(mLocAdapters', mEvtMask) \in SUBSET Bits
      BY <1>0, WantedAreBits DEF ArrayTypes
    <2>2. queue' \in Seq(Messages)
      BY <1>0, <1>10, <2>1, OpenIsMessage, PostKeepsType DEF Clear, Post
    <2>3. UNCHANGED mEvtMask \/ Destroyed(a, mLocAdapters')
      BY <1>10 DEF Clear
    <2> QED BY <1>0, <1>1, <1>2, <1>3, <1>4, <2>2, <2>3
  <1> QED BY <1>5, <1>6, <1>7, <1>8, <1>9, <1>10 DEF AdaptersChange, ArrayChanges

LEMMA FrameworkKeepsTypes ==
    ASSUME Types, FrameworkCalls
    PROVE  Types'
  <1>1. QueueTypes'
    <2>1. \E m \in Messages : Post(m)
      BY DEF FrameworkCalls, Start, Stop, GpsMeasurementInit,
         GpsMeasurementClose, Messages, Message, UpdateMessage
    <2> QED BY <2>1, PostKeepsType DEF Post, Types, QueueTypes
  <1>2. CounterTypes'
    <2>1. calls' = calls + 1 /\ UNCHANGED <<losses, failures, toggles>>
      BY DEF FrameworkCalls, Start, Stop, GpsMeasurementInit,
         GpsMeasurementClose, Call, client, environment
    <2> QED BY <2>1 DEF Types, CounterTypes
  <1>3. FlagTypes'
    <2>1. /\ UNCHANGED <<maskVars, sessionVars, client, environment>>
          /\ \/ started' = TRUE /\ measuring' = measuring
             \/ started' = FALSE /\ measuring' = measuring
             \/ measuring' = TRUE /\ started' = started
             \/ measuring' = FALSE /\ started' = started
      BY DEF FrameworkCalls, Start, Stop, GpsMeasurementInit,
         GpsMeasurementClose, Call
    <2>2. UNCHANGED <<clientHandle, mInSession, mEngineOn, mNavigating, serviceUp,
                      connected, engine, unreported, stale, errorCb>>
      BY <2>1 DEF maskVars, sessionVars, client, environment
    <2>3. FlagTypes
      BY DEF Types
    <2>4. started' \in BOOLEAN /\ measuring' \in BOOLEAN
      <3>1. started \in BOOLEAN /\ measuring \in BOOLEAN
        BY <2>3 DEF FlagTypes
      <3> QED BY <2>1, <3>1
    <2> QED BY <2>2, <2>3, <2>4 DEF FlagTypes
  <1>4. MaskTypes'
    BY DEF FrameworkCalls, Start, Stop, GpsMeasurementInit, GpsMeasurementClose,
       Call, adapterVars, maskVars, client, Types, MaskTypes
  <1> QED BY <1>1, <1>2, <1>3, <1>4 DEF Types

LEMMA OpeningKeepsTypes ==
    ASSUME Types, LocClientOpen
    PROVE  Types'
  <1> USE DEF InOpen
  <1>0. MAX_OPEN_RETRIES \in Nat
    BY ConstantsAssumption
  <1>1. QueueTypes'
    BY DEF LocClientOpen, Connect, OpenRegisters, OpenFails, OpenEnds, Types,
       QueueTypes
  <1>2. CounterTypes'
    BY DEF LocClientOpen, Connect, OpenRegisters, OpenFails, OpenEnds, Types,
       CounterTypes, client, environment
  <1>3. FlagTypes'
    <2>1. /\ UNCHANGED <<sessionVars, framework, environment>>
          /\ clientHandle' = clientHandle \/ clientHandle' = TRUE
          /\ connected' = connected \/ connected' = TRUE \/ connected' = FALSE
      BY DEF LocClientOpen, Connect, OpenRegisters, OpenFails, OpenEnds,
         Release, maskVars
    <2>2. stale' = stale \/ stale' = TRUE \/ stale' = (stale \/ ~connected)
      BY DEF LocClientOpen, Connect, OpenRegisters, OpenFails, OpenEnds, client
    <2>3. stale' \in BOOLEAN
      BY <2>2 DEF Types, FlagTypes
    <2> QED BY <2>1, <2>3 DEF Types, FlagTypes, sessionVars, framework,
            environment
  <1>4. ASSUME opening.step # "IDLE"
        PROVE  /\ opening.mask \in SUBSET Bits
               /\ opening.tries \in 1 .. MAX_OPEN_RETRIES + 1
               /\ opening = Opening(opening.step, opening.mask, opening.tries)
    BY <1>4 DEF Types, MaskTypes, Openings, Opening, IDLE
  <1>5. UNCHANGED mEvtMask /\ mEvtMask \in [Adapters -> SUBSET Bits]
    BY DEF LocClientOpen, Connect, OpenRegisters, OpenFails, OpenEnds,
       adapterVars, Types, MaskTypes
  <1>6. ASSUME opening.step # "IDLE",
               NEW step \in {"WAIT", "REGISTER", "REGISTERED"},
               opening' = [opening EXCEPT !.step = step]
        PROVE  opening' \in Openings
    <2>1. opening' = Opening(step, opening.mask, opening.tries)
      BY <1>4, <1>6 DEF Opening
    <2> QED BY <1>4, <1>6, <2>1 DEF Opening, Openings
  <1>7. opening' \in Openings
    <2>1. CASE OpenFails
      <3>1. CASE opening.tries <= MAX_OPEN_RETRIES
        <4>1. opening.tries + 1 \in 1 .. MAX_OPEN_RETRIES + 1
          BY <1>0, <1>4, <2>1, <3>1 DEF OpenFails
        <4> QED BY <1>4, <2>1, <3>1, <4>1 DEF OpenFails, Openings, Opening
      <3>2. CASE ~(opening.tries <= MAX_OPEN_RETRIES)
        BY <2>1, <3>2 DEF OpenFails, Openings
      <3> QED BY <3>1, <3>2
    <2> QED BY <1>6, <2>1 DEF LocClientOpen, Connect, OpenRegisters, OpenEnds,
            Openings
  <1>8. registered' \in SUBSET QmiEvents
    <2>1. CASE OpenRegisters
      BY <1>4, <2>1, ConvertedAreEvents DEF OpenRegisters, adjustMaskForNoSession
    <2> QED BY <2>1 DEF LocClientOpen, Connect, OpenFails, OpenEnds, Release,
            Types, MaskTypes
  <1>9. mMask' \in SUBSET Bits /\ mQmiMask' \in SUBSET QmiEvents
    <2>1. CASE OpenEnds
      BY <1>4, <2>1, ConvertedAreEvents DEF OpenEnds
    <2> QED BY <2>1 DEF LocClientOpen, Connect, OpenRegisters, OpenFails,
            maskVars, Types, MaskTypes
  <1> QED BY <1>1, <1>2, <1>3, <1>5, <1>7, <1>8, <1>9 DEF Types, MaskTypes

(* What a registration does to the types.                                   *)
LEMMA RegistrationTypes ==
    ASSUME NEW qmiMask \in SUBSET QmiEvents, NEW inSession, NEW ok, Types,
           RegisterEventMask(qmiMask, inSession, ok)
    PROVE  /\ registered' \in SUBSET QmiEvents
           /\ failures' \in Nat
           /\ stale' \in BOOLEAN
  <1>1. EventMask(qmiMask, inSession) \in SUBSET QmiEvents
    BY RegisteredAreEvents
  <1>2. registered' \in {registered, EventMask(qmiMask, inSession)}
    BY DEF RegisterEventMask
  <1>3. failures' \in Nat
    BY DEF RegisterEventMask, Types, CounterTypes
  <1>4. stale' \in BOOLEAN
    BY DEF RegisterEventMask, Types, FlagTypes
  <1> QED BY <1>1, <1>2, <1>3, <1>4 DEF Types, MaskTypes

LEMMA OpenKeepsTypes ==
    ASSUME Types, NEW mask \in SUBSET Bits, Open(mask), opening = IDLE
    PROVE  /\ opening' \in Openings
           /\ mMask' \in SUBSET Bits /\ mQmiMask' \in SUBSET QmiEvents
           /\ registered' \in SUBSET QmiEvents
           /\ clientHandle' = clientHandle /\ connected' = connected
           /\ failures' \in Nat /\ stale' \in BOOLEAN
  <1> DEFINE newMask == mMask \cup (mask \ mExcludedMask)
  <1>1. newMask \in SUBSET Bits /\ convertMask(newMask) \in SUBSET QmiEvents
    BY ConvertedAreEvents DEF Types, MaskTypes
  <1>2. 1 \in 1 .. MAX_OPEN_RETRIES + 1
    BY ConstantsAssumption
  <1> HIDE DEF newMask
  <1>3. CASE opening' = Opening("WAIT", newMask, 1) /\ UNCHANGED <<maskVars, client>>
    BY <1>1, <1>2, <1>3 DEF Opening, Openings, maskVars, client, Types,
       MaskTypes, CounterTypes, FlagTypes
  <1>4. CASE UNCHANGED <<opening, maskVars, client>>
    BY <1>4 DEF maskVars, client, Types, MaskTypes, CounterTypes, FlagTypes
  <1>5. CASE /\ \E ok \in BOOLEAN :
                   RegisterEventMask(convertMask(newMask), mInSession, ok)
             /\ \/ mMask' = newMask /\ mQmiMask' = convertMask(newMask)
                \/ UNCHANGED <<mMask, mQmiMask>>
             /\ UNCHANGED <<opening, clientHandle, connected>>
    BY <1>1, <1>5, RegistrationTypes DEF Types, MaskTypes
  <1> QED BY <1>3, <1>4, <1>5 DEF Open, newMask

Processing ==
    OnOpen \/ OnUpdate \/ OnSsr \/ OnStart \/ OnStop \/ OnUp \/ OnEngineState

LEMMA ProcessingKeepsQueue ==
    ASSUME Types, Processing
    PROVE  queue' \in Seq(Messages) /\ queue # <<>> /\ Head(queue) \in Messages
  <1>1. /\ queue # <<>>
        /\ \/ queue' = Tail(queue)
           \/ queue' = Append(Tail(queue), Message("START"))
    BY DEF Processing, OnOpen, OnUpdate, OnSsr, OnStart, OnStop, OnUp,
       OnEngineState, Process
  <1>2. queue \in Seq(Messages)
    BY DEF Types, QueueTypes
  <1>3. Head(queue) \in Messages /\ Tail(queue) \in Seq(Messages)
    BY <1>1, <1>2, TakeKeepsType
  <1>4. Message("START") \in Messages
    BY MessageIsMessage
  <1> QED BY <1>1, <1>3, <1>4, PostKeepsType

LEMMA ProcessingLeaves ==
    ASSUME Processing
    PROVE  UNCHANGED <<adapterVars, framework, calls, environment>> /\ opening = IDLE
  BY DEF Processing, OnOpen, OnUpdate, OnSsr, OnStart, OnStop, OnUp,
     OnEngineState, Process

(* What is left of Types for an action of the message thread.               *)
LEMMA ProcessedTypes ==
    ASSUME Types, Processing,
           opening' \in Openings,
           mMask' \in SUBSET Bits, mQmiMask' \in SUBSET QmiEvents,
           registered' \in SUBSET QmiEvents,
           clientHandle' \in BOOLEAN, mInSession' \in BOOLEAN,
           mEngineOn' \in BOOLEAN, mNavigating' \in BOOLEAN,
           connected' \in BOOLEAN, stale' \in BOOLEAN, failures' \in Nat
    PROVE  Types'
  <1>1. UNCHANGED <<adapterVars, framework, calls, environment>>
    BY ProcessingLeaves
  <1>2. QueueTypes'
    BY ProcessingKeepsQueue DEF QueueTypes
  <1>3. MaskTypes'
    BY <1>1 DEF adapterVars, Types, MaskTypes
  <1>4. FlagTypes'
    BY <1>1 DEF framework, environment, Types, FlagTypes
  <1>5. CounterTypes'
    BY <1>1 DEF environment, Types, CounterTypes
  <1> QED BY <1>2, <1>3, <1>4, <1>5 DEF Types

LEMMA ProcessingKeepsTypes ==
    ASSUME ArrayTypes, Types, Processing
    PROVE  Types'
  <1>0. /\ queue # <<>> /\ Head(queue) \in Messages
        /\ UNCHANGED <<adapterVars, framework, calls, environment>>
        /\ opening = IDLE
    BY ProcessingKeepsQueue, ProcessingLeaves
  <1>1. /\ opening \in Openings
        /\ mMask \in SUBSET Bits /\ mQmiMask \in SUBSET QmiEvents
        /\ registered \in SUBSET QmiEvents
        /\ failures \in Nat
    BY DEF Types, MaskTypes, CounterTypes
  <1>2. /\ clientHandle \in BOOLEAN /\ mInSession \in BOOLEAN
        /\ mEngineOn \in BOOLEAN /\ mNavigating \in BOOLEAN
        /\ connected \in BOOLEAN /\ stale \in BOOLEAN
    BY DEF Types, FlagTypes
  <1>3. CASE OnOpen
    <2>1. Head(queue).mask \in SUBSET Bits /\ Open(Head(queue).mask)
      BY <1>0, <1>3 DEF OnOpen, Process, Messages
    <2>2. UNCHANGED sessionVars
      BY <1>3 DEF OnOpen
    <2> QED BY <1>0, <1>2, <2>1, <2>2, OpenKeepsTypes, ProcessedTypes
            DEF sessionVars
  <1>4. CASE OnUpdate
    <2>1. PICK mask \in SUBSET Bits : Open(mask)
      <3>1. mMask \cup {Measurement} \in SUBSET Bits
            /\ mMask \ {Measurement} \in SUBSET Bits
        BY <1>1, ConstantsAssumption
      <3> QED BY <1>4, <3>1 DEF OnUpdate
    <2>2. UNCHANGED sessionVars
      BY <1>4 DEF OnUpdate
    <2> QED BY <1>0, <1>2, <2>1, <2>2, OpenKeepsTypes, ProcessedTypes
            DEF sessionVars
  <1>5. CASE OnSsr
    <2>1. getEvtMask(mLocAdapters, mEvtMask) \in SUBSET Bits
      BY WantedAreBits DEF ArrayTypes, Types, MaskTypes
    <2>2. 1 \in 1 .. MAX_OPEN_RETRIES + 1
      BY ConstantsAssumption
    <2>3. opening' \in Openings
      BY <1>5, <2>1, <2>2 DEF OnSsr, Opening, Openings
    <2> QED BY <1>1, <1>2, <1>5, <2>3, ProcessedTypes
            DEF OnSsr, Release, sessionVars
  <1>6. CASE OnStart
    <2>1. /\ registered' \in SUBSET QmiEvents /\ failures' \in Nat
          /\ stale' \in BOOLEAN
      BY <1>1, <1>2, <1>6, RegistrationTypes DEF OnStart
    <2>2. mInSession' \in BOOLEAN /\ mNavigating' \in BOOLEAN
      BY <1>2, <1>6 DEF OnStart
    <2> QED BY <1>1, <1>2, <1>6, <2>1, <2>2, ProcessedTypes DEF OnStart, maskVars
  <1>7. CASE OnStop
    <2>1. /\ registered' \in SUBSET QmiEvents /\ failures' \in Nat
          /\ stale' \in BOOLEAN
      BY <1>1, <1>2, <1>7, RegistrationTypes DEF OnStop
    <2>2. mInSession' \in BOOLEAN /\ mNavigating' \in BOOLEAN
      BY <1>2, <1>7 DEF OnStop
    <2> QED BY <1>1, <1>2, <1>7, <2>1, <2>2, ProcessedTypes DEF OnStop, maskVars
  <1>8. CASE OnUp
    BY <1>1, <1>2, <1>8, ProcessedTypes DEF OnUp, maskVars, client
  <1>9. CASE OnEngineState
    <2>1. /\ registered' \in SUBSET QmiEvents /\ failures' \in Nat
          /\ stale' \in BOOLEAN
      BY <1>1, <1>2, <1>9, RegistrationTypes DEF OnEngineState
    <2>2. mEngineOn' \in BOOLEAN
      BY <1>0, <1>9 DEF OnEngineState, Process, Messages
    <2> QED BY <1>1, <1>2, <1>9, <2>1, <2>2, ProcessedTypes
            DEF OnEngineState, maskVars
  <1> QED BY <1>3, <1>4, <1>5, <1>6, <1>7, <1>8, <1>9 DEF Processing

LEMMA ServiceKeepsTypes ==
    ASSUME Types, ServiceComes \/ ServiceLost \/ ErrorCb \/ ModemEngine
    PROVE  Types'
  <1>1. CASE ServiceComes
    BY <1>1 DEF ServiceComes, adapterVars, maskVars, sessionVars, framework,
       client, Types, QueueTypes, MaskTypes, FlagTypes, CounterTypes
  <1>2. CASE ServiceLost
    <2>1. CounterTypes'
      BY <1>2 DEF ServiceLost, Types, CounterTypes
    <2>2. FlagTypes'
      <3>1. errorCb' \in {"IDLE", "SSR", "UP"} /\ unreported' \in BOOLEAN
        BY <1>2 DEF ServiceLost, Types, FlagTypes
      <3> QED BY <1>2, <3>1 DEF ServiceLost, Release, maskVars, sessionVars,
              framework, Types, FlagTypes
    <2>3. QueueTypes' /\ MaskTypes'
      BY <1>2 DEF ServiceLost, Release, adapterVars, maskVars, Types,
         QueueTypes, MaskTypes
    <2> QED BY <2>1, <2>2, <2>3 DEF Types
  <1>3. CASE ErrorCb
    <2>1. errorCb \in {"SSR", "UP"}
      BY <1>3 DEF ErrorCb, Types, FlagTypes
    <2>2. QueueTypes'
      BY <1>3, <2>1, MessageIsMessage, PostKeepsType
      DEF ErrorCb, Post, Types, QueueTypes
    <2>3. FlagTypes'
      BY <1>3 DEF ErrorCb, maskVars, sessionVars, framework, client, Types,
         FlagTypes
    <2> QED BY <1>3, <2>2, <2>3 DEF ErrorCb, adapterVars, maskVars, client,
            Types, MaskTypes, CounterTypes
  <1>4. CASE ModemEngine
    <2>1. engine' \in BOOLEAN /\ unreported' \in BOOLEAN
      BY <1>4 DEF ModemEngine, Types, FlagTypes
    <2>2. QueueTypes'
      <3>1. [type |-> "ENGINE", on |-> engine'] \in Messages
        BY <2>1 DEF Messages
      <3> QED BY <1>4, <3>1, PostKeepsType DEF ModemEngine, Post, Types, QueueTypes
    <2>3. FlagTypes'
      BY <1>4, <2>1 DEF ModemEngine, maskVars, sessionVars, framework, client,
         Types, FlagTypes
    <2>4. CounterTypes'
      BY <1>4 DEF ModemEngine, client, Types, CounterTypes
    <2> QED BY <1>4, <2>2, <2>3, <2>4 DEF ModemEngine, adapterVars, maskVars,
            client, Types, MaskTypes
  <1> QED BY <1>1, <1>2, <1>3, <1>4

Typed == ArrayInv /\ Types

LEMMA NextKeepsTypes == Typed /\ [Next]_vars => Typed'
  <1> SUFFICES ASSUME Typed, [Next]_vars PROVE Typed'
    OBVIOUS
  <1>1. ArrayInv'
    BY NextKeepsArray DEF Typed
  <1>2. ArrayTypes /\ Types /\ ArrayTypes'
    BY <1>1 DEF Typed, ArrayInv
  <1>3. CASE UNCHANGED vars
    <2> SUFFICES Types'
      BY <1>1 DEF Typed
    <2>1. QueueTypes' /\ MaskTypes' /\ CounterTypes'
      BY <1>2, <1>3 DEF vars, adapterVars, maskVars, client, environment, Types,
         QueueTypes, MaskTypes, CounterTypes
    <2>2. FlagTypes'
      BY <1>2, <1>3 DEF vars, maskVars, sessionVars, framework, client,
         environment, Types, FlagTypes
    <2> QED BY <2>1, <2>2 DEF Types
  <1>4. CASE Next
    <2> SUFFICES Types'
      BY <1>1 DEF Typed
    <2>1. \/ AdaptersChange \/ ArrayChanges
          \/ FrameworkCalls
          \/ LocClientOpen \/ Processing
          \/ ServiceComes \/ ServiceLost \/ ErrorCb \/ ModemEngine
      BY <1>4 DEF Next, MessageThread, Processing
    <2>2. CASE AdaptersChange \/ ArrayChanges
      BY <1>2, <2>2, AdaptersKeepTypes
    <2>3. CASE FrameworkCalls
      BY <1>2, <2>3, FrameworkKeepsTypes
    <2>4. CASE LocClientOpen
      BY <1>2, <2>4, OpeningKeepsTypes
    <2>5. CASE Processing
      BY <1>2, <2>5, ProcessingKeepsTypes
    <2>6. CASE ServiceComes \/ ServiceLost \/ ErrorCb \/ ModemEngine
      BY <1>2, <2>6, ServiceKeepsTypes
    <2> QED BY <2>1, <2>2, <2>3, <2>4, <2>5, <2>6
  <1> QED BY <1>3, <1>4

(* Every variable has its type: in particular the message thread never      *)
(* takes a message it does not know, and an opening is tried no more than   *)
(* MAX_OPEN_RETRIES times after the first (locClientOpen).                  *)
THEOREM TypeCorrect == Spec => []TypeOK
  <1>1. Init => Typed
    BY InitArray, InitTypes DEF Typed
  <1>2. Typed => TypeOK
    BY TypesSuffice DEF Typed, ArrayInv
  <1> QED BY <1>1, <1>2, NextKeepsTypes, PTL DEF Spec

----------------------------------------------------------------------------
(* Silence out of sessions                                                  *)

(* While the client is not connected nothing is registered, and it is not   *)
(* connected while it waits or has been closed.                             *)
ConnectedInv ==
    /\ ~connected => registered = {}
    /\ opening.step = "WAIT" => ~connected
    /\ ~clientHandle /\ opening = IDLE => ~connected

(* Out of a session, and with the engine heard to be off.                   *)
SilentAsHeard ==
    ~mInSession /\ ~mEngineOn /\ ~stale => registered \cap SessionEvents = {}

SilenceInv == ConnectedInv /\ SilentAsHeard

LEMMA InitSilence == Init => SilenceInv
  BY DEF Init, SilenceInv, ConnectedInv, SilentAsHeard, IDLE

LEMMA OutOfSessionSilent ==
    ASSUME NEW qmiMask
    PROVE  EventMask(qmiMask, FALSE) \cap SessionEvents = {}
  BY DEF EventMask, adjustMaskForNoSession

(* A registration succeeds with what it sends, or is noted as failed.       *)
LEMMA RegistrationSilence ==
    ASSUME NEW qmiMask, NEW inSession \in BOOLEAN, NEW ok \in BOOLEAN, Types,
           ConnectedInv, RegisterEventMask(qmiMask, inSession, ok)
    PROVE  /\ ~connected => registered' = {}
           /\ ~inSession /\ ~stale' => registered' \cap SessionEvents = {}
  <1>1. CASE connected /\ ok
    BY <1>1, OutOfSessionSilent DEF RegisterEventMask
  <1>2. CASE connected /\ ~ok
    BY <1>2 DEF RegisterEventMask
  <1>3. CASE ~connected
    BY <1>3 DEF RegisterEventMask, ConnectedInv
  <1> QED BY <1>1, <1>2, <1>3

LEMMA OpeningKeepsSilence ==
    ASSUME Types, SilenceInv, LocClientOpen
    PROVE  SilenceInv'
  <1> USE DEF InOpen, SilenceInv
  <1>0. UNCHANGED sessionVars /\ opening \in Openings
    BY DEF LocClientOpen, Connect, OpenRegisters, OpenFails, OpenEnds, Types, MaskTypes
  <1>1. CASE Connect
    <2>1. /\ connected' = TRUE /\ UNCHANGED <<registered, stale>>
          /\ opening'.step = "REGISTER"
      BY <1>0, <1>1 DEF Connect, Openings, IDLE
    <2>2. opening' # IDLE
      BY <2>1 DEF IDLE
    <2> QED BY <1>0, <2>1, <2>2 DEF ConnectedInv, SilentAsHeard, sessionVars
  <1>2. CASE OpenRegisters
    <2>1. /\ connected /\ connected' = connected
          /\ registered' \cap SessionEvents = {}
          /\ opening'.step = "REGISTERED"
      BY <1>0, <1>2 DEF OpenRegisters, adjustMaskForNoSession, Openings, IDLE
    <2>2. opening' # IDLE
      BY <2>1 DEF IDLE
    <2> QED BY <2>1, <2>2 DEF ConnectedInv, SilentAsHeard
  <1>3. CASE OpenFails
    BY <1>3 DEF OpenFails, Release, ConnectedInv, SilentAsHeard
  <1>4. CASE OpenEnds
    <2>1. /\ clientHandle' = TRUE /\ opening' = IDLE
          /\ UNCHANGED <<connected, registered>>
      BY <1>4 DEF OpenEnds
    <2>2. ~stale' => ~stale
      BY <1>4 DEF OpenEnds
    <2>3. opening'.step = "IDLE"
      BY <2>1 DEF IDLE
    <2> QED BY <1>0, <2>1, <2>2, <2>3 DEF ConnectedInv, SilentAsHeard, sessionVars
  <1> QED BY <1>1, <1>2, <1>3, <1>4 DEF LocClientOpen

LEMMA OpenKeepsSilence ==
    ASSUME Types, SilenceInv, NEW mask, Open(mask), opening = IDLE,
           UNCHANGED sessionVars
    PROVE  SilenceInv'
  <1> USE DEF SilenceInv
  <1> DEFINE newMask == mMask \cup (mask \ mExcludedMask)
  <1>1. \/ /\ ~clientHandle
           /\ opening' = Opening("WAIT", newMask, 1)
           /\ UNCHANGED <<maskVars, client>>
        \/ UNCHANGED <<opening, maskVars, client>>
        \/ /\ clientHandle
           /\ \E ok \in BOOLEAN :
                 RegisterEventMask(convertMask(newMask), mInSession, ok)
           /\ UNCHANGED <<opening, clientHandle, connected>>
    BY DEF Open
  <1> HIDE DEF newMask
  <1>2. CASE ~clientHandle /\ opening' = Opening("WAIT", newMask, 1)
             /\ UNCHANGED <<maskVars, client>>
    <2>1. ~connected /\ registered = {}
      BY <1>2 DEF ConnectedInv
    <2>2. UNCHANGED <<registered, stale, connected>>
      BY <1>2 DEF client
    <2> QED BY <2>1, <2>2 DEF ConnectedInv, SilentAsHeard
  <1>3. CASE UNCHANGED <<opening, maskVars, client>>
    BY <1>3 DEF maskVars, client, ConnectedInv, SilentAsHeard, sessionVars
  <1>4. CASE /\ clientHandle
             /\ \E ok \in BOOLEAN :
                   RegisterEventMask(convertMask(newMask), mInSession, ok)
             /\ UNCHANGED <<opening, clientHandle, connected>>
    <2>1. mInSession \in BOOLEAN
      BY DEF Types, FlagTypes
    <2>2. /\ ~connected => registered' = {}
          /\ ~mInSession /\ ~stale' => registered' \cap SessionEvents = {}
      BY <1>4, <2>1, RegistrationSilence
    <2>3. ConnectedInv'
      BY <1>4, <2>2 DEF ConnectedInv
    <2>4. SilentAsHeard'
      BY <2>2 DEF SilentAsHeard, sessionVars
    <2> QED BY <2>3, <2>4
  <1> QED BY <1>1, <1>2, <1>3, <1>4

LEMMA ProcessingKeepsSilence ==
    ASSUME Types, SilenceInv, Processing
    PROVE  SilenceInv'
  <1> USE DEF SilenceInv
  <1>0. opening = IDLE /\ opening.step = "IDLE"
    BY ProcessingLeaves DEF IDLE
  <1>1. CASE OnOpen \/ OnUpdate
    BY <1>0, <1>1, OpenKeepsSilence DEF OnOpen, OnUpdate
  <1>2. CASE OnSsr
    BY <1>2 DEF OnSsr, Release, Opening, IDLE, ConnectedInv, SilentAsHeard
  <1>3. CASE OnStart
    <2>1. UNCHANGED <<opening, clientHandle, connected, mEngineOn>>
      BY <1>3 DEF OnStart, maskVars
    <2>2. CASE mNavigating
      BY <1>3, <2>1, <2>2 DEF OnStart, ConnectedInv, SilentAsHeard
    <2>3. CASE ~mNavigating
      <3>1. PICK ok \in BOOLEAN : RegisterEventMask(mQmiMask, TRUE, ok)
        BY <1>3, <2>3 DEF OnStart
      <3>2. ~connected => registered' = {}
        BY <3>1, RegistrationSilence
      <3>3. mInSession' = TRUE
        BY <1>3, <2>3 DEF OnStart
      <3> QED BY <2>1, <3>2, <3>3 DEF ConnectedInv, SilentAsHeard
    <2> QED BY <2>2, <2>3
  <1>4. CASE OnStop
    <2>1. UNCHANGED <<opening, clientHandle, connected, mEngineOn>>
      BY <1>4 DEF OnStop, maskVars
    <2>2. CASE mNavigating /\ ~mEngineOn
      <3>1. PICK ok \in BOOLEAN : RegisterEventMask(mQmiMask, FALSE, ok)
        BY <1>4, <2>2 DEF OnStop
      <3>2. /\ ~connected => registered' = {}
            /\ ~stale' => registered' \cap SessionEvents = {}
        BY <3>1, RegistrationSilence
      <3> QED BY <2>1, <3>2 DEF ConnectedInv, SilentAsHeard
    <2>3. CASE ~(mNavigating /\ ~mEngineOn)
      <3>1. UNCHANGED <<registered, stale>>
        BY <1>4, <2>3 DEF OnStop
      <3>2. mEngineOn \/ mInSession' = mInSession
        BY <1>4, <2>3 DEF OnStop, Types, FlagTypes
      <3> QED BY <2>1, <3>1, <3>2 DEF ConnectedInv, SilentAsHeard
    <2> QED BY <2>2, <2>3
  <1>5. CASE OnUp
    BY <1>5 DEF OnUp, maskVars, client, ConnectedInv, SilentAsHeard
  <1>6. CASE OnEngineState
    <2>1. UNCHANGED <<opening, clientHandle, connected, mInSession>>
      BY <1>6 DEF OnEngineState, maskVars
    <2>2. mEngineOn' = Head(queue).on
      BY <1>6 DEF OnEngineState
    <2>3. CASE mEngineOn /\ ~mInSession /\ ~Head(queue).on
      <3>1. PICK ok \in BOOLEAN : RegisterEventMask(mQmiMask, FALSE, ok)
        BY <1>6, <2>3 DEF OnEngineState
      <3>2. /\ ~connected => registered' = {}
            /\ ~stale' => registered' \cap SessionEvents = {}
        BY <3>1, RegistrationSilence
      <3> QED BY <2>1, <3>2 DEF ConnectedInv, SilentAsHeard
    <2>4. CASE ~(mEngineOn /\ ~mInSession /\ ~Head(queue).on)
      <3>1. UNCHANGED <<registered, stale>>
        BY <1>6, <2>4 DEF OnEngineState
      <3> QED BY <2>1, <2>2, <2>4, <3>1 DEF ConnectedInv, SilentAsHeard
    <2> QED BY <2>3, <2>4
  <1> QED BY <1>1, <1>2, <1>3, <1>4, <1>5, <1>6 DEF Processing

LEMMA NextKeepsSilence == Typed /\ SilenceInv /\ [Next]_vars => SilenceInv'
  <1> SUFFICES ASSUME Typed, SilenceInv, [Next]_vars PROVE SilenceInv'
    OBVIOUS
  <1>0. Types
    BY DEF Typed
  <1>1. CASE UNCHANGED <<opening, maskVars, sessionVars, client>>
    BY <1>1 DEF maskVars, sessionVars, client, SilenceInv, ConnectedInv,
       SilentAsHeard
  <1>2. CASE AdaptersChange \/ ArrayChanges \/ FrameworkCalls \/ ServiceComes
             \/ ErrorCb \/ ModemEngine
    <2>1. UNCHANGED <<opening, maskVars, sessionVars, client>>
      BY <1>2 DEF AdaptersChange, AddAdapter, RemoveAdapter, UpdateEvtMask, Begin,
         Change, ArrayChanges, Fill, Empty, FindLast, Move, Clear, Working,
         FrameworkCalls, Start, Stop, GpsMeasurementInit,
         GpsMeasurementClose, Call, ServiceComes, ErrorCb, ModemEngine
    <2> QED BY <1>1, <2>1
  <1>3. CASE ServiceLost
    BY <1>3 DEF ServiceLost, Release, SilenceInv, ConnectedInv, SilentAsHeard
  <1>4. CASE LocClientOpen
    BY <1>0, <1>4, OpeningKeepsSilence
  <1>5. CASE Processing
    BY <1>0, <1>5, ProcessingKeepsSilence
  <1> QED BY <1>1, <1>2, <1>3, <1>4, <1>5
          DEF Next, vars, MessageThread, Processing

(* What the queue's last report says of the engine, or else the last one    *)
(* that was processed.                                                      *)
Tells(q, last, on) ==
    /\ Has(q, "ENGINE") \/ last = on
    /\ \A i \in 1 .. Len(q) :
          /\ q[i].type = "ENGINE"
          /\ \A k \in i + 1 .. Len(q) : q[k].type # "ENGINE"
          => q[i].on = on

ReportedInv == unreported \/ Tells(queue, mEngineOn, engine)

LEMMA TellsPost ==
    ASSUME NEW q \in Seq(Messages), NEW m \in Messages, NEW last, NEW on
    PROVE  /\ m.type # "ENGINE" /\ Tells(q, last, on) => Tells(Append(q, m), last, on)
           /\ m.type = "ENGINE" => Tells(Append(q, m), last, m.on)
  <1> DEFINE p == Append(q, m)
             n == Len(q)
  <1>1. /\ n \in Nat /\ Len(p) = n + 1 /\ p[n + 1] = m
        /\ \A i \in 1 .. n : p[i] = q[i] /\ i \in 1 .. n + 1 /\ n + 1 \in i + 1 .. n + 1
        /\ n + 1 \in 1 .. n + 1
    OBVIOUS
  <1>2. n = Len(q)
    OBVIOUS
  <1> HIDE DEF p, n
  <1>3. ASSUME m.type # "ENGINE", Tells(q, last, on)
        PROVE  Tells(p, last, on)
    <2>1. Has(p, "ENGINE") \/ last = on
      BY <1>1, <1>2, <1>3 DEF Has, Tells
    <2>2. ASSUME NEW i \in 1 .. n + 1, p[i].type = "ENGINE",
                 \A k \in i + 1 .. n + 1 : p[k].type # "ENGINE"
          PROVE  p[i].on = on
      <3>1. i \in 1 .. n
        BY <1>1, <1>3, <2>2
      <3>2. \A k \in i + 1 .. n : k \in i + 1 .. n + 1 /\ k \in 1 .. n
        BY <1>1, <3>1
      <3> QED BY <1>1, <1>2, <1>3, <2>2, <3>1, <3>2 DEF Tells
    <2> QED BY <1>1, <2>1, <2>2 DEF Tells
  <1>4. ASSUME m.type = "ENGINE"
        PROVE  Tells(p, last, m.on)
    BY <1>1, <1>4 DEF Tells, Has
  <1> QED BY <1>3, <1>4 DEF p

LEMMA TellsTake ==
    ASSUME NEW q \in Seq(Messages), q # <<>>, NEW last, NEW on, Tells(q, last, on)
    PROVE  /\ Head(q).type # "ENGINE" => Tells(Tail(q), last, on)
           /\ Head(q).type = "ENGINE" => Tells(Tail(q), Head(q).on, on)
  <1> DEFINE p == Tail(q)
             n == Len(p)
  <1>1. /\ n \in Nat /\ Len(q) = n + 1 /\ q[1] = Head(q)
        /\ \A i \in 1 .. n : p[i] = q[i + 1] /\ i + 1 \in 1 .. n + 1
        /\ 1 \in 1 .. n + 1
        /\ \A i \in 1 .. n + 1 : i = 1 \/ (i - 1 \in 1 .. n /\ q[i] = p[i - 1])
    OBVIOUS
  <1>2. n = Len(p)
    OBVIOUS
  <1> HIDE DEF p, n
  <1>3. ASSUME NEW i \in 1 .. n, p[i].type = "ENGINE",
               \A k \in i + 1 .. n : p[k].type # "ENGINE"
        PROVE  p[i].on = on
    <2>1. i + 1 \in 1 .. Len(q) /\ q[i + 1] = p[i]
      BY <1>1
    <2>2. ASSUME NEW k \in (i + 1) + 1 .. Len(q)
          PROVE  q[k].type # "ENGINE"
      <3>1. k - 1 \in i + 1 .. n /\ k \in 1 .. n + 1 /\ k # 1
        BY <1>1
      <3> QED BY <1>1, <1>3, <3>1
    <2> QED BY <1>3, <2>1, <2>2 DEF Tells
  <1>4. ASSUME ~Has(p, "ENGINE"), Head(q).type = "ENGINE"
        PROVE  Head(q).on = on
    <2>1. \A k \in 1 + 1 .. Len(q) : k \in 1 .. n + 1 /\ k # 1
      BY <1>1
    <2>2. \A k \in 1 + 1 .. Len(q) : q[k].type # "ENGINE"
      BY <1>1, <1>2, <1>4, <2>1 DEF Has
    <2> QED BY <1>1, <1>4, <2>2 DEF Tells
  <1>5. ASSUME ~Has(p, "ENGINE"), Head(q).type # "ENGINE"
        PROVE  last = on
    <2>1. ~Has(q, "ENGINE")
      BY <1>1, <1>2, <1>5 DEF Has
    <2> QED BY <2>1 DEF Tells
  <1> QED BY <1>2, <1>3, <1>4, <1>5 DEF Tells, p

(* Whoever posts something else keeps it.                                   *)
LEMMA ReportKept ==
    ASSUME Types, ReportedInv, UNCHANGED <<mEngineOn, engine, unreported>>,
           \/ queue' = queue
           \/ \E m \in Messages : m.type # "ENGINE" /\ queue' = Append(queue, m)
    PROVE  ReportedInv'
  BY TellsPost DEF ReportedInv, Types, QueueTypes

LEMMA ProcessingKeepsReport ==
    ASSUME Types, ReportedInv, Processing
    PROVE  ReportedInv'
  <1>1. /\ queue \in Seq(Messages) /\ queue # <<>> /\ UNCHANGED <<engine, unreported>>
        /\ Tail(queue) \in Seq(Messages)
    BY ProcessingKeepsQueue, ProcessingLeaves, TakeKeepsType
    DEF Types, QueueTypes, environment
  <1>2. CASE unreported
    BY <1>1, <1>2 DEF ReportedInv
  <1>3. CASE ~unreported
    <2>0. Tells(queue, mEngineOn, engine)
      BY <1>3 DEF ReportedInv
    <2>1. CASE OnEngineState
      BY <1>1, <2>0, <2>1, TellsTake DEF OnEngineState, Process, ReportedInv
    <2>2. CASE ~OnEngineState
      <3>1. /\ Head(queue).type # "ENGINE" /\ mEngineOn' = mEngineOn
            /\ \/ queue' = Tail(queue)
               \/ queue' = Append(Tail(queue), Message("START"))
        BY <2>2 DEF Processing, OnOpen, OnUpdate, OnSsr, OnStart, OnStop, OnUp,
           Process, sessionVars
      <3>2. Tells(Tail(queue), mEngineOn, engine)
        BY <1>1, <2>0, <3>1, TellsTake
      <3>3. Message("START") \in Messages /\ Message("START").type # "ENGINE"
        BY MessageIsMessage DEF Message
      <3>4. Tells(queue', mEngineOn, engine)
        BY <1>1, <3>1, <3>2, <3>3, TellsPost
      <3> QED BY <1>1, <3>1, <3>4 DEF ReportedInv
    <2> QED BY <2>1, <2>2
  <1> QED BY <1>2, <1>3

LEMMA ServiceKeepsReport ==
    ASSUME Types, ReportedInv, ServiceComes \/ ServiceLost \/ ErrorCb \/ ModemEngine
    PROVE  ReportedInv'
  <1>0. UNCHANGED mEngineOn /\ queue \in Seq(Messages)
    BY DEF ServiceComes, ServiceLost, ErrorCb, ModemEngine, sessionVars, Types,
       QueueTypes
  <1>1. CASE ServiceComes
    BY <1>0, <1>1, ReportKept DEF ServiceComes
  <1>2. CASE ServiceLost
    <2>1. queue' = queue /\ engine' = FALSE /\ unreported' = (unreported \/ engine)
      BY <1>2 DEF ServiceLost
    <2>2. CASE unreported \/ engine
      BY <2>1, <2>2 DEF ReportedInv
    <2>3. CASE ~unreported /\ ~engine
      <3>1. engine' = engine /\ Tells(queue, mEngineOn, engine)
        BY <2>1, <2>3 DEF ReportedInv, Types, FlagTypes
      <3> QED BY <1>0, <2>1, <3>1 DEF ReportedInv
    <2> QED BY <2>2, <2>3
  <1>3. CASE ErrorCb
    <2>1. errorCb \in {"SSR", "UP"}
      BY <1>3 DEF ErrorCb, Types, FlagTypes
    <2>2. Message(errorCb) \in Messages /\ Message(errorCb).type # "ENGINE"
      BY <2>1, MessageIsMessage DEF Message
    <2> QED BY <1>0, <1>3, <2>2, ReportKept DEF ErrorCb, Post
  <1>4. CASE ModemEngine
    <2> DEFINE report == [type |-> "ENGINE", on |-> engine']
    <2>1. \/ unreported' = TRUE
          \/ queue' = Append(queue, report)
      BY <1>4 DEF ModemEngine, Post
    <2>2. report \in Messages /\ report.type = "ENGINE" /\ report.on = engine'
      BY <1>4 DEF ModemEngine, Types, FlagTypes, Messages
    <2> HIDE DEF report
    <2>3. CASE queue' = Append(queue, report)
      <3>1. Tells(queue', mEngineOn', report.on)
        BY <1>0, <2>2, <2>3, TellsPost
      <3> QED BY <2>2, <3>1 DEF ReportedInv
    <2> QED BY <2>1, <2>3 DEF ReportedInv
  <1> QED BY <1>1, <1>2, <1>3, <1>4

LEMMA AdaptersKeepReport ==
    ASSUME Typed, Typed', ReportedInv, AdaptersChange \/ ArrayChanges
    PROVE  ReportedInv'
  <1>1. UNCHANGED <<mEngineOn, engine, unreported>>
    BY DEF AdaptersChange, AddAdapter, RemoveAdapter, UpdateEvtMask, Begin, Change,
       ArrayChanges, Fill, Empty, FindLast, Move, Clear, Working, sessionVars,
       environment
  <1>2. \/ queue' = queue
        \/ \E mask \in SUBSET Bits : queue' = Append(queue, OpenMessage(mask))
    <2>1. /\ \A a \in Adapters : mEvtMask[a] \in SUBSET Bits
          /\ getEvtMask(mLocAdapters, mEvtMask') \in SUBSET Bits
          /\ getEvtMask(mLocAdapters', mEvtMask) \in SUBSET Bits
      BY WantedAreBits DEF Typed, ArrayInv, ArrayTypes, Types, MaskTypes
    <2> QED BY <2>1 DEF AdaptersChange, AddAdapter, RemoveAdapter, UpdateEvtMask,
            Begin, ArrayChanges, Fill, Empty, FindLast, Move, Clear, Post
  <1>3. \A mask \in SUBSET Bits :
           OpenMessage(mask) \in Messages /\ OpenMessage(mask).type # "ENGINE"
    BY OpenIsMessage DEF OpenMessage
  <1> QED BY <1>1, <1>2, <1>3, ReportKept DEF Typed

LEMMA NextKeepsReport == Typed /\ Typed' /\ ReportedInv /\ [Next]_vars => ReportedInv'
  <1> SUFFICES ASSUME Typed, Typed', ReportedInv, [Next]_vars PROVE ReportedInv'
    OBVIOUS
  <1>0. Types
    BY DEF Typed
  <1>1. CASE UNCHANGED vars
    BY <1>0, <1>1, ReportKept DEF vars, sessionVars, environment
  <1>2. CASE AdaptersChange \/ ArrayChanges
    BY <1>2, AdaptersKeepReport
  <1>3. CASE FrameworkCalls
    <2>1. UNCHANGED <<mEngineOn, engine, unreported>>
      BY <1>3 DEF FrameworkCalls, Start, Stop, GpsMeasurementInit,
         GpsMeasurementClose, Call, sessionVars, environment
    <2>2. \E m \in Messages : m.type # "ENGINE" /\ queue' = Append(queue, m)
      BY <1>3 DEF FrameworkCalls, Start, Stop, GpsMeasurementInit,
         GpsMeasurementClose, Post, Messages, Message, UpdateMessage
    <2> QED BY <1>0, <2>1, <2>2, ReportKept
  <1>4. CASE LocClientOpen
    BY <1>0, <1>4, ReportKept DEF LocClientOpen, Connect, OpenRegisters, OpenFails,
       OpenEnds, InOpen, sessionVars, environment
  <1>5. CASE Processing
    BY <1>0, <1>5, ProcessingKeepsReport
  <1>6. CASE ServiceComes \/ ServiceLost \/ ErrorCb \/ ModemEngine
    BY <1>0, <1>6, ServiceKeepsReport
  <1> QED BY <1>1, <1>2, <1>3, <1>4, <1>5, <1>6 DEF Next, MessageThread, Processing

LEMMA InitReport == Init => ReportedInv
  <1> SUFFICES ASSUME Init PROVE ReportedInv
    OBVIOUS
  <1>1. /\ Len(queue) = Len(Early)
        /\ \A i \in 1 .. Len(queue) : queue[i].type = "OPEN"
    BY ConstantsAssumption, InitTypes DEF Init, Types, QueueTypes, OpenMessage
  <1>2. mEngineOn = FALSE /\ engine = FALSE
    BY DEF Init
  <1> QED BY <1>1, <1>2 DEF ReportedInv, Tells

(* Out of a session its events are registered only while the engine was     *)
(* last heard to be on, and either that is so, or a report is queued, or    *)
(* the engine's last change was never reported; a failed request excepted:  *)
(* adjustMaskForNoSession and reportEngineState, for any masks and events.  *)
THEOREM Silence == Spec => []SilentOutOfSession
  <1>1. Init => Typed /\ SilenceInv /\ ReportedInv
    BY InitArray, InitTypes, InitSilence, InitReport DEF Typed
  <1>2. Typed /\ SilenceInv /\ ReportedInv /\ [Next]_vars =>
           (Typed /\ SilenceInv /\ ReportedInv)'
    BY NextKeepsTypes, NextKeepsSilence, NextKeepsReport
  <1>3. Typed /\ SilenceInv /\ ReportedInv => SilentOutOfSession
    BY DEF Typed, Types, FlagTypes, SilenceInv, SilentAsHeard, ReportedInv, Tells,
       SilentOutOfSession
  <1> QED BY <1>1, <1>2, <1>3, PTL DEF Spec

----------------------------------------------------------------------------
(* What is wanted is registered                                             *)

(* The bits that queued openings ask for.                                   *)
Asks(q) ==
    {bit \in Bits \ mExcludedMask :
        \E i \in 1 .. Len(q) : q[i].type = "OPEN" /\ bit \in q[i].mask}

Measures(q) == \E i \in 1 .. Len(q) : q[i].type = "UPDATE" /\ q[i].isEnabled

UpBehind(q) ==
    \A i \in 1 .. Len(q) :
        q[i].type = "SSR" => \E k \in i + 1 .. Len(q) : q[k].type = "UP"

(* What the adapters want, as the array lists them; a destructor that is at *)
(* work there will post that.                                               *)
Asked == getEvtMask(mLocAdapters, mEvtMask)
Removing == \E a \in Adapters : working[a].step \in {"EMPTY", "FIND", "MOVE", "CLEAR"}

(* What the client has asked for, or is about to.                           *)
Base == IF opening = IDLE THEN mMask ELSE opening.mask

ResetDue == errorCb = "SSR" \/ Has(queue, "SSR")
UpDue == errorCb # "IDLE" \/ Has(queue, "UP")

(* A reset that is due has its restart behind it; a client is without its   *)
(* service only until a reset; it is closed only at the beginning, and      *)
(* while it is opened.                                                      *)
ResetInv ==
    /\ errorCb = "UP" \/ UpBehind(queue)
    /\ losses = 0 => ~ResetDue
    /\ clientHandle /\ ~connected => ResetDue \/ stale
    /\ ~clientHandle /\ opening = IDLE =>
          \/ stale
          \/ ~mNavigating /\ queue # <<>> /\ Head(queue).type = "OPEN"
    /\ opening # IDLE => ~clientHandle

(* What adapters want has been asked for, or will be.                       *)
AskedInv ==
    /\ \/ raced \/ stale \/ Removing \/ ResetDue
       \/ Asked \subseteq Base \cup Asks(queue)
    /\ measuring /\ losses = 0 =>
          \/ stale \/ Measures(queue)
          \/ Measurement \in Base \cup mExcludedMask

(* What was asked for is registered, but for the events of a session.       *)
AnsweredInv ==
    /\ connected /\ opening = IDLE =>
          \/ stale
          \/ /\ mQmiMask = convertMask(mMask)
             /\ adjustMaskForNoSession(mQmiMask) \subseteq registered
    /\ connected /\ opening.step = "REGISTERED" =>
          adjustMaskForNoSession(convertMask(opening.mask)) \subseteq registered

(* Those are registered, or the session is about to be restarted.           *)
SessionInv ==
    /\ mNavigating => mInSession
    /\ mNavigating => \/ stale \/ UpDue
                      \/ opening = IDLE /\ (connected => mQmiMask \subseteq registered)

CoverInv == ResetInv /\ AskedInv /\ AnsweredInv /\ SessionInv

LEMMA QueuePost ==
    ASSUME NEW q \in Seq(Messages), NEW m \in Messages
    PROVE  /\ \A type : Has(Append(q, m), type) <=> Has(q, type) \/ m.type = type
           /\ Asks(q) \subseteq Asks(Append(q, m))
           /\ m.type = "OPEN" => (m.mask \cap Bits) \ mExcludedMask \subseteq Asks(Append(q, m))
           /\ Measures(q) => Measures(Append(q, m))
           /\ m.type = "UPDATE" /\ m.isEnabled => Measures(Append(q, m))
           /\ UpBehind(q) /\ m.type # "SSR" => UpBehind(Append(q, m))
           /\ m.type = "UP" => UpBehind(Append(q, m))
           /\ Append(q, m) # <<>>
           /\ q # <<>> => Head(Append(q, m)) = Head(q)
  <1> DEFINE p == Append(q, m)
             n == Len(q)
  <1>1. /\ n \in Nat /\ Len(p) = n + 1 /\ p[n + 1] = m
        /\ \A i \in 1 .. n : p[i] = q[i]
    OBVIOUS
  <1>2. p # <<>> /\ (q # <<>> => Head(p) = Head(q))
    <2>1. p \in Seq(Messages) /\ p # <<>> /\ Head(p) = p[1]
      BY <1>1
    <2>2. q # <<>> => Head(q) = q[1] /\ 1 \in 1 .. n
      OBVIOUS
    <2> QED BY <1>1, <2>1, <2>2
  <1> HIDE DEF p, n
  <1>3. \A i \in 1 .. n + 1 : i \in 1 .. n \/ i = n + 1
    BY <1>1
  <1>4. 1 .. n \subseteq 1 .. n + 1 /\ n + 1 \in 1 .. n + 1
    BY <1>1
  <1>5. n = Len(q)
    BY DEF n
  <1>6. \A type : Has(p, type) <=> Has(q, type) \/ m.type = type
    BY <1>1, <1>3, <1>4, <1>5 DEF Has
  <1>7. Asks(q) \subseteq Asks(p) /\ (Measures(q) => Measures(p))
    BY <1>1, <1>4, <1>5 DEF Asks, Measures
  <1>8. /\ m.type = "OPEN" => (m.mask \cap Bits) \ mExcludedMask \subseteq Asks(p)
        /\ m.type = "UPDATE" /\ m.isEnabled => Measures(p)
    BY <1>1, <1>4 DEF Asks, Measures
  <1>9. /\ UpBehind(q) /\ m.type # "SSR" => UpBehind(p)
        /\ m.type = "UP" => UpBehind(p)
    BY <1>1, <1>3, <1>5 DEF UpBehind
  <1> QED BY <1>2, <1>6, <1>7, <1>8, <1>9 DEF p

LEMMA QueueTake ==
    ASSUME NEW q \in Seq(Messages), q # <<>>
    PROVE  /\ \A type : Has(q, type) <=> Head(q).type = type \/ Has(Tail(q), type)
           /\ Head(q).type = "OPEN" =>
                 Asks(q) \subseteq Asks(Tail(q)) \cup (Head(q).mask \ mExcludedMask)
           /\ Head(q).type # "OPEN" => Asks(q) \subseteq Asks(Tail(q))
           /\ Measures(q) =>
                 Measures(Tail(q)) \/ (Head(q).type = "UPDATE" /\ Head(q).isEnabled)
           /\ UpBehind(q) => UpBehind(Tail(q))
           /\ UpBehind(q) /\ Head(q).type = "SSR" => Has(Tail(q), "UP")
  <1> DEFINE p == Tail(q)
             n == Len(p)
  <1>1. /\ n \in Nat /\ Len(q) = n + 1 /\ q[1] = Head(q)
        /\ \A i \in 1 .. n : p[i] = q[i + 1]
    OBVIOUS
  <1> HIDE DEF p
  <1>2. \A i \in 1 .. Len(q) : i = 1 \/ (i - 1 \in 1 .. n /\ q[i] = p[i - 1])
    BY <1>1
  <1>3. \A i \in 1 .. n : i + 1 \in 1 .. Len(q) /\ p[i] = q[i + 1]
    BY <1>1
  <1>4. 1 \in 1 .. Len(q) /\ q[1] = Head(q)
    BY <1>1
  <1>5. \A type : Has(q, type) <=> Head(q).type = type \/ Has(p, type)
    BY <1>2, <1>3, <1>4 DEF Has
  <1>6. /\ Head(q).type = "OPEN" =>
              Asks(q) \subseteq Asks(p) \cup (Head(q).mask \ mExcludedMask)
        /\ Head(q).type # "OPEN" => Asks(q) \subseteq Asks(p)
    BY <1>2, <1>4 DEF Asks
  <1>7. Measures(q) =>
           Measures(p) \/ (Head(q).type = "UPDATE" /\ Head(q).isEnabled)
    BY <1>2, <1>4 DEF Measures
  <1>8. ASSUME UpBehind(q), NEW i \in 1 .. Len(q), q[i].type = "SSR"
        PROVE  \E k \in i .. n : p[k].type = "UP"
    <2>1. PICK k \in i + 1 .. Len(q) : q[k].type = "UP"
      BY <1>8 DEF UpBehind
    <2>2. k - 1 \in i .. n /\ k \in 1 .. Len(q) /\ k # 1
      BY <1>1
    <2> QED BY <1>2, <2>1, <2>2
  <1>9. UpBehind(q) => UpBehind(p)
    <2> SUFFICES ASSUME UpBehind(q), NEW i \in 1 .. n, p[i].type = "SSR"
                 PROVE  \E k \in i + 1 .. n : p[k].type = "UP"
      BY DEF UpBehind
    <2> QED BY <1>3, <1>8
  <1>10. UpBehind(q) /\ Head(q).type = "SSR" => Has(p, "UP")
    BY <1>4, <1>8 DEF Has
  <1> QED BY <1>5, <1>6, <1>7, <1>9, <1>10 DEF p

LEMMA InitCover == Init => CoverInv
  <1> SUFFICES ASSUME Init PROVE CoverInv
    OBVIOUS
  <1> USE ConstantsAssumption
  <1>1. /\ queue \in Seq(Messages) /\ queue # <<>>
        /\ \A i \in 1 .. Len(queue) : queue[i].type = "OPEN"
        /\ opening = IDLE /\ opening.step = "IDLE" /\ errorCb = "IDLE"
        /\ clientHandle = FALSE /\ connected = FALSE /\ mNavigating = FALSE
        /\ measuring = FALSE
    BY InitTypes DEF Init, Types, QueueTypes, OpenMessage, IDLE
  <1>2. Head(queue).type = "OPEN"
    BY <1>1
  <1>3. ~Has(queue, "SSR") /\ UpBehind(queue)
    BY <1>1 DEF Has, UpBehind
  <1>4. ResetInv
    BY <1>1, <1>2, <1>3 DEF ResetInv, ResetDue
  <1>5. Asked \subseteq Asks(queue)
    <2> SUFFICES ASSUME NEW bit \in getEvtMask(mLocAdapters, mEvtMask)
                 PROVE  bit \in Asks(queue)
      BY DEF Asked
    <2>1. PICK i \in Slots : /\ mLocAdapters[i] # NULL
                             /\ bit \in mEvtMask[mLocAdapters[i]] \ mExcludedMask
      <3>1. PICK j \in Slots : /\ \A k \in 1 .. j : mLocAdapters[k] # NULL
                               /\ bit \in mEvtMask[mLocAdapters[j]] \ mExcludedMask
        <4>1. PICK a \in Listed(mLocAdapters) : bit \in mEvtMask[a]
          BY DEF getEvtMask
        <4>2. bit \notin mExcludedMask
          BY DEF getEvtMask
        <4> QED BY <4>1, <4>2 DEF Listed
      <3>2. j \in 1 .. j
        BY DEF Slots
      <3> QED BY <3>1, <3>2
    <2>2. i \in 1 .. Len(Early) /\ mLocAdapters[i] = Early[i]
      BY <2>1 DEF Init, Slots
    <2>3. i \in 1 .. Len(queue) /\ queue[i] = OpenMessage(InitialMask[Early[i]])
      BY <2>2 DEF Init
    <2>4. Early[i] \in Adapters
      BY <2>2
    <2>5. bit \in InitialMask[Early[i]] \ mExcludedMask /\ bit \in Bits
      BY <2>1, <2>2, <2>4 DEF Init
    <2> QED BY <2>3, <2>5 DEF Asks, OpenMessage
  <1> QED BY <1>1, <1>4, <1>5 DEF CoverInv, AskedInv, AnsweredInv, SessionInv

(* Who posts and changes nothing of the client keeps what does not depend   *)
(* on the adapters.                                                         *)
LEMMA PostingKeeps ==
    ASSUME CoverInv, Types,
           \/ queue' = queue
           \/ \E m \in Messages : /\ m.type \notin {"SSR", "UP"}
                                  /\ queue' = Append(queue, m),
           UNCHANGED <<opening, mMask, mQmiMask, clientHandle, mInSession,
                       mNavigating, connected, registered, stale, losses, errorCb>>
    PROVE  /\ ResetInv' /\ AnsweredInv' /\ SessionInv'
           /\ Base' = Base /\ (ResetDue' <=> ResetDue)
           /\ Asks(queue) \subseteq Asks(queue')
           /\ Measures(queue) => Measures(queue')
  <1>1. queue \in Seq(Messages)
    BY DEF Types, QueueTypes
  <1>2. /\ Has(queue', "SSR") <=> Has(queue, "SSR")
        /\ Has(queue', "UP") <=> Has(queue, "UP")
        /\ Has(queue, "START") => Has(queue', "START")
        /\ UpBehind(queue) => UpBehind(queue')
        /\ queue # <<>> => queue' # <<>> /\ Head(queue') = Head(queue)
        /\ Asks(queue) \subseteq Asks(queue')
        /\ Measures(queue) => Measures(queue')
    <2>1. CASE queue' = queue
      BY <2>1
    <2>2. ASSUME NEW m \in Messages, m.type \notin {"SSR", "UP"},
                 queue' = Append(queue, m)
          PROVE  /\ Has(queue', "SSR") <=> Has(queue, "SSR")
                 /\ Has(queue', "UP") <=> Has(queue, "UP")
                 /\ Has(queue, "START") => Has(queue', "START")
                 /\ UpBehind(queue) => UpBehind(queue')
                 /\ queue # <<>> => queue' # <<>> /\ Head(queue') = Head(queue)
                 /\ Asks(queue) \subseteq Asks(queue')
                 /\ Measures(queue) => Measures(queue')
      BY <1>1, <2>2, QueuePost
    <2> QED BY <2>1, <2>2
  <1> QED BY <1>2 DEF CoverInv, ResetInv, ResetDue, AnsweredInv, SessionInv,
             UpDue, Base

LEMMA NobodyRemoves ==
    ASSUME \A b \in AtWork : working[b].step = "FILL"
    PROVE  ~Removing
  <1>1. ASSUME NEW b \in Adapters
        PROVE  working[b].step \in {"NOTHING", "FILL"}
    BY <1>1, StepOfNothing DEF AtWork
  <1> QED BY <1>1 DEF Removing

LEMMA GoesOnRemoving ==
    ASSUME ArrayInv, NEW a \in Adapters, NEW work \in Works, WorkOn(a, work),
           work.step \in {"EMPTY", "FIND", "MOVE", "CLEAR"}
    PROVE  Removing'
  <1>1. working'[a] = work
    BY WorkChanges DEF ArrayInv
  <1> QED BY <1>1 DEF Removing

(* The masks of others do not count, and destroying who is not listed      *)
(* changes no mask.                                                         *)
LEMMA WantedOfOthers ==
    ASSUME NEW slots \in [Slots -> Adapters \cup {NULL}], NEW a \in Adapters,
           Absent(a, slots), NEW m1, NEW m2,
           \A b \in Adapters : b # a => m1[b] = m2[b]
    PROVE  getEvtMask(slots, m1) = getEvtMask(slots, m2)
  <1>1. ASSUME NEW b \in Listed(slots)
        PROVE  m1[b] = m2[b]
    <2>1. PICK i \in Slots : b = slots[i] /\ \A k \in 1 .. i : slots[k] # NULL
      BY DEF Listed
    <2>2. i \in 1 .. i
      BY ConstantsAssumption DEF Slots
    <2> QED BY <2>1, <2>2 DEF Absent
  <1> QED BY <1>1 DEF getEvtMask

LEMMA DestroyedAbsent ==
    ASSUME NEW slots, NEW a \in Adapters, Absent(a, slots), Destroyed(a, slots),
           mEvtMask \in [Adapters -> SUBSET Bits]
    PROVE  mEvtMask' = mEvtMask
  <1>1. mEvtMask' = [mEvtMask EXCEPT ![a] = mEvtMask[a]]
    BY DEF Destroyed, Absent
  <1> QED BY <1>1

(* What the adapters want grows by what is posted, but while one is removed.*)
Grows ==
    \/ raced' \/ Removing'
    \/ ~Removing /\ queue' = queue /\ Asked' \subseteq Asked
    \/ \E mask \in SUBSET Bits :
          /\ queue' = Append(queue, OpenMessage(mask))
          /\ \/ Asked' \subseteq mask
             \/ ~Removing /\ Asked' \subseteq Asked \cup (mask \ mExcludedMask)

LEMMA AddGrows ==
    ASSUME Typed, NEW a \in Adapters, AddAdapter(a)
    PROVE  Grows
  <1>1. /\ raced' = (raced \/ AtWork # {}) /\ a \notin constructed
        /\ UNCHANGED <<mLocAdapters, queue>>
        /\ mEvtMask' = [mEvtMask EXCEPT ![a] = InitialMask[a]]
    BY DEF AddAdapter, Begin
  <1>2. ASSUME ~raced'
        PROVE  ~Removing /\ Asked' = Asked
    <2>1. AtWork = {} /\ Tidy(mLocAdapters, constructed, 0) /\ ArrayTypes
      BY <1>1, <1>2 DEF Typed, ArrayInv, AloneInv
    <2>2. Absent(a, mLocAdapters)
      BY <1>1, <2>1, TidyWith DEF ArrayTypes
    <2>3. \A b \in Adapters : b # a => mEvtMask'[b] = mEvtMask[b]
      BY <1>1 DEF Typed, Types, MaskTypes
    <2>4. getEvtMask(mLocAdapters, mEvtMask') = getEvtMask(mLocAdapters, mEvtMask)
      BY <2>1, <2>2, <2>3, WantedOfOthers DEF ArrayTypes
    <2> QED BY <1>1, <2>1, <2>4, NobodyRemoves DEF Asked
  <1> QED BY <1>1, <1>2 DEF Grows

LEMMA RemoveGrows ==
    ASSUME Typed, NEW a \in Adapters, RemoveAdapter(a)
    PROVE  Grows
  <1>1. raced' = (raced \/ AtWork # {}) /\ UNCHANGED <<mLocAdapters, queue>>
    BY DEF RemoveAdapter, Begin
  <1>2. ASSUME NEW i \in Slots, WorkOn(a, Work("EMPTY", i, i))
        PROVE  Grows
    BY <1>2, GoesOnRemoving, WorkIsWork DEF Typed, Grows
  <1>3. ASSUME ~ \E i \in Slots : Found(a, mLocAdapters, 1, i),
               Destroyed(a, mLocAdapters), ~raced'
        PROVE  ~Removing /\ Asked' = Asked
    <2>1. AtWork = {} /\ Tidy(mLocAdapters, constructed, 0)
      BY <1>1, <1>3 DEF Typed, ArrayInv, AloneInv
    <2>2. Absent(a, mLocAdapters)
      BY <1>3, <2>1, NotFound
    <2>3. mEvtMask' = mEvtMask
      BY <1>3, <2>2, DestroyedAbsent DEF Typed, Types, MaskTypes
    <2> QED BY <1>1, <2>1, <2>3, NobodyRemoves DEF Asked
  <1> QED BY <1>1, <1>2, <1>3 DEF RemoveAdapter, Grows

LEMMA UpdateGrows ==
    ASSUME Typed, Typed', NEW a \in Adapters, NEW bit \in Updates, UpdateEvtMask(a, bit)
    PROVE  Grows
  <1>1. Asked' \in SUBSET Bits
    BY WantedAreBits DEF Typed, ArrayInv, ArrayTypes, Types, MaskTypes, Asked
  <1>2. queue' = Append(queue, OpenMessage(Asked'))
    BY DEF UpdateEvtMask, Post, Asked
  <1> QED BY <1>1, <1>2 DEF Grows

LEMMA FillGrows ==
    ASSUME Typed, NEW a \in Adapters, Fill(a)
    PROVE  Grows
  <1> DEFINE i == working[a].slot
             slots == mLocAdapters
  <1>1. /\ slots \in [Slots -> Adapters \cup {NULL}] /\ raced' = raced
        /\ i \in Slots /\ working[a].step = "FILL"
        /\ ~raced => /\ AtWork \subseteq {a}
                     /\ Stage(a, working[a], slots, constructed)
    BY WorkingStage DEF Fill, Typed, ArrayTypes
  <1>2. /\ mLocAdapters' = [slots EXCEPT ![i] = a] /\ mEvtMask' = mEvtMask
        /\ queue' = Append(queue, OpenMessage(mEvtMask[a]))
        /\ mEvtMask[a] \in SUBSET Bits
    BY DEF Fill, Post, Typed, Types, MaskTypes
  <1>3. ASSUME ~raced, NEW b \in Listed(mLocAdapters')
        PROVE  b = a \/ b \in Listed(slots)
    <2>1. PICK j \in Slots : /\ b = mLocAdapters'[j]
                             /\ \A k \in 1 .. j : mLocAdapters'[k] # NULL
      BY <1>3 DEF Listed
    <2>2. Tidy(slots, constructed, 0) /\ slots[i] = NULL
      BY <1>1, <1>3 DEF Stage
    <2> HIDE DEF i, slots
    <2>3. CASE j = i
      BY <1>1, <1>2, <2>1, <2>3
    <2>4. CASE j # i
      <3>1. j \in 1 .. j /\ \A k \in 1 .. j : k \in Slots
        BY ConstantsAssumption DEF Slots
      <3>2. slots[j] = b /\ b # NULL
        BY <1>1, <1>2, <2>1, <2>4, <3>1
      <3>3. i \notin 1 .. j
        BY <1>1, <2>2, <2>4, <3>2, ConstantsAssumption DEF Tidy, Slots
      <3>4. \A k \in 1 .. j : slots[k] # NULL
        BY <1>1, <1>2, <2>1, <3>1, <3>3
      <3> QED BY <3>2, <3>4 DEF Listed
    <2> QED BY <2>3, <2>4
  <1>4. ASSUME ~raced
        PROVE  ~Removing /\ Asked' \subseteq Asked \cup (mEvtMask[a] \ mExcludedMask)
    <2>1. ~Removing
      BY <1>1, <1>4, NobodyRemoves
    <2>2. Asked' = getEvtMask(mLocAdapters', mEvtMask)
      BY <1>2 DEF Asked
    <2> QED BY <1>3, <1>4, <2>1, <2>2 DEF Asked, getEvtMask
  <1> QED BY <1>1, <1>2, <1>4 DEF Grows

LEMMA ClearGrows ==
    ASSUME Typed, Typed', NEW a \in Adapters, Clear(a)
    PROVE  Grows
  <1>1. /\ raced' = raced
        /\ queue' = Append(queue, OpenMessage(getEvtMask(mLocAdapters', mEvtMask)))
        /\ mEvtMask \in [Adapters -> SUBSET Bits]
        /\ mEvtMask' = mEvtMask \/ Destroyed(a, mLocAdapters')
    BY DEF Clear, Working, Post, Typed, Types, MaskTypes
  <1>2. ASSUME ~raced
        PROVE  mEvtMask' = mEvtMask
    <2>1. Absent(a, mLocAdapters')
      BY <1>2, ClearKeepsArray DEF Typed
    <2> QED BY <1>1, <2>1, DestroyedAbsent
  <1>3. ~raced => queue' = Append(queue, OpenMessage(Asked'))
    BY <1>1, <1>2 DEF Asked
  <1>4. Asked' \in SUBSET Bits
    BY WantedAreBits DEF Typed, ArrayInv, ArrayTypes, Types, MaskTypes, Asked
  <1> QED BY <1>1, <1>3, <1>4 DEF Grows

LEMMA ArrayChangesGrow ==
    ASSUME Typed, Typed', AdaptersChange \/ ArrayChanges
    PROVE  Grows
  <1>1. CASE AdaptersChange
    BY <1>1, AddGrows, RemoveGrows, UpdateGrows DEF AdaptersChange
  <1>2. ASSUME NEW a \in Adapters, Empty(a) \/ FindLast(a) \/ Move(a)
        PROVE  Grows
    <2>1. \E work \in Works : /\ WorkOn(a, work)
                              /\ work.step \in {"FIND", "MOVE", "CLEAR"}
      <3>1. /\ working[a] \in Works /\ working[a] # NOTHING
            /\ working[a].slot \in Slots
        BY <1>2, WorkingStage DEF Empty, FindLast, Move, Typed
      <3>2. ASSUME NEW step \in {"FIND", "CLEAR"}
            PROVE  /\ [working[a] EXCEPT !.step = step] \in Works
                   /\ [working[a] EXCEPT !.step = step].step = step
        BY <3>1 DEF Works
      <3>3. CASE Empty(a)
        BY <3>2, <3>3 DEF Empty
      <3>4. CASE Move(a)
        BY <3>2, <3>4 DEF Move
      <3>5. CASE FindLast(a)
        BY <3>1, <3>5, WorkIsWork DEF FindLast
      <3> QED BY <1>2, <3>3, <3>4, <3>5
    <2> QED BY <2>1, GoesOnRemoving DEF Typed, Grows
  <1> QED BY <1>1, <1>2, FillGrows, ClearGrows DEF ArrayChanges

(* What an adapter posts asks for its mask, and nothing else is changed.    *)
LEMMA AdaptersPost ==
    ASSUME Typed, Typed', AdaptersChange \/ ArrayChanges
    PROVE  /\ UNCHANGED <<opening, maskVars, sessionVars, framework, client, environment>>
           /\ raced => raced'
           /\ \/ queue' = queue
              \/ \E mask \in SUBSET Bits : queue' = Append(queue, OpenMessage(mask))
  <1>1. UNCHANGED <<opening, maskVars, sessionVars, framework, client, environment>>
    BY DEF AdaptersChange, AddAdapter, RemoveAdapter, UpdateEvtMask, Begin, Change,
       ArrayChanges, Fill, Empty, FindLast, Move, Clear, Working
  <1>2. raced => raced'
    BY DEF AdaptersChange, AddAdapter, RemoveAdapter, UpdateEvtMask, Begin,
       ArrayChanges, Fill, Empty, FindLast, Move, Clear, Working
  <1>3. ASSUME NEW a \in Adapters
        PROVE  /\ mEvtMask[a] \in SUBSET Bits
               /\ getEvtMask(mLocAdapters', mEvtMask) \in SUBSET Bits
               /\ getEvtMask(mLocAdapters', mEvtMask') \in SUBSET Bits
    BY WantedAreBits DEF Typed, ArrayInv, ArrayTypes, Types, MaskTypes
  <1>4. ASSUME NEW a \in Adapters, Fill(a) \/ Clear(a)
        PROVE  \E mask \in SUBSET Bits : queue' = Append(queue, OpenMessage(mask))
    BY <1>3, <1>4 DEF Fill, Clear, Post
  <1>5. ASSUME NEW a \in Adapters, NEW bit \in Updates, UpdateEvtMask(a, bit)
        PROVE  \E mask \in SUBSET Bits : queue' = Append(queue, OpenMessage(mask))
    BY <1>3, <1>5 DEF UpdateEvtMask, Post
  <1>6. ASSUME NEW a \in Adapters, \/ AddAdapter(a) \/ RemoveAdapter(a)
                                   \/ Empty(a) \/ FindLast(a) \/ Move(a)
        PROVE  queue' = queue
    BY <1>6 DEF AddAdapter, RemoveAdapter, Begin, Empty, FindLast, Move
  <1> QED BY <1>1, <1>2, <1>4, <1>5, <1>6 DEF AdaptersChange, ArrayChanges

LEMMA AdaptersKeepCover ==
    ASSUME Typed, Typed', CoverInv, AdaptersChange \/ ArrayChanges
    PROVE  CoverInv'
  <1>1. /\ UNCHANGED <<opening, maskVars, sessionVars, framework, client, environment>>
        /\ raced => raced'
        /\ \/ queue' = queue
           \/ \E mask \in SUBSET Bits : queue' = Append(queue, OpenMessage(mask))
    BY AdaptersPost
  <1>2. \/ queue' = queue
        \/ \E m \in Messages : /\ m.type \notin {"SSR", "UP"}
                               /\ queue' = Append(queue, m)
    <2>1. ASSUME NEW mask \in SUBSET Bits
          PROVE  OpenMessage(mask).type = "OPEN" /\ OpenMessage(mask) \in Messages
      BY OpenIsMessage DEF OpenMessage
    <2> QED BY <1>1, <2>1
  <1>3. UNCHANGED <<opening, mMask, mQmiMask, clientHandle, mInSession, mNavigating,
                    connected, registered, stale, losses, errorCb, measuring>>
    BY <1>1 DEF maskVars, sessionVars, framework, client, environment
  <1>4. /\ ResetInv' /\ AnsweredInv' /\ SessionInv'
        /\ Base' = Base /\ (ResetDue' <=> ResetDue)
        /\ Asks(queue) \subseteq Asks(queue')
        /\ Measures(queue) => Measures(queue')
    BY <1>2, <1>3, PostingKeeps DEF Typed
  <1>5. AskedInv'
    <2>1. /\ \/ raced \/ stale \/ Removing \/ ResetDue
             \/ Asked \subseteq Base \cup Asks(queue)
          /\ measuring /\ losses = 0 =>
                \/ stale \/ Measures(queue)
                \/ Measurement \in Base \cup mExcludedMask
      BY DEF CoverInv, AskedInv
    <2>2. ASSUME NEW mask \in SUBSET Bits, queue' = Append(queue, OpenMessage(mask))
          PROVE  mask \ mExcludedMask \subseteq Asks(queue')
      <3>1. OpenMessage(mask) \in Messages /\ OpenMessage(mask).type = "OPEN"
            /\ OpenMessage(mask).mask = mask
        BY OpenIsMessage DEF OpenMessage
      <3>2. queue \in Seq(Messages)
        BY DEF Typed, Types, QueueTypes
      <3>3. (mask \cap Bits) \ mExcludedMask \subseteq Asks(queue')
        BY <2>2, <3>1, <3>2, QueuePost
      <3> QED BY <3>3
    <2>3. Asked' \cap mExcludedMask = {}
      BY DEF Asked, getEvtMask
    <2>4. \/ raced' \/ Removing'
          \/ ~Removing /\ Asked' \subseteq Asked
          \/ ~Removing /\ Asked' \subseteq Asked \cup Asks(queue')
          \/ Asked' \subseteq Asks(queue')
      BY <2>2, <2>3, ArrayChangesGrow DEF Grows
    <2>5. \/ raced' \/ stale' \/ Removing' \/ ResetDue'
          \/ Asked' \subseteq Base' \cup Asks(queue')
      BY <1>1, <1>3, <1>4, <2>1, <2>4
    <2> QED BY <1>3, <1>4, <2>1, <2>5 DEF AskedInv
  <1> QED BY <1>4, <1>5 DEF CoverInv

LEMMA FrameworkKeepsCover ==
    ASSUME Typed, CoverInv, FrameworkCalls
    PROVE  CoverInv'
  <1>1. /\ UNCHANGED <<adapterVars, opening, maskVars, sessionVars, client, environment>>
        /\ \E m \in Messages : /\ m.type \notin {"SSR", "UP"}
                               /\ queue' = Append(queue, m)
                               /\ measuring' => \/ measuring
                                                \/ m.type = "UPDATE" /\ m.isEnabled
    <2>1. CASE Start \/ Stop
      <3>1. \A type \in {"START", "STOP"} :
               Message(type) \in Messages /\ Message(type).type = type
        BY MessageIsMessage DEF Message
      <3> QED BY <2>1, <3>1 DEF Start, Stop, Call, Post
    <2>2. CASE GpsMeasurementInit \/ GpsMeasurementClose
      <3>1. \A on \in BOOLEAN :
               /\ UpdateMessage(on) \in Messages
               /\ UpdateMessage(on).type = "UPDATE" /\ UpdateMessage(on).isEnabled = on
        BY DEF UpdateMessage, Messages
      <3> QED BY <2>2, <3>1 DEF GpsMeasurementInit, GpsMeasurementClose, Call, Post
    <2> QED BY <2>1, <2>2 DEF FrameworkCalls
  <1>2. UNCHANGED <<opening, mMask, mQmiMask, clientHandle, mInSession, mNavigating,
                    connected, registered, stale, losses, errorCb,
                    mLocAdapters, mEvtMask, working, raced>>
    BY <1>1 DEF maskVars, sessionVars, client, environment, adapterVars
  <1>3. /\ ResetInv' /\ AnsweredInv' /\ SessionInv'
        /\ Base' = Base /\ (ResetDue' <=> ResetDue)
        /\ Asks(queue) \subseteq Asks(queue')
        /\ Measures(queue) => Measures(queue')
    BY <1>1, <1>2, PostingKeeps DEF Typed
  <1>4. measuring' => measuring \/ Measures(queue')
    BY <1>1, QueuePost DEF Typed, Types, QueueTypes
  <1>5. Asked' = Asked /\ (Removing' <=> Removing)
    BY <1>2 DEF Asked, Removing
  <1> QED BY <1>2, <1>3, <1>4, <1>5 DEF CoverInv, AskedInv

(* The service comes and goes, and what the callback thread posts of it.    *)
LEMMA ServiceKeepsCover ==
    ASSUME Typed, SilenceInv, CoverInv,
           ServiceComes \/ ServiceLost \/ ErrorCb \/ ModemEngine
    PROVE  CoverInv'
  <1>0. queue \in Seq(Messages)
    BY DEF Typed, Types, QueueTypes
  <1>1. /\ UNCHANGED <<opening, mMask, mQmiMask, clientHandle, mInSession,
                       mNavigating, stale, mLocAdapters, mEvtMask, working, raced,
                       measuring>>
        /\ Asked' = Asked /\ (Removing' <=> Removing)
    BY DEF ServiceComes, ServiceLost, ErrorCb, ModemEngine, maskVars,
       sessionVars, client, adapterVars, framework, Asked, Removing
  <1>2. CASE ServiceComes \/ ModemEngine
    <2>1. \/ queue' = queue
          \/ \E m \in Messages : /\ m.type \notin {"SSR", "UP"}
                                 /\ queue' = Append(queue, m)
      <3>1. engine \in BOOLEAN
        BY DEF Typed, Types, FlagTypes
      <3>2. \A on \in BOOLEAN : [type |-> "ENGINE", on |-> on] \in Messages
        BY DEF Messages
      <3>3. CASE ServiceComes
        BY <3>3 DEF ServiceComes
      <3>4. CASE ModemEngine
        BY <3>1, <3>2, <3>4 DEF ModemEngine, Post
      <3> QED BY <1>2, <3>3, <3>4
    <2>2. UNCHANGED <<connected, registered, losses, errorCb>>
      BY <1>2 DEF ServiceComes, ModemEngine, client
    <2>3. /\ ResetInv' /\ AnsweredInv' /\ SessionInv'
          /\ Base' = Base /\ (ResetDue' <=> ResetDue)
          /\ Asks(queue) \subseteq Asks(queue')
          /\ Measures(queue) => Measures(queue')
      BY <1>1, <2>1, <2>2, PostingKeeps DEF Typed
    <2> QED BY <1>1, <2>2, <2>3 DEF CoverInv, AskedInv
  <1>3. CASE ServiceLost
    <2>1. /\ errorCb = "IDLE" /\ losses' = losses + 1 /\ losses' # 0
          /\ connected' = FALSE /\ queue' = queue
          /\ connected /\ clientHandle => errorCb' = "SSR"
          /\ errorCb' \in {"IDLE", "SSR"}
      BY <1>3 DEF ServiceLost, Release, Typed, Types, CounterTypes
    <2>2. Base' = Base /\ (ResetDue => ResetDue') /\ (UpDue => UpDue')
      BY <1>1, <2>1 DEF Base, ResetDue, UpDue
    <2>3. UpBehind(queue)
      BY <2>1 DEF CoverInv, ResetInv
    <2>4. ResetInv'
      <3>1. clientHandle => ResetDue' \/ stale
        BY <2>1, <2>2 DEF CoverInv, ResetInv, ResetDue
      <3> QED BY <1>1, <2>1, <2>3, <3>1 DEF CoverInv, ResetInv
    <2>5. AskedInv'
      BY <1>1, <2>1, <2>2 DEF CoverInv, AskedInv
    <2>6. AnsweredInv' /\ SessionInv'
      BY <1>1, <2>1, <2>2 DEF CoverInv, AnsweredInv, SessionInv
    <2> QED BY <2>4, <2>5, <2>6 DEF CoverInv
  <1>4. CASE ErrorCb
    <2>1. /\ errorCb \in {"SSR", "UP"}
          /\ queue' = Append(queue, Message(errorCb))
          /\ errorCb' = IF errorCb = "SSR" THEN "UP" ELSE "IDLE"
          /\ UNCHANGED <<connected, registered, losses>>
      BY <1>4 DEF ErrorCb, Post, client, Typed, Types, FlagTypes
    <2>2. Message(errorCb) \in Messages /\ Message(errorCb).type = errorCb
      BY <2>1, MessageIsMessage DEF Message
    <2>3. /\ \A type : Has(queue', type) <=> Has(queue, type) \/ type = errorCb
          /\ errorCb = "UP" => UpBehind(queue')
          /\ queue # <<>> => queue' # <<>> /\ Head(queue') = Head(queue)
          /\ Asks(queue) \subseteq Asks(queue')
          /\ Measures(queue) => Measures(queue')
      BY <1>0, <2>1, <2>2, QueuePost
    <2>4. Base' = Base /\ (ResetDue => ResetDue') /\ UpDue'
      BY <1>1, <2>1, <2>3 DEF Base, ResetDue, UpDue
    <2>5. losses = 0 => errorCb = "UP"
      BY <2>1 DEF CoverInv, ResetInv, ResetDue
    <2>6. ResetInv'
      <3>1. losses = 0 => ~ResetDue'
        BY <2>1, <2>3, <2>5 DEF CoverInv, ResetInv, ResetDue
      <3> QED BY <1>1, <2>1, <2>3, <2>4, <3>1 DEF CoverInv, ResetInv
    <2>7. AskedInv'
      BY <1>1, <2>1, <2>3, <2>4 DEF CoverInv, AskedInv
    <2>8. AnsweredInv' /\ SessionInv'
      BY <1>1, <2>1, <2>3, <2>4 DEF CoverInv, AnsweredInv, SessionInv
    <2> QED BY <2>6, <2>7, <2>8 DEF CoverInv
  <1> QED BY <1>2, <1>3, <1>4

(* The steps of an opening.                                                 *)
LEMMA OpeningKeepsCover ==
    ASSUME Typed, SilenceInv, CoverInv, LocClientOpen
    PROVE  CoverInv'
  <1>0. /\ opening \in Openings /\ opening # IDLE
        /\ opening.step \in {"WAIT", "REGISTER", "REGISTERED"}
    <2>1. opening \in Openings /\ opening.step # "IDLE"
      BY DEF LocClientOpen, Connect, OpenRegisters, OpenFails, OpenEnds, InOpen,
         Typed, Types, MaskTypes
    <2> QED BY <2>1 DEF Openings, IDLE
  <1>1. /\ UNCHANGED <<queue, mInSession, mNavigating, mLocAdapters, mEvtMask,
                       working, raced, measuring, losses, errorCb>>
        /\ Asked' = Asked /\ (Removing' <=> Removing)
    BY DEF LocClientOpen, Connect, OpenRegisters, OpenFails, OpenEnds, InOpen,
       adapterVars, sessionVars, framework, environment, Asked, Removing
  <1>2. (ResetDue' <=> ResetDue) /\ (UpDue' <=> UpDue)
    BY <1>1 DEF ResetDue, UpDue
  <1>3. mNavigating => stale \/ UpDue
    BY <1>0 DEF CoverInv, SessionInv
  <1>4. CASE Connect \/ OpenRegisters \/ (OpenFails /\ opening' # IDLE)
    <2>1. UNCHANGED <<mMask, mQmiMask, clientHandle, stale>>
      BY <1>4 DEF Connect, OpenRegisters, OpenFails, maskVars
    <2>2. opening' # IDLE /\ opening'.mask = opening.mask
      BY <1>0, <1>4 DEF Connect, OpenRegisters, OpenFails, Opening, Openings, IDLE
    <2>3. Base' = Base
      BY <1>0, <2>2 DEF Base
    <2>4. clientHandle /\ ~connected' => ResetDue \/ stale
      BY <1>0 DEF CoverInv, ResetInv
    <2>5. ResetInv'
      BY <1>0, <1>1, <1>2, <2>1, <2>2, <2>4 DEF CoverInv, ResetInv
    <2>6. AskedInv'
      BY <1>1, <1>2, <2>1, <2>3 DEF CoverInv, AskedInv
    <2>7. connected' /\ opening'.step = "REGISTERED" =>
             adjustMaskForNoSession(convertMask(opening'.mask)) \subseteq registered'
      BY <1>0, <1>4, <2>2 DEF Connect, OpenRegisters, OpenFails, Opening, Openings,
         IDLE, Release
    <2>8. AnsweredInv' /\ SessionInv'
      BY <1>1, <1>2, <1>3, <2>1, <2>2, <2>7 DEF CoverInv, AnsweredInv, SessionInv
    <2> QED BY <2>5, <2>6, <2>8 DEF CoverInv
  <1>5. CASE OpenFails /\ opening' = IDLE
    <2>1. stale' = TRUE /\ connected' = FALSE
      BY <1>5 DEF OpenFails, Release, Opening, IDLE
    <2>2. opening'.step = "IDLE"
      BY <1>5 DEF IDLE
    <2> QED BY <1>1, <1>2, <1>5, <2>1, <2>2
            DEF CoverInv, ResetInv, AskedInv, AnsweredInv, SessionInv
  <1>6. CASE OpenEnds
    <2>1. /\ opening.step = "REGISTERED"
          /\ opening' = IDLE /\ clientHandle' = TRUE
          /\ mMask' = opening.mask /\ mQmiMask' = convertMask(opening.mask)
          /\ (stale' <=> (stale \/ ~connected))
          /\ UNCHANGED <<connected, registered>>
      BY <1>6 DEF OpenEnds, InOpen
    <2>2. Base' = Base /\ opening'.step = "IDLE"
      BY <1>0, <2>1 DEF Base, IDLE
    <2>3. ResetInv'
      BY <1>1, <1>2, <2>1 DEF CoverInv, ResetInv
    <2>4. AskedInv'
      BY <1>1, <1>2, <2>1, <2>2 DEF CoverInv, AskedInv
    <2>5. AnsweredInv'
      BY <2>1, <2>2 DEF CoverInv, AnsweredInv
    <2>6. SessionInv'
      BY <1>1, <1>2, <1>3, <2>1 DEF CoverInv, SessionInv
    <2> QED BY <2>3, <2>4, <2>5, <2>6 DEF CoverInv
  <1> QED BY <1>4, <1>5, <1>6 DEF LocClientOpen

(* Opening with what is asked for.  A mask that cannot be sent because the  *)
(* service is lost will be asked for by the reset.                          *)
LEMMA OpenKeepsCover ==
    ASSUME Typed, SilenceInv, CoverInv, NEW mask \in SUBSET Bits, Open(mask),
           opening = IDLE, queue # <<>>, queue' = Tail(queue),
           \/ Head(queue).type = "OPEN" /\ mask = Head(queue).mask
           \/ /\ Head(queue).type = "UPDATE"
              /\ Head(queue).isEnabled => Measurement \in mask,
           UNCHANGED <<adapterVars, sessionVars, framework, environment>>
    PROVE  CoverInv'
  <1> DEFINE newMask == mMask \cup (mask \ mExcludedMask)
  <1>1. /\ UNCHANGED <<mLocAdapters, mEvtMask, working, raced, measuring, mInSession,
                       mNavigating, losses, errorCb>>
        /\ Asked' = Asked /\ (Removing' <=> Removing)
    BY DEF adapterVars, sessionVars, framework, environment, Asked, Removing
  <1>2. queue \in Seq(Messages)
    BY DEF Typed, Types, QueueTypes
  <1>3. /\ \A type \in {"SSR", "UP", "START"} : Has(queue', type) <=> Has(queue, type)
        /\ UpBehind(queue) => UpBehind(queue')
        /\ Asks(queue) \subseteq Asks(queue') \cup newMask
        /\ Measures(queue) => Measures(queue') \/ Measurement \in mask
    BY <1>2, QueueTake
  <1>4. (ResetDue' <=> ResetDue) /\ (UpDue' <=> UpDue)
    BY <1>1, <1>3 DEF ResetDue, UpDue
  <1>5. Measurement \in mask => Measurement \in newMask \cup mExcludedMask
    OBVIOUS
  <1>6. mMask \subseteq newMask
    OBVIOUS
  <1>7. \/ /\ ~clientHandle
           /\ opening' = Opening("WAIT", newMask, 1)
           /\ UNCHANGED <<maskVars, client>>
        \/ /\ clientHandle /\ newMask = mMask
           /\ UNCHANGED <<opening, maskVars, client>>
        \/ /\ clientHandle /\ UNCHANGED <<opening, clientHandle, connected>>
           /\ RegisterEventMask(convertMask(newMask), mInSession, TRUE)
           /\ mMask' = newMask /\ mQmiMask' = convertMask(newMask)
        \/ /\ clientHandle /\ UNCHANGED <<opening, clientHandle, connected>>
           /\ RegisterEventMask(convertMask(newMask), mInSession, FALSE)
           /\ UNCHANGED <<mMask, mQmiMask>>
    BY DEF Open
  <1> HIDE DEF newMask
  <1>8. SessionInv' <=>
           (mNavigating =>
              \/ stale' \/ UpDue
              \/ opening' = IDLE /\ (connected' => mQmiMask' \subseteq registered'))
    BY <1>1, <1>3, <1>4 DEF CoverInv, SessionInv
  <1>9. ASSUME Base \subseteq Base', newMask \subseteq Base', stale => stale'
        PROVE  AskedInv'
    BY <1>1, <1>3, <1>4, <1>5, <1>9 DEF CoverInv, AskedInv
  <1>10. CASE /\ ~clientHandle
              /\ opening' = Opening("WAIT", newMask, 1)
              /\ UNCHANGED <<maskVars, client>>
    <2>1. /\ opening' # IDLE /\ opening'.step = "WAIT" /\ opening'.mask = newMask
          /\ UNCHANGED <<clientHandle, connected, stale>>
          /\ ~connected
      BY <1>10 DEF Opening, IDLE, maskVars, client, SilenceInv, ConnectedInv
    <2>2. Base' = newMask /\ Base = mMask
      BY <2>1 DEF Base
    <2>3. ResetInv'
      BY <1>1, <1>3, <1>4, <1>10, <2>1 DEF CoverInv, ResetInv
    <2>4. mNavigating => stale \/ UpDue
      BY <1>10 DEF CoverInv, ResetInv
    <2> QED BY <1>6, <1>8, <1>9, <2>1, <2>2, <2>3, <2>4 DEF CoverInv, AnsweredInv
  <1>11. CASE /\ clientHandle /\ newMask = mMask
              /\ UNCHANGED <<opening, maskVars, client>>
    <2>1. UNCHANGED <<opening, mMask, mQmiMask, clientHandle, connected, registered, stale>>
      BY <1>11 DEF maskVars, client
    <2>2. Base' = mMask /\ Base = mMask
      BY <2>1 DEF Base
    <2>3. ResetInv'
      BY <1>1, <1>3, <1>4, <1>11, <2>1 DEF CoverInv, ResetInv
    <2>4. AnsweredInv' /\ SessionInv'
      BY <1>8, <2>1 DEF CoverInv, AnsweredInv, SessionInv
    <2> QED BY <1>9, <1>11, <2>1, <2>2, <2>3, <2>4 DEF CoverInv
  <1>12. CASE /\ clientHandle /\ UNCHANGED <<opening, clientHandle, connected>>
              /\ RegisterEventMask(convertMask(newMask), mInSession, TRUE)
              /\ mMask' = newMask /\ mQmiMask' = convertMask(newMask)
    <2>1. /\ connected /\ stale' = stale
          /\ registered' = EventMask(convertMask(newMask), mInSession)
      BY <1>12 DEF RegisterEventMask
    <2>2. Base' = newMask /\ Base = mMask
      BY <1>12 DEF Base
    <2>3. ResetInv'
      BY <1>1, <1>3, <1>4, <1>12, <2>1 DEF CoverInv, ResetInv
    <2>4. adjustMaskForNoSession(mQmiMask') \subseteq registered'
      BY <1>12, <2>1 DEF EventMask, adjustMaskForNoSession
    <2>5. mInSession => mQmiMask' \subseteq registered'
      BY <1>12, <2>1 DEF EventMask
    <2>6. opening'.step = "IDLE"
      BY <1>12 DEF IDLE
    <2>7. AnsweredInv'
      BY <1>12, <2>4, <2>6 DEF AnsweredInv
    <2>8. SessionInv'
      BY <1>8, <1>12, <2>5 DEF CoverInv, SessionInv
    <2> QED BY <1>6, <1>9, <2>1, <2>2, <2>3, <2>7, <2>8 DEF CoverInv
  <1>13. CASE /\ clientHandle /\ UNCHANGED <<opening, clientHandle, connected>>
              /\ RegisterEventMask(convertMask(newMask), mInSession, FALSE)
              /\ UNCHANGED <<mMask, mQmiMask>>
    <2>1. \/ stale' = TRUE
          \/ ~connected /\ UNCHANGED <<registered, stale>>
      BY <1>13 DEF RegisterEventMask
    <2>2. Base' = mMask /\ Base = mMask
      BY <1>13 DEF Base
    <2>3. opening'.step = "IDLE"
      BY <1>13 DEF IDLE
    <2>4. ~connected => ResetDue \/ stale
      BY <1>13 DEF CoverInv, ResetInv
    <2>5. losses = 0 => ~ResetDue
      BY DEF CoverInv, ResetInv
    <2>6. ResetInv'
      BY <1>1, <1>3, <1>4, <1>13, <2>1 DEF CoverInv, ResetInv
    <2>7. AskedInv'
      BY <1>1, <1>4, <2>1, <2>4, <2>5 DEF AskedInv
    <2>8. AnsweredInv'
      BY <1>13, <2>1, <2>3 DEF AnsweredInv
    <2>9. SessionInv'
      BY <1>8, <1>13, <2>1 DEF CoverInv, SessionInv
    <2> QED BY <2>6, <2>7, <2>8, <2>9 DEF CoverInv
  <1> QED BY <1>7, <1>10, <1>11, <1>12, <1>13

(* Messages of a session leave what was asked for, and register it whole or *)
(* without the events of a session.                                         *)
LEMMA SessionMessageKeeps ==
    ASSUME Typed, CoverInv, opening = IDLE, queue # <<>>,
           Head(queue).type \notin {"OPEN", "UPDATE", "SSR"},
           \/ queue' = Tail(queue)
           \/ queue' = Append(Tail(queue), Message("START")),
           \/ UNCHANGED <<registered, stale>>
           \/ \E inSession, ok \in BOOLEAN : RegisterEventMask(mQmiMask, inSession, ok),
           UNCHANGED <<adapterVars, framework, environment, opening, maskVars, connected>>
    PROVE  /\ ResetInv' /\ AskedInv' /\ AnsweredInv'
           /\ stale => stale'
           /\ errorCb' = errorCb
           /\ \A type : Head(queue).type # type /\ Has(queue, type) => Has(queue', type)
  <1>1. /\ UNCHANGED <<mLocAdapters, mEvtMask, working, raced, measuring, losses, errorCb,
                       mMask, mQmiMask, clientHandle, opening, connected>>
        /\ Asked' = Asked /\ (Removing' <=> Removing)
    BY DEF adapterVars, framework, environment, maskVars, Asked, Removing
  <1>2. queue \in Seq(Messages) /\ Tail(queue) \in Seq(Messages)
    BY TakeKeepsType DEF Typed, Types, QueueTypes
  <1>3. Message("START") \in Messages /\ Message("START").type = "START"
    BY MessageIsMessage DEF Message
  <1>4. /\ \A type : Head(queue).type # type /\ Has(queue, type) => Has(queue', type)
        /\ Has(queue', "SSR") <=> Has(queue, "SSR")
        /\ UpBehind(queue) => UpBehind(queue')
        /\ Asks(queue) \subseteq Asks(queue')
        /\ Measures(queue) => Measures(queue')
    <2>1. /\ \A type : Has(queue, type) <=> Head(queue).type = type \/ Has(Tail(queue), type)
          /\ UpBehind(queue) => UpBehind(Tail(queue))
          /\ Asks(queue) \subseteq Asks(Tail(queue))
          /\ Measures(queue) => Measures(Tail(queue))
      BY <1>2, QueueTake
    <2>2. CASE queue' = Tail(queue)
      BY <2>1, <2>2
    <2>3. CASE queue' = Append(Tail(queue), Message("START"))
      <3>1. /\ \A type : Has(queue', type) <=> Has(Tail(queue), type) \/ type = "START"
            /\ UpBehind(Tail(queue)) => UpBehind(queue')
            /\ Asks(Tail(queue)) \subseteq Asks(queue')
            /\ Measures(Tail(queue)) => Measures(queue')
        BY <1>2, <1>3, <2>3, QueuePost
      <3> QED BY <2>1, <3>1
    <2> QED BY <2>2, <2>3
  <1>5. (ResetDue' <=> ResetDue) /\ Base' = Base
    BY <1>1, <1>4 DEF ResetDue, Base
  <1>6. \/ stale' = TRUE
        \/ UNCHANGED <<registered, stale>>
        \/ /\ connected /\ stale' = stale
           /\ adjustMaskForNoSession(mQmiMask) \subseteq registered'
    BY DEF RegisterEventMask, EventMask, adjustMaskForNoSession
  <1>7. stale => stale'
    BY <1>6
  <1>8. ResetInv'
    BY <1>1, <1>4, <1>5, <1>7 DEF CoverInv, ResetInv
  <1>9. AskedInv'
    BY <1>1, <1>4, <1>5, <1>7 DEF CoverInv, AskedInv
  <1>10. AnsweredInv'
    <2>1. opening.step = "IDLE"
      BY DEF IDLE
    <2> QED BY <1>1, <1>6, <2>1 DEF CoverInv, AnsweredInv
  <1> QED BY <1>1, <1>4, <1>7, <1>8, <1>9, <1>10

(* One step per message.                                                    *)
LEMMA ProcessingKeepsCover ==
    ASSUME Typed, SilenceInv, CoverInv, Processing
    PROVE  CoverInv'
  <1>1. /\ UNCHANGED <<adapterVars, framework, environment>> /\ opening = IDLE
        /\ queue \in Seq(Messages) /\ queue # <<>> /\ Head(queue) \in Messages
    BY ProcessingLeaves, ProcessingKeepsQueue DEF Typed, Types, QueueTypes
  <1>2. CASE OnOpen
    <2>1. /\ Head(queue).type = "OPEN" /\ Open(Head(queue).mask)
          /\ queue' = Tail(queue) /\ UNCHANGED sessionVars
      BY <1>2 DEF OnOpen, Process
    <2>2. Head(queue).mask \in SUBSET Bits
      BY <1>1, <2>1 DEF Messages
    <2> QED BY <1>1, <2>1, <2>2, OpenKeepsCover
  <1>3. CASE OnUpdate
    <2>1. PICK mask \in SUBSET Bits :
             Open(mask) /\ (Head(queue).isEnabled => Measurement \in mask)
      <3>1. mMask \in SUBSET Bits
        BY DEF Typed, Types, MaskTypes
      <3>2. /\ mMask \cup {Measurement} \in SUBSET Bits
            /\ mMask \ {Measurement} \in SUBSET Bits
        BY <3>1, ConstantsAssumption
      <3> QED BY <1>3, <3>2 DEF OnUpdate
    <2>2. /\ Head(queue).type = "UPDATE"
          /\ queue' = Tail(queue) /\ UNCHANGED sessionVars
      BY <1>3 DEF OnUpdate, Process
    <2> QED BY <1>1, <2>1, <2>2, OpenKeepsCover
  <1>4. CASE OnSsr
    <2>1. /\ Head(queue).type = "SSR" /\ queue' = Tail(queue)
          /\ opening' = Opening("WAIT", getEvtMask(mLocAdapters, mEvtMask), 1)
          /\ clientHandle' = FALSE /\ connected' = FALSE
          /\ UNCHANGED <<mInSession, mNavigating>>
      BY <1>4 DEF OnSsr, Process, Release, sessionVars
    <2>2. UNCHANGED <<mLocAdapters, mEvtMask, working, raced, measuring, losses, errorCb>>
      BY <1>1 DEF adapterVars, framework, environment
    <2>3. /\ Has(queue, "SSR")
          /\ UpBehind(queue) => UpBehind(queue') /\ Has(queue', "UP")
      BY <1>1, <2>1, QueueTake
    <2>4. opening' # IDLE /\ opening'.step = "WAIT"
          /\ Base' = Asked'
      BY <2>1, <2>2 DEF Opening, IDLE, Base, Asked
    <2>5. losses # 0
      BY <2>3 DEF CoverInv, ResetInv, ResetDue
    <2>6. ResetInv'
      BY <2>1, <2>2, <2>3, <2>4, <2>5 DEF CoverInv, ResetInv
    <2>7. AskedInv' /\ AnsweredInv'
      BY <2>1, <2>2, <2>4, <2>5 DEF AskedInv, AnsweredInv
    <2>8. UpDue'
      BY <2>2, <2>3 DEF CoverInv, ResetInv, UpDue
    <2>9. SessionInv'
      BY <2>1, <2>3, <2>8 DEF CoverInv, SessionInv
    <2> QED BY <2>6, <2>7, <2>9 DEF CoverInv
  <1>5. CASE OnStart
    <2>1. /\ Head(queue).type = "START" /\ queue' = Tail(queue)
          /\ UNCHANGED <<opening, maskVars, connected>>
      BY <1>5 DEF OnStart, Process
    <2>2. CASE mNavigating
      <3>1. UNCHANGED <<mInSession, mNavigating, registered, stale>>
        BY <1>5, <2>2 DEF OnStart
      <3>2. /\ ResetInv' /\ AskedInv' /\ AnsweredInv'
            /\ Has(queue, "UP") => Has(queue', "UP")
            /\ errorCb' = errorCb
        BY <1>1, <2>1, <3>1, SessionMessageKeeps
      <3>3. UpDue => UpDue'
        BY <3>2 DEF UpDue
      <3>4. SessionInv'
        BY <2>1, <2>2, <3>1, <3>3 DEF CoverInv, SessionInv, maskVars
      <3> QED BY <3>2, <3>4 DEF CoverInv
    <2>3. CASE ~mNavigating
      <3>1. /\ mInSession' = TRUE
            /\ \E ok \in BOOLEAN : RegisterEventMask(mQmiMask, TRUE, ok)
        BY <1>5, <2>3 DEF OnStart
      <3>2. ResetInv' /\ AskedInv' /\ AnsweredInv'
        BY <1>1, <2>1, <3>1, SessionMessageKeeps
      <3>3. stale' \/ (connected => mQmiMask \subseteq registered')
        BY <3>1 DEF RegisterEventMask, EventMask
      <3>4. SessionInv'
        BY <1>1, <2>1, <3>1, <3>3 DEF SessionInv, maskVars
      <3> QED BY <3>2, <3>4 DEF CoverInv
    <2> QED BY <2>2, <2>3
  <1>6. CASE OnStop
    <2>1. /\ Head(queue).type = "STOP" /\ queue' = Tail(queue)
          /\ UNCHANGED <<opening, maskVars, connected>>
          /\ mInSession' = (mInSession /\ ~mNavigating)
          /\ mNavigating' = FALSE
      BY <1>6 DEF OnStop, Process
    <2>2. \/ UNCHANGED <<registered, stale>>
          \/ \E ok \in BOOLEAN : RegisterEventMask(mQmiMask, FALSE, ok)
      BY <1>6 DEF OnStop
    <2>3. ResetInv' /\ AskedInv' /\ AnsweredInv'
      BY <1>1, <2>1, <2>2, SessionMessageKeeps
    <2>4. SessionInv'
      BY <2>1 DEF SessionInv
    <2> QED BY <2>3, <2>4 DEF CoverInv
  <1>7. CASE OnUp
    <2>1. /\ Head(queue).type = "UP"
          /\ UNCHANGED <<opening, maskVars, connected, registered, stale, mInSession>>
          /\ mNavigating' = FALSE
          /\ queue' = IF mNavigating THEN Append(Tail(queue), Message("START"))
                                     ELSE Tail(queue)
      BY <1>7 DEF OnUp, Process, client
    <2>2. ResetInv' /\ AskedInv' /\ AnsweredInv'
      BY <1>1, <2>1, SessionMessageKeeps
    <2>3. SessionInv'
      BY <2>1 DEF SessionInv
    <2> QED BY <2>2, <2>3 DEF CoverInv
  <1>8. CASE OnEngineState
    <2>1. /\ Head(queue).type = "ENGINE" /\ queue' = Tail(queue)
          /\ UNCHANGED <<opening, maskVars, connected, mInSession, mNavigating>>
      BY <1>8 DEF OnEngineState, Process
    <2>2. \/ UNCHANGED <<registered, stale>>
          \/ ~mInSession /\ \E ok \in BOOLEAN : RegisterEventMask(mQmiMask, FALSE, ok)
      BY <1>8 DEF OnEngineState
    <2>3. /\ ResetInv' /\ AskedInv' /\ AnsweredInv'
          /\ Has(queue, "UP") => Has(queue', "UP")
          /\ errorCb' = errorCb
      BY <1>1, <2>1, <2>2, SessionMessageKeeps
    <2>4. UpDue => UpDue'
      BY <2>3 DEF UpDue
    <2>5. SessionInv'
      BY <2>1, <2>2, <2>3, <2>4 DEF CoverInv, SessionInv, maskVars
    <2> QED BY <2>3, <2>5 DEF CoverInv
  <1> QED BY <1>2, <1>3, <1>4, <1>5, <1>6, <1>7, <1>8 DEF Processing

LEMMA NextKeepsCover ==
    Typed /\ Typed' /\ SilenceInv /\ CoverInv /\ [Next]_vars => CoverInv'
  <1> SUFFICES ASSUME Typed, Typed', SilenceInv, CoverInv, [Next]_vars
               PROVE  CoverInv'
    OBVIOUS
  <1>1. CASE UNCHANGED vars
    <2>1. UNCHANGED <<mLocAdapters, mEvtMask, working, raced, queue, opening, mMask, mQmiMask,
                      clientHandle, mInSession, mNavigating, measuring, connected,
                      registered, errorCb, stale, losses>>
      BY <1>1 DEF vars, adapterVars, maskVars, sessionVars, framework, client, environment
    <2>2. Asked' = Asked /\ (Removing' <=> Removing)
      BY <2>1 DEF Asked, Removing
    <2>3. /\ ResetInv' /\ AnsweredInv' /\ SessionInv'
          /\ Base' = Base /\ (ResetDue' <=> ResetDue)
      BY <2>1, PostingKeeps DEF Typed
    <2> QED BY <2>1, <2>2, <2>3 DEF CoverInv, AskedInv
  <1>2. CASE AdaptersChange \/ ArrayChanges
    BY <1>2, AdaptersKeepCover DEF Typed
  <1>3. CASE FrameworkCalls
    BY <1>3, FrameworkKeepsCover
  <1>4. CASE ServiceComes \/ ServiceLost \/ ErrorCb \/ ModemEngine
    BY <1>4, ServiceKeepsCover
  <1>5. CASE LocClientOpen
    BY <1>5, OpeningKeepsCover
  <1>6. CASE Processing
    BY <1>6, ProcessingKeepsCover
  <1> QED BY <1>1, <1>2, <1>3, <1>4, <1>5, <1>6 DEF Next, MessageThread, Processing

LEMMA CoverSuffices == ArrayTypes /\ CoverInv => EventsRegistered
  <1> SUFFICES ASSUME ArrayTypes, CoverInv, Quiet, connected, ~stale, ~raced
               PROVE  EventMask(convertMask(Wanted), mNavigating) \subseteq registered
    BY DEF EventsRegistered
  <1>1. /\ queue = <<>> /\ opening = IDLE /\ AtWork = {} /\ errorCb = "IDLE"
        /\ \A type : ~Has(queue, type)
        /\ Asks(queue) = {} /\ ~Measures(queue)
    BY DEF Quiet, Has, Asks, Measures
  <1>2. ~ResetDue /\ ~UpDue /\ ~Removing /\ Base = mMask
    BY <1>1, NobodyRemoves DEF ResetDue, UpDue, Base
  <1>3. Wanted \subseteq mMask
    BY <1>1, <1>2 DEF CoverInv, AskedInv, Asked, Wanted
  <1>4. /\ mQmiMask = convertMask(mMask)
        /\ adjustMaskForNoSession(mQmiMask) \subseteq registered
        /\ mNavigating => mQmiMask \subseteq registered
    BY <1>1, <1>2 DEF CoverInv, AnsweredInv, SessionInv
  <1>5. convertMask(Wanted) \subseteq mQmiMask
    BY <1>3, <1>4 DEF convertMask
  <1> QED BY <1>4, <1>5 DEF EventMask, adjustMaskForNoSession

(* When nothing is under way, what the adapters want is registered, in      *)
(* whatever order adapters came, went and changed their masks, sessions     *)
(* began, were refused and ended and the service was lost: LocApiV02::open, *)
(* startFix, stopFix and LocSsrMsg::proc with loc_eng_handle_engine_up.     *)
(* Failed requests are excepted, and an array that two threads have been    *)
(* at work in at once: addAdapter and removeAdapter take no lock.           *)
THEOREM Registered == Spec => []EventsRegistered
  <1>1. Init => Typed /\ SilenceInv /\ CoverInv
    BY InitArray, InitTypes, InitSilence, InitCover DEF Typed
  <1>2. Typed /\ SilenceInv /\ CoverInv /\ [Next]_vars =>
           (Typed /\ SilenceInv /\ CoverInv)'
    BY NextKeepsTypes, NextKeepsSilence, NextKeepsCover
  <1>3. Typed /\ CoverInv => EventsRegistered
    BY CoverSuffices DEF Typed, ArrayInv
  <1> QED BY <1>1, <1>2, <1>3, PTL DEF Spec
=============================================================================
