------------------------ MODULE LocApiSyncReqProofs ------------------------
(* Proofs about LocApiSyncReq for any number of threads, clients, ids,      *)
(* slots and calls, with and without spurious wakeups.                      *)
EXTENDS LocApiSyncReqRefinement, FiniteSetTheorems, TLAPS

USE ConstantsAssumption

(* What the records of the slots become.                                    *)
LEMMA SlotRecordUpdates ==
    /\ ClearedSlot \in SlotRecords
    /\ \A s \in SlotRecords, b \in BOOLEAN :
          /\ [s EXCEPT !.ind_is_waiting = b] \in SlotRecords
          /\ [s EXCEPT !.ind_has_arrived = b] \in SlotRecords
  BY DEF SlotRecords, ClearedSlot

(* The initial state satisfies every part of the inductive invariant.       *)
LEMMA InitInv == Init => IInv
  <1> SUFFICES ASSUME Init PROVE IInv
    OBVIOUS
  <1> USE DEF Init, Slots
  <1>1. 0 \in Slots
    OBVIOUS
  <1>2. TypeOK
    <2>1. slots \in [Slots -> SlotRecords]
      BY SlotRecordUpdates
    <2>2. calls \in [Threads -> 0 .. MaxCalls]
      OBVIOUS
    <2>3. inflight \subseteq Requests
      OBVIOUS
    <2>4. slot_in_use \in [Slots -> BOOLEAN] /\ in_use \in BOOLEAN
      OBVIOUS
    <2>5. pc \in [Threads -> PCs] /\ status \in [Threads -> Statuses]
      BY DEF PCs, Statuses
    <2>6. select_id \in [Threads -> Slots]
      BY <1>1
    <2>7. /\ req \in [Threads -> Requests \cup {NULL}]
          /\ payload \in [Threads -> Requests \cup {NULL}]
          /\ matched \in [Threads -> 0 .. 2]
      OBVIOUS
    <2>8. QED
      BY <2>1, <2>2, <2>3, <2>4, <2>5, <2>6, <2>7 DEF TypeOK
  <1>3. SlotOwnership /\ InUseExact
    BY DEF SlotOwnership, InUseExact, Owns, Owning
  <1>4. RequestsSet /\ SlotContents /\ CleanSlots /\ NotifierCount
    BY DEF RequestsSet, SlotContents, CleanSlots, NotifierCount, Owning
  <1>5. PayloadMatchesRequest /\ NoInternalFailure
    BY DEF PayloadMatchesRequest, NoInternalFailure
  <1>6. QED
    BY <1>2, <1>3, <1>4, <1>5 DEF IInv

(* A stuttering step changes nothing the invariant reads.                   *)
LEMMA StutterInv == IInv /\ UNCHANGED vars => IInv'
  BY DEF IInv, vars, arrayVars, callVars, TypeOK, SlotOwnership, InUseExact,
     RequestsSet, SlotContents, CleanSlots, NotifierCount,
     PayloadMatchesRequest, NoInternalFailure, Owns

(* Every step keeps the variables in their types.                           *)
LEMMA TypeStep == IInv /\ [Next]_vars => TypeOK'
  <1> SUFFICES ASSUME IInv, [Next]_vars PROVE TypeOK'
    OBVIOUS
  <1> USE DEF IInv, TypeOK, Slots, PCs, Statuses, Goto, SetStatus, UpdateSlot,
              arrayVars, callVars
  <1>1. ASSUME NEW t \in Threads, Call(t) PROVE TypeOK'
    <2>1. PICK c \in Clients, n \in Inds, w \in PayloadKinds :
            req' = [req EXCEPT ![t] = [client |-> c, ind |-> n, wants |-> w,
                                       thread |-> t, call |-> calls[t] + 1]]
      BY <1>1 DEF Call
    <2>2. calls[t] + 1 \in 1 .. MaxCalls
      BY <1>1 DEF Call
    <2>3. [client |-> c, ind |-> n, wants |-> w, thread |-> t, call |-> calls[t] + 1]
            \in Requests
      BY <2>2 DEF Requests
    <2>4. req' \in [Threads -> Requests \cup {NULL}]
      BY <2>1, <2>3
    <2>5. calls' \in [Threads -> 0 .. MaxCalls]
      BY <1>1, <2>2 DEF Call
    <2>6. QED
      BY <1>1, <2>4, <2>5 DEF Call
  <1>2. ASSUME NEW t \in Threads, AllocSlot(t) PROVE TypeOK'
    BY <1>2 DEF AllocSlot, FreeSlots
  <1>3. ASSUME NEW t \in Threads, BufferFull(t) PROVE TypeOK'
    BY <1>3 DEF BufferFull
  <1>4. ASSUME NEW t \in Threads, SelectInd(t) PROVE TypeOK'
    <2>1. req[t] \in Requests
      BY <1>4 DEF SelectInd, RequestsSet
    <2>2. slots' \in [Slots -> SlotRecords]
      BY <1>4, <2>1 DEF SelectInd, SlotRecords, Requests
    <2>3. QED
      BY <1>4, <2>2 DEF SelectInd
  <1>5. ASSUME NEW t \in Threads, SendReq(t) PROVE TypeOK'
    <2>1. req[t] \in Requests
      BY <1>5 DEF SendReq, RequestsSet
    <2>2. QED
      BY <1>5, <2>1 DEF SendReq
  <1>6. ASSUME NEW t \in Threads, WaitForInd(t) PROVE TypeOK'
    <2>1. slots' \in [Slots -> SlotRecords]
      <3>1. [slots[select_id[t]] EXCEPT !.ind_is_waiting = TRUE] \in SlotRecords
        BY SlotRecordUpdates
      <3>2. \/ slots' = slots
            \/ slots' = [slots EXCEPT ![select_id[t]] =
                            [slots[select_id[t]] EXCEPT !.ind_is_waiting = TRUE]]
        BY <1>6 DEF WaitForInd
      <3>3. QED
        BY <3>1, <3>2
    <2>2. QED
      BY <1>6, <2>1 DEF WaitForInd
  <1>7. ASSUME NEW t \in Threads, WaitEnds(t) PROVE TypeOK'
    BY <1>7 DEF WaitEnds
  <1>8. ASSUME NEW t \in Threads, Resume(t) PROVE TypeOK'
    <2>1. slots' \in [Slots -> SlotRecords]
      BY <1>8, SlotRecordUpdates DEF Resume
    <2>2. QED
      BY <1>8, <2>1 DEF Resume
  <1>9. ASSUME NEW t \in Threads, FreeSlot(t) PROVE TypeOK'
    <2>1. slots' \in [Slots -> SlotRecords]
      BY <1>9, SlotRecordUpdates DEF FreeSlot
    <2>2. QED
      BY <1>9, <2>1 DEF FreeSlot
  <1>10. CASE ProcessIndBegin
    <2>1. notifier' \in NotifierRecords \cup {NULL}
      BY <1>10 DEF ProcessIndBegin, NotifierRecords
    <2>2. QED
      BY <1>10, <2>1 DEF ProcessIndBegin
  <1>11. CASE ProcessIndSlot
    <2> DEFINE i == notifier.i
               hit == SlotMatches(i, notifier.msg)
               buffer == slots[i].recv_ind_payload_ptr
    <2>1. notifier \in NotifierRecords /\ i \in Slots
      BY <1>11 DEF ProcessIndSlot, NotifierRecords
    <2>2. notifier' = [notifier EXCEPT !.i = i + 1, !.in_use = @ \/ slot_in_use[i],
                                       !.consumed = hit /\ buffer # NULL]
      BY <1>11 DEF ProcessIndSlot
    <2>3. notifier' \in NotifierRecords
      <3>1. i + 1 \in 0 .. BufferSize
        BY <2>1
      <3>2. (hit /\ buffer # NULL) \in BOOLEAN
        BY <2>1 DEF SlotMatches, SlotRecords
      <3>3. (notifier.in_use \/ slot_in_use[i]) \in BOOLEAN
        BY <2>1 DEF NotifierRecords
      <3>4. QED
        BY <2>1, <2>2, <3>1, <3>2, <3>3 DEF NotifierRecords
    <2>4. payload' \in [Threads -> Requests \cup {NULL}]
      <3>1. notifier.msg \in Requests
        BY <2>1 DEF NotifierRecords
      <3>2. QED
        BY <1>11, <2>1, <3>1 DEF ProcessIndSlot, SlotRecords
    <2>5. slots' \in [Slots -> SlotRecords]
      <3>1. [slots[i] EXCEPT !.ind_has_arrived = TRUE] \in SlotRecords
        BY <2>1, SlotRecordUpdates
      <3>2. \/ slots' = slots
            \/ slots' = [slots EXCEPT ![i] = [slots[i] EXCEPT !.ind_has_arrived = TRUE]]
        BY <1>11, <2>1 DEF ProcessIndSlot
      <3>3. QED
        BY <2>1, <3>1, <3>2
    <2>6. pc' \in [Threads -> PCs]
      BY <1>11 DEF ProcessIndSlot
    <2>7. matched' \in [Threads -> 0 .. 2]
      BY <1>11 DEF ProcessIndSlot
    <2>8. QED
      BY <1>11, <2>3, <2>4, <2>5, <2>6, <2>7 DEF ProcessIndSlot
  <1>12. CASE ProcessIndEnd
    BY <1>12 DEF ProcessIndEnd, NotifierRecords
  <1>13. CASE UNCHANGED vars
    BY <1>13 DEF vars
  <1>14. QED
    BY <1>1, <1>2, <1>3, <1>4, <1>5, <1>6, <1>7, <1>8, <1>9, <1>10, <1>11,
       <1>12, <1>13 DEF Next, Step, ProcessInd

(* The owner of a slot in use has found its slot marked.                    *)
LEMMA OwnedSlotInUse ==
    ASSUME IInv, NEW t \in Threads, pc[t] \in Owning
    PROVE  select_id[t] \in Slots /\ slot_in_use[select_id[t]]
  BY DEF IInv, TypeOK, SlotOwnership, Owns

(* A thread that comes to its wait neither finds its slot taken away nor    *)
(* somebody else waiting in it.                                             *)
LEMMA WaitForIndOutcomes ==
    ASSUME IInv, NEW t \in Threads, WaitForInd(t)
    PROVE  /\ UNCHANGED status
           /\ \/ Goto(t, "free") /\ UNCHANGED slots
              \/ /\ Goto(t, "waiting")
                 /\ UpdateSlot(t, [slots[select_id[t]] EXCEPT !.ind_is_waiting = TRUE])
  <1>1. pc[t] = "sent"
    BY DEF WaitForInd
  <1>2. slot_in_use[select_id[t]]
    BY <1>1, OwnedSlotInUse DEF Owning, PCs
  <1>3. ~slots[select_id[t]].ind_is_waiting
    BY <1>1 DEF IInv, SlotContents, Owning, PCs
  <1>4. QED
    BY <1>2, <1>3 DEF WaitForInd

(* A slot stays with its owner until loc_free_slot, and is given only to    *)
(* one thread at a time.                                                    *)
LEMMA OwnershipStep == IInv /\ [Next]_vars => SlotOwnership'
  <1> SUFFICES ASSUME IInv, [Next]_vars PROVE SlotOwnership'
    OBVIOUS
  <1> USE DEF IInv, TypeOK, Goto, arrayVars, callVars
  <1>0. ASSUME UNCHANGED <<slot_in_use, select_id>>,
               \A t \in Threads : (pc'[t] \in Owning) = (pc[t] \in Owning)
        PROVE  SlotOwnership'
    BY <1>0 DEF SlotOwnership, Owns
  <1>1. ASSUME NEW t \in Threads, Call(t) PROVE SlotOwnership'
    BY <1>0, <1>1 DEF Call, Owning, PCs
  <1>2. ASSUME NEW t \in Threads, AllocSlot(t) PROVE SlotOwnership'
    <2>1. PICK i \in FreeSlots :
            /\ slot_in_use' = [slot_in_use EXCEPT ![i] = TRUE]
            /\ select_id' = [select_id EXCEPT ![t] = i]
      BY <1>2 DEF AllocSlot
    <2>2. i \in Slots /\ ~slot_in_use[i] /\ \A u \in Threads : ~Owns(u, i)
      BY <2>1 DEF FreeSlots, SlotOwnership
    <2>3. pc[t] \notin Owning /\ pc' = [pc EXCEPT ![t] = "alloced"]
      BY <1>2 DEF AllocSlot, Owning
    <2>4. \A u \in Threads, j \in Slots :
            Owns(u, j)' <=> (IF u = t THEN j = i ELSE Owns(u, j))
      BY <2>1, <2>2, <2>3 DEF Owns, Owning, PCs
    <2>5. \A j \in Slots : slot_in_use'[j] <=> (j = i \/ slot_in_use[j])
      BY <2>1, <2>2
    <2>6. \A j \in Slots : ~Owns(t, j)
      BY <2>3 DEF Owns
    <2>7. ASSUME NEW j \in Slots
          PROVE  slot_in_use'[j] <=> \E u \in Threads : Owns(u, j)'
      BY <2>2, <2>4, <2>5, <2>6 DEF SlotOwnership
    <2>8. ASSUME NEW u \in Threads, NEW v \in Threads, NEW j \in Slots,
                 Owns(u, j)', Owns(v, j)'
          PROVE  u = v
      BY <2>2, <2>4, <2>8 DEF SlotOwnership
    <2>9. QED
      BY <2>7, <2>8 DEF SlotOwnership, Owns
  <1>3. ASSUME NEW t \in Threads, BufferFull(t) PROVE SlotOwnership'
    BY <1>0, <1>3 DEF BufferFull, Owning, PCs
  <1>4. ASSUME NEW t \in Threads, SelectInd(t) PROVE SlotOwnership'
    BY <1>0, <1>4 DEF SelectInd, Owning, PCs
  <1>5. ASSUME NEW t \in Threads, SendReq(t) PROVE SlotOwnership'
    BY <1>0, <1>5 DEF SendReq, Owning, PCs
  <1>6. ASSUME NEW t \in Threads, WaitForInd(t) PROVE SlotOwnership'
    <2>1. pc' = [pc EXCEPT ![t] = "free"] \/ pc' = [pc EXCEPT ![t] = "waiting"]
      BY <1>6, WaitForIndOutcomes
    <2>2. QED
      BY <1>0, <1>6, <2>1 DEF WaitForInd, Owning, PCs
  <1>7. ASSUME NEW t \in Threads, WaitEnds(t) PROVE SlotOwnership'
    BY <1>0, <1>7 DEF WaitEnds, Owning, PCs
  <1>8. ASSUME NEW t \in Threads, Resume(t) PROVE SlotOwnership'
    BY <1>0, <1>8 DEF Resume, Owning, PCs
  <1>9. ASSUME NEW t \in Threads, FreeSlot(t) PROVE SlotOwnership'
    <2> DEFINE i == select_id[t]
    <2>1. pc[t] \in Owning /\ i \in Slots /\ Owns(t, i)
      BY <1>9 DEF FreeSlot, Owning, PCs, Owns
    <2>2. /\ slot_in_use' = [slot_in_use EXCEPT ![i] = FALSE]
          /\ pc' = [pc EXCEPT ![t] = "idle"]
          /\ select_id' = select_id
      BY <1>9 DEF FreeSlot
    <2>3. \A u \in Threads, j \in Slots :
            Owns(u, j)' <=> (u # t /\ Owns(u, j))
      BY <2>2 DEF Owns, Owning
    <2>4. \A j \in Slots : slot_in_use'[j] <=> (j # i /\ slot_in_use[j])
      BY <2>1, <2>2
    <2>5. ASSUME NEW j \in Slots
          PROVE  slot_in_use'[j] <=> \E u \in Threads : Owns(u, j)'
      <3>1. CASE j = i
        BY <2>1, <2>3, <2>4, <3>1 DEF SlotOwnership
      <3>2. CASE j # i
        <4>1. ~Owns(t, j)
          BY <3>2 DEF Owns
        <4>2. QED
          BY <2>3, <2>4, <3>2, <4>1 DEF SlotOwnership
      <3>3. QED
        BY <3>1, <3>2
    <2>6. ASSUME NEW u \in Threads, NEW v \in Threads, NEW j \in Slots,
                 Owns(u, j)', Owns(v, j)'
          PROVE  u = v
      BY <2>3, <2>6 DEF SlotOwnership
    <2>7. QED
      BY <2>5, <2>6 DEF SlotOwnership, Owns
  <1>10. CASE ProcessIndBegin
    BY <1>0, <1>10 DEF ProcessIndBegin
  <1>11. CASE ProcessIndSlot
    <2>1. \A t \in Threads : pc'[t] = pc[t] \/ (pc[t] = "waiting" /\ pc'[t] = "woken")
      BY <1>11 DEF ProcessIndSlot
    <2>2. QED
      BY <1>0, <1>11, <2>1 DEF ProcessIndSlot, Owning, PCs
  <1>12. CASE ProcessIndEnd
    BY <1>0, <1>12 DEF ProcessIndEnd
  <1>13. CASE UNCHANGED vars
    BY <1>0, <1>13 DEF vars
  <1>14. QED
    BY <1>1, <1>2, <1>3, <1>4, <1>5, <1>6, <1>7, <1>8, <1>9, <1>10, <1>11,
       <1>12, <1>13 DEF Next, Step, ProcessInd

(* No slot is allocated or freed while the notifier is in its loop.         *)
LEMMA SlotsHeldWhileNotifying ==
    ASSUME IInv, [Next]_vars, notifier # NULL
    PROVE  slot_in_use' = slot_in_use
  BY DEF Next, Step, ProcessInd, vars, arrayVars, callVars, Call, AllocSlot,
     BufferFull, SelectInd, SendReq, WaitForInd, WaitEnds, Resume, FreeSlot,
     ProcessIndBegin, ProcessIndSlot, ProcessIndEnd, CallMutexFree

(* The notifier's summary of the slots it passed stays exact.               *)
LEMMA NotifierCountStep == IInv /\ [Next]_vars => NotifierCount'
  <1> SUFFICES ASSUME IInv, [Next]_vars, notifier' # NULL
               PROVE  /\ notifier'.in_use <=>
                            \E j \in Slots : j < notifier'.i /\ slot_in_use'[j]
                      /\ notifier'.consumed => notifier'.in_use
    BY DEF NotifierCount
  <1> USE DEF IInv, TypeOK, Slots
  <1>1. CASE ProcessIndBegin
    <2>1. PICK m \in inflight :
            notifier' = [msg |-> m, i |-> 0, in_use |-> FALSE, consumed |-> FALSE]
      BY <1>1 DEF ProcessIndBegin
    <2>2. notifier'.i = 0 /\ notifier'.in_use = FALSE /\ notifier'.consumed = FALSE
      BY <2>1
    <2>3. QED
      BY <2>2
  <1>2. CASE ProcessIndSlot
    <2> DEFINE i == notifier.i
               hit == SlotMatches(i, notifier.msg)
               copied == hit /\ slots[i].recv_ind_payload_ptr # NULL
    <2>1. notifier \in NotifierRecords /\ i \in Slots
      BY <1>2 DEF ProcessIndSlot, NotifierRecords
    <2>2. notifier' = [notifier EXCEPT !.i = i + 1, !.in_use = @ \/ slot_in_use[i],
                                       !.consumed = copied]
      BY <1>2 DEF ProcessIndSlot
    <2>3. /\ notifier'.i = i + 1
          /\ notifier'.in_use = (notifier.in_use \/ slot_in_use[i])
          /\ notifier'.consumed = copied
      BY <2>1, <2>2 DEF NotifierRecords
    <2>4. slot_in_use' = slot_in_use /\ notifier # NULL
      BY <1>2 DEF ProcessIndSlot
    <2>5. notifier.in_use <=> \E j \in Slots : j < i /\ slot_in_use[j]
      BY <2>4 DEF NotifierCount
    <2>6. \A j \in Slots : j < i + 1 <=> (j < i \/ j = i)
      BY <2>1
    <2>7. notifier'.in_use <=> \E j \in Slots : j < notifier'.i /\ slot_in_use'[j]
      BY <2>1, <2>3, <2>4, <2>5, <2>6
    <2>8. copied => slot_in_use[i]
      BY DEF SlotMatches
    <2>9. QED
      BY <2>3, <2>7, <2>8
  <1>3. CASE ProcessIndEnd
    BY <1>3 DEF ProcessIndEnd
  <1>4. CASE notifier' = notifier
    <2>1. slot_in_use' = slot_in_use
      BY <1>4, SlotsHeldWhileNotifying
    <2>2. QED
      BY <1>4, <2>1 DEF NotifierCount
  <1>5. QED
    BY <1>1, <1>2, <1>3, <1>4 DEF Next, Step, ProcessInd, vars, Call, AllocSlot,
       BufferFull, SelectInd, SendReq, WaitForInd, WaitEnds, Resume, FreeSlot

(* in_use agrees with the slots after each of its three writers.            *)
LEMMA InUseStep == IInv /\ [Next]_vars => InUseExact'
  <1> SUFFICES ASSUME IInv, [Next]_vars PROVE InUseExact'
    OBVIOUS
  <1> USE DEF IInv, TypeOK, InUseExact, arrayVars, callVars
  <1>1. ASSUME NEW t \in Threads, AllocSlot(t) PROVE InUseExact'
    <2>1. PICK i \in FreeSlots : slot_in_use' = [slot_in_use EXCEPT ![i] = TRUE]
      BY <1>1 DEF AllocSlot
    <2>2. i \in Slots /\ slot_in_use'[i]
      BY <2>1 DEF FreeSlots
    <2>3. QED
      BY <1>1, <2>2 DEF AllocSlot
  <1>2. ASSUME NEW t \in Threads, FreeSlot(t) PROVE InUseExact'
    <2>1. in_use
      BY <1>2, OwnedSlotInUse DEF FreeSlot, Owning, PCs
    <2>2. QED
      BY <1>2, <2>1 DEF FreeSlot
  <1>3. CASE ProcessIndEnd
    <2>1. notifier \in NotifierRecords /\ notifier # NULL
      BY <1>3 DEF ProcessIndEnd
    <2>2. notifier.i \in 0 .. BufferSize
      BY <2>1 DEF NotifierRecords
    <2>3. in_use => notifier.in_use
      <3>1. CASE notifier.consumed
        BY <2>1, <3>1 DEF NotifierCount
      <3>2. CASE notifier.i = BufferSize
        BY <2>1, <3>2 DEF NotifierCount, Slots
      <3>3. QED
        BY <1>3, <3>1, <3>2 DEF ProcessIndEnd
    <2>4. notifier.in_use \in BOOLEAN
      BY <2>1 DEF NotifierRecords
    <2>5. in_use' = in_use /\ slot_in_use' = slot_in_use
      BY <1>3, <2>3, <2>4 DEF ProcessIndEnd
    <2>6. QED
      BY <2>5
  <1>4. CASE UNCHANGED <<slot_in_use, in_use>>
    BY <1>4
  <1>5. QED
    BY <1>1, <1>2, <1>3, <1>4 DEF Next, Step, ProcessInd, vars, Call, BufferFull,
       SelectInd, SendReq, WaitForInd, WaitEnds, Resume, ProcessIndBegin,
       ProcessIndSlot

(* The internal error exits stay dead.                                      *)
LEMMA NoInternalStep == IInv /\ [Next]_vars => NoInternalFailure'
  <1> SUFFICES ASSUME IInv, [Next]_vars PROVE NoInternalFailure'
    OBVIOUS
  <1> USE DEF IInv, TypeOK, NoInternalFailure
  <1>1. ASSUME NEW t \in Threads, WaitForInd(t) PROVE NoInternalFailure'
    BY <1>1, WaitForIndOutcomes
  <1>2. CASE UNCHANGED status
    BY <1>2
  <1>3. ASSUME NEW t \in Threads, Call(t) \/ SendReq(t) \/ Resume(t)
        PROVE  NoInternalFailure'
    BY <1>3 DEF Call, SendReq, Resume, SetStatus
  <1>4. QED
    BY <1>1, <1>2, <1>3 DEF Next, Step, ProcessInd, vars, callVars, AllocSlot,
       BufferFull, SelectInd, WaitEnds, FreeSlot, ProcessIndBegin,
       ProcessIndSlot, ProcessIndEnd

(* A thread in a call keeps its arguments.                                  *)
LEMMA RequestsStep == IInv /\ [Next]_vars => RequestsSet'
  <1> SUFFICES ASSUME IInv, [Next]_vars PROVE RequestsSet'
    OBVIOUS
  <1> USE DEF IInv, TypeOK, RequestsSet, Goto
  <1>1. ASSUME NEW t \in Threads, Call(t) PROVE RequestsSet'
    <2>1. PICK c \in Clients, n \in Inds, w \in PayloadKinds :
            req' = [req EXCEPT ![t] = [client |-> c, ind |-> n, wants |-> w,
                                       thread |-> t, call |-> calls[t] + 1]]
      BY <1>1 DEF Call
    <2>2. req'[t] # NULL
      <3>1. calls[t] + 1 \in 1 .. MaxCalls
        BY <1>1 DEF Call
      <3>2. req'[t] = [client |-> c, ind |-> n, wants |-> w,
                       thread |-> t, call |-> calls[t] + 1]
        BY <2>1
      <3>3. req'[t] \in Requests
        BY <3>1, <3>2 DEF Requests
      <3>4. QED
        BY <3>3, ConstantsAssumption
    <2>3. QED
      BY <1>1, <2>2 DEF Call
  <1>2. CASE /\ req' = req
             /\ \A t \in Threads : pc[t] = "idle" => pc'[t] = "idle"
    BY <1>2
  <1>3. ASSUME NEW t \in Threads, Step(t) PROVE RequestsSet'
    BY <1>2, <1>3 DEF Step, AllocSlot, BufferFull, SelectInd, SendReq,
       WaitForInd, WaitEnds, Resume, FreeSlot, SetStatus, UpdateSlot
  <1>4. CASE ProcessInd
    BY <1>2, <1>4 DEF ProcessInd, ProcessIndBegin, ProcessIndSlot, ProcessIndEnd, callVars
  <1>5. QED
    BY <1>1, <1>2, <1>3, <1>4 DEF Next, vars, callVars

(* Two threads in a call are in different slots.                            *)
LEMMA SlotsApart ==
    ASSUME IInv, NEW t \in Threads, NEW u \in Threads, t # u,
           pc[t] \in Owning, pc[u] \in Owning
    PROVE  select_id[t] # select_id[u]
  BY DEF IInv, TypeOK, SlotOwnership, Owns

(* A slot that matches an indication is filled, and its owner is the thread *)
(* its payload pointer names, if it names one.                              *)
LEMMA MatchedSlot ==
    ASSUME IInv, NEW i \in Slots, NEW m \in Requests, SlotMatches(i, m)
    PROVE  \E t \in Threads :
              /\ pc[t] \in Owning \ {"alloced"} /\ select_id[t] = i
              /\ req[t].client = m.client /\ req[t].ind = m.ind
              /\ slots[i].recv_ind_payload_ptr # NULL =>
                    slots[i].recv_ind_payload_ptr = t /\ req[t].wants
  <1>1. PICK t \in Threads : Owns(t, i)
    BY DEF SlotMatches, IInv, SlotOwnership
  <1>2. m.client # NULL
    BY ConstantsAssumption DEF Requests
  <1>3. slots[i] # ClearedSlot
    BY <1>2 DEF SlotMatches, ClearedSlot
  <1>4. pc[t] # "alloced"
    BY <1>1, <1>3 DEF IInv, CleanSlots, Owns
  <1>5. QED
    BY <1>1, <1>4 DEF IInv, SlotContents, Owns, SlotMatches

(* Free and unfilled slots stay clear.                                      *)
LEMMA CleanStep == IInv /\ [Next]_vars => CleanSlots'
  <1> SUFFICES ASSUME IInv, [Next]_vars PROVE CleanSlots'
    OBVIOUS
  <1> USE DEF IInv, TypeOK, CleanSlots, Goto, UpdateSlot, arrayVars, callVars
  <1>0. ASSUME UNCHANGED <<slot_in_use, slots, select_id>>,
               \A t \in Threads : pc'[t] = "alloced" => pc[t] = "alloced"
        PROVE  CleanSlots'
    BY <1>0
  <1>1. ASSUME NEW t \in Threads, pc[t] \in Owning,
               UNCHANGED <<slot_in_use, select_id>>,
               \A u \in Threads : pc'[u] = "alloced" => pc[u] = "alloced" /\ u # t,
               \A j \in Slots : j # select_id[t] => slots'[j] = slots[j]
        PROVE  CleanSlots'
    <2>1. ASSUME NEW j \in Slots, ~slot_in_use'[j] PROVE slots'[j] = ClearedSlot
      BY <1>1, <2>1, OwnedSlotInUse
    <2>2. ASSUME NEW u \in Threads, pc'[u] = "alloced"
          PROVE  slots'[select_id'[u]] = ClearedSlot
      <3>1. select_id[u] # select_id[t]
        BY <1>1, <2>2, SlotsApart DEF Owning, PCs
      <3>2. QED
        BY <1>1, <2>2, <3>1
    <2>3. QED
      BY <2>1, <2>2
  <1>2. ASSUME NEW t \in Threads, Call(t) PROVE CleanSlots'
    BY <1>0, <1>2 DEF Call
  <1>3. ASSUME NEW t \in Threads, AllocSlot(t) PROVE CleanSlots'
    <2>1. PICK i \in FreeSlots :
            /\ slot_in_use' = [slot_in_use EXCEPT ![i] = TRUE]
            /\ select_id' = [select_id EXCEPT ![t] = i]
      BY <1>3 DEF AllocSlot
    <2>2. i \in Slots /\ slots[i] = ClearedSlot
      BY <2>1 DEF FreeSlots
    <2>3. QED
      BY <1>3, <2>1, <2>2 DEF AllocSlot
  <1>4. ASSUME NEW t \in Threads, BufferFull(t) \/ SendReq(t) \/ WaitEnds(t)
        PROVE  CleanSlots'
    BY <1>0, <1>4 DEF BufferFull, SendReq, WaitEnds
  <1>5. ASSUME NEW t \in Threads, SelectInd(t) \/ Resume(t) PROVE CleanSlots'
    BY <1>1, <1>5 DEF SelectInd, Resume, Owning, PCs
  <1>6. ASSUME NEW t \in Threads, WaitForInd(t) PROVE CleanSlots'
    <2>1. pc[t] = "sent" /\ UNCHANGED <<slot_in_use, select_id>>
      BY <1>6 DEF WaitForInd
    <2>2. \A u \in Threads : pc'[u] = "alloced" => pc[u] = "alloced" /\ u # t
      BY <1>6, WaitForIndOutcomes
    <2>3. \A j \in Slots : j # select_id[t] => slots'[j] = slots[j]
      BY <1>6, WaitForIndOutcomes
    <2>4. QED
      BY <1>1, <2>1, <2>2, <2>3 DEF Owning, PCs
  <1>7. ASSUME NEW t \in Threads, FreeSlot(t) PROVE CleanSlots'
    <2>1. ASSUME NEW u \in Threads, pc'[u] = "alloced"
          PROVE  select_id[u] # select_id[t]
      BY <1>7, <2>1, SlotsApart DEF FreeSlot, Owning, PCs
    <2>2. QED
      BY <1>7, <2>1 DEF FreeSlot
  <1>8. CASE ProcessIndSlot
    <2> DEFINE i == notifier.i
    <2>1. i \in Slots /\ notifier.msg \in Requests
      BY <1>8 DEF ProcessIndSlot, NotifierRecords, Slots
    <2>2. /\ UNCHANGED <<slot_in_use, select_id>>
          /\ \A t \in Threads : pc'[t] = "alloced" => pc[t] = "alloced"
      BY <1>8 DEF ProcessIndSlot
    <2>3. CASE slots' = slots
      BY <1>0, <2>2, <2>3
    <2>4. CASE slots' # slots
      <3>1. SlotMatches(i, notifier.msg)
            /\ \A j \in Slots : j # i => slots'[j] = slots[j]
        BY <1>8, <2>4 DEF ProcessIndSlot
      <3>2. PICK t \in Threads : pc[t] \in Owning \ {"alloced"} /\ select_id[t] = i
        BY <2>1, <3>1, MatchedSlot
      <3>3. QED
        BY <1>1, <2>2, <3>1, <3>2
    <2>5. QED
      BY <2>3, <2>4
  <1>9. CASE ProcessIndBegin \/ ProcessIndEnd \/ UNCHANGED vars
    BY <1>0, <1>9 DEF ProcessIndBegin, ProcessIndEnd, vars
  <1>10. QED
    BY <1>2, <1>3, <1>4, <1>5, <1>6, <1>7, <1>8, <1>9 DEF Next, Step, ProcessInd

(* Filled slots keep what their owners asked for.                           *)
LEMMA ContentsStep == IInv /\ [Next]_vars => SlotContents'
  <1> DEFINE Filled == Owning \ {"alloced"}
             Holds(rec, r, t, label) ==
               /\ rec.client_handle = r.client
               /\ rec.recv_ind_id = r.ind
               /\ rec.recv_ind_payload_ptr = IF r.wants THEN t ELSE NULL
               /\ rec.ind_is_waiting <=> label \in {"waiting", "woken", "timedout"}
  <1> SUFFICES ASSUME IInv, [Next]_vars, NEW u \in Threads, pc'[u] \in Filled
               PROVE  Holds(slots'[select_id'[u]], req'[u], u, pc'[u])
    BY DEF SlotContents
  <1> USE DEF IInv, TypeOK, Goto, UpdateSlot, arrayVars, callVars
  <1>0. pc[u] \in Filled => Holds(slots[select_id[u]], req[u], u, pc[u])
    BY DEF SlotContents
  <1>1. CASE /\ pc'[u] = pc[u] /\ req'[u] = req[u] /\ select_id'[u] = select_id[u]
             /\ slots'[select_id[u]] = slots[select_id[u]]
    BY <1>0, <1>1
  <1>2. ASSUME NEW t \in Threads, Call(t) PROVE Holds(slots'[select_id'[u]], req'[u], u, pc'[u])
    BY <1>1, <1>2 DEF Call, Owning
  <1>3. ASSUME NEW t \in Threads, AllocSlot(t) PROVE Holds(slots'[select_id'[u]], req'[u], u, pc'[u])
    BY <1>1, <1>3 DEF AllocSlot, Owning
  <1>4. ASSUME NEW t \in Threads, BufferFull(t) \/ SendReq(t) \/ WaitEnds(t)
        PROVE  Holds(slots'[select_id'[u]], req'[u], u, pc'[u])
    BY <1>0, <1>1, <1>4 DEF BufferFull, SendReq, WaitEnds, Owning, PCs
  <1>5. ASSUME NEW t \in Threads, SelectInd(t) PROVE Holds(slots'[select_id'[u]], req'[u], u, pc'[u])
    <2>1. CASE u = t
      BY <1>5, <2>1 DEF SelectInd
    <2>2. CASE u # t
      BY <1>1, <1>5, <2>2, SlotsApart DEF SelectInd, Owning, PCs
    <2>3. QED
      BY <2>1, <2>2
  <1>6. ASSUME NEW t \in Threads, WaitForInd(t) PROVE Holds(slots'[select_id'[u]], req'[u], u, pc'[u])
    <2>1. pc[t] = "sent" /\ UNCHANGED <<select_id, req>>
      BY <1>6 DEF WaitForInd
    <2>2. CASE u = t
      <3>1. slots[select_id[t]] \in SlotRecords /\ select_id[t] \in Slots
        OBVIOUS
      <3>2. Holds(slots[select_id[t]], req[t], t, "sent")
        BY <1>0, <2>1, <2>2 DEF Owning, PCs
      <3>3. CASE Goto(t, "free") /\ UNCHANGED slots
        BY <2>1, <2>2, <3>2, <3>3
      <3>4. CASE /\ Goto(t, "waiting")
                 /\ UpdateSlot(t, [slots[select_id[t]] EXCEPT !.ind_is_waiting = TRUE])
        <4>1. slots'[select_id'[u]] = [slots[select_id[t]] EXCEPT !.ind_is_waiting = TRUE]
          BY <2>1, <2>2, <3>1, <3>4
        <4>2. QED
          BY <2>1, <2>2, <3>1, <3>2, <3>4, <4>1 DEF SlotRecords
      <3>5. QED
        BY <1>6, <3>3, <3>4, WaitForIndOutcomes
    <2>3. CASE u # t
      <3>1. pc'[u] = pc[u]
        BY <1>6, <2>3, WaitForIndOutcomes
      <3>2. select_id[u] # select_id[t]
        BY <2>1, <2>3, <3>1, SlotsApart DEF Owning, PCs
      <3>3. slots'[select_id[u]] = slots[select_id[u]]
        BY <1>6, <3>2, WaitForIndOutcomes
      <3>4. QED
        BY <1>1, <2>1, <3>1, <3>3
    <2>4. QED
      BY <2>2, <2>3
  <1>7. ASSUME NEW t \in Threads, Resume(t) PROVE Holds(slots'[select_id'[u]], req'[u], u, pc'[u])
    <2>1. CASE u = t
      <3>1. slots[select_id[t]] \in SlotRecords /\ select_id[t] \in Slots
        OBVIOUS
      <3>2. slots'[select_id'[u]] = [slots[select_id[t]] EXCEPT !.ind_is_waiting = FALSE]
        BY <1>7, <2>1, <3>1 DEF Resume
      <3>3. Holds(slots[select_id[t]], req[t], t, pc[t])
        BY <1>0, <1>7, <2>1 DEF Resume, Owning, PCs
      <3>4. req' = req /\ pc'[t] = "free"
        BY <1>7 DEF Resume
      <3>5. QED
        BY <2>1, <3>1, <3>2, <3>3, <3>4 DEF SlotRecords
    <2>2. CASE u # t
      BY <1>1, <1>7, <2>2, SlotsApart DEF Resume, Owning, PCs
    <2>3. QED
      BY <2>1, <2>2
  <1>8. ASSUME NEW t \in Threads, FreeSlot(t) PROVE Holds(slots'[select_id'[u]], req'[u], u, pc'[u])
    <2>1. u # t /\ pc'[u] = pc[u]
      BY <1>8 DEF FreeSlot, Owning
    <2>2. QED
      BY <1>1, <1>8, <2>1, SlotsApart DEF FreeSlot, Owning, PCs
  <1>9. CASE ProcessIndSlot
    <2> DEFINE i == notifier.i
    <2>1. i \in Slots /\ UNCHANGED <<req, select_id>>
      BY <1>9 DEF ProcessIndSlot, NotifierRecords, Slots
    <2>2. pc'[u] = pc[u] \/ (pc[u] = "waiting" /\ pc'[u] = "woken")
      BY <1>9 DEF ProcessIndSlot
    <2>3. \/ slots' = slots
          \/ slots' = [slots EXCEPT ![i] = [slots[i] EXCEPT !.ind_has_arrived = TRUE]]
      BY <1>9 DEF ProcessIndSlot
    <2>4. Holds(slots[select_id[u]], req[u], u, pc[u])
      BY <1>0, <2>2 DEF Owning, PCs
    <2>5. /\ slots'[select_id[u]].client_handle = slots[select_id[u]].client_handle
          /\ slots'[select_id[u]].recv_ind_id = slots[select_id[u]].recv_ind_id
          /\ slots'[select_id[u]].recv_ind_payload_ptr = slots[select_id[u]].recv_ind_payload_ptr
          /\ slots'[select_id[u]].ind_is_waiting = slots[select_id[u]].ind_is_waiting
      BY <2>1, <2>3 DEF SlotRecords
    <2>6. QED
      BY <2>1, <2>2, <2>4, <2>5
  <1>10. CASE ProcessIndBegin \/ ProcessIndEnd \/ UNCHANGED vars
    BY <1>1, <1>10 DEF ProcessIndBegin, ProcessIndEnd, vars
  <1>11. QED
    BY <1>2, <1>3, <1>4, <1>5, <1>6, <1>7, <1>8, <1>9, <1>10 DEF Next, Step, ProcessInd

(* The notifier copies an indication only into the buffer of the thread     *)
(* that owns the matching slot and asked for that indication.               *)
LEMMA NotifierCopies ==
    ASSUME IInv, ProcessIndSlot
    PROVE  \/ payload' = payload
           \/ \E t \in Threads :
                 /\ pc[t] \in Owning
                 /\ payload' = [payload EXCEPT ![t] = notifier.msg]
                 /\ req[t].client = notifier.msg.client
                 /\ req[t].ind = notifier.msg.ind
                 /\ req[t].wants
  <1> DEFINE i == notifier.i
             buffer == slots[i].recv_ind_payload_ptr
  <1>1. i \in Slots /\ notifier.msg \in Requests
    BY DEF ProcessIndSlot, IInv, TypeOK, NotifierRecords, Slots
  <1>2. CASE SlotMatches(i, notifier.msg) /\ buffer # NULL
    <2>1. payload' = [payload EXCEPT ![buffer] = notifier.msg]
      BY <1>2 DEF ProcessIndSlot
    <2>2. QED
      BY <1>1, <1>2, <2>1, MatchedSlot
  <1>3. CASE ~(SlotMatches(i, notifier.msg) /\ buffer # NULL)
    BY <1>3 DEF ProcessIndSlot
  <1>4. QED
    BY <1>2, <1>3

(* Payloads go on matching the requests of the threads that hold them.      *)
LEMMA PayloadStep == IInv /\ [Next]_vars => PayloadMatchesRequest'
  <1> SUFFICES ASSUME IInv, [Next]_vars PROVE PayloadMatchesRequest'
    OBVIOUS
  <1> USE DEF IInv, TypeOK, PayloadMatchesRequest
  <1>1. ASSUME NEW t \in Threads, Call(t) PROVE PayloadMatchesRequest'
    BY <1>1 DEF Call
  <1>2. CASE UNCHANGED <<payload, req>>
    BY <1>2
  <1>3. CASE ProcessIndSlot
    <2>1. req' = req
      BY <1>3 DEF ProcessIndSlot
    <2>2. CASE payload' = payload
      BY <2>1, <2>2
    <2>3. CASE payload' # payload
      <3>1. PICK t \in Threads :
              /\ pc[t] \in Owning
              /\ payload' = [payload EXCEPT ![t] = notifier.msg]
              /\ req[t].client = notifier.msg.client
              /\ req[t].ind = notifier.msg.ind
              /\ req[t].wants
        BY <1>3, <2>3, NotifierCopies
      <3>2. req[t] # NULL
        BY <3>1 DEF RequestsSet, Owning
      <3>3. QED
        BY <2>1, <3>1, <3>2
    <2>4. QED
      BY <2>2, <2>3
  <1>4. QED
    BY <1>1, <1>2, <1>3 DEF Next, Step, ProcessInd, vars, callVars, AllocSlot,
       BufferFull, SelectInd, SendReq, WaitForInd, WaitEnds, Resume, FreeSlot,
       ProcessIndBegin, ProcessIndEnd

(* The inductive invariant holds in every reachable state.                  *)
THEOREM Invariance == Spec => []IInv
  <1>1. Init => IInv
    BY InitInv
  <1>2. IInv /\ [Next]_vars => IInv'
    BY TypeStep, OwnershipStep, InUseStep, RequestsStep, ContentsStep, CleanStep,
       NotifierCountStep, PayloadStep, NoInternalStep DEF IInv
  <1>3. QED
    BY <1>1, <1>2, PTL DEF Spec

(* Every variable stays in its type.                                        *)
THEOREM TypeCorrect == Spec => []TypeOK
  BY Invariance, PTL DEF IInv

(* A slot in use belongs to exactly one call in progress, for any number of *)
(* threads, slots and calls.                                                *)
THEOREM SlotsOwned == Spec => []SlotOwnership
  BY Invariance, PTL DEF IInv

(* in_use is on exactly while a slot is in use: no indication is dropped    *)
(* while somebody waits for one.                                            *)
THEOREM InUseCorrect == Spec => []InUseExact
  BY Invariance, PTL DEF IInv

(* A buffer only ever receives an indication its call asked for.            *)
THEOREM PayloadCorrect == Spec => []PayloadMatchesRequest
  BY Invariance, PTL DEF IInv

(* The -EINVAL and -EBUSY exits are dead code.                              *)
THEOREM InternalUnreachable == Spec => []NoInternalFailure
  BY Invariance, PTL DEF IInv

(* No indication is ever copied into the buffer of a call that returned.    *)
THEOREM ReturnedBuffersUntouched == Spec => NoWriteAfterReturn
  <1> DEFINE Kept == \A t \in Threads :
                pc[t] = "idle" /\ pc'[t] = "idle" => payload'[t] = payload[t]
  <1>1. IInv /\ [Next]_vars => [Kept]_vars
    <2> SUFFICES ASSUME IInv, [Next]_vars, NEW t \in Threads,
                        pc[t] = "idle", pc'[t] = "idle"
                 PROVE  payload'[t] = payload[t]
      OBVIOUS
    <2>1. ASSUME NEW u \in Threads, Call(u) PROVE payload'[t] = payload[t]
      BY <2>1 DEF Call, Goto, IInv, TypeOK
    <2>2. CASE ProcessIndSlot
      BY <2>2, NotifierCopies DEF IInv, TypeOK, Owning
    <2>3. CASE payload' = payload
      BY <2>3
    <2>4. QED
      BY <2>1, <2>2, <2>3 DEF Next, Step, ProcessInd, vars, callVars, AllocSlot,
         BufferFull, SelectInd, SendReq, WaitForInd, WaitEnds, Resume, FreeSlot,
         ProcessIndBegin, ProcessIndEnd
  <1>2. QED
    BY <1>1, Invariance, PTL DEF Spec, NoWriteAfterReturn

----------------------------------------------------------------------------
(* The abstract call: LocApiSyncReqRefinement, step by step                 *)

(* Every caller passes a buffer, and no wait ends unsignalled.              *)
AsUsed == PayloadKinds = {TRUE} /\ ~SpuriousWakeups

(* What a turn of the notifier leaves in its locals.                        *)
LEMMA TurnLocals ==
    ASSUME IInv, ProcessIndSlot
    PROVE  /\ notifier' # NULL /\ notifier'.msg = notifier.msg
           /\ notifier.i \in Slots /\ notifier.msg \in Requests /\ ~notifier.consumed
           /\ notifier'.consumed <=>
                 /\ SlotMatches(notifier.i, notifier.msg)
                 /\ slots[notifier.i].recv_ind_payload_ptr # NULL
  <1>1. notifier \in NotifierRecords /\ notifier.i < BufferSize /\ ~notifier.consumed
    BY DEF IInv, TypeOK, ProcessIndSlot
  <1>2. notifier.i \in Slots /\ notifier.msg \in Requests
    BY <1>1 DEF NotifierRecords, Slots
  <1> DEFINE copied == /\ SlotMatches(notifier.i, notifier.msg)
                       /\ slots[notifier.i].recv_ind_payload_ptr # NULL
             seen == notifier.in_use \/ slot_in_use[notifier.i]
  <1>3. notifier' = [notifier EXCEPT !.i = notifier.i + 1, !.in_use = seen,
                                     !.consumed = copied]
    BY DEF ProcessIndSlot
  <1>4. copied \in BOOLEAN /\ seen \in BOOLEAN /\ notifier.i + 1 \in 0 .. BufferSize
    BY <1>1 DEF NotifierRecords
  <1> HIDE DEF copied, seen
  <1>5. /\ notifier' \in NotifierRecords /\ notifier'.msg = notifier.msg
        /\ notifier'.consumed = copied
    BY <1>1, <1>3, <1>4 DEF NotifierRecords
  <1>6. QED
    BY <1>1, <1>2, <1>5, NotifierAssumption DEF copied

(* A turn at a slot that does not match changes nothing else.               *)
LEMMA TurnWithoutHit ==
    ASSUME IInv, ProcessIndSlot, ~SlotMatches(notifier.i, notifier.msg)
    PROVE  UNCHANGED <<arrayVars, inflight, callVars>>
  <1>1. matched' = matched
    BY DEF ProcessIndSlot, IInv, TypeOK
  <1>2. QED
    BY <1>1 DEF ProcessIndSlot, arrayVars, callVars

(* A turn at a slot that matches consumes the indication for its owner.     *)
LEMMA TurnWithHit ==
    ASSUME AsUsed, IInv, ProcessIndSlot, SlotMatches(notifier.i, notifier.msg)
    PROVE  /\ notifier'.consumed
           /\ UNCHANGED <<slot_in_use, in_use, inflight, req, select_id, status, calls>>
           /\ \E t \in Threads :
                 /\ pc[t] \in Owning \ {"alloced"} /\ select_id[t] = notifier.i
                 /\ req[t] # NULL /\ Key(req[t]) = Key(notifier.msg)
                 /\ matched' = [matched EXCEPT ![t] = IF @ < 2 THEN @ + 1 ELSE @]
                 /\ pc' = [pc EXCEPT ![t] = IF @ = "waiting" THEN "woken" ELSE @]
                 /\ slots' = IF slots[notifier.i].ind_is_waiting THEN slots
                             ELSE [slots EXCEPT ![notifier.i].ind_has_arrived = TRUE]
  <1> DEFINE i == notifier.i
             m == notifier.msg
  <1>1. i \in Slots /\ m \in Requests
    BY TurnLocals
  <1>2. PICK t \in Threads :
           /\ pc[t] \in Owning \ {"alloced"} /\ select_id[t] = i
           /\ req[t].client = m.client /\ req[t].ind = m.ind
    BY <1>1, MatchedSlot
  <1>3. req[t] # NULL /\ req[t] \in Requests
    BY <1>2 DEF IInv, RequestsSet, TypeOK, Owning
  <1>4. slots[i].recv_ind_payload_ptr # NULL
    <2>1. req[t].wants
      BY <1>3 DEF AsUsed, Requests
    <2>2. QED
      BY <1>2, <2>1 DEF IInv, SlotContents
  <1>5. {u \in Threads : pc[u] \in Owning /\ select_id[u] = i} = {t}
    BY <1>1, <1>2 DEF IInv, SlotOwnership, Owns
  <1>6. slots[i].ind_is_waiting <=> pc[t] \in {"waiting", "woken", "timedout"}
    BY <1>2 DEF IInv, SlotContents
  <1>7. matched' = [matched EXCEPT ![t] = IF @ < 2 THEN @ + 1 ELSE @]
    <2>1. matched' = [u \in Threads |-> IF u = t /\ matched[u] < 2
                                        THEN matched[u] + 1 ELSE matched[u]]
      BY <1>5 DEF ProcessIndSlot
    <2>2. QED
      BY <2>1 DEF IInv, TypeOK
  <1>8. pc' = [pc EXCEPT ![t] = IF @ = "waiting" THEN "woken" ELSE @]
    <2>1. CASE slots[i].ind_is_waiting
      <3>1. pc' = [u \in Threads |-> IF u = t /\ pc[u] = "waiting" THEN "woken" ELSE pc[u]]
        BY <1>5, <2>1 DEF ProcessIndSlot
      <3>2. QED
        BY <3>1 DEF IInv, TypeOK
    <2>2. CASE ~slots[i].ind_is_waiting
      BY <1>6, <2>2 DEF ProcessIndSlot, IInv, TypeOK
    <2>3. QED
      BY <2>1, <2>2
  <1>9. slots' = IF slots[i].ind_is_waiting THEN slots
                 ELSE [slots EXCEPT ![i].ind_has_arrived = TRUE]
    BY DEF ProcessIndSlot
  <1>10. notifier'.consumed
    BY <1>4, TurnLocals
  <1>11. QED
    BY <1>2, <1>3, <1>7, <1>8, <1>9, <1>10 DEF ProcessIndSlot, Key

LEMMA MappingInit == Init => MInv
  <1> SUFFICES ASSUME Init PROVE MInv
    OBVIOUS
  <1>1. IsFiniteSet(inflight)
    BY FS_EmptySet DEF Init
  <1>2. QED
    BY <1>1 DEF Init, MInv, AnswerConsumed, AnsweredOnce, Owning

(* What a call knows stays true while neither it nor its slot changes.      *)
LEMMA AnswerKept ==
    ASSUME NEW u \in Threads, AnswerConsumed(u),
           pc'[u] = pc[u], status'[u] = status[u], matched'[u] = matched[u],
           pc[u] \in Owning => /\ select_id'[u] = select_id[u]
                               /\ slots'[select_id[u]] = slots[select_id[u]]
    PROVE  AnswerConsumed(u)'
  BY DEF AnswerConsumed

(* A call returns without a wait only when its answer has come.             *)
LEMMA WaitOrAnswered ==
    ASSUME IInv, NEW t \in Threads, WaitForInd(t)
    PROVE  /\ pc[t] = "sent"
           /\ UNCHANGED <<slot_in_use, notifier, inflight, req, select_id, status, calls, matched>>
           /\ \/ /\ Goto(t, "free") /\ UNCHANGED slots
                 /\ slots[select_id[t]].ind_has_arrived
              \/ /\ Goto(t, "waiting")
                 /\ UpdateSlot(t, [slots[select_id[t]] EXCEPT !.ind_is_waiting = TRUE])
  <1>1. pc[t] = "sent"
    BY DEF WaitForInd
  <1>2. slot_in_use[select_id[t]]
    BY <1>1, OwnedSlotInUse DEF Owning, PCs
  <1>3. ~slots[select_id[t]].ind_is_waiting
    BY <1>1 DEF IInv, SlotContents, Owning, PCs
  <1>4. QED
    BY <1>1, <1>2, <1>3 DEF WaitForInd

(* Each step of a call leaves it knowing only of answers it had.            *)
LEMMA AnswerStep ==
    ASSUME AsUsed, IInv, MInv, [Next]_vars, NEW u \in Threads
    PROVE  AnswerConsumed(u)'
  <1> USE DEF IInv, TypeOK, Goto, SetStatus, UpdateSlot
  <1>0. AnswerConsumed(u)
    BY DEF MInv
  <1>1. ASSUME NEW t \in Threads, Call(t) PROVE AnswerConsumed(u)'
    <2>1. CASE u = t
      BY <1>1, <2>1 DEF Call, AnswerConsumed, Owning
    <2>2. CASE u # t
      BY <1>0, <1>1, <2>2, AnswerKept DEF Call, arrayVars
    <2>3. QED
      BY <2>1, <2>2
  <1>2. ASSUME NEW t \in Threads, AllocSlot(t) PROVE AnswerConsumed(u)'
    <2>1. CASE u = t
      <3>1. PICK i \in FreeSlots : select_id' = [select_id EXCEPT ![t] = i]
        BY <1>2 DEF AllocSlot
      <3>2. slots[i] = ClearedSlot
        BY <3>1 DEF CleanSlots, FreeSlots
      <3>3. QED
        BY <1>0, <1>2, <2>1, <3>1, <3>2 DEF AllocSlot, AnswerConsumed, ClearedSlot
    <2>2. CASE u # t
      BY <1>0, <1>2, <2>2, AnswerKept DEF AllocSlot
    <2>3. QED
      BY <2>1, <2>2
  <1>3. ASSUME NEW t \in Threads, BufferFull(t) PROVE AnswerConsumed(u)'
    <2>1. CASE u = t
      BY <1>3, <2>1 DEF BufferFull, AnswerConsumed, Owning
    <2>2. CASE u # t
      BY <1>0, <1>3, <2>2, AnswerKept DEF BufferFull, arrayVars
    <2>3. QED
      BY <2>1, <2>2
  <1>4. ASSUME NEW t \in Threads, SelectInd(t) PROVE AnswerConsumed(u)'
    <2>1. CASE u = t
      <3>1. ~slots'[select_id'[t]].ind_has_arrived
        BY <1>4 DEF SelectInd
      <3>2. QED
        BY <1>0, <1>4, <2>1, <3>1 DEF SelectInd, AnswerConsumed
    <2>2. CASE u # t
      BY <1>0, <1>4, <2>2, AnswerKept, SlotsApart DEF SelectInd, Owning
    <2>3. QED
      BY <2>1, <2>2
  <1>5. ASSUME NEW t \in Threads, SendReq(t) PROVE AnswerConsumed(u)'
    <2>1. CASE u = t
      BY <1>0, <1>5, <2>1 DEF SendReq, AnswerConsumed, arrayVars, Owning
    <2>2. CASE u # t
      BY <1>0, <1>5, <2>2, AnswerKept DEF SendReq, arrayVars
    <2>3. QED
      BY <2>1, <2>2
  <1>6. ASSUME NEW t \in Threads, WaitForInd(t) PROVE AnswerConsumed(u)'
    <2>1. CASE u = t
      <3>1. slots'[select_id[t]].ind_has_arrived = slots[select_id[t]].ind_has_arrived
        BY <1>6, WaitOrAnswered DEF SlotRecords
      <3>2. /\ pc'[t] \in {"free", "waiting"}
            /\ pc'[t] = "free" => slots[select_id[t]].ind_has_arrived
        BY <1>6, WaitOrAnswered
      <3>3. pc[t] = "sent" /\ UNCHANGED <<select_id, status, matched>>
        BY <1>6, WaitOrAnswered
      <3>4. QED
        <4>1. slots[select_id[t]].ind_has_arrived => matched[t] > 0
          BY <1>0, <2>1, <3>3 DEF AnswerConsumed, Owning, PCs
        <4>2. status[t] = "SUCCESS"
          BY <1>0, <2>1, <3>3 DEF AnswerConsumed
        <4>3. QED
          BY <2>1, <3>1, <3>2, <3>3, <4>1, <4>2 DEF AnswerConsumed
    <2>2. CASE u # t
      <3>1. pc'[u] = pc[u] /\ UNCHANGED <<select_id, status, matched>> /\ pc[t] = "sent"
        BY <1>6, <2>2, WaitOrAnswered
      <3>2. pc[u] \in Owning => slots'[select_id[u]] = slots[select_id[u]]
        BY <1>6, <2>2, <3>1, WaitOrAnswered, SlotsApart DEF Owning, PCs
      <3>3. QED
        BY <1>0, <3>1, <3>2, AnswerKept
    <2>3. QED
      BY <2>1, <2>2
  <1>7. ASSUME NEW t \in Threads, WaitEnds(t) PROVE AnswerConsumed(u)'
    <2>1. CASE u = t
      BY <1>0, <1>7, <2>1 DEF WaitEnds, AnswerConsumed, arrayVars, Owning, AsUsed
    <2>2. CASE u # t
      BY <1>0, <1>7, <2>2, AnswerKept DEF WaitEnds, arrayVars
    <2>3. QED
      BY <2>1, <2>2
  <1>8. ASSUME NEW t \in Threads, Resume(t) PROVE AnswerConsumed(u)'
    <2>1. CASE u = t
      <3>1. slots'[select_id'[t]].ind_has_arrived = slots[select_id[t]].ind_has_arrived
        BY <1>8 DEF Resume, SlotRecords
      <3>2. QED
        BY <1>0, <1>8, <2>1, <3>1 DEF Resume, AnswerConsumed, Owning
    <2>2. CASE u # t
      BY <1>0, <1>8, <2>2, AnswerKept, SlotsApart DEF Resume, Owning
    <2>3. QED
      BY <2>1, <2>2
  <1>9. ASSUME NEW t \in Threads, FreeSlot(t) PROVE AnswerConsumed(u)'
    <2>1. CASE u = t
      BY <1>9, <2>1 DEF FreeSlot, AnswerConsumed, Owning
    <2>2. CASE u # t
      BY <1>0, <1>9, <2>2, AnswerKept, SlotsApart DEF FreeSlot, Owning
    <2>3. QED
      BY <2>1, <2>2
  <1>10. CASE ProcessIndSlot
    <2>1. CASE SlotMatches(notifier.i, notifier.msg)
      <3>1. PICK t \in Threads :
              /\ pc[t] \in Owning \ {"alloced"} /\ select_id[t] = notifier.i
              /\ matched' = [matched EXCEPT ![t] = IF @ < 2 THEN @ + 1 ELSE @]
              /\ pc' = [pc EXCEPT ![t] = IF @ = "waiting" THEN "woken" ELSE @]
              /\ slots' = IF slots[notifier.i].ind_is_waiting THEN slots
                          ELSE [slots EXCEPT ![notifier.i].ind_has_arrived = TRUE]
        BY <1>10, <2>1, TurnWithHit
      <3>2. status' = status /\ select_id' = select_id
        BY <1>10, <2>1, TurnWithHit
      <3>3. CASE u = t
        <4>1. matched'[u] > 0 /\ matched[t] \in 0 .. 2
          BY <3>1, <3>3
        <4>2. pc'[u] = pc[u] \/ (pc[u] = "waiting" /\ pc'[u] = "woken")
          <5>1. pc \in [Threads -> PCs]
            OBVIOUS
          <5>2. QED
            BY <3>1, <3>3, <5>1
        <4>3. pc'[u] \notin {"select", "alloced"}
          BY <3>1, <3>3, <4>2 DEF Owning
        <4>4. QED
          BY <1>0, <3>2, <4>1, <4>2, <4>3 DEF AnswerConsumed
      <3>4. CASE u # t
        <4>1. pc[u] \in Owning => slots'[select_id[u]] = slots[select_id[u]]
          BY <3>1, <3>4, SlotsApart
        <4>2. QED
          BY <1>0, <3>1, <3>2, <3>4, <4>1, AnswerKept
      <3>5. QED
        BY <3>3, <3>4
    <2>2. CASE ~SlotMatches(notifier.i, notifier.msg)
      BY <1>0, <1>10, <2>2, TurnWithoutHit, AnswerKept DEF arrayVars, callVars
    <2>3. QED
      BY <2>1, <2>2
  <1>11. CASE ProcessIndBegin \/ ProcessIndEnd \/ UNCHANGED vars
    BY <1>0, <1>11, AnswerKept DEF ProcessIndBegin, ProcessIndEnd, vars, arrayVars, callVars
  <1>12. QED
    BY <1>1, <1>2, <1>3, <1>4, <1>5, <1>6, <1>7, <1>8, <1>9, <1>10, <1>11
       DEF Next, Step, ProcessInd

(* An indication is of a request that was sent, and is outstanding once.    *)
LEMMA OnceStep ==
    ASSUME AsUsed, IInv, MInv, [Next]_vars
    PROVE  AnsweredOnce'
  <1>0. AnsweredOnce
    BY DEF MInv
  <1>1. /\ inflight \subseteq Requests
        /\ notifier # NULL => notifier.msg \in Requests
        /\ pc \in [Threads -> PCs] /\ calls \in [Threads -> 0 .. MaxCalls]
        /\ req \in [Threads -> Requests \cup {NULL}]
    BY DEF IInv, TypeOK, NotifierRecords
  <1>2. \A m \in Requests : m.thread \in Threads /\ m.call \in Nat
    BY DEF Requests
  <1>3. ASSUME NEW t \in Threads, Call(t) PROVE AnsweredOnce'
    <2>1. /\ pc' = [pc EXCEPT ![t] = "select"]
          /\ calls' = [calls EXCEPT ![t] = @ + 1]
          /\ UNCHANGED <<notifier, inflight>>
      BY <1>3 DEF Call, Goto
    <2>2. ASSUME NEW u \in Threads, pc'[u] # "idle"
          PROVE  req'[u].thread = u /\ req'[u].call = calls'[u]
      <3>1. PICK c \in Clients, n \in Inds, w \in PayloadKinds :
              req' = [req EXCEPT ![t] = [client |-> c, ind |-> n, wants |-> w,
                                         thread |-> t, call |-> calls[t] + 1]]
        BY <1>3 DEF Call
      <3>2. QED
        BY <1>0, <1>1, <2>1, <2>2, <3>1 DEF AnsweredOnce
    <2>3. ASSUME NEW m \in Requests, WasSent(m) PROVE WasSent(m)'
      BY <1>1, <1>2, <2>1, <2>3 DEF WasSent
    <2>4. \A m \in inflight' : WasSent(m)'
      BY <1>0, <1>1, <2>1, <2>3 DEF AnsweredOnce
    <2>5. notifier' # NULL => notifier'.msg \notin inflight' /\ WasSent(notifier.msg)'
      BY <1>0, <1>1, <2>1, <2>3 DEF AnsweredOnce
    <2>6. QED
      BY <1>0, <2>1, <2>2, <2>4, <2>5 DEF AnsweredOnce
  <1>4. ASSUME NEW t \in Threads, SendReq(t), inflight' # inflight PROVE AnsweredOnce'
    <2>1. /\ pc[t] = "selected" /\ pc' = [pc EXCEPT ![t] = "sent"]
          /\ inflight' = inflight \cup {req[t]}
          /\ UNCHANGED <<req, calls, notifier>>
      BY <1>4 DEF SendReq, Goto
    <2>2. req[t] \in Requests /\ req[t].thread = t /\ req[t].call = calls[t]
      BY <1>0, <1>1, <2>1 DEF AnsweredOnce, IInv, RequestsSet
    <2>3. IsFiniteSet(inflight')
      BY <1>0, <2>1, FS_AddElement DEF AnsweredOnce
    <2>4. notifier # NULL => notifier.msg # req[t]
      BY <1>0, <2>1, <2>2 DEF AnsweredOnce, WasSent
    <2>5. WasSent(req[t])'
      BY <1>1, <2>1, <2>2 DEF WasSent
    <2>6. ASSUME NEW m \in Requests, WasSent(m) PROVE WasSent(m)'
      BY <1>1, <1>2, <2>1, <2>6 DEF WasSent
    <2>7. \A m \in inflight' : WasSent(m)'
      BY <1>0, <1>1, <2>1, <2>5, <2>6 DEF AnsweredOnce
    <2>8. notifier' # NULL => notifier'.msg \notin inflight' /\ WasSent(notifier.msg)'
      BY <1>0, <1>1, <2>1, <2>4, <2>6 DEF AnsweredOnce
    <2>9. \A u \in Threads :
            pc'[u] # "idle" => req'[u].thread = u /\ req'[u].call = calls'[u]
      BY <1>0, <1>1, <2>1 DEF AnsweredOnce
    <2>10. QED
      BY <2>3, <2>7, <2>8, <2>9 DEF AnsweredOnce
  <1>5. ASSUME UNCHANGED <<req, calls>>,
               IsFiniteSet(inflight'), inflight' \subseteq inflight,
               \A x \in Threads : /\ pc'[x] # "idle" => pc[x] # "idle"
                                  /\ pc'[x] \in {"select", "alloced", "selected"} =>
                                        pc[x] \in {"select", "alloced", "selected"},
               notifier' # NULL =>
                  /\ notifier'.msg \notin inflight'
                  /\ \/ notifier # NULL /\ notifier'.msg = notifier.msg
                     \/ notifier'.msg \in inflight
        PROVE  AnsweredOnce'
    <2>1. ASSUME NEW m \in Requests, WasSent(m) PROVE WasSent(m)'
      BY <1>2, <1>5, <2>1 DEF WasSent
    <2>2. \A m \in inflight' : WasSent(m)'
      BY <1>0, <1>1, <1>5, <2>1 DEF AnsweredOnce
    <2>3. notifier' # NULL => notifier'.msg \notin inflight' /\ WasSent(notifier.msg)'
      BY <1>0, <1>1, <1>5, <2>1 DEF AnsweredOnce
    <2>4. QED
      BY <1>0, <1>5, <2>2, <2>3 DEF AnsweredOnce
  <1>6. ASSUME NEW t \in Threads, Step(t), inflight' = inflight PROVE AnsweredOnce'
    <2>1. UNCHANGED <<req, calls, notifier>>
      BY <1>6 DEF Step, AllocSlot, BufferFull, SelectInd, SendReq, WaitForInd,
         WaitEnds, Resume, FreeSlot
    <2>2. \E p \in PCs : /\ pc' = [pc EXCEPT ![t] = p]
                         /\ p # "idle" => pc[t] # "idle"
                         /\ p \in {"select", "alloced", "selected"} =>
                               pc[t] \in {"select", "alloced", "selected"}
      BY <1>6 DEF Step, AllocSlot, BufferFull, SelectInd, SendReq, WaitForInd,
         WaitEnds, Resume, FreeSlot, Goto, PCs
    <2>3. \A x \in Threads : /\ pc'[x] # "idle" => pc[x] # "idle"
                             /\ pc'[x] \in {"select", "alloced", "selected"} =>
                                   pc[x] \in {"select", "alloced", "selected"}
      BY <1>1, <2>2
    <2>4. QED
      BY <1>0, <1>5, <1>6, <2>1, <2>3 DEF AnsweredOnce
  <1>7. CASE ProcessIndBegin
    <2>1. PICK m \in inflight :
            /\ inflight' = inflight \ {m}
            /\ notifier' = IF in_use
                 THEN [msg |-> m, i |-> 0, in_use |-> FALSE, consumed |-> FALSE] ELSE NULL
      BY <1>7 DEF ProcessIndBegin
    <2>2. IsFiniteSet(inflight')
      BY <1>0, <2>1, FS_RemoveElement DEF AnsweredOnce
    <2>3. QED
      BY <1>5, <1>7, <2>1, <2>2 DEF ProcessIndBegin, callVars
  <1>8. CASE ProcessIndSlot
    <2>1. \A x \in Threads : pc'[x] = pc[x] \/ (pc[x] = "waiting" /\ pc'[x] = "woken")
      <3>1. CASE SlotMatches(notifier.i, notifier.msg)
        BY <1>1, <1>8, <3>1, TurnWithHit
      <3>2. CASE ~SlotMatches(notifier.i, notifier.msg)
        BY <1>8, <3>2, TurnWithoutHit DEF callVars
      <3>3. QED
        BY <3>1, <3>2
    <2>2. UNCHANGED <<req, calls, inflight>> /\ notifier # NULL
      BY <1>8 DEF ProcessIndSlot
    <2>3. notifier' # NULL /\ notifier'.msg = notifier.msg
      BY <1>8, TurnLocals
    <2>4. QED
      BY <1>0, <1>5, <2>1, <2>2, <2>3 DEF AnsweredOnce
  <1>9. CASE ProcessIndEnd \/ UNCHANGED vars
    BY <1>0, <1>5, <1>9 DEF ProcessIndEnd, vars, callVars, AnsweredOnce
  <1>10. QED
    BY <1>3, <1>4, <1>6, <1>7, <1>8, <1>9
       DEF Next, Step, ProcessInd, AllocSlot, BufferFull, SelectInd, WaitForInd,
           WaitEnds, Resume, FreeSlot

(* What the mapping rests on holds in every reachable state.                *)
LEMMA MappingInvariance ==
    ASSUME AsUsed
    PROVE  Spec => [](IInv /\ MInv)
  <1>1. IInv /\ MInv /\ [Next]_vars => (IInv /\ MInv)'
    <2> SUFFICES ASSUME IInv, MInv, [Next]_vars PROVE (IInv /\ MInv)'
      OBVIOUS
    <2>1. IInv'
      BY TypeStep, OwnershipStep, InUseStep, RequestsStep, ContentsStep, CleanStep,
         NotifierCountStep, PayloadStep, NoInternalStep DEF IInv
    <2>2. MInv'
      BY AnswerStep, OnceStep DEF MInv
    <2>3. QED
      BY <2>1, <2>2
  <1>2. QED
    BY <1>1, InitInv, MappingInit, PTL DEF Spec

(* Counting the outstanding indications of a key.                           *)
CountOf(S) == [k \in [client : Clients, ind : Inds] |-> Cardinality({m \in S : Key(m) = k})]

LEMMA OneMore ==
    ASSUME NEW S, IsFiniteSet(S), NEW r, r \notin S,
           Key(r) \in [client : Clients, ind : Inds]
    PROVE  /\ CountOf(S \cup {r}) = [CountOf(S) EXCEPT ![Key(r)] = @ + 1]
           /\ CountOf(S)[Key(r)] \in Nat
  <1> DEFINE Of(T, k) == {m \in T : Key(m) = k}
  <1>1. \A k : IsFiniteSet(Of(S, k)) /\ Cardinality(Of(S, k)) \in Nat
    BY FS_Subset, FS_CardinalityType
  <1>2. Of(S \cup {r}, Key(r)) = Of(S, Key(r)) \cup {r} /\ r \notin Of(S, Key(r))
    OBVIOUS
  <1>3. \A k : k # Key(r) => Of(S \cup {r}, k) = Of(S, k)
    OBVIOUS
  <1> HIDE DEF Of
  <1>4. Cardinality(Of(S \cup {r}, Key(r))) = Cardinality(Of(S, Key(r))) + 1
    BY <1>1, <1>2, FS_AddElement
  <1>5. CountOf(S) = [k \in [client : Clients, ind : Inds] |-> Cardinality(Of(S, k))]
    BY DEF CountOf, Of
  <1>6. CountOf(S \cup {r}) =
            [k \in [client : Clients, ind : Inds] |-> Cardinality(Of(S \cup {r}, k))]
    BY DEF CountOf, Of
  <1>7. CountOf(S)[Key(r)] \in Nat
    BY <1>1, <1>5
  <1>8. CountOf(S \cup {r}) = [CountOf(S) EXCEPT ![Key(r)] = @ + 1]
    <2> DEFINE Keys == [client : Clients, ind : Inds]
    <2>1. ASSUME NEW k \in Keys
          PROVE  Cardinality(Of(S \cup {r}, k)) =
                    IF k = Key(r) THEN Cardinality(Of(S, k)) + 1 ELSE Cardinality(Of(S, k))
      BY <1>3, <1>4
    <2> HIDE DEF Keys
    <2>2. QED
      BY <1>5, <1>6, <2>1 DEF Keys
  <1>9. QED
    BY <1>7, <1>8

LEMMA OneLess ==
    ASSUME NEW S, IsFiniteSet(S), NEW r \in S,
           Key(r) \in [client : Clients, ind : Inds]
    PROVE  /\ CountOf(S \ {r}) = [CountOf(S) EXCEPT ![Key(r)] = @ - 1]
           /\ CountOf(S)[Key(r)] > 0
  <1>1. IsFiniteSet(S \ {r})
    BY FS_RemoveElement
  <1>2. (S \ {r}) \cup {r} = S
    OBVIOUS
  <1>3. /\ CountOf(S) = [CountOf(S \ {r}) EXCEPT ![Key(r)] = @ + 1]
        /\ CountOf(S \ {r})[Key(r)] \in Nat
    BY <1>1, <1>2, OneMore
  <1>4. DOMAIN CountOf(S \ {r}) = [client : Clients, ind : Inds]
    BY DEF CountOf
  <1>5. CountOf(S)[Key(r)] = CountOf(S \ {r})[Key(r)] + 1
    BY <1>3, <1>4
  <1>6. CountOf(S \ {r}) = [CountOf(S) EXCEPT ![Key(r)] = @ - 1]
    <2> DEFINE F == CountOf(S \ {r})
               G == CountOf(S)
               Keys == [client : Clients, ind : Inds]
    <2>1. F = [k \in Keys |-> F[k]]
      BY DEF CountOf
    <2>2. G = [F EXCEPT ![Key(r)] = @ + 1] /\ F[Key(r)] \in Nat
      BY <1>3
    <2> HIDE DEF F, G, Keys
    <2>3. F = [G EXCEPT ![Key(r)] = @ - 1]
      BY <2>1, <2>2
    <2>4. QED
      BY <2>3 DEF F, G
  <1>7. QED
    BY <1>3, <1>5, <1>6

LEMMA OutstandingFinite ==
    ASSUME IInv, MInv
    PROVE  /\ IsFiniteSet(Outstanding)
           /\ \A m \in Outstanding : Key(m) \in [client : Clients, ind : Inds]
  <1>1. IsFiniteSet(inflight)
    BY DEF MInv, AnsweredOnce
  <1>2. Outstanding = inflight \/ Outstanding = inflight \cup {notifier.msg}
    BY DEF Outstanding
  <1>3. Outstanding \subseteq Requests
    BY DEF Outstanding, IInv, TypeOK, NotifierRecords
  <1>4. QED
    BY <1>1, <1>2, <1>3, FS_AddElement DEF Requests, Key

(* A step that keeps the outstanding indications and what a call shows.     *)
LEMMA Unchanged ==
    ASSUME CallState' = CallState, Accepted' = Accepted, Args' = Args,
           Result' = Result, Outstanding' = Outstanding
    PROVE  UNCHANGED Abstract!vars
  BY DEF Abstract!vars, Responses

LEMMA InitMaps == Init => Abstract!Init
  <1> SUFFICES ASSUME Init PROVE Abstract!Init
    OBVIOUS
  <1>1. Outstanding = {}
    BY DEF Init, Outstanding
  <1>2. \A k : {m \in Outstanding : Key(m) = k} = {}
    BY <1>1
  <1>3. Responses = [k \in [client : Clients, ind : Inds] |-> 0]
    BY <1>2, FS_EmptySet DEF Responses
  <1>4. QED
    BY <1>3 DEF Init, Abstract!Init, Abstract!Keys, CallState, Accepted, Args, Result

LEMMA CallMaps ==
    ASSUME IInv, NEW t \in Threads, Call(t)
    PROVE  Abstract!Open(t)
  <1> USE DEF IInv, TypeOK, Call, Goto, SetStatus
  <1>1. PICK c \in Clients, n \in Inds, w \in PayloadKinds :
          req' = [req EXCEPT ![t] = [client |-> c, ind |-> n, wants |-> w,
                                     thread |-> t, call |-> calls[t] + 1]]
    OBVIOUS
  <1>2. req'[t] # NULL /\ Key(req'[t]) = [client |-> c, ind |-> n]
    <2>1. req'[t] = [client |-> c, ind |-> n, wants |-> w,
                     thread |-> t, call |-> calls[t] + 1]
      BY <1>1
    <2>2. calls[t] + 1 \in 1 .. MaxCalls
      OBVIOUS
    <2>3. req'[t] \in Requests
      BY <2>1, <2>2 DEF Requests
    <2>4. QED
      BY <2>1, <2>3 DEF Key
  <1>3. Args' = [Args EXCEPT ![t] = [client |-> c, ind |-> n]]
    BY <1>1, <1>2 DEF Args
  <1>4. CallState' = [CallState EXCEPT ![t] = "open"] /\ CallState[t] = "idle"
    <2>1. /\ pc' = [pc EXCEPT ![t] = "select"] /\ matched' = [matched EXCEPT ![t] = 0]
          /\ pc \in [Threads -> PCs] /\ matched \in [Threads -> 0 .. 2] /\ pc[t] = "idle"
      OBVIOUS
    <2>2. \A u \in Threads : u # t => pc'[u] = pc[u] /\ matched'[u] = matched[u]
      BY <2>1
    <2>3. pc'[t] = "select" /\ matched'[t] = 0
      BY <2>1
    <2>4. ~(matched'[t] > 0)
      BY <2>3
    <2>5. CallState[t] = "idle" /\ CallState = [u \in Threads |-> CallState[u]]
      BY <2>1 DEF CallState
    <2>6. CallState' = [u \in Threads |-> IF u = t THEN "open" ELSE CallState[u]]
      BY <2>2, <2>3, <2>4, Zenon DEF CallState
    <2>7. QED
      BY <2>5, <2>6
  <1>5. Result' = [Result EXCEPT ![t] = "pending"]
    BY DEF Result
  <1>6. Accepted' = Accepted
    BY DEF Accepted
  <1>7. Responses' = Responses
    BY DEF Responses, Outstanding
  <1>8. [client |-> c, ind |-> n] \in Abstract!Keys
    BY DEF Abstract!Keys
  <1>9. QED
    BY <1>3, <1>4, <1>5, <1>6, <1>7, <1>8 DEF Abstract!Open

LEMMA SendMaps ==
    ASSUME IInv, MInv, NEW t \in Threads, SendReq(t)
    PROVE  Abstract!Accept(t) \/ UNCHANGED Abstract!vars
  <1> USE DEF IInv, TypeOK, SendReq, Goto, SetStatus
  <1>1. CallState' = CallState /\ Args' = Args /\ Result' = Result
    BY DEF CallState, Args, Result
  <1>2. CASE pc' = [pc EXCEPT ![t] = "sent"] /\ inflight' = inflight \cup {req[t]}
             /\ UNCHANGED status
    <2>1. req[t] \in Requests /\ req[t].thread = t /\ req[t].call = calls[t] /\ req[t] # NULL
      BY DEF MInv, AnsweredOnce, RequestsSet
    <2>2. req[t] \notin Outstanding
      BY <2>1 DEF Outstanding, MInv, AnsweredOnce, WasSent
    <2>3. Outstanding' = Outstanding \cup {req[t]}
      BY <1>2 DEF Outstanding
    <2>4. Key(req[t]) \in [client : Clients, ind : Inds]
      BY <2>1 DEF Requests, Key
    <2>5. Responses' = [Responses EXCEPT ![Key(req[t])] = @ + 1]
      <3>1. Responses = CountOf(Outstanding) /\ Responses' = CountOf(Outstanding')
        BY DEF Responses, CountOf
      <3>2. IsFiniteSet(Outstanding)
        BY OutstandingFinite
      <3>3. QED
        BY <2>2, <2>3, <2>4, <3>1, <3>2, OneMore
    <2>6. Accepted' = [Accepted EXCEPT ![t] = TRUE] /\ ~Accepted[t]
      BY <1>2 DEF Accepted
    <2>7. CallState[t] # "idle" /\ Args[t] = Key(req[t])
      BY <2>1 DEF CallState, Args
    <2>8. QED
      BY <1>1, <2>5, <2>6, <2>7 DEF Abstract!Accept
  <1>3. CASE inflight' = inflight /\ pc' = [pc EXCEPT ![t] = "free"]
             /\ status' = [status EXCEPT ![t] = "SEND_FAILED"]
    <2>1. Accepted' = Accepted
      BY <1>3 DEF Accepted
    <2>2. Outstanding' = Outstanding
      BY <1>3 DEF Outstanding
    <2>3. QED
      BY <1>1, <2>1, <2>2, Unchanged
  <1>4. QED
    BY <1>2, <1>3

(* A request that was refused is never waited for.                          *)
LEMMA SentSucceeds ==
    ASSUME MInv, NEW t \in Threads, pc[t] \in {"sent", "woken", "timedout"}
    PROVE  status[t] = "SUCCESS"
  BY DEF MInv, AnswerConsumed

(* Taking and filling a slot, the wait and its end do not show.             *)
LEMMA QuietMaps ==
    ASSUME AsUsed, IInv, MInv, NEW t \in Threads,
           AllocSlot(t) \/ SelectInd(t) \/ WaitForInd(t) \/ WaitEnds(t) \/ Resume(t)
    PROVE  UNCHANGED Abstract!vars
  <1>1. Outstanding' = Outstanding /\ Args' = Args
    BY DEF AllocSlot, SelectInd, WaitForInd, WaitEnds, Resume, Outstanding, Args
  <1>2. \E p \in PCs \ {"idle"} : pc' = [pc EXCEPT ![t] = p] /\ pc[t] # "idle"
    BY WaitOrAnswered DEF AllocSlot, SelectInd, WaitForInd, WaitEnds, Resume, Goto, PCs
  <1>3. matched' = matched
    BY DEF AllocSlot, SelectInd, WaitForInd, WaitEnds, Resume
  <1>4. pc \in [Threads -> PCs] /\ status \in [Threads -> Statuses]
    BY DEF IInv, TypeOK
  <1>5. CallState' = CallState
    BY <1>2, <1>3, <1>4 DEF CallState
  <1>6. \A u \in Threads : u # t => pc'[u] = pc[u] /\ status'[u] = status[u]
    BY <1>4, WaitOrAnswered DEF AllocSlot, SelectInd, WaitEnds, Resume, Goto, SetStatus
  <1>7. Result' = Result
    BY <1>2, <1>4, <1>6 DEF Result
  <1>8. Accepted' = Accepted
    <2>1. CASE AllocSlot(t) \/ SelectInd(t)
      BY <1>4, <2>1 DEF AllocSlot, SelectInd, Goto, Accepted
    <2>2. CASE WaitForInd(t)
      <3>1. status[t] # "SEND_FAILED"
        BY <2>2, SentSucceeds, WaitOrAnswered
      <3>2. QED
        BY <1>4, <2>2, <3>1, WaitOrAnswered DEF Goto, Accepted
    <2>3. CASE WaitEnds(t)
      BY <1>4, <2>3 DEF WaitEnds, Goto, Accepted
    <2>4. CASE Resume(t)
      <3>1. status'[t] # "SEND_FAILED"
        BY <1>4, <2>4, SentSucceeds DEF Resume, SetStatus
      <3>2. pc'[t] = "free" /\ pc[t] \in {"woken", "timedout"}
        BY <1>4, <2>4 DEF Resume, Goto
      <3>3. QED
        BY <1>6, <3>1, <3>2, Zenon DEF Accepted
    <2>5. QED
      BY <2>1, <2>2, <2>3, <2>4
  <1>9. QED
    BY <1>1, <1>5, <1>7, <1>8, Unchanged

(* Without a free slot every slot is some other call's.                     *)
LEMMA FullMaps ==
    ASSUME AsUsed, IInv, MInv, NEW t \in Threads, BufferFull(t)
    PROVE  Abstract!TurnAway(t)
  <1> USE DEF IInv, TypeOK
  <1>1. /\ pc[t] = "select" /\ pc' = [pc EXCEPT ![t] = "idle"] /\ FreeSlots = {}
        /\ UNCHANGED <<arrayVars, notifier, inflight, req, status, matched>>
    BY DEF BufferFull, Goto
  <1>2. status[t] = "SUCCESS" /\ matched[t] = 0
    BY <1>1 DEF MInv, AnswerConsumed
  <1>3. \A i \in Slots : \E u \in Abstract!Others(t) : pc[u] \in Owning /\ select_id[u] = i
    BY <1>1 DEF SlotOwnership, Owns, FreeSlots, CallState, Owning, Abstract!Others
  <1> DEFINE holder == [i \in Slots |-> CHOOSE u \in Abstract!Others(t) :
                                           pc[u] \in Owning /\ select_id[u] = i]
  <1>4. \A i \in Slots : holder[i] \in Abstract!Others(t) /\ select_id[holder[i]] = i
    BY <1>3
  <1>5. holder \in [Slots -> Abstract!Others(t)]
    BY <1>4
  <1> HIDE DEF holder
  <1>6. \E h \in [Slots -> Abstract!Others(t)] :
           \A i, j \in Slots : h[i] = h[j] => i = j
    BY <1>4, <1>5
  <1>7. CallState[t] = "open" /\ ~Accepted[t] /\ Accepted' = Accepted
    BY <1>1, <1>2 DEF CallState, Accepted
  <1>8. CallState' = [CallState EXCEPT ![t] = "idle"]
    BY <1>1 DEF CallState
  <1>9. Result' = [Result EXCEPT ![t] = "SUCCESS"]
    BY <1>1, <1>2 DEF Result
  <1>10. Args' = Args /\ Responses' = Responses
    BY <1>1 DEF Args, Responses, Outstanding
  <1>11. QED
    BY <1>6, <1>7, <1>8, <1>9, <1>10 DEF Abstract!TurnAway

(* A call returns what its freed slot has come to.                          *)
LEMMA FreeMaps ==
    ASSUME IInv, MInv, NEW t \in Threads, FreeSlot(t)
    PROVE  Abstract!Close(t)
  <1> USE DEF IInv, TypeOK
  <1>1. /\ pc[t] = "free" /\ pc' = [pc EXCEPT ![t] = "idle"]
        /\ UNCHANGED <<notifier, inflight, req, status, matched>>
    BY DEF FreeSlot, Goto
  <1>2. /\ status[t] \in {"SUCCESS", "TIMEOUT", "SEND_FAILED"}
        /\ status[t] = "SUCCESS" => matched[t] > 0
    BY <1>1 DEF MInv, AnswerConsumed
  <1>3. /\ CallState[t] # "idle"
        /\ status[t] = "SUCCESS" => CallState[t] = "answered"
    BY <1>1, <1>2 DEF CallState
  <1>4. Accepted[t] <=> status[t] # "SEND_FAILED"
    BY <1>1 DEF Accepted
  <1>5. CallState' = [CallState EXCEPT ![t] = "idle"]
    BY <1>1 DEF CallState
  <1>6. Accepted' = [Accepted EXCEPT ![t] = FALSE]
    BY <1>1 DEF Accepted
  <1>7. Result' = [Result EXCEPT ![t] = status[t]]
    BY <1>1 DEF Result
  <1>8. Args' = Args /\ Responses' = Responses
    BY <1>1 DEF Args, Responses, Outstanding
  <1>9. QED
    BY <1>2, <1>3, <1>4, <1>5, <1>6, <1>7, <1>8 DEF Abstract!Close

(* An indication nobody waits for disappears.                               *)
LEMMA DropMaps ==
    ASSUME IInv, MInv, NEW m \in Outstanding, Outstanding' = Outstanding \ {m},
           UNCHANGED callVars
    PROVE  Abstract!Drop
  <1>1. IsFiniteSet(Outstanding) /\ Key(m) \in [client : Clients, ind : Inds]
    BY OutstandingFinite
  <1>2. Responses = CountOf(Outstanding) /\ Responses' = CountOf(Outstanding \ {m})
    BY DEF Responses, CountOf
  <1>3. /\ Responses' = [Responses EXCEPT ![Key(m)] = @ - 1]
        /\ Responses[Key(m)] > 0
    BY <1>1, <1>2, OneLess
  <1>4. UNCHANGED <<CallState, Accepted, Args, Result>>
    BY DEF callVars, CallState, Accepted, Args, Result
  <1>5. QED
    BY <1>1, <1>3, <1>4 DEF Abstract!Drop, Abstract!Keys

(* A turn of the notifier's loop answers the owner of the slot, or nobody.  *)
LEMMA TurnMaps ==
    ASSUME AsUsed, IInv, MInv, ProcessIndSlot
    PROVE  (\E t \in Threads : Abstract!Answer(t)) \/ UNCHANGED Abstract!vars
  <1>1. /\ notifier # NULL /\ ~notifier.consumed /\ notifier.msg \in Requests
        /\ notifier' # NULL /\ notifier'.msg = notifier.msg
    BY TurnLocals DEF ProcessIndSlot
  <1>2. CASE ~SlotMatches(notifier.i, notifier.msg)
    <2>1. ~notifier'.consumed
      BY <1>2, TurnLocals
    <2>2. UNCHANGED <<inflight, callVars>>
      BY <1>2, TurnWithoutHit
    <2>3. Outstanding' = Outstanding
      BY <1>1, <2>1, <2>2 DEF Outstanding
    <2>4. UNCHANGED <<CallState, Accepted, Args, Result>>
      BY <2>2 DEF callVars, CallState, Accepted, Args, Result
    <2>5. QED
      BY <2>3, <2>4, Unchanged
  <1>3. CASE SlotMatches(notifier.i, notifier.msg)
    <2>1. PICK t \in Threads :
            /\ pc[t] \in Owning \ {"alloced"}
            /\ req[t] # NULL /\ Key(req[t]) = Key(notifier.msg)
            /\ matched' = [matched EXCEPT ![t] = IF @ < 2 THEN @ + 1 ELSE @]
            /\ pc' = [pc EXCEPT ![t] = IF @ = "waiting" THEN "woken" ELSE @]
      BY <1>3, TurnWithHit
    <2>2. notifier'.consumed /\ UNCHANGED <<inflight, req, status>>
      BY <1>3, TurnWithHit
    <2>3. /\ notifier.msg \in Outstanding
          /\ Outstanding' = Outstanding \ {notifier.msg}
      BY <1>1, <2>2 DEF Outstanding, MInv, AnsweredOnce
    <2>4. /\ Responses' = [Responses EXCEPT ![Key(notifier.msg)] = @ - 1]
          /\ Responses[Key(notifier.msg)] > 0
      <3>1. /\ IsFiniteSet(Outstanding)
            /\ Key(notifier.msg) \in [client : Clients, ind : Inds]
        BY <2>3, OutstandingFinite
      <3>2. Responses = CountOf(Outstanding) /\ Responses' = CountOf(Outstanding')
        BY DEF Responses, CountOf
      <3>3. QED
        BY <2>3, <3>1, <3>2, OneLess
    <2>5. pc \in [Threads -> PCs] /\ matched \in [Threads -> 0 .. 2]
      BY DEF IInv, TypeOK
    <2>6. /\ \A u \in Threads : u # t => pc'[u] = pc[u] /\ matched'[u] = matched[u]
          /\ matched'[t] > 0
          /\ pc'[t] = IF pc[t] = "waiting" THEN "woken" ELSE pc[t]
      BY <2>1, <2>5
    <2>7. pc[t] # "idle" /\ pc'[t] # "idle"
      BY <2>1, <2>6 DEF Owning
    <2>8. CallState' = [CallState EXCEPT ![t] = "answered"] /\ CallState[t] # "idle"
      <3>1. CallState' = [u \in Threads |-> IF u = t THEN "answered" ELSE CallState[u]]
        BY <2>6, <2>7, Zenon DEF CallState
      <3>2. CallState = [u \in Threads |-> CallState[u]] /\ CallState[t] # "idle"
        BY <2>7 DEF CallState
      <3>3. QED
        BY <3>1, <3>2
    <2>9. Args' = Args /\ Args[t] = Key(notifier.msg)
      BY <2>1, <2>2 DEF Args
    <2>10. Result' = Result
      BY <2>2, <2>6, <2>7, Zenon DEF Result
    <2>11. Accepted' = Accepted
      <3>1. pc'[t] = pc[t] \/ (pc[t] = "waiting" /\ pc'[t] = "woken")
        BY <2>6
      <3>2. QED
        BY <2>2, <2>6, <3>1 DEF Accepted
    <2>12. QED
      BY <2>4, <2>8, <2>9, <2>10, <2>11 DEF Abstract!Answer
  <1>4. QED
    BY <1>2, <1>3

(* Every step is a step of the abstract call or leaves it unchanged.        *)
LEMMA StepMaps ==
    ASSUME AsUsed, IInv, MInv, [Next]_vars
    PROVE  [Abstract!Next]_(Abstract!vars)
  <1> SUFFICES Abstract!Next \/ UNCHANGED Abstract!vars
    OBVIOUS
  <1>1. ASSUME NEW t \in Threads, Call(t) PROVE Abstract!Next
    BY <1>1, CallMaps DEF Abstract!Next
  <1>2. ASSUME NEW t \in Threads, Step(t) PROVE Abstract!Next \/ UNCHANGED Abstract!vars
    <2>1. CASE SendReq(t)
      BY <2>1, SendMaps DEF Abstract!Next
    <2>2. CASE BufferFull(t)
      BY <2>2, FullMaps DEF Abstract!Next
    <2>3. CASE FreeSlot(t)
      BY <2>3, FreeMaps DEF Abstract!Next
    <2>4. QED
      BY <1>2, <2>1, <2>2, <2>3, QuietMaps DEF Step
  <1>3. CASE ProcessIndBegin
    <2>1. PICK m \in inflight :
            /\ inflight' = inflight \ {m}
            /\ notifier' = IF in_use
                 THEN [msg |-> m, i |-> 0, in_use |-> FALSE, consumed |-> FALSE] ELSE NULL
      BY <1>3 DEF ProcessIndBegin
    <2>2. notifier = NULL /\ UNCHANGED callVars
      BY <1>3 DEF ProcessIndBegin, CallMutexFree
    <2>3. CASE in_use
      <3>1. notifier' = [msg |-> m, i |-> 0, in_use |-> FALSE, consumed |-> FALSE]
        BY <2>1, <2>3
      <3>2. notifier' # NULL
        <4>1. m \in Requests
          BY DEF IInv, TypeOK
        <4>2. notifier' \in NotifierRecords
          BY <3>1, <4>1 DEF NotifierRecords
        <4>3. QED
          BY <4>2, NotifierAssumption
      <3>3. Outstanding' = Outstanding
        BY <2>1, <2>2, <3>1, <3>2 DEF Outstanding
      <3>4. UNCHANGED <<CallState, Accepted, Args, Result>>
        BY <2>2 DEF callVars, CallState, Accepted, Args, Result
      <3>5. QED
        BY <3>3, <3>4, Unchanged
    <2>4. CASE ~in_use
      <3>1. m \in Outstanding /\ Outstanding' = Outstanding \ {m}
        BY <2>1, <2>2, <2>4 DEF Outstanding
      <3>2. QED
        BY <2>2, <3>1, DropMaps DEF Abstract!Next
    <2>5. QED
      BY <2>3, <2>4
  <1>4. CASE ProcessIndSlot
    BY <1>4, TurnMaps DEF Abstract!Next
  <1>5. CASE ProcessIndEnd
    <2>1. /\ notifier # NULL /\ notifier' = NULL
          /\ inflight' = inflight /\ UNCHANGED callVars
      BY <1>5 DEF ProcessIndEnd
    <2>2. CASE notifier.consumed
      <3>1. Outstanding' = Outstanding
        BY <2>1, <2>2 DEF Outstanding
      <3>2. UNCHANGED <<CallState, Accepted, Args, Result>>
        BY <2>1 DEF callVars, CallState, Accepted, Args, Result
      <3>3. QED
        BY <3>1, <3>2, Unchanged
    <2>3. CASE ~notifier.consumed
      <3>1. /\ notifier.msg \in Outstanding
            /\ Outstanding' = Outstanding \ {notifier.msg}
        BY <2>1, <2>3 DEF Outstanding, MInv, AnsweredOnce
      <3>2. QED
        BY <2>1, <3>1, DropMaps DEF Abstract!Next
    <2>4. QED
      BY <2>2, <2>3
  <1>6. CASE UNCHANGED vars
    BY <1>6, Unchanged DEF vars, arrayVars, callVars, CallState, Accepted, Args,
       Result, Outstanding
  <1>7. QED
    BY <1>1, <1>2, <1>3, <1>4, <1>5, <1>6 DEF Next, ProcessInd

(* The layer implements the abstract call, for any number of threads,       *)
(* clients, slots and calls, when it is used as this repository does.       *)
THEOREM CallImplemented ==
    ASSUME AsUsed
    PROVE  Spec => ImplementsSyncCall
  <1>1. IInv /\ MInv /\ [Next]_vars => [Abstract!Next]_(Abstract!vars)
    BY StepMaps
  <1>2. QED
    BY <1>1, MappingInvariance, InitMaps, PTL
       DEF Spec, ImplementsSyncCall, Abstract!Spec
=============================================================================
