--------------------------- MODULE LocApiSyncReq ---------------------------
(* The synchronous request layer of the QMI location API                    *)
(* (gps/loc_api/loc_api_v02/loc_api_sync_req.c): threads send a request     *)
(* with loc_sync_send_req and block until the response indication arrives   *)
(* on the notifier thread, in loc_sync_process_ind, or the wait times out.  *)
(*                                                                          *)
(* loc_sync_call_mutex is held by the notifier for its whole loop over the  *)
(* slots, and by alloc and free for one step each: it is free exactly when  *)
(* notifier = NULL.  A slot's sync_req_lock is never held across a step.    *)
(* ind_is_selected and req_id are written and never read: left out.         *)
EXTENDS Naturals, FiniteSets

CONSTANTS
    Threads,            \* threads that call loc_sync_send_req
    Clients,            \* locClientHandleType values
    Inds,               \* response indication ids
    BufferSize,         \* LOC_SYNC_REQ_BUFFER_SIZE
    MaxCalls,           \* bound: calls made by each thread
    SpuriousWakeups,    \* may pthread_cond_timedwait return 0 unsignalled?
    PayloadKinds,       \* subset of BOOLEAN: does a caller pass a payload buffer?
    NULL

Slots == 0 .. BufferSize - 1

(* A request, and the indication the service answers it with: who asked, in *)
(* which of its calls.  The protocol carries neither: no code reads them.   *)
Requests == [client : Clients, ind : Inds, wants : PayloadKinds,
             thread : Threads, call : 1 .. MaxCalls]

ASSUME ConstantsAssumption ==
    /\ BufferSize \in Nat \ {0}
    /\ MaxCalls \in Nat
    /\ SpuriousWakeups \in BOOLEAN
    /\ PayloadKinds \subseteq BOOLEAN
    /\ NULL \notin Threads \cup Clients \cup Inds \cup Requests

VARIABLES
    slot_in_use,    \* loc_sync_array.slot_in_use
    slots,          \* loc_sync_array.slots
    in_use,         \* loc_sync_array.in_use
    notifier,       \* locals of the running loc_sync_process_ind, or NULL
    inflight,       \* indications the service has sent or will never send
    pc,             \* where each thread is in loc_sync_send_req
    req,            \* its arguments
    select_id,      \* its slot
    payload,        \* contents of its payload buffer, NULL when never written
    status,         \* its return value
    calls,          \* how many calls it has made (bounded by MaxCalls)
    matched         \* history: slot matches its current call has had, up to 2

arrayVars  == <<slot_in_use, slots, in_use>>
callVars   == <<pc, req, select_id, payload, status, calls, matched>>
vars == <<arrayVars, notifier, inflight, callVars>>

PCs == {"idle", "select", "alloced", "selected", "sent", "waiting",
        "woken", "timedout", "free"}
Owning == PCs \ {"idle", "select"}
Statuses == {"none", "SUCCESS", "TIMEOUT", "INTERNAL", "SEND_FAILED"}

SlotRecords == [client_handle : Clients \cup {NULL},
                ind_is_waiting : BOOLEAN, ind_has_arrived : BOOLEAN,
                recv_ind_id : Inds \cup {NULL},
                recv_ind_payload_ptr : Threads \cup {NULL}]

ClearedSlot == [client_handle |-> NULL, ind_is_waiting |-> FALSE,
                ind_has_arrived |-> FALSE, recv_ind_id |-> NULL,
                recv_ind_payload_ptr |-> NULL]

NotifierRecords == [msg : Requests, i : 0 .. BufferSize,
                    in_use : BOOLEAN, consumed : BOOLEAN]

ASSUME NotifierAssumption == NULL \notin NotifierRecords

(* The state loc_sync_req_init leaves, before any request.                  *)
Init ==
    /\ slot_in_use = [i \in Slots |-> FALSE]
    /\ slots = [i \in Slots |-> ClearedSlot]
    /\ in_use = FALSE
    /\ notifier = NULL
    /\ inflight = {}
    /\ pc = [t \in Threads |-> "idle"]
    /\ req = [t \in Threads |-> NULL]
    /\ select_id = [t \in Threads |-> 0]
    /\ payload = [t \in Threads |-> NULL]
    /\ status = [t \in Threads |-> "none"]
    /\ calls = [t \in Threads |-> 0]
    /\ matched = [t \in Threads |-> 0]

CallMutexFree == notifier = NULL
FreeSlots == {i \in Slots : ~slot_in_use[i]}
Goto(t, label) == pc' = [pc EXCEPT ![t] = label]
SetStatus(t, s) == status' = [status EXCEPT ![t] = s]
UpdateSlot(t, rec) == slots' = [slots EXCEPT ![select_id[t]] = rec]

----------------------------------------------------------------------------
(* The caller: loc_sync_send_req                                            *)

(* A thread enters with an empty payload buffer (every caller clears it).   *)
Call(t) ==
    /\ pc[t] = "idle"
    /\ calls[t] < MaxCalls
    /\ \E c \in Clients, n \in Inds, w \in PayloadKinds :
          req' = [req EXCEPT ![t] = [client |-> c, ind |-> n, wants |-> w,
                                     thread |-> t, call |-> calls[t] + 1]]
    /\ Goto(t, "select")
    /\ SetStatus(t, "SUCCESS")
    /\ payload' = [payload EXCEPT ![t] = NULL]
    /\ calls' = [calls EXCEPT ![t] = @ + 1]
    /\ matched' = [matched EXCEPT ![t] = 0]
    /\ UNCHANGED <<arrayVars, notifier, inflight, select_id>>

(* loc_alloc_slot takes the first free slot.                                *)
AllocSlot(t) ==
    /\ pc[t] = "select"
    /\ CallMutexFree
    /\ \E i \in FreeSlots :
          /\ \A j \in FreeSlots : i <= j
          /\ slot_in_use' = [slot_in_use EXCEPT ![i] = TRUE]
          /\ select_id' = [select_id EXCEPT ![t] = i]
    /\ in_use' = TRUE
    /\ Goto(t, "alloced")
    /\ UNCHANGED <<slots, notifier, inflight, req, payload, status, calls, matched>>

(* Faulty variant: the result of loc_alloc_slot is used unchecked.          *)
BufferFullUnchecked(t) ==
    /\ pc[t] = "select"
    /\ CallMutexFree
    /\ FreeSlots = {}
    /\ select_id' = [select_id EXCEPT ![t] = BufferSize]
    /\ Goto(t, "free")
    /\ UNCHANGED <<arrayVars, notifier, inflight, req, payload, status, calls, matched>>

(* No slot: loc_sync_select_ind returns -ENOMEM, and loc_sync_send_req      *)
(* returns with the status it was initialised with.                         *)
BufferFull(t) ==
    /\ pc[t] = "select"
    /\ CallMutexFree
    /\ FreeSlots = {}
    /\ Goto(t, "idle")
    /\ UNCHANGED <<arrayVars, notifier, inflight, req, select_id, payload,
                   status, calls, matched>>

(* loc_sync_select_ind fills the slot under the slot's lock only.           *)
SelectInd(t) ==
    /\ pc[t] = "alloced"
    /\ UpdateSlot(t, [client_handle |-> req[t].client,
                      ind_is_waiting |-> FALSE, ind_has_arrived |-> FALSE,
                      recv_ind_id |-> req[t].ind,
                      recv_ind_payload_ptr |-> IF req[t].wants THEN t ELSE NULL])
    /\ Goto(t, "selected")
    /\ UNCHANGED <<slot_in_use, in_use, notifier, inflight, req, select_id,
                   payload, status, calls, matched>>

(* Faulty variant: the slot is not freed when the request is refused.       *)
SendReqLeaking(t) ==
    /\ pc[t] = "selected"
    /\ \/ /\ inflight' = inflight \cup {req[t]}
          /\ Goto(t, "sent")
          /\ UNCHANGED status
       \/ /\ Goto(t, "idle")
          /\ SetStatus(t, "SEND_FAILED")
          /\ UNCHANGED inflight
    /\ UNCHANGED <<arrayVars, notifier, req, select_id, payload, calls, matched>>

(* locClientSendReq: accepted by the service, which answers with one        *)
(* indication (one that is never delivered is a lost one), or refused.      *)
SendReq(t) ==
    /\ pc[t] = "selected"
    /\ \/ /\ inflight' = inflight \cup {req[t]}
          /\ Goto(t, "sent")
          /\ UNCHANGED status
       \/ /\ Goto(t, "free")
          /\ SetStatus(t, "SEND_FAILED")
          /\ UNCHANGED inflight
    /\ UNCHANGED <<arrayVars, notifier, req, select_id, payload, calls, matched>>

(* loc_sync_wait_for_ind up to the wait.                                    *)
WaitForInd(t) ==
    LET slot == slots[select_id[t]] IN
    /\ pc[t] = "sent"
    /\ IF ~slot_in_use[select_id[t]]                                \* -EINVAL
       THEN Goto(t, "idle") /\ SetStatus(t, "INTERNAL") /\ UNCHANGED slots
       ELSE IF slot.ind_has_arrived
       THEN Goto(t, "free") /\ UNCHANGED <<slots, status>>
       ELSE IF slot.ind_is_waiting                                  \* -EBUSY
       THEN Goto(t, "free") /\ SetStatus(t, "INTERNAL") /\ UNCHANGED slots
       ELSE Goto(t, "waiting") /\ UNCHANGED status
            /\ UpdateSlot(t, [slot EXCEPT !.ind_is_waiting = TRUE])
    /\ UNCHANGED <<slot_in_use, in_use, notifier, inflight, req, select_id,
                   payload, calls, matched>>

(* Faulty variant: pthread_cond_wait, without the timeout.                  *)
WaitEndsNever(t) ==
    /\ pc[t] = "waiting"
    /\ SpuriousWakeups
    /\ Goto(t, "woken")
    /\ UNCHANGED <<arrayVars, notifier, inflight, req, select_id, payload,
                   status, calls, matched>>

(* The kernel ends the wait at the absolute time, or for no reason, before  *)
(* the thread has the slot's lock again: a signal can still come in between.*)
WaitEnds(t) ==
    /\ pc[t] = "waiting"
    /\ \/ Goto(t, "timedout")
       \/ SpuriousWakeups /\ Goto(t, "woken")
    /\ UNCHANGED <<arrayVars, notifier, inflight, req, select_id, payload,
                   status, calls, matched>>

(* Faulty variant: the return value of pthread_cond_timedwait is ignored.   *)
ResumeUnchecked(t) ==
    /\ pc[t] \in {"woken", "timedout"}
    /\ UpdateSlot(t, [slots[select_id[t]] EXCEPT !.ind_is_waiting = FALSE])
    /\ Goto(t, "free")
    /\ UNCHANGED <<slot_in_use, in_use, notifier, inflight, req, select_id,
                   payload, status, calls, matched>>

(* The rest of loc_sync_wait_for_ind under the slot's lock.                 *)
Resume(t) ==
    /\ pc[t] \in {"woken", "timedout"}
    /\ UpdateSlot(t, [slots[select_id[t]] EXCEPT !.ind_is_waiting = FALSE])
    /\ IF pc[t] = "timedout" THEN SetStatus(t, "TIMEOUT") ELSE UNCHANGED status
    /\ Goto(t, "free")
    /\ UNCHANGED <<slot_in_use, in_use, notifier, inflight, req, select_id,
                   payload, calls, matched>>

(* Faulty variant: loc_free_slot releases the slot but does not reset it.   *)
FreeSlotDirty(t) ==
    /\ pc[t] = "free"
    /\ CallMutexFree
    /\ slot_in_use' = [slot_in_use EXCEPT ![select_id[t]] = FALSE]
    /\ in_use' = (in_use /\ \E i \in Slots : slot_in_use'[i])
    /\ Goto(t, "idle")
    /\ UNCHANGED <<slots, notifier, inflight, req, select_id, payload, status,
                   calls, matched>>

(* loc_free_slot, under loc_sync_call_mutex but not the slot's lock, and    *)
(* the return of loc_sync_send_req.                                         *)
FreeSlot(t) ==
    /\ pc[t] = "free"
    /\ CallMutexFree
    /\ slot_in_use' = [slot_in_use EXCEPT ![select_id[t]] = FALSE]
    /\ UpdateSlot(t, ClearedSlot)
    /\ in_use' = (in_use /\ \E i \in Slots : slot_in_use'[i])
    /\ Goto(t, "idle")
    /\ UNCHANGED <<notifier, inflight, req, select_id, payload, status, calls,
                   matched>>

----------------------------------------------------------------------------
(* The notifier: loc_sync_process_ind                                       *)

ProcessIndBegin ==
    /\ CallMutexFree
    /\ \E m \in inflight :
          /\ inflight' = inflight \ {m}
          /\ notifier' = IF in_use
                         THEN [msg |-> m, i |-> 0, in_use |-> FALSE, consumed |-> FALSE]
                         ELSE NULL
    /\ UNCHANGED <<arrayVars, callVars>>

(* Faulty variant: only the indication id is compared.                      *)
SlotMatchesAnyClient(i, m) ==
    /\ slot_in_use[i]
    /\ slots[i].recv_ind_id = m.ind
    /\ ~slots[i].ind_has_arrived

SlotMatches(i, m) ==
    /\ slot_in_use[i]
    /\ slots[i].client_handle = m.client
    /\ slots[i].recv_ind_id = m.ind
    /\ ~slots[i].ind_has_arrived

(* One turn of the loop: copy the payload where there is a buffer, then     *)
(* signal the waiting thread or remember that the indication came early.    *)
ProcessIndSlot ==
    /\ notifier # NULL /\ notifier.i < BufferSize /\ ~notifier.consumed
    /\ LET i == notifier.i
           m == notifier.msg
           buffer == slots[i].recv_ind_payload_ptr
           hit == SlotMatches(i, m)
           copied == hit /\ buffer # NULL
           owners == {t \in Threads : pc[t] \in Owning /\ select_id[t] = i}
       IN /\ notifier' = [notifier EXCEPT !.i = i + 1,
                              !.in_use = @ \/ slot_in_use[i], !.consumed = copied]
          /\ payload' = IF copied THEN [payload EXCEPT ![buffer] = m] ELSE payload
          /\ IF hit /\ slots[i].ind_is_waiting
             THEN pc' = [t \in Threads |->
                           IF t \in owners /\ pc[t] = "waiting" THEN "woken" ELSE pc[t]]
             ELSE UNCHANGED pc
          /\ IF hit /\ ~slots[i].ind_is_waiting
             THEN slots' = [slots EXCEPT ![i].ind_has_arrived = TRUE]
             ELSE UNCHANGED slots
          /\ matched' = [t \in Threads |->
                           IF hit /\ t \in owners /\ matched[t] < 2
                           THEN matched[t] + 1 ELSE matched[t]]
    /\ UNCHANGED <<slot_in_use, in_use, inflight, req, select_id, status, calls>>

ProcessIndEnd ==
    /\ notifier # NULL
    /\ notifier.i = BufferSize \/ notifier.consumed
    /\ in_use' = (in_use /\ notifier.in_use)
    /\ notifier' = NULL
    /\ UNCHANGED <<slot_in_use, slots, inflight, callVars>>

----------------------------------------------------------------------------
Step(t) ==
    \/ AllocSlot(t) \/ BufferFull(t) \/ SelectInd(t) \/ SendReq(t)
    \/ WaitForInd(t) \/ WaitEnds(t) \/ Resume(t) \/ FreeSlot(t)

ProcessInd == ProcessIndBegin \/ ProcessIndSlot \/ ProcessIndEnd

Next == ProcessInd \/ \E t \in Threads : Call(t) \/ Step(t)

Spec == Init /\ [][Next]_vars

(* A running thread keeps running, the clock passes every timeout, and a    *)
(* mutex that is released again and again is eventually acquired.  Nothing  *)
(* says that an indication is ever delivered, or that a wait ends early.    *)
Fairness ==
    /\ WF_vars(ProcessIndSlot \/ ProcessIndEnd)
    /\ \A t \in Threads : SF_vars(Step(t) /\ pc'[t] # "woken")

FairSpec == Spec /\ Fairness

----------------------------------------------------------------------------
TypeOK ==
    /\ slot_in_use \in [Slots -> BOOLEAN]
    /\ slots \in [Slots -> SlotRecords]
    /\ in_use \in BOOLEAN
    /\ notifier \in NotifierRecords \cup {NULL}
    /\ inflight \subseteq Requests
    /\ pc \in [Threads -> PCs]
    /\ req \in [Threads -> Requests \cup {NULL}]
    /\ select_id \in [Threads -> Slots]
    /\ payload \in [Threads -> Requests \cup {NULL}]
    /\ status \in [Threads -> Statuses]
    /\ calls \in [Threads -> 0 .. MaxCalls]
    /\ matched \in [Threads -> 0 .. 2]

Owns(t, i) == pc[t] \in Owning /\ select_id[t] = i

(* A slot in use belongs to exactly one call in progress, and every call    *)
(* that passed loc_alloc_slot has its slot: loc_alloc_slot, loc_free_slot   *)
(* and the error paths of loc_sync_send_req neither share nor leak a slot.  *)
SlotOwnership ==
    /\ \A i \in Slots : slot_in_use[i] <=> \E t \in Threads : Owns(t, i)
    /\ \A t, u \in Threads : \A i \in Slots : Owns(t, i) /\ Owns(u, i) => t = u

(* loc_sync_array.in_use, which lets loc_sync_process_ind drop an indication*)
(* unseen, is on whenever a slot is in use, in spite of its three writers.  *)
InUseExact == in_use <=> \E i \in Slots : slot_in_use[i]

(* What a call leaves in its caller's buffer is an indication of the id it  *)
(* asked for, addressed to its own client handle, and only if it passed a   *)
(* buffer at all.                                                           *)
PayloadMatchesRequest ==
    \A t \in Threads : payload[t] # NULL =>
        /\ req[t] # NULL
        /\ payload[t].client = req[t].client
        /\ payload[t].ind = req[t].ind
        /\ req[t].wants

(* loc_sync_process_ind never copies into the buffer of a call that has     *)
(* returned: the buffers are locals of the callers.                         *)
NoWriteAfterReturn ==
    [][\A t \in Threads :
          pc[t] = "idle" /\ pc'[t] = "idle" => payload'[t] = payload[t]]_vars

(* The -EINVAL and -EBUSY exits of loc_sync_wait_for_ind are never taken.   *)
NoInternalFailure == \A t \in Threads : status[t] # "INTERNAL"

(* Every call returns, whatever the service does: nobody waits forever for  *)
(* loc_sync_call_mutex, a slot or an indication.                            *)
CallReturns == \A t \in Threads : pc[t] # "idle" ~> pc[t] = "idle"

----------------------------------------------------------------------------
(* The inductive strengthening of the safety invariants above.              *)

(* A call in progress has arguments of its own.                             *)
RequestsSet == \A t \in Threads : pc[t] # "idle" => req[t] # NULL

(* A filled slot holds what its owner asked for, and says that its owner    *)
(* waits exactly from the wait to the resumption.                           *)
SlotContents ==
    \A t \in Threads : pc[t] \in Owning \ {"alloced"} =>
        /\ slots[select_id[t]].client_handle = req[t].client
        /\ slots[select_id[t]].recv_ind_id = req[t].ind
        /\ slots[select_id[t]].recv_ind_payload_ptr = IF req[t].wants THEN t ELSE NULL
        /\ slots[select_id[t]].ind_is_waiting <=> pc[t] \in {"waiting", "woken", "timedout"}

(* A slot that is free, or taken but not filled, matches no indication.     *)
CleanSlots ==
    /\ \A i \in Slots : ~slot_in_use[i] => slots[i] = ClearedSlot
    /\ \A t \in Threads : pc[t] = "alloced" => slots[select_id[t]] = ClearedSlot

(* The notifier's in_use summarises the slots it has passed, which nobody   *)
(* can allocate or free behind its back.                                    *)
NotifierCount ==
    notifier # NULL =>
        /\ notifier.in_use <=> \E j \in Slots : j < notifier.i /\ slot_in_use[j]
        /\ notifier.consumed => notifier.in_use

IInv ==
    /\ TypeOK /\ SlotOwnership /\ InUseExact
    /\ RequestsSet /\ SlotContents /\ CleanSlots /\ NotifierCount
    /\ PayloadMatchesRequest /\ NoInternalFailure
=============================================================================
