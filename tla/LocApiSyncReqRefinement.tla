----------------------- MODULE LocApiSyncReqRefinement -----------------------
(* LocApiSyncReq implements SyncCall as long as every caller passes a       *)
(* payload buffer (all of them in this repository do) and no wait ends      *)
(* unsignalled.                                                             *)
EXTENDS LocApiSyncReq

Key(r) == [client |-> r.client, ind |-> r.ind]

(* An indication is outstanding until it is copied into a buffer or the     *)
(* notifier is done with it.                                                *)
Outstanding ==
    inflight \cup IF notifier # NULL /\ ~notifier.consumed THEN {notifier.msg} ELSE {}

(* The abstract state.                                                      *)
CallState == [t \in Threads |-> IF pc[t] = "idle" THEN "idle"
                                ELSE IF matched[t] > 0 THEN "answered" ELSE "open"]
Accepted == [t \in Threads |-> \/ pc[t] \in {"sent", "waiting", "woken", "timedout"}
                               \/ pc[t] = "free" /\ status[t] # "SEND_FAILED"]
Args == [t \in Threads |-> IF req[t] = NULL THEN NULL ELSE Key(req[t])]
Result == [t \in Threads |-> IF pc[t] = "idle" THEN status[t] ELSE "pending"]
Responses == [k \in [client : Clients, ind : Inds] |->
                 Cardinality({m \in Outstanding : Key(m) = k})]

Abstract == INSTANCE SyncCall WITH
    call <- CallState, accepted <- Accepted, args <- Args, result <- Result,
    responses <- Responses, Room <- Slots

(* Every step of the slots, the callers and the notifier is a step of the   *)
(* abstract call or leaves it unchanged.                                    *)
ImplementsSyncCall == Abstract!Spec

----------------------------------------------------------------------------
(* What the mapping of the steps rests on, besides IInv of LocApiSyncReq.   *)

(* A call knows of an answer only when an indication was consumed for it.   *)
AnswerConsumed(t) ==
    /\ pc[t] \in {"select", "alloced"} => matched[t] = 0
    /\ pc[t] = "woken" => matched[t] > 0
    /\ pc[t] \in Owning /\ slots[select_id[t]].ind_has_arrived => matched[t] > 0
    /\ pc[t] = "free" /\ status[t] = "SUCCESS" => matched[t] > 0
    /\ pc[t] \notin {"idle", "free"} => status[t] = "SUCCESS"
    /\ pc[t] = "free" => status[t] \in {"SUCCESS", "TIMEOUT", "SEND_FAILED"}

(* The service has accepted the request: an earlier one, or the present one *)
(* once it was sent.                                                        *)
WasSent(m) ==
    /\ m.call <= calls[m.thread]
    /\ pc[m.thread] \in {"select", "alloced", "selected"} => m.call # calls[m.thread]

(* A request is answered once, and not before it is sent.                   *)
AnsweredOnce ==
    /\ IsFiniteSet(inflight)
    /\ \A t \in Threads :
          pc[t] # "idle" => req[t].thread = t /\ req[t].call = calls[t]
    /\ \A m \in inflight : WasSent(m)
    /\ notifier # NULL => notifier.msg \notin inflight /\ WasSent(notifier.msg)

MInv == (\A t \in Threads : AnswerConsumed(t)) /\ AnsweredOnce
=============================================================================
