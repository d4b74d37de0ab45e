------------------------------ MODULE SyncCall ------------------------------
(* What the synchronous request layer promises, without slots, locks or a   *)
(* notifier: a call succeeds only after the service accepted its request    *)
(* and an indication with its client handle and id was consumed for it, or  *)
(* unsent, when every place of Room is taken by another call.               *)
(* Indications are counted: n successes consume n accepted requests.        *)
EXTENDS Naturals

CONSTANTS Threads, Clients, Inds, Room, NULL

VARIABLES
    call,       \* "idle", "open", or "answered" once an indication was consumed
    accepted,   \* did the service accept the request of the call in progress?
    args,       \* client handle and indication id of the call
    result,     \* "pending" during the call, then what it returned
    responses   \* accepted requests whose indication is not consumed yet

vars == <<call, accepted, args, result, responses>>

Keys == [client : Clients, ind : Inds]

Init ==
    /\ call = [t \in Threads |-> "idle"]
    /\ accepted = [t \in Threads |-> FALSE]
    /\ args = [t \in Threads |-> NULL]
    /\ result = [t \in Threads |-> "none"]
    /\ responses = [k \in Keys |-> 0]

Open(t) ==
    /\ call[t] = "idle"
    /\ call' = [call EXCEPT ![t] = "open"]
    /\ \E k \in Keys : args' = [args EXCEPT ![t] = k]
    /\ result' = [result EXCEPT ![t] = "pending"]
    /\ UNCHANGED <<accepted, responses>>

Accept(t) ==
    /\ call[t] # "idle" /\ ~accepted[t]
    /\ accepted' = [accepted EXCEPT ![t] = TRUE]
    /\ responses' = [responses EXCEPT ![args[t]] = @ + 1]
    /\ UNCHANGED <<call, args, result>>

(* Any call in progress with the right key may consume an indication: the   *)
(* protocol does not say whose request it answers.                          *)
Answer(t) ==
    /\ call[t] # "idle"
    /\ responses[args[t]] > 0
    /\ call' = [call EXCEPT ![t] = "answered"]
    /\ responses' = [responses EXCEPT ![args[t]] = @ - 1]
    /\ UNCHANGED <<accepted, args, result>>

(* An indication nobody waits for.                                          *)
Drop ==
    /\ \E k \in Keys :
          responses[k] > 0 /\ responses' = [responses EXCEPT ![k] = @ - 1]
    /\ UNCHANGED <<call, accepted, args, result>>

(* A timeout may be returned although the answer came: the two race.        *)
Close(t) ==
    /\ call[t] # "idle"
    /\ \E r \in {"SUCCESS", "TIMEOUT", "SEND_FAILED"} :
          /\ r = "SUCCESS" => accepted[t] /\ call[t] = "answered"
          /\ r = "TIMEOUT" => accepted[t]
          /\ r = "SEND_FAILED" => ~accepted[t]
          /\ result' = [result EXCEPT ![t] = r]
    /\ call' = [call EXCEPT ![t] = "idle"]
    /\ accepted' = [accepted EXCEPT ![t] = FALSE]
    /\ UNCHANGED <<args, responses>>

Others(t) == {u \in Threads \ {t} : call[u] # "idle"}

(* The one success nobody answered: there was no room for the call.         *)
TurnAway(t) ==
    /\ call[t] = "open" /\ ~accepted[t]
    /\ \E holder \in [Room -> Others(t)] :
          \A i, j \in Room : holder[i] = holder[j] => i = j
    /\ call' = [call EXCEPT ![t] = "idle"]
    /\ result' = [result EXCEPT ![t] = "SUCCESS"]
    /\ UNCHANGED <<accepted, args, responses>>

Next ==
    \/ Drop
    \/ \E t \in Threads :
          Open(t) \/ Accept(t) \/ Answer(t) \/ Close(t) \/ TurnAway(t)

Spec == Init /\ [][Next]_vars
=============================================================================
