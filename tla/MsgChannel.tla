----------------------------- MODULE MsgChannel -----------------------------
(* What a message thread promises to those who send to it: messages are     *)
(* processed one at a time, each once, in the order they were accepted,     *)
(* until the channel is closed; what waits then may be discarded, but only  *)
(* between two messages.                                                    *)
EXTENDS Sequences

CONSTANTS Messages, NoMessage

VARIABLES
    waiting,   \* accepted and not yet begun
    handling,  \* the message being processed, or NoMessage
    state      \* "OPEN", "CLOSED", or "UNSERVED" for want of a thread

channel == <<waiting, handling, state>>

Init ==
    /\ waiting = <<>>
    /\ handling = NoMessage
    /\ state \in {"OPEN", "UNSERVED"}

Put(m) ==
    /\ state # "CLOSED"
    /\ waiting' = Append(waiting, m)
    /\ UNCHANGED <<handling, state>>

Take ==
    /\ state # "UNSERVED"
    /\ handling = NoMessage
    /\ waiting # <<>>
    /\ handling' = Head(waiting)
    /\ waiting' = Tail(waiting)
    /\ UNCHANGED state

Done ==
    /\ handling # NoMessage
    /\ handling' = NoMessage
    /\ UNCHANGED <<waiting, state>>

Close ==
    /\ state # "CLOSED"
    /\ state' = "CLOSED"
    /\ UNCHANGED <<waiting, handling>>

Discard ==
    /\ state = "CLOSED"
    /\ handling = NoMessage
    /\ waiting' = <<>>
    /\ UNCHANGED <<handling, state>>

Next ==
    \/ \E m \in Messages : Put(m)
    \/ Take
    \/ Done
    \/ Close
    \/ Discard

Spec == Init /\ [][Next]_channel /\ WF_channel(state = "OPEN" /\ Take) /\ WF_channel(Done)
=============================================================================
