------------------------------ MODULE MCLocApi ------------------------------
EXTENDS LocApi

(* The engine's state, another event of a session, and one that is heard at *)
(* all times.                                                               *)
MCQmi == [STATUS |-> {"engine_state"}, MEASUREMENT |-> {"measurement"},
          NI |-> {"ni"}]
MCBits == DOMAIN MCQmi
MCQmiEvents == UNION {MCQmi[bit] : bit \in MCBits}
MCSessionEvents == {"engine_state", "measurement"}

CONSTANTS hal, a1, a2, a3
MCInitialMask ==
    [a \in Adapters |-> IF a = hal THEN {"STATUS"}
                        ELSE IF a = a2 THEN {} ELSE {"NI"}]
MCEarly == <<hal, a1, a2>>
=============================================================================
