---------------------------- MODULE WakeDelivery ----------------------------
(***************************************************************************)
(* What the wake pipeline promises a Chief, without files, processes,      *)
(* versions, keys or clocks: every wake goes through its stages one by one *)
(* and never back, and the Chief acknowledges it exactly when it enters    *)
(* the fourth; a wake that was put away has been acknowledged once.        *)
(***************************************************************************)
EXTENDS Naturals

CONSTANT Wakes

VARIABLES
    stage,  \* [Wakes -> the stage of a wake]
    acks    \* [Wakes -> how often the Chief acknowledged it]

vars == <<stage, acks>>

Stages == <<"none", "posted", "recorded", "acked", "away">>

Init ==
    /\ stage = [w \in Wakes |-> "none"]
    /\ acks = [w \in Wakes |-> 0]

\* One wake moves one stage on.
Advance(w) ==
    \E i \in 1..4 :
        /\ stage[w] = Stages[i]
        /\ stage' = [stage EXCEPT ![w] = Stages[i + 1]]
        /\ acks' = [acks EXCEPT ![w] = IF i = 3 THEN @ + 1 ELSE @]

Next == \E w \in Wakes : Advance(w)

Spec == Init /\ [][Next]_vars
=============================================================================
