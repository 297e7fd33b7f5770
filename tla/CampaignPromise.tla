--------------------------- MODULE CampaignPromise ---------------------------
(***************************************************************************)
(* What a campaign's Coordinator promises to those who command it, without *)
(* logs, versions, keys, leases or retries: a campaign goes through its    *)
(* stages in order, and every command takes effect at most once.  A        *)
(* restart may forget what was not kept, as a whole and never in part.     *)
(***************************************************************************)
EXTENDS Naturals

CONSTANT Commands  \* the commands anybody may give

VARIABLES
    stage,    \* how far the campaign has come
    done,     \* the commands that took effect
    effects,  \* how many effects there have been
    kept      \* what survives a restart

vars == <<stage, done, effects, kept>>

(***************************************************************************)
(* A score follows a dispatched submission, a submission an execution, an  *)
(* execution a plan, and closing a score; a scored campaign may be         *)
(* planned anew and any campaign may be given up.                          *)
(***************************************************************************)
Road ==
    {<<"planning", "executing">>, <<"executing", "submitted">>,
     <<"submitted", "scored">>, <<"scored", "planning">>,
     <<"scored", "closing">>, <<"closing", "over">>}

Stages == {"planning", "executing", "submitted", "scored", "closing", "over"}

Leads(from, to) ==
    from # "over" /\ (to \in {from, "over"} \/ <<from, to>> \in Road)

Init ==
    /\ stage \in Stages /\ done = {} /\ effects \in Nat
    /\ kept = [stage |-> stage, done |-> done, effects |-> effects]

\* A command that has not taken effect before takes effect.  Agents can be
\* commanded after the campaign is over, which moves no stage.
Obey ==
    /\ \E c \in done' \ done : c \in Commands /\ done' = done \cup {c}
    /\ effects' = effects + 1
    /\ Leads(stage, stage') \/ stage' = stage
    /\ UNCHANGED kept

Keep ==
    /\ kept' = [stage |-> stage, done |-> done, effects |-> effects]
    /\ UNCHANGED <<stage, done, effects>>

Restart ==
    /\ stage' = kept.stage /\ done' = kept.done /\ effects' = kept.effects
    /\ UNCHANGED kept

Next == Obey \/ Keep \/ Restart

Spec == Init /\ [][Next]_vars
=============================================================================
