-------------------------- MODULE MCReconciliation --------------------------
(* Pages for the model checker: an attempt that is first unverified, then   *)
(* confirmed, then penalised; a page with two attempts; an empty page.      *)
EXTENDS Reconciliation

CONSTANTS w1, w2, a1, a2, rEmpty, rUnknown, rScored, rPenalty

Blank == [raw |-> None, effective |-> None, basis |-> None,
          evidence |-> None, trace |-> None, rescore |-> None]

Unverified == [Blank EXCEPT !.raw = 5, !.trace = "missing"]
Scored == [raw |-> 5, effective |-> 5, basis |-> None, evidence |-> "present",
           trace |-> "present", rescore |-> "completed"]
Penalised == [Scored EXCEPT !.effective = 4, !.basis = 4]

MCPage ==
    [r \in Responses |->
       CASE r = rUnknown -> <<[attempt |-> a1, kind |-> "unknown",
                               facts |-> Unverified]>>
         [] r = rScored  -> <<[attempt |-> a1, kind |-> "observation",
                               facts |-> Scored],
                              [attempt |-> a2, kind |-> "unknown",
                               facts |-> Unverified]>>
         [] r = rPenalty -> <<[attempt |-> a1, kind |-> "observation",
                               facts |-> Penalised]>>
         [] OTHER        -> <<>>]

\* One saved response of a single attempt.
MCObserved == {[attempt |-> a1, resp |-> rScored]}
=============================================================================
