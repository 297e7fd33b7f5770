--------------------------- MODULE MCCycleBinding ---------------------------
(* Decisions for the model checker: ordinary work, an abort, a closure      *)
(* review and its approval.  Chiefs, children, cycles and processes are     *)
(* interchangeable.                                                         *)
EXTENDS CycleBinding, TLC

CONSTANTS l1, l2, k1, c1, c2, c3, p1, p2

Symmetry == Permutations(Chiefs) \cup Permutations(Cycles)
              \cup Permutations(Procs)

MCLeaseEnd == [l \in Chiefs |-> 1]

Work == [outcome |-> "progress", directive |-> "continue",
         roles |-> {"solver"}]
Stop == [outcome |-> "failed_terminal", directive |-> "abort",
         roles |-> {"monitor"}]
Approve == [outcome |-> "closure_review", directive |-> "approve_closure",
            roles |-> {"solver"}]

WorkOrStop == {Work, Stop}
WorkOrClose == {Work, Approve}
=============================================================================
