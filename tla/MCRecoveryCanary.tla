-------------------------- MODULE MCRecoveryCanary --------------------------
(* Instances of RecoveryCanary: two runners, two recoveries, two runtimes.  *)
EXTENDS RecoveryCanary, TLC

CONSTANTS r1, r2, i1, i2, q1, q2, t1

Symmetry == Permutations(Recoveries) \cup Permutations(Runtimes)
                \cup Permutations(Runners)

\* A run in time, and two that are told a time ahead: the pass of the first is
\* observed just now, that of the second a moment from now.
MCSkews == {0, 7, 8}

\* A moment, just up to the deadline, and one unit more.
MCSteps == {10, 30000, 30001}
=============================================================================
