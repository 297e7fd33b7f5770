--------------------------- MODULE MCReservations ---------------------------
(* An instance of Reservations: two identities at one challenge, each with  *)
(* its owner, and a pool in the policy file.                                *)
EXTENDS Reservations, TLC

CONSTANTS i1, i2, p1, p2, r1, r2, r3

Symmetry == Permutations(Ids) \cup Permutations(Submitters)

OneChallenge == [i \in Identities |-> "challenge"]
OwnOwner == [i \in Identities |-> i]

Single == [cost |-> None, concurrent |-> 1, interval |-> None]
Capped == [cost |-> 2, concurrent |-> 2, interval |-> 1]

SomeQuotas == {Single, Capped}

YamlBoth == [i \in Identities |->
    [frozen |-> FALSE, quota |-> IF i = i1 THEN Capped ELSE Single]]
=============================================================================
