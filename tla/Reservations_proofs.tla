------------------------- MODULE Reservations_proofs -------------------------
(***************************************************************************)
(* Proofs about the submission broker, for any number of identities,       *)
(* challenges, submissions, legacy callers, pool changes and crashes, and  *)
(* any budget, interval and quotas.                                        *)
(*                                                                         *)
(* The limits are checked in the transaction that inserts; what a          *)
(* submission brings into it was read earlier.  SubmissionsOK says what of *)
(* that is still true: it passed admission with the entry it read, a       *)
(* submission whose identity stayed barred did not, and the reservation a  *)
(* submission holds is its own.                                            *)
(***************************************************************************)
EXTENDS Reservations, CoordinationEvents_proofs, FiniteSetTheorems

-----------------------------------------------------------------------------
(* The tables.                                                             *)

TablesOK(res, att) ==
    /\ res \in [Ids -> Reservation \cup {None}]
    /\ att \in [Ids -> Attempt \cup {None}]
    /\ \A r \in Ids :
          IF res[r] = None THEN att[r] = None
          ELSE att[r] = [state |-> res[r].state, challenge |-> res[r].challenge,
                         owner |-> res[r].owner, at |-> res[r].at]

RowsOf(res) == {r \in Ids : res[r] # None}
HeldRows(res) == {r \in RowsOf(res) : res[r].state = "reserved"}
LiveRows(res) == {r \in RowsOf(res) : res[r].state \in {"reserved", "committed"}}
HeldFor(res, c) == {r \in HeldRows(res) : res[r].challenge = c}
HeldBy(res, i) == {r \in HeldRows(res) : res[r].identity = i}

\* The rows that submissions wrote.
SubmittedFor(res, c) == {r \in HeldFor(res, c) : res[r].identity # None}
SubmittedLive(res) == {r \in LiveRows(res) : res[r].identity # None}

DollarsOf(res, S) == UNION {{r} \X (1..res[r].cost) : r \in S}

WithinBudgets(res) ==
    \A i \in Identities :
        Cardinality(DollarsOf(res, SubmittedFor(res, Challenge[i]))) <= Budget

Apart(res, r, s) ==
    (res[r].challenge = res[s].challenge /\ res[r].owner = res[s].owner)
    => \/ res[r].at - res[s].at >= MinInterval
       \/ res[s].at - res[r].at >= MinInterval

SpacedApart(res) == \A r, s \in SubmittedLive(res) : r # s => Apart(res, r, s)

\* There are finitely many rows, and so finitely many dollars in them.
FiniteRows(res) ==
    IsFiniteSet(RowsOf(res)) /\ IsFiniteSet(DollarsOf(res, RowsOf(res)))

LimitsOK(res) == FiniteRows(res) /\ WithinBudgets(res) /\ SpacedApart(res)

\* What the transaction requires of the tables, in these terms.
LEMMA TableDefs ==
    /\ Rows = RowsOf(reservations) /\ Reserved = HeldRows(reservations)
    /\ Live = LiveRows(reservations)
    /\ \A c : OfChallenge(c, Reserved) = HeldFor(reservations, c)
    /\ \A c : OfChallenge(c, Classified(Reserved)) = SubmittedFor(reservations, c)
    /\ Classified(Live) = SubmittedLive(reservations)
    /\ \A i : Of(i, Reserved) = HeldBy(reservations, i)
    /\ \A S : Cost(S) = Cardinality(DollarsOf(reservations, S))
<1>1. Rows = RowsOf(reservations)
  BY DEF Rows, RowsOf
<1>2. Reserved = HeldRows(reservations) /\ Live = LiveRows(reservations)
  BY <1>1 DEF Reserved, Live, InState, HeldRows, LiveRows
<1>3. \A c : OfChallenge(c, Classified(Reserved)) = SubmittedFor(reservations, c)
  BY <1>2 DEF OfChallenge, Classified, SubmittedFor, HeldFor
<1>4. Classified(Live) = SubmittedLive(reservations)
  BY <1>2 DEF Classified, SubmittedLive
<1> QED BY <1>1, <1>2, <1>3, <1>4
        DEF OfChallenge, Of, HeldFor, HeldBy, Cost, Dollars, DollarsOf

LEMMA LimitsEach ==
    /\ BudgetHolds <=> WithinBudgets(reservations)
    /\ CadenceHolds <=> SpacedApart(reservations)
BY TableDefs DEF BudgetHolds, WithinBudgets, CadenceHolds, SpacedApart, Apart

-----------------------------------------------------------------------------
(* A row is inserted.                                                      *)

NewRow(c, o, i, cost, now) ==
    [state |-> "reserved", challenge |-> c, owner |-> o,
     identity |-> i, cost |-> cost, at |-> now]

LEMMA NewRowFields ==
    ASSUME NEW c \in Challenges, NEW o \in Owners,
           NEW i \in Identities \cup {None}, NEW cost \in Costs, NEW now \in Nat
    PROVE  LET row == NewRow(c, o, i, cost, now) IN
           /\ row \in Reservation /\ row # None
           /\ row.state = "reserved" /\ row.challenge = c /\ row.owner = o
           /\ row.identity = i /\ row.cost = cost /\ row.at = now
BY ReservationAssumption DEF NewRow, Reservation, States

LEMMA InsertTables ==
    ASSUME NEW res, NEW att, TablesOK(res, att), NEW r \in Ids,
           NEW c \in Challenges, NEW o \in Owners,
           NEW i \in Identities \cup {None}, NEW cost \in Costs, NEW now \in Nat
    PROVE  TablesOK([res EXCEPT ![r] = NewRow(c, o, i, cost, now)],
                    [att EXCEPT ![r] = [state |-> "reserved", challenge |-> c,
                                        owner |-> o, at |-> now]])
<1> DEFINE row == NewRow(c, o, i, cost, now)
           a == [state |-> "reserved", challenge |-> c, owner |-> o, at |-> now]
<1>1. /\ row \in Reservation /\ row # None
      /\ row.state = "reserved" /\ row.challenge = c /\ row.owner = o
      /\ row.at = now
  BY NewRowFields
<1>2. a \in Attempt
  BY DEF Attempt, States
<1>3. a = [state |-> row.state, challenge |-> row.challenge,
           owner |-> row.owner, at |-> row.at]
  BY <1>1
<1> HIDE DEF row, a
<1>4. TablesOK([res EXCEPT ![r] = row], [att EXCEPT ![r] = a])
  BY <1>1, <1>2, <1>3 DEF TablesOK
<1> QED BY <1>4 DEF row, a

\* The dollars of a set of rows, when a row outside of it changes.
LEMMA DollarsKept ==
    ASSUME NEW res, NEW new, NEW S, \A r \in S : new[r].cost = res[r].cost
    PROVE  DollarsOf(new, S) = DollarsOf(res, S)
BY DEF DollarsOf

LEMMA DollarsOfCup ==
    ASSUME NEW res, NEW S, NEW r
    PROVE  DollarsOf(res, S \cup {r}) =
             DollarsOf(res, S) \cup ({r} \X (1..res[r].cost))
BY DEF DollarsOf

LEMMA DollarsMonotone ==
    ASSUME NEW res, NEW S, NEW T, S \subseteq T
    PROVE  DollarsOf(res, S) \subseteq DollarsOf(res, T)
BY DEF DollarsOf

\* A row of a cost holds as many dollars.
LEMMA RowDollars ==
    ASSUME NEW r, NEW cost \in Nat
    PROVE  /\ IsFiniteSet({r} \X (1..cost))
           /\ Cardinality({r} \X (1..cost)) = cost
<1>1. IsFiniteSet({r}) /\ Cardinality({r}) = 1
  BY FS_Singleton
<1>2. IsFiniteSet(1..cost) /\ Cardinality(1..cost) = cost
  BY FS_Interval
<1>3. /\ IsFiniteSet({r} \X (1..cost))
      /\ Cardinality({r} \X (1..cost)) = Cardinality({r}) * Cardinality(1..cost)
  BY <1>1, <1>2, FS_Product
<1> QED BY <1>1, <1>2, <1>3

\* Adding a set adds at most its size.
LEMMA CupBound ==
    ASSUME NEW S, IsFiniteSet(S), NEW T, IsFiniteSet(T)
    PROVE  /\ IsFiniteSet(S \cup T)
           /\ Cardinality(S \cup T) <= Cardinality(S) + Cardinality(T)
<1>1. /\ IsFiniteSet(S \cup T)
      /\ Cardinality(S \cup T) =
            Cardinality(S) + Cardinality(T) - Cardinality(S \cap T)
  BY FS_Union
<1>2. IsFiniteSet(S \cap T)
  BY FS_Subset
<1>3. /\ Cardinality(S) \in Nat /\ Cardinality(T) \in Nat
      /\ Cardinality(S \cap T) \in Nat
  BY <1>2, FS_CardinalityType
<1> QED BY <1>1, <1>3

\* The transaction's checks are what keeps the limits.
LEMMA InsertLimits ==
    ASSUME NEW res, NEW att, TablesOK(res, att), LimitsOK(res),
           NEW r \in Ids, res[r] = None,
           NEW c \in Challenges, NEW o \in Owners,
           NEW i \in Identities \cup {None}, NEW cost \in Costs, NEW now \in Nat,
           i # None =>
             Cardinality(DollarsOf(res, HeldFor(res, c))) + cost <= Budget,
           i # None /\ MinInterval > 0 =>
             \A s \in LiveRows(res) :
               res[s].challenge = c /\ res[s].owner = o
                 => now - res[s].at >= MinInterval
    PROVE  LimitsOK([res EXCEPT ![r] = NewRow(c, o, i, cost, now)])
<1> DEFINE row == NewRow(c, o, i, cost, now)
           new == [res EXCEPT ![r] = row]
           D == {r} \X (1..cost)
<1>1. /\ row \in Reservation /\ row # None
      /\ row.state = "reserved" /\ row.challenge = c /\ row.owner = o
      /\ row.cost = cost /\ row.at = now
  BY NewRowFields
<1>i. row.identity = i
  BY DEF NewRow
<1> HIDE DEF row
<1>2. new[r] = row /\ \A s \in Ids : s # r => new[s] = res[s]
  BY DEF TablesOK
<1>c. cost \in Nat /\ MinInterval \in Nat /\ Budget \in Nat
  BY ReservationAssumption
<1> HIDE DEF new
<1>3. /\ RowsOf(new) = RowsOf(res) \cup {r} /\ r \notin RowsOf(res)
      /\ HeldRows(new) = HeldRows(res) \cup {r}
      /\ LiveRows(new) = LiveRows(res) \cup {r}
  BY <1>1, <1>2 DEF RowsOf, HeldRows, LiveRows
<1>4. /\ i # None => SubmittedFor(new, c) = SubmittedFor(res, c) \cup {r}
      /\ \A d : d # c \/ i = None => SubmittedFor(new, d) = SubmittedFor(res, d)
  BY <1>1, <1>i, <1>2, <1>3 DEF SubmittedFor, HeldFor, HeldRows, RowsOf
<1>5. IsFiniteSet(D) /\ Cardinality(D) = cost
  BY <1>c, RowDollars
<1>6. ASSUME NEW S \in SUBSET RowsOf(res)
      PROVE  /\ DollarsOf(new, S) = DollarsOf(res, S)
             /\ DollarsOf(new, S \cup {r}) = DollarsOf(res, S) \cup D
             /\ IsFiniteSet(DollarsOf(res, S))
  <2>1. \A s \in S : new[s].cost = res[s].cost
    BY <1>2, <1>3 DEF RowsOf
  <2>2. DollarsOf(new, S) = DollarsOf(res, S)
    BY <2>1, DollarsKept
  <2>3. DollarsOf(new, S \cup {r}) = DollarsOf(new, S) \cup D
    BY <1>1, <1>2, DollarsOfCup
  <2>4. DollarsOf(res, S) \subseteq DollarsOf(res, RowsOf(res))
    BY DollarsMonotone
  <2>5. IsFiniteSet(DollarsOf(res, S))
    BY <2>4, FS_Subset DEF LimitsOK, FiniteRows
  <2> QED BY <2>2, <2>3, <2>5
<1>h. \A d : /\ HeldFor(res, d) \in SUBSET RowsOf(res)
            /\ SubmittedFor(res, d) \in SUBSET RowsOf(res)
            /\ SubmittedFor(res, d) \subseteq HeldFor(res, d)
  BY DEF SubmittedFor, HeldFor, HeldRows
<1> HIDE DEF D
<1>7. FiniteRows(new)
  <2>1. IsFiniteSet(RowsOf(new))
    BY <1>3, FS_AddElement DEF LimitsOK, FiniteRows
  <2>2. DollarsOf(new, RowsOf(new)) = DollarsOf(res, RowsOf(res)) \cup D
    BY <1>3, <1>6
  <2>3. IsFiniteSet(DollarsOf(new, RowsOf(new)))
    <3>1. IsFiniteSet(DollarsOf(res, RowsOf(res)))
      BY DEF LimitsOK, FiniteRows
    <3> QED BY <1>5, <2>2, <3>1, CupBound
  <2> QED BY <2>1, <2>3 DEF FiniteRows
<1>8. WithinBudgets(new)
  <2> SUFFICES ASSUME NEW j \in Identities
               PROVE  Cardinality(DollarsOf(new, SubmittedFor(new, Challenge[j])))
                        <= Budget
    BY DEF WithinBudgets
  <2>1. CASE Challenge[j] = c /\ i # None
    <3> DEFINE A == DollarsOf(res, SubmittedFor(res, c))
               B == DollarsOf(res, HeldFor(res, c))
    <3>1. DollarsOf(new, SubmittedFor(new, c)) = A \cup D
      BY <1>4, <1>6, <1>h, <2>1
    <3>2. A \subseteq B
      BY <1>h, DollarsMonotone
    <3>3. Cardinality(B) + cost <= Budget
      BY <2>1
    <3>4. IsFiniteSet(B)
      BY <1>6, <1>h
    <3> HIDE DEF A, B
    <3>5. IsFiniteSet(A) /\ Cardinality(A) <= Cardinality(B)
      BY <3>2, <3>4, FS_Subset
    <3>6. /\ IsFiniteSet(A \cup D)
          /\ Cardinality(A \cup D) <= Cardinality(A) + Cardinality(D)
      BY <1>5, <3>5, CupBound
    <3>7. /\ Cardinality(A) \in Nat /\ Cardinality(A \cup D) \in Nat
          /\ Cardinality(B) \in Nat
      BY <3>4, <3>5, <3>6, FS_CardinalityType
    <3>8. Cardinality(A \cup D) <= Budget
      BY <1>5, <1>c, <3>3, <3>5, <3>6, <3>7
    <3> QED BY <2>1, <3>1, <3>8
  <2>2. CASE Challenge[j] # c \/ i = None
    <3>1. DollarsOf(new, SubmittedFor(new, Challenge[j])) =
            DollarsOf(res, SubmittedFor(res, Challenge[j]))
      BY <1>4, <1>6, <1>h, <2>2
    <3> QED BY <3>1 DEF LimitsOK, WithinBudgets
  <2> QED BY <2>1, <2>2
<1>9. SpacedApart(new)
  <2>1. \A s \in LiveRows(res) : s \in Ids /\ s # r /\ new[s] = res[s]
            /\ res[s].at \in Nat
    BY <1>2, <1>3 DEF LiveRows, RowsOf, TablesOK, Reservation
  <2>2. ASSUME NEW s \in LiveRows(res), i # None
        PROVE  Apart(new, s, r) /\ Apart(new, r, s)
    <3>1. /\ new[s] = res[s] /\ res[s].at \in Nat /\ new[r].challenge = c
          /\ new[r].owner = o /\ new[r].at = now
      BY <1>1, <1>2, <2>1
    <3>2. res[s].challenge = c /\ res[s].owner = o =>
             now - res[s].at >= MinInterval \/ MinInterval = 0
      BY <1>c, <2>2
    <3>3. \A a, b \in Nat : a - b >= 0 \/ b - a >= 0
      OBVIOUS
    <3> QED BY <3>1, <3>2, <3>3 DEF Apart
  <2>3. ASSUME NEW s \in SubmittedLive(res), NEW u \in SubmittedLive(res), s # u
        PROVE  Apart(new, s, u)
    <3>1. Apart(res, s, u)
      BY <2>3 DEF LimitsOK, SpacedApart
    <3>2. new[s] = res[s] /\ new[u] = res[u]
      BY <2>1 DEF SubmittedLive
    <3> QED BY <3>1, <3>2 DEF Apart
  <2>4. \A s \in SubmittedLive(new) :
           \/ s \in SubmittedLive(res)
           \/ s = r /\ i # None
    BY <1>1, <1>i, <1>2, <1>3, <2>1 DEF SubmittedLive
  <2>5. SubmittedLive(res) \subseteq LiveRows(res)
    BY DEF SubmittedLive
  <2> QED BY <2>2, <2>3, <2>4, <2>5 DEF SpacedApart
<1>10. LimitsOK(new)
  BY <1>7, <1>8, <1>9 DEF LimitsOK
<1> QED BY <1>10 DEF new, row

-----------------------------------------------------------------------------
(* A reservation ends.                                                     *)

LEMMA EndRow ==
    ASSUME TablesOK(reservations, attempts), NEW r,
           NEW state \in {"released", "committed"}, Finalize(r, state)
    PROVE  /\ TablesOK(reservations', attempts')
           /\ r \in HeldRows(reservations)
           /\ \A s \in Ids : s # r => reservations'[s] = reservations[s]
           /\ reservations'[r] # None /\ reservations'[r].state = state
           /\ reservations'[r].challenge = reservations[r].challenge
           /\ reservations'[r].owner = reservations[r].owner
           /\ reservations'[r].at = reservations[r].at
           /\ reservations'[r].cost = reservations[r].cost
           /\ reservations'[r].identity = reservations[r].identity
<1> DEFINE v == reservations[r]
           row == [v EXCEPT !.state = state]
           a == [attempts[r] EXCEPT !.state = state]
<1>0. r \in HeldRows(reservations)
  BY TableDefs DEF Finalize
<1>1. r \in Ids /\ v \in Reservation /\ v.state = "reserved"
  BY <1>0 DEF HeldRows, RowsOf, TablesOK
<1>2. attempts[r] = [state |-> v.state, challenge |-> v.challenge,
                     owner |-> v.owner, at |-> v.at]
  BY <1>1, ReservationAssumption DEF TablesOK
<1>3. /\ reservations' = [reservations EXCEPT ![r] = row]
      /\ attempts' = [attempts EXCEPT ![r] = a]
  BY <1>1 DEF Finalize, TablesOK
<1>4. /\ row \in Reservation /\ row.state = state
      /\ row.challenge = v.challenge /\ row.owner = v.owner /\ row.at = v.at
      /\ row.cost = v.cost /\ row.identity = v.identity
  BY <1>1 DEF Reservation, States
<1>5. a = [state |-> state, challenge |-> v.challenge, owner |-> v.owner,
           at |-> v.at]
  BY <1>2
<1>6. a \in Attempt
  BY <1>1, <1>5 DEF Reservation, Attempt, States
<1>7. row # None
  BY <1>4, ReservationAssumption
<1>8. a = [state |-> row.state, challenge |-> row.challenge,
           owner |-> row.owner, at |-> row.at]
  BY <1>4, <1>5
<1> HIDE DEF row, a
<1>9. TablesOK(reservations', attempts')
  BY <1>1, <1>3, <1>4, <1>6, <1>7, <1>8 DEF TablesOK
<1>10. /\ reservations'[r] = row
       /\ \A s \in Ids : s # r => reservations'[s] = reservations[s]
  BY <1>1, <1>3 DEF TablesOK
<1> QED BY <1>0, <1>4, <1>7, <1>9, <1>10

LEMMA EndLimits ==
    ASSUME NEW res, NEW new, LimitsOK(res), NEW r \in HeldRows(res),
           NEW state \in {"released", "committed"},
           \A s \in Ids : s # r => new[s] = res[s],
           new[r] # None, new[r].state = state,
           new[r].challenge = res[r].challenge, new[r].owner = res[r].owner,
           new[r].at = res[r].at, new[r].cost = res[r].cost,
           new[r].identity = res[r].identity
    PROVE  LimitsOK(new)
<1>2. r \in RowsOf(res) /\ r \in Ids /\ res[r].state = "reserved"
  BY DEF HeldRows, RowsOf
<1>3. RowsOf(new) = RowsOf(res)
  BY <1>2 DEF RowsOf
<1>4. HeldRows(new) = HeldRows(res) \ {r}
  BY <1>2, <1>3 DEF HeldRows, RowsOf
<1>5. \A s \in RowsOf(res) : /\ new[s].cost = res[s].cost
                             /\ new[s].challenge = res[s].challenge
                             /\ new[s].owner = res[s].owner
                             /\ new[s].at = res[s].at
                             /\ new[s].identity = res[s].identity
  BY DEF RowsOf
<1>6. FiniteRows(new)
  <2>1. DollarsOf(new, RowsOf(res)) = DollarsOf(res, RowsOf(res))
    BY <1>5, DollarsKept
  <2> QED BY <1>3, <2>1 DEF LimitsOK, FiniteRows
<1>7. WithinBudgets(new)
  <2> SUFFICES ASSUME NEW j \in Identities
               PROVE  Cardinality(DollarsOf(new, SubmittedFor(new, Challenge[j])))
                        <= Budget
    BY DEF WithinBudgets
  <2> DEFINE S == SubmittedFor(res, Challenge[j])
             T == SubmittedFor(new, Challenge[j])
  <2>1. T \subseteq S /\ S \subseteq RowsOf(res)
    BY <1>4, <1>5 DEF SubmittedFor, HeldFor, HeldRows
  <2>2. DollarsOf(new, T) = DollarsOf(res, T)
    BY <1>5, <2>1, DollarsKept
  <2>3. DollarsOf(res, T) \subseteq DollarsOf(res, S)
    BY <2>1, DollarsMonotone
  <2>4. DollarsOf(res, S) \subseteq DollarsOf(res, RowsOf(res))
    BY <2>1, DollarsMonotone
  <2>5. IsFiniteSet(DollarsOf(res, S))
    BY <2>4, FS_Subset DEF LimitsOK, FiniteRows
  <2>6. /\ IsFiniteSet(DollarsOf(res, T))
        /\ Cardinality(DollarsOf(res, T)) <= Cardinality(DollarsOf(res, S))
    BY <2>3, <2>5, FS_Subset
  <2>7. Cardinality(DollarsOf(res, S)) <= Budget
    BY DEF LimitsOK, WithinBudgets
  <2>8. /\ Cardinality(DollarsOf(res, T)) \in Nat
        /\ Cardinality(DollarsOf(res, S)) \in Nat /\ Budget \in Nat
    BY <2>5, <2>6, FS_CardinalityType, ReservationAssumption
  <2> HIDE DEF S, T
  <2>9. Cardinality(DollarsOf(res, T)) <= Budget
    BY <2>6, <2>7, <2>8
  <2> QED BY <2>2, <2>9 DEF T
<1>8. SpacedApart(new)
  <2>1. LiveRows(new) \subseteq LiveRows(res) /\ LiveRows(res) \subseteq RowsOf(res)
    BY <1>2, <1>3 DEF LiveRows, RowsOf
  <2>2. SubmittedLive(new) \subseteq SubmittedLive(res)
    BY <1>5, <2>1 DEF SubmittedLive
  <2>3. \A s, u \in SubmittedLive(res) : Apart(res, s, u) => Apart(new, s, u)
    BY <1>5, <2>1 DEF Apart, SubmittedLive
  <2> QED BY <2>2, <2>3 DEF LimitsOK, SpacedApart
<1> QED BY <1>6, <1>7, <1>8 DEF LimitsOK

-----------------------------------------------------------------------------
(* The inductive invariant.                                                *)

Matches(row, last) ==
    /\ row = None <=> last = {}
    /\ row # None => /\ row.removed <=> last = {"removed"}
                     /\ last = {"frozen"} => row.frozen
                     /\ last = {"thawed"} => ~row.frozen

LastBodies(rows, i) ==
    {e.body : e \in {r \in rows : r.agg = i /\ r.version = CurrentVersion(rows, i)}}

LEMMA MatchesEach ==
    /\ PoolMatchesLog <=>
         \A i \in Identities : Matches(pool[i], LastBodies(events, i))
    /\ PoolMatchesLog' <=>
         \A i \in Identities : Matches(pool'[i], LastBodies(events', i))
BY DEF PoolMatchesLog, Matches, LastBodies

EventsOK(rows) ==
    /\ \A e \in rows : e.agg \in Identities /\ e.version \in Nat /\ e.at \in Nat
    /\ \A i \in Identities : Numbered(rows, i)

LogInv == EventsOK(events) /\ PoolMatchesLog

\* What a submission relies on: that it was admitted with the entry it read,
\* that it was not if its identity has been barred all along, and that the
\* reservation it holds is its own.
SubmissionOK(q, rows, res) ==
    /\ q.pc # "idle" => q.identity \in Identities /\ q.cost \in Costs
    /\ q.barred => /\ Barred(rows, q.identity)
                   /\ q.pc \in {"exists", "entry"}
    /\ q.pc = "prepare" => Admits(q)
    /\ q.pc = "held" => /\ q.id \in HeldRows(res)
                        /\ res[q.id].identity = q.identity

SubmissionsOK == \A p \in Submitters : SubmissionOK(proc[p], pool, reservations)

HeldApart ==
    \A p, u \in Submitters :
        p # u /\ proc[p].pc = "held" /\ proc[u].pc = "held"
        => proc[p].id # proc[u].id

ProcInv == proc \in [Submitters -> Request] /\ SubmissionsOK /\ HeldApart

TableInv == TablesOK(reservations, attempts) /\ LimitsOK(reservations)

PoolInv == pool \in [Identities -> PoolRow \cup {None}] /\ LogInv

Inv == /\ PoolInv /\ TableInv /\ ProcInv
       /\ clock \in Nat /\ crashes \in Nat

LEMMA InvImplies ==
    ASSUME Inv
    PROVE  /\ given \in [Identities -> SUBSET Quotas] => TypeOK
           /\ BudgetHolds /\ CadenceHolds /\ PoolMatchesLog /\ BarredIsDenied
<1>1. given \in [Identities -> SUBSET Quotas] => TypeOK
  BY TableDefs
     DEF Inv, TypeOK, PoolInv, LogInv, EventsOK, TableInv, TablesOK, ProcInv,
         SubmissionsOK, SubmissionOK
<1>2. BudgetHolds /\ CadenceHolds
  BY LimitsEach DEF Inv, TableInv, LimitsOK
<1>3. PoolMatchesLog
  BY DEF Inv, PoolInv, LogInv
<1>4. BarredIsDenied
  BY DEF Inv, ProcInv, SubmissionsOK, SubmissionOK, BarredIsDenied
<1> QED BY <1>1, <1>2, <1>3, <1>4

-----------------------------------------------------------------------------
(* Submissions.                                                            *)

LEMMA IdleFields ==
    /\ Idle \in Request /\ Idle.pc = "idle" /\ Idle.barred = FALSE
    /\ \A rows, res : SubmissionOK(Idle, rows, res)
<1>1. Idle \in Request /\ Idle.pc = "idle" /\ Idle.barred = FALSE
  BY DEF Idle, Request
<1> QED BY <1>1 DEF SubmissionOK

LEMMA BarredType ==
    ASSUME NEW rows \in [Identities -> PoolRow \cup {None}], NEW i \in Identities
    PROVE  Barred(rows, i) \in BOOLEAN
BY DEF Barred, PoolRow

\* Admission depends on the request and the entry it read alone.
LEMMA SameGates ==
    ASSUME NEW q, NEW n, n.cost = q.cost, n.identity = q.identity,
           n.entry = q.entry
    PROVE  /\ Admits(n) <=> Admits(q)
           /\ PolicyPoolEmpty(n) <=> PolicyPoolEmpty(q)
           /\ PolicyEntry(n) = PolicyEntry(q)
<1>1. PolicyEntry(n) = PolicyEntry(q)
  BY DEF PolicyEntry
<1>2. PolicyPoolEmpty(n) <=> PolicyPoolEmpty(q)
  BY DEF PolicyPoolEmpty
<1> QED BY <1>1, <1>2 DEF Admits

LEMMA SetPc ==
    ASSUME NEW q \in Request,
           NEW pc \in {"idle", "exists", "entry", "prepare", "held"}
    PROVE  LET n == [q EXCEPT !.pc = pc] IN
           /\ n \in Request /\ n.pc = pc /\ n.identity = q.identity
           /\ n.cost = q.cost /\ n.now = q.now /\ n.entry = q.entry
           /\ n.id = q.id /\ n.barred = q.barred
BY DEF Request

\* One submission moves on, and holds nothing.
LEMMA OneMoves ==
    ASSUME Inv, NEW p \in Submitters, NEW q \in Request,
           proc' = [proc EXCEPT ![p] = q],
           UNCHANGED <<events, pool, reservations, attempts>>,
           clock' \in Nat, crashes' \in Nat,
           q.pc # "held", SubmissionOK(q, pool, reservations)
    PROVE  Inv'
<1>1. /\ proc' \in [Submitters -> Request] /\ proc'[p] = q
      /\ \A u \in Submitters : u # p => proc'[u] = proc[u]
  BY DEF Inv, ProcInv
<1>2. SubmissionsOK'
  <2> SUFFICES ASSUME NEW u \in Submitters
               PROVE  SubmissionOK(proc'[u], pool', reservations')
    BY DEF SubmissionsOK
  <2> QED BY <1>1 DEF Inv, ProcInv, SubmissionsOK
<1>3. HeldApart'
  BY <1>1 DEF Inv, ProcInv, HeldApart
<1>4. PoolInv'
  BY DEF Inv, PoolInv, LogInv, PoolMatchesLog
<1>5. TableInv'
  BY DEF Inv, TableInv
<1> QED BY <1>1, <1>2, <1>3, <1>4, <1>5 DEF Inv, ProcInv

LEMMA StartInv ==
    ASSUME Inv, NEW p \in Submitters, Start(p)
    PROVE  Inv'
<1> PICK i \in Identities, c \in Costs :
        proc' = [proc EXCEPT ![p] =
              [pc |-> "exists", identity |-> i, cost |-> c, now |-> clock,
               entry |-> None, id |-> None, barred |-> Barred(pool, i)]]
  BY DEF Start
<1> DEFINE q == [pc |-> "exists", identity |-> i, cost |-> c, now |-> clock,
                 entry |-> None, id |-> None, barred |-> Barred(pool, i)]
<1>1. Barred(pool, i) \in BOOLEAN /\ c \in Nat /\ clock \in Nat
  BY BarredType, ReservationAssumption DEF Inv, PoolInv
<1>2. /\ q \in Request /\ q.pc = "exists" /\ q.identity = i /\ q.cost = c
      /\ q.barred = Barred(pool, i)
  BY <1>1 DEF Request
<1> HIDE DEF q
<1>3. SubmissionOK(q, pool, reservations)
  BY <1>2 DEF SubmissionOK
<1>4. proc' = [proc EXCEPT ![p] = q]
  BY DEF q
<1> QED BY <1>2, <1>3, <1>4, OneMoves DEF Start, Inv

\* A submission ends.
LEMMA EndInv ==
    ASSUME Inv, NEW p \in Submitters, End(p),
           UNCHANGED <<events, pool, reservations, attempts>>,
           clock' \in Nat, crashes' \in Nat
    PROVE  Inv'
BY IdleFields, OneMoves DEF End

\* A submission passes admission, or ends there.
LEMMA AdmissionInv ==
    ASSUME Inv, NEW p \in Submitters, NEW q \in Request, Admission(p, q),
           q.identity \in Identities, q.cost \in Costs, Admits(q) => ~q.barred,
           UNCHANGED <<events, pool, reservations, attempts, clock, crashes>>
    PROVE  Inv'
<1>0. clock' \in Nat /\ crashes' \in Nat
  BY DEF Inv
<1>1. CASE Admits(q)
  <2> DEFINE n == [q EXCEPT !.pc = "prepare"]
  <2>1. /\ n \in Request /\ n.pc = "prepare" /\ n.identity = q.identity
        /\ n.cost = q.cost /\ n.barred = q.barred /\ n.entry = q.entry
    BY SetPc
  <2>2. proc' = [proc EXCEPT ![p] = n]
    BY <1>1 DEF Admission
  <2> HIDE DEF n
  <2>3. Admits(n)
    BY <1>1, <2>1, SameGates
  <2>4. SubmissionOK(n, pool, reservations)
    BY <1>1, <2>1, <2>3 DEF SubmissionOK
  <2> QED BY <1>0, <2>1, <2>2, <2>4, OneMoves
<1>2. CASE ~Admits(q)
  BY <1>0, <1>2, EndInv DEF Admission
<1> QED BY <1>1, <1>2

\* While an identity is barred the pool is not empty: the file's is not used.
LEMMA PoolExistsInv ==
    ASSUME Inv, NEW p \in Submitters, PoolExists(p)
    PROVE  Inv'
<1> DEFINE q == [proc[p] EXCEPT !.pc = "entry"]
<1>0. proc[p] \in Request /\ SubmissionOK(proc[p], pool, reservations)
      /\ proc[p].pc = "exists"
  BY DEF Inv, ProcInv, SubmissionsOK, PoolExists
<1>u. UNCHANGED <<events, pool, reservations, attempts, clock, crashes>>
  BY DEF PoolExists
<1>1. CASE ActiveEntries = {}
  <2>1. ~proc[p].barred
    BY <1>0, <1>1 DEF SubmissionOK, Barred, ActiveEntries, IsActive
  <2>2. proc[p].identity \in Identities /\ proc[p].cost \in Costs
    BY <1>0 DEF SubmissionOK
  <2>3. Admission(p, proc[p])
    BY <1>1 DEF PoolExists
  <2> QED BY <1>0, <1>u, <2>1, <2>2, <2>3, AdmissionInv
<1>2. CASE ActiveEntries # {}
  <2>1. /\ q \in Request /\ q.pc = "entry" /\ q.identity = proc[p].identity
        /\ q.cost = proc[p].cost /\ q.barred = proc[p].barred
        /\ q.entry = proc[p].entry
    BY <1>0, SetPc
  <2>2. proc' = [proc EXCEPT ![p] = q]
    BY <1>2 DEF PoolExists, Inv, ProcInv
  <2> HIDE DEF q
  <2>3. SubmissionOK(q, pool, reservations)
    BY <1>0, <2>1 DEF SubmissionOK
  <2> QED BY <1>u, <2>1, <2>2, <2>3, OneMoves DEF Inv
<1> QED BY <1>1, <1>2

\* A submission whose identity stayed barred reads a frozen entry.
LEMMA PoolEntryInv ==
    ASSUME Inv, NEW p \in Submitters, PoolEntry(p)
    PROVE  Inv'
<1> DEFINE i == proc[p].identity
           e == [frozen |-> pool[i].frozen, quota |-> pool[i].quota]
           q == [proc[p] EXCEPT !.entry = e]
<1>0. /\ proc[p] \in Request /\ SubmissionOK(proc[p], pool, reservations)
      /\ proc[p].pc = "entry" /\ i \in Identities /\ proc[p].cost \in Costs
  BY DEF Inv, ProcInv, SubmissionsOK, SubmissionOK, PoolEntry
<1>u. UNCHANGED <<events, pool, reservations, attempts, clock, crashes>>
  BY DEF PoolEntry
<1>1. CASE IsActive(i)
  <2>1. e \in Entry /\ e.frozen = pool[i].frozen /\ e # None
    BY <1>0, <1>1, ReservationAssumption
       DEF Inv, PoolInv, IsActive, PoolRow, Entry
  <2>2. Admission(p, q)
    BY <1>1 DEF PoolEntry
  <2> HIDE DEF e
  <2>3. /\ q \in Request /\ q.identity = i
        /\ q.cost = proc[p].cost /\ q.barred = proc[p].barred /\ q.entry = e
    BY <1>0, <2>1 DEF Request
  <2> HIDE DEF q
  <2>4. q.barred => e.frozen
    BY <1>0, <1>1, <2>1, <2>3 DEF SubmissionOK, Barred, IsActive
  <2>5. Admits(q) => ~q.barred
    BY <2>1, <2>3, <2>4 DEF Admits, PolicyPoolEmpty, PolicyEntry
  <2>6. q.identity \in Identities /\ q.cost \in Costs
    BY <1>0, <2>3
  <2> QED BY <1>u, <2>2, <2>3, <2>5, <2>6, AdmissionInv
<1>2. CASE ~IsActive(i)
  BY <1>2, EndInv DEF PoolEntry, Inv
<1> QED BY <1>1, <1>2

LEMMA StopsInv ==
    ASSUME Inv, NEW p \in Submitters, Deny(p) \/ Crash(p)
    PROVE  Inv'
<1>1. End(p) /\ UNCHANGED <<events, pool, reservations, attempts>>
  BY DEF Deny, Crash
<1>2. clock' \in Nat /\ crashes' \in Nat
  BY DEF Deny, Crash, Inv
<1> QED BY <1>1, <1>2, EndInv

-----------------------------------------------------------------------------
(* Reservations begin and end.                                             *)

\* The attempts the transaction looks at are those of the live reservations.
LEMMA TimesCover ==
    ASSUME TablesOK(reservations, attempts), NEW c, NEW o,
           NEW s \in LiveRows(reservations),
           reservations[s].challenge = c, reservations[s].owner = o
    PROVE  reservations[s].at \in Times(c, o)
<1>1. s \in Ids /\ reservations[s] # None
      /\ reservations[s].state \in {"reserved", "committed"}
  BY DEF LiveRows, RowsOf
<1>2. attempts[s] \in Attempt \cup {None}
  BY <1>1 DEF TablesOK
<1>3. attempts[s] = [state |-> reservations[s].state,
                     challenge |-> reservations[s].challenge,
                     owner |-> reservations[s].owner, at |-> reservations[s].at]
  BY <1>1 DEF TablesOK
<1>4. /\ attempts[s].state = reservations[s].state
      /\ attempts[s].challenge = c /\ attempts[s].owner = o
      /\ attempts[s].at = reservations[s].at
  BY <1>3
<1>5. attempts[s] # None
  <2>1. reservations[s] \in Reservation
    BY <1>1 DEF TablesOK
  <2>2. attempts[s] \in Attempt
    BY <1>3, <2>1 DEF Reservation, Attempt
  <2> QED BY <2>2, ReservationAssumption
<1> QED BY <1>1, <1>4, <1>5 DEF Times

\* The checks and the inserts of one transaction.
LEMMA InsertInv ==
    ASSUME TableInv, NEW r \in Ids \ Rows, NEW j \in Identities,
           NEW i \in Identities \cup {None}, NEW cost \in Costs, NEW now \in Nat,
           i # None =>
             Reservable(Challenge[j], Owner[j], cost, now, Budget, MinInterval),
           Insert(r, Challenge[j], Owner[j], i, cost, now)
    PROVE  /\ TableInv'
           /\ reservations[r] = None
           /\ reservations'[r] = NewRow(Challenge[j], Owner[j], i, cost, now)
           /\ \A s \in Ids : s # r => reservations'[s] = reservations[s]
<1> DEFINE c == Challenge[j]  o == Owner[j]
<1>1. c \in Challenges /\ o \in Owners
  BY DEF Challenges, Owners
<1>2. r \in Ids /\ reservations[r] = None
  BY DEF Rows
<1> HIDE DEF c, o
<1>3. /\ reservations' = [reservations EXCEPT ![r] = NewRow(c, o, i, cost, now)]
      /\ attempts' = [attempts EXCEPT ![r] =
            [state |-> "reserved", challenge |-> c, owner |-> o, at |-> now]]
  BY DEF Insert, NewRow, c, o
<1>4. i # None =>
        Cardinality(DollarsOf(reservations, HeldFor(reservations, c))) + cost
          <= Budget
  BY TableDefs DEF Reservable, WithinBudget, c
<1>5. i # None /\ MinInterval > 0 =>
        \A s \in LiveRows(reservations) :
          reservations[s].challenge = c /\ reservations[s].owner = o
            => now - reservations[s].at >= MinInterval
  <2> SUFFICES ASSUME i # None, MinInterval > 0,
                      NEW s \in LiveRows(reservations),
                      reservations[s].challenge = c, reservations[s].owner = o
               PROVE  now - reservations[s].at >= MinInterval
    OBVIOUS
  <2>1. reservations[s].at \in Times(c, o)
    BY TimesCover DEF TableInv
  <2>2. Spaced(now, Times(c, o), MinInterval)
    BY DEF Reservable, c, o
  <2> QED BY <2>1, <2>2 DEF Spaced
<1>6. TablesOK(reservations, attempts) /\ LimitsOK(reservations)
  BY DEF TableInv
<1>7. TablesOK(reservations', attempts')
  BY <1>1, <1>2, <1>3, <1>6, InsertTables
<1>8. LimitsOK(reservations')
  BY <1>1, <1>2, <1>3, <1>4, <1>5, <1>6, InsertLimits
<1>9. /\ reservations'[r] = NewRow(c, o, i, cost, now)
      /\ \A s \in Ids : s # r => reservations'[s] = reservations[s]
  BY <1>2, <1>3, <1>6 DEF TablesOK
<1> QED BY <1>2, <1>7, <1>8, <1>9 DEF TableInv, c, o

\* What others hold is not touched by an insert.
LEMMA HeldKept ==
    ASSUME NEW q, NEW res, NEW new, NEW r, res[r] = None,
           \A s \in Ids : s # r => new[s] = res[s],
           SubmissionOK(q, pool, res)
    PROVE  SubmissionOK(q, pool, new)
<1>1. q.pc = "held" => q.id \in Ids /\ q.id # r
  BY DEF SubmissionOK, HeldRows, RowsOf
<1> QED BY <1>1 DEF SubmissionOK, HeldRows, RowsOf

LEMMA PrepareInv ==
    ASSUME Inv, NEW p \in Submitters, Prepare(p)
    PROVE  Inv'
<1> DEFINE q == proc[p]  i == q.identity
<1>0. /\ q \in Request /\ SubmissionOK(q, pool, reservations)
      /\ q.pc = "prepare"
  BY DEF Inv, ProcInv, SubmissionsOK, Prepare
<1>1. i \in Identities /\ q.cost \in Costs /\ q.now \in Nat /\ Admits(q)
      /\ ~q.barred
  BY <1>0 DEF SubmissionOK, Request
<1>2. PICK r \in Ids \ Rows :
        /\ Reservable(Challenge[i], Owner[i], q.cost, q.now, Budget, MinInterval)
        /\ Insert(r, Challenge[i], Owner[i], i, q.cost, q.now)
        /\ proc' = [proc EXCEPT ![p].pc = "held", ![p].id = r,
                                ![p].entry = None, ![p].now = 0]
  BY DEF Prepare
<1>3. /\ TableInv' /\ reservations[r] = None
      /\ reservations'[r] = NewRow(Challenge[i], Owner[i], i, q.cost, q.now)
      /\ \A s \in Ids : s # r => reservations'[s] = reservations[s]
  <2>1. TableInv
    BY DEF Inv
  <2> HIDE DEF q, i
  <2>2. i \in Identities \cup {None}
    BY <1>1
  <2> QED BY <1>1, <1>2, <2>1, <2>2, InsertInv
<1> DEFINE n == [q EXCEPT !.pc = "held", !.id = r, !.entry = None, !.now = 0]
           row == NewRow(Challenge[i], Owner[i], i, q.cost, q.now)
<1>4. row # None /\ row.state = "reserved" /\ row.identity = i
  <2>1. Challenge[i] \in Challenges /\ Owner[i] \in Owners
    BY <1>1 DEF Challenges, Owners
  <2> QED BY <1>1, <2>1, NewRowFields
<1>5. proc' = [proc EXCEPT ![p] = n]
  BY <1>2 DEF Inv, ProcInv
<1>6. /\ n \in Request /\ n.pc = "held" /\ n.id = r /\ n.identity = i
      /\ n.cost = q.cost /\ n.barred = q.barred
  BY <1>0, <1>2 DEF Request
<1> HIDE DEF n, row
<1>7. /\ proc' \in [Submitters -> Request] /\ proc'[p] = n
      /\ \A u \in Submitters : u # p => proc'[u] = proc[u]
  BY <1>5, <1>6 DEF Inv, ProcInv
<1>8. /\ reservations'[r] = row
      /\ \A s \in Ids : s # r => reservations'[s] = reservations[s]
  BY <1>3 DEF row
<1>9. UNCHANGED <<events, pool, clock, crashes>>
  BY DEF Prepare
<1>10. SubmissionsOK'
  <2> SUFFICES ASSUME NEW u \in Submitters
               PROVE  SubmissionOK(proc'[u], pool, reservations')
    BY <1>9 DEF SubmissionsOK
  <2>1. CASE u = p
    <3>2. r \in HeldRows(reservations')
      BY <1>2, <1>4, <1>8 DEF HeldRows, RowsOf
    <3>3. SubmissionOK(n, pool, reservations')
      BY <1>1, <1>4, <1>6, <1>8, <3>2 DEF SubmissionOK
    <3> QED BY <1>7, <2>1, <3>3
  <2>2. CASE u # p
    <3>1. SubmissionOK(proc[u], pool, reservations)
      BY DEF Inv, ProcInv, SubmissionsOK
    <3>2. SubmissionOK(proc[u], pool, reservations')
      BY <1>3, <1>8, <3>1, HeldKept
    <3> QED BY <1>7, <2>2, <3>2
  <2> QED BY <2>1, <2>2
<1>11. HeldApart'
  <2>1. \A u \in Submitters : proc[u].pc = "held" => proc[u].id # r
    BY <1>3 DEF Inv, ProcInv, SubmissionsOK, SubmissionOK, HeldRows, RowsOf
  <2>2. \A u, w \in Submitters :
           u # w /\ proc'[u].pc = "held" /\ proc'[w].pc = "held"
           => proc'[u].id # proc'[w].id
    BY <1>6, <1>7, <2>1 DEF Inv, ProcInv, HeldApart
  <2> QED BY <2>2 DEF HeldApart
<1>12. PoolInv'
  BY <1>9 DEF Inv, PoolInv, LogInv, PoolMatchesLog
<1> QED BY <1>3, <1>7, <1>9, <1>10, <1>11, <1>12 DEF Inv, ProcInv

\* A row without an identity counts for no submission's limit, whatever budget,
\* time and interval its caller brought.
LEMMA ReserveAtInv ==
    ASSUME Inv, NEW i \in Identities, NEW now \in Nat, NEW interval,
           ReserveAt(i, now, interval)
    PROVE  Inv'
<1>1. PICK r \in Ids \ Rows, c \in Costs :
          Insert(r, Challenge[i], Owner[i], None, c, now)
  BY DEF ReserveAt
<1>2. UNCHANGED <<events, pool, proc, clock, crashes>>
  BY DEF ReserveAt
<1>3. None \in Identities \cup {None} /\ TableInv /\ clock \in Nat
  BY DEF Inv
<1>4. /\ TableInv' /\ reservations[r] = None
      /\ \A s \in Ids : s # r => reservations'[s] = reservations[s]
  BY <1>1, <1>3, InsertInv
<1>5. SubmissionsOK'
  <2> SUFFICES ASSUME NEW u \in Submitters
               PROVE  SubmissionOK(proc[u], pool, reservations')
    BY <1>2 DEF SubmissionsOK
  <2>1. SubmissionOK(proc[u], pool, reservations)
    BY DEF Inv, ProcInv, SubmissionsOK
  <2> QED BY <1>4, <2>1, HeldKept
<1>6. HeldApart'
  BY <1>2 DEF Inv, ProcInv, HeldApart
<1>7. PoolInv'
  BY <1>2 DEF Inv, PoolInv, LogInv, PoolMatchesLog
<1> QED BY <1>2, <1>3, <1>4, <1>5, <1>6, <1>7 DEF Inv, ProcInv

LEMMA CallersInv ==
    ASSUME Inv, NEW i \in Identities, Reserve(i) \/ ReserveWithCadence(i)
    PROVE  Inv'
<1>1. clock \in Nat
  BY DEF Inv
<1> QED BY <1>1, ReserveAtInv DEF Reserve, ReserveWithCadence

\* Both rows of a reservation get their final state.
LEMMA FinalizeInv ==
    ASSUME TableInv, NEW r, NEW state \in {"released", "committed"},
           Finalize(r, state)
    PROVE  /\ TableInv' /\ r \in HeldRows(reservations)
           /\ \A s \in Ids : s # r => reservations'[s] = reservations[s]
<1>1. TablesOK(reservations, attempts) /\ LimitsOK(reservations)
  BY DEF TableInv
<1>2. r \in HeldRows(reservations)
  BY <1>1, EndRow
<1>3. /\ TablesOK(reservations', attempts')
      /\ \A s \in Ids : s # r => reservations'[s] = reservations[s]
      /\ reservations'[r] # None /\ reservations'[r].state = state
      /\ reservations'[r].challenge = reservations[r].challenge
      /\ reservations'[r].owner = reservations[r].owner
      /\ reservations'[r].at = reservations[r].at
      /\ reservations'[r].cost = reservations[r].cost
      /\ reservations'[r].identity = reservations[r].identity
  BY <1>1, EndRow
<1>4. LimitsOK(reservations')
  BY <1>1, <1>2, <1>3, EndLimits
<1> QED BY <1>2, <1>3, <1>4 DEF TableInv

\* A submission that does not hold the row that ended keeps what it has.
LEMMA OthersKept ==
    ASSUME NEW q, NEW res, NEW new, NEW r,
           \A s \in Ids : s # r => new[s] = res[s],
           q.pc = "held" => q.id # r,
           SubmissionOK(q, pool, res)
    PROVE  SubmissionOK(q, pool, new)
BY DEF SubmissionOK, HeldRows, RowsOf

LEMMA FinishInv ==
    ASSUME Inv, NEW p \in Submitters, Finish(p)
    PROVE  Inv'
<1> DEFINE r == proc[p].id
<1>2. PICK state \in {"released", "committed"} : Finalize(r, state)
  BY DEF Finish
<1>1. /\ Finalize(r, state) /\ End(p) /\ proc[p].pc = "held"
      /\ UNCHANGED <<events, pool, clock, crashes>>
  BY <1>2 DEF Finish
<1>3. /\ TableInv' /\ r \in HeldRows(reservations)
      /\ \A s \in Ids : s # r => reservations'[s] = reservations[s]
  BY <1>1, <1>2, FinalizeInv DEF Inv
<1>4. /\ proc' \in [Submitters -> Request] /\ proc'[p] = Idle
      /\ \A u \in Submitters : u # p => proc'[u] = proc[u]
  BY <1>1, IdleFields DEF Inv, ProcInv, End
<1>5. SubmissionsOK'
  <2> SUFFICES ASSUME NEW u \in Submitters
               PROVE  SubmissionOK(proc'[u], pool, reservations')
    BY <1>1 DEF SubmissionsOK
  <2>1. CASE u = p
    BY <1>4, <2>1, IdleFields
  <2>2. CASE u # p
    <3>1. SubmissionOK(proc[u], pool, reservations)
      BY DEF Inv, ProcInv, SubmissionsOK
    <3>2. proc[u].pc = "held" => proc[u].id # r
      BY <1>1, <2>2 DEF Inv, ProcInv, HeldApart
    <3>3. SubmissionOK(proc[u], pool, reservations')
      BY <1>3, <3>1, <3>2, OthersKept
    <3> QED BY <1>4, <2>2, <3>3
  <2> QED BY <2>1, <2>2
<1>6. HeldApart'
  BY <1>4, IdleFields DEF Inv, ProcInv, HeldApart
<1>7. PoolInv'
  BY <1>1 DEF Inv, PoolInv, LogInv, PoolMatchesLog
<1> QED BY <1>1, <1>3, <1>4, <1>5, <1>6, <1>7 DEF Inv, ProcInv

\* The rows a legacy caller finalizes have no identity: no submission holds one.
LEMMA LegacyFinishInv ==
    ASSUME Inv, LegacyFinish
    PROVE  Inv'
<1>1. PICK r \in Unclassified, s \in {"released", "committed"} : Finalize(r, s)
  BY DEF LegacyFinish
<1>2. UNCHANGED <<events, pool, proc, clock, crashes>>
  BY DEF LegacyFinish
<1>3. /\ TableInv' /\ r \in HeldRows(reservations)
      /\ \A t \in Ids : t # r => reservations'[t] = reservations[t]
  BY <1>1, FinalizeInv DEF Inv
<1>4. reservations[r].identity = None
  BY DEF Unclassified, Of
<1>5. SubmissionsOK'
  <2> SUFFICES ASSUME NEW u \in Submitters
               PROVE  SubmissionOK(proc[u], pool, reservations')
    BY <1>2 DEF SubmissionsOK
  <2>1. SubmissionOK(proc[u], pool, reservations)
    BY DEF Inv, ProcInv, SubmissionsOK
  <2>2. proc[u].pc = "held" => proc[u].id # r
    BY <1>4, <2>1, ReservationAssumption DEF SubmissionOK
  <2> QED BY <1>3, <2>1, <2>2, OthersKept
<1>6. HeldApart'
  BY <1>2 DEF Inv, ProcInv, HeldApart
<1>7. PoolInv'
  BY <1>2 DEF Inv, PoolInv, LogInv, PoolMatchesLog
<1> QED BY <1>2, <1>3, <1>5, <1>6, <1>7 DEF Inv, ProcInv

-----------------------------------------------------------------------------
(* The pool.                                                               *)

\* An audited change: its event is the last of its entry, and the log of no
\* other entry changes.
LEMMA AuditedLog ==
    ASSUME EventsOK(events), NEW i \in Identities, NEW type,
           Audited(i, type)
    PROVE  /\ EventsOK(events')
           /\ LastBodies(events', i) = {type}
           /\ \A j \in Identities :
                j # i => LastBodies(events', j) = LastBodies(events, j)
<1> DEFINE v == CurrentVersion(events, i)  e == PoolEvent(i, type)
<1>1. PICK n \in Nat : Versions(events, i) = 1..n
  BY DEF EventsOK, Numbered
<1>2. v \in Nat
  BY <1>1, CurrentVersionIsLast
<1>3. e.agg = i /\ e.body = type /\ e.at = 0
  BY DEF PoolEvent, Event
<1>4. Appends(events, e, v) /\ events' = Append1(events, e, v)
  BY DEF Audited
<1> HIDE DEF v, e
<1> DEFINE row == Row(e, v + 1)
<1>5. /\ row.agg = i /\ row.body = type /\ row.at = 0
      /\ row.version = v + 1
  BY <1>3 DEF Row
<1>6. EventsOK(events')
  <2>1. events' = events \cup {row}
    BY <1>4 DEF Append1
  <2> HIDE DEF row
  <2>2. \A x \in events' : x.agg \in Identities /\ x.version \in Nat /\ x.at \in Nat
    BY <1>2, <1>5, <2>1 DEF EventsOK
  <2>3. \A j \in Identities : Numbered(events', j)
    BY <1>2, <1>4, AppendNumbers DEF EventsOK
  <2> QED BY <2>2, <2>3 DEF EventsOK
<1>7. ASSUME NEW j \in Identities
      PROVE  {r \in events' : r.agg = j /\ r.version = CurrentVersion(events', j)}
               = IF j = i THEN {row}
                 ELSE {r \in events : /\ r.agg = j
                                      /\ r.version = CurrentVersion(events, j)}
  <2>1. Numbered(events, j)
    BY DEF EventsOK
  <2> QED BY <1>2, <1>3, <1>4, <2>1, AppendIsLast
<1> HIDE DEF row
<1>8. LastBodies(events', i) = {type}
  BY <1>5, <1>7 DEF LastBodies
<1>9. \A j \in Identities :
         j # i => LastBodies(events', j) = LastBodies(events, j)
  BY <1>7 DEF LastBodies
<1> QED BY <1>6, <1>8, <1>9

\* A change of one entry, with its event.
LEMMA PoolChanges ==
    ASSUME Inv, NEW i \in Identities, NEW type, NEW row \in PoolRow,
           Audited(i, type),
           row.removed <=> type = "removed",
           type = "frozen" => row.frozen, type = "thawed" => ~row.frozen,
           pool' = [pool EXCEPT ![i] = row], proc' = StillBarred(pool'),
           UNCHANGED <<reservations, attempts, clock, crashes>>
    PROVE  Inv'
<1>1. /\ pool' \in [Identities -> PoolRow \cup {None}] /\ pool'[i] = row
      /\ \A j \in Identities : j # i => pool'[j] = pool[j]
  BY DEF Inv, PoolInv
<1>2. /\ EventsOK(events') /\ LastBodies(events', i) = {type}
      /\ \A j \in Identities :
           j # i => LastBodies(events', j) = LastBodies(events, j)
  BY AuditedLog DEF Inv, PoolInv, LogInv
<1>3. PoolMatchesLog'
  <2> SUFFICES ASSUME NEW j \in Identities
               PROVE  Matches(pool'[j], LastBodies(events', j))
    BY MatchesEach
  <2>1. CASE j = i
    <3>1. row # None
      BY ReservationAssumption
    <3>2. Matches(row, {type})
      BY <3>1 DEF Matches
    <3> QED BY <1>1, <1>2, <2>1, <3>2
  <2>2. CASE j # i
    <3>1. Matches(pool[j], LastBodies(events, j))
      BY MatchesEach DEF Inv, PoolInv, LogInv
    <3> QED BY <1>1, <1>2, <2>2, <3>1
  <2> QED BY <2>1, <2>2
<1>4. ASSUME NEW p \in Submitters
      PROVE  /\ proc'[p] \in Request
             /\ SubmissionOK(proc'[p], pool', reservations)
             /\ proc'[p].pc = proc[p].pc /\ proc'[p].id = proc[p].id
  <2> DEFINE q == proc[p]
             b == q.barred /\ Barred(pool', q.identity)
             n == [q EXCEPT !.barred = b]
  <2>1. proc'[p] = n
    BY DEF StillBarred
  <2>2. q \in Request /\ SubmissionOK(q, pool, reservations)
    BY DEF Inv, ProcInv, SubmissionsOK
  <2>3. b \in BOOLEAN
    OBVIOUS
  <2> HIDE DEF b
  <2>4. /\ n \in Request /\ n.pc = q.pc /\ n.identity = q.identity
        /\ n.cost = q.cost /\ n.entry = q.entry /\ n.id = q.id /\ n.barred = b
    BY <2>2, <2>3 DEF Request
  <2> HIDE DEF n, q
  <2>5. Admits(n) <=> Admits(q)
    BY <2>4, SameGates
  <2>6. SubmissionOK(n, pool', reservations)
    BY <2>2, <2>4, <2>5 DEF SubmissionOK, b
  <2> QED BY <2>1, <2>4, <2>6 DEF q
<1>5. proc' \in [Submitters -> Request]
  <2>1. DOMAIN proc' = Submitters /\ proc' = [p \in Submitters |-> proc'[p]]
    BY DEF StillBarred
  <2> QED BY <1>4, <2>1
<1>6. SubmissionsOK'
  BY <1>4 DEF SubmissionsOK
<1>7. HeldApart'
  <2>1. \A p \in Submitters :
           proc'[p].pc = proc[p].pc /\ proc'[p].id = proc[p].id
    BY <1>4
  <2>2. HeldApart
    BY DEF Inv, ProcInv
  <2> SUFFICES ASSUME NEW p \in Submitters, NEW u \in Submitters, p # u,
                      proc'[p].pc = "held", proc'[u].pc = "held"
               PROVE  proc'[p].id # proc'[u].id
    BY Zenon DEF HeldApart
  <2>3. proc[p].pc = "held" /\ proc[u].pc = "held"
    BY <2>1
  <2>4. proc[p].id # proc[u].id
    BY <2>2, <2>3 DEF HeldApart
  <2>5. proc'[p].id = proc[p].id /\ proc'[u].id = proc[u].id
    BY <2>1
  <2> QED BY <2>4, <2>5
<1>8. TableInv'
  BY DEF Inv, TableInv
<1> QED BY <1>1, <1>2, <1>3, <1>5, <1>6, <1>7, <1>8 DEF Inv, PoolInv, LogInv, ProcInv

LEMMA AdministrationInv ==
    ASSUME Inv, NEW i \in Identities,
           Provision(i) \/ Remove(i) \/ \E f \in BOOLEAN : SetFrozen(i, f)
    PROVE  Inv'
<1>0. pool \in [Identities -> PoolRow \cup {None}]
  BY DEF Inv, PoolInv
<1>1. CASE Provision(i)
  <2> PICK f \in BOOLEAN, q \in Quotas :
        pool' = [pool EXCEPT ![i] = [frozen |-> f, quota |-> q, removed |-> FALSE]]
    BY <1>1 DEF Provision
  <2> DEFINE row == [frozen |-> f, quota |-> q, removed |-> FALSE]
  <2>1. row \in PoolRow /\ row.removed = FALSE
    BY DEF PoolRow
  <2>2. pool' = [pool EXCEPT ![i] = row]
    OBVIOUS
  <2> HIDE DEF row
  <2>3. /\ Audited(i, "provisioned") /\ proc' = StillBarred(pool')
        /\ UNCHANGED <<reservations, attempts, clock, crashes>>
    BY <1>1 DEF Provision
  <2> QED BY <2>1, <2>2, <2>3, PoolChanges
<1>2. CASE Remove(i)
  <2> DEFINE row == [pool[i] EXCEPT !.removed = TRUE]
  <2>1. pool[i] \in PoolRow
    BY <1>0, <1>2 DEF Remove, IsActive
  <2>2. row \in PoolRow /\ row.removed = TRUE
    BY <2>1 DEF PoolRow
  <2>3. pool' = [pool EXCEPT ![i] = row]
    BY <1>0, <1>2 DEF Remove
  <2> HIDE DEF row
  <2>4. /\ Audited(i, "removed") /\ proc' = StillBarred(pool')
        /\ UNCHANGED <<reservations, attempts, clock, crashes>>
    BY <1>2 DEF Remove
  <2> QED BY <2>2, <2>3, <2>4, PoolChanges
<1>3. ASSUME NEW f \in BOOLEAN, SetFrozen(i, f) PROVE Inv'
  <2> DEFINE row == [pool[i] EXCEPT !.frozen = f]
             type == IF f THEN "frozen" ELSE "thawed"
  <2>1. pool[i] \in PoolRow /\ ~pool[i].removed
    BY <1>0, <1>3 DEF SetFrozen, IsActive
  <2>2. row \in PoolRow /\ row.removed = FALSE /\ row.frozen = f
    BY <2>1 DEF PoolRow
  <2>3. pool' = [pool EXCEPT ![i] = row]
    BY <1>0, <1>3 DEF SetFrozen
  <2>4. /\ Audited(i, type) /\ proc' = StillBarred(pool')
        /\ UNCHANGED <<reservations, attempts, clock, crashes>>
    BY <1>3 DEF SetFrozen
  <2>5. type # "removed" /\ (type = "frozen" => f) /\ (type = "thawed" => ~f)
    OBVIOUS
  <2> HIDE DEF row, type
  <2> QED BY <2>2, <2>3, <2>4, <2>5, PoolChanges
<1> QED BY <1>1, <1>2, <1>3

-----------------------------------------------------------------------------
(* The theorems.                                                           *)

LEMMA InitInv == Init => Inv
<1> SUFFICES ASSUME Init PROVE Inv
  OBVIOUS
<1>1. PoolInv
  <2>1. \A i \in Identities : Versions(events, i) = 1..0
    BY DEF Init, Versions
  <2>2. EventsOK(events)
    BY <2>1 DEF Init, EventsOK, Numbered
  <2>3. \A i \in Identities : LastBodies(events, i) = {} /\ pool[i] = None
    BY DEF Init, LastBodies
  <2>4. PoolMatchesLog
    BY <2>3, MatchesEach DEF Matches
  <2> QED BY <2>2, <2>4 DEF Init, PoolInv, LogInv
<1>2. TableInv
  <2>1. TablesOK(reservations, attempts)
    BY DEF Init, TablesOK
  <2>2. RowsOf(reservations) = {}
    BY DEF Init, RowsOf
  <2>3. \A S : S \subseteq RowsOf(reservations) =>
           S = {} /\ DollarsOf(reservations, S) = {}
    BY <2>2 DEF DollarsOf
  <2>4. FiniteRows(reservations)
    BY <2>2, <2>3, FS_EmptySet DEF FiniteRows
  <2>5. WithinBudgets(reservations)
    <3>1. \A c : DollarsOf(reservations, SubmittedFor(reservations, c)) = {}
      BY <2>3 DEF SubmittedFor, HeldFor, HeldRows
    <3>2. Cardinality({}) = 0 /\ 0 <= Budget
      BY FS_EmptySet, ReservationAssumption
    <3> QED BY <3>1, <3>2 DEF WithinBudgets
  <2>6. SpacedApart(reservations)
    BY <2>2 DEF SpacedApart, SubmittedLive, LiveRows
  <2> QED BY <2>1, <2>4, <2>5, <2>6 DEF TableInv, LimitsOK
<1>3. ProcInv
  BY IdleFields DEF Init, ProcInv, SubmissionsOK, HeldApart
<1> QED BY <1>1, <1>2, <1>3 DEF Init, Inv

LEMMA NextInv ==
    ASSUME Inv, [Next]_vars
    PROVE  Inv'
<1>1. CASE UNCHANGED vars \/ Tick
  <2>1. UNCHANGED <<events, pool, reservations, attempts, proc>>
    BY <1>1 DEF vars, Tick
  <2>2. clock' \in Nat /\ crashes' \in Nat
    BY <1>1 DEF vars, Tick, Inv
  <2>3. PoolInv' /\ TableInv'
    BY <2>1 DEF Inv, PoolInv, LogInv, PoolMatchesLog, TableInv
  <2>4. ProcInv'
    BY <2>1 DEF Inv, ProcInv, SubmissionsOK, HeldApart
  <2> QED BY <2>2, <2>3, <2>4 DEF Inv
<1>3. CASE LegacyFinish
  BY <1>3, LegacyFinishInv
<1>4. CASE \E i \in Identities :
              \/ Provision(i) \/ Remove(i) \/ Reserve(i) \/ ReserveWithCadence(i)
              \/ \E f \in BOOLEAN : SetFrozen(i, f)
  BY <1>4, AdministrationInv, CallersInv
<1>5. CASE \E p \in Submitters : Start(p) \/ Submission(p) \/ Crash(p)
  <2> PICK p \in Submitters : Start(p) \/ Submission(p) \/ Crash(p)
    BY <1>5
  <2>1. CASE Start(p) \/ Crash(p)
    BY <2>1, StartInv, StopsInv
  <2>2. CASE Submission(p)
    BY <2>2, PoolExistsInv, PoolEntryInv, StopsInv, PrepareInv, FinishInv
       DEF Submission
  <2> QED BY <2>1, <2>2
<1> QED BY <1>1, <1>3, <1>4, <1>5 DEF Next

LEMMA Inductive == Spec => []Inv
BY InitInv, NextInv, PTL DEF Spec

-----------------------------------------------------------------------------
(* Where quotas come from.                                                 *)

\* The policy file's quota, an entry's and the one that a submission has read
\* are all quotas the identity has had.
ReadGiven(q, g) ==
    q.entry # None =>
        q.identity \in Identities /\ q.entry.quota \in g[q.identity]

PoolGiven(rows, g) ==
    \A i \in Identities :
        /\ Yaml[i] # None => Yaml[i].quota \in g[i]
        /\ rows[i] # None => rows[i].quota \in g[i]

GivenInv ==
    /\ given \in [Identities -> SUBSET Quotas]
    /\ PoolGiven(pool, given)
    /\ \A p \in Submitters : ReadGiven(proc[p], given)

GivenGrows(g, h) == \A i \in Identities : g[i] \subseteq h[i]

LEMMA GivenInit == Init => GivenInv
<1> SUFFICES ASSUME Init PROVE GivenInv
  OBVIOUS
<1>1. \A i \in Identities : Yaml[i] # None => Yaml[i].quota \in Quotas
  BY ReservationAssumption DEF Entry
<1>2. \A i \in Identities :
         given[i] = IF Yaml[i] = None THEN {} ELSE {Yaml[i].quota}
  BY DEF Init
<1>3. given \in [Identities -> SUBSET Quotas]
  BY <1>1 DEF Init
<1>4. PoolGiven(pool, given)
  BY <1>2 DEF Init, PoolGiven
<1>5. \A p \in Submitters : proc[p].entry = None
  BY DEF Init, Idle
<1> QED BY <1>3, <1>4, <1>5 DEF GivenInv, ReadGiven

\* The pool's administration.
LEMMA GivenPool ==
    ASSUME Inv, GivenInv, NEW i \in Identities,
           Provision(i) \/ Remove(i) \/ \E f \in BOOLEAN : SetFrozen(i, f)
    PROVE  /\ given' \in [Identities -> SUBSET Quotas] /\ GivenGrows(given, given')
           /\ PoolGiven(pool', given') /\ proc' = StillBarred(pool')
<1>0. /\ pool \in [Identities -> PoolRow \cup {None}]
      /\ given \in [Identities -> SUBSET Quotas] /\ PoolGiven(pool, given)
  BY DEF Inv, PoolInv, GivenInv
<1>1. CASE Provision(i)
  <2>1. PICK f \in BOOLEAN, q \in Quotas :
          /\ pool' = [pool EXCEPT ![i] =
                [frozen |-> f, quota |-> q, removed |-> FALSE]]
          /\ given' = [given EXCEPT ![i] = @ \cup {q}]
    BY <1>1 DEF Provision
  <2>2. /\ pool'[i].quota = q /\ given'[i] = given[i] \cup {q}
        /\ \A j \in Identities :
             j # i => pool'[j] = pool[j] /\ given'[j] = given[j]
    BY <1>0, <2>1
  <2>3. given' \in [Identities -> SUBSET Quotas]
    BY <1>0, <2>1
  <2>4. GivenGrows(given, given')
    BY <2>2 DEF GivenGrows
  <2>5. PoolGiven(pool', given')
    BY <1>0, <2>2 DEF PoolGiven
  <2> QED BY <1>1, <2>3, <2>4, <2>5 DEF Provision
<1>2. ASSUME pool[i] # None, given' = given,
             NEW row, row.quota = pool[i].quota, pool' = [pool EXCEPT ![i] = row]
      PROVE  PoolGiven(pool', given') /\ GivenGrows(given, given')
  <2>1. pool'[i] = row /\ \A j \in Identities : j # i => pool'[j] = pool[j]
    BY <1>0, <1>2
  <2>2. PoolGiven(pool', given')
    BY <1>0, <1>2, <2>1 DEF PoolGiven
  <2> QED BY <1>2, <2>2 DEF GivenGrows
<1>3. CASE Remove(i)
  <2>1. pool[i] # None /\ pool[i] \in PoolRow /\ given' = given
    BY <1>0, <1>3 DEF Remove, IsActive
  <2> DEFINE row == [pool[i] EXCEPT !.removed = TRUE]
  <2>2. row.quota = pool[i].quota
    BY <2>1 DEF PoolRow
  <2>3. pool' = [pool EXCEPT ![i] = row]
    BY <1>0, <1>3 DEF Remove
  <2> HIDE DEF row
  <2> QED BY <1>0, <1>2, <1>3, <2>1, <2>2, <2>3 DEF Remove
<1>4. ASSUME NEW f \in BOOLEAN, SetFrozen(i, f)
      PROVE  /\ given' = given /\ PoolGiven(pool', given')
             /\ GivenGrows(given, given') /\ proc' = StillBarred(pool')
  <2>1. pool[i] # None /\ pool[i] \in PoolRow /\ given' = given
    BY <1>0, <1>4 DEF SetFrozen, IsActive
  <2> DEFINE row == [pool[i] EXCEPT !.frozen = f]
  <2>2. row.quota = pool[i].quota
    BY <2>1 DEF PoolRow
  <2>3. pool' = [pool EXCEPT ![i] = row]
    BY <1>0, <1>4 DEF SetFrozen
  <2> HIDE DEF row
  <2> QED BY <1>2, <1>4, <2>1, <2>2, <2>3 DEF SetFrozen
<1> QED BY <1>0, <1>1, <1>3, <1>4

\* A submission takes its quota from the pool, or keeps it, or drops it.
LEMMA GivenMoves ==
    ASSUME Inv, GivenInv, NEW p \in Submitters,
           Start(p) \/ Submission(p) \/ Crash(p)
    PROVE  /\ pool' = pool /\ given' = given
           /\ \A u \in Submitters : ReadGiven(proc'[u], given)
<1>1. pool' = pool /\ given' = given
  BY DEF Start, Submission, Crash, PoolExists, PoolEntry, Prepare, Deny, Finish
<1> DEFINE q == proc[p]
<1>2. /\ proc \in [Submitters -> Request] /\ q \in Request
      /\ q.pc # "idle" => q.identity \in Identities
  BY DEF Inv, ProcInv, SubmissionsOK, SubmissionOK
<1>3. \A u \in Submitters : ReadGiven(proc[u], given)
  BY DEF GivenInv
<1>4. ASSUME NEW n, proc' = [proc EXCEPT ![p] = n], ReadGiven(n, given)
      PROVE  \A u \in Submitters : ReadGiven(proc'[u], given)
  <2>1. \A u \in Submitters : proc'[u] = IF u = p THEN n ELSE proc[u]
    BY <1>2, <1>4
  <2> QED BY <1>3, <1>4, <2>1
<1>5. ReadGiven(Idle, given)
  BY DEF Idle, ReadGiven
<1>6. ASSUME End(p)
      PROVE  \A u \in Submitters : ReadGiven(proc'[u], given)
  BY <1>4, <1>5, <1>6 DEF End
<1>7. ASSUME NEW n \in Request, ReadGiven(n, given), Admission(p, n)
      PROVE  \A u \in Submitters : ReadGiven(proc'[u], given)
  <2> DEFINE m == [n EXCEPT !.pc = "prepare"]
  <2>1. ReadGiven(m, given)
    BY <1>7 DEF ReadGiven, Request
  <2> HIDE DEF m
  <2>2. proc' = [proc EXCEPT ![p] = m] \/ End(p)
    BY <1>7 DEF Admission, m
  <2> QED BY <1>4, <1>6, <2>1, <2>2
<1>8. CASE Start(p)
  <2>1. PICK i \in Identities, c \in Costs :
          proc' = [proc EXCEPT ![p] =
              [pc |-> "exists", identity |-> i, cost |-> c, now |-> clock,
               entry |-> None, id |-> None, barred |-> Barred(pool, i)]]
    BY <1>8 DEF Start
  <2> DEFINE n == [pc |-> "exists", identity |-> i, cost |-> c, now |-> clock,
                   entry |-> None, id |-> None, barred |-> Barred(pool, i)]
  <2>2. ReadGiven(n, given)
    BY DEF ReadGiven
  <2>3. proc' = [proc EXCEPT ![p] = n]
    BY <2>1
  <2> HIDE DEF n
  <2> QED BY <1>1, <1>4, <2>2, <2>3
<1>9. CASE PoolExists(p)
  <2>1. CASE Admission(p, q)
    BY <1>1, <1>2, <1>3, <1>7, <2>1
  <2>2. CASE proc' = [proc EXCEPT ![p].pc = "entry"]
    <3> DEFINE n == [q EXCEPT !.pc = "entry"]
    <3>1. ReadGiven(n, given)
      BY <1>2, <1>3 DEF ReadGiven, Request
    <3>2. proc' = [proc EXCEPT ![p] = n]
      BY <1>2, <2>2
    <3> HIDE DEF n
    <3> QED BY <1>1, <1>4, <3>1, <3>2
  <2> QED BY <1>9, <2>1, <2>2 DEF PoolExists
<1>10. CASE PoolEntry(p)
  <2> DEFINE i == q.identity
             e == [frozen |-> pool[i].frozen, quota |-> pool[i].quota]
             n == [q EXCEPT !.entry = e]
  <2>1. q.pc = "entry" /\ i \in Identities
    BY <1>2, <1>10 DEF PoolEntry
  <2>2. CASE ~IsActive(i)
    BY <1>1, <1>6, <1>10, <2>2 DEF PoolEntry
  <2>3. CASE IsActive(i)
    <3>1. pool[i] \in PoolRow /\ pool[i] # None
      BY <2>1, <2>3 DEF IsActive, Inv, PoolInv
    <3>2. e \in Entry /\ e.quota = pool[i].quota
      BY <3>1 DEF PoolRow, Entry
    <3>3. e.quota \in given[i]
      BY <2>1, <3>1, <3>2 DEF GivenInv, PoolGiven
    <3>4. Admission(p, n)
      BY <1>10, <2>3 DEF PoolEntry
    <3> HIDE DEF e
    <3>5. n \in Request /\ n.entry = e /\ n.identity = i
      BY <1>2, <3>2 DEF Request
    <3> HIDE DEF n
    <3>6. ReadGiven(n, given)
      BY <2>1, <3>3, <3>5 DEF ReadGiven
    <3> QED BY <1>1, <1>7, <3>4, <3>5, <3>6
  <2> QED BY <2>2, <2>3
<1>11. CASE Prepare(p)
  <2>1. PICK r \in Ids \ Rows :
          proc' = [proc EXCEPT ![p].pc = "held", ![p].id = r,
                               ![p].entry = None, ![p].now = 0]
    BY <1>11 DEF Prepare
  <2>2. proc'[p].entry = None /\ \A u \in Submitters : u # p => proc'[u] = proc[u]
    BY <1>2, <2>1 DEF Request
  <2> QED BY <1>1, <1>3, <2>2 DEF ReadGiven
<1>12. CASE Deny(p) \/ Finish(p) \/ Crash(p)
  BY <1>1, <1>6, <1>12 DEF Deny, Finish, Crash
<1> QED BY <1>8, <1>9, <1>10, <1>11, <1>12 DEF Submission

LEMMA GivenNext ==
    ASSUME Inv, GivenInv, [Next]_vars
    PROVE  GivenInv' /\ GivenGrows(given, given')
<1>1. CASE UNCHANGED <<pool, given, proc>>
  BY <1>1 DEF GivenInv, GivenGrows
<1>2. ASSUME NEW i \in Identities,
             Provision(i) \/ Remove(i) \/ \E f \in BOOLEAN : SetFrozen(i, f)
      PROVE  GivenInv' /\ GivenGrows(given, given')
  <2>1. /\ given' \in [Identities -> SUBSET Quotas] /\ GivenGrows(given, given')
        /\ PoolGiven(pool', given') /\ proc' = StillBarred(pool')
    BY <1>2, GivenPool
  <2>2. ASSUME NEW p \in Submitters PROVE ReadGiven(proc'[p], given')
    <3>1. proc[p] \in Request /\ ReadGiven(proc[p], given)
      BY DEF Inv, ProcInv, GivenInv
    <3>2. proc'[p].entry = proc[p].entry /\ proc'[p].identity = proc[p].identity
      BY <2>1, <3>1 DEF StillBarred, Request
    <3> QED BY <2>1, <3>1, <3>2 DEF ReadGiven, GivenGrows
  <2> QED BY <2>1, <2>2 DEF GivenInv
<1>3. ASSUME NEW p \in Submitters, Start(p) \/ Submission(p) \/ Crash(p)
      PROVE  GivenInv' /\ GivenGrows(given, given')
  BY <1>3, GivenMoves DEF GivenInv, GivenGrows
<1>4. ASSUME Tick \/ LegacyFinish \/ UNCHANGED vars
             \/ \E i \in Identities : Reserve(i) \/ ReserveWithCadence(i)
      PROVE  UNCHANGED <<pool, given, proc>>
  BY <1>4 DEF Tick, LegacyFinish, vars, Reserve, ReserveWithCadence, ReserveAt
<1> QED BY <1>1, <1>2, <1>3, <1>4 DEF Next

LEMMA GivenInvariant == Spec => [](Inv /\ GivenInv)
<1>1. Inv /\ GivenInv /\ [Next]_vars => GivenInv'
  BY GivenNext
<1> QED BY <1>1, GivenInit, Inductive, PTL DEF Spec

\* Type correctness; reservations and attempts agree, and what a submission
\* holds is reserved until it lets go.
THEOREM TypeCorrect == Spec => []TypeOK
<1>1. Inv /\ GivenInv => TypeOK
  BY InvImplies DEF GivenInv
<1> QED BY <1>1, GivenInvariant, PTL


\* What submissions hold for a challenge never exceeds the policy's budget, for
\* any number of concurrent submissions, crashes and callers of the ledger that
\* bring budgets of their own.
THEOREM BudgetKept == Spec => []BudgetHolds
BY Inductive, InvImplies, PTL

\* Two live submissions of an owner at a challenge are at least the interval
\* apart, however far their clocks have fallen behind, and although rows of
\* Ledger::reserve lie at time 0 between them.
THEOREM CadenceKept == Spec => []CadenceHolds
BY Inductive, InvImplies, PTL

\* A submission whose identity stays barred does not get past admission,
\* whatever operators do to the pool between its two queries and after them.
THEOREM BarredDenied == Spec => []BarredIsDenied
BY Inductive, InvImplies, PTL

\* The last event of a pool entry tells the entry's state.
THEOREM PoolAudited == Spec => []PoolMatchesLog
BY Inductive, InvImplies, PTL

-----------------------------------------------------------------------------
(* Quotas.                                                                 *)

\* An admitted submission is subject to a quota that its identity has had,
\* unless there is no pool at all.
LEMMA QuotaApplies ==
    ASSUME NEW q \in Request, q.identity \in Identities, Admits(q),
           ~PolicyPoolEmpty(q), ReadGiven(q, given), PoolGiven(pool, given)
    PROVE  /\ QuotaOf(q) \in Quotas /\ QuotaOf(q) # None
           /\ QuotaOf(q) \in given[q.identity]
<1>1. PolicyEntry(q) # None
  BY DEF Admits
<1>2. PolicyEntry(q) \in Entry
  BY <1>1, ReservationAssumption DEF PolicyEntry, Request
<1>3. PolicyEntry(q).quota \in Quotas
  BY <1>2 DEF Entry
<1>4. PolicyEntry(q).quota \in given[q.identity]
  BY <1>1 DEF PolicyEntry, ReadGiven, PoolGiven
<1> QED BY <1>3, <1>4, ReservationAssumption DEF QuotaOf

-----------------------------------------------------------------------------
(* Concurrency, for a policy with a pool all of whose quotas limit it.     *)

Limited ==
    /\ \E i \in Identities : Yaml[i] # None
    /\ \A q \in Quotas : q.concurrent # None

SomeQuotaCovers(res, g) ==
    \A i \in Identities : HeldBy(res, i) # {} =>
        \E q \in g[i] : Cardinality(HeldBy(res, i)) <= q.concurrent

LEMMA CoversEach == ConcurrencyHolds <=> SomeQuotaCovers(reservations, given)
BY TableDefs DEF ConcurrencyHolds, SomeQuotaCovers

\* What a step may do to the reservations.
LEMMA TableSteps ==
    ASSUME Inv, [Next]_vars
    PROVE  \/ reservations' = reservations
           \/ \E p \in Submitters : Prepare(p)
           \/ \E i \in Identities, now \in Nat : \E n : ReserveAt(i, now, n)
           \/ \E r \in Ids, s \in {"released", "committed"} : Finalize(r, s)
<1>1. CASE LegacyFinish
  <2> PICK r \in Unclassified, s \in {"released", "committed"} : Finalize(r, s)
    BY <1>1 DEF LegacyFinish
  <2>1. r \in Ids
    BY TableDefs DEF Unclassified, Of, HeldRows, RowsOf
  <2> QED BY <2>1
<1>2. ASSUME NEW p \in Submitters, Finish(p)
      PROVE  \E r \in Ids, s \in {"released", "committed"} : Finalize(r, s)
  <2>1. PICK s \in {"released", "committed"} : Finalize(proc[p].id, s)
    BY <1>2 DEF Finish
  <2>2. proc[p].id \in Ids
    BY <2>1, TableDefs DEF Finalize, HeldRows, RowsOf
  <2> QED BY <2>1, <2>2
<1>3. ASSUME NEW p \in Submitters, Start(p) \/ Submission(p) \/ Crash(p)
      PROVE  reservations' = reservations \/ Prepare(p) \/ Finish(p)
  BY <1>3 DEF Start, Submission, Crash, PoolExists, PoolEntry, Deny
<1>4. ASSUME NEW i \in Identities, Reserve(i) \/ ReserveWithCadence(i)
      PROVE  \E now \in Nat : \E n : ReserveAt(i, now, n)
  <2>1. clock \in Nat /\ 0 \in Nat
    BY DEF Inv
  <2> QED BY <1>4, <2>1 DEF Reserve, ReserveWithCadence
<1> QED BY <1>1, <1>2, <1>3, <1>4
        DEF Next, vars, Tick, Provision, Remove, SetFrozen

LEMMA CoversStep ==
    ASSUME Limited, Inv, GivenInv, SomeQuotaCovers(reservations, given),
           [Next]_vars
    PROVE  SomeQuotaCovers(reservations', given')
<1>g. GivenGrows(given, given')
  BY GivenNext
<1>t. /\ TablesOK(reservations, attempts) /\ TableInv
      /\ IsFiniteSet(RowsOf(reservations))
  BY DEF Inv, TableInv, LimitsOK, FiniteRows
<1>f. \A i : IsFiniteSet(HeldBy(reservations, i))
  <2> TAKE i
  <2>1. HeldBy(reservations, i) \in SUBSET RowsOf(reservations)
    BY DEF HeldBy, HeldRows
  <2> QED BY <1>t, <2>1, FS_Subset
<1>1. CASE reservations' = reservations
  BY <1>1, <1>g DEF SomeQuotaCovers, GivenGrows
<1>2. ASSUME NEW p \in Submitters, Prepare(p)
      PROVE  SomeQuotaCovers(reservations', given')
  <2> DEFINE q == proc[p]  i == q.identity
  <2>1. /\ q \in Request /\ i \in Identities /\ q.cost \in Costs
        /\ q.now \in Nat /\ Admits(q)
    BY <1>2 DEF Inv, ProcInv, SubmissionsOK, SubmissionOK, Prepare, Request
  <2>2. PICK r \in Ids \ Rows :
          /\ Reservable(Challenge[i], Owner[i], q.cost, q.now, Budget, MinInterval)
          /\ QuotaOf(q) # None => QuotaAdmits(QuotaOf(q), i, q.cost, q.now)
          /\ Insert(r, Challenge[i], Owner[i], i, q.cost, q.now)
    BY <1>2 DEF Prepare
  <2>3. /\ reservations[r] = None
        /\ reservations'[r] = NewRow(Challenge[i], Owner[i], i, q.cost, q.now)
        /\ \A s \in Ids : s # r => reservations'[s] = reservations[s]
    <3> HIDE DEF q, i
    <3>1. i \in Identities \cup {None}
      BY <2>1
    <3> QED BY <1>t, <2>1, <2>2, <3>1, InsertInv
  <2>4. /\ reservations'[r] # None /\ reservations'[r].state = "reserved"
        /\ reservations'[r].identity = i
    <3>1. Challenge[i] \in Challenges /\ Owner[i] \in Owners
      BY <2>1 DEF Challenges, Owners
    <3> QED BY <2>1, <2>3, <3>1, NewRowFields
  <2>5. ~PolicyPoolEmpty(q)
    BY DEF Limited, PolicyPoolEmpty
  <2>6. QuotaOf(q) \in Quotas /\ QuotaOf(q) # None /\ QuotaOf(q) \in given[i]
    <3>1. ReadGiven(q, given) /\ PoolGiven(pool, given)
      BY DEF GivenInv
    <3> QED BY <2>1, <2>5, <3>1, QuotaApplies
  <2>7. QuotaOf(q).concurrent \in Nat
    BY <2>6, ReservationAssumption DEF Limited
  <2>8. Cardinality(HeldBy(reservations, i)) < QuotaOf(q).concurrent
    <3>1. QuotaAdmits(QuotaOf(q), i, q.cost, q.now)
      BY <2>2, <2>6
    <3> QED BY <2>6, <3>1, TableDefs DEF QuotaAdmits, Limited
  <2> HIDE DEF q, i
  <2>9. HeldBy(reservations', i) = HeldBy(reservations, i) \cup {r}
    BY <2>2, <2>3, <2>4 DEF HeldBy, HeldRows, RowsOf
  <2>10. Cardinality(HeldBy(reservations', i)) <= QuotaOf(q).concurrent
    <3> DEFINE A == HeldBy(reservations, i)
    <3>1. IsFiniteSet(A)
      BY <1>f
    <3>2. Cardinality(A) < QuotaOf(q).concurrent
          /\ A \cup {r} = HeldBy(reservations', i)
      BY <2>8, <2>9
    <3> HIDE DEF A
    <3>3. Cardinality(A \cup {r}) = Cardinality(A)
          \/ Cardinality(A \cup {r}) = Cardinality(A) + 1
      BY <3>1, FS_AddElement
    <3>4. Cardinality(A) \in Nat
      BY <3>1, FS_CardinalityType
    <3>5. Cardinality(A \cup {r}) <= QuotaOf(q).concurrent
      BY <2>7, <3>2, <3>3, <3>4
    <3> QED BY <3>2, <3>5
  <2>11. \A j \in Identities : j # i =>
            HeldBy(reservations', j) = HeldBy(reservations, j)
    BY <2>2, <2>3, <2>4 DEF HeldBy, HeldRows, RowsOf
  <2>12. i \in Identities /\ QuotaOf(q) \in given'[i]
    BY <1>g, <2>1, <2>6 DEF GivenGrows
  <2> QED BY <1>g, <2>10, <2>11, <2>12 DEF SomeQuotaCovers, GivenGrows
<1>3. ASSUME NEW i \in Identities, NEW now \in Nat, NEW n, ReserveAt(i, now, n)
      PROVE  SomeQuotaCovers(reservations', given')
  <2>1. PICK r \in Ids \ Rows, c \in Costs :
          Insert(r, Challenge[i], Owner[i], None, c, now)
    BY <1>3 DEF ReserveAt
  <2>2. None \in Identities \cup {None}
    OBVIOUS
  <2>3. /\ reservations[r] = None
        /\ reservations'[r] = NewRow(Challenge[i], Owner[i], None, c, now)
        /\ \A s \in Ids : s # r => reservations'[s] = reservations[s]
    BY <1>t, <2>1, <2>2, InsertInv
  <2>4. reservations'[r].identity = None
    BY <2>3 DEF NewRow
  <2>5. \A j \in Identities : HeldBy(reservations', j) = HeldBy(reservations, j)
    BY <2>1, <2>3, <2>4, ReservationAssumption DEF HeldBy, HeldRows, RowsOf
  <2> QED BY <1>g, <2>5 DEF SomeQuotaCovers, GivenGrows
<1>4. ASSUME NEW r \in Ids, NEW s \in {"released", "committed"}, Finalize(r, s)
      PROVE  SomeQuotaCovers(reservations', given')
  <2>1. /\ \A t \in Ids : t # r => reservations'[t] = reservations[t]
        /\ reservations'[r].state = s
    BY <1>t, <1>4, EndRow
  <2> SUFFICES ASSUME NEW j \in Identities, HeldBy(reservations', j) # {}
               PROVE  \E q \in given'[j] :
                        Cardinality(HeldBy(reservations', j)) <= q.concurrent
    BY DEF SomeQuotaCovers
  <2>2. HeldBy(reservations', j) \in SUBSET HeldBy(reservations, j)
    BY <2>1 DEF HeldBy, HeldRows, RowsOf
  <2>3. PICK q \in given[j] : Cardinality(HeldBy(reservations, j)) <= q.concurrent
    BY <2>2 DEF SomeQuotaCovers
  <2>q. q \in Quotas /\ q \in given'[j]
    BY <1>g DEF GivenInv, GivenGrows
  <2>4. /\ IsFiniteSet(HeldBy(reservations', j))
        /\ Cardinality(HeldBy(reservations', j)) <=
             Cardinality(HeldBy(reservations, j))
    BY <1>f, <2>2, FS_Subset
  <2>5. /\ Cardinality(HeldBy(reservations', j)) \in Nat
        /\ Cardinality(HeldBy(reservations, j)) \in Nat /\ q.concurrent \in Nat
    BY <1>f, <2>4, <2>q, FS_CardinalityType, ReservationAssumption DEF Limited
  <2>6. Cardinality(HeldBy(reservations', j)) <= q.concurrent
    BY <2>3, <2>4, <2>5
  <2> QED BY <2>6, <2>q
<1> QED BY <1>1, <1>2, <1>3, <1>4, TableSteps

LEMMA CoversInit == Init => SomeQuotaCovers(reservations, given)
BY DEF Init, SomeQuotaCovers, HeldBy, HeldRows, RowsOf

\* When the policy has a pool and every quota limits concurrency, no identity
\* holds more reservations at once than some quota it was given allows,
\* although the quota was read before the transaction and may have changed.
THEOREM ConcurrencyKept ==
    ASSUME Limited
    PROVE  Spec => []ConcurrencyHolds
<1> DEFINE C == SomeQuotaCovers(reservations, given)
<1>1. Init => C
  BY CoversInit
<1>2. Inv /\ GivenInv /\ C /\ [Next]_vars => C'
  BY CoversStep
<1>3. C => ConcurrencyHolds
  BY CoversEach
<1> HIDE DEF C
<1> QED BY <1>1, <1>2, <1>3, GivenInvariant, PTL DEF Spec
=============================================================================
