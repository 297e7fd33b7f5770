---------------------- MODULE CoordinationEvents_proofs ----------------------
(***************************************************************************)
(* Facts about append_event_in_transaction, used by the proofs of every    *)
(* component that records audited events.                                  *)
(***************************************************************************)
EXTENDS CoordinationEvents, TLAPS

\* The versions of an aggregate are 1..n: what every append relies on.
Numbered(rows, agg) == \E n \in Nat : Versions(rows, agg) = 1..n

\* COALESCE(MAX(state_version), 0) of an aggregate numbered 1..n is n.
LEMMA CurrentVersionIsLast ==
    ASSUME NEW rows, NEW agg, NEW n \in Nat, Versions(rows, agg) = 1..n
    PROVE  CurrentVersion(rows, agg) = n
<1> DEFINE S == {0} \cup Versions(rows, agg)
<1>1. n \in S /\ \A y \in S : n >= y
  OBVIOUS
<1>2. \A x \in S : (\A y \in S : x >= y) => x = n
  <2> SUFFICES ASSUME NEW x \in S, \A y \in S : x >= y PROVE x = n
    OBVIOUS
  <2>1. x \in Nat /\ x >= n /\ n >= x
    BY <1>1
  <2> QED BY <2>1
<1> QED BY <1>1, <1>2 DEF CurrentVersion, Max

\* An append numbers its aggregate one further and leaves the others alone.
LEMMA AppendNumbers ==
    ASSUME NEW rows, NEW e, NEW expected \in Nat, NEW agg,
           Numbered(rows, agg), Appends(rows, e, expected)
    PROVE  Numbered(Append1(rows, e, expected), agg)
<1> PICK n \in Nat : Versions(rows, agg) = 1..n
  BY DEF Numbered
<1> DEFINE new == Append1(rows, e, expected)
<1>1. CASE agg = e.agg
  <2>1. n = expected
    BY <1>1, CurrentVersionIsLast DEF Appends
  <2> DEFINE row == Row(e, expected + 1)
  <2>a. row.agg = agg /\ row.version = expected + 1
    BY <1>1 DEF Row
  <2> HIDE DEF row
  <2>b. new = rows \cup {row}
    BY DEF Append1, row
  <2> HIDE DEF new
  <2>2. Versions(new, agg) = Versions(rows, agg) \cup {expected + 1}
    BY <2>a, <2>b DEF Versions
  <2>3. Versions(new, agg) = 1..(n + 1)
    BY <2>1, <2>2
  <2> QED BY <2>3 DEF Numbered, new
<1>2. CASE agg # e.agg
  <2>1. Versions(new, agg) = Versions(rows, agg)
    BY <1>2 DEF Versions, Append1, Row
  <2> QED BY <2>1 DEF Numbered
<1> QED BY <1>1, <1>2

\* No row of an aggregate is past its current version.
LEMMA VersionsBounded ==
    ASSUME NEW rows, NEW agg, Numbered(rows, agg)
    PROVE  /\ CurrentVersion(rows, agg) \in Nat
           /\ \A r \in rows : r.agg = agg =>
                 r.version \in 1..CurrentVersion(rows, agg)
<1> PICK n \in Nat : Versions(rows, agg) = 1..n
  BY DEF Numbered
<1>1. CurrentVersion(rows, agg) = n
  BY CurrentVersionIsLast
<1>2. \A r \in rows : r.agg = agg => r.version \in 1..n
  BY DEF Versions
<1> QED BY <1>1, <1>2

\* After an append its aggregate is one version further, the others are not.
LEMMA AppendVersion ==
    ASSUME NEW rows, NEW e, NEW expected \in Nat, NEW agg,
           Numbered(rows, agg), Appends(rows, e, expected)
    PROVE  CurrentVersion(Append1(rows, e, expected), agg) =
             IF agg = e.agg THEN expected + 1 ELSE CurrentVersion(rows, agg)
<1> DEFINE new == Append1(rows, e, expected)  row == Row(e, expected + 1)
<1>1. row.agg = e.agg /\ row.version = expected + 1
  BY DEF Row
<1>2. new = rows \cup {row}
  BY DEF Append1
<1> HIDE DEF new, row
<1>3. CASE agg = e.agg
  <2> PICK n \in Nat : Versions(rows, agg) = 1..n
    BY DEF Numbered
  <2>1. n = expected
    BY <1>3, CurrentVersionIsLast DEF Appends
  <2>2. Versions(new, agg) = Versions(rows, agg) \cup {expected + 1}
    BY <1>1, <1>2, <1>3 DEF Versions
  <2>3. Versions(new, agg) = 1..(n + 1) /\ n + 1 \in Nat
    BY <2>1, <2>2
  <2>4. CurrentVersion(new, agg) = n + 1
    BY <2>3, CurrentVersionIsLast
  <2> QED BY <1>3, <2>1, <2>4 DEF new
<1>4. CASE agg # e.agg
  <2>1. Versions(new, agg) = Versions(rows, agg)
    BY <1>1, <1>2, <1>4 DEF Versions
  <2> QED BY <1>4, <2>1 DEF CurrentVersion, new
<1> QED BY <1>3, <1>4

\* The row an append added is the only one at its aggregate's new version.
LEMMA AppendIsLast ==
    ASSUME NEW rows, NEW e, NEW expected \in Nat, NEW agg,
           Numbered(rows, agg), Appends(rows, e, expected)
    PROVE  LET new == Append1(rows, e, expected)
               last == {r \in new : /\ r.agg = agg
                                    /\ r.version = CurrentVersion(new, agg)}
           IN  last = IF agg = e.agg THEN {Row(e, expected + 1)}
                      ELSE {r \in rows : /\ r.agg = agg
                                         /\ r.version = CurrentVersion(rows, agg)}
<1> DEFINE new == Append1(rows, e, expected)  row == Row(e, expected + 1)
<1>1. row.agg = e.agg /\ row.version = expected + 1
  BY DEF Row
<1>2. new = rows \cup {row}
  BY DEF Append1
<1>3. CurrentVersion(new, agg) =
        IF agg = e.agg THEN expected + 1 ELSE CurrentVersion(rows, agg)
  BY AppendVersion
<1> HIDE DEF new, row
<1>4. CASE agg = e.agg
  <2>1. CurrentVersion(rows, agg) = expected
    BY <1>4 DEF Appends
  <2>2. \A r \in rows : r.agg = agg => r.version \in 1..expected
    BY <2>1, VersionsBounded
  <2>3. {r \in new : r.agg = agg /\ r.version = expected + 1} = {row}
    BY <1>1, <1>2, <1>4, <2>2
  <2> QED BY <1>3, <1>4, <2>3 DEF new, row
<1>5. CASE agg # e.agg
  <2>1. {r \in new : r.agg = agg /\ r.version = CurrentVersion(new, agg)} =
          {r \in rows : r.agg = agg /\ r.version = CurrentVersion(rows, agg)}
    BY <1>1, <1>2, <1>3, <1>5
  <2> QED BY <1>5, <2>1 DEF new, row
<1> QED BY <1>4, <1>5

\* An append never reuses a key, an event id or a version.
LEMMA AppendUnique ==
    ASSUME NEW rows, NEW e, NEW expected \in Nat,
           UniqueRows(rows), Numbered(rows, e.agg), Appends(rows, e, expected)
    PROVE  UniqueRows(Append1(rows, e, expected))
<1> DEFINE row == Row(e, expected + 1)
<1>1. row.key = e.key /\ row.id = e.id /\ row.agg = e.agg
      /\ row.version = expected + 1
  BY DEF Row
<1>2. \A r \in rows : r.key # row.key /\ r.id # row.id
  BY <1>1 DEF Appends, KeyBound
<1>3. \A r \in rows : r.agg = row.agg => r.version # row.version
  <2> PICK n \in Nat : Versions(rows, e.agg) = 1..n
    BY DEF Numbered
  <2>1. n = expected
    BY CurrentVersionIsLast DEF Appends
  <2>2. \A r \in rows : r.agg = e.agg => r.version \in 1..n
    BY DEF Versions
  <2> QED BY <1>1, <2>1, <2>2
<1> HIDE DEF row
<1>4. Append1(rows, e, expected) = rows \cup {row}
  BY DEF Append1, row
<1> QED BY <1>2, <1>3, <1>4 DEF UniqueRows

\* A numbered aggregate has no gap.
LEMMA NumberedContiguous ==
    ASSUME NEW rows, NEW agg, Numbered(rows, agg)
    PROVE  Contiguous(rows, agg)
<1> PICK n \in Nat : Versions(rows, agg) = 1..n
  BY DEF Numbered
<1> SUFFICES ASSUME NEW r \in rows, r.agg = agg, NEW v \in 1..r.version
             PROVE  \E q \in rows : q.agg = agg /\ q.version = v
  BY DEF Contiguous
<1>1. r.version \in 1..n
  BY DEF Versions
<1>2. v \in Versions(rows, agg)
  BY <1>1
<1> QED BY <1>2 DEF Versions
=============================================================================
