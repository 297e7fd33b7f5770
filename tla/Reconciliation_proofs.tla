------------------------ MODULE Reconciliation_proofs ------------------------
(***************************************************************************)
(* Proofs about the reconciliation pipeline, for any number of writers,    *)
(* attempts, pages, polls, Chief decisions and crashes.                    *)
(*                                                                         *)
(* First the types, with the alignment of a writer's program counter and   *)
(* its batch; then the event log, the item rows and the snapshot, which    *)
(* are safe whatever version the writers predict.                          *)
(***************************************************************************)
EXTENDS Reconciliation, CoordinationEvents_proofs, Induction

-----------------------------------------------------------------------------
(* Types of the operators.                                                 *)

\* merge_into yields facts.
LEMMA MergeType ==
    ASSUME NEW new \in Facts, NEW old \in Facts
    PROVE  MergeInto(new, old) \in Facts
<1>1. DOMAIN old = {"raw", "effective", "basis", "evidence", "trace",
                    "rescore"}
  BY DEF Facts
<1>2. \A k \in DOMAIN old :
         MergeInto(new, old)[k] = new[k] \/ MergeInto(new, old)[k] = old[k]
  BY DEF MergeInto
<1>3. DOMAIN MergeInto(new, old) = DOMAIN old
  BY DEF MergeInto
<1>4. MergeInto(new, old) =
        [raw |-> MergeInto(new, old).raw,
         effective |-> MergeInto(new, old).effective,
         basis |-> MergeInto(new, old).basis,
         evidence |-> MergeInto(new, old).evidence,
         trace |-> MergeInto(new, old).trace,
         rescore |-> MergeInto(new, old).rescore]
  BY <1>1, <1>3 DEF MergeInto
<1> QED BY <1>1, <1>2, <1>4 DEF Facts

\* The fold yields a snapshot.
LEMMA FoldType ==
    ASSUME NEW s \in SnapshotState, NEW item \in Item
    PROVE  Folded(s, item) \in SnapshotState
<1> DEFINE old == s.attempts[item.attempt]
           fact ==
             [state     |-> IF item.kind = "observation" THEN "confirmed"
                                                         ELSE "unknown",
              cursor    |-> item.pos,
              resp      |-> item.resp,
              at        |-> item.at,
              confirmed |-> IF item.kind = "observation" THEN item.resp
                            ELSE IF old = None THEN None ELSE old.confirmed,
              facts     |-> IF old = None THEN item.facts
                                      ELSE MergeInto(item.facts, old.facts)]
<1>1. old = None \/ old \in AttemptFact
  BY DEF SnapshotState, Item
<1>2. fact.facts \in Facts
  BY <1>1, MergeType DEF Item, AttemptFact
<1>3. fact \in AttemptFact
  BY <1>1, <1>2 DEF Item, AttemptFact
<1>4. Folded(s, item) = [cursor   |-> item.pos,
                         attempts |-> [s.attempts EXCEPT ![item.attempt] = fact],
                         seen     |-> s.seen \cup {item}]
  BY DEF Folded
<1> HIDE DEF fact
<1> QED BY <1>3, <1>4 DEF SnapshotState, Item

\* A page expands to a sequence of items.
LEMMA ItemsType ==
    ASSUME NEW resp \in Responses, NEW cursor \in Nat, NEW at \in Nat
    PROVE  Items(resp, cursor, at) \in Seq(Item)
<1> DEFINE p == Page[resp]
           it(i) == [attempt |-> p[i].attempt, resp |-> resp,
                     pos |-> cursor + i - 1, at |-> at,
                     kind |-> p[i].kind, facts |-> p[i].facts]
<1>1. p \in Seq(Entry)
  BY PageAssumption
<1>2. DOMAIN p = 1..Len(p) /\ Len(p) \in Nat
  BY <1>1
<1>3. \A i \in 1..Len(p) : p[i] \in Entry
  BY <1>1
<1>4. \A i \in 1..Len(p) : it(i) \in Item
  BY <1>2, <1>3 DEF Entry, Item
<1> HIDE DEF it
<1>5. Items(resp, cursor, at) = [i \in 1..Len(p) |-> it(i)]
  BY <1>2 DEF Items, it
<1> QED BY <1>2, <1>4, <1>5

\* _next_cursor advances by a natural number.
LEMMA StrideIsNat ==
    ASSUME NEW n \in Nat
    PROVE  Max({1, n}) \in Nat
<1>1. CASE n <= 1
  <2>1. \A x \in {1, n} : (\A y \in {1, n} : x >= y) => x = 1
    BY <1>1
  <2>2. \A y \in {1, n} : 1 >= y
    BY <1>1
  <2> QED BY <2>1, <2>2 DEF Max
<1>2. CASE n > 1
  <2>1. \A x \in {1, n} : (\A y \in {1, n} : x >= y) => x = n
    BY <1>2
  <2>2. \A y \in {1, n} : n >= y
    BY <1>2
  <2> QED BY <2>1, <2>2 DEF Max
<1> QED BY <1>1, <1>2

\* An idle process is a process.
LEMMA IdleType == Idle \in Process
BY DEF Idle, Process

-----------------------------------------------------------------------------
(* Type correctness.                                                       *)

\* A writer that is working on an item has one, and carries a snapshot into
\* the transaction that stores it.
Aligned(p) ==
    /\ p.pc \in {"item", "reduced"} => p.index \in 1..Len(p.batch)
    /\ p.applied > 0 => p.batch # <<>>
    /\ p.pc = "reduced" /\ p.outcome = "applied" =>
          p.loaded \in SnapshotState /\ SnapshotValid(p.loaded)

TypeInv == TypeOK /\ \A w \in Writers : Aligned(proc[w])

FilesOK ==
    /\ \A m \in manifests : m \in Seq(Item)
    /\ \A k \in wakes : k \in [version : Nat, resp : Responses]
    /\ state \in [Writers -> [cursor : Nat, version : Nat, lastWake : Nat,
                              failed : BOOLEAN]]
    /\ clock \in Nat /\ crashes \in Nat

\* A step of one process that leaves the tables alone.
LEMMA TypeStep ==
    ASSUME TypeInv, NEW w \in Writers, NEW q \in Process, Aligned(q),
           proc' = [proc EXCEPT ![w] = q], UNCHANGED ledger, FilesOK'
    PROVE  TypeInv'
<1>1. proc' \in [Writers -> Process]
  BY DEF TypeInv, TypeOK
<1>2. \A v \in Writers : Aligned(proc'[v])
  BY DEF TypeInv, TypeOK
<1>3. TypeOK'
  BY <1>1 DEF TypeInv, TypeOK, ledger, FilesOK
<1> QED BY <1>2, <1>3 DEF TypeInv, Aligned
\* The current version of a numbered log is a natural number.
LEMMA VersionIsNat ==
    ASSUME NEW rows, NEW agg, Numbered(rows, agg)
    PROVE  CurrentVersion(rows, agg) \in Nat
BY CurrentVersionIsLast DEF Numbered

\* The item a writer is working on is one of its batch.
LEMMA CurrentType ==
    ASSUME TypeInv, NEW w \in Writers, proc[w].pc \in {"item", "reduced"}
    PROVE  Current(w) \in Item
<1>1. proc[w] \in Process /\ Aligned(proc[w])
  BY DEF TypeInv, TypeOK
<1>2. proc[w].batch \in Seq(Item)
  BY <1>1 DEF Process
<1>3. proc[w].index \in 1..Len(proc[w].batch)
  BY <1>1 DEF Aligned
<1> QED BY <1>2, <1>3 DEF Current

LEMMA AdvanceType ==
    ASSUME NEW p \in Process, p.pc = "reduced", Aligned(p)
    PROVE  Advance(p) \in Process /\ Aligned(Advance(p))
<1>1. p.index \in 1..Len(p.batch) /\ Len(p.batch) \in Nat
  BY DEF Aligned, Process
<1>a. p.index + 1 \in Nat
  BY <1>1
<1>b. (IF p.index = Len(p.batch) THEN "complete" ELSE "item")
        \in {"complete", "item"}
  OBVIOUS
<1>2. Advance(p) \in Process
  <2> DEFINE p1 == [p EXCEPT !.index = p.index + 1]
             p2 == [p1 EXCEPT !.outcome = None]
             p3 == [p2 EXCEPT !.loaded = None]
             p4 == [p3 EXCEPT !.base = 0]
             p5 == [p4 EXCEPT !.skipped = {}]
             p6 == [p5 EXCEPT !.pc = IF p.index = Len(p.batch) THEN "complete"
                                                               ELSE "item"]
  <2>1. p1 \in Process
    BY <1>a DEF Process
  <2> HIDE DEF p1
  <2>2. p2 \in Process
    BY <2>1 DEF Process
  <2> HIDE DEF p2
  <2>3. p3 \in Process
    BY <2>2 DEF Process
  <2> HIDE DEF p3
  <2>4. p4 \in Process
    BY <2>3 DEF Process
  <2> HIDE DEF p4
  <2>5. p5 \in Process
    BY <2>4 DEF Process
  <2> HIDE DEF p5
  <2>6. p6 \in Process
    BY <2>5, <1>b DEF Process
  <2> QED BY <2>6 DEF Advance, p1, p2, p3, p4, p5
<1>3. /\ Advance(p).index = p.index + 1 /\ Advance(p).batch = p.batch
      /\ Advance(p).applied = p.applied
      /\ Advance(p).pc = IF p.index = Len(p.batch) THEN "complete" ELSE "item"
  BY DEF Advance, Process
<1>c. p.applied > 0 => p.batch # <<>>
  BY DEF Aligned
<1> HIDE DEF Advance
<1>4. Aligned(Advance(p))
  BY <1>1, <1>3, <1>c DEF Aligned
<1> QED BY <1>2, <1>4

LEMMA StartType ==
    ASSUME TypeInv, NEW w \in Writers, StartCycle(w)
    PROVE  TypeInv'
<1> PICK resp \in Responses :
      LET batch == Items(resp, state[w].cursor, clock) IN
      /\ manifests' = manifests \cup {batch}
      /\ proc' = [proc EXCEPT ![w] =
            [Idle EXCEPT !.pc = IF batch = <<>> THEN "complete" ELSE "item",
                         !.mode = "scheduled", !.batch = batch,
                         !.expected = state[w].version, !.now = clock]]
  BY DEF StartCycle
<1> DEFINE batch == Items(resp, state[w].cursor, clock)
           q == [Idle EXCEPT !.pc = IF batch = <<>> THEN "complete" ELSE "item",
                             !.mode = "scheduled", !.batch = batch,
                             !.expected = state[w].version, !.now = clock]
<1>1. batch \in Seq(Item) /\ clock \in Nat /\ state[w].version \in Nat
  BY ItemsType DEF TypeInv, TypeOK
<1> HIDE DEF batch
<1>2. q \in Process
  BY <1>1 DEF Idle, Process
<1>3. Aligned(q)
  <2>1. q.index = 1 /\ q.batch = batch /\ q.applied = 0
        /\ q.pc = IF batch = <<>> THEN "complete" ELSE "item"
    BY DEF Idle
  <2>2. batch # <<>> => 1 \in 1..Len(batch)
    BY <1>1
  <2> QED BY <2>1, <2>2 DEF Aligned
<1>4. FilesOK'
  BY <1>1 DEF StartCycle, TypeInv, TypeOK, FilesOK, batch
<1>5. proc' = [proc EXCEPT ![w] = q]
  BY DEF batch
<1>6. UNCHANGED ledger
  BY DEF StartCycle
<1> HIDE DEF q
<1> QED BY <1>2, <1>3, <1>4, <1>5, <1>6, TypeStep

LEMMA ReplayType ==
    ASSUME TypeInv, NEW w \in Writers, ReplayManifest(w), Version \in Nat
    PROVE  TypeInv'
<1> PICK batch \in manifests \ {<<>>}, v \in {snapshot.version, Version} :
      proc' = [proc EXCEPT ![w] =
         [Idle EXCEPT !.pc = "item", !.mode = "manual", !.batch = batch,
                      !.expected = v, !.now = clock]]
  BY DEF ReplayManifest
<1> DEFINE q == [Idle EXCEPT !.pc = "item", !.mode = "manual", !.batch = batch,
                             !.expected = v, !.now = clock]
<1>1. batch \in Seq(Item) /\ v \in Nat /\ clock \in Nat
  BY DEF TypeInv, TypeOK
<1>2. q \in Process
  BY <1>1 DEF Idle, Process
<1>3. Aligned(q)
  <2>1. q.index = 1 /\ q.batch = batch /\ q.pc = "item" /\ q.applied = 0
    BY DEF Idle
  <2>2. 1 \in 1..Len(batch)
    BY <1>1
  <2> QED BY <2>1, <2>2 DEF Aligned
<1>4. FilesOK' /\ UNCHANGED ledger
  BY DEF ReplayManifest, TypeInv, TypeOK, FilesOK
<1> QED BY <1>2, <1>3, <1>4, TypeStep

\* What apply() reports as applied has been validated after the fold.
LEMMA AppliedIsValid ==
    ASSUME NEW s, NEW item, NEW now, ApplyOutcome(s, item, now) = "applied"
    PROVE  SnapshotValid(Folded(s, item))
BY DEF ApplyOutcome

LEMMA OutcomeType ==
    ASSUME NEW s, NEW item, NEW now
    PROVE  ApplyOutcome(s, item, now) \in Outcomes
BY DEF ApplyOutcome, Outcomes

LEMMA LoadType ==
    ASSUME TypeInv, NEW w \in Writers, LoadAndReduce(w)
    PROVE  TypeInv'
<1> DEFINE s == snapshot.state
           item == Current(w)
           outcome == ApplyOutcome(s, item, proc[w].now)
           next == IF outcome = "applied" THEN Folded(s, item) ELSE None
           q == [proc[w] EXCEPT
                   !.pc = IF outcome = "error" THEN "failed" ELSE "reduced",
                   !.outcome = outcome, !.loaded = next,
                   !.base = snapshot.version, !.skipped = overtaken]
<1>1. proc[w] \in Process /\ proc[w].pc = "item" /\ Aligned(proc[w])
  BY DEF LoadAndReduce, TypeInv, TypeOK
<1>2. item \in Item /\ s \in SnapshotState
  BY <1>1, CurrentType DEF TypeInv, TypeOK
<1>3. /\ outcome = "applied" => next \in SnapshotState /\ SnapshotValid(next)
      /\ next \in SnapshotState \cup {None}
  BY <1>2, FoldType, AppliedIsValid
<1>4. outcome \in Outcomes
  BY OutcomeType
<1>5. proc' = [proc EXCEPT ![w] = q] /\ UNCHANGED ledger /\ FilesOK'
  BY DEF LoadAndReduce, TypeInv, TypeOK, FilesOK
<1> HIDE DEF outcome, next
<1>b. snapshot.version \in Nat /\ overtaken \in SUBSET Nat
  BY DEF TypeInv, TypeOK
<1>6. q \in Process
  BY <1>1, <1>3, <1>4, <1>b DEF Process
<1>7. /\ q.index = proc[w].index /\ q.batch = proc[w].batch
      /\ q.applied = proc[w].applied
      /\ q.pc = IF outcome = "error" THEN "failed" ELSE "reduced"
      /\ q.outcome = outcome /\ q.loaded = next
  BY <1>1 DEF Process
<1> HIDE DEF q
<1>8. Aligned(q)
  BY <1>1, <1>3, <1>7 DEF Aligned
<1> QED BY <1>5, <1>6, <1>8, TypeStep
LEMMA CommitType ==
    ASSUME TypeInv, NEW w \in Writers, CommitApplied(w)
    PROVE  TypeInv'
<1> DEFINE item == Current(w)
           e == BatchEvent(item, proc[w].now)
           v == proc[w].expected + 1
           q == Advanced(proc[w], v)
<1>1. proc[w] \in Process /\ Aligned(proc[w])
      /\ proc[w].pc = "reduced" /\ proc[w].outcome = "applied"
  BY DEF CommitApplied, TypeInv, TypeOK
<1>2. item \in Item /\ v \in Nat /\ proc[w].now \in Nat
      /\ proc[w].loaded \in SnapshotState
  BY <1>1, CurrentType DEF Process, Aligned
<1>3. \A r \in events' : r.agg = Campaign /\ r.version \in Nat /\ r.at \in Nat
  <2>1. events' = events \cup {Row(e, v)}
    BY DEF CommitApplied, Append1
  <2>2. Row(e, v).agg = Campaign /\ Row(e, v).version = v
        /\ Row(e, v).at = proc[w].now
    BY DEF Row, BatchEvent, Event
  <2> HIDE DEF e, v
  <2> QED BY <1>2, <2>1, <2>2 DEF TypeInv, TypeOK
<1>4. snapshot' \in [version : Nat, state : SnapshotState]
  BY <1>2 DEF CommitApplied
<1>5. \A row \in items' : row \in [item : Item, version : Nat]
  BY <1>2 DEF CommitApplied, TypeInv, TypeOK
<1>6. \A p \in penalties' : p \in [attempt : Attempts, resp : Responses,
                                   rewritten : Score, version : Nat]
  <2>1. item.facts.basis \in Score \cup {None} /\ item.attempt \in Attempts
        /\ item.resp \in Responses
    BY <1>2 DEF Item, Facts
  <2> QED BY <1>2, <2>1 DEF CommitApplied, TypeInv, TypeOK
<1>7. q \in Process /\ Aligned(q)
  <2>1. Advance(proc[w]) \in Process /\ Aligned(Advance(proc[w]))
    BY <1>1, AdvanceType
  <2>a. q = [Advance(proc[w]) EXCEPT !.expected = v + 1,
                        !.applied = Advance(proc[w]).applied + 1]
    BY DEF Advanced, NextExpected
  <2>b. v + 1 \in Nat
    BY <1>2
  <2>c. Advance(proc[w]).applied + 1 \in Nat
    BY <2>1 DEF Process
  <2> HIDE DEF v
  <2>2. q \in Process
    BY <2>1, <2>a, <2>b, <2>c DEF Process
  <2>3. q.pc = Advance(proc[w]).pc /\ q.index = Advance(proc[w]).index
        /\ q.batch = Advance(proc[w]).batch
        /\ q.outcome = Advance(proc[w]).outcome
        /\ q.loaded = Advance(proc[w]).loaded
    BY <2>1 DEF Advanced, Process
  <2>d. Advance(proc[w]).batch = proc[w].batch /\ proc[w].batch # <<>>
    BY <1>1 DEF Advance, Process, Aligned
  <2> HIDE DEF q
  <2>4. Aligned(q)
    BY <2>1, <2>3, <2>d DEF Aligned
  <2> QED BY <2>2, <2>4
<1>8. proc' = [proc EXCEPT ![w] = q]
  BY DEF CommitApplied
<1> HIDE DEF q
<1>9. proc' \in [Writers -> Process] /\ \A u \in Writers : Aligned(proc'[u])
  BY <1>7, <1>8 DEF TypeInv, TypeOK
<1>o. overtaken' \subseteq Nat
  <2>1. proc[w].skipped \subseteq Nat
    BY <1>1 DEF Process
  <2>2. \A row \in items : row.version \in Nat
    BY DEF TypeInv, TypeOK
  <2> QED BY <2>1, <2>2 DEF CommitApplied
<1>10. TypeOK'
  BY <1>3, <1>4, <1>5, <1>6, <1>9, <1>o DEF CommitApplied, TypeInv, TypeOK
<1> QED BY <1>9, <1>10 DEF TypeInv, Aligned

\* The steps that only move a writer's program counter.
LEMMA MoveType ==
    ASSUME TypeInv, NEW w \in Writers,
           NEW pc \in {"failed", "woken"}, proc' = [proc EXCEPT ![w].pc = pc],
           UNCHANGED ledger, FilesOK'
    PROVE  TypeInv'
<1> DEFINE q == [proc[w] EXCEPT !.pc = pc]
<1>1. /\ q \in Process /\ q.pc = pc
      /\ q.applied = proc[w].applied /\ q.batch = proc[w].batch
  BY DEF TypeInv, TypeOK, Process
<1>2. proc' = [proc EXCEPT ![w] = q]
  OBVIOUS
<1> HIDE DEF q
<1>3. Aligned(q)
  BY <1>1 DEF TypeInv, Aligned
<1> QED BY <1>1, <1>2, <1>3, TypeStep

LEMMA SkipType ==
    ASSUME TypeInv, NEW w \in Writers, SkipItem(w)
    PROVE  TypeInv'
<1>1. FilesOK' /\ UNCHANGED ledger
  BY DEF SkipItem, TypeInv, TypeOK, FilesOK
<1>2. CASE proc' = [proc EXCEPT ![w] = Advance(proc[w])]
  <2>1. Advance(proc[w]) \in Process /\ Aligned(Advance(proc[w]))
    BY AdvanceType DEF SkipItem, TypeInv, TypeOK
  <2> QED BY <1>1, <1>2, <2>1, TypeStep
<1>3. CASE proc' = [proc EXCEPT ![w].pc = "failed"]
  BY <1>1, <1>3, MoveType
<1> QED BY <1>2, <1>3 DEF SkipItem

LEMMA WakeType ==
    ASSUME TypeInv, NEW w \in Writers, WriteWake(w)
    PROVE  TypeInv'
<1>1. proc[w] \in Process /\ proc[w].batch \in Seq(Item)
  BY DEF TypeInv, TypeOK, Process
<1>2. proc[w].expected \in Nat
  BY <1>1 DEF Process
<1>3. proc[w].batch # <<>>
  BY DEF WriteWake, TypeInv, Aligned
<1>4. proc[w].batch[1] \in Item
  BY <1>1, <1>3
<1> DEFINE wake == [version |-> proc[w].expected,
                    resp |-> proc[w].batch[1].resp]
<1>a. wake \in [version : Nat, resp : Responses]
  BY <1>2, <1>4 DEF Item
<1>b. wakes' = wakes \cup {wake}
  BY DEF WriteWake
<1> HIDE DEF wake
<1>5. FilesOK'
  BY <1>a, <1>b DEF WriteWake, TypeInv, TypeOK, FilesOK
<1> QED BY <1>5, MoveType DEF WriteWake

\* The steps that end a writer's work.
LEMMA IdleStep ==
    ASSUME TypeInv, NEW w \in Writers, proc' = [proc EXCEPT ![w] = Idle],
           UNCHANGED ledger, FilesOK'
    PROVE  TypeInv'
<1>1. Aligned(Idle)
  BY DEF Aligned, Idle
<1> QED BY <1>1, IdleType, TypeStep

LEMMA SaveType ==
    ASSUME TypeInv, NEW w \in Writers, SaveState(w)
    PROVE  TypeInv'
<1> DEFINE stride == Max({1, Len(proc[w].batch)})
           last == IF proc[w].pc = "woken" THEN proc[w].expected
                                           ELSE state[w].lastWake
           new == [cursor |-> state[w].cursor + stride,
                   version |-> proc[w].expected, lastWake |-> last,
                   failed |-> FALSE]
           Files == [cursor : Nat, version : Nat, lastWake : Nat,
                     failed : BOOLEAN]
<1>1. proc[w] \in Process /\ state \in [Writers -> Files]
  BY DEF TypeInv, TypeOK
<1>2. proc[w].batch \in Seq(Item) /\ proc[w].expected \in Nat
  BY <1>1 DEF Process
<1>3. Len(proc[w].batch) \in Nat
  BY <1>2
<1>4. stride \in Nat
  BY <1>3, StrideIsNat
<1> HIDE DEF stride
<1>5. new \in Files
  BY <1>1, <1>2, <1>4
<1>6. state' = [state EXCEPT ![w] = new]
  BY DEF SaveState, stride
<1> HIDE DEF new
<1>7. state' \in [Writers -> Files]
  BY <1>1, <1>5, <1>6
<1>8. FilesOK'
  BY <1>7 DEF SaveState, TypeInv, TypeOK, FilesOK
<1> QED BY <1>8, IdleStep DEF SaveState

LEMMA EndType ==
    ASSUME TypeInv, NEW w \in Writers,
           FailCycle(w) \/ EndManual(w) \/ Crash(w)
    PROVE  TypeInv'
<1>1. FilesOK'
  <2>1. CASE FailCycle(w)
    BY <2>1 DEF FailCycle, TypeInv, TypeOK, FilesOK
  <2>2. CASE EndManual(w)
    BY <2>2 DEF EndManual, TypeInv, TypeOK, FilesOK
  <2>3. CASE Crash(w)
    BY <2>3 DEF Crash, TypeInv, TypeOK, FilesOK
  <2> QED BY <2>1, <2>2, <2>3
<1> QED BY <1>1, IdleStep DEF FailCycle, EndManual, Crash

LEMMA ChiefType ==
    ASSUME TypeInv, ChiefDecides, Version \in Nat
    PROVE  TypeInv'
<1> DEFINE id == <<None, Version>>
           e == Event(id, id, Campaign, None, clock)
           row == Row(e, Version + 1)
<1>1. events' = events \cup {row}
  BY DEF ChiefDecides, Append1
<1>2. row.agg = Campaign /\ row.version = Version + 1 /\ row.at = clock
  BY DEF Row, Event
<1> HIDE DEF row
<1>3. \A r \in events' : r.agg = Campaign /\ r.version \in Nat /\ r.at \in Nat
  BY <1>1, <1>2 DEF TypeInv, TypeOK
<1>4. TypeOK'
  BY <1>3 DEF ChiefDecides, TypeInv, TypeOK
<1> QED BY <1>4 DEF ChiefDecides, TypeInv, Aligned

LEMMA ObservationType ==
    ASSUME TypeInv, NEW o \in Observed, RecordObservation(o), Version \in Nat
    PROVE  TypeInv'
<1> DEFINE id == <<None, o.attempt, o.resp>>
           e == Event(id, id, Campaign, o, clock)
           row == Row(e, Version + 1)
           new == [obs |-> o, version |-> Version + 1]
<1>1. events' = events \cup {row} /\ observations' = observations \cup {new}
  BY DEF RecordObservation, Append1
<1>2. row.agg = Campaign /\ row.version = Version + 1 /\ row.at = clock
  BY DEF Row, Event
<1>3. new \in [obs : Observation, version : Nat]
  BY ObservedAssumption
<1> HIDE DEF row, new
<1>4. \A r \in events' : r.agg = Campaign /\ r.version \in Nat /\ r.at \in Nat
  BY <1>1, <1>2 DEF TypeInv, TypeOK
<1>5. \A r \in observations' : r \in [obs : Observation, version : Nat]
  BY <1>1, <1>3 DEF TypeInv, TypeOK
<1>6. TypeOK'
  BY <1>4, <1>5 DEF RecordObservation, TypeInv, TypeOK
<1> QED BY <1>6 DEF RecordObservation, TypeInv, Aligned

LEMMA RevokeType ==
    ASSUME TypeInv, RevokeMonitorLease
    PROVE  TypeInv'
<1>1. TypeOK'
  BY DEF RevokeMonitorLease, TypeInv, TypeOK
<1> QED BY <1>1 DEF RevokeMonitorLease, TypeInv, Aligned

LEMMA InitType == Init => TypeInv
<1> SUFFICES ASSUME Init PROVE TypeInv
  OBVIOUS
<1>1. EmptySnapshot \in SnapshotState
  BY DEF EmptySnapshot, SnapshotState
<1>2. snapshot \in [version : Nat, state : SnapshotState]
  BY <1>1 DEF Init
<1>3. proc \in [Writers -> Process]
  BY IdleType DEF Init
<1>4. state \in [Writers -> [cursor : Nat, version : Nat, lastWake : Nat,
                             failed : BOOLEAN]]
  BY DEF Init, NewState
<1>5. TypeOK
  BY <1>2, <1>3, <1>4 DEF Init, TypeOK
<1> QED BY <1>5 DEF Init, TypeInv, Aligned, Idle

-----------------------------------------------------------------------------
(* The ledger.                                                             *)

\* The strengthening: the log is numbered 1..n, not merely gapless.
LedgerInv ==
    /\ Numbered(events, Campaign)
    /\ UniqueRows(events)
    /\ RowsMatchEvents
    /\ SnapshotNeverPoisoned

\* Nothing that leaves the tables alone can disturb them.
LEMMA LedgerStutter == LedgerInv /\ UNCHANGED ledger => LedgerInv'
BY DEF LedgerInv, ledger, RowsMatchEvents, SnapshotNeverPoisoned

\* The campaign log after an append by any writer or by the Chief.
LEMMA LogStep ==
    ASSUME LedgerInv, NEW e, NEW expected \in Nat, e.agg = Campaign,
           Appends(events, e, expected), events' = Append1(events, e, expected)
    PROVE  Numbered(events', Campaign) /\ UniqueRows(events')
BY AppendNumbers, AppendUnique DEF LedgerInv

\* An item is not an observation: it has more fields.
LEMMA BodiesDisjoint == \A b \in Item : b \notin Observation
<1> SUFFICES ASSUME NEW b \in Item, b \in Observation PROVE FALSE
  OBVIOUS
<1>1. "pos" \in DOMAIN b
  BY DEF Item
<1>2. DOMAIN b = {"attempt", "resp"}
  BY DEF Observation
<1> QED BY <1>1, <1>2

LEMMA ChiefLedger ==
    ASSUME LedgerInv, ChiefDecides
    PROVE  LedgerInv'
<1> DEFINE id == <<None, Version>>
           e == Event(id, id, Campaign, None, clock)
           row == Row(e, Version + 1)
<1>1. Appends(events, e, Version) /\ events' = events \cup {row}
  BY DEF ChiefDecides, Append1
<1>2. Version \in Nat /\ e.agg = Campaign /\ row.body = None
  BY VersionIsNat DEF LedgerInv, Version, Event, Row
<1>3. Numbered(events', Campaign) /\ UniqueRows(events')
  BY <1>1, <1>2, LogStep DEF Append1
<1> HIDE DEF row
<1>4. RowsMatchEvents'
  BY <1>1, <1>2, ObservedAssumption DEF LedgerInv, RowsMatchEvents, ChiefDecides
<1> QED BY <1>3, <1>4 DEF LedgerInv, ChiefDecides, SnapshotNeverPoisoned

LEMMA ObservationLedger ==
    ASSUME LedgerInv, NEW o \in Observed, RecordObservation(o)
    PROVE  LedgerInv'
<1> DEFINE id == <<None, o.attempt, o.resp>>
           e == Event(id, id, Campaign, o, clock)
           row == Row(e, Version + 1)
           new == [obs |-> o, version |-> Version + 1]
<1>1. /\ Appends(events, e, Version)
      /\ \A r \in observations : r.obs # o
      /\ events' = events \cup {row}
      /\ observations' = observations \cup {new}
      /\ UNCHANGED <<items, snapshot>>
  BY DEF RecordObservation, Append1
<1>2. Version \in Nat
  BY VersionIsNat DEF LedgerInv, Version
<1>3. /\ e.agg = Campaign
      /\ row.body = o /\ row.version = Version + 1
      /\ new.obs = o /\ new.version = Version + 1
  BY DEF Event, Row
<1>4. Numbered(events', Campaign) /\ UniqueRows(events')
  BY <1>1, <1>2, <1>3, LogStep DEF Append1
<1>5. o \notin Item
  BY BodiesDisjoint, ObservedAssumption
<1>6. RowsMatchEvents'
  <2> HIDE DEF e, row, new
  <2>1. \A r \in items' : \E q \in events' :
           q.body = r.item /\ q.version = r.version
    BY <1>1 DEF LedgerInv, RowsMatchEvents
  <2>2. \A q \in events' : q.body \in Item => \E r \in items' :
           r.item = q.body /\ r.version = q.version
    BY <1>1, <1>3, <1>5 DEF LedgerInv, RowsMatchEvents
  <2>3. \A r, q \in items' : SameKey(r.item, q.item) => r = q
    BY <1>1 DEF LedgerInv, RowsMatchEvents
  <2>4. \A r \in observations' : \E q \in events' :
           q.body = r.obs /\ q.version = r.version
    BY <1>1, <1>3 DEF LedgerInv, RowsMatchEvents
  <2>5. \A q \in events' : q.body \in Observation => \E r \in observations' :
           r.obs = q.body /\ r.version = q.version
    BY <1>1, <1>3 DEF LedgerInv, RowsMatchEvents
  <2>6. \A r, q \in observations' : r.obs = q.obs => r = q
    BY <1>1, <1>3 DEF LedgerInv, RowsMatchEvents
  <2> QED BY <2>1, <2>2, <2>3, <2>4, <2>5, <2>6 DEF RowsMatchEvents
<1> QED BY <1>1, <1>4, <1>6 DEF LedgerInv, SnapshotNeverPoisoned

LEMMA CommitLedger ==
    ASSUME LedgerInv, TypeInv, NEW w \in Writers, CommitApplied(w)
    PROVE  LedgerInv'
<1> DEFINE item == Current(w)
           expected == proc[w].expected
           e == BatchEvent(item, proc[w].now)
           v == expected + 1
           row == Row(e, v)
           new == [item |-> item, version |-> v]
<1>1. /\ Appends(events, e, expected)
      /\ \A r \in items : ~SameKey(r.item, item)
      /\ events' = events \cup {row}
      /\ items' = items \cup {new}
      /\ snapshot' = [version |-> v, state |-> proc[w].loaded]
  BY DEF CommitApplied, Append1
<1>2. proc[w] \in Process
  BY DEF TypeInv, TypeOK
<1>3. expected \in Nat
  BY <1>2 DEF Process
<1>i. item \in Item /\ item \notin Observation
  BY CurrentType, BodiesDisjoint DEF CommitApplied
<1>4. /\ e.agg = Campaign
      /\ row.body = item /\ row.version = v
      /\ new.item = item /\ new.version = v
  BY DEF BatchEvent, Event, Row
<1>5. Numbered(events', Campaign) /\ UniqueRows(events')
  BY <1>1, <1>3, <1>4, LogStep DEF Append1
<1>6. RowsMatchEvents'
  <2> HIDE DEF item, e, v, row, new
  <2>1. \A r \in items' : \E q \in events' :
           q.body = r.item /\ q.version = r.version
    BY <1>1, <1>4 DEF LedgerInv, RowsMatchEvents
  <2>2. \A q \in events' : q.body \in Item => \E r \in items' :
           r.item = q.body /\ r.version = q.version
    BY <1>1, <1>4 DEF LedgerInv, RowsMatchEvents
  <2>3. \A r, q \in items' : SameKey(r.item, q.item) => r = q
    BY <1>1, <1>4 DEF LedgerInv, RowsMatchEvents, SameKey
  <2>4. observations' = observations
    BY DEF CommitApplied
  <2>5. \A r \in observations' : \E q \in events' :
           q.body = r.obs /\ q.version = r.version
    BY <1>1, <2>4 DEF LedgerInv, RowsMatchEvents
  <2>6. \A q \in events' : q.body \in Observation => \E r \in observations' :
           r.obs = q.body /\ r.version = q.version
    BY <1>1, <1>4, <1>i, <2>4 DEF LedgerInv, RowsMatchEvents
  <2>7. \A r, q \in observations' : r.obs = q.obs => r = q
    BY <2>4 DEF LedgerInv, RowsMatchEvents
  <2> QED BY <2>1, <2>2, <2>3, <2>5, <2>6, <2>7 DEF RowsMatchEvents
<1>7. SnapshotNeverPoisoned'
  <2>1. SnapshotValid(proc[w].loaded)
    BY DEF CommitApplied, TypeInv, Aligned
  <2> QED BY <1>1, <2>1 DEF SnapshotNeverPoisoned
<1> QED BY <1>5, <1>6, <1>7 DEF LedgerInv

LEMMA InitLedger == Init => LedgerInv
<1> SUFFICES ASSUME Init PROVE LedgerInv
  OBVIOUS
<1>1. Versions({}, Campaign) = 1..0
  BY DEF Versions
<1>2. Numbered(events, Campaign) /\ UniqueRows(events) /\ RowsMatchEvents
  BY <1>1 DEF Init, Numbered, UniqueRows, RowsMatchEvents
<1>3. SnapshotNeverPoisoned
  BY DEF Init, SnapshotNeverPoisoned, SnapshotValid, EmptySnapshot
<1> QED BY <1>2, <1>3 DEF LedgerInv

-----------------------------------------------------------------------------
Inv == TypeInv /\ LedgerInv

LEMMA InitInv == Init => Inv
BY InitType, InitLedger DEF Inv

LEMMA NextInv == Inv /\ [Next]_vars => Inv'
<1> SUFFICES ASSUME Inv, [Next]_vars PROVE Inv'
  OBVIOUS
<1> USE DEF Inv
<1>0. Version \in Nat
  BY VersionIsNat DEF LedgerInv, Version
<1>1. CASE ChiefDecides
  BY <1>0, <1>1, ChiefType, ChiefLedger
<1>o. ASSUME NEW o \in Observed, RecordObservation(o) PROVE Inv'
  BY <1>0, <1>o, ObservationType, ObservationLedger
<1>r. CASE RevokeMonitorLease
  <2>1. LedgerInv'
    BY <1>r DEF RevokeMonitorLease, LedgerInv, RowsMatchEvents,
                SnapshotNeverPoisoned
  <2> QED BY <1>r, <2>1, RevokeType
<1>2. ASSUME NEW w \in Writers, WriterStep(w) \/ Crash(w) PROVE Inv'
  <2>1. CASE StartCycle(w)
    BY <2>1, StartType, LedgerStutter DEF StartCycle
  <2>2. CASE ReplayManifest(w)
    BY <1>0, <2>2, ReplayType, LedgerStutter DEF ReplayManifest
  <2>3. CASE LoadAndReduce(w)
    BY <2>3, LoadType, LedgerStutter DEF LoadAndReduce
  <2>4. CASE CommitApplied(w)
    BY <2>4, CommitType, CommitLedger
  <2>5. CASE CommitRefused(w)
    <3>1. FilesOK'
      BY <2>5 DEF CommitRefused, TypeInv, TypeOK, FilesOK
    <3> QED BY <2>5, <3>1, MoveType, LedgerStutter DEF CommitRefused
  <2>6. CASE SkipItem(w)
    BY <2>6, SkipType, LedgerStutter DEF SkipItem
  <2>7. CASE WriteWake(w)
    BY <2>7, WakeType, LedgerStutter DEF WriteWake
  <2>8. CASE SaveState(w)
    BY <2>8, SaveType, LedgerStutter DEF SaveState
  <2>9. CASE FailCycle(w) \/ EndManual(w) \/ Crash(w)
    BY <2>9, EndType, LedgerStutter DEF FailCycle, EndManual, Crash
  <2> QED BY <1>2, <2>1, <2>2, <2>3, <2>4, <2>5, <2>6, <2>7, <2>8, <2>9
          DEF WriterStep
<1>3. CASE UNCHANGED vars
  <2>1. UNCHANGED ledger
    BY <1>3 DEF vars, ledger
  <2>2. TypeInv'
    BY <1>3 DEF vars, TypeInv, TypeOK, Aligned
  <2> QED BY <2>1, <2>2, LedgerStutter
<1> QED BY <1>1, <1>o, <1>r, <1>2, <1>3 DEF Next

LEMMA InvInvariant == Spec => []Inv
BY InitInv, NextInv, PTL DEF Spec

\* The tables, the files and the writers stay well typed.
THEOREM TypeCorrect == Spec => []TypeOK
<1>1. Inv => TypeOK
  BY DEF Inv, TypeInv
<1> QED BY <1>1, InvInvariant, PTL

\* However many writers race, the campaign's versions are 1..n, each used once.
THEOREM LogIntact == Spec => []EventLogIntact
<1>1. Inv => EventLogIntact
  BY NumberedContiguous DEF Inv, LedgerInv, EventLogIntact
<1> QED BY <1>1, InvInvariant, PTL

\* Item and observation rows correspond one to one to their events, for ever.
THEOREM RowsAudited == Spec => []RowsMatchEvents
<1>1. Inv => RowsMatchEvents
  BY DEF Inv, LedgerInv
<1> QED BY <1>1, InvInvariant, PTL

\* No interleaving of stale reads stores a snapshot apply() would refuse.
THEOREM SnapshotStaysValid == Spec => []SnapshotNeverPoisoned
<1>1. Inv => SnapshotNeverPoisoned
  BY DEF Inv, LedgerInv
<1> QED BY <1>1, InvInvariant, PTL

-----------------------------------------------------------------------------
(* Replaying the item rows.                                                *)

\* upTo is the recursive function of Rebuilt.
RebuiltBy(upTo, rows, n) ==
    upTo = [v \in 0..n |-> IF v = 0 THEN EmptySnapshot
                           ELSE ReplayVersion(upTo[v - 1], rows, v)]

LEMMA RebuiltExists ==
    ASSUME NEW rows
    PROVE  \A n \in Nat : \E f : RebuiltBy(f, rows, n)
<1> DEFINE S == {n \in Nat : \E f : RebuiltBy(f, rows, n)}
<1>1. 0 \in S
  <2> DEFINE f == [v \in 0..0 |-> EmptySnapshot]
  <2>1. RebuiltBy(f, rows, 0)
    BY DEF RebuiltBy
  <2> QED BY <2>1
<1>2. ASSUME NEW n \in Nat, n \in S PROVE n + 1 \in S
  <2>1. PICK f : RebuiltBy(f, rows, n)
    BY <1>2
  <2> DEFINE g == [v \in 0..n + 1 |-> IF v <= n THEN f[v]
                                      ELSE ReplayVersion(f[n], rows, n + 1)]
  <2>2. \A v \in 0..n : f[v] = IF v = 0 THEN EmptySnapshot
                               ELSE ReplayVersion(f[v - 1], rows, v)
    BY <2>1 DEF RebuiltBy
  <2>3. \A v \in 0..n + 1 : g[v] = IF v = 0 THEN EmptySnapshot
                                   ELSE ReplayVersion(g[v - 1], rows, v)
    BY <2>2
  <2>4. RebuiltBy(g, rows, n + 1)
    BY <2>3 DEF RebuiltBy
  <2> QED BY <2>4
<1> HIDE DEF S
<1>3. Nat \subseteq S
  BY <1>1, <1>2, NumberInduction
<1> QED BY <1>3 DEF S

LEMMA RebuiltIs ==
    ASSUME NEW rows, NEW n \in Nat
    PROVE  \E f : RebuiltBy(f, rows, n) /\ Rebuilt(rows, n) = f[n]
BY RebuiltExists DEF Rebuilt, RebuiltBy

\* Rows with the same items up to n are replayed to the same snapshot.
LEMMA RebuiltAgree ==
    ASSUME NEW rows, NEW new, NEW n \in Nat, NEW m \in Nat, n <= m,
           \A v \in 1..n : ItemAt(rows, v) = ItemAt(new, v),
           NEW f, RebuiltBy(f, rows, n), NEW g, RebuiltBy(g, new, m)
    PROVE  f[n] = g[n]
<1> DEFINE S == {v \in Nat : v <= n => f[v] = g[v]}
<1>1. 0 \in S
  BY DEF RebuiltBy
<1>2. ASSUME NEW v \in Nat, v \in S PROVE v + 1 \in S
  <2> SUFFICES ASSUME v + 1 <= n PROVE f[v + 1] = g[v + 1]
    OBVIOUS
  <2>1. f[v] = g[v]
    BY <1>2
  <2>2. f[v + 1] = ReplayVersion(f[v], rows, v + 1)
        /\ g[v + 1] = ReplayVersion(g[v], new, v + 1)
    BY DEF RebuiltBy
  <2>3. ItemAt(rows, v + 1) = ItemAt(new, v + 1)
    OBVIOUS
  <2> QED BY <2>1, <2>2, <2>3 DEF ReplayVersion
<1> HIDE DEF S
<1>3. n \in S
  BY <1>1, <1>2, NumberInduction
<1> QED BY <1>3 DEF S

\* One more version: what its item, if any, makes of the snapshot so far.
LEMMA RebuiltNext ==
    ASSUME NEW rows, NEW new, NEW n \in Nat,
           \A v \in 1..n : ItemAt(rows, v) = ItemAt(new, v)
    PROVE  Rebuilt(new, n + 1) = ReplayVersion(Rebuilt(rows, n), new, n + 1)
<1>1. PICK f : RebuiltBy(f, rows, n) /\ Rebuilt(rows, n) = f[n]
  BY RebuiltIs
<1>2. PICK g : RebuiltBy(g, new, n + 1) /\ Rebuilt(new, n + 1) = g[n + 1]
  BY RebuiltIs
<1>3. f[n] = g[n]
  BY <1>1, <1>2, RebuiltAgree
<1>4. g[n + 1] = ReplayVersion(g[n], new, n + 1)
  BY <1>2 DEF RebuiltBy
<1> QED BY <1>1, <1>2, <1>3, <1>4

\* Versions without items change nothing.
LEMMA RebuiltStop ==
    ASSUME NEW rows, NEW n \in Nat, NEW m \in Nat, n <= m,
           \A v \in Nat : n < v /\ v <= m => ItemAt(rows, v) = {}
    PROVE  Rebuilt(rows, m) = Rebuilt(rows, n)
<1> DEFINE S == {k \in Nat : n + k <= m => Rebuilt(rows, n + k) = Rebuilt(rows, n)}
<1>1. 0 \in S
  OBVIOUS
<1>2. ASSUME NEW k \in Nat, k \in S PROVE k + 1 \in S
  <2> SUFFICES ASSUME n + (k + 1) <= m
               PROVE  Rebuilt(rows, n + (k + 1)) = Rebuilt(rows, n)
    OBVIOUS
  <2> DEFINE h == n + k
  <2>1. h \in Nat /\ h + 1 = n + (k + 1) /\ h <= m /\ n < h + 1 /\ h + 1 <= m
    OBVIOUS
  <2>2. Rebuilt(rows, h) = Rebuilt(rows, n)
    BY <1>2, <2>1
  <2> HIDE DEF h
  <2>3. Rebuilt(rows, h + 1) = ReplayVersion(Rebuilt(rows, h), rows, h + 1)
    BY <2>1, RebuiltNext
  <2>4. ItemAt(rows, h + 1) = {}
    BY <2>1
  <2>5. Rebuilt(rows, h + 1) = Rebuilt(rows, n)
    BY <2>2, <2>3, <2>4 DEF ReplayVersion
  <2> QED BY <2>1, <2>5
<1> HIDE DEF S
<1>3. m - n \in Nat
  OBVIOUS
<1>4. m - n \in S
  BY <1>1, <1>2, <1>3, NumberInduction
<1> QED BY <1>3, <1>4 DEF S

LEMMA RebuiltFirst == \A rows : Rebuilt(rows, 0) = EmptySnapshot
BY RebuiltIs DEF RebuiltBy

-----------------------------------------------------------------------------
(* What a fold keeps.                                                      *)

LEMMA FoldKeeps ==
    ASSUME NEW s \in SnapshotState, NEW item \in Item, NEW now,
           ApplyOutcome(s, item, now) = "applied"
    PROVE  LET t == Folded(s, item) IN
           /\ t.seen = s.seen \cup {item}
           /\ t.cursor # None /\ (s.cursor # None => s.cursor <= t.cursor)
           /\ \A a \in Attempts : s.attempts[a] # None =>
                 /\ t.attempts[a] # None
                 /\ s.attempts[a].at <= t.attempts[a].at
                 /\ s.attempts[a].confirmed # None
                       => t.attempts[a].confirmed # None
                 /\ s.attempts[a].facts.basis # None
                       => t.attempts[a].facts.basis # None
           /\ item.facts.basis # None =>
                 /\ t.attempts[item.attempt] # None
                 /\ t.attempts[item.attempt].facts.basis # None
<1> DEFINE old == s.attempts[item.attempt]
           fact ==
             [state     |-> IF item.kind = "observation" THEN "confirmed"
                                                         ELSE "unknown",
              cursor    |-> item.pos,
              resp      |-> item.resp,
              at        |-> item.at,
              confirmed |-> IF item.kind = "observation" THEN item.resp
                            ELSE IF old = None THEN None ELSE old.confirmed,
              facts     |-> IF old = None THEN item.facts
                                      ELSE MergeInto(item.facts, old.facts)]
           t == Folded(s, item)
<1>1. /\ item.attempt \in Attempts /\ item.resp \in Responses
      /\ item.pos \in Nat /\ item.at \in Nat /\ item.facts \in Facts
  BY DEF Item
<1>2. old = None \/ old \in AttemptFact
  BY <1>1 DEF SnapshotState
<1>3. /\ t.cursor = item.pos /\ t.seen = s.seen \cup {item}
      /\ t.attempts = [s.attempts EXCEPT ![item.attempt] = fact]
  BY DEF Folded
<1>4. /\ fact.at = item.at /\ fact.facts = IF old = None THEN item.facts
                                       ELSE MergeInto(item.facts, old.facts)
      /\ fact.confirmed = IF item.kind = "observation" THEN item.resp
                          ELSE IF old = None THEN None ELSE old.confirmed
  OBVIOUS
<1>5. fact \in AttemptFact
  <2>1. fact.facts \in Facts
    BY <1>1, <1>2, MergeType DEF AttemptFact
  <2> QED BY <1>1, <1>2, <2>1 DEF AttemptFact
<1> HIDE DEF fact, t
<1>6. s.attempts \in [Attempts -> AttemptFact \cup {None}]
      /\ s.cursor \in Nat \cup {None}
  BY DEF SnapshotState
<1>7. t.attempts[item.attempt] = fact
      /\ \A a \in Attempts \ {item.attempt} : t.attempts[a] = s.attempts[a]
  BY <1>1, <1>3, <1>6
<1>8. fact # None
  BY <1>5, ObservedAssumption
<1>9. /\ s.cursor # None => ~(item.pos < s.cursor)
      /\ old # None => ~(item.at < old.at)
  BY DEF ApplyOutcome
<1>10. old # None =>
        /\ old.at <= fact.at
        /\ old.confirmed # None => fact.confirmed # None
        /\ old.facts.basis # None => fact.facts.basis # None
  <2> SUFFICES ASSUME old # None
               PROVE  /\ old.at <= fact.at
                      /\ old.confirmed # None => fact.confirmed # None
                      /\ old.facts.basis # None => fact.facts.basis # None
    OBVIOUS
  <2>1. old.at \in Nat /\ old.facts \in Facts
    BY <1>2 DEF AttemptFact
  <2>2. old.at <= fact.at
    BY <1>1, <1>4, <1>9, <2>1
  <2>3. old.confirmed # None => fact.confirmed # None
    BY <1>1, <1>4, ObservedAssumption
  <2>4. "basis" \in DOMAIN old.facts
    BY <2>1 DEF Facts
  <2>5. old.facts.basis # None => fact.facts.basis # None
    BY <1>4, <2>4 DEF MergeInto
  <2> QED BY <2>2, <2>3, <2>5
<1>11. item.facts.basis # None => fact.facts.basis # None
  <2>1. old # None => "basis" \in DOMAIN old.facts
    BY <1>2 DEF AttemptFact, Facts
  <2> QED BY <1>4, <2>1 DEF MergeInto
<1>12. t.cursor # None
  BY <1>1, <1>3, ObservedAssumption
<1>13. s.cursor # None => s.cursor <= t.cursor
  BY <1>1, <1>3, <1>6, <1>9
<1>14. ASSUME NEW a \in Attempts, s.attempts[a] # None
       PROVE  /\ t.attempts[a] # None
              /\ s.attempts[a].at <= t.attempts[a].at
              /\ s.attempts[a].confirmed # None => t.attempts[a].confirmed # None
              /\ s.attempts[a].facts.basis # None
                    => t.attempts[a].facts.basis # None
  <2>1. CASE a = item.attempt
    BY <1>7, <1>8, <1>10, <1>14, <2>1
  <2>2. CASE a # item.attempt
    <3>1. s.attempts[a].at \in Nat
      BY <1>6, <1>14 DEF AttemptFact
    <3> QED BY <1>7, <1>14, <2>2, <3>1
  <2> QED BY <2>1, <2>2
<1> QED BY <1>3, <1>7, <1>8, <1>11, <1>12, <1>13, <1>14 DEF t

-----------------------------------------------------------------------------
(* The snapshot.  A writer loads it and replaces it later by the fold of   *)
(* its item into what it loaded, whatever others have recorded by then.    *)

\* The rows up to a version, without those that are skipped.
Until(rows, skipped, n) ==
    {row \in rows : row.version \notin skipped /\ row.version <= n}

PenaltiesKept(rows, s) ==
    \A p \in rows : /\ s.attempts[p.attempt] # None
                    /\ s.attempts[p.attempt].facts.basis # None

\* What a writer loaded, rebuilt from the item rows as they are now.
Origin(p, rows) == Rebuilt(Until(rows, p.skipped, p.base), p.base)

\* It carries the fold of its item into the snapshot it loaded, which is the
\* present one unless somebody has written since.
Carries(p, rows, pens) ==
    LET s == Origin(p, rows) IN
    /\ s \in SnapshotState
    /\ p.loaded = Folded(s, p.batch[p.index])
    /\ ApplyOutcome(s, p.batch[p.index], p.now) = "applied"
    /\ PenaltiesKept(Until(pens, p.skipped, p.base), s)

BasedOn(p, version, lost) ==
    /\ p.base <= version
    /\ p.base = version => p.skipped = lost
    /\ \A n \in p.skipped : n < p.base

Pending(p, rows, pens, version, lost) ==
    p.pc = "reduced" /\ p.outcome = "applied" =>
        Carries(p, rows, pens) /\ BasedOn(p, version, lost)

\* The snapshot's version is the latest item's, which is never overtaken.
LatestItem ==
    /\ \A row \in items : row.version <= snapshot.version
    /\ snapshot.version = 0 \/ \E row \in items : row.version = snapshot.version
    /\ \A n \in overtaken : n < snapshot.version
    /\ \A p \in penalties : \E row \in items : row.version = p.version

SnapshotRebuilt ==
    snapshot.state =
        Rebuilt(Until(items, overtaken, snapshot.version), snapshot.version)

SnapInv ==
    /\ LatestItem /\ SnapshotRebuilt
    /\ PenaltiesKept(Until(penalties, overtaken, snapshot.version), snapshot.state)
    /\ \A w \in Writers :
          Pending(proc[w], items, penalties, snapshot.version, overtaken)

\* An item's version is one of the log.
LEMMA ItemsBounded ==
    ASSUME Inv
    PROVE  Version \in Nat /\ \A row \in items : row.version \in 1..Version
<1>1. Numbered(events, Campaign) /\ Version \in Nat
  BY VersionIsNat DEF Inv, LedgerInv, Version
<1>2. ASSUME NEW row \in items PROVE row.version \in 1..Version
  <2>1. PICK r \in events : r.version = row.version
    BY DEF Inv, LedgerInv, RowsMatchEvents
  <2>2. r.agg = Campaign
    BY DEF Inv, TypeInv, TypeOK
  <2> QED BY <1>1, <2>1, <2>2, VersionsBounded DEF Version
<1> QED BY <1>1, <1>2

\* A step of one process that leaves the tables alone.
LEMMA SnapStep ==
    ASSUME Inv, SnapInv, NEW w \in Writers, NEW q,
           proc' = [proc EXCEPT ![w] = q], UNCHANGED ledger,
           Pending(q, items, penalties, snapshot.version, overtaken)
    PROVE  SnapInv'
<1>1. proc \in [Writers -> Process]
  BY DEF Inv, TypeInv, TypeOK
<1>2. proc'[w] = q /\ \A v \in Writers \ {w} : proc'[v] = proc[v]
  BY <1>1
<1>3. snapshot' = snapshot /\ items' = items /\ penalties' = penalties
      /\ overtaken' = overtaken
  BY DEF ledger
<1>4. \A v \in Writers :
         Pending(proc'[v], items, penalties, snapshot.version, overtaken)
  BY <1>2 DEF SnapInv
<1>5. LatestItem' /\ SnapshotRebuilt'
  BY <1>3 DEF SnapInv, LatestItem, SnapshotRebuilt
<1> QED BY <1>3, <1>4, <1>5 DEF SnapInv

\* Rows that come later are not among those up to n.
LEMMA UntilGrows ==
    ASSUME NEW rows, NEW more, NEW skipped, NEW n \in Nat, NEW m \in Nat, n < m,
           \A row \in more : row \in rows \/ row.version = m,
           rows \subseteq more
    PROVE  Until(more, skipped, n) = Until(rows, skipped, n)
BY DEF Until

\* The transaction of an applied item.
LEMMA SnapCommit ==
    ASSUME Inv, SnapInv, NEW w \in Writers, CommitApplied(w)
    PROVE  SnapInv'
<1> DEFINE p == proc[w]  item == Current(w)  x == p.expected
           s == Origin(p, items)  t == Folded(s, item)
           e == BatchEvent(item, p.now)
           new == [item |-> item, version |-> x + 1]
           old == Until(items, p.skipped, p.base)
<1>1. /\ p.pc = "reduced" /\ p.outcome = "applied"
      /\ Appends(events, e, x)
      /\ items' = items \cup {new}
      /\ snapshot' = [version |-> x + 1, state |-> p.loaded]
      /\ overtaken' = p.skipped \cup
            {row.version : row \in {r \in items : r.version > p.base}}
      /\ penalties' =
           IF item.facts.basis = None THEN penalties
           ELSE penalties \cup
                  {[attempt |-> item.attempt, resp |-> item.resp,
                    rewritten |-> item.facts.basis, version |-> x + 1]}
      /\ proc' = [proc EXCEPT ![w] = Advanced(p, x + 1)]
  BY DEF CommitApplied
<1>2. proc \in [Writers -> Process]
  BY DEF Inv, TypeInv, TypeOK
<1>3. p \in Process
  BY <1>2
<1>4. x \in Nat /\ p.base \in Nat /\ p.skipped \subseteq Nat
  BY <1>3 DEF Process
<1>5. item \in Item
  BY <1>1, CurrentType DEF Inv
<1>6. snapshot.version \in Nat
  BY DEF Inv, TypeInv, TypeOK
<1>7. x = Version
  <2>1. e.agg = Campaign
    BY DEF BatchEvent, Event
  <2> QED BY <1>1, <2>1 DEF Appends, Version
<1>8. \A row \in items : row.version \in 1..x
  BY <1>7, ItemsBounded
<1>9. snapshot.version <= x
  BY <1>4, <1>8 DEF SnapInv, LatestItem
<1>10. Pending(p, items, penalties, snapshot.version, overtaken)
  BY DEF SnapInv
<1>11. Carries(p, items, penalties) /\ BasedOn(p, snapshot.version, overtaken)
  BY <1>1, <1>10 DEF Pending
<1>12. p.base <= x /\ \A n \in p.skipped : n < p.base
  BY <1>4, <1>6, <1>9, <1>11 DEF BasedOn
<1>13. /\ s \in SnapshotState /\ p.loaded = t
       /\ ApplyOutcome(s, item, p.now) = "applied"
       /\ PenaltiesKept(Until(penalties, p.skipped, p.base), s)
  BY <1>11 DEF Carries, Current
<1>14. new.item = item /\ new.version = x + 1
  OBVIOUS
<1>15. snapshot'.state = t /\ snapshot'.version = x + 1
  BY <1>1, <1>13
<1>16. s = Rebuilt(old, p.base)
  BY DEF Origin
<1>17. \A q \in penalties' : q \in penalties \/
          (q.version = x + 1 /\ q.attempt = item.attempt /\ item.facts.basis # None)
  BY <1>1
<1>18. penalties \subseteq penalties'
  BY <1>1
<1> HIDE DEF new, e, item, x, s, t, old, p
<1>19. \A n \in overtaken' : n <= x
  BY <1>1, <1>4, <1>8, <1>12
<1>20. Until(items', overtaken', x + 1) = old \cup {new}
  <2>1. \A row \in items : row \in Until(items', overtaken', x + 1) <=> row \in old
    <3> SUFFICES ASSUME NEW row \in items
                 PROVE  row \in Until(items', overtaken', x + 1) <=> row \in old
      OBVIOUS
    <3>1. row.version \in Nat /\ row.version <= x + 1
      BY <1>4, <1>8
    <3>2. row.version > p.base => row.version \in overtaken'
      BY <1>1
    <3>3. row.version <= p.base =>
             (row.version \in overtaken' <=> row.version \in p.skipped)
      BY <1>1, <1>4, <1>8
    <3>4. row \in old <=> row.version \notin p.skipped /\ row.version <= p.base
      BY DEF old, Until
    <3>5. row \in Until(items', overtaken', x + 1) <=> row.version \notin overtaken'
      BY <1>1, <3>1 DEF Until
    <3> QED BY <1>4, <3>1, <3>2, <3>3, <3>4, <3>5
  <2>2. new \in Until(items', overtaken', x + 1)
    BY <1>1, <1>4, <1>14, <1>19 DEF Until
  <2>3. old \subseteq items
    BY DEF old, Until
  <2>4. Until(items', overtaken', x + 1) \subseteq items \cup {new}
    BY <1>1 DEF Until
  <2> QED BY <2>1, <2>2, <2>3, <2>4
<1>21. SnapshotRebuilt'
  <2> DEFINE live == old \cup {new}
  <2>0. \A row \in old : row.version \in Nat /\ row.version <= p.base
    BY <1>8, <1>4 DEF old, Until
  <2>1. \A v \in 1..x : ItemAt(old, v) = ItemAt(live, v)
    BY <1>4, <1>14 DEF ItemAt
  <2>2. ItemAt(live, x + 1) = {item}
    BY <1>4, <1>12, <1>14, <2>0 DEF ItemAt
  <2>3. \A v \in Nat : p.base < v /\ v <= x => ItemAt(old, v) = {}
    BY <1>4, <2>0 DEF ItemAt
  <2> HIDE DEF live
  <2>4. Rebuilt(live, x + 1) = ReplayVersion(Rebuilt(old, x), live, x + 1)
    BY <1>4, <2>1, RebuiltNext
  <2>5. Rebuilt(old, x) = s
    BY <1>4, <1>12, <1>16, <2>3, RebuiltStop
  <2>6. (CHOOSE i \in {item} : TRUE) = item
    OBVIOUS
  <2>7. Rebuilt(live, x + 1) = t
    BY <2>2, <2>4, <2>5, <2>6 DEF ReplayVersion, t
  <2> QED BY <1>15, <1>20, <2>7 DEF SnapshotRebuilt, live
<1>22. LatestItem'
  <2>1. \A row \in items' : row.version <= snapshot'.version
    BY <1>1, <1>4, <1>8, <1>14, <1>15
  <2>2. \E row \in items' : row.version = snapshot'.version
    BY <1>1, <1>14, <1>15
  <2>3. \A n \in overtaken' : n < snapshot'.version
    <3>1. overtaken' \subseteq Nat
      BY <1>1, <1>4, <1>8
    <3>2. \A n \in Nat : n <= x => n < x + 1
      BY <1>4
    <3> QED BY <1>15, <1>19, <3>1, <3>2, Zenon
  <2>4. \A q \in penalties' : \E row \in items' : row.version = q.version
    BY <1>1, <1>14, <1>17 DEF SnapInv, LatestItem
  <2> QED BY <2>1, <2>2, <2>3, <2>4 DEF LatestItem
<1>k. LET u == Folded(s, item) IN
         /\ \A a \in Attempts : s.attempts[a] # None =>
               /\ u.attempts[a] # None
               /\ s.attempts[a].facts.basis # None
                     => u.attempts[a].facts.basis # None
         /\ item.facts.basis # None =>
               /\ u.attempts[item.attempt] # None
               /\ u.attempts[item.attempt].facts.basis # None
  BY <1>5, <1>13, FoldKeeps
<1>23. PenaltiesKept(Until(penalties', overtaken', x + 1), t)
  <2> SUFFICES ASSUME NEW q \in Until(penalties', overtaken', x + 1)
               PROVE  /\ t.attempts[q.attempt] # None
                      /\ t.attempts[q.attempt].facts.basis # None
    BY DEF PenaltiesKept
  <2>1. q \in penalties' /\ q.version \notin overtaken'
    BY DEF Until
  <2>2. CASE q \in penalties
    <3>1. PICK row \in items : row.version = q.version
      BY <2>2 DEF SnapInv, LatestItem
    <3>2. q.version \in Nat /\ q.version <= p.base /\ q.version \notin p.skipped
      BY <1>1, <1>4, <1>8, <2>1, <3>1
    <3>3. q \in Until(penalties, p.skipped, p.base)
      BY <2>2, <3>2 DEF Until
    <3>4. q.attempt \in Attempts
      BY <2>2 DEF Inv, TypeInv, TypeOK
    <3>5. s.attempts[q.attempt] # None /\ s.attempts[q.attempt].facts.basis # None
      BY <1>13, <3>3 DEF PenaltiesKept
    <3> QED BY <1>k, <3>4, <3>5 DEF t
  <2>3. CASE q.attempt = item.attempt /\ item.facts.basis # None
    BY <1>k, <2>3 DEF t
  <2> QED BY <1>17, <2>1, <2>2, <2>3
<1>24. \A v \in Writers :
          Pending(proc'[v], items', penalties', snapshot'.version, overtaken')
  <2>2. proc'[w] = Advanced(p, x + 1)
    BY <1>1, <1>2
  <2>3. proc'[w].pc \in {"complete", "item"}
    BY <1>3, <2>2 DEF Advanced, Advance, Process
  <2>4. ASSUME NEW v \in Writers, v # w
        PROVE  Pending(proc'[v], items', penalties', snapshot'.version, overtaken')
    <3> DEFINE r == proc[v]
    <3>1. proc'[v] = r /\ r \in Process
      BY <1>1, <1>2, <2>4
    <3>2. r.base \in Nat /\ Pending(r, items, penalties, snapshot.version, overtaken)
      BY <3>1 DEF SnapInv, Process
    <3> HIDE DEF r
    <3> SUFFICES ASSUME r.pc = "reduced", r.outcome = "applied"
                 PROVE  Carries(r, items', penalties')
                        /\ BasedOn(r, snapshot'.version, overtaken')
      BY <3>1 DEF Pending
    <3>3. Carries(r, items, penalties)
          /\ BasedOn(r, snapshot.version, overtaken)
      BY <3>2 DEF Pending
    <3>4. r.base < x + 1 /\ x + 1 \in Nat
      BY <1>4, <1>6, <1>9, <3>2, <3>3 DEF BasedOn
    <3>5. Until(items', r.skipped, r.base) = Until(items, r.skipped, r.base)
      <4>1. \A row \in items' : row \in items \/ row.version = x + 1
        BY <1>1, <1>14
      <4>2. items \subseteq items'
        BY <1>1
      <4> QED BY <3>2, <3>4, <4>1, <4>2, UntilGrows
    <3>6. Until(penalties', r.skipped, r.base) = Until(penalties, r.skipped, r.base)
      <4>1. \A row \in penalties' : row \in penalties \/ row.version = x + 1
        BY <1>17
      <4> QED BY <1>18, <3>2, <3>4, <4>1, UntilGrows
    <3>7. Carries(r, items', penalties')
      BY <3>3, <3>5, <3>6 DEF Carries, Origin
    <3>8. BasedOn(r, snapshot'.version, overtaken')
      BY <1>15, <3>2, <3>3, <3>4 DEF BasedOn
    <3> QED BY <3>7, <3>8
  <2> QED BY <2>3, <2>4 DEF Pending
<1> QED BY <1>15, <1>21, <1>22, <1>23, <1>24 DEF SnapInv

\* The reducer reads the snapshot.
LEMMA SnapLoad ==
    ASSUME Inv, SnapInv, NEW w \in Writers, LoadAndReduce(w)
    PROVE  SnapInv'
<1> DEFINE s == snapshot.state
           item == Current(w)
           outcome == ApplyOutcome(s, item, proc[w].now)
           next == IF outcome = "applied" THEN Folded(s, item) ELSE None
           pc == IF outcome = "error" THEN "failed" ELSE "reduced"
           q == [proc[w] EXCEPT !.pc = pc, !.outcome = outcome, !.loaded = next,
                                !.base = snapshot.version, !.skipped = overtaken]
<1>1. proc[w] \in Process /\ s \in SnapshotState /\ snapshot.version \in Nat
  BY DEF Inv, TypeInv, TypeOK
<1>2. proc' = [proc EXCEPT ![w] = q] /\ UNCHANGED ledger
  BY DEF LoadAndReduce
<1>3. /\ q.index = proc[w].index /\ q.batch = proc[w].batch
      /\ q.now = proc[w].now /\ q.outcome = outcome /\ q.loaded = next
      /\ q.base = snapshot.version /\ q.skipped = overtaken
  BY <1>1 DEF Process
<1>4. outcome = "applied" => next = Folded(s, item)
  OBVIOUS
<1>5. item = q.batch[q.index]
  BY <1>3 DEF Current
<1> HIDE DEF q, next
<1>6. Origin(q, items) = s
  BY <1>3 DEF Origin, SnapInv, SnapshotRebuilt
<1>7. q.outcome = "applied" => Carries(q, items, penalties)
  BY <1>1, <1>3, <1>4, <1>5, <1>6 DEF Carries, SnapInv
<1>8. BasedOn(q, snapshot.version, overtaken)
  BY <1>1, <1>3 DEF BasedOn, SnapInv, LatestItem
<1>9. Pending(q, items, penalties, snapshot.version, overtaken)
  BY <1>7, <1>8 DEF Pending
<1> QED BY <1>2, <1>9, SnapStep

\* The other steps of a writer carry nothing into a transaction.
LEMMA SnapMoves ==
    ASSUME Inv, SnapInv, NEW w \in Writers,
           WriterStep(w) \/ Crash(w), ~CommitApplied(w), ~LoadAndReduce(w)
    PROVE  SnapInv'
<1>0. proc[w] \in Process
  BY DEF Inv, TypeInv, TypeOK
<1>1. CASE StartCycle(w)
  <2>1. PICK resp \in Responses :
          proc' = [proc EXCEPT ![w] =
             [Idle EXCEPT !.pc = IF Items(resp, state[w].cursor, clock) = <<>>
                                 THEN "complete" ELSE "item",
                          !.mode = "scheduled",
                          !.batch = Items(resp, state[w].cursor, clock),
                          !.expected = state[w].version, !.now = clock]]
    BY <1>1 DEF StartCycle
  <2> DEFINE q == [Idle EXCEPT !.pc = IF Items(resp, state[w].cursor, clock) = <<>>
                                 THEN "complete" ELSE "item",
                          !.mode = "scheduled",
                          !.batch = Items(resp, state[w].cursor, clock),
                          !.expected = state[w].version, !.now = clock]
  <2>2. q.pc \in {"complete", "item"}
    BY DEF Idle
  <2>3. proc' = [proc EXCEPT ![w] = q] /\ UNCHANGED ledger
    BY <1>1, <2>1 DEF StartCycle
  <2> HIDE DEF q
  <2> QED BY <2>2, <2>3, SnapStep DEF Pending
<1>2. CASE ReplayManifest(w)
  <2>1. PICK batch \in manifests \ {<<>>}, v \in {snapshot.version, Version} :
          proc' = [proc EXCEPT ![w] =
             [Idle EXCEPT !.pc = "item", !.mode = "manual", !.batch = batch,
                          !.expected = v, !.now = clock]]
    BY <1>2 DEF ReplayManifest
  <2> DEFINE q == [Idle EXCEPT !.pc = "item", !.mode = "manual", !.batch = batch,
                               !.expected = v, !.now = clock]
  <2>2. q.pc = "item"
    BY DEF Idle
  <2>3. proc' = [proc EXCEPT ![w] = q] /\ UNCHANGED ledger
    BY <1>2, <2>1 DEF ReplayManifest
  <2> HIDE DEF q
  <2> QED BY <2>2, <2>3, SnapStep DEF Pending
<1>3. ASSUME NEW pc \in {"failed", "woken"}, proc' = [proc EXCEPT ![w].pc = pc],
             UNCHANGED ledger
      PROVE  SnapInv'
  <2> DEFINE q == [proc[w] EXCEPT !.pc = pc]
  <2>1. q.pc = pc
    BY <1>0 DEF Process
  <2>2. proc' = [proc EXCEPT ![w] = q]
    BY <1>3
  <2> HIDE DEF q
  <2> QED BY <1>3, <2>1, <2>2, SnapStep DEF Pending
<1>4. CASE CommitRefused(w)
  BY <1>3, <1>4 DEF CommitRefused
<1>5. CASE SkipItem(w)
  <2>1. CASE proc' = [proc EXCEPT ![w] = Advance(proc[w])]
    <3>1. Advance(proc[w]).pc \in {"complete", "item"}
      BY <1>0 DEF Advance, Process
    <3> QED BY <1>5, <2>1, <3>1, SnapStep DEF SkipItem, Pending
  <2>2. CASE proc' = [proc EXCEPT ![w].pc = "failed"]
    BY <1>3, <1>5, <2>2 DEF SkipItem
  <2> QED BY <1>5, <2>1, <2>2 DEF SkipItem
<1>6. CASE WriteWake(w)
  BY <1>3, <1>6 DEF WriteWake
<1>7. CASE SaveState(w) \/ FailCycle(w) \/ EndManual(w) \/ Crash(w)
  <2>1. proc' = [proc EXCEPT ![w] = Idle] /\ UNCHANGED ledger
    BY <1>7 DEF SaveState, FailCycle, EndManual, Crash
  <2>2. Idle.pc = "idle"
    BY DEF Idle
  <2> QED BY <2>1, <2>2, SnapStep DEF Pending
<1> QED BY <1>1, <1>2, <1>4, <1>5, <1>6, <1>7 DEF WriterStep

LEMMA SnapInit == Init => SnapInv
<1> SUFFICES ASSUME Init PROVE SnapInv
  OBVIOUS
<1>1. SnapshotRebuilt
  BY RebuiltFirst DEF Init, SnapshotRebuilt
<1>2. LatestItem
  BY DEF Init, LatestItem
<1>3. \A w \in Writers :
         Pending(proc[w], items, penalties, snapshot.version, overtaken)
  BY DEF Init, Pending, Idle
<1>4. PenaltiesKept(Until(penalties, overtaken, snapshot.version), snapshot.state)
  BY DEF Init, PenaltiesKept, Until
<1> QED BY <1>1, <1>2, <1>3, <1>4 DEF SnapInv

LEMMA SnapNext ==
    ASSUME Inv, SnapInv, [Next]_vars
    PROVE  SnapInv'
<1>1. CASE ChiefDecides \/ RevokeMonitorLease \/ UNCHANGED vars
           \/ \E o \in Observed : RecordObservation(o)
  <2>1. UNCHANGED <<snapshot, items, penalties, overtaken, proc>>
    BY <1>1 DEF ChiefDecides, RevokeMonitorLease, RecordObservation, vars
  <2> QED BY <2>1 DEF SnapInv, LatestItem, SnapshotRebuilt
<1>2. ASSUME NEW w \in Writers, WriterStep(w) \/ Crash(w) PROVE SnapInv'
  BY <1>2, SnapCommit, SnapLoad, SnapMoves
<1> QED BY <1>1, <1>2 DEF Next

LEMMA SnapInvariant == Spec => [](Inv /\ SnapInv)
<1>1. Init => Inv /\ SnapInv
  BY InitInv, SnapInit
<1>2. Inv /\ SnapInv /\ [Next]_vars => (Inv /\ SnapInv)'
  BY NextInv, SnapNext
<1> QED BY <1>1, <1>2, PTL DEF Spec

\* With any number of writers the snapshot is what the audit rows rebuild,
\* except the rows that a writer who had loaded before wrote over.
THEOREM SnapshotReplayed == Spec => []SnapshotIsReplay
<1>1. Inv /\ SnapInv => SnapshotIsReplay
  <2> SUFFICES ASSUME Inv, SnapInv PROVE SnapshotIsReplay
    OBVIOUS
  <2> DEFINE n == snapshot.version
             live == {row \in items : row.version \notin overtaken}
  <2>1. Version \in Nat /\ n \in Nat /\ \A row \in items : row.version \in 1..Version
    BY ItemsBounded DEF Inv, TypeInv, TypeOK
  <2>2. \A row \in items : row.version <= n
    BY DEF SnapInv, LatestItem
  <2>3. n <= Version
    BY <2>1 DEF SnapInv, LatestItem
  <2>4. Until(items, overtaken, n) = live
    BY <2>2 DEF Until
  <2>5. \A v \in Nat : n < v /\ v <= Version => ItemAt(live, v) = {}
    BY <2>1, <2>2 DEF ItemAt
  <2>6. snapshot.state = Rebuilt(live, n)
    BY <2>4 DEF SnapInv, SnapshotRebuilt
  <2> HIDE DEF n, live
  <2>7. Rebuilt(live, Version) = Rebuilt(live, n)
    BY <2>1, <2>3, <2>5, RebuiltStop
  <2> QED BY <2>6, <2>7 DEF SnapshotIsReplay, live
<1> QED BY <1>1, SnapInvariant, PTL

\* With any number of writers a judged penalty stays in the snapshot, however
\* many pages are merged later, unless its item is overtaken.
THEOREM PenaltyKept == Spec => []PenaltyNeverForgotten
<1>1. Inv /\ SnapInv => PenaltyNeverForgotten
  <2> SUFFICES ASSUME Inv, SnapInv, NEW p \in penalties, p.version \notin overtaken
               PROVE  LET fact == snapshot.state.attempts[p.attempt] IN
                      /\ fact # None
                      /\ fact.facts.basis # None
                      /\ fact.facts.effective = fact.facts.raw - 1
    BY DEF PenaltyNeverForgotten
  <2> DEFINE fact == snapshot.state.attempts[p.attempt]
  <2>1. p.attempt \in Attempts /\ SnapshotValid(snapshot.state)
    BY DEF Inv, TypeInv, TypeOK, LedgerInv, SnapshotNeverPoisoned
  <2>2. p \in Until(penalties, overtaken, snapshot.version)
    BY DEF SnapInv, LatestItem, Until
  <2>3. fact # None /\ fact.facts.basis # None
    BY <2>2 DEF SnapInv, PenaltiesKept
  <2>4. FactsValid(fact.facts, fact.state = "confirmed")
    BY <2>1, <2>3 DEF SnapshotValid
  <2> HIDE DEF fact
  <2>5. fact.facts.effective = fact.facts.raw - 1
    BY <2>3, <2>4 DEF FactsValid
  <2> QED BY <2>3, <2>5 DEF fact
<1> QED BY <1>1, SnapInvariant, PTL

\* A commit that overtakes nothing further has loaded the present snapshot.
LEMMA CurrentCommit ==
    ASSUME Inv, SnapInv, NEW w \in Writers, CommitApplied(w),
           overtaken' = overtaken
    PROVE  /\ Current(w) \in Item /\ snapshot.state \in SnapshotState
           /\ ApplyOutcome(snapshot.state, Current(w), proc[w].now) = "applied"
           /\ snapshot'.state = Folded(snapshot.state, Current(w))
<1> DEFINE p == proc[w]
<1>1. /\ p.pc = "reduced" /\ p.outcome = "applied"
      /\ snapshot'.state = p.loaded
      /\ overtaken' = p.skipped \cup
            {row.version : row \in {r \in items : r.version > p.base}}
  BY DEF CommitApplied
<1>2. p \in Process /\ snapshot.state \in SnapshotState /\ snapshot.version \in Nat
  BY DEF Inv, TypeInv, TypeOK
<1>3. p.base \in Nat
  BY <1>2 DEF Process
<1>4. Pending(p, items, penalties, snapshot.version, overtaken)
  BY DEF SnapInv
<1>5. Carries(p, items, penalties) /\ BasedOn(p, snapshot.version, overtaken)
  BY <1>1, <1>4 DEF Pending
<1>6. p.base = snapshot.version
  <2> SUFFICES ASSUME p.base # snapshot.version PROVE FALSE
    OBVIOUS
  <2>1. snapshot.version > p.base
    BY <1>2, <1>3, <1>5 DEF BasedOn
  <2>2. PICK row \in items : row.version = snapshot.version
    BY <1>2, <1>3, <2>1 DEF SnapInv, LatestItem
  <2>3. snapshot.version \in overtaken'
    BY <1>1, <2>1, <2>2
  <2>4. snapshot.version < snapshot.version
    BY <2>3 DEF SnapInv, LatestItem
  <2> QED BY <1>2, <2>4
<1>7. Origin(p, items) = snapshot.state
  BY <1>5, <1>6 DEF Origin, BasedOn, SnapInv, SnapshotRebuilt
<1>8. Current(w) \in Item /\ Current(w) = p.batch[p.index]
  BY <1>1, CurrentType DEF Inv, Current
<1> QED BY <1>1, <1>2, <1>5, <1>7, <1>8 DEF Carries

\* With any number of writers, a step that overtakes no further item does not
\* take the cursor, an observation time or a confirmation back.
THEOREM NothingRolledBack == Spec => NoRollback
<1> DEFINE Kept(s, t) ==
       /\ s.cursor # None => t.cursor # None /\ s.cursor <= t.cursor
       /\ \A a \in Attempts : s.attempts[a] # None =>
             /\ t.attempts[a] # None
             /\ s.attempts[a].at <= t.attempts[a].at
             /\ s.attempts[a].confirmed # None
                   => t.attempts[a].confirmed # None
<1>1. ASSUME NEW s \in SnapshotState PROVE Kept(s, s)
  <2>1. s.cursor # None => s.cursor \in Nat
    BY DEF SnapshotState
  <2>2. \A a \in Attempts : s.attempts[a] # None => s.attempts[a].at \in Nat
    BY DEF SnapshotState, AttemptFact
  <2> QED BY <2>1, <2>2
<1>2. ASSUME Inv, SnapInv, [Next]_vars, overtaken' = overtaken
      PROVE  Kept(snapshot.state, snapshot'.state)
  <2>0. snapshot.state \in SnapshotState
    BY <1>2 DEF Inv, TypeInv, TypeOK
  <2>1. ASSUME NEW w \in Writers, CommitApplied(w)
        PROVE  Kept(snapshot.state, snapshot'.state)
    <3> DEFINE s == snapshot.state  item == Current(w)
    <3>1. item \in Item /\ s \in SnapshotState
          /\ ApplyOutcome(s, item, proc[w].now) = "applied"
          /\ snapshot'.state = Folded(s, item)
      BY <1>2, <2>1, CurrentCommit
    <3> HIDE DEF s, item
    <3>2. Kept(s, Folded(s, item))
      BY <3>1, FoldKeeps
    <3> QED BY <3>1, <3>2 DEF s
  <2>2. CASE snapshot' = snapshot
    BY <1>1, <2>0, <2>2
  <2>3. \/ snapshot' = snapshot
        \/ \E w \in Writers : CommitApplied(w)
    BY <1>2 DEF Next, WriterStep, vars, ledger, ChiefDecides, RevokeMonitorLease,
         RecordObservation, StartCycle, ReplayManifest, LoadAndReduce,
         CommitRefused, SkipItem, WriteWake, SaveState, FailCycle, EndManual,
         Crash
  <2> QED BY <2>1, <2>2, <2>3
<1>3. Inv /\ SnapInv /\ [Next]_vars =>
        [overtaken' = overtaken =>
         LET s == snapshot.state  t == snapshot'.state IN
         /\ s.cursor # None => t.cursor # None /\ s.cursor <= t.cursor
         /\ \A a \in Attempts : s.attempts[a] # None =>
               /\ t.attempts[a] # None
               /\ s.attempts[a].at <= t.attempts[a].at
               /\ s.attempts[a].confirmed # None
                     => t.attempts[a].confirmed # None]_vars
  BY <1>2
<1> QED BY <1>3, SnapInvariant, PTL DEF Spec, NoRollback
=============================================================================
