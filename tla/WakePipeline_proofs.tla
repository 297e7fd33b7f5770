------------------------- MODULE WakePipeline_proofs -------------------------
(***************************************************************************)
(* Proofs about the wake pipeline, for any number of wakes, supervisors,   *)
(* consumers, facts, crashes and operator acknowledgements.                *)
(*                                                                         *)
(* A pass carries what it has established from one transaction to the      *)
(* next: the fact it checked, the acknowledgement it saw.  PassOK says     *)
(* that nobody can take that away; with it the ledger and the directory    *)
(* stay consistent, and every step is a step of WakeDelivery.              *)
(***************************************************************************)
EXTENDS WakePipeline, CoordinationEvents_proofs, FiniteSetTheorems,
        SequenceTheorems

-----------------------------------------------------------------------------
(* The inductive invariant.                                                *)

Pass1 == [pc : {"idle", "read", "check", "record", "ack", "rename"},
          queue : Seq(Wakes), now : Nat]

Named(w, f, its) == [resp |-> w, version |-> f[w].version] \in its

IsAcked(w, rs) == rs[w] # None /\ rs[w].state = "acked"

\* What a pass relies on: its files have been written, the fact it checked is
\* still an applied one, and what it is about to move aside is acknowledged.
PassOK(q, f, rs, its) ==
    /\ \A i \in 1..Len(q.queue) : f[q.queue[i]].place # "absent"
    /\ q.pc = "record" => Named(q.queue[1], f, its)
    /\ q.pc = "rename" => IsAcked(q.queue[1], rs)

PassesOK == \A p \in Processes : PassOK(proc[p], file, requests, items)

RecordedWasPosted ==
    \A w \in Wakes : requests[w] # None => file[w].place # "absent"

DirectoryInv == RecordedWasPosted /\ WakeBindsAppliedFact /\ ConsumedIsAcked

LogInv == RequestMatchesLog /\ UniqueRows(events)

Inv == TypeOK /\ LogInv /\ DirectoryInv /\ PassesOK

-----------------------------------------------------------------------------
(* The log of a wake.                                                      *)

Entry(row) == [body |-> row.body, version |-> row.version, at |-> row.at]

LogOf(rows, w) == {Entry(e) : e \in {r \in rows : r.agg = w}}

Requested(row) == [body |-> "requested", version |-> 1, at |-> row.recordedAt]
AckedAt(row) == [body |-> "acked", version |-> 2, at |-> row.ackedAt]

\* RequestMatchesLog, for one wake.
Matches(w, row, rows) ==
    /\ row = None => LogOf(rows, w) = {}
    /\ row # None /\ row.state = "waiting" =>
          row.ackedAt = None /\ LogOf(rows, w) = {Requested(row)}
    /\ row # None /\ row.state # "waiting" =>
          LogOf(rows, w) = {Requested(row), AckedAt(row)}

LEMMA MatchesEach ==
    RequestMatchesLog <=> \A w \in Wakes : Matches(w, requests[w], events)
BY DEF RequestMatchesLog, Matches, LogOf, Entry, Requested, AckedAt

LEMMA MatchesEachNext ==
    RequestMatchesLog' <=> \A w \in Wakes : Matches(w, requests'[w], events')
BY DEF RequestMatchesLog, Matches, LogOf, Entry, Requested, AckedAt

\* An append adds its entry to the log of its own wake.
LEMMA AppendLog ==
    ASSUME NEW rows, NEW e, NEW expected, NEW w
    PROVE  LogOf(Append1(rows, e, expected), w) =
             IF w = e.agg
             THEN LogOf(rows, w) \cup
                    {[body |-> e.body, version |-> expected + 1, at |-> e.at]}
             ELSE LogOf(rows, w)
<1> DEFINE row == Row(e, expected + 1)
<1>1. row.agg = e.agg
      /\ Entry(row) = [body |-> e.body, version |-> expected + 1, at |-> e.at]
  BY DEF Row, Entry
<1>2. Append1(rows, e, expected) = rows \cup {row}
  BY DEF Append1
<1> HIDE DEF row
<1> QED BY <1>1, <1>2 DEF LogOf

\* A wake that is not acknowledged yet has a log that ends where the next
\* transaction expects it.
LEMMA MatchedIsNumbered ==
    ASSUME NEW w, NEW row \in Request \cup {None}, NEW rows,
           Matches(w, row, rows), row = None \/ row.state = "waiting"
    PROVE  Numbered(rows, w)
<1>1. CASE row = None
  <2>1. LogOf(rows, w) = {}
    BY <1>1 DEF Matches
  <2>2. Versions(rows, w) = 1..0
    BY <2>1 DEF LogOf, Versions
  <2> QED BY <2>2 DEF Numbered
<1>2. CASE row # None /\ row.state = "waiting"
  <2>1. LogOf(rows, w) = {Requested(row)}
    BY <1>2 DEF Matches
  <2>2. \A e \in rows : e.agg = w => Entry(e) = Requested(row)
    BY <2>1 DEF LogOf
  <2>3. \A e \in rows : e.agg = w => e.version = 1
    BY <2>2 DEF Entry, Requested
  <2>4. \E e \in rows : e.agg = w
    BY <2>1 DEF LogOf
  <2>5. Versions(rows, w) = 1..1
    BY <2>3, <2>4 DEF Versions
  <2> QED BY <2>5 DEF Numbered
<1> QED BY <1>1, <1>2

-----------------------------------------------------------------------------
(* Passes.                                                                 *)

\* A listing is a sequence of wakes whose files are on disk.
LEMMA ListingType ==
    ASSUME NEW q \in Listings
    PROVE  q \in Seq(Wakes) /\ \A i \in 1..Len(q) : q[i] \in OnDisk
<1>1. OnDisk \subseteq Wakes
  BY DEF OnDisk
<1>2. IsFiniteSet(OnDisk)
  BY <1>1, WakesAssumption, FS_Subset
<1>3. Cardinality(OnDisk) \in Nat
  BY <1>2, FS_CardinalityType
<1> DEFINE n == Cardinality(OnDisk)
<1>4. q \in [1..n -> OnDisk]
  BY DEF Listings, SetToSeqs
<1> HIDE DEF n
<1>5. n \in Nat
  BY <1>3 DEF n
<1>6. q \in Seq(OnDisk)
  BY <1>4, <1>5
<1> QED BY <1>1, <1>6

\* What passes rely on is never taken away: files do not disappear, a file
\* keeps its version, items and acknowledgements stay.
Kept ==
    \A w \in Wakes :
        /\ file[w].place # "absent" =>
              file'[w].place # "absent" /\ file'[w].version = file[w].version
        /\ IsAcked(w, requests) => IsAcked(w, requests')

LEMMA PassKept ==
    ASSUME NEW q \in Pass1, q.pc # "idle" => q.queue # <<>>,
           Kept, items \subseteq items', PassOK(q, file, requests, items)
    PROVE  PassOK(q, file', requests', items')
<1>1. \A i \in 1..Len(q.queue) : q.queue[i] \in Wakes
  BY DEF Pass1
<1>2. q.pc # "idle" => 1 \in 1..Len(q.queue)
  BY DEF Pass1
<1> QED BY <1>1, <1>2 DEF PassOK, Kept, Named

\* A step of one pass.
LEMMA PassStep ==
    ASSUME TypeOK, PassesOK, Kept, items \subseteq items',
           NEW p \in Processes, NEW q \in Pass1,
           proc' = [proc EXCEPT ![p] = q], q.pc # "idle" => q.queue # <<>>,
           PassOK(q, file', requests', items')
    PROVE  /\ PassesOK'
           /\ proc' \in [Processes -> Pass1]
           /\ \A r \in Processes : proc'[r].pc # "idle" => proc'[r].queue # <<>>
<1>1. proc \in [Processes -> Pass1]
  BY DEF TypeOK, Pass1
<1>2. \A r \in Processes :
         PassOK(proc[r], file', requests', items')
  BY <1>1, PassKept DEF TypeOK, PassesOK
<1> QED BY <1>1, <1>2 DEF PassesOK, TypeOK

\* A pass keeps going, or stops, without touching ledger or directory.
LEMMA QuietStep ==
    ASSUME Inv, NEW p \in Processes, NEW q \in Pass1,
           proc' = [proc EXCEPT ![p] = q], q.pc # "idle" => q.queue # <<>>,
           PassOK(q, file, requests, items),
           UNCHANGED <<facts, ledger, file, clock, adminAcks>>, crashes' \in Nat
    PROVE  Inv'
<1>1. Kept /\ items \subseteq items' /\ PassOK(q, file', requests', items')
  BY DEF Kept, facts, ledger
<1>2. /\ PassesOK'
      /\ proc' \in [Processes -> Pass1]
      /\ \A r \in Processes : proc'[r].pc # "idle" => proc'[r].queue # <<>>
  BY <1>1, PassStep DEF Inv
<1>3. TypeOK'
  BY <1>2 DEF Inv, TypeOK, Pass1, facts, ledger
<1>4. LogInv' /\ DirectoryInv'
  BY DEF Inv, LogInv, RequestMatchesLog, DirectoryInv, RecordedWasPosted,
         WakeBindsAppliedFact, ConsumedIsAcked, facts, ledger
<1> QED BY <1>2, <1>3, <1>4 DEF Inv

LEMMA IdleOK ==
    Idle \in Pass1 /\ Idle.pc = "idle" /\ PassOK(Idle, file, requests, items)
BY DEF Idle, Pass1, PassOK

\* The head of a running pass is a wake whose file was written.
LEMMA HeadOK ==
    ASSUME Inv, NEW p \in Processes, proc[p].pc # "idle"
    PROVE  /\ proc[p] \in Pass1 /\ proc[p].queue # <<>>
           /\ Head1(p) \in Wakes /\ Head1(p) = proc[p].queue[1]
           /\ file[Head1(p)].place # "absent"
<1>1. proc[p] \in Pass1 /\ proc[p].queue # <<>>
  BY DEF Inv, TypeOK, Pass1
<1>2. 1 \in 1..Len(proc[p].queue)
  BY <1>1 DEF Pass1
<1> QED BY <1>1, <1>2 DEF Head1, Pass1, Inv, PassesOK, PassOK

LEMMA CollectInv ==
    ASSUME Inv, NEW p \in Processes, Collect(p)
    PROVE  Inv'
<1>1. PICK now \in IF p \in Supervisors THEN {clock} ELSE 0..MaxClock,
           q \in Listings :
           proc' = [proc EXCEPT ![p] =
              IF q = <<>> THEN Idle
              ELSE [pc |-> "read", queue |-> q, now |-> now]]
  BY DEF Collect
<1> DEFINE r == [pc |-> "read", queue |-> q, now |-> now]
<1>2. now \in Nat
  BY WakeBoundsAssumption DEF Inv, TypeOK
<1>3. r \in Pass1 /\ r.pc = "read" /\ r.queue = q
  BY <1>2, ListingType DEF Pass1
<1>4. PassOK(r, file, requests, items)
  BY <1>3, ListingType DEF PassOK, OnDisk
<1>5. UNCHANGED <<facts, ledger, file, clock, adminAcks>> /\ crashes' \in Nat
  BY DEF Collect, Inv, TypeOK
<1> HIDE DEF r
<1>6. proc' = [proc EXCEPT ![p] = IF q = <<>> THEN Idle ELSE r]
  BY <1>1 DEF r
<1>7. CASE q = <<>>
  <2>1. proc' = [proc EXCEPT ![p] = Idle]
    BY <1>6, <1>7
  <2> QED BY <1>5, <2>1, IdleOK, QuietStep
<1>8. CASE q # <<>>
  <2>1. proc' = [proc EXCEPT ![p] = r]
    BY <1>6, <1>8
  <2> QED BY <1>3, <1>4, <1>5, <1>8, <2>1, QuietStep
<1> QED BY <1>7, <1>8

\* A pass that ends, in failure or in a crash.
LEMMA StopInv ==
    ASSUME Inv, NEW p \in Processes, Fail(p),
           UNCHANGED <<facts, ledger, file, clock, adminAcks>>, crashes' \in Nat
    PROVE  Inv'
<1>1. proc' = [proc EXCEPT ![p] = Idle]
  BY DEF Fail
<1> QED BY <1>1, IdleOK, QuietStep

\* The pass of p at another program counter.
LEMMA GotoType ==
    ASSUME Inv, NEW p \in Processes, proc[p].pc # "idle",
           NEW pc \in {"check", "record", "ack", "rename"}, Goto(p, pc)
    PROVE  \E q \in Pass1 :
              /\ proc' = [proc EXCEPT ![p] = q]
              /\ q.pc = pc /\ q.queue = proc[p].queue /\ q.queue # <<>>
<1> DEFINE q == [proc[p] EXCEPT !.pc = pc]
<1>1. proc[p] \in Pass1 /\ proc[p].queue # <<>>
  BY HeadOK
<1>2. q \in Pass1 /\ q.pc = pc /\ q.queue = proc[p].queue
  BY <1>1 DEF Pass1
<1>3. proc' = [proc EXCEPT ![p] = q]
  BY DEF Goto
<1> HIDE DEF q
<1> QED BY <1>1, <1>2, <1>3

LEMMA ReadInv ==
    ASSUME Inv, NEW p \in Processes, ReadFile(p)
    PROVE  Inv'
<1>1. proc[p].pc = "read"
  BY DEF ReadFile, At
<1>2. proc[p] \in Pass1 /\ proc[p].queue # <<>>
  BY <1>1, HeadOK
<1>3. UNCHANGED <<facts, ledger, file, clock, adminAcks>> /\ crashes' \in Nat
  BY DEF ReadFile, Inv, TypeOK
<1>4. CASE Head1(p) \in OnDisk
  <2> DEFINE q == [pc |-> "check", queue |-> proc[p].queue,
                   now |-> IF p \in Supervisors THEN clock ELSE proc[p].now]
  <2>1. q \in Pass1 /\ q.pc = "check" /\ q.queue = proc[p].queue
    BY <1>2 DEF Pass1, Inv, TypeOK
  <2>2. proc' = [proc EXCEPT ![p] = q]
    BY <1>2, <1>4 DEF ReadFile, Pass1
  <2>3. PassOK(q, file, requests, items)
    BY <2>1 DEF PassOK, Inv, PassesOK
  <2> HIDE DEF q
  <2> QED BY <1>2, <1>3, <2>1, <2>2, <2>3, QuietStep
<1>5. CASE Head1(p) \notin OnDisk
  BY <1>3, <1>5, StopInv DEF ReadFile
<1> QED BY <1>4, <1>5

LEMMA CheckInv ==
    ASSUME Inv, NEW p \in Processes, CheckFact(p)
    PROVE  Inv'
<1>1. proc[p].pc = "check"
  BY DEF CheckFact, At
<1>2. UNCHANGED <<facts, ledger, file, clock, adminAcks>> /\ crashes' \in Nat
  BY DEF CheckFact, Inv, TypeOK
<1>3. CASE BindsFact(Head1(p))
  <2>1. PICK q \in Pass1 :
           /\ proc' = [proc EXCEPT ![p] = q]
           /\ q.pc = "record" /\ q.queue = proc[p].queue /\ q.queue # <<>>
    BY <1>1, <1>3, GotoType DEF CheckFact
  <2>2. Head1(p) = q.queue[1]
    BY <1>1, <2>1, HeadOK
  <2>3. PassOK(q, file, requests, items)
    BY <1>3, <2>1, <2>2 DEF PassOK, Inv, PassesOK, BindsFact, Named
  <2> QED BY <1>2, <2>1, <2>3, QuietStep
<1>4. CASE ~BindsFact(Head1(p))
  BY <1>2, <1>4, StopInv DEF CheckFact
<1> QED BY <1>3, <1>4

\* A replay moves the pass on and changes nothing else.
LEMMA ReplayInv ==
    ASSUME Inv, NEW p \in Processes, RecordReplay(p) \/ AckReplay(p)
    PROVE  Inv'
<1>1. proc[p].pc # "idle"
  BY DEF RecordReplay, AckReplay, At
<1>2. UNCHANGED <<facts, ledger, file, clock, adminAcks>> /\ crashes' \in Nat
  BY DEF RecordReplay, AckReplay, Inv, TypeOK
<1>3. CASE RecordReplay(p)
  <2>1. PICK q \in Pass1 :
           /\ proc' = [proc EXCEPT ![p] = q]
           /\ q.pc = "ack" /\ q.queue = proc[p].queue /\ q.queue # <<>>
    BY <1>1, <1>3, GotoType DEF RecordReplay
  <2>2. PassOK(q, file, requests, items)
    BY <2>1 DEF PassOK, Inv, PassesOK
  <2> QED BY <1>2, <2>1, <2>2, QuietStep
<1>4. CASE AckReplay(p)
  <2>1. PICK q \in Pass1 :
           /\ proc' = [proc EXCEPT ![p] = q]
           /\ q.pc = "rename" /\ q.queue = proc[p].queue /\ q.queue # <<>>
    BY <1>1, <1>4, GotoType DEF AckReplay
  <2>2. Head1(p) = q.queue[1] /\ IsAcked(Head1(p), requests)
    BY <1>1, <1>4, <2>1, HeadOK DEF AckReplay, AckReplays, IsAcked
  <2>3. PassOK(q, file, requests, items)
    BY <2>1, <2>2 DEF PassOK, Inv, PassesOK
  <2> QED BY <1>2, <2>1, <2>3, QuietStep
<1> QED BY <1>3, <1>4

-----------------------------------------------------------------------------
(* The transactions.                                                       *)

\* One wake's row and one event of its aggregate change together.
LEMMA LogStep ==
    ASSUME Inv, NEW w \in Wakes, NEW e, NEW expected \in Nat, NEW row \in Request,
           e.agg = w, Appends(events, e, expected),
           requests[w] = None \/ requests[w].state = "waiting",
           events' = Append1(events, e, expected),
           requests' = [requests EXCEPT ![w] = row],
           Matches(w, row, events')
    PROVE  LogInv'
<1>1. \A v \in Wakes : Matches(v, requests[v], events)
  BY MatchesEach DEF Inv, LogInv
<1>2. requests[w] \in Request \cup {None}
  BY DEF Inv, TypeOK
<1>3. Numbered(events, w)
  BY <1>1, <1>2, MatchedIsNumbered
<1>4. UniqueRows(events')
  BY <1>3, AppendUnique DEF Inv, LogInv
<1>5. \A v \in Wakes : v # w => LogOf(events', v) = LogOf(events, v)
  BY AppendLog
<1>6. \A v \in Wakes : Matches(v, requests'[v], events')
  BY <1>1, <1>5 DEF Matches, Inv, TypeOK
<1> QED BY <1>4, <1>6, MatchesEachNext DEF LogInv

\* The types of what a transaction on a wake leaves behind.
LEMMA LogType ==
    ASSUME Inv, NEW w \in Wakes, NEW e, NEW expected \in {0, 1},
           NEW row \in Request, e.agg = w, e.at \in Nat,
           events' = Append1(events, e, expected),
           requests' = [requests EXCEPT ![w] = row]
    PROVE  /\ \A r \in events' :
                 r.agg \in Wakes /\ r.at \in Nat /\ r.version \in {1, 2}
           /\ requests' \in [Wakes -> Request \cup {None}]
<1> DEFINE new == Row(e, expected + 1)
<1>1. new.agg \in Wakes /\ new.at \in Nat /\ new.version \in {1, 2}
  BY DEF Row
<1>2. events' = events \cup {new}
  BY DEF Append1
<1> HIDE DEF new
<1>3. \A r \in events' :
         r.agg \in Wakes /\ r.at \in Nat /\ r.version \in {1, 2}
  BY <1>1, <1>2 DEF Inv, TypeOK
<1>4. requests' \in [Wakes -> Request \cup {None}]
  BY DEF Inv, TypeOK
<1> QED BY <1>3, <1>4

LEMMA RecordInv ==
    ASSUME Inv, NEW p \in Processes, Record(p)
    PROVE  Inv'
<1> DEFINE w == Head1(p)
           e == RecordEvent(p, w, proc[p].now)
           row == [state |-> "waiting", recordedAt |-> proc[p].now,
                   ackedAt |-> None, version |-> 1]
<1>1. proc[p].pc = "record"
  BY DEF Record, At
<1>2. proc[p] \in Pass1 /\ w \in Wakes /\ w = proc[p].queue[1]
      /\ file[w].place # "absent"
  BY <1>1, HeadOK
<1>3. e.agg = w /\ e.at = proc[p].now /\ e.body = "requested"
  BY DEF RecordEvent, WakeEvent, Event
<1>4. row \in Request /\ row.state = "waiting" /\ row.ackedAt = None
      /\ row.recordedAt = proc[p].now
  BY <1>2 DEF Request, Pass1
<1>5. /\ Appends(events, e, 0) /\ requests[w] = None
      /\ events' = Append1(events, e, 0)
      /\ requests' = [requests EXCEPT ![w] = row]
      /\ Goto(p, "ack")
      /\ UNCHANGED <<facts, file, clock, crashes, adminAcks>>
  BY DEF Record
<1>6. proc[p].now \in Nat
  BY <1>2 DEF Pass1
<1> HIDE DEF w, e, row
<1>7. Matches(w, row, events')
  <2>1. LogOf(events, w) = {}
    BY <1>2, <1>5, MatchesEach DEF Inv, LogInv, Matches
  <2>2. LogOf(events', w) =
          {[body |-> "requested", version |-> 1, at |-> proc[p].now]}
    BY <1>3, <1>5, <2>1, AppendLog
  <2> QED BY <1>4, <2>2, WakesAssumption DEF Matches, Requested
<1>8. LogInv'
  BY <1>2, <1>3, <1>4, <1>5, <1>7, LogStep
<1>9. Kept /\ items \subseteq items'
  BY <1>2, <1>5 DEF Kept, facts, IsAcked, Inv, TypeOK
<1>10. PICK q \in Pass1 :
          /\ proc' = [proc EXCEPT ![p] = q]
          /\ q.pc = "ack" /\ q.queue = proc[p].queue /\ q.queue # <<>>
  BY <1>1, <1>5, GotoType
<1>11. PassOK(q, file', requests', items')
  BY <1>5, <1>10 DEF PassOK, Inv, PassesOK
<1>12. /\ PassesOK'
       /\ proc' \in [Processes -> Pass1]
       /\ \A r \in Processes : proc'[r].pc # "idle" => proc'[r].queue # <<>>
  BY <1>9, <1>10, <1>11, PassStep DEF Inv
<1>13. TypeOK'
  <2>1. /\ \A r \in events' :
              r.agg \in Wakes /\ r.at \in Nat /\ r.version \in {1, 2}
        /\ requests' \in [Wakes -> Request \cup {None}]
    BY <1>2, <1>3, <1>4, <1>5, <1>6, LogType
  <2> QED BY <1>5, <1>12, <2>1 DEF Inv, TypeOK, Pass1, facts
<1>14. DirectoryInv'
  <2>1. \A v \in Wakes : v # w => requests'[v] = requests[v]
    BY <1>5 DEF Inv, TypeOK
  <2>2. Named(w, file, items)
    BY <1>1, <1>2 DEF Inv, PassesOK, PassOK
  <2>3. file[w].place # "consumed"
    BY <1>2, <1>5 DEF Inv, DirectoryInv, ConsumedIsAcked
  <2>4. file' = file /\ items' = items
    BY <1>5 DEF facts
  <2> QED BY <1>2, <2>1, <2>2, <2>3, <2>4
          DEF Inv, DirectoryInv, RecordedWasPosted, WakeBindsAppliedFact,
              ConsumedIsAcked, Named
<1> QED BY <1>8, <1>12, <1>13, <1>14 DEF Inv

\* An acknowledgement, by whoever gives it.
LEMMA AckStep ==
    ASSUME Inv, NEW w \in Wakes, NEW e, NEW now \in Nat,
           e.agg = w, e.at = now, e.body = "acked",
           Appends(events, e, 1), IsWaiting(w),
           events' = Append1(events, e, 1), requests' = Acked(w, now),
           UNCHANGED <<facts, file>>
    PROVE  /\ LogInv' /\ DirectoryInv' /\ Kept
           /\ IsAcked(w, requests')
           /\ \A r \in events' :
                 r.agg \in Wakes /\ r.at \in Nat /\ r.version \in {1, 2}
           /\ requests' \in [Wakes -> Request \cup {None}]
<1> DEFINE row == [state |-> "acked", recordedAt |-> requests[w].recordedAt,
                   ackedAt |-> now, version |-> 1]
<1>1. requests[w] \in Request /\ requests[w] # None
      /\ requests[w].state = "waiting"
  BY DEF IsWaiting, Inv, TypeOK
<1>2. row \in Request /\ row.state = "acked" /\ row.ackedAt = now
      /\ row.recordedAt = requests[w].recordedAt
  BY <1>1 DEF Request
<1>3. requests' = [requests EXCEPT ![w] = row]
  <2>1. Acked(w, now)[w] = row
    BY <1>1 DEF Acked, Request, Inv, TypeOK
  <2>2. \A v \in Wakes : v # w => Acked(w, now)[v] = requests[v]
    BY DEF Acked, Inv, TypeOK
  <2>3. Acked(w, now) = [v \in Wakes |-> Acked(w, now)[v]]
    BY DEF Acked, Inv, TypeOK
  <2> HIDE DEF row
  <2> QED BY <2>1, <2>2, <2>3 DEF Inv, TypeOK
<1> HIDE DEF row
<1>4. Matches(w, row, events')
  <2>1. LogOf(events, w) = {Requested(requests[w])}
    BY <1>1, MatchesEach DEF Inv, LogInv, Matches
  <2>2. LogOf(events', w) = {Requested(requests[w])} \cup
          {[body |-> "acked", version |-> 2, at |-> now]}
    BY <2>1, AppendLog
  <2>3. Requested(row) = Requested(requests[w])
        /\ AckedAt(row) = [body |-> "acked", version |-> 2, at |-> now]
    BY <1>2 DEF Requested, AckedAt
  <2>4. LogOf(events', w) = {Requested(row), AckedAt(row)}
    BY <2>2, <2>3
  <2> QED BY <1>2, <2>4, WakesAssumption DEF Matches
<1>5. LogInv'
  BY <1>1, <1>2, <1>3, <1>4, LogStep
<1>6. requests'[w] = row /\ row # None
      /\ \A v \in Wakes : v # w => requests'[v] = requests[v]
  BY <1>2, <1>3, WakesAssumption DEF Inv, TypeOK
<1>7. Kept /\ IsAcked(w, requests')
  BY <1>2, <1>6 DEF Kept, IsAcked
<1>8. DirectoryInv'
  <2>1. file' = file /\ items' = items
    BY DEF facts
  <2> QED BY <1>1, <1>2, <1>6, <2>1
          DEF Inv, DirectoryInv, RecordedWasPosted, WakeBindsAppliedFact,
              ConsumedIsAcked
<1>9. /\ \A r \in events' :
            r.agg \in Wakes /\ r.at \in Nat /\ r.version \in {1, 2}
      /\ requests' \in [Wakes -> Request \cup {None}]
  <2>1. e.at \in Nat /\ 1 \in {0, 1}
    OBVIOUS
  <2> QED BY <1>2, <1>3, <2>1, LogType
<1> QED BY <1>5, <1>7, <1>8, <1>9

LEMMA AckInv ==
    ASSUME Inv, NEW p \in Processes, Ack(p)
    PROVE  Inv'
<1> DEFINE w == Head1(p)
           e == AckEvent(p, w, proc[p].now)
<1>1. proc[p].pc = "ack"
  BY DEF Ack, At
<1>2. w \in Wakes /\ w = proc[p].queue[1] /\ proc[p].now \in Nat
  BY <1>1, HeadOK DEF Pass1
<1>3. e.agg = w /\ e.at = proc[p].now /\ e.body = "acked"
  BY DEF AckEvent, WakeEvent, Event
<1>4. /\ Appends(events, e, 1) /\ IsWaiting(w)
      /\ events' = Append1(events, e, 1)
      /\ requests' = Acked(w, proc[p].now)
      /\ Goto(p, "rename")
      /\ UNCHANGED <<facts, file, clock, crashes, adminAcks>>
  BY DEF Ack
<1> HIDE DEF w, e
<1>5. /\ LogInv' /\ DirectoryInv' /\ Kept
      /\ IsAcked(w, requests')
      /\ \A r \in events' :
            r.agg \in Wakes /\ r.at \in Nat /\ r.version \in {1, 2}
      /\ requests' \in [Wakes -> Request \cup {None}]
  BY <1>2, <1>3, <1>4, AckStep
<1>6. PICK q \in Pass1 :
         /\ proc' = [proc EXCEPT ![p] = q]
         /\ q.pc = "rename" /\ q.queue = proc[p].queue /\ q.queue # <<>>
  BY <1>1, <1>4, GotoType
<1>7. PassOK(q, file', requests', items')
  BY <1>2, <1>4, <1>5, <1>6 DEF PassOK, Inv, PassesOK
<1>8. items \subseteq items'
  BY <1>4 DEF facts
<1>9. /\ PassesOK'
      /\ proc' \in [Processes -> Pass1]
      /\ \A r \in Processes : proc'[r].pc # "idle" => proc'[r].queue # <<>>
  BY <1>5, <1>6, <1>7, <1>8, PassStep DEF Inv
<1>10. TypeOK'
  BY <1>4, <1>5, <1>9 DEF Inv, TypeOK, Pass1, facts
<1> QED BY <1>5, <1>9, <1>10 DEF Inv

\* Steps of others keep every pass.
LEMMA OthersKept ==
    ASSUME Inv, Kept, items \subseteq items', proc' = proc
    PROVE  PassesOK'
<1>1. \A p \in Processes : PassOK(proc[p], file', requests', items')
  BY PassKept DEF Inv, TypeOK, PassesOK, Pass1
<1> QED BY <1>1 DEF PassesOK

LEMMA AdminInv ==
    ASSUME Inv, NEW w \in Wakes, AdminAck(w)
    PROVE  Inv'
<1> DEFINE e == WakeEvent("admin", w, "acked", clock)
<1>1. e.agg = w /\ e.at = clock /\ e.body = "acked"
  BY DEF WakeEvent, Event
<1>2. /\ Appends(events, e, 1) /\ IsWaiting(w)
      /\ events' = Append1(events, e, 1)
      /\ requests' = Acked(w, clock)
      /\ adminAcks' = adminAcks + 1
      /\ UNCHANGED <<facts, file, proc, clock, crashes>>
  BY DEF AdminAck
<1> HIDE DEF e
<1>3. /\ LogInv' /\ DirectoryInv' /\ Kept
      /\ \A r \in events' :
            r.agg \in Wakes /\ r.at \in Nat /\ r.version \in {1, 2}
      /\ requests' \in [Wakes -> Request \cup {None}]
  BY <1>1, <1>2, AckStep DEF Inv, TypeOK
<1>4. PassesOK'
  BY <1>2, <1>3, OthersKept DEF facts
<1>5. TypeOK'
  BY <1>2, <1>3 DEF Inv, TypeOK, facts
<1> QED BY <1>3, <1>4, <1>5 DEF Inv

-----------------------------------------------------------------------------
(* The directory.                                                          *)

\* A list of several files has a tail of files of its own.
LEMMA TailLeft ==
    ASSUME NEW S, NEW s \in Seq(S), s # <<>>, Len(s) # 1
    PROVE  /\ Tail(s) \in Seq(S) /\ Tail(s) # <<>>
           /\ \A i \in 1..Len(Tail(s)) :
                 i + 1 \in 1..Len(s) /\ Tail(s)[i] = s[i + 1]
<1> DEFINE n == Len(s)  t == Tail(s)
<1>1. n \in Nat /\ n # 0 /\ n # 1
  BY EmptySeq
<1>2. t \in Seq(S) /\ Len(t) = n - 1
      /\ \A i \in 1..Len(t) : t[i] = s[i + 1]
  BY <1>1
<1>3. Len(<<>>) = 0
  OBVIOUS
<1> HIDE DEF n, t
<1>4. Len(t) # 0 /\ \A i \in 1..(n - 1) : i + 1 \in 1..n
  BY <1>1, <1>2
<1>5. t # <<>>
  BY <1>3, <1>4
<1> QED BY <1>2, <1>4, <1>5 DEF n, t

LEMMA RenameInv ==
    ASSUME Inv, NEW p \in Processes, Rename(p)
    PROVE  Inv'
<1> DEFINE w == Head1(p)
<1>1. proc[p].pc = "rename"
  BY DEF Rename, At
<1>2. proc[p] \in Pass1 /\ w \in Wakes /\ w = proc[p].queue[1]
      /\ proc[p].queue # <<>>
  BY <1>1, HeadOK
<1>3. UNCHANGED <<facts, ledger, clock, crashes, adminAcks>>
  BY DEF Rename
<1>4. CASE w \in OnDisk
  <2> DEFINE rest == [pc |-> "read", queue |-> Tail(proc[p].queue),
                      now |-> proc[p].now]
             q == IF Len(proc[p].queue) = 1 THEN Idle ELSE rest
  <2>1. file' = [file EXCEPT ![w].place = "consumed"]
        /\ proc' = [proc EXCEPT ![p] = q]
    BY <1>4 DEF Rename
  <2>2. /\ file'[w].place = "consumed" /\ file'[w].version = file[w].version
        /\ \A v \in Wakes : v # w => file'[v] = file[v]
        /\ file' \in [Wakes -> [place : {"absent", "disk", "consumed"},
                                version : Nat]]
    BY <1>2, <2>1 DEF Inv, TypeOK
  <2>3. Kept /\ items \subseteq items'
    BY <1>3, <2>2 DEF Kept, facts, ledger
  <2> DEFINE Goal ==
        /\ PassesOK'
        /\ proc' \in [Processes -> Pass1]
        /\ \A r \in Processes : proc'[r].pc # "idle" => proc'[r].queue # <<>>
  <2>4. ASSUME Len(proc[p].queue) = 1 PROVE Goal
    <3>1. proc' = [proc EXCEPT ![p] = Idle]
      BY <2>1, <2>4
    <3>2. PassOK(Idle, file', requests', items')
      BY DEF Idle, PassOK
    <3> QED BY <2>3, <3>1, <3>2, IdleOK, PassStep DEF Inv
  <2>5. ASSUME Len(proc[p].queue) # 1 PROVE Goal
    <3>1. proc' = [proc EXCEPT ![p] = rest]
      BY <2>1, <2>5
    <3>2. /\ rest \in Pass1 /\ rest.pc = "read"
          /\ rest.queue = Tail(proc[p].queue) /\ rest.queue # <<>>
      BY <1>2, <2>5, TailLeft DEF Pass1
    <3>3. \A i \in 1..Len(rest.queue) :
             i + 1 \in 1..Len(proc[p].queue)
             /\ rest.queue[i] = proc[p].queue[i + 1]
      BY <1>2, <2>5, TailLeft DEF Pass1
    <3> HIDE DEF rest
    <3>4. \A i \in 1..Len(proc[p].queue) :
             proc[p].queue[i] \in Wakes
             /\ file[proc[p].queue[i]].place # "absent"
      BY <1>2 DEF Pass1, Inv, PassesOK, PassOK
    <3>5. \A i \in 1..Len(rest.queue) : file'[rest.queue[i]].place # "absent"
      BY <2>3, <3>3, <3>4 DEF Kept
    <3>6. PassOK(rest, file', requests', items')
      BY <3>2, <3>5 DEF PassOK
    <3> QED BY <2>3, <3>1, <3>2, <3>6, PassStep DEF Inv
  <2>6. Goal
    BY <2>4, <2>5
  <2>7. TypeOK'
    BY <1>3, <2>2, <2>6 DEF Inv, TypeOK, Pass1, facts, ledger
  <2>8. LogInv'
    BY <1>3 DEF Inv, LogInv, RequestMatchesLog, ledger
  <2>9. IsAcked(w, requests)
    BY <1>1, <1>2 DEF Inv, PassesOK, PassOK
  <2>10. DirectoryInv'
    BY <1>2, <1>3, <2>2, <2>9
       DEF Inv, DirectoryInv, RecordedWasPosted, WakeBindsAppliedFact,
           ConsumedIsAcked, IsAcked, facts, ledger
  <2> QED BY <2>6, <2>7, <2>8, <2>10 DEF Inv
<1>5. CASE w \notin OnDisk
  <2>1. Fail(p) /\ file' = file
    BY <1>5 DEF Rename
  <2> QED BY <1>3, <2>1, StopInv DEF Inv, TypeOK
<1> QED BY <1>4, <1>5

LEMMA ApplyInv ==
    ASSUME Inv, NEW w \in Wakes, ApplyAndWake(w)
    PROVE  Inv'
<1>1. PICK d \in Offsets :
        file' = [file EXCEPT ![w] = [place |-> "disk",
                                     version |-> snapshot + 1 + d]]
  BY DEF ApplyAndWake
<1>2. d \in Nat /\ snapshot \in Nat
  BY WakesAssumption DEF Inv, TypeOK
<1>3. /\ file[w].place = "absent" /\ snapshot' = snapshot + 1
      /\ items' = items \cup {[resp |-> w, version |-> snapshot + 1]}
      /\ UNCHANGED <<ledger, proc, clock, crashes, adminAcks>>
  BY DEF ApplyAndWake
<1>4. /\ file'[w].place = "disk"
      /\ \A v \in Wakes : v # w => file'[v] = file[v]
      /\ file' \in [Wakes -> [place : {"absent", "disk", "consumed"},
                              version : Nat]]
  BY <1>1, <1>2 DEF Inv, TypeOK
<1>5. Kept /\ items \subseteq items'
  BY <1>3, <1>4 DEF Kept, ledger
<1>6. PassesOK'
  BY <1>3, <1>5, OthersKept
<1>7. \A i \in items' : i.resp \in Wakes \cup {None} /\ i.version \in 1..snapshot'
  <2> DEFINE new == [resp |-> w, version |-> snapshot + 1]
  <2>1. new.resp = w /\ new.version = snapshot + 1
    OBVIOUS
  <2>2. items' = items \cup {new}
    BY <1>3
  <2> HIDE DEF new
  <2> QED BY <1>2, <1>3, <2>1, <2>2 DEF Inv, TypeOK
<1>8. TypeOK'
  BY <1>2, <1>3, <1>4, <1>7 DEF Inv, TypeOK, ledger
<1>9. LogInv'
  BY <1>3 DEF Inv, LogInv, RequestMatchesLog, ledger
<1>10. DirectoryInv'
  <2>1. requests' = requests /\ requests[w] = None
    BY <1>3 DEF Inv, DirectoryInv, RecordedWasPosted, ledger
  <2> QED BY <1>4, <1>5, <2>1
          DEF Inv, DirectoryInv, RecordedWasPosted, WakeBindsAppliedFact,
              ConsumedIsAcked
<1> QED BY <1>6, <1>8, <1>9, <1>10 DEF Inv

LEMMA QuietFactInv ==
    ASSUME Inv, ApplyQuietly
    PROVE  Inv'
<1> DEFINE new == [resp |-> None, version |-> snapshot + 1]
<1>1. /\ snapshot' = snapshot + 1 /\ items' = items \cup {new}
      /\ UNCHANGED <<ledger, file, proc, clock, crashes, adminAcks>>
  BY DEF ApplyQuietly
<1>2. new.resp = None /\ new.version = snapshot + 1
  OBVIOUS
<1> HIDE DEF new
<1>3. Kept /\ items \subseteq items'
  BY <1>1 DEF Kept, ledger
<1>4. PassesOK'
  BY <1>1, <1>3, OthersKept
<1>5. TypeOK'
  BY <1>1, <1>2 DEF Inv, TypeOK, ledger
<1>6. LogInv' /\ DirectoryInv'
  BY <1>1, <1>3
     DEF Inv, LogInv, RequestMatchesLog, DirectoryInv, RecordedWasPosted,
         WakeBindsAppliedFact, ConsumedIsAcked, ledger
<1> QED BY <1>4, <1>5, <1>6 DEF Inv

\* The clock, and steps that change nothing.
LEMMA TickInv ==
    ASSUME Inv, clock' \in Nat,
           UNCHANGED <<facts, ledger, file, proc, crashes, adminAcks>>
    PROVE  Inv'
<1>1. TypeOK'
  BY DEF Inv, TypeOK, facts, ledger
<1>2. LogInv' /\ DirectoryInv' /\ PassesOK'
  BY DEF Inv, LogInv, RequestMatchesLog, DirectoryInv, RecordedWasPosted,
         WakeBindsAppliedFact, ConsumedIsAcked, PassesOK, facts, ledger
<1> QED BY <1>1, <1>2 DEF Inv

-----------------------------------------------------------------------------
(* Invariance.                                                             *)

LEMMA InitInv == Init => Inv
<1> SUFFICES ASSUME Init PROVE Inv
  OBVIOUS
<1> USE DEF Init
<1>1. TypeOK
  BY DEF TypeOK, Idle
<1>2. LogInv
  <2>1. \A w \in Wakes : Matches(w, requests[w], events)
    BY DEF Matches, LogOf
  <2> QED BY <2>1, MatchesEach DEF LogInv, UniqueRows
<1>3. DirectoryInv
  BY DEF DirectoryInv, RecordedWasPosted, WakeBindsAppliedFact, ConsumedIsAcked
<1>4. PassesOK
  BY IdleOK DEF PassesOK
<1> QED BY <1>1, <1>2, <1>3, <1>4 DEF Inv

LEMMA NextInv == Inv /\ [Next]_vars => Inv'
<1> SUFFICES ASSUME Inv, [Next]_vars PROVE Inv'
  OBVIOUS
<1>1. ASSUME NEW w \in Wakes, ApplyAndWake(w) \/ AdminAck(w) PROVE Inv'
  BY <1>1, ApplyInv, AdminInv
<1>2. CASE ApplyQuietly
  BY <1>2, QuietFactInv
<1>3. ASSUME NEW p \in Processes, Collect(p) PROVE Inv'
  BY <1>3, CollectInv
<1>4. ASSUME NEW p \in Processes, Pass(p) PROVE Inv'
  <2>1. CASE RecordFails(p)
    BY <2>1, StopInv DEF RecordFails, Inv, TypeOK
  <2>2. CASE AckFails(p)
    BY <2>2, StopInv DEF AckFails, Inv, TypeOK
  <2> QED BY <1>4, <2>1, <2>2, ReadInv, CheckInv, RecordInv, ReplayInv, AckInv,
             RenameInv DEF Pass
<1>5. ASSUME NEW p \in Processes, Crash(p) PROVE Inv'
  <2>1. /\ Fail(p) /\ UNCHANGED <<facts, ledger, file, clock, adminAcks>>
        /\ crashes' \in Nat
    BY <1>5 DEF Crash, Fail, Inv, TypeOK
  <2> QED BY <2>1, StopInv
<1>6. CASE Tick
  BY <1>6, TickInv DEF Tick, Inv, TypeOK
<1>7. CASE UNCHANGED vars
  BY <1>7, TickInv DEF vars, facts, ledger, Inv, TypeOK
<1> QED BY <1>1, <1>2, <1>3, <1>4, <1>5, <1>6, <1>7 DEF Next

LEMMA InvInvariant == Spec => []Inv
BY InitInv, NextInv, PTL DEF Spec

\* The ledger, the directory and the passes stay well typed.
THEOREM TypeCorrect == Spec => []TypeOK
<1>1. Inv => TypeOK
  BY DEF Inv
<1> QED BY <1>1, InvInvariant, PTL

\* Row and log of a wake agree at every phase, whoever records, acknowledges,
\* replays or crashes, and however often.
THEOREM RequestsAudited == Spec => []RequestMatchesLog
<1>1. Inv => RequestMatchesLog
  BY DEF Inv, LogInv
<1> QED BY <1>1, InvInvariant, PTL

\* A recorded wake names an applied item, although the item is looked up before
\* the transaction.
THEOREM RecordedNamesFact == Spec => []WakeBindsAppliedFact
<1>1. Inv => WakeBindsAppliedFact
  BY DEF Inv, DirectoryInv
<1> QED BY <1>1, InvInvariant, PTL

\* Nobody moves a file aside that is not acknowledged in the ledger.
THEOREM ConsumedAcked == Spec => []ConsumedIsAcked
<1>1. Inv => ConsumedIsAcked
  BY DEF Inv, DirectoryInv
<1> QED BY <1>1, InvInvariant, PTL

-----------------------------------------------------------------------------
(* No broken wake is skipped.                                              *)

\* A step of a pass ends it, keeps its list, or has consumed the head.
LEMMA PassMoves ==
    ASSUME Inv, NEW r \in Processes, Pass(r)
    PROVE  \E q \in Pass1 :
              /\ proc' = [proc EXCEPT ![r] = q]
              /\ \/ q.queue = <<>> \/ q.queue = proc[r].queue
                 \/ file'[Head1(r)].place = "consumed"
<1>1. Idle \in Pass1 /\ Idle.queue = <<>>
  BY IdleOK DEF Idle
<1>2. ASSUME Fail(r)
      PROVE  \E q \in Pass1 : proc' = [proc EXCEPT ![r] = q] /\ q.queue = <<>>
  BY <1>1, <1>2 DEF Fail
<1>3. CASE ReadFile(r)
  <2>1. proc[r].pc = "read"
    BY <1>3 DEF ReadFile, At
  <2>2. proc[r] \in Pass1
    BY <2>1, HeadOK
  <2>3. CASE Head1(r) \in OnDisk
    <3> DEFINE q == [pc |-> "check", queue |-> proc[r].queue,
                     now |-> IF r \in Supervisors THEN clock ELSE proc[r].now]
    <3>1. q \in Pass1 /\ q.queue = proc[r].queue
      BY <2>2 DEF Pass1, Inv, TypeOK
    <3>2. proc' = [proc EXCEPT ![r] = q]
      BY <1>3, <2>2, <2>3 DEF ReadFile, Pass1
    <3> HIDE DEF q
    <3> QED BY <3>1, <3>2
  <2>4. CASE Head1(r) \notin OnDisk
    BY <1>2, <1>3, <2>4 DEF ReadFile
  <2> QED BY <2>3, <2>4
<1>4. CASE CheckFact(r)
  <2>1. proc[r].pc # "idle" /\ (Goto(r, "record") \/ Fail(r))
    BY <1>4 DEF CheckFact, At
  <2> QED BY <1>2, <2>1, GotoType
<1>5. CASE Record(r) \/ RecordReplay(r)
  <2>1. proc[r].pc # "idle" /\ Goto(r, "ack")
    BY <1>5 DEF Record, RecordReplay, At
  <2> QED BY <2>1, GotoType
<1>6. CASE Ack(r) \/ AckReplay(r)
  <2>1. proc[r].pc # "idle" /\ Goto(r, "rename")
    BY <1>6 DEF Ack, AckReplay, At
  <2> QED BY <2>1, GotoType
<1>7. CASE RecordFails(r) \/ AckFails(r)
  BY <1>2, <1>7 DEF RecordFails, AckFails
<1>8. CASE Rename(r)
  <2>1. proc[r].pc = "rename"
    BY <1>8 DEF Rename, At
  <2>2. proc[r] \in Pass1 /\ proc[r].queue # <<>> /\ Head1(r) \in Wakes
    BY <2>1, HeadOK
  <2>3. CASE Head1(r) \notin OnDisk
    BY <1>2, <1>8, <2>3 DEF Rename
  <2>4. CASE Head1(r) \in OnDisk
    <3>1. file'[Head1(r)].place = "consumed"
      BY <1>8, <2>2, <2>4 DEF Rename, Inv, TypeOK
    <3> DEFINE q == [pc |-> "read", queue |-> Tail(proc[r].queue),
                     now |-> proc[r].now]
    <3>2. CASE Len(proc[r].queue) = 1
      BY <1>1, <1>8, <2>4, <3>2 DEF Rename
    <3>3. CASE Len(proc[r].queue) # 1
      <4>1. q \in Pass1
        BY <2>2, <3>3, TailLeft DEF Pass1
      <4>2. proc' = [proc EXCEPT ![r] = q]
        BY <1>8, <2>4, <3>3 DEF Rename
      <4> HIDE DEF q
      <4> QED BY <3>1, <4>1, <4>2
    <3> QED BY <3>2, <3>3
  <2> QED BY <2>3, <2>4
<1> QED BY <1>3, <1>4, <1>5, <1>6, <1>7, <1>8 DEF Pass

LEMMA SkipStep ==
    ASSUME Inv, [Next]_vars, NEW p \in Processes, proc[p].pc # "idle",
           proc'[p].queue # proc[p].queue, proc'[p].queue # <<>>
    PROVE  file'[Head1(p)].place = "consumed"
<1>1. proc \in [Processes -> Pass1]
  BY DEF Inv, TypeOK, Pass1
<1>2. ASSUME NEW r \in Processes, Pass(r) PROVE file'[Head1(p)].place = "consumed"
  <2>1. PICK q \in Pass1 :
           /\ proc' = [proc EXCEPT ![r] = q]
           /\ \/ q.queue = <<>> \/ q.queue = proc[r].queue
              \/ file'[Head1(r)].place = "consumed"
    BY <1>2, PassMoves
  <2>2. r = p /\ proc'[p] = q
    BY <1>1, <2>1
  <2> QED BY <2>1, <2>2
<1>3. ASSUME NEW r \in Processes, Collect(r) PROVE FALSE
  <2>1. r # p
    BY <1>3 DEF Collect, At
  <2>2. proc'[p] = proc[p]
    BY <1>1, <1>3, <2>1 DEF Collect
  <2> QED BY <2>2
<1>4. ASSUME NEW r \in Processes, Crash(r) PROVE FALSE
  <2>1. proc' = [proc EXCEPT ![r] = Idle] /\ Idle.queue = <<>>
    BY <1>4 DEF Crash, Idle
  <2> QED BY <1>1, <2>1
<1>5. CASE UNCHANGED proc
  BY <1>5
<1>6. \/ UNCHANGED proc
      \/ \E r \in Processes : Pass(r) \/ Collect(r) \/ Crash(r)
  BY DEF Next, ApplyAndWake, AdminAck, ApplyQuietly, Tick, vars
<1> QED BY <1>2, <1>3, <1>4, <1>5, <1>6

\* A pass goes on to the next file only in the step that consumes this one.
THEOREM NothingSkipped == Spec => NoBrokenWakeSkipped
<1> DEFINE A == \A p \in Processes :
        (proc[p].pc # "idle" /\ proc'[p].queue # proc[p].queue
           /\ proc'[p].queue # <<>>)
        => file'[Head1(p)].place = "consumed"
<1>1. Inv /\ [Next]_vars => [A]_vars
  BY SkipStep
<1> QED BY <1>1, InvInvariant, PTL DEF Spec, NoBrokenWakeSkipped

-----------------------------------------------------------------------------
(* The pipeline implements WakeDelivery.                                   *)

\* The stage of a wake, from the place of its file and its row.
Stage(place, row) ==
    IF place = "consumed" THEN "away"
    ELSE IF row # None
         THEN IF row.state = "acked" THEN "acked" ELSE "recorded"
         ELSE IF place = "disk" THEN "posted" ELSE "none"

LEMMA StageIs == \A w \in Wakes : StageOf(w) = Stage(file[w].place, requests[w])
BY DEF StageOf, Stage

LEMMA StageIsNext ==
    \A w \in Wakes : StageOf(w)' = Stage(file'[w].place, requests'[w])
BY DEF StageOf, Stage

Acks(rows, w) == Cardinality({e \in rows : e.agg = w /\ e.body = "acked"})

\* A wake's log holds one acknowledgement when its row is acked, else none.
LEMMA AcksCounted ==
    ASSUME NEW w, NEW row \in Request \cup {None}, NEW rows,
           Matches(w, row, rows), UniqueRows(rows)
    PROVE  Acks(rows, w) = IF row # None /\ row.state = "acked" THEN 1 ELSE 0
<1> DEFINE S == {e \in rows : e.agg = w /\ e.body = "acked"}
<1>1. \A e \in S : Entry(e) \in LogOf(rows, w) /\ Entry(e).body = "acked"
  BY DEF LogOf, Entry
<1>2. CASE row = None \/ row.state = "waiting"
  <2>1. \A x \in LogOf(rows, w) : row # None /\ x = Requested(row)
    BY <1>2 DEF Matches
  <2>2. S = {}
    BY <1>1, <2>1 DEF Requested
  <2> QED BY <1>2, <2>2, FS_EmptySet DEF Acks
<1>3. CASE row # None /\ row.state = "acked"
  <2>1. LogOf(rows, w) = {Requested(row), AckedAt(row)}
    BY <1>3 DEF Matches
  <2>2. \A e \in S : Entry(e) = AckedAt(row)
    BY <1>1, <2>1 DEF Requested
  <2>3. \A e \in S : e.version = 2
    BY <2>2 DEF Entry, AckedAt
  <2>4. \A e, f \in S : e = f
    BY <2>3 DEF UniqueRows
  <2>5. PICK e \in rows : e.agg = w /\ Entry(e) = AckedAt(row)
    BY <2>1 DEF LogOf
  <2>6. e \in S
    BY <2>5 DEF Entry, AckedAt
  <2>7. S = {e}
    BY <2>4, <2>6
  <2> QED BY <1>3, <2>7, FS_Singleton DEF Acks
<1>4. row = None \/ row.state \in {"waiting", "acked"}
  BY DEF Request
<1> QED BY <1>2, <1>3, <1>4

LEMMA AckCount ==
    ASSUME Inv, NEW w \in Wakes
    PROVE  Acks(events, w) = IF IsAcked(w, requests) THEN 1 ELSE 0
<1>1. Matches(w, requests[w], events) /\ UniqueRows(events)
  BY MatchesEach DEF Inv, LogInv
<1>2. requests[w] \in Request \cup {None}
  BY DEF Inv, TypeOK
<1> QED BY <1>1, <1>2, AcksCounted DEF IsAcked

LEMMA AckCountNext ==
    ASSUME Inv', NEW w \in Wakes
    PROVE  Acks(events', w) = IF IsAcked(w, requests') THEN 1 ELSE 0
<1>1. Matches(w, requests'[w], events') /\ UniqueRows(events')
  BY MatchesEachNext DEF Inv, LogInv
<1>2. requests'[w] \in Request \cup {None}
  BY DEF Inv, TypeOK
<1> QED BY <1>1, <1>2, AcksCounted DEF IsAcked

\* One wake whose file or row changes moves one stage on.
LEMMA AdvanceStep ==
    ASSUME Inv, Inv', NEW w \in Wakes, NEW i \in 1..4,
           \A v \in Wakes : v # w =>
              file'[v].place = file[v].place /\ requests'[v] = requests[v],
           Stage(file[w].place, requests[w]) = Delivery!Stages[i],
           Stage(file'[w].place, requests'[w]) = Delivery!Stages[i + 1],
           IsAcked(w, requests) <=> i = 4,
           IsAcked(w, requests') <=> i \in {3, 4}
    PROVE  Delivery!Next
<1> DEFINE st == [v \in Wakes |-> StageOf(v)]
           ac == [v \in Wakes |-> Acks(events, v)]
           ac2 == [v \in Wakes |-> Acks(events', v)]
           st2 == [v \in Wakes |-> Stage(file'[v].place, requests'[v])]
<1>1. st' = st2
  BY StageIsNext
<1>2. st[w] = Delivery!Stages[i]
  BY StageIs
<1>3. st2 = [st EXCEPT ![w] = Delivery!Stages[i + 1]]
  BY StageIs
<1>4. \A v \in Wakes : v # w => Acks(events', v) = Acks(events, v)
  BY AckCount, AckCountNext DEF IsAcked
<1>5. Acks(events', w) = IF i = 3 THEN Acks(events, w) + 1 ELSE Acks(events, w)
  BY AckCount, AckCountNext
<1>6. ac2 = [ac EXCEPT ![w] = IF i = 3 THEN @ + 1 ELSE @]
  BY <1>4, <1>5
<1>7. ac' = ac2
  BY DEF Acks
<1>8. Delivery!Advance(w)
  BY <1>1, <1>2, <1>3, <1>6, <1>7 DEF Delivery!Advance, Acks
<1> QED BY <1>8 DEF Delivery!Next

\* A step that changes neither places nor rows is none of WakeDelivery's.
LEMMA SameStages ==
    ASSUME Inv, Inv',
           \A v \in Wakes :
              file'[v].place = file[v].place /\ requests'[v] = requests[v]
    PROVE  UNCHANGED Delivery!vars
<1>1. \A v \in Wakes : StageOf(v)' = StageOf(v)
  BY StageIs, StageIsNext
<1>2. \A v \in Wakes : Acks(events', v) = Acks(events, v)
  BY AckCount, AckCountNext DEF IsAcked
<1> QED BY <1>1, <1>2 DEF Delivery!vars, Acks

LEMMA DeliveryStep ==
    ASSUME Inv, Inv', [Next]_vars
    PROVE  [Delivery!Next]_(Delivery!vars)
<1> DEFINE Still == \A v \in Wakes :
        file'[v].place = file[v].place /\ requests'[v] = requests[v]
<1>s. /\ Delivery!Stages[1] = "none" /\ Delivery!Stages[2] = "posted"
      /\ Delivery!Stages[3] = "recorded" /\ Delivery!Stages[4] = "acked"
      /\ Delivery!Stages[5] = "away"
  BY DEF Delivery!Stages
<1>a. ASSUME NEW w \in Wakes, ApplyAndWake(w) PROVE Delivery!Next
  <2>1. /\ file[w].place = "absent" /\ file'[w].place = "disk"
        /\ requests' = requests
        /\ \A v \in Wakes : v # w => file'[v].place = file[v].place
    BY <1>a DEF ApplyAndWake, ledger, Inv, TypeOK
  <2>2. requests[w] = None
    BY <2>1 DEF Inv, DirectoryInv, RecordedWasPosted
  <2>3. Stage(file[w].place, requests[w]) = Delivery!Stages[1]
        /\ Stage(file'[w].place, requests'[w]) = Delivery!Stages[1 + 1]
    BY <1>s, <2>1, <2>2 DEF Stage
  <2> QED BY <2>1, <2>2, <2>3, AdvanceStep DEF IsAcked
<1>r. ASSUME NEW p \in Processes, Record(p) PROVE Delivery!Next
  <2> DEFINE w == Head1(p)
             row == [state |-> "waiting", recordedAt |-> proc[p].now,
                     ackedAt |-> None, version |-> 1]
  <2>1. w \in Wakes /\ file[w].place # "absent" /\ proc[p].now \in Nat
    BY <1>r, HeadOK DEF Record, At, Pass1
  <2>2. requests[w] = None /\ file' = file
        /\ requests' = [requests EXCEPT ![w] = row]
    BY <1>r DEF Record
  <2>3. row \in Request /\ row.state = "waiting"
    BY <2>1 DEF Request
  <2> HIDE DEF row, w
  <2>4. requests'[w] = row /\ row # None
        /\ \A v \in Wakes : v # w => requests'[v] = requests[v]
    BY <2>1, <2>2, <2>3, WakesAssumption DEF Inv, TypeOK
  <2>5. file[w].place = "disk"
    <3>1. file[w].place \in {"absent", "disk", "consumed"}
      BY <2>1 DEF Inv, TypeOK
    <3> QED BY <2>1, <2>2, <3>1 DEF Inv, DirectoryInv, ConsumedIsAcked
  <2>6. Stage(file[w].place, requests[w]) = Delivery!Stages[2]
        /\ Stage(file'[w].place, requests'[w]) = Delivery!Stages[2 + 1]
    BY <1>s, <2>2, <2>3, <2>4, <2>5 DEF Stage
  <2> QED BY <2>1, <2>2, <2>3, <2>4, <2>6, AdvanceStep DEF IsAcked
<1>k. ASSUME NEW w \in Wakes, NEW e, NEW now \in Nat,
             e.agg = w, e.at = now, e.body = "acked",
             Appends(events, e, 1), IsWaiting(w),
             events' = Append1(events, e, 1), requests' = Acked(w, now),
             UNCHANGED <<facts, file>>
      PROVE  Delivery!Next
  <2>1. requests[w] # None /\ requests[w].state = "waiting"
    BY <1>k DEF IsWaiting
  <2>2. \A v \in Wakes : v # w => requests'[v] = requests[v]
    BY <1>k DEF Acked, Inv, TypeOK
  <2>3. IsAcked(w, requests')
    BY <1>k, AckStep
  <2>4. file' = file /\ file[w].place # "consumed"
    BY <1>k, <2>1 DEF Inv, DirectoryInv, ConsumedIsAcked
  <2>5. Stage(file[w].place, requests[w]) = Delivery!Stages[3]
        /\ Stage(file'[w].place, requests'[w]) = Delivery!Stages[3 + 1]
    BY <1>s, <2>1, <2>3, <2>4 DEF Stage, IsAcked
  <2>6. ~IsAcked(w, requests)
    BY <2>1 DEF IsAcked
  <2> QED BY <2>2, <2>3, <2>4, <2>5, <2>6, AdvanceStep
<1>b. ASSUME NEW p \in Processes, Ack(p) PROVE Delivery!Next
  <2> DEFINE w == Head1(p)
             e == AckEvent(p, w, proc[p].now)
  <2>1. w \in Wakes /\ proc[p].now \in Nat
    BY <1>b, HeadOK DEF Ack, At, Pass1
  <2>2. e.agg = w /\ e.at = proc[p].now /\ e.body = "acked"
    BY DEF AckEvent, WakeEvent, Event
  <2>3. /\ Appends(events, e, 1) /\ IsWaiting(w)
        /\ events' = Append1(events, e, 1)
        /\ requests' = Acked(w, proc[p].now)
        /\ UNCHANGED <<facts, file>>
    BY <1>b DEF Ack
  <2> HIDE DEF w, e
  <2> QED BY <1>k, <2>1, <2>2, <2>3
<1>c. ASSUME NEW w \in Wakes, AdminAck(w) PROVE Delivery!Next
  <2> DEFINE e == WakeEvent("admin", w, "acked", clock)
  <2>1. e.agg = w /\ e.at = clock /\ e.body = "acked" /\ clock \in Nat
    BY DEF WakeEvent, Event, Inv, TypeOK
  <2>2. /\ Appends(events, e, 1) /\ IsWaiting(w)
        /\ events' = Append1(events, e, 1)
        /\ requests' = Acked(w, clock)
        /\ UNCHANGED <<facts, file>>
    BY <1>c DEF AdminAck
  <2> HIDE DEF e
  <2> QED BY <1>k, <2>1, <2>2
<1>d. ASSUME NEW p \in Processes, Rename(p) PROVE Delivery!Next \/ Still
  <2> DEFINE w == Head1(p)
  <2>1. w \in Wakes /\ w = proc[p].queue[1] /\ proc[p].pc = "rename"
    BY <1>d, HeadOK DEF Rename, At
  <2>2. requests' = requests
    BY <1>d DEF Rename, ledger
  <2>3. CASE w \notin OnDisk
    BY <1>d, <2>2, <2>3 DEF Rename
  <2>4. CASE w \in OnDisk
    <3>1. /\ file[w].place = "disk" /\ file'[w].place = "consumed"
          /\ \A v \in Wakes : v # w => file'[v].place = file[v].place
      BY <1>d, <2>1, <2>4 DEF Rename, OnDisk, Inv, TypeOK
    <3>2. IsAcked(w, requests)
      BY <2>1 DEF Inv, PassesOK, PassOK
    <3>3. Stage(file[w].place, requests[w]) = Delivery!Stages[4]
          /\ Stage(file'[w].place, requests'[w]) = Delivery!Stages[4 + 1]
      BY <1>s, <3>1, <3>2 DEF Stage, IsAcked
    <3> QED BY <2>1, <2>2, <3>1, <3>2, <3>3, AdvanceStep
  <2> QED BY <2>3, <2>4
<1>e. ASSUME NEW p \in Processes,
             \/ ReadFile(p) \/ CheckFact(p) \/ RecordReplay(p)
             \/ RecordFails(p) \/ AckReplay(p) \/ AckFails(p)
             \/ Collect(p) \/ Crash(p)
      PROVE  Still
  BY <1>e DEF ReadFile, CheckFact, RecordReplay, RecordFails, AckReplay,
              AckFails, Collect, Crash, ledger
<1>f. CASE ApplyQuietly \/ Tick \/ UNCHANGED vars
  <2>1. Still
    BY <1>f DEF ApplyQuietly, Tick, vars, ledger
  <2> QED BY <2>1, SameStages
<1>g. Delivery!Next \/ Still \/ ApplyQuietly \/ Tick \/ UNCHANGED vars
  BY <1>a, <1>r, <1>b, <1>c, <1>d, <1>e DEF Next, Pass
<1> QED BY <1>f, <1>g, SameStages

\* Record, acknowledgement and rename of however many racing, crashing and
\* replaying processes are the stages of WakeDelivery, one by one, and a wake is
\* acknowledged at most once.
THEOREM Refinement == Spec => ImplementsDelivery
<1>1. Init => Delivery!Init
  <2> SUFFICES ASSUME Init PROVE Delivery!Init
    OBVIOUS
  <2>1. \A w \in Wakes : StageOf(w) = "none"
    BY StageIs DEF Stage, Init
  <2>2. \A w \in Wakes : Acks(events, w) = 0
    BY InitInv, AckCount DEF Init, IsAcked
  <2> QED BY <2>1, <2>2 DEF Delivery!Init, Acks
<1>2. Inv /\ Inv' /\ [Next]_vars => [Delivery!Next]_(Delivery!vars)
  BY DeliveryStep
<1> QED BY <1>1, <1>2, InvInvariant, PTL
        DEF Spec, ImplementsDelivery, Delivery!Spec
=============================================================================
