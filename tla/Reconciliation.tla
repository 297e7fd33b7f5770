--------------------------- MODULE Reconciliation ---------------------------
(***************************************************************************)
(* Platform reconciliation: the read-only scheduler polls a page of        *)
(* attempts, converts it to typed items, and hands them one by one to the  *)
(* ledger, which folds each item into a durable snapshot through the       *)
(* reducer and records it with a campaign event in one transaction.        *)
(*                                                                         *)
(*   scheduler   scripts/ascodex_reconciliation_scheduler.py, _runner.py   *)
(*   converter   scripts/ascodex_reconciliation.py                         *)
(*   admin       solver-guard/src/bin/observation_admin.rs reconcile-batch *)
(*   ledger      Ledger::apply_platform_reconciliation_audited             *)
(*   reducer     ascodex-coordination/src/reconciliation.rs                *)
(*                                                                         *)
(* The snapshot is read before the transaction that replaces it, and the   *)
(* scheduler's counters are a file that is written after the batch: the    *)
(* steps of several writers, of a Chief that advances the same campaign    *)
(* aggregate, of an operator who records observations there or revokes the *)
(* Monitor's lease, and crashes fall in between.                           *)
(*                                                                         *)
(* One challenge, one stream, one campaign.  A response is its SHA-256.    *)
(***************************************************************************)
EXTENDS CoordinationEvents, Integers, Sequences, FiniteSets

CONSTANTS
    Writers,        \* processes running the scheduler or the admin binary
    Schedulers,     \* those that run the scheduler
    Attempts,       \* attempt ids of the challenge
    Responses,      \* SHA-256 of the page bodies the platform may serve
    Page,           \* [Responses -> sequence of the entries of that page]
    Observed,       \* the observations an operator has, of single attempts
    None,           \* Option::None
    MaxPolls,       \* bound: fetches in a behaviour
    MaxForeign,     \* bound: steps of the Chief and the operator
    MaxCrashes      \* bound: crashes in a behaviour

Score == -1..100
Evidence == {None, "present"}

(***************************************************************************)
(* ReconciliationFacts, reduced to the fields that validate() relates:     *)
(* raw and effective score, the basis of an applied penalty (its rewritten *)
(* score; None when no penalty is applied), whether the score, penalty,    *)
(* owner and bundle values carry Present evidence, the execution trace and *)
(* the bundle rescore.                                                     *)
(***************************************************************************)
Facts == [raw : Score \cup {None}, effective : Score \cup {None},
          basis : Score \cup {None}, evidence : Evidence,
          trace : {None, "present", "missing"},
          rescore : {None, "completed", "awaiting"}]

Kinds == {"observation", "unknown"}

Entry == [attempt : Attempts, kind : Kinds, facts : Facts]

\* build_reconciliation_items rejects a page that names an attempt twice.
ASSUME PageAssumption ==
    /\ Page \in [Responses -> Seq(Entry)]
    /\ \A r \in Responses : \A i, j \in DOMAIN Page[r] :
           Page[r][i].attempt = Page[r][j].attempt => i = j

ASSUME BoundsAssumption ==
    /\ MaxPolls \in Nat /\ MaxForeign \in Nat /\ MaxCrashes \in Nat

Item == [attempt : Attempts, resp : Responses, pos : Nat, at : Nat,
         kind : Kinds, facts : Facts]

\* PlatformObservation, by what its row's primary key names.
Observation == [attempt : Attempts, resp : Responses]

\* ReconciledAttempt: what the snapshot says of one attempt.
AttemptFact == [state : {"confirmed", "unknown"}, cursor : Nat,
                resp : Responses, at : Nat,
                confirmed : Responses \cup {None}, facts : Facts]

ASSUME ObservedAssumption ==
    /\ Observed \subseteq Observation
    /\ None \notin Item \cup Observation \cup AttemptFact
    /\ None \notin Responses /\ None \notin Nat

-----------------------------------------------------------------------------
(* The reducer: PlatformReconciliationSnapshot and its apply().            *)

\* ReconciliationFacts::validate
FactsValid(f, observation) ==
    /\ f.basis # None =>
          /\ f.raw # None
          /\ f.effective = f.raw - 1
          /\ f.basis = f.raw - 1
    /\ observation =>
          /\ (\E k \in {"raw", "effective", "basis", "rescore"} : f[k] # None)
                => f.evidence = "present"
          /\ f.rescore # "awaiting"
          /\ f.trace # "missing"

\* Mutant: the newest item replaces the facts instead of merging into them.
MergeByReplacing(new, old) == new

\* ReconciliationFacts::merge_into: a field an item leaves out keeps its value.
MergeInto(new, old) ==
    [k \in DOMAIN old |-> IF new[k] # None THEN new[k] ELSE old[k]]

\* PlatformReconcileItem::validate
ItemValid(item, now) ==
    /\ item.at <= now
    /\ FactsValid(item.facts, item.kind = "observation")

EmptySnapshot ==
    [cursor |-> None, attempts |-> [a \in Attempts |-> None], seen |-> {}]

\* PlatformReconciliationSnapshot::validate
SnapshotValid(s) ==
    /\ \A a \in Attempts : LET fact == s.attempts[a] IN fact # None =>
          /\ FactsValid(fact.facts, fact.state = "confirmed")
          /\ s.cursor # None => fact.cursor <= s.cursor
          /\ fact.state = "confirmed" => fact.confirmed # None
    /\ \A item \in s.seen :
          /\ FactsValid(item.facts, item.kind = "observation")
          /\ s.cursor # None => item.pos <= s.cursor

SameKey(i, j) == i.attempt = j.attempt /\ i.resp = j.resp

\* The state apply() computes for a new item, before it is validated.
Folded(s, item) ==
    LET old == s.attempts[item.attempt]
        fact ==
          [state     |-> IF item.kind = "observation" THEN "confirmed"
                                                      ELSE "unknown",
           cursor    |-> item.pos,
           resp      |-> item.resp,
           at        |-> item.at,
           confirmed |-> IF item.kind = "observation" THEN item.resp
                         ELSE IF old = None THEN None ELSE old.confirmed,
           facts     |-> IF old = None THEN item.facts
                                       ELSE MergeInto(item.facts, old.facts)]
    IN  [cursor   |-> item.pos,
         attempts |-> [s.attempts EXCEPT ![item.attempt] = fact],
         seen     |-> s.seen \cup {item}]

Outcomes == {"applied", "duplicate", "stale", "error"}

\* Mutant: the folded snapshot is stored without being validated.
ApplyOutcomeUnvalidated(s, item, now) ==
    CASE ~ItemValid(item, now) -> "error"
      [] \E i \in s.seen : SameKey(i, item) -> "error"
      [] s.cursor # None /\ item.pos <= s.cursor -> "stale"
      [] OTHER -> "applied"

\* Mutant: an item behind the cursor is folded instead of skipped.
ApplyOutcomeRewinding(s, item, now) ==
    CASE \E i \in s.seen : SameKey(i, item) ->
            IF item \in s.seen THEN "duplicate" ELSE "error"
      [] OTHER -> "applied"

\* PlatformReconciliationSnapshot::apply, its early returns in order.
ApplyOutcome(s, item, now) ==
    CASE ~SnapshotValid(s) \/ ~ItemValid(item, now) -> "error"
      [] \E i \in s.seen : SameKey(i, item) ->
            IF item \in s.seen THEN "duplicate" ELSE "error"
      [] s.cursor # None /\ item.pos < s.cursor -> "stale"
      [] s.cursor # None /\ item.pos = s.cursor -> "error"
      [] s.attempts[item.attempt] # None
         /\ item.at < s.attempts[item.attempt].at -> "error"
      [] ~SnapshotValid(Folded(s, item)) -> "error"
      [] OTHER -> "applied"

-----------------------------------------------------------------------------
VARIABLES
    events,     \* coordination_events rows of the campaign aggregate
    snapshot,   \* the reconciliation_snapshots row: [version, state]
    items,      \* reconciliation_items rows: [item, version]
    penalties,  \* reconciliation_penalties rows: [attempt, resp, rewritten, version]
    overtaken,  \* history: versions of the items the snapshot lost, see CommitApplied
    observations,  \* platform_observations rows: [obs, version]
    lease,      \* the Monitor's actor_leases row: "registered" or "revoked"
    manifests,  \* manifests/<response>-<cursor>.json saved by the runner
    wakes,      \* wakes/chief-*.json written by the scheduler
    state,      \* [Writers -> the scheduler's state file]
    proc,       \* [Writers -> the running cycle, in memory]
    clock,      \* the wall clock, advanced by every fetch
    crashes     \* crashes so far (bound)

ledger == <<events, snapshot, items, penalties, overtaken, observations, lease>>
vars == <<events, snapshot, items, penalties, overtaken, observations, lease,
          manifests, wakes, state, proc, clock, crashes>>

\* The aggregate is the campaign, and Chief decisions advance it as well.
Campaign == "campaign"
Version == CurrentVersion(events, Campaign)

Idle == [pc |-> "idle", mode |-> None, batch |-> <<>>, index |-> 1,
         expected |-> 0, now |-> 0, applied |-> 0,
         outcome |-> None, loaded |-> None, base |-> 0, skipped |-> {}]

NewState == [cursor |-> 0, version |-> 0, lastWake |-> 0, failed |-> FALSE]

Init ==
    /\ events = {} /\ items = {} /\ penalties = {} /\ overtaken = {}
    /\ observations = {} /\ lease = "registered"
    /\ snapshot = [version |-> 0, state |-> EmptySnapshot]
    /\ manifests = {} /\ wakes = {}
    /\ state = [w \in Writers |-> NewState]
    /\ proc = [w \in Writers |-> Idle]
    /\ clock = 0 /\ crashes = 0

\* The bound on what others than the writers do.
MayInterfere ==
    Cardinality({e \in events : e.body \notin Item})
        + (IF lease = "revoked" THEN 1 ELSE 0) < MaxForeign

\* issue_research_cycle / revoke_research_cycle: an event of the same aggregate.
ChiefDecides ==
    /\ MayInterfere
    /\ LET id == <<None, Version>>
           e == Event(id, id, Campaign, None, clock)
       IN  /\ Appends(events, e, Version)
           /\ events' = Append1(events, e, Version)
    /\ UNCHANGED <<snapshot, items, penalties, overtaken, observations, lease,
                   manifests, wakes, state, proc, clock, crashes>>

\* record_platform_observation_audited, through `ascodex-observation-admin
\* record': the lease is looked up inside the transaction that appends the
\* campaign event and inserts the row.
RecordObservation(o) ==
    /\ MayInterfere /\ lease = "registered"
    /\ \A row \in observations : row.obs # o
    /\ LET id == <<None, o.attempt, o.resp>>
           e == Event(id, id, Campaign, o, clock)
       IN  /\ Appends(events, e, Version)
           /\ events' = Append1(events, e, Version)
    /\ observations' = observations \cup {[obs |-> o, version |-> Version + 1]}
    /\ UNCHANGED <<snapshot, items, penalties, overtaken, lease, manifests,
                   wakes, state, proc, clock, crashes>>

\* revoke_actor_lease_audited; its event belongs to the lease's aggregate.
RevokeMonitorLease ==
    /\ MayInterfere /\ lease = "registered"
    /\ lease' = "revoked"
    /\ UNCHANGED <<events, snapshot, items, penalties, overtaken, observations,
                   manifests, wakes, state, proc, clock, crashes>>

\* Mutant: positions are expanded from one before the cursor.
ItemsOffByOne(resp, cursor, at) ==
    [i \in DOMAIN Page[resp] |->
        [attempt |-> Page[resp][i].attempt, resp |-> resp,
         pos |-> cursor + i - 2, at |-> at,
         kind |-> Page[resp][i].kind, facts |-> Page[resp][i].facts]]

\* build_reconciliation_items: entry i of the page sits at cursor + i - 1.
Items(resp, cursor, at) ==
    [i \in DOMAIN Page[resp] |->
        [attempt |-> Page[resp][i].attempt, resp |-> resp,
         pos |-> cursor + i - 1, at |-> at,
         kind |-> Page[resp][i].kind, facts |-> Page[resp][i].facts]]

\* run_scheduled_cycles -> run_cycle: read the state file, GET the page, save
\* the manifest and start the admin batch at the state's event version.  The
\* platform may serve any response, the one it served before included.
StartCycle(w) ==
    /\ w \in Schedulers /\ proc[w].pc = "idle"
    /\ clock < MaxPolls
    /\ \E resp \in Responses :
       LET batch == Items(resp, state[w].cursor, clock) IN
       /\ manifests' = manifests \cup {batch}
       /\ proc' = [proc EXCEPT ![w] =
             [Idle EXCEPT !.pc = IF batch = <<>> THEN "complete" ELSE "item",
                          !.mode = "scheduled", !.batch = batch,
                          !.expected = state[w].version, !.now = clock]]
    /\ clock' = clock + 1
    /\ UNCHANGED <<ledger, wakes, state, crashes>>

\* An operator replays a saved manifest through ascodex-observation-admin, at
\* the version inspect-reconcile reports or at the campaign's current one; no
\* scheduler state is involved.
ReplayManifest(w) ==
    /\ w \notin Schedulers /\ proc[w].pc = "idle"
    /\ \E batch \in manifests \ {<<>>}, v \in {snapshot.version, Version} :
          proc' = [proc EXCEPT ![w] =
             [Idle EXCEPT !.pc = "item", !.mode = "manual", !.batch = batch,
                          !.expected = v, !.now = clock]]
    /\ UNCHANGED <<ledger, manifests, wakes, state, clock, crashes>>

Current(w) == proc[w].batch[proc[w].index]

\* Mutant: the reducer starts from a new snapshot, not from the stored row.
LoadNothing(w) ==
    /\ proc[w].pc = "item"
    /\ proc' = [proc EXCEPT ![w].pc = "reduced", ![w].outcome = "applied",
                            ![w].loaded = Folded(EmptySnapshot, Current(w)),
                            ![w].base = snapshot.version,
                            ![w].skipped = overtaken]
    /\ UNCHANGED <<ledger, manifests, wakes, state, clock, crashes>>

\* load_reconciliation_snapshot and the reducer, before any transaction.  The
\* row's version (base) and what it lacks (skipped) are kept for `overtaken';
\* the code drops the version it loaded.
LoadAndReduce(w) ==
    /\ proc[w].pc = "item"
    /\ LET s == snapshot.state
           outcome == ApplyOutcome(s, Current(w), proc[w].now)
       IN  proc' = [proc EXCEPT
              ![w].pc = IF outcome = "error" THEN "failed" ELSE "reduced",
              ![w].outcome = outcome,
              ![w].loaded = IF outcome = "applied" THEN Folded(s, Current(w))
                                                   ELSE None,
              ![w].base = snapshot.version,
              ![w].skipped = overtaken]
    /\ UNCHANGED <<ledger, manifests, wakes, state, clock, crashes>>

\* The batch event: its id and key bind campaign, stream, position, attempt
\* and the digest of the item, which is the payload.
BatchEvent(item, now) ==
    Event(<<item, item.pos>>, <<item, item.pos>>, Campaign, item, now)

\* reconcile-batch sets expected_version to the applied event's version + 1.
NextExpected(appended) == appended + 1

Advance(p) ==
    [p EXCEPT !.index = p.index + 1, !.outcome = None, !.loaded = None,
              !.base = 0, !.skipped = {},
              !.pc = IF p.index = Len(p.batch) THEN "complete" ELSE "item"]

\* summary.applied += 1 and the prediction for the batch's next item.
Advanced(p, v) ==
    LET q == Advance(p) IN
    [q EXCEPT !.expected = NextExpected(v), !.applied = q.applied + 1]

\* The transaction of the Applied branch: campaign event, immutable item row,
\* snapshot upsert and penalty row, all or nothing.  The Monitor's context
\* is the caller's file; whether its lease is still registered is not asked.
\* The snapshot that was loaded is not compared with the row it replaces: the
\* items recorded since are in the tables, and not in the new snapshot.
CommitApplied(w) ==
    /\ proc[w].pc = "reduced" /\ proc[w].outcome = "applied"
    /\ LET item == Current(w)
           e == BatchEvent(item, proc[w].now)
           v == proc[w].expected + 1
       IN  /\ Appends(events, e, proc[w].expected)
           /\ \A row \in items : ~SameKey(row.item, item)
           /\ events' = Append1(events, e, proc[w].expected)
           /\ items' = items \cup {[item |-> item, version |-> v]}
           /\ snapshot' = [version |-> v, state |-> proc[w].loaded]
           /\ overtaken' = proc[w].skipped \cup
                 {row.version : row \in {r \in items : r.version > proc[w].base}}
           /\ penalties' =
                IF item.facts.basis = None THEN penalties
                ELSE penalties \cup
                       {[attempt |-> item.attempt, resp |-> item.resp,
                         rewritten |-> item.facts.basis, version |-> v]}
           /\ proc' = [proc EXCEPT ![w] = Advanced(proc[w], v)]
    /\ UNCHANGED <<observations, lease, manifests, wakes, state, clock, crashes>>

\* The transaction is refused: version conflict, bound key or existing row.
CommitRefused(w) ==
    /\ proc[w].pc = "reduced" /\ proc[w].outcome = "applied"
    /\ \/ ~Appends(events, BatchEvent(Current(w), proc[w].now),
                   proc[w].expected)
       \/ \E row \in items : SameKey(row.item, Current(w))
    /\ proc' = [proc EXCEPT ![w].pc = "failed"]
    /\ UNCHANGED <<ledger, manifests, wakes, state, clock, crashes>>

\* Duplicate and Stale change nothing.  A duplicate must find its item row.
SkipItem(w) ==
    /\ proc[w].pc = "reduced" /\ proc[w].outcome \in {"duplicate", "stale"}
    /\ IF \/ proc[w].outcome = "stale"
          \/ \E row \in items : row.item = Current(w)
       THEN proc' = [proc EXCEPT ![w] = Advance(proc[w])]
       ELSE proc' = [proc EXCEPT ![w].pc = "failed"]
    /\ UNCHANGED <<ledger, manifests, wakes, state, clock, crashes>>

\* _write_chief_wake: only a scheduled cycle that applied a fact wakes.
WriteWake(w) ==
    /\ proc[w].pc = "complete" /\ proc[w].mode = "scheduled"
    /\ proc[w].applied > 0
    /\ wakes' = wakes \cup {[version |-> proc[w].expected,
                             resp |-> proc[w].batch[1].resp]}
    /\ proc' = [proc EXCEPT ![w].pc = "woken"]
    /\ UNCHANGED <<ledger, manifests, state, clock, crashes>>

\* The state file is replaced last: _next_cursor and the batch's version.
SaveState(w) ==
    /\ proc[w].mode = "scheduled"
    /\ \/ proc[w].pc = "complete" /\ proc[w].applied = 0
       \/ proc[w].pc = "woken"
    /\ state' = [state EXCEPT ![w] =
          [cursor   |-> @.cursor + Max({1, Len(proc[w].batch)}),
           version  |-> proc[w].expected,
           lastWake |-> IF proc[w].pc = "woken" THEN proc[w].expected
                                                ELSE @.lastWake,
           failed   |-> FALSE]]
    /\ proc' = [proc EXCEPT ![w] = Idle]
    /\ UNCHANGED <<ledger, manifests, wakes, clock, crashes>>

\* A failed batch: the scheduler records the error and keeps its counters.
FailCycle(w) ==
    /\ proc[w].pc = "failed"
    /\ state' = IF proc[w].mode = "scheduled"
                THEN [state EXCEPT ![w].failed = TRUE] ELSE state
    /\ proc' = [proc EXCEPT ![w] = Idle]
    /\ UNCHANGED <<ledger, manifests, wakes, clock, crashes>>

EndManual(w) ==
    /\ proc[w].pc = "complete" /\ proc[w].mode = "manual"
    /\ proc' = [proc EXCEPT ![w] = Idle]
    /\ UNCHANGED <<ledger, manifests, wakes, state, clock, crashes>>

\* The process dies; files and the ledger survive.
Crash(w) ==
    /\ proc[w].pc # "idle" /\ crashes < MaxCrashes
    /\ crashes' = crashes + 1
    /\ proc' = [proc EXCEPT ![w] = Idle]
    /\ UNCHANGED <<ledger, manifests, wakes, state, clock>>

WriterStep(w) ==
    \/ StartCycle(w) \/ ReplayManifest(w) \/ LoadAndReduce(w)
    \/ CommitApplied(w) \/ CommitRefused(w) \/ SkipItem(w)
    \/ WriteWake(w) \/ SaveState(w) \/ FailCycle(w) \/ EndManual(w)

Next ==
    \/ ChiefDecides \/ RevokeMonitorLease
    \/ \E o \in Observed : RecordObservation(o)
    \/ \E w \in Writers : WriterStep(w) \/ Crash(w)

Spec == Init /\ [][Next]_vars

-----------------------------------------------------------------------------
SnapshotState == [cursor : Nat \cup {None},
                  attempts : [Attempts -> AttemptFact \cup {None}],
                  seen : SUBSET Item]

Process == [pc : {"idle", "item", "reduced", "complete", "woken", "failed"},
            mode : {None, "scheduled", "manual"}, batch : Seq(Item),
            index : Nat, expected : Nat, now : Nat, applied : Nat,
            outcome : Outcomes \cup {None},
            loaded : SnapshotState \cup {None}, base : Nat,
            skipped : SUBSET Nat]

\* Type correctness of the tables, the files and the processes.
TypeOK ==
    /\ \A e \in events : e.agg = Campaign /\ e.version \in Nat /\ e.at \in Nat
    /\ snapshot \in [version : Nat, state : SnapshotState]
    /\ \A row \in items : row \in [item : Item, version : Nat]
    /\ \A p \in penalties : p \in [attempt : Attempts, resp : Responses,
                                   rewritten : Score, version : Nat]
    /\ overtaken \subseteq Nat
    /\ \A row \in observations : row \in [obs : Observation, version : Nat]
    /\ lease \in {"registered", "revoked"}
    /\ \A m \in manifests : m \in Seq(Item)
    /\ \A k \in wakes : k \in [version : Nat, resp : Responses]
    /\ state \in [Writers -> [cursor : Nat, version : Nat, lastWake : Nat,
                             failed : BOOLEAN]]
    /\ proc \in [Writers -> Process]
    /\ clock \in Nat /\ crashes \in Nat

(***************************************************************************)
(* The append is optimistic and the writers race: whatever they do, the    *)
(* campaign's versions stay 1..n and no key, id or version is reused.      *)
(***************************************************************************)
EventLogIntact == Contiguous(events, Campaign) /\ UniqueRows(events)

(***************************************************************************)
(* apply_platform_reconciliation_audited and record_platform_observation_- *)
(* audited are one transaction each: an item or observation row has its    *)
(* campaign event and such an event its row, at the same version, and an   *)
(* (attempt, response) pair is recorded once as an item and once as an     *)
(* observation.                                                            *)
(***************************************************************************)
RowsMatchEvents ==
    /\ \A row \in items : \E e \in events :
          e.body = row.item /\ e.version = row.version
    /\ \A e \in events : e.body \in Item => \E row \in items :
          row.item = e.body /\ row.version = e.version
    /\ \A r, q \in items : SameKey(r.item, q.item) => r = q
    /\ \A row \in observations : \E e \in events :
          e.body = row.obs /\ e.version = row.version
    /\ \A e \in events : e.body \in Observation => \E row \in observations :
          row.obs = e.body /\ row.version = e.version
    /\ \A r, q \in observations : r.obs = q.obs => r = q

(***************************************************************************)
(* The stored snapshot always passes its own validation.  apply() refuses  *)
(* to fold anything into an invalid snapshot, so a single invalid one      *)
(* would stop the feed for good.                                           *)
(***************************************************************************)
SnapshotNeverPoisoned == SnapshotValid(snapshot.state)

(***************************************************************************)
(* "in a single event-versioned transaction" (the comment of               *)
(* apply_platform_reconciliation_audited): the snapshot is never behind    *)
(* the immutable item rows.  Every item the ledger recorded is in the      *)
(* snapshot, which carries the version of the latest one.                  *)
(***************************************************************************)
SnapshotCoversItems ==
    /\ snapshot.state.seen = {row.item : row \in items}
    /\ \A row \in items : row.version <= snapshot.version

\* The item rows, replayed in version order through the reducer.
ItemAt(rows, v) == {row.item : row \in {q \in rows : q.version = v}}

ReplayVersion(s, rows, v) ==
    IF ItemAt(rows, v) = {} THEN s
    ELSE Folded(s, CHOOSE i \in ItemAt(rows, v) : TRUE)

Rebuilt(rows, n) ==
    LET upTo[v \in 0..n] == IF v = 0 THEN EmptySnapshot
                            ELSE ReplayVersion(upTo[v - 1], rows, v)
    IN  upTo[n]

(***************************************************************************)
(* Whatever the number of writers, the durable snapshot is exactly what    *)
(* the reducer makes of the immutable item rows in version order, except   *)
(* those that were recorded between the load and the commit of a writer:   *)
(* they, and nothing else, are missing from it, through crashes, foreign   *)
(* events and repeated manifests.  (One writer alone never misses any.)    *)
(***************************************************************************)
SnapshotIsReplay ==
    snapshot.state = Rebuilt({row \in items : row.version \notin overtaken}, Version)

(***************************************************************************)
(* A judged penalty is forgotten by being overtaken or not at all: else    *)
(* the attempt's facts carry an applied penalty that rewrote the raw score *)
(* by exactly one point, whatever later pages left out.                    *)
(***************************************************************************)
PenaltyNeverForgotten ==
    \A p \in penalties : p.version \notin overtaken =>
        LET fact == snapshot.state.attempts[p.attempt] IN
        /\ fact # None
        /\ fact.facts.basis # None
        /\ fact.facts.effective = fact.facts.raw - 1

(***************************************************************************)
(* Stale and unknown items do not roll back: as long as no further item is *)
(* overtaken, the snapshot's cursor does not decrease, an attempt is not   *)
(* observed earlier than before, and a confirmed observation is kept when  *)
(* a later page cannot be verified.                                        *)
(***************************************************************************)
NoRollback ==
    [][overtaken' = overtaken =>
       LET s == snapshot.state  t == snapshot'.state IN
       /\ s.cursor # None => t.cursor # None /\ s.cursor <= t.cursor
       /\ \A a \in Attempts : s.attempts[a] # None =>
             /\ t.attempts[a] # None
             /\ s.attempts[a].at <= t.attempts[a].at
             /\ s.attempts[a].confirmed # None
                   => t.attempts[a].confirmed # None]_vars

(***************************************************************************)
(* What record_chief_wake_audited demands of a wake file: an applied item  *)
(* with the file's response AND the file's event version.                  *)
(***************************************************************************)
WakeIsRecordable ==
    \A k \in wakes : \E row \in items :
        row.item.resp = k.resp /\ row.version = k.version

(***************************************************************************)
(* "ascodex-observation-admin can, under a registered Monitor lease,       *)
(* persist observation, typed reconciliation item, ..." (deployment plan): *)
(* once the lease is revoked, the campaign gets no further row of its      *)
(* Monitor.                                                                *)
(***************************************************************************)
MonitorWritesUnderLease ==
    [][lease = "revoked" => UNCHANGED <<items, observations>>]_vars
=============================================================================
