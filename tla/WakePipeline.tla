---------------------------- MODULE WakePipeline ----------------------------
(***************************************************************************)
(* From an applied platform fact to an acknowledged Chief wake.            *)
(*                                                                         *)
(* A wake file chief-<id>.json appears in the wakes directory.  Resident   *)
(* supervisors (ascodex-supervisor) and one-shot ascodex-wake-consumer     *)
(* runs list the directory, and for every file in name order record the    *)
(* wake in the ledger, acknowledge it and rename the file to .consumed.    *)
(* Record and acknowledgement are two transactions, the checks of record   *)
(* run before its transaction and the rename follows both; any failure     *)
(* ends the pass and the supervisor backs off and lists again.             *)
(*                                                                         *)
(* One stream of one campaign.  A wake id is a digest, so the order of the *)
(* file names has nothing to do with the order of the facts; here it is    *)
(* the order of the numbers that stand for the ids.  The response a wake   *)
(* names is identified with the wake's id, which hashes it.                *)
(***************************************************************************)
EXTENDS CoordinationEvents, Integers, SequencesExt

CONSTANTS
    Wakes,        \* wake ids, numbered in file name order
    Supervisors,  \* resident ascodex-supervisor processes
    Consumers,    \* ascodex-wake-consumer processes
    Offsets,      \* event_version in a wake file minus its fact's version
    None,
    MaxFacts,     \* bound: facts applied to the stream
    MaxClock,     \* bound: distinct milliseconds
    MaxCrashes,   \* bound: crashes in a behaviour
    MaxAdminAcks  \* bound: ascodex-wake-admin ack commands

Processes == Supervisors \cup Consumers

\* A row of chief_wake_requests.
Request == [state : {"waiting", "acked"}, recordedAt : Nat,
            ackedAt : Nat \cup {None}, version : {1}]

ASSUME WakesAssumption ==
    /\ Wakes \subseteq Nat /\ IsFiniteSet(Wakes)
    /\ Offsets \subseteq Nat
    /\ Supervisors \cap Consumers = {}
    /\ None \notin Wakes /\ None \notin Request

ASSUME WakeBoundsAssumption ==
    /\ MaxFacts \in Nat /\ MaxClock \in Nat
    /\ MaxCrashes \in Nat /\ MaxAdminAcks \in Nat

VARIABLES
    snapshot,  \* event_version of the stream's reconciliation snapshot
    items,     \* reconciliation_items: [resp, version]
    events,    \* coordination_events of the chief_wake aggregates
    requests,  \* chief_wake_requests: [Wakes -> row or None]
    file,      \* the wakes directory: [Wakes -> [place, version]]
    proc,      \* [Processes -> the running pass]
    clock,     \* the wall clock in milliseconds
    crashes, adminAcks  \* counters of the bounds

ledger == <<events, requests>>
facts == <<snapshot, items>>
vars == <<snapshot, items, events, requests, file, proc, clock, crashes,
          adminAcks>>

Idle == [pc |-> "idle", queue |-> <<>>, now |-> 0]

Init ==
    /\ snapshot = 0 /\ items = {}
    /\ events = {} /\ requests = [w \in Wakes |-> None]
    /\ file = [w \in Wakes |-> [place |-> "absent", version |-> 0]]
    /\ proc = [p \in Processes |-> Idle]
    /\ clock = 0 /\ crashes = 0 /\ adminAcks = 0

-----------------------------------------------------------------------------
(* The producer, and the events of a wake's aggregate.                     *)

\* A fact is applied and the scheduler writes its wake file.
ApplyAndWake(w) ==
    /\ snapshot < MaxFacts
    /\ file[w].place = "absent"
    /\ snapshot' = snapshot + 1
    /\ items' = items \cup {[resp |-> w, version |-> snapshot + 1]}
    /\ \E d \in Offsets :
          file' = [file EXCEPT ![w] = [place |-> "disk",
                                       version |-> snapshot + 1 + d]]
    /\ UNCHANGED <<ledger, proc, clock, crashes, adminAcks>>

\* A fact is applied without a wake: an operator replays a saved manifest,
\* or the scheduler dies between the batch and the wake file.
ApplyQuietly ==
    /\ snapshot < MaxFacts
    /\ snapshot' = snapshot + 1
    /\ items' = items \cup {[resp |-> None, version |-> snapshot + 1]}
    /\ UNCHANGED <<ledger, file, proc, clock, crashes, adminAcks>>

\* Keys and ids carry the binary's prefix: "wake-supervisor-", "wake-consumer-".
Prefix(p) == IF p \in Supervisors THEN "supervisor" ELSE "consumer"

WakeEvent(prefix, w, body, at) ==
    Event(<<prefix, w, body>>, <<prefix, w, body>>, w, body, at)

RecordEvent(p, w, at) == WakeEvent(Prefix(p), w, "requested", at)
AckEvent(p, w, at) == WakeEvent(Prefix(p), w, "acked", at)

-----------------------------------------------------------------------------
(* One pass over the directory: consume_once and wake_consumer's run().    *)

Head1(p) == Head(proc[p].queue)

At(p, pc) == proc[p].pc = pc

Goto(p, pc) == proc' = [proc EXCEPT ![p].pc = pc]

\* Mutant: a file that fails is skipped and the pass goes on.
FailSkipping(p) ==
    LET rest == Tail(proc[p].queue) IN
    proc' = [proc EXCEPT ![p] =
        IF rest = <<>> THEN Idle
        ELSE [pc |-> "read", queue |-> rest, now |-> proc[p].now]]

\* Any error ends the pass; the supervisor backs off, then lists again.
Fail(p) == proc' = [proc EXCEPT ![p] = Idle]

OnDisk == {w \in Wakes : file[w].place = "disk"}

\* collect_wake_files: chief-*.json, sorted by name.
Listings ==
    {q \in SetToSeqs(OnDisk) : \A i, j \in DOMAIN q : i < j => q[i] < q[j]}

\* A consumer reads the clock (or takes any --now-ms) once for the whole run.
Collect(p) ==
    /\ At(p, "idle")
    /\ \E now \in IF p \in Supervisors THEN {clock} ELSE 0..MaxClock :
       \E q \in Listings :
          proc' = [proc EXCEPT ![p] =
              IF q = <<>> THEN Idle
              ELSE [pc |-> "read", queue |-> q, now |-> now]]
    /\ UNCHANGED <<facts, ledger, file, clock, crashes, adminAcks>>

\* fs::read_to_string fails on a file another process has renamed.  A
\* supervisor takes the time of each file here.
ReadFile(p) ==
    /\ At(p, "read")
    /\ IF Head1(p) \in OnDisk
       THEN proc' = [proc EXCEPT ![p].pc = "check",
                        ![p].now = IF p \in Supervisors THEN clock ELSE @]
       ELSE Fail(p)
    /\ UNCHANGED <<facts, ledger, file, clock, crashes, adminAcks>>

\* Mutant: the snapshot's version is compared, the item is not looked up.
BindsAnyFact(w) == file[w].version = snapshot

\* The fact a wake must name: the snapshot's version, and an applied item
\* with the wake's response at that version.
BindsFact(w) ==
    /\ file[w].version = snapshot
    /\ [resp |-> w, version |-> file[w].version] \in items

\* record_chief_wake_audited, up to its transaction.
CheckFact(p) ==
    /\ At(p, "check")
    /\ IF BindsFact(Head1(p)) THEN Goto(p, "record") ELSE Fail(p)
    /\ UNCHANGED <<facts, ledger, file, clock, crashes, adminAcks>>

\* Mutant: the event is appended, the request row is not inserted.
RecordWithoutRow(p) ==
    /\ At(p, "record")
    /\ LET w == Head1(p)  e == RecordEvent(p, w, proc[p].now) IN
       /\ Appends(events, e, 0)
       /\ events' = Append1(events, e, 0)
       /\ Goto(p, "ack")
    /\ UNCHANGED <<facts, requests, file, clock, crashes, adminAcks>>

\* The transaction of record_chief_wake_audited: append at version 0 and
\* insert the waiting row.
Record(p) ==
    /\ At(p, "record")
    /\ LET w == Head1(p)  e == RecordEvent(p, w, proc[p].now) IN
       /\ Appends(events, e, 0)
       /\ requests[w] = None
       /\ events' = Append1(events, e, 0)
       /\ requests' = [requests EXCEPT ![w] =
             [state |-> "waiting", recordedAt |-> proc[p].now,
              ackedAt |-> None, version |-> 1]]
       /\ Goto(p, "ack")
    /\ UNCHANGED <<facts, file, clock, crashes, adminAcks>>

\* The same event again, at the same millisecond, replays on its stored row.
RecordReplay(p) ==
    /\ At(p, "record")
    /\ LET w == Head1(p) IN
       /\ Replays(events, RecordEvent(p, w, proc[p].now), 0)
       /\ requests[w] # None
       /\ Goto(p, "ack")
    /\ UNCHANGED <<facts, ledger, file, clock, crashes, adminAcks>>

\* Mutant: a request that another pass left waiting is dropped, to be
\* recorded anew.
RecordFailsClearing(p) ==
    /\ At(p, "record")
    /\ LET w == Head1(p)  e == RecordEvent(p, w, proc[p].now) IN
       /\ ~Appends(events, e, 0) /\ ~Replays(events, e, 0)
       /\ requests[w] # None /\ requests[w].state = "waiting"
       /\ events' = {r \in events : r.agg # w}
       /\ requests' = [requests EXCEPT ![w] = None]
    /\ Fail(p)
    /\ UNCHANGED <<facts, file, clock, crashes, adminAcks>>

RecordFails(p) ==
    /\ At(p, "record")
    /\ LET w == Head1(p)  e == RecordEvent(p, w, proc[p].now) IN
       /\ ~(Appends(events, e, 0) /\ requests[w] = None)
       /\ ~(Replays(events, e, 0) /\ requests[w] # None)
    /\ Fail(p)
    /\ UNCHANGED <<facts, ledger, file, clock, crashes, adminAcks>>

IsWaiting(w) == requests[w] # None /\ requests[w].state = "waiting"

\* UPDATE ... SET state = 'acked' WHERE wake_id = ? AND state = 'waiting'
Acked(w, now) ==
    [requests EXCEPT ![w].state = "acked", ![w].ackedAt = now]

\* Mutant: the ack expects the version its record started from.
AckAtRecordVersion(p) ==
    /\ At(p, "ack")
    /\ LET w == Head1(p)  e == AckEvent(p, w, proc[p].now) IN
       /\ Appends(events, e, 0)
       /\ events' = Append1(events, e, 0)
       /\ requests' = Acked(w, proc[p].now)
       /\ Goto(p, "rename")
    /\ UNCHANGED <<facts, file, clock, crashes, adminAcks>>

\* The transaction of ack_chief_wake_audited.
Ack(p) ==
    /\ At(p, "ack")
    /\ LET w == Head1(p)  e == AckEvent(p, w, proc[p].now) IN
       /\ Appends(events, e, 1)
       /\ IsWaiting(w)
       /\ events' = Append1(events, e, 1)
       /\ requests' = Acked(w, proc[p].now)
       /\ Goto(p, "rename")
    /\ UNCHANGED <<facts, file, clock, crashes, adminAcks>>

AckReplays(p) ==
    LET w == Head1(p) IN
    /\ Replays(events, AckEvent(p, w, proc[p].now), 1)
    /\ requests[w] # None /\ requests[w].state = "acked"
    /\ requests[w].ackedAt = proc[p].now

\* Mutant: an ack that conflicts is taken for a replay.
AckConflictIgnored(p) ==
    /\ At(p, "ack")
    /\ Goto(p, "rename")
    /\ UNCHANGED <<facts, ledger, file, clock, crashes, adminAcks>>

AckReplay(p) ==
    /\ At(p, "ack")
    /\ AckReplays(p)
    /\ Goto(p, "rename")
    /\ UNCHANGED <<facts, ledger, file, clock, crashes, adminAcks>>

AckFails(p) ==
    /\ At(p, "ack")
    /\ ~(Appends(events, AckEvent(p, Head1(p), proc[p].now), 1)
         /\ IsWaiting(Head1(p)))
    /\ ~AckReplays(p)
    /\ Fail(p)
    /\ UNCHANGED <<facts, ledger, file, clock, crashes, adminAcks>>

\* Mutant: the pass does not notice the end of its list.
RenamePastEnd(p) ==
    /\ At(p, "rename")
    /\ file' = [file EXCEPT ![Head1(p)].place = "consumed"]
    /\ proc' = [proc EXCEPT ![p].pc = "read", ![p].queue = Tail(@)]
    /\ UNCHANGED <<facts, ledger, clock, crashes, adminAcks>>

\* mark_wake_file_consumed, and the next file of the list.  The rename fails
\* when another process has renamed the file.
Rename(p) ==
    /\ At(p, "rename")
    /\ IF Head1(p) \in OnDisk
       THEN /\ file' = [file EXCEPT ![Head1(p)].place = "consumed"]
            /\ proc' = [proc EXCEPT ![p] =
                  IF Len(proc[p].queue) = 1 THEN Idle
                  ELSE [pc |-> "read", queue |-> Tail(proc[p].queue),
                        now |-> proc[p].now]]
       ELSE Fail(p) /\ UNCHANGED file
    /\ UNCHANGED <<facts, ledger, clock, crashes, adminAcks>>

-----------------------------------------------------------------------------
(* The environment: operator, clock and crashes.                           *)

\* ascodex-wake-admin ack, with the operator's own event id and key; only
\* --expected-version 1 finds a waiting row.
AdminAck(w) ==
    /\ adminAcks < MaxAdminAcks
    /\ LET e == WakeEvent("admin", w, "acked", clock) IN
       /\ Appends(events, e, 1)
       /\ events' = Append1(events, e, 1)
    /\ IsWaiting(w)
    /\ requests' = Acked(w, clock)
    /\ adminAcks' = adminAcks + 1
    /\ UNCHANGED <<facts, file, proc, clock, crashes>>

Tick ==
    /\ clock < MaxClock
    /\ clock' = clock + 1
    /\ UNCHANGED <<facts, ledger, file, proc, crashes, adminAcks>>

\* The process dies; the ledger and the directory stay as they are.
Crash(p) ==
    /\ ~At(p, "idle") /\ crashes < MaxCrashes
    /\ crashes' = crashes + 1
    /\ proc' = [proc EXCEPT ![p] = Idle]
    /\ UNCHANGED <<facts, ledger, file, clock, adminAcks>>

\* What a pass does once it has listed the directory.
Pass(p) ==
    \/ ReadFile(p) \/ CheckFact(p)
    \/ Record(p) \/ RecordReplay(p) \/ RecordFails(p)
    \/ Ack(p) \/ AckReplay(p) \/ AckFails(p)
    \/ Rename(p)

Next ==
    \/ \E w \in Wakes : ApplyAndWake(w) \/ AdminAck(w)
    \/ ApplyQuietly
    \/ \E p \in Processes : Collect(p) \/ Pass(p) \/ Crash(p)
    \/ Tick

\* The supervisor's loop polls for ever, every back-off being at most
\* max_backoff_ms; a consumer that was started runs to its end.  Nothing
\* obliges a fact to arrive, an operator to act or a consumer to be started.
Fairness ==
    /\ \A p \in Supervisors : WF_vars(Collect(p) \/ Pass(p))
    /\ \A p \in Consumers : WF_vars(Pass(p))

Spec == Init /\ [][Next]_vars

FairSpec == Spec /\ Fairness

-----------------------------------------------------------------------------
\* Type correctness of the ledger, the directory and the passes.
TypeOK ==
    /\ snapshot \in Nat
    /\ \A i \in items : i.resp \in Wakes \cup {None} /\ i.version \in 1..snapshot
    /\ \A e \in events : e.agg \in Wakes /\ e.at \in Nat /\ e.version \in {1, 2}
    /\ requests \in [Wakes -> Request \cup {None}]
    /\ file \in [Wakes -> [place : {"absent", "disk", "consumed"},
                           version : Nat]]
    /\ proc \in [Processes ->
          [pc : {"idle", "read", "check", "record", "ack", "rename"},
           queue : Seq(Wakes), now : Nat]]
    /\ \A p \in Processes : proc[p].pc # "idle" => proc[p].queue # <<>>
    /\ clock \in Nat /\ crashes \in Nat /\ adminAcks \in Nat

(***************************************************************************)
(* Every phase is atomic with its audit event: a wake has no row and no    *)
(* event, or a waiting row and exactly a request event, or an acked row,   *)
(* exactly one request and one acknowledgement after it, the latter at the *)
(* time the row says, however record, ack, admin ack and crashes fall.     *)
(***************************************************************************)
RequestMatchesLog ==
    \A w \in Wakes :
        LET log == {[body |-> e.body, version |-> e.version, at |-> e.at] :
                       e \in {r \in events : r.agg = w}}
            row == requests[w]
            requested == [body |-> "requested", version |-> 1,
                          at |-> row.recordedAt]
            acked == [body |-> "acked", version |-> 2, at |-> row.ackedAt]
        IN  /\ row = None => log = {}
            /\ row # None /\ row.state = "waiting" =>
                  row.ackedAt = None /\ log = {requested}
            /\ row # None /\ row.state # "waiting" =>
                  log = {requested, acked}

(***************************************************************************)
(* A recorded wake names a fact that was really applied: an item with the  *)
(* wake's response at the wake's version, not only some item of the stream *)
(* (record_chief_wake_audited checks this before its transaction opens).   *)
(***************************************************************************)
WakeBindsAppliedFact ==
    \A w \in Wakes : requests[w] # None =>
        [resp |-> w, version |-> file[w].version] \in items

(***************************************************************************)
(* A file is moved aside only after the ledger holds its acknowledgement:  *)
(* no crash, race or operator step turns a wake the Chief never got into a *)
(* .consumed file, which nobody reads again.                               *)
(***************************************************************************)
ConsumedIsAcked ==
    \A w \in Wakes : file[w].place = "consumed" =>
        requests[w] # None /\ requests[w].state = "acked"

(***************************************************************************)
(* "a broken wake is not skipped silently" (supervisor.rs, consume_once):  *)
(* a pass goes on to the next file of its list only in the step in which   *)
(* the file before it is consumed; every other end of a file ends the pass *)
(* and leaves the rest of the list for the next listing.                   *)
(***************************************************************************)
NoBrokenWakeSkipped ==
    [][\A p \in Processes :
         (proc[p].pc # "idle" /\ proc'[p].queue # proc[p].queue
            /\ proc'[p].queue # <<>>)
         => file'[Head1(p)].place = "consumed"]_vars

(***************************************************************************)
(* Convergence, for the supervisors' loop: a wake file that appears is     *)
(* recorded, acknowledged and moved aside.  ("the resident loop can then   *)
(* converge", supervisor.rs, consume_once.)                                *)
(***************************************************************************)
WakeFileConsumed ==
    \A w \in Wakes : file[w].place = "disk" ~> file[w].place = "consumed"

\* What keeps the pipeline from converging: a crash or an operator's ack in
\* the middle of a pass, and a file that does not name the latest fact, where
\* every pass stops.
Disturbed ==
    \/ crashes > 0 \/ adminAcks > 0
    \/ \E w \in OnDisk : ~BindsFact(w)

(***************************************************************************)
(* Convergence as far as it goes: while nothing of that kind happens, a    *)
(* wake file is consumed, although supervisor and consumer get in each     *)
(* other's way with keys, rows and renames at every step.                  *)
(***************************************************************************)
UndisturbedWakeConsumed ==
    \A w \in Wakes :
        file[w].place = "disk" ~> (file[w].place = "consumed" \/ Disturbed)

-----------------------------------------------------------------------------
(* The refinement.                                                         *)

StageOf(w) ==
    CASE file[w].place = "consumed" -> "away"
      [] file[w].place # "consumed" /\ requests[w] # None ->
            IF requests[w].state = "acked" THEN "acked" ELSE "recorded"
      [] file[w].place = "disk" /\ requests[w] = None -> "posted"
      [] OTHER -> "none"

Delivery == INSTANCE WakeDelivery WITH
    stage <- [w \in Wakes |-> StageOf(w)],
    acks <- [w \in Wakes |->
               Cardinality({e \in events : e.agg = w /\ e.body = "acked"})]

(***************************************************************************)
(* The pipeline implements WakeDelivery: whatever processes, crashes and   *)
(* operators do, no wake skips a stage, goes back or is acknowledged twice.*)
(***************************************************************************)
ImplementsDelivery == Delivery!Spec
=============================================================================
