--------------------------- MODULE RecoveryCanary ---------------------------
(***************************************************************************)
(* Admission after a restart.  ascodex-canary-runner probes a child twice  *)
(* and records the trace of the probe in the ledger under a recovery id    *)
(* and a runtime instance id.  A solver-mode process, started with two     *)
(* such ids in its environment, looks for a passed and unexpired canary of *)
(* exactly these ids before it resumes a persisted thread: the app-server  *)
(* on thread/resume, Core when it loads a child by itself, and Core once   *)
(* more where every thread is started, but there for V1 children only.     *)
(*                                                                         *)
(* Ids are given by operators, to runner and process independently, and    *)
(* may be given again.  A runner may be told its time (--now-ms).  Times   *)
(* are in units of 10 ms.                                                  *)
(***************************************************************************)
EXTENDS CoordinationEvents, Integers, Sequences

CONSTANTS
    Recoveries,   \* recovery ids
    Runtimes,     \* runtime instance ids
    Attempts,     \* values of --recovery-attempt
    Skews,        \* --now-ms minus the real time
    Runners,      \* ascodex-canary-runner processes
    Threads,      \* threads that were persisted before the process started
    None,
    Start,        \* the time at which a behaviour begins
    Steps,        \* by how much time may pass in one step
    MaxTicks, MaxRuns, MaxBoots  \* bounds

Lead == 20        \* started_at_ms = now_ms - 200
Window == 30000   \* deadline_ms = now_ms + 5 * 60 * 1000

\* What the processes and the tables hold.
Kinds == {"root", "v1", "v2"}  \* a root thread, a child of a V1 or V2 history
Host == [recovery : Recoveries, runtime : Runtimes]
Run == [pc : {"probe", "record"}, recovery : Recoveries, runtime : Runtimes,
        attempt : Attempts, now : Int]
Phases == {"Boot", "LedgerChecked", "CanarySpawned", "InitialTurnCompleted",
           "ContinuationTurnCompleted", "CanaryPassed", "Rehydrated", "Active",
           "Failed"}
Observation == [phase : Phases, at : Int, began : Int, after : Phases \cup {None}]
Trace == [attempt : Attempts, start : Int, deadline : Int,
          events : Seq(Observation)]
Canary == [runtime : Runtimes, attempt : Attempts, trace : Trace, at : Int]

ASSUME CanaryAssumption ==
    /\ Attempts \subseteq Nat /\ Skews \subseteq Int /\ Steps \subseteq Nat
    /\ None \notin Host /\ None \notin Canary /\ None \notin Nat
    /\ Start \in Nat /\ \A s \in Skews : Start + s >= Lead
    /\ MaxTicks \in Nat /\ MaxRuns \in Nat /\ MaxBoots \in Nat

VARIABLES
    clock,
    events,    \* coordination_events of the recovery aggregates
    canaries,  \* recovery_canaries: [Recoveries -> row or None]
    kind,      \* [Threads -> Kinds], by its persisted history
    runner,    \* [Runners -> the run under way]
    host,      \* the solver-mode process: its two ids, or None
    resume,    \* [Threads -> how far the host's resume of a thread is]
    checked,   \* [Threads -> when a lookup last passed for it, or None]: history
    loaded,    \* [Threads -> when Core admitted it, or None]
    ticks, runs, boots  \* counters of the bounds

stored == <<events, canaries, kind>>
process == <<host, resume, checked, loaded>>
counters == <<ticks, runs, boots>>
vars == <<clock, events, canaries, kind, runner, host, resume, checked, loaded,
          counters>>

Idle == [pc |-> "idle"]

Init ==
    /\ clock = Start /\ events = {} /\ canaries = [r \in Recoveries |-> None]
    /\ kind \in [Threads -> Kinds]
    /\ runner = [q \in Runners |-> Idle]
    /\ host = None
    /\ resume = [t \in Threads |-> "idle"]
    /\ checked = [t \in Threads |-> None] /\ loaded = [t \in Threads |-> None]
    /\ ticks = 0 /\ runs = 0 /\ boots = 0

-----------------------------------------------------------------------------
(* The trace and its validation.                                           *)

Order == <<"Boot", "LedgerChecked", "CanarySpawned", "InitialTurnCompleted",
           "ContinuationTurnCompleted", "CanaryPassed", "Rehydrated", "Active">>

Observed(phase, at) == [phase |-> phase, at |-> at, began |-> at, after |-> None]

\* A turn ends one unit after it began and is observed by its parent at `at'.
Turn(phase, began, at) == [phase |-> phase, at |-> at, began |-> began,
                           after |-> None]

\* build_recovery_canary_trace, with the runner's start and deadline.
BuildTrace(attempt, now) ==
    LET start == now - Lead IN
    [attempt |-> attempt, start |-> start, deadline |-> now + Window,
     events |-> <<Observed("Boot", start), Observed("LedgerChecked", start + 1),
                  Observed("CanarySpawned", start + 2),
                  Turn("InitialTurnCompleted", start + 4, start + 6),
                  Turn("ContinuationTurnCompleted", start + 9, start + 11),
                  Observed("CanaryPassed", start + 13)>>]

Last(tr) == tr.events[Len(tr.events)]

\* Every phase in its place; a failure is last and names the phase before it.
PhasesInOrder(tr) ==
    \A i \in DOMAIN tr.events :
        LET e == tr.events[i] IN
        IF e.phase = "Failed"
        THEN /\ i = Len(tr.events) /\ i > 1
             /\ e.after = tr.events[i - 1].phase /\ e.after # "Active"
        ELSE i <= Len(Order) /\ e.phase = Order[i]

TimesOK(tr, now) ==
    \A i \in DOMAIN tr.events :
        /\ tr.events[i].at >= IF i = 1 THEN tr.start ELSE tr.events[i - 1].at
        /\ tr.events[i].at <= tr.deadline /\ tr.events[i].at <= now

\* validate_evidence, as far as it is about time: a turn is over when it is
\* observed, and the continuation begins after the first was observed.
TurnsOK(tr) ==
    \A i \in DOMAIN tr.events :
        LET e == tr.events[i] IN
        /\ e.phase \in {"InitialTurnCompleted", "ContinuationTurnCompleted"} =>
              e.began >= 0 /\ e.at >= e.began + 1
        /\ e.phase = "ContinuationTurnCompleted" =>
              e.began >= tr.events[i - 1].at

\* Mutant: the deadline itself is already too late.
ValidBeforeDeadline(tr, now) ==
    /\ tr.attempt > 0 /\ tr.start >= 0 /\ tr.deadline > tr.start
    /\ tr.events # <<>>
    /\ TimesOK(tr, now) /\ PhasesInOrder(tr)
    /\ now >= tr.deadline => Last(tr).phase \in {"Failed", "Active"}
    /\ TurnsOK(tr)

\* Mutant: a recovery without attempt number is accepted.
ValidAnyAttempt(tr, now) ==
    /\ tr.start >= 0 /\ tr.deadline > tr.start
    /\ tr.events # <<>>
    /\ TimesOK(tr, now) /\ PhasesInOrder(tr)
    /\ now > tr.deadline => Last(tr).phase \in {"Failed", "Active"}
    /\ TurnsOK(tr)

\* RecoveryCanaryTrace::validate.
Valid(tr, now) ==
    /\ tr.attempt > 0 /\ tr.start >= 0 /\ tr.deadline > tr.start
    /\ tr.events # <<>>
    /\ TimesOK(tr, now) /\ PhasesInOrder(tr)
    /\ now > tr.deadline => Last(tr).phase \in {"Failed", "Active"}
    /\ TurnsOK(tr)

RehydrationAllowed(tr, now) == Valid(tr, now) /\ Last(tr).phase = "CanaryPassed"

-----------------------------------------------------------------------------
(* The runner.                                                             *)

\* The command line, and now_ms; the real time unless the operator says.
StartRun(q) ==
    /\ runner[q] = Idle /\ runs < MaxRuns
    /\ runs' = runs + 1
    /\ \E r \in Recoveries, i \in Runtimes, n \in Attempts, s \in Skews :
          runner' = [runner EXCEPT ![q] =
              [pc |-> "probe", recovery |-> r, runtime |-> i, attempt |-> n,
               now |-> clock + s]]
    /\ UNCHANGED <<clock, stored, process, ticks, boots>>

\* Both turns echo their nonce.
Probe(q) ==
    /\ runner[q].pc = "probe"
    /\ runner' = [runner EXCEPT ![q].pc = "record"]
    /\ UNCHANGED <<clock, stored, process, counters>>

\* A child that panics or says nothing, an unreachable ledger, a kill.
Abort(q) ==
    /\ runner[q] # Idle
    /\ runner' = [runner EXCEPT ![q] = Idle]
    /\ UNCHANGED <<clock, stored, process, counters>>

\* Event id and key name the recovery and the runtime, not the attempt; the
\* payload is the trace.
CanaryEvent(c) ==
    Event(<<c.recovery, c.runtime>>, <<c.recovery, c.runtime>>, c.recovery,
          BuildTrace(c.attempt, c.now), c.now)

CanaryRow(c) == [runtime |-> c.runtime, attempt |-> c.attempt,
                 trace |-> BuildTrace(c.attempt, c.now), at |-> c.now]

\* Mutant: a second runtime's canary takes the place of the first one.
RecordableReplacing(c) ==
    /\ RehydrationAllowed(BuildTrace(c.attempt, c.now), c.now)
    /\ ~KeyBound(events, CanaryEvent(c).key)

\* The append at version 0, the primary key, and UNIQUE (runtime_instance_id,
\* recovery_attempt).
Recordable(c) ==
    /\ RehydrationAllowed(BuildTrace(c.attempt, c.now), c.now)
    /\ Appends(events, CanaryEvent(c), 0)
    /\ canaries[c.recovery] = None
    /\ \A r \in Recoveries : canaries[r] # None =>
          <<canaries[r].runtime, canaries[r].attempt>> # <<c.runtime, c.attempt>>

\* record_recovery_canary.
Record(q) ==
    /\ runner[q].pc = "record" /\ Recordable(runner[q])
    /\ events' = Append1(events, CanaryEvent(runner[q]), 0)
    /\ canaries' = [canaries EXCEPT ![runner[q].recovery] = CanaryRow(runner[q])]
    /\ runner' = [runner EXCEPT ![q] = Idle]
    /\ UNCHANGED <<clock, kind, process, counters>>

\* A replay ("accepted only byte-for-byte", with the same --now-ms) returns
\* the stored canary, everything else is an error; neither writes.
RecordWithoutEffect(q) ==
    /\ runner[q].pc = "record" /\ ~Recordable(runner[q])
    /\ runner' = [runner EXCEPT ![q] = Idle]
    /\ UNCHANGED <<clock, stored, process, counters>>

-----------------------------------------------------------------------------
(* The process.                                                            *)

\* ascodex.ps1 run -SolverMode -RecoveryId ... -RuntimeInstanceId ...
Boot ==
    /\ host = None /\ boots < MaxBoots
    /\ boots' = boots + 1
    /\ \E r \in Recoveries, i \in Runtimes :
          host' = [recovery |-> r, runtime |-> i]
    /\ UNCHANGED <<clock, stored, runner, resume, checked, loaded, ticks, runs>>

Die ==
    /\ host # None
    /\ host' = None
    /\ resume' = [t \in Threads |-> "idle"]
    /\ checked' = [t \in Threads |-> None] /\ loaded' = [t \in Threads |-> None]
    /\ UNCHANGED <<clock, stored, runner, counters>>

At(t, pc) == host # None /\ resume[t] = pc
Goto(t, pc) == resume' = [resume EXCEPT ![t] = pc]
Drops(t) ==
    /\ Goto(t, "idle")
    /\ checked' = [checked EXCEPT ![t] = None]
    /\ loaded' = [loaded EXCEPT ![t] = None]
Outside == <<clock, stored, runner, host, counters>>

\* Mutant: the runtime instance is not part of the lookup.
LoadableByRecovery(now) ==
    LET c == canaries[host.recovery] IN
    c # None /\ RehydrationAllowed(c.trace, now)

\* load_recovery_canary, with the ids of the environment.
Loadable(now) ==
    LET c == canaries[host.recovery] IN
    /\ c # None /\ c.runtime = host.runtime
    /\ RehydrationAllowed(c.trace, now)

\* The lookup of the process's canary lets the thread go on, or not.
Lookup(t, pc) ==
    IF Loadable(clock)
    THEN /\ Goto(t, pc) /\ checked' = [checked EXCEPT ![t] = clock]
         /\ UNCHANGED loaded
    ELSE Drops(t)

\* thread/resume, or Core resuming a child by itself.
Request(t) ==
    /\ At(t, "idle")
    /\ \/ Goto(t, "preflight")
       \/ kind[t] # "root" /\ Goto(t, "own")
    /\ UNCHANGED <<checked, loaded, Outside>>

\* ascodex_resume_canary_preflight.
Preflight(t) ==
    /\ At(t, "preflight")
    /\ Lookup(t, "contract")
    /\ UNCHANGED Outside

\* ascodex_resume_contract_preflight lets it pass; a child of a V2 history is
\* resumed through its parent.
ContractOK(t) ==
    /\ At(t, "contract")
    /\ Goto(t, IF kind[t] = "v2" THEN "own" ELSE "gate")
    /\ UNCHANGED <<checked, loaded, Outside>>

\* ensure_v2_agent_loaded and resume_single_agent_from_rollout call
\* ensure_recovery_canary_for_resume, with a time of its own.
OwnCheck(t) ==
    /\ At(t, "own")
    /\ Lookup(t, "gate")
    /\ UNCHANGED Outside

\* admit_resumed_v1_solver_thread_with_gate: V2 histories and root threads
\* return at once, only a V1 child's canary is looked up, with a new time.
Gate(t) ==
    /\ At(t, "gate")
    /\ IF kind[t] = "v1" /\ ~Loadable(clock) THEN Drops(t)
       ELSE /\ Goto(t, "bind") /\ loaded' = [loaded EXCEPT ![t] = clock]
            /\ checked' = IF kind[t] = "v1" THEN [checked EXCEPT ![t] = clock]
                                           ELSE checked
    /\ UNCHANGED Outside

\* What is left of loading it (CycleBinding's checks for a child): it runs.
Rehydrate(t) ==
    /\ At(t, "bind")
    /\ Goto(t, "running")
    /\ UNCHANGED <<checked, loaded, Outside>>

\* The ledger cannot be opened, an environment variable or the persisted
\* source is missing; contract, binding or brief refuse; or it is unloaded.
Refuse(t) ==
    /\ host # None /\ resume[t] # "idle"
    /\ Drops(t)
    /\ UNCHANGED Outside

\* thread/revert removes a loaded thread and starts it again from its history,
\* without the preflight.
Revert(t) ==
    /\ At(t, "running")
    /\ Goto(t, "gate")
    /\ loaded' = [loaded EXCEPT ![t] = None]
    /\ UNCHANGED <<checked, Outside>>

Tick ==
    /\ ticks < MaxTicks
    /\ ticks' = ticks + 1
    /\ \E d \in Steps : clock' = clock + d
    /\ UNCHANGED <<stored, runner, process, runs, boots>>

Resuming(t) ==
    \/ Preflight(t) \/ ContractOK(t) \/ OwnCheck(t) \/ Gate(t) \/ Rehydrate(t)

Next ==
    \/ \E q \in Runners :
          StartRun(q) \/ Probe(q) \/ Abort(q) \/ Record(q) \/ RecordWithoutEffect(q)
    \/ Boot \/ Die \/ Tick
    \/ \E t \in Threads : Request(t) \/ Resuming(t) \/ Refuse(t) \/ Revert(t)

Spec == Init /\ [][Next]_vars

-----------------------------------------------------------------------------
\* Type correctness of ledger, runs and process.
TypeOK ==
    /\ clock \in Nat /\ ticks \in Nat /\ runs \in Nat /\ boots \in Nat
    /\ canaries \in [Recoveries -> Canary \cup {None}]
    /\ \A r \in Recoveries : canaries[r] # None => canaries[r].attempt > 0
    /\ kind \in [Threads -> Kinds]
    /\ runner \in [Runners -> Run \cup {Idle}]
    /\ host \in Host \cup {None}
    /\ resume \in [Threads -> {"idle", "preflight", "contract", "own", "gate",
                               "bind", "running"}]
    /\ checked \in [Threads -> Nat \cup {None}]
    /\ loaded \in [Threads -> Nat \cup {None}]
    /\ \A t \in Threads :
          /\ loaded[t] # None <=> resume[t] \in {"bind", "running"}
          /\ resume[t] \in {"contract", "gate", "bind", "running"}
                => checked[t] # None
    /\ host = None => \A t \in Threads : resume[t] = "idle"

\* When a canary that was recorded at `at' is worth something.
Lifetime(at) == at - 7..at + Window

(***************************************************************************)
(* "V1/V2/Core and app-server resume require the canary before rehydrate"  *)
(* (deployment plan): for a thread that was resumed, somebody looked for a *)
(* canary of the process's own two ids and found one that was recorded,    *)
(* passed, and neither expired nor from the future at that moment.  For a  *)
(* V1 child that moment is the one of its admission, even when it is       *)
(* reverted.  For a root thread or a V2 child it may be earlier, so that   *)
(* the canary may have expired by then, and the ids need not be new: the   *)
(* canary of a process that had the same two ids before counts as well.    *)
(***************************************************************************)
ResumedUnderOwnCanary ==
    \A t \in Threads : loaded[t] # None =>
        /\ \E e \in events :
              /\ e.agg = host.recovery /\ e.id = <<host.recovery, host.runtime>>
              /\ checked[t] \in Lifetime(e.at)
        /\ kind[t] = "v1" => checked[t] = loaded[t]

(***************************************************************************)
(* record_recovery_canary appends and inserts in one transaction: the log  *)
(* of a recovery is the event of its stored canary, whichever run recorded *)
(* it, or empty.  (So a recovery has one canary at most: a repeated run is *)
(* refused, as the deployment plan says, but so is the incremented attempt *)
(* that the plan asks for instead, because the runner appends at version 0 *)
(* and the attempt is not part of the key.)                                *)
(***************************************************************************)
CanaryMatchesLog ==
    \A r \in Recoveries :
        {e \in events : e.agg = r} =
            IF canaries[r] = None THEN {}
            ELSE LET c == canaries[r] IN
                 {Row(Event(<<r, c.runtime>>, <<r, c.runtime>>, r, c.trace, c.at), 1)}

(***************************************************************************)
(* A stored canary authorises from the moment its pass was observed up to  *)
(* its deadline, both included, and at no other time, although it is       *)
(* validated anew on every lookup, with the clock of the reader.           *)
(***************************************************************************)
CanaryLifetime ==
    \A r \in Recoveries : canaries[r] # None =>
        (RehydrationAllowed(canaries[r].trace, clock)
            <=> clock \in Lifetime(canaries[r].at))
=============================================================================
