---------------------------- MODULE CycleBinding ----------------------------
(***************************************************************************)
(* Chief leases, research cycles, stage briefs and thread-cycle bindings:  *)
(* who may run which work.                                                 *)
(*                                                                         *)
(*   ledger    solver-guard/src/lib.rs (provision/revoke actor lease,      *)
(*             issue/supersede/revoke research cycle, bind/resolve thread) *)
(*   record    ascodex-coordination/src/research_cycle.rs                  *)
(*   spawn     core/src/agent/control/spawn.rs                             *)
(*   admin     solver-guard/src/bin/stage_admin.rs, lease_admin.rs         *)
(*                                                                         *)
(* Every SQL transaction is atomic, but issuing reads the lease before its *)
(* transaction, and spawning, binding and resolving are sequences of       *)
(* separate reads that end in a plain INSERT or in an admission.  Steps of *)
(* other processes fall between any two of them.                           *)
(*                                                                         *)
(* One campaign and challenge.  A lease is identified with the Chief       *)
(* thread it names (the table is UNIQUE on that identity).  A cycle's      *)
(* deadline stands for the earliest of its own and its briefs' expiry:     *)
(* validate() checks them together.                                        *)
(***************************************************************************)
EXTENDS CoordinationEvents, Sequences, FiniteSets

CONSTANTS
    Campaign,     \* the campaign aggregate
    Chiefs,       \* Chief threads, each with one lease id
    Children,     \* thread ids of spawned workers
    Cycles,       \* cycle ids
    Roles,        \* worker roles (at least the ones a record routes to)
    Decisions,    \* the records a Chief may write: [outcome, directive, roles]
    Procs,        \* processes: admin commands and Core sessions
    LeaseEnd,     \* [Chiefs -> expires_at_ms]
    Deadlines,    \* deadlines a record may carry
    None,         \* Option::None
    MaxClock,     \* bound: ticks of the clock
    MaxForeign    \* bound: campaign events of other components

\* A cycle record, the row that issues it, a binding and a call under way.
Rec == [id : Cycles, expected : Nat, deadline : Deadlines,
        outcome : {d.outcome : d \in Decisions},
        directive : {d.directive : d \in Decisions}, roles : SUBSET Roles]
CycleRow == [rec : Rec, lease : Chiefs, version : Nat, revoked : BOOLEAN]
Brief == [cycle : Cycles, role : Roles, revoked : BOOLEAN]
Binding == [thread : Chiefs \cup Children, parent : Chiefs \cup {None},
            cycle : Cycles, version : Nat, lease : Chiefs,
            role : Roles \cup {"chief"}, revoked : BOOLEAN]
Target == [thread : Chiefs \cup Children \cup {None}, parent : Chiefs \cup {None},
           cycle : Cycles \cup {None}, version : Nat, lease : Chiefs \cup {None},
           role : Roles \cup {"chief", None}]
Steps == {"commit", "cycle", "lease", "load", "parent", "brief", "insert",
          "grant"}
Call == [op : {"idle", "issue", "revoke", "root", "spawn", "resolve"},
         todo : Seq(Steps),
         rec : Rec \cup {None}, pred : Cycles \cup {None},
         chief : Chiefs \cup {None}, row : Target, brief : Cycles \cup {None},
         dead0 : SUBSET (Cycles \cup Chiefs), now : Nat, expected : Nat]

ASSUME CycleAssumption ==
    /\ LeaseEnd \in [Chiefs -> Nat]
    /\ Deadlines \subseteq Nat
    /\ \A d \in Decisions : d.roles \subseteq Roles
    /\ MaxClock \in Nat /\ MaxForeign \in Nat
    /\ Chiefs \cap Children = {} /\ Chiefs \cap Cycles = {}
    /\ None \notin Cycles /\ None \notin Chiefs /\ None \notin Children
    /\ None \notin CycleRow /\ Campaign \notin Chiefs
    /\ "chief" \notin Roles

-----------------------------------------------------------------------------
(* The record.                                                             *)

\* The directives ResearchCycleRecord::validate permits for an outcome.
Directives(outcome) ==
    CASE outcome \in {"progress", "completed"} ->
            {"continue", "replan", "begin_closure_review"}
      [] outcome \in {"blocked", "env_failure", "timeout", "inconclusive",
                      "failed_retryable", "failed_terminal"} ->
            {"replan", "abort"}
      [] outcome = "stuck" -> {"escalate_stuck_review", "abort"}
      [] outcome = "closure_candidate" -> {"begin_closure_review"}
      [] outcome = "closure_review" -> {"approve_closure"}

\* ResearchCycleRecord::validate; the evidence it carries is complete.
CycleValid(rec, now) ==
    /\ rec.deadline > now
    /\ rec.roles # {}
    /\ rec.directive \in Directives(rec.outcome)
    /\ rec.directive = "escalate_stuck_review"
          => rec.roles = {"judge_analyst", "red_team"}

\* Mutant: the optimistic version of a successor may skip.
ValidSuccessorSkipping(prev, rec, now) ==
    CycleValid(rec, now) /\ prev.id # rec.id
    /\ prev.directive \notin {"approve_closure", "abort"}

\* ResearchCycleRecord::validate_successor
ValidSuccessor(prev, rec, now) ==
    /\ CycleValid(rec, now)
    /\ prev.id # rec.id
    /\ rec.expected = prev.expected + 1
    /\ prev.directive \notin {"approve_closure", "abort"}

-----------------------------------------------------------------------------
VARIABLES
    events,     \* coordination_events
    leases,     \* actor_leases of the Chiefs: absent, active or revoked
    cycles,     \* research_cycle_issuances, by cycle id (None: no row)
    briefs,     \* stage_brief_issuances
    bindings,   \* thread_cycle_bindings
    files,      \* cycle records written for stage-admin
    live,       \* running workers, with the cycle whose brief they were given
    proc,       \* the processes
    clock

tables == <<events, leases, cycles, briefs, bindings>>
vars == <<events, leases, cycles, briefs, bindings, files, live, proc, clock>>

Version == CurrentVersion(events, Campaign)
Issued == {c \in Cycles : cycles[c] # None}
Active == {c \in Issued : ~cycles[c].revoked}
RevokedNow ==
    (Issued \ Active) \cup {l \in Chiefs : leases[l] = "revoked"}

NoRow == [thread |-> None, parent |-> None, cycle |-> None, version |-> 0,
          lease |-> None, role |-> None]

Idle == [op |-> "idle", todo |-> <<>>, rec |-> None, pred |-> None,
         chief |-> None, row |-> NoRow, brief |-> None, dead0 |-> {},
         now |-> 0, expected |-> 0]

Init ==
    /\ events = {} /\ briefs = {} /\ bindings = {} /\ files = {} /\ live = {}
    /\ leases = [l \in Chiefs |-> "absent"]
    /\ cycles = [c \in Cycles |-> None]
    /\ proc = [p \in Procs |-> Idle]
    /\ clock = 0

Tick ==
    /\ clock < MaxClock
    /\ clock' = clock + 1
    /\ UNCHANGED <<tables, files, live, proc>>

\* Another component (reconciliation, a wake) appends to the campaign.
ForeignEvent ==
    /\ Cardinality({e \in events : e.body.type = "foreign"}) < MaxForeign
    /\ LET id == <<"foreign", Version>>
           e == Event(id, id, Campaign,
                      [type |-> "foreign", cycle |-> None, pred |-> None], 0)
       IN  /\ Appends(events, e, Version)
           /\ events' = Append1(events, e, Version)
    /\ UNCHANGED <<leases, cycles, briefs, bindings, files, live, proc, clock>>

-----------------------------------------------------------------------------
(* Leases.  A row is never replaced: the identity is unique for ever.      *)
(* Nothing compares the time of a lease event or a foreign one: it is 0.   *)

LeaseEvent(l, type) ==
    Event(<<type, l>>, <<type, l>>, l,
          [type |-> type, cycle |-> None, pred |-> None], 0)

\* provision_actor_context_audited
ProvisionLease(l) ==
    /\ leases[l] = "absent" /\ clock < LeaseEnd[l]
    /\ Appends(events, LeaseEvent(l, "provisioned"), 0)
    /\ events' = Append1(events, LeaseEvent(l, "provisioned"), 0)
    /\ leases' = [leases EXCEPT ![l] = "active"]
    /\ UNCHANGED <<cycles, briefs, bindings, files, live, proc, clock>>

\* revoke_actor_lease_audited
RevokeLease(l) ==
    /\ leases[l] = "active"
    /\ Appends(events, LeaseEvent(l, "lease_revoked"), 1)
    /\ events' = Append1(events, LeaseEvent(l, "lease_revoked"), 1)
    /\ leases' = [leases EXCEPT ![l] = "revoked"]
    /\ UNCHANGED <<cycles, briefs, bindings, files, live, proc, clock>>

\* resolve_chief_context_for_action
LeaseOK(l, now) == leases[l] = "active" /\ now < LeaseEnd[l]

-----------------------------------------------------------------------------
(* Cycles: stage-admin issue, supersede, revoke.                           *)

\* The Chief writes a record against the version it sees.
WriteRecord ==
    /\ \E c \in Cycles, d \in Decisions, t \in Deadlines :
          /\ \A f \in files : f.id # c
          /\ files' = files \cup
                {[id |-> c, expected |-> Version, deadline |-> t,
                  outcome |-> d.outcome, directive |-> d.directive,
                  roles |-> d.roles]}
    /\ UNCHANGED <<tables, live, proc, clock>>

\* issue_research_cycle_internal up to its transaction: the lease is resolved
\* and the record validated.
StartIssue(p) ==
    /\ proc[p] = Idle
    /\ \E l \in Chiefs, rec \in files, pred \in Cycles \cup {None} :
          /\ LeaseOK(l, clock) /\ CycleValid(rec, clock)
          /\ pred # rec.id
          /\ proc' = [proc EXCEPT ![p] =
                [Idle EXCEPT !.op = "issue", !.todo = <<"commit">>,
                             !.rec = rec, !.pred = pred, !.chief = l,
                             !.now = clock]]
    /\ UNCHANGED <<tables, files, live, clock>>

IssueEvent(q) ==
    LET key == <<"issue", q.rec.id>> IN
    Event(key, key, Campaign,
          [type  |-> IF q.pred = None THEN "issued" ELSE "superseded",
           cycle |-> q.rec.id, pred |-> q.pred], q.now)

\* Mutant: briefs and bindings of the predecessor stay active.
DroppedWithoutRows(rows, c) == rows

\* UPDATE ... SET revoked_at_ms WHERE cycle_id = ? AND revoked_at_ms IS NULL
Dropped(rows, c) ==
    {[r EXCEPT !.revoked = r.revoked \/ r.cycle = c] : r \in rows}

\* No active row for the thread (thread_cycle_active_idx).
ThreadFree(rows, thread) == \A r \in rows : r.thread = thread => r.revoked

\* Mutant: an issue does not look for an active cycle.
IssuableBesideActive(q) ==
    /\ Appends(events, IssueEvent(q), q.rec.expected)
    /\ q.rec.id \notin Issued
    /\ q.pred # None => Active = {q.pred}
          /\ ValidSuccessor(cycles[q.pred].rec, q.rec, q.now)
    /\ ThreadFree(Dropped(bindings, q.pred), q.chief)

\* What the transaction demands before it inserts.
Issuable(q) ==
    /\ Appends(events, IssueEvent(q), q.rec.expected)
    /\ q.rec.id \notin Issued
    /\ IF q.pred = None THEN Active = {}
       ELSE /\ Active = {q.pred}
            /\ ValidSuccessor(cycles[q.pred].rec, q.rec, q.now)
    /\ ThreadFree(Dropped(bindings, q.pred), q.chief)

\* The event, the predecessor's revocation, the cycle, the root binding and
\* the briefs, in one transaction.
CommitIssue(p) ==
    /\ proc[p].op = "issue"
    /\ LET q == proc[p]  v == q.rec.expected + 1  c == q.rec.id IN
       /\ Issuable(q)
       /\ events' = Append1(events, IssueEvent(q), q.rec.expected)
       /\ cycles' = [d \in Cycles |->
             IF d = c THEN [rec |-> q.rec, lease |-> q.chief, version |-> v,
                            revoked |-> FALSE]
             ELSE IF d = q.pred THEN [cycles[d] EXCEPT !.revoked = TRUE]
             ELSE cycles[d]]
       /\ briefs' = Dropped(briefs, q.pred) \cup
             {[cycle |-> c, role |-> r, revoked |-> FALSE] : r \in q.rec.roles}
       /\ bindings' = Dropped(bindings, q.pred) \cup
             {[thread |-> q.chief, parent |-> None, cycle |-> c,
               version |-> v, lease |-> q.chief, role |-> "chief",
               revoked |-> FALSE]}
    /\ proc' = [proc EXCEPT ![p] = Idle]
    /\ UNCHANGED <<leases, files, live, clock>>

\* revoke_research_cycle_audited up to its transaction.
StartRevoke(p) ==
    /\ proc[p] = Idle
    /\ \E l \in Chiefs, c \in Issued :
          /\ LeaseOK(l, clock)
          /\ proc' = [proc EXCEPT ![p] =
                [Idle EXCEPT !.op = "revoke", !.todo = <<"commit">>,
                             !.pred = c, !.chief = l, !.now = clock,
                             !.expected = Version]]
    /\ UNCHANGED <<tables, files, live, clock>>

RevokeEvent(q) ==
    LET key == <<"revoke", q.pred>> IN
    Event(key, key, Campaign,
          [type |-> "revoked", cycle |-> q.pred, pred |-> None], q.now)

Revocable(q) ==
    /\ Appends(events, RevokeEvent(q), q.expected)
    /\ q.pred \in Active

CommitRevoke(p) ==
    /\ proc[p].op = "revoke"
    /\ LET q == proc[p] IN
       /\ Revocable(q)
       /\ events' = Append1(events, RevokeEvent(q), q.expected)
       /\ cycles' = [cycles EXCEPT ![q.pred].revoked = TRUE]
       /\ briefs' = Dropped(briefs, q.pred)
       /\ bindings' = Dropped(bindings, q.pred)
    /\ proc' = [proc EXCEPT ![p] = Idle]
    /\ UNCHANGED <<leases, files, live, clock>>

\* A version conflict, a used key or an illegal transition rolls back; a
\* replay of a committed request returns without a change.
CommitWithoutEffect(p) ==
    /\ \/ proc[p].op = "issue" /\ ~Issuable(proc[p])
       \/ proc[p].op = "revoke" /\ ~Revocable(proc[p])
    /\ proc' = [proc EXCEPT ![p] = Idle]
    /\ UNCHANGED <<tables, files, live, clock>>

-----------------------------------------------------------------------------
(* Bindings.  "todo" lists the ledger reads a call still has to make.      *)

Current(rows, thread, role) ==
    {r \in rows : r.thread = thread /\ r.role = role /\ ~r.revoked}

Columns(r) ==
    [thread |-> r.thread, parent |-> r.parent, cycle |-> r.cycle,
     version |-> r.version, lease |-> r.lease, role |-> r.role]

\* The child's row: the cycle, version and lease of its parent's.
ChildRow(r, child, parent, role) ==
    [thread |-> child, parent |-> parent, cycle |-> r.cycle,
     version |-> r.version, lease |-> r.lease, role |-> role]

\* bind_root_thread_to_cycle: the lease, then the cycle, then the INSERT.
StartRoot(p) ==
    /\ proc[p] = Idle
    /\ \E l \in Chiefs, c \in Issued :
          /\ LeaseOK(l, clock)
          /\ proc' = [proc EXCEPT ![p] =
                [Idle EXCEPT !.op = "root", !.todo = <<"cycle", "insert">>,
                    !.now = clock, !.dead0 = RevokedNow, !.chief = l,
                    !.row = [thread |-> l, parent |-> None, cycle |-> c,
                             version |-> cycles[c].version, lease |-> l,
                             role |-> "chief"]]]
    /\ UNCHANGED <<tables, files, live, clock>>

\* spawn: authorize_solver_spawn_from_chief (the parent's binding, its cycle,
\* the Chief lease and the cycle again), load_stage_brief_for_spawn, then
\* bind_child_thread_to_cycle, which reads the parent's binding afresh.
StartSpawn(p) ==
    /\ proc[p] = Idle
    /\ \E l \in Chiefs, child \in Children, role \in Roles :
       \E r \in Current(bindings, l, "chief") :
          /\ \A b \in bindings : b.thread # child
          /\ \A q \in Procs : proc[q].row.thread # child
          /\ proc' = [proc EXCEPT ![p] =
                [Idle EXCEPT !.op = "spawn",
                    !.todo = <<"cycle", "lease", "cycle", "load", "parent",
                               "cycle", "brief", "insert">>,
                    !.now = clock, !.dead0 = RevokedNow, !.chief = l,
                    !.row = ChildRow(r, child, l, role)]]
    /\ UNCHANGED <<tables, files, live, clock>>

\* resolve_thread_cycle_binding, for a worker's resume or submission.
StartResolve(p) ==
    /\ proc[p] = Idle
    /\ \E r \in bindings :
          /\ ~r.revoked
          /\ proc' = [proc EXCEPT ![p] =
                [Idle EXCEPT !.op = "resolve",
                    !.todo = IF r.role = "chief" THEN <<"cycle", "grant">>
                             ELSE <<"cycle", "brief", "grant">>,
                    !.now = clock, !.dead0 = RevokedNow, !.row = Columns(r)]]
    /\ UNCHANGED <<tables, files, live, clock>>

\* Mutant: the row is found without "revoked_at_ms IS NULL".
CycleOKIgnoringRevocation(row, now) ==
    /\ row.cycle \in Issued
    /\ cycles[row.cycle].lease = row.lease
    /\ cycles[row.cycle].version = row.version
    /\ CycleValid(cycles[row.cycle].rec, now)

\* load_active_cycle_for_binding
CycleOK(row, now) ==
    /\ row.cycle \in Active
    /\ cycles[row.cycle].lease = row.lease
    /\ cycles[row.cycle].version = row.version
    /\ CycleValid(cycles[row.cycle].rec, now)

\* Mutant: any brief of the cycle will do.
BriefOKForAnyRole(row, now) == row.cycle \in Active

\* load_stage_brief_issuance
BriefOK(row, now) ==
    /\ row.cycle \in Active
    /\ CycleValid(cycles[row.cycle].rec, now)
    /\ [cycle |-> row.cycle, role |-> row.role, revoked |-> FALSE] \in briefs

Doing(p, step) == proc[p].todo # <<>> /\ Head(proc[p].todo) = step

Proceed(p, row, brief, now) ==
    proc' = [proc EXCEPT ![p] = [proc[p] EXCEPT
                !.todo = Tail(proc[p].todo), !.row = row, !.brief = brief,
                !.now = now]]

CheckCycle(p) ==
    /\ Doing(p, "cycle") /\ CycleOK(proc[p].row, proc[p].now)
    /\ Proceed(p, proc[p].row, proc[p].brief, proc[p].now)
    /\ UNCHANGED <<tables, files, live, clock>>

\* resolve_chief_spawn_context: the Chief lease must be the binding's.
CheckLease(p) ==
    /\ Doing(p, "lease") /\ LeaseOK(proc[p].row.lease, proc[p].now)
    /\ proc[p].row.lease = proc[p].chief
    /\ Proceed(p, proc[p].row, proc[p].brief, proc[p].now)
    /\ UNCHANGED <<tables, files, live, clock>>

\* load_stage_brief_for_spawn: the brief the child will be started with.
LoadBrief(p) ==
    /\ Doing(p, "load") /\ BriefOK(proc[p].row, clock)
    /\ Proceed(p, proc[p].row, proc[p].row.cycle, clock)
    /\ UNCHANGED <<tables, files, live, clock>>

\* bind_child_thread_to_cycle reads the parent's active Chief binding.
ReadParent(p) ==
    /\ Doing(p, "parent")
    /\ \E r \in Current(bindings, proc[p].chief, "chief") :
          Proceed(p, ChildRow(r, proc[p].row.thread, proc[p].chief,
                              proc[p].row.role),
                  proc[p].brief, clock)
    /\ UNCHANGED <<tables, files, live, clock>>

CheckBrief(p) ==
    /\ Doing(p, "brief") /\ BriefOK(proc[p].row, proc[p].now)
    /\ Proceed(p, proc[p].row, proc[p].brief, proc[p].now)
    /\ UNCHANGED <<tables, files, live, clock>>

\* Mutant: two columns of the INSERT are bound in the wrong order.
StoredSwapped(row) ==
    [thread |-> row.parent, parent |-> row.thread, cycle |-> row.cycle,
     version |-> row.version, lease |-> row.lease, role |-> row.role,
     revoked |-> FALSE]

Stored(row) ==
    [thread |-> row.thread, parent |-> row.parent, cycle |-> row.cycle,
     version |-> row.version, lease |-> row.lease, role |-> row.role,
     revoked |-> FALSE]

\* insert_thread_cycle_binding: a plain INSERT.  A spawned child then runs.
InsertBinding(p) ==
    /\ Doing(p, "insert")
    /\ ThreadFree(bindings, proc[p].row.thread)
    /\ bindings' = bindings \cup {Stored(proc[p].row)}
    /\ live' = IF proc[p].op = "spawn"
               THEN live \cup {[thread |-> proc[p].row.thread,
                                brief  |-> proc[p].brief]}
               ELSE live
    /\ proc' = [proc EXCEPT ![p] = Idle]
    /\ UNCHANGED <<events, leases, cycles, briefs, files, clock>>

\* A check fails: the call is refused and a child that was started is shut down.
Refused(p) ==
    \/ Doing(p, "cycle") /\ ~CycleOK(proc[p].row, proc[p].now)
    \/ Doing(p, "lease") /\ ~LeaseOK(proc[p].row.lease, proc[p].now)
    \/ Doing(p, "load") /\ ~BriefOK(proc[p].row, clock)
    \/ Doing(p, "parent") /\ Current(bindings, proc[p].chief, "chief") = {}
    \/ Doing(p, "brief") /\ ~BriefOK(proc[p].row, proc[p].now)
    \/ Doing(p, "insert") /\ ~ThreadFree(bindings, proc[p].row.thread)

\* The call ends: refused, or (for a resolve) admitted.
EndCall(p) ==
    /\ Refused(p) \/ Doing(p, "grant")
    /\ proc' = [proc EXCEPT ![p] = Idle]
    /\ UNCHANGED <<tables, files, live, clock>>

\* revoke_thread_cycle_binding
RevokeThread ==
    /\ \E r \in bindings :
          /\ ~r.revoked
          /\ bindings' = (bindings \ {r}) \cup {[r EXCEPT !.revoked = TRUE]}
    /\ UNCHANGED <<events, leases, cycles, briefs, files, live, proc, clock>>

ProcStep(p) ==
    \/ StartIssue(p) \/ CommitIssue(p) \/ StartRevoke(p) \/ CommitRevoke(p)
    \/ CommitWithoutEffect(p) \/ StartRoot(p) \/ StartSpawn(p)
    \/ StartResolve(p) \/ CheckCycle(p) \/ CheckLease(p) \/ LoadBrief(p)
    \/ ReadParent(p) \/ CheckBrief(p) \/ InsertBinding(p) \/ EndCall(p)

Next ==
    \/ Tick \/ ForeignEvent \/ WriteRecord \/ RevokeThread
    \/ \E l \in Chiefs : ProvisionLease(l) \/ RevokeLease(l)
    \/ \E p \in Procs : ProcStep(p)

Spec == Init /\ [][Next]_vars

-----------------------------------------------------------------------------
\* Type correctness of the tables and the processes.
TypeOK ==
    /\ leases \in [Chiefs -> {"absent", "active", "revoked"}]
    /\ cycles \in [Cycles -> CycleRow \cup {None}]
    /\ briefs \subseteq Brief /\ bindings \subseteq Binding
    /\ files \subseteq Rec
    /\ live \subseteq [thread : Children, brief : Cycles]
    /\ \A e \in events : e.agg \in Chiefs \cup {Campaign} /\ e.version \in Nat
    /\ proc \in [Procs -> Call]
    /\ clock \in Nat

(***************************************************************************)
(* The audit log explains the tables: replaying the campaign's events in   *)
(* version order yields exactly the active cycle, which is the one of the  *)
(* last event that is about a cycle, unless that revoked it.  There is     *)
(* never more than one, whoever issues, supersedes and revokes             *)
(* concurrently (issue_research_cycle_internal, revoke_research_cycle).    *)
(***************************************************************************)
ActiveCycleIsReplay ==
    LET decided == {e \in events : e.agg = Campaign /\ e.body.type # "foreign"}
        last == {e \in decided : \A d \in decided : d.version <= e.version}
    IN  Active = {e.body.cycle : e \in {d \in last : d.body.type # "revoked"}}

(***************************************************************************)
(* A successor is the very next campaign event after its predecessor's,    *)
(* and its predecessor was neither an abort nor an approved closure and    *)
(* stays revoked (supersede_research_cycle_audited, validate_successor).   *)
(***************************************************************************)
SupersessionLegal ==
    \A e \in events : e.body.type = "superseded" =>
        LET prev == cycles[e.body.pred] IN
        /\ prev # None /\ prev.revoked
        /\ e.version = prev.version + 1
        /\ prev.rec.directive \notin {"approve_closure", "abort"}

(***************************************************************************)
(* "a stale decision cannot create an orphaned brief that a worker may     *)
(* later load": an active brief belongs to the active cycle, and only      *)
(* roles the Chief routed have one.                                        *)
(***************************************************************************)
NoOrphanBrief ==
    \A b \in briefs : ~b.revoked =>
        b.cycle \in Active /\ b.role \in cycles[b.cycle].rec.roles

(***************************************************************************)
(* A binding is genuine: it names an issued cycle with that cycle's lease  *)
(* and version; a Chief row is the lease's own thread; a worker row hangs  *)
(* off the Chief that issued the cycle, in a role the cycle routes to.  A  *)
(* running worker was given a brief that the same Chief issued for its     *)
(* role, at a version not after its binding's (a supersede may fall in     *)
(* between, so the two need not be the same cycle).  Holds although every  *)
(* check was made before the INSERT, in other reads.                       *)
(***************************************************************************)
BindingIsGenuine ==
    \A b \in bindings :
        /\ b.cycle \in Issued
        /\ b.lease = cycles[b.cycle].lease /\ b.version = cycles[b.cycle].version
        /\ IF b.role = "chief" THEN b.thread = b.lease /\ b.parent = None
           ELSE b.parent = b.lease /\ b.role \in cycles[b.cycle].rec.roles
        /\ \A a \in live : a.thread = b.thread =>
              LET given == cycles[a.brief] IN
              /\ given.lease = b.parent /\ given.version <= b.version
              /\ b.role \in given.rec.roles

(***************************************************************************)
(* "active cycle and role brief checks make revoke/supersede immediately   *)
(* deny": a resolve or a spawn that began after a cycle was revoked is     *)
(* never admitted to it, stale bindings notwithstanding; and a spawn that  *)
(* began after the lease was revoked starts no worker.                     *)
(***************************************************************************)
RevokedIsDenied ==
    \A p \in Procs :
        Doing(p, "grant") \/ Doing(p, "insert") =>
            /\ proc[p].row.cycle \notin proc[p].dead0
            /\ proc[p].op = "spawn" => proc[p].row.lease \notin proc[p].dead0

(***************************************************************************)
(* Closure approval immediately follows a closure review.                  *)
(***************************************************************************)
ClosureFollowsReview ==
    \A e \in events :
        (/\ e.body.type = "superseded"
         /\ cycles[e.body.cycle].rec.directive = "approve_closure")
        => cycles[e.body.pred].rec.directive = "begin_closure_review"
=============================================================================
