---------------------------- MODULE Reservations ----------------------------
(***************************************************************************)
(* The submission broker: who may hold a reservation, and when it ends.    *)
(*                                                                         *)
(* A submission (the solver_guard_submit tool of Core) resolves its        *)
(* identity in the ledger's pool, passes the policy's gates and its cycle  *)
(* binding, reserves budget, cadence and identity quota in one transaction *)
(* and releases the reservation in another; an executor commits it         *)
(* instead.  Operators change the pool (ascodex-pool-admin) meanwhile.     *)
(* The pool is read before the transaction, in two queries, and the time   *)
(* of the submission is read before both.                                  *)
(*                                                                         *)
(* A transaction is one step: SQLite serialises writers and refuses one    *)
(* whose reads are out of date.  Costs are whole dollars, times and        *)
(* intervals share one unit.  An identity stands for its pool key (name,   *)
(* challenge, owner, class).                                               *)
(***************************************************************************)
EXTENDS CoordinationEvents, Integers, FiniteSets

CONSTANTS
    Identities,     \* pool keys
    Challenge,      \* [Identities -> challenge id]
    Owner,          \* [Identities -> owner]
    Yaml,           \* the policy file's pool: [Identities -> entry or None]
    LegacyIdentity, \* policy.identity, used when there is no pool at all
    Quotas,         \* quotas an operator may provision
    Submitters,     \* submissions in flight
    Executors,      \* the submitters that may commit
    Ids,            \* reservation ids
    Costs,          \* estimated costs of requests
    Budget,         \* cadence.max_estimated_cost_usd
    MinInterval,    \* cadence.min_interval_seconds
    CallerBudgets,  \* budgets that callers of the ledger's API bring
    CallerIntervals,\* cadence intervals that they bring
    None,
    MaxDisturbances \* bound: ticks, pool events, callers' rows and crashes

\* What the tables and a submission hold.
Entry == [frozen : BOOLEAN, quota : Quotas]
PoolRow == [frozen : BOOLEAN, quota : Quotas, removed : BOOLEAN]
States == {"reserved", "released", "committed"}
Challenges == {Challenge[i] : i \in Identities}
Owners == {Owner[i] : i \in Identities}
Reservation == [state : States, challenge : Challenges, owner : Owners,
                identity : Identities \cup {None}, cost : Costs, at : Nat]
Attempt == [state : States, challenge : Challenges, owner : Owners, at : Nat]
Request == [pc : {"idle", "exists", "entry", "prepare", "held"},
            identity : Identities \cup {None}, cost : Nat, now : Nat,
            entry : Entry \cup {None}, id : Ids \cup {None}, barred : BOOLEAN]

ASSUME ReservationAssumption ==
    /\ None \notin Identities /\ None \notin Quotas /\ None \notin Entry
    /\ None \notin PoolRow /\ None \notin Reservation /\ None \notin Attempt
    /\ Costs \subseteq Nat /\ Budget \in Nat /\ MinInterval \in Nat
    /\ CallerBudgets \subseteq Nat /\ CallerIntervals \subseteq Nat
    /\ Executors \subseteq Submitters
    /\ \A q \in Quotas : /\ q.cost \in Nat \cup {None}
                         /\ q.concurrent \in (Nat \ {0}) \cup {None}
                         /\ q.interval \in Nat \cup {None}
    /\ Yaml \in [Identities -> Entry \cup {None}]
    /\ MaxDisturbances \in Nat

VARIABLES
    events,        \* coordination_events of the identity_pool aggregates
    pool,          \* identity_pool_entries: [Identities -> row or None]
    given,         \* [Identities -> the quotas it has ever had]: history
    reservations,  \* [Ids -> reservations row with its dimensions, or None]
    attempts,      \* [Ids -> attempts row or None]
    proc,          \* [Submitters -> the submission]
    clock,
    crashes        \* counter of the bound

vars == <<events, pool, given, reservations, attempts, proc, clock, crashes>>

Idle == [pc |-> "idle", identity |-> None, cost |-> 0, now |-> 0,
         entry |-> None, id |-> None, barred |-> FALSE]

Init ==
    /\ events = {}
    /\ pool = [i \in Identities |-> None]
    /\ given = [i \in Identities |->
                  IF Yaml[i] = None THEN {} ELSE {Yaml[i].quota}]
    /\ reservations = [r \in Ids |-> None]
    /\ attempts = [r \in Ids |-> None]
    /\ proc = [p \in Submitters |-> Idle]
    /\ clock = 0 /\ crashes = 0

\* Rows of the ledger's own callers, which have no dimensions.
Bare == {r \in Ids : reservations[r] # None /\ reservations[r].identity = None}

\* The bound on what happens around submissions, in any mixture.
MayDisturb ==
    clock + Cardinality(events) + Cardinality(Bare) + crashes < MaxDisturbances

Tick ==
    /\ MayDisturb
    /\ clock' = clock + 1
    /\ UNCHANGED <<events, pool, given, reservations, attempts, proc, crashes>>

-----------------------------------------------------------------------------
(* The pool and its administration.                                        *)

IsActive(i) == pool[i] # None /\ ~pool[i].removed

\* identity_pool_entries WHERE removed_at_ms IS NULL
ActiveEntries == {i \in Identities : IsActive(i)}

\* ascodex-pool-admin appends at the version it is given, the current one.
\* (No property is about the event's time.)
PoolEvent(i, type) ==
    LET v == CurrentVersion(events, i) IN
    Event(<<i, v>>, <<i, v>>, i, type, 0)

Audited(i, type) ==
    LET v == CurrentVersion(events, i) IN
    /\ MayDisturb
    /\ Appends(events, PoolEvent(i, type), v)
    /\ events' = Append1(events, PoolEvent(i, type), v)

\* The pool denies an identity whose entry is frozen, or that has none while
\* others do.
Barred(rows, i) ==
    IF rows[i] # None /\ ~rows[i].removed THEN rows[i].frozen
    ELSE \E j \in Identities : rows[j] # None /\ ~rows[j].removed

\* History, not code: whether a submission's identity was barred when it began
\* and has been ever since.
StillBarred(rows) ==
    [p \in Submitters |->
        [proc[p] EXCEPT !.barred =
            proc[p].barred /\ Barred(rows, proc[p].identity)]]

\* provision_identity_pool_entry_audited: the desired state, reactivating a
\* removed entry.
Provision(i) ==
    /\ Audited(i, "provisioned")
    /\ \E f \in BOOLEAN, q \in Quotas :
          /\ pool' = [pool EXCEPT ![i] =
                [frozen |-> f, quota |-> q, removed |-> FALSE]]
          /\ given' = [given EXCEPT ![i] = @ \cup {q}]
    /\ proc' = StillBarred(pool')
    /\ UNCHANGED <<reservations, attempts, clock, crashes>>

\* set_identity_pool_frozen_audited
SetFrozen(i, f) ==
    /\ Audited(i, IF f THEN "frozen" ELSE "thawed")
    /\ IsActive(i)
    /\ pool' = [pool EXCEPT ![i].frozen = f]
    /\ proc' = StillBarred(pool')
    /\ UNCHANGED <<given, reservations, attempts, clock, crashes>>

\* Mutant: the removal is audited, the row stays active.
RemoveEventOnly(i) ==
    /\ Audited(i, "removed")
    /\ IsActive(i)
    /\ UNCHANGED <<pool, given, proc, reservations, attempts, clock, crashes>>

\* remove_identity_pool_entry_audited
Remove(i) ==
    /\ Audited(i, "removed")
    /\ IsActive(i)
    /\ pool' = [pool EXCEPT ![i].removed = TRUE]
    /\ proc' = StillBarred(pool')
    /\ UNCHANGED <<given, reservations, attempts, clock, crashes>>

-----------------------------------------------------------------------------
(* The gates of a submission.                                              *)

\* The tool is called: trusted time, identity and cost of the request.
Start(p) ==
    /\ proc[p].pc = "idle"
    /\ \E i \in Identities, c \in Costs :
          proc' = [proc EXCEPT ![p] =
              [pc |-> "exists", identity |-> i, cost |-> c, now |-> clock,
               entry |-> None, id |-> None, barred |-> Barred(pool, i)]]
    /\ UNCHANGED <<events, pool, given, reservations, attempts, clock, crashes>>

End(p) == proc' = [proc EXCEPT ![p] = Idle]

\* The pool the policy holds after resolve_identity_pool: the ledger's entry
\* alone, or the file's entries.
PolicyEntry(q) == IF q.entry # None THEN q.entry ELSE Yaml[q.identity]

PolicyPoolEmpty(q) ==
    q.entry = None /\ \A i \in Identities : Yaml[i] = None

\* Mutant: a frozen entry is admitted.
AdmitsFrozen(q) ==
    /\ q.cost <= Budget
    /\ IF PolicyPoolEmpty(q) THEN q.identity = LegacyIdentity
       ELSE PolicyEntry(q) # None

\* Policy::admit, the identity and cost gates.
Admits(q) ==
    /\ q.cost <= Budget
    /\ IF PolicyPoolEmpty(q) THEN q.identity = LegacyIdentity
       ELSE PolicyEntry(q) # None /\ ~PolicyEntry(q).frozen

\* Admission follows the query at once: no await lies between them.
Admission(p, q) ==
    IF Admits(q)
    THEN proc' = [proc EXCEPT ![p] = [q EXCEPT !.pc = "prepare"]]
    ELSE End(p)

\* resolve_identity_pool, first query: is any entry active?
PoolExists(p) ==
    /\ proc[p].pc = "exists"
    /\ IF ActiveEntries = {} THEN Admission(p, proc[p])
       ELSE proc' = [proc EXCEPT ![p].pc = "entry"]
    /\ UNCHANGED <<events, pool, given, reservations, attempts, clock, crashes>>

\* resolve_identity_pool, second query (get_identity_pool_entry): an identity
\* that is not bound fails closed; the entry found becomes the policy's whole pool.
PoolEntry(p) ==
    /\ proc[p].pc = "entry"
    /\ LET i == proc[p].identity
           e == [frozen |-> pool[i].frozen, quota |-> pool[i].quota]
       IN  IF IsActive(i) THEN Admission(p, [proc[p] EXCEPT !.entry = e])
           ELSE End(p)
    /\ UNCHANGED <<events, pool, given, reservations, attempts, clock, crashes>>

-----------------------------------------------------------------------------
(* SubmissionBroker::prepare and reserve_with_identity_quota.              *)

Rows == {r \in Ids : reservations[r] # None}
InState(S) == {r \in Rows : reservations[r].state \in S}
Reserved == InState({"reserved"})
Live == InState({"reserved", "committed"})

\* SUM(estimated_cost): as many as there are dollars in the rows.
Dollars(S) == UNION {{r} \X (1..reservations[r].cost) : r \in S}
Cost(S) == Cardinality(Dollars(S))

\* Rows of the identity: those with a reservation_dimensions row for it.
Of(i, S) == {r \in S : reservations[r].identity = i}

Unclassified == Of(None, Reserved)

OfChallenge(c, S) == {r \in S : reservations[r].challenge = c}

\* Mutant: a submission before the latest one counts as far from it.
SpacedAbsolutely(now, times, interval) ==
    \A t \in times : now - t >= interval \/ t > now

\* now - MAX(times) < interval is refused, also when it is negative.
Spaced(now, times, interval) == \A t \in times : now - t >= interval

\* Mutant: the row about to be inserted is not counted.
QuotaAdmitsOneMore(q, i, cost, now) ==
    /\ Unclassified = {}
    /\ q.concurrent # None => Cardinality(Of(i, Reserved)) <= q.concurrent

\* The identity's limits, if the policy had a pool.
QuotaAdmits(q, i, cost, now) ==
    /\ Unclassified = {}
    /\ q.cost # None => Cost(Of(i, Reserved)) + cost <= q.cost
    /\ q.concurrent # None => Cardinality(Of(i, Reserved)) < q.concurrent
    /\ q.interval \notin {None, 0} =>
          Spaced(now, {reservations[r].at : r \in Of(i, Live)}, q.interval)

\* Mutant: the request's own cost is left out of the budget check.
WithinBudgetBefore(c, cost, budget) == Cost(OfChallenge(c, Reserved)) <= budget

WithinBudget(c, cost, budget) == Cost(OfChallenge(c, Reserved)) + cost <= budget

\* SELECT ... FROM attempts WHERE challenge AND owner AND state IN (...)
Times(c, o) ==
    {attempts[r].at : r \in {r \in Ids :
        /\ attempts[r] # None /\ attempts[r].challenge = c
        /\ attempts[r].owner = o
        /\ attempts[r].state \in {"reserved", "committed"}}}

\* The checks of the transaction that need no quota, in its order: budget and
\* interval are the caller's.
Reservable(c, o, cost, now, budget, interval) ==
    /\ WithinBudget(c, cost, budget)
    /\ interval > 0 => Spaced(now, Times(c, o), interval)

Insert(r, c, o, i, cost, now) ==
    /\ reservations' = [reservations EXCEPT ![r] =
          [state |-> "reserved", challenge |-> c, owner |-> o,
           identity |-> i, cost |-> cost, at |-> now]]
    /\ attempts' = [attempts EXCEPT ![r] =
          [state |-> "reserved", challenge |-> c, owner |-> o, at |-> now]]

QuotaOf(q) == IF PolicyPoolEmpty(q) THEN None ELSE PolicyEntry(q).quota

\* prepare(): the policy admits again, and the rows are inserted.  From here
\* on the submission uses nothing it read, only the reservation's id.
Prepare(p) ==
    /\ proc[p].pc = "prepare"
    /\ LET q == proc[p]  c == Challenge[q.identity]  o == Owner[q.identity] IN
       \E r \in Ids \ Rows :
          /\ Reservable(c, o, q.cost, q.now, Budget, MinInterval)
          /\ QuotaOf(q) # None =>
                QuotaAdmits(QuotaOf(q), q.identity, q.cost, q.now)
          /\ Insert(r, c, o, q.identity, q.cost, q.now)
          /\ proc' = [proc EXCEPT ![p].pc = "held", ![p].id = r,
                                  ![p].entry = None, ![p].now = 0]
    /\ UNCHANGED <<events, pool, given, clock, crashes>>

\* A gate refuses that depends on nothing modelled here (files, trace, model,
\* the cycle binding), or the transaction rolls back: a limit, a busy database.
Deny(p) ==
    /\ proc[p].pc = "prepare"
    /\ End(p)
    /\ UNCHANGED <<events, pool, given, reservations, attempts, clock, crashes>>

\* A caller of the ledger's API, which names no identity: no dimensions row.
ReserveAt(i, now, interval) ==
    /\ MayDisturb
    /\ \E r \in Ids \ Rows, c \in Costs, b \in CallerBudgets :
          /\ Reservable(Challenge[i], Owner[i], c, now, b, interval)
          /\ Insert(r, Challenge[i], Owner[i], None, c, now)
    /\ UNCHANGED <<events, pool, given, proc, clock, crashes>>

\* Ledger::reserve: no cadence, and the row is stamped with time 0.
Reserve(i) == ReserveAt(i, 0, 0)

\* Ledger::reserve_with_cadence: the caller's time and interval.
ReserveWithCadence(i) == \E n \in CallerIntervals : ReserveAt(i, clock, n)

\* Mutant: the attempt row keeps its state.
FinalizeReservationOnly(r, state) ==
    /\ r \in Reserved
    /\ reservations' = [reservations EXCEPT ![r].state = state]
    /\ UNCHANGED attempts

\* Ledger::release and Ledger::commit: both rows, only while reserved.
Finalize(r, state) ==
    /\ r \in Reserved /\ attempts[r].state = "reserved"
    /\ reservations' = [reservations EXCEPT ![r].state = state]
    /\ attempts' = [attempts EXCEPT ![r].state = state]

\* The dry run releases at once; an executor may commit instead.
Finish(p) ==
    /\ proc[p].pc = "held"
    /\ \/ Finalize(proc[p].id, "released")
       \/ p \in Executors /\ Finalize(proc[p].id, "committed")
    /\ End(p)
    /\ UNCHANGED <<events, pool, given, clock, crashes>>

\* A caller of the ledger's API finalizes a row that has no dimensions.
LegacyFinish ==
    /\ \E r \in Unclassified, s \in {"released", "committed"} : Finalize(r, s)
    /\ UNCHANGED <<events, pool, given, proc, clock, crashes>>

\* The process dies, or its release fails on a busy database: nothing else
\* ends the reservation.
Crash(p) ==
    /\ proc[p].pc # "idle" /\ MayDisturb
    /\ crashes' = crashes + 1
    /\ End(p)
    /\ UNCHANGED <<events, pool, given, reservations, attempts, clock>>

Submission(p) ==
    PoolExists(p) \/ PoolEntry(p) \/ Prepare(p) \/ Deny(p) \/ Finish(p)

Next ==
    \/ Tick \/ LegacyFinish
    \/ \E i \in Identities :
          \/ Provision(i) \/ Remove(i) \/ Reserve(i) \/ ReserveWithCadence(i)
          \/ \E f \in BOOLEAN : SetFrozen(i, f)
    \/ \E p \in Submitters : Start(p) \/ Submission(p) \/ Crash(p)

Spec == Init /\ [][Next]_vars

-----------------------------------------------------------------------------
\* Type correctness, and the two tables agree: an attempts row has the state,
\* binding and time of its reservation (release and commit update both).
TypeOK ==
    /\ \A e \in events : e.agg \in Identities /\ e.version \in Nat /\ e.at \in Nat
    /\ pool \in [Identities -> PoolRow \cup {None}]
    /\ given \in [Identities -> SUBSET Quotas]
    /\ reservations \in [Ids -> Reservation \cup {None}]
    /\ attempts \in [Ids -> Attempt \cup {None}]
    /\ \A r \in Ids :
          IF reservations[r] = None THEN attempts[r] = None
          ELSE LET v == reservations[r] IN
               attempts[r] = [state |-> v.state, challenge |-> v.challenge,
                              owner |-> v.owner, at |-> v.at]
    /\ proc \in [Submitters -> Request]
    /\ \A p \in Submitters :
          /\ proc[p].pc # "idle" => proc[p].identity \in Identities
          /\ proc[p].pc = "held" => proc[p].id \in Reserved
    /\ clock \in Nat /\ crashes \in Nat

\* Rows that submissions wrote: those with a dimensions row.
Classified(S) == {r \in S : reservations[r].identity # None}

(***************************************************************************)
(* What submissions hold reserved for a challenge never exceeds the        *)
(* policy's budget, whatever runs at once, whoever dies, and whatever      *)
(* budget other callers of the ledger bring for their own rows.            *)
(***************************************************************************)
BudgetHolds ==
    \A i \in Identities :
        Cost(OfChallenge(Challenge[i], Classified(Reserved))) <= Budget

(***************************************************************************)
(* Cadence: two submissions of an owner at a challenge that hold or used a *)
(* reservation are at least the policy's interval apart, although each     *)
(* read its own time before others reserved.  Rows of Ledger::reserve,     *)
(* which are stamped 0 and checked against nothing, have no such distance. *)
(***************************************************************************)
CadenceHolds ==
    \A r, s \in Classified(Live) :
        (/\ r # s
         /\ reservations[r].challenge = reservations[s].challenge
         /\ reservations[r].owner = reservations[s].owner)
        => \/ reservations[r].at - reservations[s].at >= MinInterval
           \/ reservations[s].at - reservations[r].at >= MinInterval

(***************************************************************************)
(* No identity holds more reservations at once than the largest concurrent *)
(* quota that the policy file or an operator has ever given it: the quota  *)
(* is read before the transaction and may be out of date by then, but it   *)
(* was this identity's own.  (For a policy with a pool, all of whose       *)
(* quotas limit concurrency.)                                              *)
(***************************************************************************)
ConcurrencyHolds ==
    \A i \in Identities : Of(i, Reserved) # {} =>
        \E q \in given[i] : Cardinality(Of(i, Reserved)) <= q.concurrent

(***************************************************************************)
(* "The ledger pool is runtime-authoritative once any active entry exists: *)
(* a request whose identity is not bound fails closed": a submission that  *)
(* began while its identity was frozen, or unbound beside bound ones, does *)
(* not get past admission as long as that stays so, although the pool is   *)
(* read in two queries, before the transaction, and not again in it.       *)
(***************************************************************************)
BarredIsDenied ==
    \A p \in Submitters : proc[p].barred => proc[p].pc \notin {"prepare", "held"}

(***************************************************************************)
(* Each change of the pool is one transaction with its event: the last     *)
(* event of an entry says whether the entry is active and, after a freeze  *)
(* or a thaw, whether it is frozen.                                        *)
(***************************************************************************)
PoolMatchesLog ==
    \A i \in Identities :
        LET v == CurrentVersion(events, i)
            last == {e.body : e \in {e \in events : e.agg = i /\ e.version = v}}
        IN  /\ pool[i] = None <=> last = {}
            /\ pool[i] # None =>
                  /\ pool[i].removed <=> last = {"removed"}
                  /\ last = {"frozen"} => pool[i].frozen
                  /\ last = {"thawed"} => ~pool[i].frozen
=============================================================================
