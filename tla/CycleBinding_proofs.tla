------------------------- MODULE CycleBinding_proofs -------------------------
(***************************************************************************)
(* Proofs about leases, cycles, briefs and bindings, for any number of     *)
(* Chiefs, workers, cycles, roles and processes.                           *)
(*                                                                         *)
(* A call makes its checks in separate reads and inserts at the end.  What *)
(* it has checked stays true, because an issued cycle is never replaced    *)
(* and only ever becomes revoked (Grows): CallOK says which facts a call   *)
(* carries at each of its steps.  That the binding a worker gets is not    *)
(* older than its brief needs one more fact about all tables: the active   *)
(* cycle has the latest version of all (VersionsOK).                       *)
(***************************************************************************)
EXTENDS CycleBinding, CoordinationEvents_proofs

-----------------------------------------------------------------------------
(* The tables.                                                             *)

IssuedIn(cyc) == {c \in Cycles : cyc[c] # None}
ActiveIn(cyc) == {c \in IssuedIn(cyc) : ~cyc[c].revoked}
DeadIn(cyc, lea) ==
    (IssuedIn(cyc) \ ActiveIn(cyc)) \cup {l \in Chiefs : lea[l] = "revoked"}

LEMMA TableDefs ==
    /\ Issued = IssuedIn(cycles) /\ Active = ActiveIn(cycles)
    /\ RevokedNow = DeadIn(cycles, leases)
    /\ Issued' = IssuedIn(cycles') /\ Active' = ActiveIn(cycles')
BY DEF Issued, IssuedIn, Active, ActiveIn, RevokedNow, DeadIn

EventsOK(evs) ==
    /\ \A e \in evs : e.agg \in Chiefs \cup {Campaign} /\ e.version \in Nat
    /\ \A a \in Chiefs \cup {Campaign} : Numbered(evs, a)
    /\ UniqueRows(evs)

\* SupersessionLegal, for one event.
Legal(e, cyc) ==
    e.body.type = "superseded" =>
        LET prev == cyc[e.body.pred] IN
        /\ e.body.pred \in Cycles /\ prev # None /\ prev.revoked
        /\ e.version = prev.version + 1
        /\ prev.rec.directive \notin {"approve_closure", "abort"}

Decided(evs) == {e \in evs : e.agg = Campaign /\ e.body.type # "foreign"}
LastOf(S) == {e \in S : \A d \in S : d.version <= e.version}
LeftActive(S) == {e.body.cycle : e \in {d \in S : d.body.type # "revoked"}}

\* ActiveCycleIsReplay.
ReplayOK(evs, cyc) == ActiveIn(cyc) = LeftActive(LastOf(Decided(evs)))

\* A cycle's version is the one of its event, and the active cycle's is the
\* latest of all.
VersionsOK(evs, cyc) ==
    \A c \in IssuedIn(cyc) :
        /\ cyc[c].version = cyc[c].rec.expected + 1
        /\ cyc[c].version <= CurrentVersion(evs, Campaign)
        /\ \A a \in ActiveIn(cyc) : cyc[c].version <= cyc[a].version

LogOK(evs, cyc) ==
    /\ EventsOK(evs) /\ \A e \in evs : Legal(e, cyc)
    /\ ReplayOK(evs, cyc) /\ VersionsOK(evs, cyc)

\* NoOrphanBrief.
BriefsOK(bri, cyc) ==
    \A b \in bri : ~b.revoked =>
        b.cycle \in ActiveIn(cyc) /\ b.role \in cyc[b.cycle].rec.roles

\* A row that names an issued cycle with its lease and version.
Names(b, cyc) ==
    /\ b.cycle \in IssuedIn(cyc)
    /\ b.lease = cyc[b.cycle].lease /\ b.version = cyc[b.cycle].version

Genuine(b, cyc) ==
    /\ Names(b, cyc)
    /\ b.role = "chief" => b.thread = b.lease /\ b.parent = None
    /\ b.role # "chief" => /\ b.parent = b.lease
                           /\ b.role \in cyc[b.cycle].rec.roles

\* The brief a worker was given suits its binding.
Suits(brief, b, cyc) ==
    /\ brief \in IssuedIn(cyc)
    /\ cyc[brief].lease = b.parent /\ cyc[brief].version <= b.version
    /\ b.role \in cyc[brief].rec.roles

\* BindingIsGenuine; and every running worker has a binding.
BindingsOK(bin, cyc, liv) ==
    /\ \A b \in bin : /\ Genuine(b, cyc)
                      /\ \A a \in liv : a.thread = b.thread
                                          => Suits(a.brief, b, cyc)
    /\ \A a \in liv : \E b \in bin : b.thread = a.thread

LEMMA TablesImply ==
    /\ LogOK(events, cycles) => SupersessionLegal /\ ActiveCycleIsReplay
    /\ BriefsOK(briefs, cycles) => NoOrphanBrief
    /\ BindingsOK(bindings, cycles, live) => BindingIsGenuine
<1>1. LogOK(events, cycles) => SupersessionLegal
  BY DEF LogOK, Legal, SupersessionLegal
<1>2. LogOK(events, cycles) => ActiveCycleIsReplay
  BY TableDefs DEF LogOK, ReplayOK, ActiveCycleIsReplay, Decided, LastOf, LeftActive
<1>3. BriefsOK(briefs, cycles) => NoOrphanBrief
  BY TableDefs DEF BriefsOK, NoOrphanBrief
<1>4. BindingsOK(bindings, cycles, live) => BindingIsGenuine
  BY TableDefs DEF BindingsOK, BindingIsGenuine, Genuine, Names, Suits
<1> QED BY <1>1, <1>2, <1>3, <1>4

-----------------------------------------------------------------------------
(* What cannot be undone.                                                  *)

\* Issued cycles stay as they are, except that they may be revoked.
Grows(cyc, new) ==
    \A c \in IssuedIn(cyc) :
        /\ new[c] # None /\ new[c].rec = cyc[c].rec
        /\ new[c].lease = cyc[c].lease /\ new[c].version = cyc[c].version
        /\ cyc[c].revoked => new[c].revoked

LEMMA GrowsKeeps ==
    ASSUME NEW cyc, NEW new, Grows(cyc, new)
    PROVE  /\ IssuedIn(cyc) \subseteq IssuedIn(new)
           /\ \A e : Legal(e, cyc) => Legal(e, new)
           /\ \A b : Names(b, cyc) => Names(b, new)
           /\ \A b : Genuine(b, cyc) => Genuine(b, new)
           /\ \A brief, b : Suits(brief, b, cyc) => Suits(brief, b, new)
           /\ \A bin, liv : BindingsOK(bin, cyc, liv) => BindingsOK(bin, new, liv)
<1>1. IssuedIn(cyc) \subseteq IssuedIn(new)
  BY DEF Grows, IssuedIn
<1>2. ASSUME NEW e, Legal(e, cyc) PROVE Legal(e, new)
  BY <1>2 DEF Legal, Grows, IssuedIn
<1>3. ASSUME NEW b, Names(b, cyc) PROVE Names(b, new)
  BY <1>1, <1>3 DEF Names, Grows
<1>4. ASSUME NEW b, Genuine(b, cyc) PROVE Genuine(b, new)
  BY <1>3, <1>4 DEF Genuine, Names, Grows
<1>5. ASSUME NEW brief, NEW b, Suits(brief, b, cyc) PROVE Suits(brief, b, new)
  BY <1>1, <1>5 DEF Suits, Grows
<1>6. ASSUME NEW bin, NEW liv, BindingsOK(bin, cyc, liv)
      PROVE  BindingsOK(bin, new, liv)
  BY <1>4, <1>5, <1>6 DEF BindingsOK
<1> QED BY <1>1, <1>2, <1>3, <1>4, <1>5, <1>6

LEMMA DeadGrows ==
    ASSUME NEW cyc, NEW new, Grows(cyc, new), NEW lea, NEW newLea,
           \A l \in Chiefs : lea[l] = "revoked" => newLea[l] = "revoked"
    PROVE  DeadIn(cyc, lea) \subseteq DeadIn(new, newLea)
BY DEF DeadIn, ActiveIn, IssuedIn, Grows

-----------------------------------------------------------------------------
(* The log.                                                                *)

\* There is at most one active cycle.
LEMMA ActiveIsUnique ==
    ASSUME NEW evs, NEW cyc, LogOK(evs, cyc),
           NEW a \in ActiveIn(cyc), NEW b \in ActiveIn(cyc)
    PROVE  a = b
<1> DEFINE L == LastOf(Decided(evs))
<1>1. PICK e \in L : a = e.body.cycle
  BY DEF LogOK, ReplayOK, LeftActive
<1>2. PICK d \in L : b = d.body.cycle
  BY DEF LogOK, ReplayOK, LeftActive
<1>3. e \in evs /\ d \in evs /\ e.agg = d.agg
      /\ e.version <= d.version /\ d.version <= e.version
      /\ e.version \in Nat /\ d.version \in Nat
  BY DEF LastOf, Decided, LogOK, EventsOK
<1>4. e = d
  BY <1>3 DEF LogOK, EventsOK, UniqueRows
<1> QED BY <1>1, <1>2, <1>4

\* An append keeps the log in order.
LEMMA AppendEvents ==
    ASSUME NEW evs, EventsOK(evs), NEW e, NEW expected \in Nat,
           e.agg \in Chiefs \cup {Campaign}, Appends(evs, e, expected)
    PROVE  EventsOK(Append1(evs, e, expected))
<1> DEFINE new == Append1(evs, e, expected)  row == Row(e, expected + 1)
<1>1. row.agg = e.agg /\ row.version = expected + 1
  BY DEF Row
<1>2. new = evs \cup {row}
  BY DEF Append1
<1> HIDE DEF row
<1>3. \A r \in new : r.agg \in Chiefs \cup {Campaign} /\ r.version \in Nat
  BY <1>1, <1>2 DEF EventsOK
<1>4. \A a \in Chiefs \cup {Campaign} : Numbered(new, a)
  BY AppendNumbers DEF EventsOK
<1>5. UniqueRows(new)
  BY AppendUnique DEF EventsOK
<1> QED BY <1>3, <1>4, <1>5 DEF EventsOK

\* An event that is about no cycle: of a lease, or of another component.
LEMMA AppendOther ==
    ASSUME NEW evs, NEW cyc, LogOK(evs, cyc), NEW e, NEW expected \in Nat,
           e.agg \in Chiefs \cup {Campaign}, Appends(evs, e, expected),
           e.agg # Campaign \/ e.body.type = "foreign",
           e.body.type # "superseded",
           cyc \in [Cycles -> CycleRow \cup {None}]
    PROVE  LogOK(Append1(evs, e, expected), cyc)
<1> DEFINE new == Append1(evs, e, expected)  row == Row(e, expected + 1)
<1>1. row.agg = e.agg /\ row.body = e.body /\ row.version = expected + 1
  BY DEF Row
<1>2. new = evs \cup {row}
  BY DEF Append1
<1>3. EventsOK(new)
  BY AppendEvents DEF LogOK
<1>v. CurrentVersion(new, Campaign) =
        IF Campaign = e.agg THEN expected + 1 ELSE CurrentVersion(evs, Campaign)
  BY AppendVersion DEF LogOK, EventsOK
<1>w. CurrentVersion(evs, Campaign) \in Nat
  BY VersionsBounded DEF LogOK, EventsOK
<1> HIDE DEF row, new
<1>4. \A r \in new : Legal(r, cyc)
  BY <1>1, <1>2 DEF LogOK, Legal
<1>5. Decided(new) = Decided(evs)
  BY <1>1, <1>2 DEF Decided
<1>6. VersionsOK(new, cyc)
  <2>1. CurrentVersion(evs, Campaign) <= CurrentVersion(new, Campaign)
        /\ CurrentVersion(new, Campaign) \in Nat
    BY <1>v, <1>w DEF Appends
  <2> SUFFICES ASSUME NEW c \in IssuedIn(cyc)
               PROVE  cyc[c].version <= CurrentVersion(new, Campaign)
    BY DEF LogOK, VersionsOK
  <2>2. cyc[c].version <= CurrentVersion(evs, Campaign) /\ cyc[c].version \in Nat
    BY DEF LogOK, VersionsOK, IssuedIn, CycleRow
  <2> QED BY <1>w, <2>1, <2>2
<1>7. ReplayOK(new, cyc)
  BY <1>5 DEF LogOK, ReplayOK
<1> QED BY <1>3, <1>4, <1>6, <1>7 DEF LogOK, new

\* An event that is about a cycle is the last of its kind.
LEMMA AppendDecided ==
    ASSUME NEW evs, EventsOK(evs), NEW e, NEW expected \in Nat,
           e.agg = Campaign, Appends(evs, e, expected),
           e.body.type # "foreign"
    PROVE  /\ LastOf(Decided(Append1(evs, e, expected))) = {Row(e, expected + 1)}
           /\ CurrentVersion(Append1(evs, e, expected), Campaign) = expected + 1
           /\ CurrentVersion(evs, Campaign) = expected
<1> DEFINE new == Append1(evs, e, expected)  row == Row(e, expected + 1)
           D == Decided(evs)
<1>1. row.agg = e.agg /\ row.body = e.body /\ row.version = expected + 1
  BY DEF Row
<1>2. new = evs \cup {row}
  BY DEF Append1
<1>3. CurrentVersion(evs, Campaign) = expected
  BY DEF Appends
<1>4. CurrentVersion(new, Campaign) = expected + 1
  BY AppendVersion DEF EventsOK
<1>5. \A r \in D : r.version \in 1..expected
  BY <1>3, VersionsBounded DEF EventsOK, Decided
<1> HIDE DEF row, new
<1>6. Decided(new) = D \cup {row}
  BY <1>1, <1>2 DEF Decided
<1>7. LastOf(D \cup {row}) = {row}
  BY <1>1, <1>5 DEF LastOf
<1> QED BY <1>3, <1>4, <1>6, <1>7 DEF new, row

-----------------------------------------------------------------------------
(* A call under way, and the reads it still has to make.                   *)

S1 == <<"insert">>
S2 == <<"brief", "insert">>
S3 == <<"cycle", "brief", "insert">>
S4 == <<"parent", "cycle", "brief", "insert">>
S5 == <<"load", "parent", "cycle", "brief", "insert">>
S6 == <<"cycle", "load", "parent", "cycle", "brief", "insert">>
S7 == <<"lease", "cycle", "load", "parent", "cycle", "brief", "insert">>
S8 == <<"cycle", "lease", "cycle", "load", "parent", "cycle", "brief", "insert">>
B2 == <<"cycle", "insert">>
R1 == <<"grant">>
R2 == <<"brief", "grant">>
R3 == <<"cycle", "brief", "grant">>
C2 == <<"cycle", "grant">>

LEMMA Plans ==
    /\ Head(S1) = "insert" /\ S1 # <<>> /\ Len(S1) = 1
    /\ Head(S2) = "brief" /\ S2 # <<>> /\ Tail(S2) = S1 /\ Len(S2) = 2
    /\ Head(S3) = "cycle" /\ S3 # <<>> /\ Tail(S3) = S2 /\ Len(S3) = 3
    /\ Head(S4) = "parent" /\ S4 # <<>> /\ Tail(S4) = S3 /\ Len(S4) = 4
    /\ Head(S5) = "load" /\ S5 # <<>> /\ Tail(S5) = S4 /\ Len(S5) = 5
    /\ Head(S6) = "cycle" /\ S6 # <<>> /\ Tail(S6) = S5 /\ Len(S6) = 6
    /\ Head(S7) = "lease" /\ S7 # <<>> /\ Tail(S7) = S6 /\ Len(S7) = 7
    /\ Head(S8) = "cycle" /\ S8 # <<>> /\ Tail(S8) = S7 /\ Len(S8) = 8
    /\ Head(B2) = "cycle" /\ B2 # <<>> /\ Tail(B2) = S1 /\ Len(B2) = 2
    /\ Head(R1) = "grant" /\ R1 # <<>> /\ Len(R1) = 1
    /\ Head(R2) = "brief" /\ R2 # <<>> /\ Tail(R2) = R1 /\ Len(R2) = 2
    /\ Head(R3) = "cycle" /\ R3 # <<>> /\ Tail(R3) = R2 /\ Len(R3) = 3
    /\ Head(C2) = "cycle" /\ C2 # <<>> /\ Tail(C2) = R1 /\ Len(C2) = 2
    /\ Head(<<"commit">>) = "commit"
BY DEF S1, S2, S3, S4, S5, S6, S7, S8, B2, R1, R2, R3, C2

LEMMA PlansTyped ==
    /\ <<"commit">> \in Seq(Steps) /\ B2 \in Seq(Steps)
    /\ S8 \in Seq(Steps) /\ R3 \in Seq(Steps) /\ C2 \in Seq(Steps)
<1>1. /\ "commit" \in Steps /\ "cycle" \in Steps /\ "lease" \in Steps
      /\ "load" \in Steps /\ "parent" \in Steps /\ "brief" \in Steps
      /\ "insert" \in Steps /\ "grant" \in Steps
  BY DEF Steps
<1> QED BY <1>1 DEF B2, S8, R3, C2

\* A call that binds a root thread has checked the cycle when it inserts.
RootOK(q, cyc) ==
    /\ q.todo \in {B2, S1}
    /\ q.row.thread = q.row.lease /\ q.row.lease \in Chiefs
    /\ q.row.parent = None /\ q.row.role = "chief"
    /\ q.todo = S1 => Names(q.row, cyc) /\ q.row.cycle \notin q.dead0

\* A resolve has seen its cycle active when it reads the brief.
ResolveOK(q) ==
    /\ q.todo \in {R3, C2, R2, R1}
    /\ q.todo \in {R2, R1} => q.row.cycle \notin q.dead0

\* What a spawn knows when it has k reads left: the lease is in force, the
\* brief is the Chief's, the cycle of the parent's binding is active and not
\* older than the brief, and its brief routes the role.
Knows(q, cyc, k) ==
    /\ k <= 6 => q.chief \notin q.dead0
    /\ k <= 4 => /\ q.brief \in IssuedIn(cyc)
                 /\ cyc[q.brief].lease = q.chief
                 /\ q.row.role \in cyc[q.brief].rec.roles
    /\ k <= 2 => /\ q.row.cycle \notin q.dead0
                 /\ cyc[q.brief].version <= q.row.version
    /\ k <= 1 => q.row.role \in cyc[q.row.cycle].rec.roles

SpawnOK(q, cyc) ==
    /\ q.todo \in {S1, S2, S3, S4, S5, S6, S7, S8}
    /\ q.row.thread \in Children /\ q.chief \in Chiefs
    /\ q.row.parent = q.chief /\ q.row.lease = q.chief
    /\ q.row.role \in Roles /\ Names(q.row, cyc)
    /\ Knows(q, cyc, Len(q.todo))

CallOK(q, cyc, lea) ==
    /\ q.dead0 \subseteq DeadIn(cyc, lea)
    /\ q.op = "idle" => q.todo = <<>>
    /\ q.op \in {"issue", "revoke"} => q.todo = <<"commit">>
    /\ q.op = "issue" => q.rec \in Rec /\ q.chief \in Chiefs
    /\ q.op = "revoke" => q.pred \in Cycles
    /\ q.op = "root" => RootOK(q, cyc)
    /\ q.op = "resolve" => ResolveOK(q)
    /\ q.op = "spawn" => SpawnOK(q, cyc)

CallsOK == \A p \in Procs : CallOK(proc[p], cycles, leases)

\* A thread that is being spawned is nobody else's.
SpawnsApart ==
    \A p \in Procs : proc[p].op = "spawn" =>
        /\ \A b \in bindings : b.thread # proc[p].row.thread
        /\ \A s \in Procs \ {p} : proc[s].row.thread # proc[p].row.thread

\* What a call has checked, no step of another process can undo.
LEMMA CallKept ==
    ASSUME NEW cyc, NEW new, Grows(cyc, new), NEW lea, NEW newLea,
           \A l \in Chiefs : lea[l] = "revoked" => newLea[l] = "revoked",
           NEW q, CallOK(q, cyc, lea)
    PROVE  CallOK(q, new, newLea)
<1>1. q.dead0 \subseteq DeadIn(new, newLea)
  BY DeadGrows DEF CallOK
<1>2. Names(q.row, cyc) => Names(q.row, new)
  BY GrowsKeeps
<1>3. RootOK(q, cyc) => RootOK(q, new)
  BY <1>2 DEF RootOK
<1>4. SpawnOK(q, cyc) => SpawnOK(q, new)
  <2> SUFFICES ASSUME SpawnOK(q, cyc) PROVE SpawnOK(q, new)
    OBVIOUS
  <2>1. IssuedIn(cyc) \subseteq IssuedIn(new)
    BY GrowsKeeps
  <2>2. q.row.cycle \in IssuedIn(cyc)
    BY DEF SpawnOK, Names
  <2>3. new[q.row.cycle].rec = cyc[q.row.cycle].rec
    BY <2>2 DEF Grows
  <2>4. q.brief \in IssuedIn(cyc) =>
          /\ new[q.brief].rec = cyc[q.brief].rec
          /\ new[q.brief].lease = cyc[q.brief].lease
          /\ new[q.brief].version = cyc[q.brief].version
    BY DEF Grows
  <2> DEFINE k == Len(q.todo)
  <2>5. k \in Nat /\ Knows(q, cyc, k)
    BY Plans DEF SpawnOK
  <2> HIDE DEF k
  <2>6. Knows(q, new, k)
    BY <2>1, <2>2, <2>3, <2>4, <2>5 DEF Knows
  <2> QED BY <1>2, <2>6 DEF SpawnOK, k
<1> QED BY <1>1, <1>3, <1>4 DEF CallOK

-----------------------------------------------------------------------------
(* The invariant.                                                          *)

Inv ==
    /\ TypeOK /\ LogOK(events, cycles) /\ BriefsOK(briefs, cycles)
    /\ BindingsOK(bindings, cycles, live) /\ CallsOK /\ SpawnsApart

LEMMA InvImplies ==
    Inv => /\ TypeOK /\ SupersessionLegal /\ ActiveCycleIsReplay
           /\ NoOrphanBrief /\ BindingIsGenuine /\ RevokedIsDenied
<1> SUFFICES ASSUME Inv
             PROVE  /\ TypeOK /\ SupersessionLegal /\ ActiveCycleIsReplay
                    /\ NoOrphanBrief /\ BindingIsGenuine /\ RevokedIsDenied
  OBVIOUS
<1>1. RevokedIsDenied
  <2> SUFFICES ASSUME NEW p \in Procs, Doing(p, "grant") \/ Doing(p, "insert")
               PROVE  /\ proc[p].row.cycle \notin proc[p].dead0
                      /\ proc[p].op = "spawn"
                            => proc[p].row.lease \notin proc[p].dead0
    BY DEF RevokedIsDenied
  <2> DEFINE q == proc[p]
  <2>1. q.op \in {"idle", "issue", "revoke", "root", "spawn", "resolve"}
        /\ CallOK(q, cycles, leases)
    BY DEF Inv, CallsOK, TypeOK, Call
  <2>2. q.todo # <<>> /\ Head(q.todo) \in {"grant", "insert"}
    BY DEF Doing
  <2> HIDE DEF q
  <2>3. q.op \notin {"idle", "issue", "revoke"}
    BY <2>1, <2>2, Plans DEF CallOK
  <2>4. CASE q.op = "root"
    BY <2>1, <2>2, <2>4, Plans DEF CallOK, RootOK, q
  <2>5. CASE q.op = "resolve"
    BY <2>1, <2>2, <2>5, Plans DEF CallOK, ResolveOK, q
  <2>6. CASE q.op = "spawn"
    <3>1. q.todo = S1
      BY <2>1, <2>2, <2>6, Plans DEF CallOK, SpawnOK
    <3>2. Knows(q, cycles, 1) /\ q.row.lease = q.chief
      BY <2>1, <2>6, <3>1, Plans DEF CallOK, SpawnOK
    <3> QED BY <3>2 DEF Knows, q
  <2> QED BY <2>1, <2>3, <2>4, <2>5, <2>6
<1> QED BY <1>1, TablesImply DEF Inv

-----------------------------------------------------------------------------
(* Steps that change no table: one process moves on.                       *)

StaysApart(p, q) ==
    /\ q.op = "spawn" =>
          /\ \A b \in bindings : b.thread # q.row.thread
          /\ \A s \in Procs \ {p} : proc[s].row.thread # q.row.thread
    /\ \A s \in Procs \ {p} : proc[s].op = "spawn"
                                => proc[s].row.thread # q.row.thread

LEMMA ProcMoves ==
    ASSUME Inv, UNCHANGED <<tables, files, live, clock>>,
           NEW p \in Procs, NEW q, proc' = [proc EXCEPT ![p] = q],
           q \in Call, CallOK(q, cycles, leases), StaysApart(p, q)
    PROVE  Inv'
<1>0. /\ events' = events /\ leases' = leases /\ cycles' = cycles
      /\ briefs' = briefs /\ bindings' = bindings /\ files' = files
      /\ live' = live /\ clock' = clock
  BY DEF tables
<1>1. proc \in [Procs -> Call] /\ proc' \in [Procs -> Call]
  BY DEF Inv, TypeOK
<1>2. proc'[p] = q /\ \A s \in Procs \ {p} : proc'[s] = proc[s]
  BY <1>1
<1>3. TypeOK'
  BY <1>0, <1>1 DEF Inv, TypeOK
<1>4. CallsOK'
  BY <1>0, <1>2 DEF Inv, CallsOK
<1>5. SpawnsApart'
  BY <1>0, <1>2 DEF Inv, SpawnsApart, StaysApart
<1> QED BY <1>0, <1>3, <1>4, <1>5 DEF Inv

LEMMA IdleOK ==
    ASSUME Inv, NEW p \in Procs
    PROVE  /\ Idle \in Call /\ CallOK(Idle, cycles, leases)
           /\ StaysApart(p, Idle) /\ Idle.op = "idle" /\ Idle.row.thread = None
<1>1. Idle.op = "idle" /\ Idle.row.thread = None
  BY DEF Idle, NoRow
<1>2. Idle \in Call
  BY DEF Idle, NoRow, Call, Target
<1>3. CallOK(Idle, cycles, leases)
  BY DEF CallOK, Idle
<1>4. \A s \in Procs : proc[s].op = "spawn" => proc[s].row.thread \in Children
  BY DEF Inv, CallsOK, CallOK, SpawnOK
<1>5. StaysApart(p, Idle)
  BY <1>1, <1>4, CycleAssumption DEF StaysApart
<1> QED BY <1>1, <1>2, <1>3, <1>5

\* The call ends.
LEMMA ProcEnds ==
    ASSUME Inv, UNCHANGED <<tables, files, live, clock>>,
           NEW p \in Procs, proc' = [proc EXCEPT ![p] = Idle]
    PROVE  Inv'
BY IdleOK, ProcMoves

\* The call takes its next step: the same thread, one read fewer to make.
LEMMA ProcProceeds ==
    ASSUME Inv, UNCHANGED <<tables, files, live, clock>>,
           NEW p \in Procs, NEW step, Doing(p, step),
           NEW row \in Target, NEW brief \in Cycles \cup {None},
           NEW now \in Nat, Proceed(p, row, brief, now),
           row.thread = proc[p].row.thread,
           \A q \in Call :
              /\ q.op = proc[p].op /\ q.rec = proc[p].rec
              /\ q.pred = proc[p].pred /\ q.chief = proc[p].chief
              /\ q.dead0 = proc[p].dead0 /\ q.expected = proc[p].expected
              /\ q.todo = Tail(proc[p].todo) /\ q.row = row
              /\ q.brief = brief /\ q.now = now
              => CallOK(q, cycles, leases)
    PROVE  Inv'
<1> DEFINE q == [proc[p] EXCEPT !.todo = Tail(proc[p].todo), !.row = row,
                                !.brief = brief, !.now = now]
<1>1. proc[p] \in Call
  BY DEF Inv, TypeOK
<1>2. proc' = [proc EXCEPT ![p] = q]
  BY DEF Proceed
<1>3. Tail(proc[p].todo) \in Seq(Steps)
  BY <1>1 DEF Doing, Call
<1>4. /\ q.op = proc[p].op /\ q.rec = proc[p].rec
      /\ q.pred = proc[p].pred /\ q.chief = proc[p].chief
      /\ q.dead0 = proc[p].dead0 /\ q.expected = proc[p].expected
      /\ q.todo = Tail(proc[p].todo) /\ q.row = row
      /\ q.brief = brief /\ q.now = now
  BY <1>1 DEF Call
<1>5. q \in Call
  BY <1>1, <1>3 DEF Call
<1> HIDE DEF q
<1>6. CallOK(q, cycles, leases)
  BY <1>4, <1>5
<1>7. StaysApart(p, q)
  <2>1. SpawnsApart
    BY DEF Inv
  <2>2. \A s \in Procs \ {p} : proc[s].op = "spawn"
                                => proc[s].row.thread # proc[p].row.thread
    BY <2>1 DEF SpawnsApart
  <2> QED BY <1>4, <2>1, <2>2 DEF StaysApart, SpawnsApart
<1> QED BY <1>2, <1>5, <1>6, <1>7, ProcMoves

-----------------------------------------------------------------------------
(* A call begins.                                                          *)

LEMMA IssueBegins ==
    ASSUME Inv, NEW p \in Procs, StartIssue(p)
    PROVE  Inv'
<1>1. PICK l \in Chiefs, rec \in files, pred \in Cycles \cup {None} :
        proc' = [proc EXCEPT ![p] =
                [Idle EXCEPT !.op = "issue", !.todo = <<"commit">>,
                             !.rec = rec, !.pred = pred, !.chief = l,
                             !.now = clock]]
  BY DEF StartIssue
<1> DEFINE q == [Idle EXCEPT !.op = "issue", !.todo = <<"commit">>,
                             !.rec = rec, !.pred = pred, !.chief = l,
                             !.now = clock]
<1>2. q.op = "issue" /\ q.todo = <<"commit">> /\ q.rec = rec /\ q.pred = pred
      /\ q.chief = l /\ q.row.thread = None /\ q.dead0 = {}
  BY DEF Idle, NoRow
<1>3. q \in Call
  <2>1. rec \in Rec /\ clock \in Nat /\ Idle \in Call
    BY IdleOK DEF Inv, TypeOK
  <2> QED BY <2>1, PlansTyped DEF Call
<1> HIDE DEF q
<1>4. CallOK(q, cycles, leases)
  BY <1>2 DEF CallOK, Inv, TypeOK
<1>5. StaysApart(p, q)
  BY <1>2, IdleOK DEF StaysApart
<1>6. UNCHANGED <<tables, files, live, clock>> /\ proc' = [proc EXCEPT ![p] = q]
  BY <1>1 DEF StartIssue, q
<1> QED BY <1>3, <1>4, <1>5, <1>6, ProcMoves

LEMMA RevokeBegins ==
    ASSUME Inv, NEW p \in Procs, StartRevoke(p)
    PROVE  Inv'
<1>1. PICK l \in Chiefs, c \in Issued :
        proc' = [proc EXCEPT ![p] =
                [Idle EXCEPT !.op = "revoke", !.todo = <<"commit">>,
                             !.pred = c, !.chief = l, !.now = clock,
                             !.expected = Version]]
  BY DEF StartRevoke
<1> DEFINE q == [Idle EXCEPT !.op = "revoke", !.todo = <<"commit">>,
                             !.pred = c, !.chief = l, !.now = clock,
                             !.expected = Version]
<1>2. q.op = "revoke" /\ q.todo = <<"commit">> /\ q.pred = c
      /\ q.row.thread = None /\ q.dead0 = {}
  BY DEF Idle, NoRow
<1>3. q \in Call
  <2>1. c \in Cycles /\ clock \in Nat /\ Idle \in Call
    BY IdleOK DEF Inv, TypeOK, Issued
  <2>2. Version \in Nat
    BY VersionsBounded DEF Inv, LogOK, EventsOK, Version
  <2> QED BY <2>1, <2>2, PlansTyped DEF Call
<1> HIDE DEF q
<1>4. CallOK(q, cycles, leases)
  BY <1>2 DEF CallOK, Issued
<1>5. StaysApart(p, q)
  BY <1>2, IdleOK DEF StaysApart
<1>6. UNCHANGED <<tables, files, live, clock>> /\ proc' = [proc EXCEPT ![p] = q]
  BY <1>1 DEF StartRevoke, q
<1> QED BY <1>3, <1>4, <1>5, <1>6, ProcMoves

\* The facts every start of a binding call needs.
LEMMA DeadNow ==
    /\ RevokedNow \subseteq DeadIn(cycles, leases)
    /\ RevokedNow \subseteq Cycles \cup Chiefs
BY TableDefs DEF DeadIn, IssuedIn

LEMMA RootBegins ==
    ASSUME Inv, NEW p \in Procs, StartRoot(p)
    PROVE  Inv'
<1>1. PICK l \in Chiefs, c \in Issued :
        proc' = [proc EXCEPT ![p] =
                [Idle EXCEPT !.op = "root", !.todo = <<"cycle", "insert">>,
                    !.now = clock, !.dead0 = RevokedNow, !.chief = l,
                    !.row = [thread |-> l, parent |-> None, cycle |-> c,
                             version |-> cycles[c].version, lease |-> l,
                             role |-> "chief"]]]
  BY DEF StartRoot
<1> DEFINE row == [thread |-> l, parent |-> None, cycle |-> c,
                   version |-> cycles[c].version, lease |-> l,
                   role |-> "chief"]
           q == [Idle EXCEPT !.op = "root", !.todo = <<"cycle", "insert">>,
                    !.now = clock, !.dead0 = RevokedNow, !.chief = l,
                    !.row = row]
<1>2. q.op = "root" /\ q.todo = B2 /\ q.row = row /\ q.dead0 = RevokedNow
  BY DEF Idle, B2
<1>3. row.thread = l /\ row.lease = l /\ row.parent = None /\ row.role = "chief"
  OBVIOUS
<1>4. row \in Target
  BY DEF Inv, TypeOK, Issued, CycleRow, Target
<1> HIDE DEF row
<1>5. q \in Call
  <2>1. clock \in Nat /\ Idle \in Call
    BY IdleOK DEF Inv, TypeOK
  <2> QED BY <2>1, <1>4, DeadNow, PlansTyped DEF Call, B2
<1>6. UNCHANGED <<tables, files, live, clock>> /\ proc' = [proc EXCEPT ![p] = q]
  BY <1>1 DEF StartRoot, row
<1> HIDE DEF q
<1>7. B2 # S1
  BY DEF B2, S1
<1>8. CallOK(q, cycles, leases)
  BY <1>2, <1>3, <1>7, DeadNow DEF CallOK, RootOK
<1>9. StaysApart(p, q)
  <2>1. \A s \in Procs : proc[s].op = "spawn" => proc[s].row.thread \in Children
    BY DEF Inv, CallsOK, CallOK, SpawnOK
  <2> QED BY <1>2, <1>3, <2>1, CycleAssumption DEF StaysApart
<1> QED BY <1>5, <1>6, <1>8, <1>9, ProcMoves

LEMMA ResolveBegins ==
    ASSUME Inv, NEW p \in Procs, StartResolve(p)
    PROVE  Inv'
<1>1. PICK r \in bindings :
        proc' = [proc EXCEPT ![p] =
                [Idle EXCEPT !.op = "resolve",
                    !.todo = IF r.role = "chief" THEN <<"cycle", "grant">>
                             ELSE <<"cycle", "brief", "grant">>,
                    !.now = clock, !.dead0 = RevokedNow, !.row = Columns(r)]]
  BY DEF StartResolve
<1> DEFINE todo == IF r.role = "chief" THEN <<"cycle", "grant">>
                   ELSE <<"cycle", "brief", "grant">>
           q == [Idle EXCEPT !.op = "resolve", !.todo = todo,
                    !.now = clock, !.dead0 = RevokedNow, !.row = Columns(r)]
<1>2. todo \in {C2, R3}
      /\ todo \in Seq(Steps)
  BY PlansTyped DEF C2, R3
<1>3. q.op = "resolve" /\ q.todo = todo /\ q.row = Columns(r)
      /\ q.dead0 = RevokedNow
  BY DEF Idle
<1>4. Columns(r).thread = r.thread
  BY DEF Columns
<1>5. Columns(r) \in Target
  BY DEF Inv, TypeOK, Binding, Columns, Target
<1>6. UNCHANGED <<tables, files, live, clock>> /\ proc' = [proc EXCEPT ![p] = q]
  BY <1>1 DEF StartResolve
<1> HIDE DEF todo
<1>7. q \in Call
  <2>1. clock \in Nat /\ Idle \in Call
    BY IdleOK DEF Inv, TypeOK
  <2> QED BY <2>1, <1>2, <1>5, DeadNow DEF Call
<1> HIDE DEF q
<1>8. CallOK(q, cycles, leases)
  <2>1. C2 \notin {R2, R1} /\ R3 \notin {R2, R1}
    BY DEF C2, R1, R2, R3
  <2> QED BY <1>2, <1>3, <2>1, DeadNow DEF CallOK, ResolveOK
<1>9. StaysApart(p, q)
  BY <1>3, <1>4 DEF StaysApart, Inv, SpawnsApart
<1> QED BY <1>6, <1>7, <1>8, <1>9, ProcMoves

LEMMA SpawnBegins ==
    ASSUME Inv, NEW p \in Procs, StartSpawn(p)
    PROVE  Inv'
<1>1. PICK l \in Chiefs, child \in Children, role \in Roles :
      \E r \in Current(bindings, l, "chief") :
          /\ \A b \in bindings : b.thread # child
          /\ \A q \in Procs : proc[q].row.thread # child
          /\ proc' = [proc EXCEPT ![p] =
                [Idle EXCEPT !.op = "spawn",
                    !.todo = <<"cycle", "lease", "cycle", "load", "parent",
                               "cycle", "brief", "insert">>,
                    !.now = clock, !.dead0 = RevokedNow, !.chief = l,
                    !.row = ChildRow(r, child, l, role)]]
  BY DEF StartSpawn
<1>2. PICK r \in Current(bindings, l, "chief") :
          /\ \A b \in bindings : b.thread # child
          /\ \A q \in Procs : proc[q].row.thread # child
          /\ proc' = [proc EXCEPT ![p] =
                [Idle EXCEPT !.op = "spawn",
                    !.todo = <<"cycle", "lease", "cycle", "load", "parent",
                               "cycle", "brief", "insert">>,
                    !.now = clock, !.dead0 = RevokedNow, !.chief = l,
                    !.row = ChildRow(r, child, l, role)]]
  BY <1>1
<1> DEFINE row == ChildRow(r, child, l, role)
           q == [Idle EXCEPT !.op = "spawn",
                    !.todo = <<"cycle", "lease", "cycle", "load", "parent",
                               "cycle", "brief", "insert">>,
                    !.now = clock, !.dead0 = RevokedNow, !.chief = l,
                    !.row = row]
<1>3. r \in bindings /\ r.thread = l /\ r.role = "chief"
  BY DEF Current
<1>4. Names(r, cycles) /\ r.lease = l
  BY <1>3 DEF Inv, BindingsOK, Genuine
<1>5. row.thread = child /\ row.parent = l /\ row.cycle = r.cycle
      /\ row.version = r.version /\ row.lease = r.lease /\ row.role = role
  BY DEF ChildRow
<1>6. row \in Target
  BY <1>3 DEF ChildRow, Inv, TypeOK, Binding, Target
<1> HIDE DEF row
<1>7. q.op = "spawn" /\ q.todo = S8 /\ q.row = row /\ q.dead0 = RevokedNow
      /\ q.chief = l
  BY DEF Idle, S8
<1>8. q \in Call
  <2>1. clock \in Nat /\ Idle \in Call
    BY IdleOK DEF Inv, TypeOK
  <2> QED BY <2>1, <1>6, DeadNow, PlansTyped DEF Call, S8
<1>9. UNCHANGED <<tables, files, live, clock>> /\ proc' = [proc EXCEPT ![p] = q]
  BY <1>2 DEF StartSpawn, row
<1> HIDE DEF q
<1>10. Names(row, cycles)
  BY <1>4, <1>5 DEF Names
<1>11. CallOK(q, cycles, leases)
  <2>1. Knows(q, cycles, 8) /\ Len(q.todo) = 8
    BY <1>7, Plans DEF Knows
  <2>2. SpawnOK(q, cycles)
    BY <1>4, <1>5, <1>7, <1>10, <2>1 DEF SpawnOK
  <2> QED BY <1>7, <2>2, DeadNow DEF CallOK
<1>12. StaysApart(p, q)
  BY <1>2, <1>5, <1>7 DEF StaysApart
<1> QED BY <1>8, <1>9, <1>11, <1>12, ProcMoves

-----------------------------------------------------------------------------
(* A call makes one of its reads.                                          *)

\* What is active or in force now was not revoked when the call began.
LEMMA NotDeadNow ==
    ASSUME NEW cyc, NEW lea, NEW dead0, dead0 \subseteq DeadIn(cyc, lea)
    PROVE  /\ \A c \in ActiveIn(cyc) : c \notin dead0
           /\ \A l \in Chiefs : lea[l] = "active" => l \notin dead0
BY CycleAssumption DEF DeadIn, ActiveIn, IssuedIn

LEMMA CycleChecked ==
    ASSUME Inv, NEW p \in Procs, CheckCycle(p)
    PROVE  Inv'
<1> DEFINE q == proc[p]
<1>1. q \in Call /\ CallOK(q, cycles, leases) /\ q.todo # <<>>
      /\ Head(q.todo) = "cycle"
  BY DEF Inv, TypeOK, CallsOK, CheckCycle, Doing
<1>2. /\ q.row.cycle \in ActiveIn(cycles)
      /\ cycles[q.row.cycle].lease = q.row.lease
      /\ cycles[q.row.cycle].version = q.row.version
  BY TableDefs DEF CheckCycle, CycleOK
<1>3. Names(q.row, cycles) /\ q.row.cycle \notin q.dead0
  BY <1>1, <1>2, NotDeadNow DEF Names, ActiveIn, CallOK
<1>4. /\ q.row \in Target /\ q.brief \in Cycles \cup {None} /\ q.now \in Nat
      /\ q.op \in {"idle", "issue", "revoke", "root", "spawn", "resolve"}
  BY <1>1 DEF Call
<1>5. \A b \in IssuedIn(cycles) : cycles[b].version <= q.row.version
  BY <1>2 DEF Inv, LogOK, VersionsOK
<1>6. UNCHANGED <<tables, files, live, clock>> /\ Doing(p, "cycle")
      /\ Proceed(p, q.row, q.brief, q.now)
  BY DEF CheckCycle
<1> HIDE DEF q
<1>7. ASSUME NEW n \in Call,
             n.op = q.op, n.rec = q.rec, n.pred = q.pred, n.chief = q.chief,
             n.dead0 = q.dead0, n.expected = q.expected,
             n.todo = Tail(q.todo), n.row = q.row, n.brief = q.brief,
             n.now = q.now
      PROVE  CallOK(n, cycles, leases)
  <2>1. q.op \notin {"idle", "issue", "revoke"}
    BY <1>1, Plans DEF CallOK
  <2>2. CASE q.op = "root"
    <3>1. q.todo = B2 /\ n.todo = S1
      BY <1>1, <1>7, <2>2, Plans DEF CallOK, RootOK
    <3> QED BY <1>1, <1>3, <1>7, <2>2, <3>1 DEF CallOK, RootOK
  <2>3. CASE q.op = "resolve"
    <3>1. n.todo \in {R1, R2}
      BY <1>1, <1>7, <2>3, Plans DEF CallOK, ResolveOK
    <3> QED BY <1>1, <1>3, <1>7, <2>3, <3>1 DEF CallOK, ResolveOK
  <2>4. CASE q.op = "spawn"
    <3>0. SpawnOK(q, cycles)
      BY <1>1, <2>4 DEF CallOK
    <3>1. q.todo \in {S8, S6, S3}
      BY <1>1, <3>0, Plans DEF SpawnOK
    <3>2. SpawnOK(n, cycles)
      <4>1. CASE q.todo = S8
        <5>1. n.todo = S7 /\ Len(n.todo) = 7 /\ Knows(q, cycles, 8)
          BY <1>7, <3>0, <4>1, Plans DEF SpawnOK
        <5>2. Knows(n, cycles, 7)
          BY <1>3, <1>5, <1>7, <5>1 DEF Knows
        <5> QED BY <1>7, <3>0, <5>1, <5>2 DEF SpawnOK
      <4>2. CASE q.todo = S6
        <5>1. n.todo = S5 /\ Len(n.todo) = 5 /\ Knows(q, cycles, 6)
          BY <1>7, <3>0, <4>2, Plans DEF SpawnOK
        <5>2. Knows(n, cycles, 5)
          BY <1>3, <1>5, <1>7, <5>1 DEF Knows
        <5> QED BY <1>7, <3>0, <5>1, <5>2 DEF SpawnOK
      <4>3. CASE q.todo = S3
        <5>1. n.todo = S2 /\ Len(n.todo) = 2 /\ Knows(q, cycles, 3)
          BY <1>7, <3>0, <4>3, Plans DEF SpawnOK
        <5>2. Knows(n, cycles, 2)
          BY <1>3, <1>5, <1>7, <5>1 DEF Knows
        <5> QED BY <1>7, <3>0, <5>1, <5>2 DEF SpawnOK
      <4> QED BY <3>1, <4>1, <4>2, <4>3
    <3> QED BY <1>1, <1>7, <2>4, <3>2 DEF CallOK
  <2> QED BY <1>4, <2>1, <2>2, <2>3, <2>4
<1> QED BY <1>4, <1>6, <1>7, ProcProceeds DEF q

LEMMA LeaseChecked ==
    ASSUME Inv, NEW p \in Procs, CheckLease(p)
    PROVE  Inv'
<1> DEFINE q == proc[p]
<1>1. q \in Call /\ CallOK(q, cycles, leases) /\ q.todo # <<>>
      /\ Head(q.todo) = "lease"
  BY DEF Inv, TypeOK, CallsOK, CheckLease, Doing
<1>2. q.row \in Target /\ q.brief \in Cycles \cup {None} /\ q.now \in Nat
      /\ q.op \in {"idle", "issue", "revoke", "root", "spawn", "resolve"}
  BY <1>1 DEF Call
<1>3. q.row.lease = q.chief /\ leases[q.row.lease] = "active"
  BY DEF CheckLease, LeaseOK
<1>4. UNCHANGED <<tables, files, live, clock>> /\ Doing(p, "lease")
      /\ Proceed(p, q.row, q.brief, q.now)
  BY DEF CheckLease
<1> HIDE DEF q
<1>5. q.op = "spawn" /\ SpawnOK(q, cycles)
  BY <1>1, <1>2, Plans DEF CallOK, RootOK, ResolveOK
<1>6. q.todo = S7
  BY <1>1, <1>5, Plans DEF SpawnOK
<1>7. q.chief \notin q.dead0
  BY <1>1, <1>3, <1>5, NotDeadNow DEF CallOK, SpawnOK
<1>8. ASSUME NEW n \in Call,
             n.op = q.op, n.rec = q.rec, n.pred = q.pred, n.chief = q.chief,
             n.dead0 = q.dead0, n.expected = q.expected,
             n.todo = Tail(q.todo), n.row = q.row, n.brief = q.brief,
             n.now = q.now
      PROVE  CallOK(n, cycles, leases)
  <2>1. SpawnOK(n, cycles)
    <3>1. n.todo = S6 /\ Len(n.todo) = 6
      BY <1>6, <1>8, Plans
    <3>2. Knows(n, cycles, 6)
      BY <1>7, <1>8 DEF Knows
    <3> QED BY <1>5, <1>8, <3>1, <3>2 DEF SpawnOK
  <2> QED BY <1>1, <1>5, <1>8, <2>1 DEF CallOK
<1> QED BY <1>2, <1>4, <1>8, ProcProceeds DEF q

\* An active brief routes its role.
LEMMA BriefRoutes ==
    ASSUME Inv, NEW row, NEW now, BriefOK(row, now)
    PROVE  row.cycle \in ActiveIn(cycles) /\ row.role \in cycles[row.cycle].rec.roles
<1> DEFINE b == [cycle |-> row.cycle, role |-> row.role, revoked |-> FALSE]
<1>1. b \in briefs /\ b.cycle = row.cycle /\ b.role = row.role /\ ~b.revoked
  BY DEF BriefOK
<1> HIDE DEF b
<1> QED BY <1>1 DEF Inv, BriefsOK

LEMMA BriefLoaded ==
    ASSUME Inv, NEW p \in Procs, LoadBrief(p)
    PROVE  Inv'
<1> DEFINE q == proc[p]
<1>1. q \in Call /\ CallOK(q, cycles, leases) /\ q.todo # <<>>
      /\ Head(q.todo) = "load" /\ clock \in Nat
  BY DEF Inv, TypeOK, CallsOK, LoadBrief, Doing
<1>2. q.row \in Target /\ q.row.cycle \in Cycles \cup {None}
      /\ q.op \in {"idle", "issue", "revoke", "root", "spawn", "resolve"}
  BY <1>1 DEF Call, Target
<1>3. q.row.role \in cycles[q.row.cycle].rec.roles
  BY BriefRoutes DEF LoadBrief
<1>4. UNCHANGED <<tables, files, live, clock>> /\ Doing(p, "load")
      /\ Proceed(p, q.row, q.row.cycle, clock)
  BY DEF LoadBrief
<1> HIDE DEF q
<1>5. q.op = "spawn" /\ SpawnOK(q, cycles)
  BY <1>1, <1>2, Plans DEF CallOK, RootOK, ResolveOK
<1>6. q.todo = S5
  BY <1>1, <1>5, Plans DEF SpawnOK
<1>8. ASSUME NEW n \in Call,
             n.op = q.op, n.rec = q.rec, n.pred = q.pred, n.chief = q.chief,
             n.dead0 = q.dead0, n.expected = q.expected,
             n.todo = Tail(q.todo), n.row = q.row, n.brief = q.row.cycle,
             n.now = clock
      PROVE  CallOK(n, cycles, leases)
  <2>1. SpawnOK(n, cycles)
    <3>1. n.todo = S4 /\ Len(n.todo) = 4 /\ Knows(q, cycles, 5)
      BY <1>5, <1>6, <1>8, Plans DEF SpawnOK
    <3>2. n.brief \in IssuedIn(cycles) /\ cycles[n.brief].lease = n.chief
          /\ n.row.role \in cycles[n.brief].rec.roles
      BY <1>3, <1>5, <1>8 DEF SpawnOK, Names
    <3>3. Knows(n, cycles, 4)
      BY <1>8, <3>1, <3>2 DEF Knows
    <3> QED BY <1>5, <1>8, <3>1, <3>3 DEF SpawnOK
  <2> QED BY <1>1, <1>5, <1>8, <2>1 DEF CallOK
<1> DEFINE brief == q.row.cycle
<1> HIDE DEF brief
<1>9. \A n \in Call :
        /\ n.op = q.op /\ n.rec = q.rec /\ n.pred = q.pred
        /\ n.chief = q.chief /\ n.dead0 = q.dead0
        /\ n.expected = q.expected /\ n.todo = Tail(q.todo)
        /\ n.row = q.row /\ n.brief = brief /\ n.now = clock
        => CallOK(n, cycles, leases)
  BY <1>8 DEF brief
<1>10. Proceed(p, q.row, brief, clock) /\ brief \in Cycles \cup {None}
  BY <1>2, <1>4 DEF brief
<1> DEFINE row == q.row  now == clock
<1>11. row \in Target /\ now \in Nat /\ row.thread = proc[p].row.thread
       /\ Proceed(p, row, brief, now)
  BY <1>1, <1>2, <1>10 DEF q
<1>12. \A n \in Call :
        /\ n.op = proc[p].op /\ n.rec = proc[p].rec
        /\ n.pred = proc[p].pred /\ n.chief = proc[p].chief
        /\ n.dead0 = proc[p].dead0 /\ n.expected = proc[p].expected
        /\ n.todo = Tail(proc[p].todo) /\ n.row = row
        /\ n.brief = brief /\ n.now = now
        => CallOK(n, cycles, leases)
  BY <1>9 DEF q
<1> HIDE DEF row, now
<1> QED BY <1>4, <1>10, <1>11, <1>12, ProcProceeds

LEMMA ParentRead ==
    ASSUME Inv, NEW p \in Procs, ReadParent(p)
    PROVE  Inv'
<1> DEFINE q == proc[p]
<1>1. q \in Call /\ CallOK(q, cycles, leases) /\ q.todo # <<>>
      /\ Head(q.todo) = "parent" /\ clock \in Nat
  BY DEF Inv, TypeOK, CallsOK, ReadParent, Doing
<1>2. q.row \in Target /\ q.brief \in Cycles \cup {None}
      /\ q.op \in {"idle", "issue", "revoke", "root", "spawn", "resolve"}
  BY <1>1 DEF Call, Target
<1>3. PICK r \in Current(bindings, q.chief, "chief") :
         Proceed(p, ChildRow(r, q.row.thread, q.chief, q.row.role), q.brief, clock)
  BY DEF ReadParent
<1>4. UNCHANGED <<tables, files, live, clock>> /\ Doing(p, "parent")
  BY DEF ReadParent
<1> DEFINE row == ChildRow(r, q.row.thread, q.chief, q.row.role)
<1>5. r \in bindings /\ r.thread = q.chief /\ r.role = "chief"
  BY DEF Current
<1>6. Names(r, cycles) /\ r.lease = q.chief
  BY <1>5 DEF Inv, BindingsOK, Genuine
<1> HIDE DEF q
<1>7. q.op = "spawn" /\ SpawnOK(q, cycles)
  BY <1>1, <1>2, Plans DEF CallOK, RootOK, ResolveOK
<1>8. q.todo = S4
  BY <1>1, <1>7, Plans DEF SpawnOK
<1>9. row.thread = q.row.thread /\ row.parent = q.chief /\ row.cycle = r.cycle
      /\ row.version = r.version /\ row.lease = q.chief /\ row.role = q.row.role
  BY <1>6 DEF ChildRow
<1>10. row \in Target
  BY <1>5, <1>7 DEF ChildRow, Inv, TypeOK, Binding, Target, SpawnOK
<1> HIDE DEF row
<1>11. Names(row, cycles)
  BY <1>6, <1>9 DEF Names
<1>12. ASSUME NEW n \in Call,
             n.op = q.op, n.rec = q.rec, n.pred = q.pred, n.chief = q.chief,
             n.dead0 = q.dead0, n.expected = q.expected,
             n.todo = Tail(q.todo), n.row = row, n.brief = q.brief,
             n.now = clock
      PROVE  CallOK(n, cycles, leases)
  <2>1. SpawnOK(n, cycles)
    <3>1. n.todo = S3 /\ Len(n.todo) = 3 /\ Knows(q, cycles, 4)
      BY <1>7, <1>8, <1>12, Plans DEF SpawnOK
    <3>2. Knows(n, cycles, 3)
      BY <1>9, <1>12, <3>1 DEF Knows
    <3> QED BY <1>7, <1>9, <1>11, <1>12, <3>1, <3>2 DEF SpawnOK
  <2> QED BY <1>1, <1>7, <1>12, <2>1 DEF CallOK
<1>13. \A n \in Call :
        /\ n.op = q.op /\ n.rec = q.rec /\ n.pred = q.pred
        /\ n.chief = q.chief /\ n.dead0 = q.dead0
        /\ n.expected = q.expected /\ n.todo = Tail(q.todo)
        /\ n.row = row /\ n.brief = q.brief /\ n.now = clock
        => CallOK(n, cycles, leases)
  BY <1>12
<1>14. Proceed(p, row, q.brief, clock) /\ row.thread = q.row.thread
  BY <1>3, <1>9 DEF row
<1> DEFINE brief == q.brief  now == clock
<1>15. brief \in Cycles \cup {None} /\ now \in Nat
       /\ row.thread = proc[p].row.thread /\ Proceed(p, row, brief, now)
  BY <1>1, <1>2, <1>14 DEF q
<1>16. \A n \in Call :
        /\ n.op = proc[p].op /\ n.rec = proc[p].rec
        /\ n.pred = proc[p].pred /\ n.chief = proc[p].chief
        /\ n.dead0 = proc[p].dead0 /\ n.expected = proc[p].expected
        /\ n.todo = Tail(proc[p].todo) /\ n.row = row
        /\ n.brief = brief /\ n.now = now
        => CallOK(n, cycles, leases)
  BY <1>13 DEF q
<1> HIDE DEF brief, now
<1> QED BY <1>4, <1>10, <1>15, <1>16, ProcProceeds

LEMMA BriefChecked ==
    ASSUME Inv, NEW p \in Procs, CheckBrief(p)
    PROVE  Inv'
<1> DEFINE q == proc[p]
<1>1. q \in Call /\ CallOK(q, cycles, leases) /\ q.todo # <<>>
      /\ Head(q.todo) = "brief"
  BY DEF Inv, TypeOK, CallsOK, CheckBrief, Doing
<1>2. q.row \in Target /\ q.brief \in Cycles \cup {None} /\ q.now \in Nat
      /\ q.op \in {"idle", "issue", "revoke", "root", "spawn", "resolve"}
  BY <1>1 DEF Call
<1>3. q.row.role \in cycles[q.row.cycle].rec.roles
  BY BriefRoutes DEF CheckBrief
<1>4. UNCHANGED <<tables, files, live, clock>> /\ Doing(p, "brief")
      /\ Proceed(p, q.row, q.brief, q.now)
  BY DEF CheckBrief
<1> HIDE DEF q
<1>5. q.op \in {"spawn", "resolve"}
  BY <1>1, <1>2, Plans DEF CallOK, RootOK
<1>6. ASSUME NEW n \in Call,
             n.op = q.op, n.rec = q.rec, n.pred = q.pred, n.chief = q.chief,
             n.dead0 = q.dead0, n.expected = q.expected,
             n.todo = Tail(q.todo), n.row = q.row, n.brief = q.brief,
             n.now = q.now
      PROVE  CallOK(n, cycles, leases)
  <2>1. CASE q.op = "spawn"
    <3>1. SpawnOK(q, cycles)
      BY <1>1, <2>1 DEF CallOK
    <3>2. q.todo = S2
      BY <1>1, <3>1, Plans DEF SpawnOK
    <3>3. SpawnOK(n, cycles)
      <4>1. n.todo = S1 /\ Len(n.todo) = 1 /\ Knows(q, cycles, 2)
        BY <1>6, <3>1, <3>2, Plans DEF SpawnOK
      <4>2. Knows(n, cycles, 1)
        BY <1>3, <1>6, <4>1 DEF Knows
      <4> QED BY <1>6, <3>1, <4>1, <4>2 DEF SpawnOK
    <3> QED BY <1>1, <1>6, <2>1, <3>3 DEF CallOK
  <2>2. CASE q.op = "resolve"
    <3>1. q.todo = R2
      BY <1>1, <2>2, Plans DEF CallOK, ResolveOK
    <3> QED BY <1>1, <1>6, <2>2, <3>1, Plans DEF CallOK, ResolveOK
  <2> QED BY <1>5, <2>1, <2>2
<1> QED BY <1>2, <1>4, <1>6, ProcProceeds DEF q

-----------------------------------------------------------------------------
(* Steps that change a table.                                              *)

\* The other calls keep what they know, when the tables only grow and no
\* binding takes the thread of a spawn under way.
LEMMA CallsKept ==
    ASSUME Inv, proc' = proc, Grows(cycles, cycles'),
           \A l \in Chiefs : leases[l] = "revoked" => leases'[l] = "revoked",
           \A b \in bindings' : \E s \in bindings : s.thread = b.thread
    PROVE  CallsOK' /\ SpawnsApart'
<1>1. CallsOK'
  <2> SUFFICES ASSUME NEW s \in Procs PROVE CallOK(proc[s], cycles', leases')
    BY DEF CallsOK
  <2>1. CallOK(proc[s], cycles, leases)
    BY DEF Inv, CallsOK
  <2> QED BY <2>1, CallKept
<1>2. SpawnsApart'
  BY DEF Inv, SpawnsApart
<1> QED BY <1>1, <1>2

LEMMA CallEnds ==
    ASSUME Inv, NEW p \in Procs, proc' = [proc EXCEPT ![p] = Idle],
           Grows(cycles, cycles'),
           \A l \in Chiefs : leases[l] = "revoked" => leases'[l] = "revoked",
           \A b \in bindings' : \/ \E s \in bindings : s.thread = b.thread
                                \/ b.thread \in Chiefs
                                \/ b.thread = proc[p].row.thread
    PROVE  proc' \in [Procs -> Call] /\ CallsOK' /\ SpawnsApart'
<1>0. proc \in [Procs -> Call]
  BY DEF Inv, TypeOK
<1>1. proc' \in [Procs -> Call]
  BY <1>0, IdleOK
<1>2. proc'[p] = Idle /\ \A s \in Procs \ {p} : proc'[s] = proc[s]
  BY <1>0
<1>3. \A s \in Procs : CallOK(proc'[s], cycles, leases)
  BY <1>2, IdleOK DEF Inv, CallsOK
<1>4. CallsOK'
  <2> SUFFICES ASSUME NEW s \in Procs PROVE CallOK(proc'[s], cycles', leases')
    BY DEF CallsOK
  <2> DEFINE q == proc'[s]
  <2>1. CallOK(q, cycles, leases)
    BY <1>3
  <2> HIDE DEF q
  <2>2. CallOK(q, cycles', leases')
    BY <2>1, CallKept
  <2> QED BY <2>2 DEF q
<1>5. SpawnsApart'
  <2>0. \A s \in Procs : proc[s].op = "spawn" => proc[s].row.thread \in Children
    BY DEF Inv, CallsOK, CallOK, SpawnOK
  <2>1. SpawnsApart
    BY DEF Inv
  <2> SUFFICES ASSUME NEW s \in Procs, proc'[s].op = "spawn"
               PROVE  /\ \A b \in bindings' : b.thread # proc'[s].row.thread
                      /\ \A t \in Procs \ {s} :
                            proc'[t].row.thread # proc'[s].row.thread
    BY DEF SpawnsApart
  <2>2. s # p /\ proc'[s] = proc[s] /\ proc[s].op = "spawn"
    BY <1>2, IdleOK
  <2>3. proc[s].row.thread \in Children
    BY <2>0, <2>2
  <2>4. \A b \in bindings' : b.thread # proc'[s].row.thread
    BY <2>1, <2>2, <2>3, CycleAssumption DEF SpawnsApart
  <2>5. \A t \in Procs \ {s} : proc'[t].row.thread # proc'[s].row.thread
    BY <1>2, <2>1, <2>2, <2>3, IdleOK, CycleAssumption DEF SpawnsApart
  <2> QED BY <2>4, <2>5
<1> QED BY <1>1, <1>4, <1>5

LEMMA GrowsSelf == \A cyc : Grows(cyc, cyc)
BY DEF Grows, IssuedIn

LEMMA TickKeeps == ASSUME Inv, Tick PROVE Inv'
<1>1. /\ events' = events /\ leases' = leases /\ cycles' = cycles
      /\ briefs' = briefs /\ bindings' = bindings /\ files' = files
      /\ live' = live /\ proc' = proc /\ clock' = clock + 1
  BY DEF Tick, tables
<1>2. TypeOK'
  BY <1>1 DEF Inv, TypeOK
<1>3. CallsOK' /\ SpawnsApart'
  BY <1>1 DEF Inv, CallsOK, SpawnsApart
<1> QED BY <1>1, <1>2, <1>3 DEF Inv

\* Events that are about no cycle.
LEMMA OtherEventKeeps ==
    ASSUME Inv, NEW e, NEW expected \in Nat,
           e.agg \in Chiefs \cup {Campaign}, Appends(events, e, expected),
           e.agg # Campaign \/ e.body.type = "foreign",
           e.body.type # "superseded",
           events' = Append1(events, e, expected),
           UNCHANGED <<cycles, briefs, bindings, files, live, proc, clock>>,
           leases' \in [Chiefs -> {"absent", "active", "revoked"}],
           \A l \in Chiefs : leases[l] = "revoked" => leases'[l] = "revoked"
    PROVE  Inv'
<1>1. LogOK(events, cycles) /\ cycles \in [Cycles -> CycleRow \cup {None}]
  BY DEF Inv, TypeOK
<1>2. LogOK(events', cycles)
  BY <1>1, AppendOther
<1>3. TypeOK'
  BY <1>2 DEF Inv, TypeOK, LogOK, EventsOK
<1>4. CallsOK' /\ SpawnsApart'
  BY GrowsSelf, CallsKept
<1> QED BY <1>2, <1>3, <1>4 DEF Inv

LEMMA ForeignKeeps == ASSUME Inv, ForeignEvent PROVE Inv'
<1> DEFINE id == <<"foreign", Version>>
           e == Event(id, id, Campaign,
                      [type |-> "foreign", cycle |-> None, pred |-> None], 0)
<1>1. Appends(events, e, Version) /\ events' = Append1(events, e, Version)
      /\ UNCHANGED <<leases, cycles, briefs, bindings, files, live, proc, clock>>
  BY DEF ForeignEvent
<1>2. e.agg = Campaign /\ e.body.type = "foreign"
  BY DEF Event
<1>3. Version \in Nat /\ leases \in [Chiefs -> {"absent", "active", "revoked"}]
  BY VersionsBounded DEF Inv, LogOK, EventsOK, Version, TypeOK
<1> HIDE DEF e
<1> QED BY <1>1, <1>2, <1>3, OtherEventKeeps

LEMMA LeaseEventIs ==
    ASSUME NEW l, NEW type
    PROVE  LeaseEvent(l, type).agg = l /\ LeaseEvent(l, type).body.type = type
BY DEF LeaseEvent, Event

LEMMA ProvisionKeeps ==
    ASSUME Inv, NEW l \in Chiefs, ProvisionLease(l)
    PROVE  Inv'
<1> DEFINE e == LeaseEvent(l, "provisioned")
<1>1. Appends(events, e, 0) /\ events' = Append1(events, e, 0)
      /\ UNCHANGED <<cycles, briefs, bindings, files, live, proc, clock>>
      /\ leases[l] = "absent" /\ leases' = [leases EXCEPT ![l] = "active"]
  BY DEF ProvisionLease
<1>2. e.agg = l /\ e.body.type = "provisioned"
  BY LeaseEventIs
<1>3. leases \in [Chiefs -> {"absent", "active", "revoked"}]
  BY DEF Inv, TypeOK
<1>4. /\ leases' \in [Chiefs -> {"absent", "active", "revoked"}]
      /\ \A k \in Chiefs : leases[k] = "revoked" => leases'[k] = "revoked"
  BY <1>1, <1>3
<1> HIDE DEF e
<1> QED BY <1>1, <1>2, <1>4, OtherEventKeeps, CycleAssumption

LEMMA RevokeLeaseKeeps ==
    ASSUME Inv, NEW l \in Chiefs, RevokeLease(l)
    PROVE  Inv'
<1> DEFINE e == LeaseEvent(l, "lease_revoked")
<1>1. Appends(events, e, 1) /\ events' = Append1(events, e, 1)
      /\ UNCHANGED <<cycles, briefs, bindings, files, live, proc, clock>>
      /\ leases' = [leases EXCEPT ![l] = "revoked"]
  BY DEF RevokeLease
<1>2. e.agg = l /\ e.body.type = "lease_revoked"
  BY LeaseEventIs
<1>3. leases \in [Chiefs -> {"absent", "active", "revoked"}]
  BY DEF Inv, TypeOK
<1>4. /\ leases' \in [Chiefs -> {"absent", "active", "revoked"}]
      /\ \A k \in Chiefs : leases[k] = "revoked" => leases'[k] = "revoked"
  BY <1>1, <1>3
<1> HIDE DEF e
<1> QED BY <1>1, <1>2, <1>4, OtherEventKeeps, CycleAssumption

LEMMA RecordKeeps == ASSUME Inv, WriteRecord PROVE Inv'
<1>1. PICK c \in Cycles, d \in Decisions, t \in Deadlines :
        files' = files \cup
                {[id |-> c, expected |-> Version, deadline |-> t,
                  outcome |-> d.outcome, directive |-> d.directive,
                  roles |-> d.roles]}
  BY DEF WriteRecord
<1>2. /\ events' = events /\ leases' = leases /\ cycles' = cycles
      /\ briefs' = briefs /\ bindings' = bindings
      /\ live' = live /\ proc' = proc /\ clock' = clock
  BY DEF WriteRecord, tables
<1>3. Version \in Nat
  BY VersionsBounded DEF Inv, LogOK, EventsOK, Version
<1>4. [id |-> c, expected |-> Version, deadline |-> t, outcome |-> d.outcome,
       directive |-> d.directive, roles |-> d.roles] \in Rec
  BY <1>3, CycleAssumption DEF Rec
<1>5. TypeOK'
  BY <1>1, <1>2, <1>4 DEF Inv, TypeOK
<1>6. CallsOK' /\ SpawnsApart'
  BY <1>2 DEF Inv, CallsOK, SpawnsApart
<1> QED BY <1>2, <1>5, <1>6 DEF Inv

LEMMA RevokeThreadKeeps == ASSUME Inv, RevokeThread PROVE Inv'
<1>1. PICK r \in bindings :
        bindings' = (bindings \ {r}) \cup {[r EXCEPT !.revoked = TRUE]}
  BY DEF RevokeThread
<1>2. /\ events' = events /\ leases' = leases /\ cycles' = cycles
      /\ briefs' = briefs /\ files' = files
      /\ live' = live /\ proc' = proc /\ clock' = clock
  BY DEF RevokeThread
<1> DEFINE n == [r EXCEPT !.revoked = TRUE]
<1>3. r \in Binding /\ bindings \subseteq Binding
  BY DEF Inv, TypeOK
<1>4. n \in Binding /\ n.thread = r.thread /\ n.parent = r.parent
      /\ n.cycle = r.cycle /\ n.version = r.version /\ n.lease = r.lease
      /\ n.role = r.role
  BY <1>3 DEF Binding
<1> HIDE DEF n
<1>5. bindings' = (bindings \ {r}) \cup {n}
  BY <1>1 DEF n
<1>6. TypeOK'
  BY <1>2, <1>3, <1>4, <1>5 DEF Inv, TypeOK
<1>7. Genuine(n, cycles) /\ \A a \in live : a.thread = n.thread
                                => Suits(a.brief, n, cycles)
  BY <1>4 DEF Inv, BindingsOK, Genuine, Names, Suits
<1>8. BindingsOK(bindings', cycles, live)
  BY <1>4, <1>5, <1>7 DEF Inv, BindingsOK
<1>9. CallsOK' /\ SpawnsApart'
  BY <1>2, <1>4, <1>5, GrowsSelf, CallsKept
<1> QED BY <1>2, <1>6, <1>8, <1>9 DEF Inv

LEMMA InsertKeeps ==
    ASSUME Inv, NEW p \in Procs, InsertBinding(p)
    PROVE  Inv'
<1> DEFINE q == proc[p]  n == Stored(q.row)
<1>1. q \in Call /\ CallOK(q, cycles, leases) /\ q.todo # <<>>
      /\ Head(q.todo) = "insert"
  BY DEF Inv, TypeOK, CallsOK, InsertBinding, Doing
<1>2. q.row \in Target
      /\ q.op \in {"idle", "issue", "revoke", "root", "spawn", "resolve"}
  BY <1>1 DEF Call
<1>3. /\ bindings' = bindings \cup {n} /\ proc' = [proc EXCEPT ![p] = Idle]
      /\ live' = IF q.op = "spawn"
                 THEN live \cup {[thread |-> q.row.thread, brief |-> q.brief]}
                 ELSE live
      /\ events' = events /\ leases' = leases /\ cycles' = cycles
      /\ briefs' = briefs /\ files' = files /\ clock' = clock
  BY DEF InsertBinding
<1>a. q.op = "spawn" => \A b \in bindings : b.thread # q.row.thread
  BY DEF Inv, SpawnsApart
<1> HIDE DEF q
<1>4. n.thread = q.row.thread /\ n.parent = q.row.parent
      /\ n.cycle = q.row.cycle /\ n.version = q.row.version
      /\ n.lease = q.row.lease /\ n.role = q.row.role
  BY DEF Stored
<1>5. \/ q.op = "root" /\ RootOK(q, cycles) /\ q.todo = S1
      \/ q.op = "spawn" /\ SpawnOK(q, cycles) /\ q.todo = S1
  BY <1>1, <1>2, Plans DEF CallOK, RootOK, SpawnOK, ResolveOK
<1>k. q.op = "spawn" => Knows(q, cycles, 1)
  BY <1>5, Plans DEF SpawnOK
<1>6. Names(q.row, cycles) /\ q.row.lease \in Chiefs
  BY <1>5 DEF RootOK, SpawnOK
<1>b. cycles \in [Cycles -> CycleRow \cup {None}] /\ bindings \subseteq Binding
      /\ live \subseteq [thread : Children, brief : Cycles]
  BY DEF Inv, TypeOK
<1>7. n \in Binding
  <2>1. q.row.cycle \in Cycles /\ q.row.version \in Nat
    BY <1>2, <1>6 DEF Names, IssuedIn, Target
  <2>2. q.row.thread \in Chiefs \cup Children /\ q.row.parent \in Chiefs \cup {None}
        /\ q.row.role \in Roles \cup {"chief"}
    BY <1>5 DEF RootOK, SpawnOK
  <2> QED BY <1>6, <2>1, <2>2 DEF Stored, Binding
<1>8. Genuine(n, cycles)
  <2>1. Names(n, cycles)
    BY <1>4, <1>6 DEF Names
  <2>2. CASE q.op = "root"
    BY <1>4, <1>5, <2>1, <2>2 DEF Genuine, RootOK
  <2>3. CASE q.op = "spawn"
    <3>1. n.parent = n.lease /\ n.role \in Roles
      BY <1>4, <1>5, <2>3 DEF SpawnOK
    <3>2. n.role \in cycles[n.cycle].rec.roles
      BY <1>4, <1>k, <2>3 DEF Knows
    <3> QED BY <2>1, <3>1, <3>2, CycleAssumption DEF Genuine
  <2> QED BY <1>5, <2>2, <2>3
<1> HIDE DEF n
<1>9. live' \subseteq [thread : Children, brief : Cycles]
      /\ BindingsOK(bindings', cycles, live')
  <2>0. BindingsOK(bindings, cycles, live)
    BY DEF Inv
  <2>1. CASE q.op = "root"
    <3>1. live' = live /\ n.thread \in Chiefs
      BY <1>3, <1>4, <1>5, <2>1 DEF RootOK
    <3>2. \A a \in live : a.thread # n.thread
      BY <1>b, <3>1, CycleAssumption
    <3> QED BY <1>3, <1>8, <1>b, <2>0, <3>1, <3>2 DEF BindingsOK
  <2>2. CASE q.op = "spawn"
    <3> DEFINE a == [thread |-> q.row.thread, brief |-> q.brief]
    <3>1. a.thread = n.thread /\ a.brief = q.brief /\ live' = live \cup {a}
      BY <1>3, <1>4, <2>2
    <3>2. Suits(q.brief, n, cycles)
      BY <1>4, <1>5, <1>k, <2>2 DEF Suits, Knows, SpawnOK
    <3>3. a \in [thread : Children, brief : Cycles]
      BY <1>5, <2>2, <3>2 DEF SpawnOK, Suits, IssuedIn
    <3> HIDE DEF a
    <3>4. \A b \in bindings : b.thread # n.thread
      BY <1>4, <1>a, <2>2
    <3>5. \A x \in live : x.thread # n.thread
      BY <2>0, <3>4 DEF BindingsOK
    <3>6. \A b \in bindings' : Genuine(b, cycles)
      BY <1>3, <1>8, <2>0 DEF BindingsOK
    <3>7. \A b \in bindings' : \A x \in live' : x.thread = b.thread
                                          => Suits(x.brief, b, cycles)
      BY <1>3, <2>0, <3>1, <3>2, <3>4, <3>5 DEF BindingsOK
    <3>8. \A x \in live' : \E b \in bindings' : b.thread = x.thread
      BY <1>3, <2>0, <3>1 DEF BindingsOK
    <3> QED BY <1>b, <3>1, <3>3, <3>6, <3>7, <3>8 DEF BindingsOK
  <2> QED BY <1>5, <2>1, <2>2
<1>10. proc' \in [Procs -> Call] /\ CallsOK' /\ SpawnsApart'
  BY <1>3, <1>4, GrowsSelf, CallEnds DEF q
<1>11. TypeOK'
  BY <1>3, <1>7, <1>9, <1>10 DEF Inv, TypeOK
<1> QED BY <1>3, <1>9, <1>10, <1>11 DEF Inv

\* The rows an UPDATE leaves: the same, some of them revoked.
LEMMA DroppedBindings ==
    ASSUME NEW bin \in SUBSET Binding, NEW c
    PROVE  /\ Dropped(bin, c) \subseteq Binding
           /\ \A r \in Dropped(bin, c) : \E s \in bin :
                 /\ r.thread = s.thread /\ r.parent = s.parent
                 /\ r.cycle = s.cycle /\ r.version = s.version
                 /\ r.lease = s.lease /\ r.role = s.role
           /\ \A s \in bin : \E r \in Dropped(bin, c) : r.thread = s.thread
<1>1. ASSUME NEW s \in bin
      PROVE  LET r == [s EXCEPT !.revoked = s.revoked \/ s.cycle = c] IN
             /\ r \in Binding
             /\ r.thread = s.thread /\ r.parent = s.parent
             /\ r.cycle = s.cycle /\ r.version = s.version
             /\ r.lease = s.lease /\ r.role = s.role
  BY DEF Binding
<1>2. Dropped(bin, c) \subseteq Binding
  BY <1>1 DEF Dropped
<1>3. ASSUME NEW r \in Dropped(bin, c)
      PROVE  \E s \in bin : /\ r.thread = s.thread /\ r.parent = s.parent
                            /\ r.cycle = s.cycle /\ r.version = s.version
                            /\ r.lease = s.lease /\ r.role = s.role
  <2>1. PICK s \in bin : r = [s EXCEPT !.revoked = s.revoked \/ s.cycle = c]
    BY DEF Dropped
  <2> QED BY <1>1, <2>1
<1>4. ASSUME NEW s \in bin PROVE \E r \in Dropped(bin, c) : r.thread = s.thread
  <2> DEFINE r == [s EXCEPT !.revoked = s.revoked \/ s.cycle = c]
  <2>1. r \in Dropped(bin, c)
    BY DEF Dropped
  <2>2. r.thread = s.thread
    BY <1>1
  <2> QED BY <2>1, <2>2
<1> QED BY <1>2, <1>3, <1>4

LEMMA DroppedBriefs ==
    ASSUME NEW bri \in SUBSET Brief, NEW c
    PROVE  /\ Dropped(bri, c) \subseteq Brief
           /\ \A r \in Dropped(bri, c) : ~r.revoked => \E s \in bri :
                 /\ r.cycle = s.cycle /\ r.role = s.role /\ ~s.revoked
                 /\ r.cycle # c
<1>1. ASSUME NEW s \in bri
      PROVE  LET r == [s EXCEPT !.revoked = s.revoked \/ s.cycle = c] IN
             /\ r \in Brief /\ r.cycle = s.cycle /\ r.role = s.role
             /\ r.revoked = (s.revoked \/ s.cycle = c)
  BY DEF Brief
<1>2. Dropped(bri, c) \subseteq Brief
  BY <1>1 DEF Dropped
<1>3. ASSUME NEW r \in Dropped(bri, c), ~r.revoked
      PROVE  \E s \in bri : /\ r.cycle = s.cycle /\ r.role = s.role
                            /\ ~s.revoked /\ r.cycle # c
  <2>1. PICK s \in bri : r = [s EXCEPT !.revoked = s.revoked \/ s.cycle = c]
    BY DEF Dropped
  <2>2. r.cycle = s.cycle /\ r.role = s.role /\ r.revoked = (s.revoked \/ s.cycle = c)
    BY <1>1, <2>1
  <2> QED BY <1>3, <2>2
<1> QED BY <1>2, <1>3

LEMMA DroppedGenuine ==
    ASSUME NEW bin \in SUBSET Binding, NEW c, NEW cyc, NEW liv,
           BindingsOK(bin, cyc, liv)
    PROVE  BindingsOK(Dropped(bin, c), cyc, liv)
<1>1. ASSUME NEW r \in Dropped(bin, c)
      PROVE  Genuine(r, cyc) /\ \A a \in liv : a.thread = r.thread
                                          => Suits(a.brief, r, cyc)
  <2>1. PICK s \in bin :
                 /\ r.thread = s.thread /\ r.parent = s.parent
                 /\ r.cycle = s.cycle /\ r.version = s.version
                 /\ r.lease = s.lease /\ r.role = s.role
    BY DroppedBindings
  <2> QED BY <2>1 DEF BindingsOK, Genuine, Names, Suits
<1>2. \A a \in liv : \E b \in Dropped(bin, c) : b.thread = a.thread
  BY DroppedBindings DEF BindingsOK
<1> QED BY <1>1, <1>2 DEF BindingsOK

\* An active brief that survives the UPDATE is of another active cycle.
LEMMA DroppedBriefsOK ==
    ASSUME NEW bri \in SUBSET Brief, NEW c, NEW cyc, NEW new, Grows(cyc, new),
           BriefsOK(bri, cyc), ActiveIn(cyc) \ {c} \subseteq ActiveIn(new)
    PROVE  BriefsOK(Dropped(bri, c), new)
<1> SUFFICES ASSUME NEW r \in Dropped(bri, c), ~r.revoked
             PROVE  r.cycle \in ActiveIn(new) /\ r.role \in new[r.cycle].rec.roles
  BY DEF BriefsOK
<1>1. PICK s \in bri : /\ r.cycle = s.cycle /\ r.role = s.role /\ ~s.revoked
                       /\ r.cycle # c
  BY DroppedBriefs
<1>2. r.cycle \in ActiveIn(cyc) /\ r.role \in cyc[r.cycle].rec.roles
  BY <1>1 DEF BriefsOK
<1> QED BY <1>1, <1>2 DEF Grows, ActiveIn

\* A cycle is issued, over the active one or over none.
LEMMA IssueKeeps ==
    ASSUME Inv, NEW p \in Procs, CommitIssue(p)
    PROVE  Inv'
<1> DEFINE q == proc[p]  c == q.rec.id  x == q.rec.expected  e == IssueEvent(q)
           row == [rec |-> q.rec, lease |-> q.chief, version |-> x + 1,
                   revoked |-> FALSE]
           root == [thread |-> q.chief, parent |-> None, cycle |-> c,
                    version |-> x + 1, lease |-> q.chief, role |-> "chief",
                    revoked |-> FALSE]
           given == {[cycle |-> c, role |-> r, revoked |-> FALSE] : r \in q.rec.roles}
<1>1. q.rec \in Rec /\ q.chief \in Chiefs /\ q.pred \in Cycles \cup {None}
  BY DEF Inv, TypeOK, Call, CallsOK, CallOK, CommitIssue
<1>2. c \in Cycles /\ x \in Nat /\ q.rec.roles \subseteq Roles
  BY <1>1 DEF Rec
<1>3. /\ Appends(events, e, x) /\ c \notin IssuedIn(cycles)
      /\ q.pred = None => ActiveIn(cycles) = {}
      /\ q.pred # None => /\ ActiveIn(cycles) = {q.pred}
                          /\ ValidSuccessor(cycles[q.pred].rec, q.rec, q.now)
  BY TableDefs DEF CommitIssue, Issuable
<1>4. /\ events' = Append1(events, e, x)
      /\ cycles' = [d \in Cycles |->
             IF d = c THEN row
             ELSE IF d = q.pred THEN [cycles[d] EXCEPT !.revoked = TRUE]
             ELSE cycles[d]]
      /\ briefs' = Dropped(briefs, q.pred) \cup given
      /\ bindings' = Dropped(bindings, q.pred) \cup {root}
      /\ proc' = [proc EXCEPT ![p] = Idle]
      /\ leases' = leases /\ files' = files /\ live' = live /\ clock' = clock
  BY DEF CommitIssue
<1>5. /\ e.agg = Campaign /\ e.body.cycle = c /\ e.body.pred = q.pred
      /\ e.body.type = IF q.pred = None THEN "issued" ELSE "superseded"
  BY DEF IssueEvent, Event
<1>6. /\ row.rec = q.rec /\ row.lease = q.chief /\ row.version = x + 1
      /\ ~row.revoked /\ row \in CycleRow
  BY <1>1, <1>2 DEF CycleRow
<1>7. /\ root.thread = q.chief /\ root.parent = None /\ root.cycle = c
      /\ root.version = x + 1 /\ root.lease = q.chief /\ root.role = "chief"
      /\ root \in Binding
  BY <1>1, <1>2 DEF Binding
<1>8. \A b \in given : b \in Brief /\ b.cycle = c /\ b.role \in q.rec.roles
  <2> SUFFICES ASSUME NEW r \in q.rec.roles
               PROVE  LET b == [cycle |-> c, role |-> r, revoked |-> FALSE] IN
                      b \in Brief /\ b.cycle = c /\ b.role \in q.rec.roles
    OBVIOUS
  <2> QED BY <1>2 DEF Brief
<1> HIDE DEF e, row, root, given, q
<1>t. /\ cycles \in [Cycles -> CycleRow \cup {None}] /\ briefs \in SUBSET Brief
      /\ bindings \in SUBSET Binding
      /\ live \subseteq [thread : Children, brief : Cycles]
      /\ LogOK(events, cycles)
  BY DEF Inv, TypeOK
<1>n. q.pred # None => /\ q.pred \in Cycles /\ q.pred # c
                       /\ cycles[q.pred] \in CycleRow
  BY <1>3, <1>t DEF ActiveIn, IssuedIn
<1> DEFINE z == c
<1>9. /\ cycles'[z] = row
      /\ \A d \in Cycles \ {z} : d # q.pred => cycles'[d] = cycles[d]
      /\ q.pred # None => cycles'[q.pred] = [cycles[q.pred] EXCEPT !.revoked = TRUE]
  BY <1>2, <1>4, <1>n
<1>10. q.pred # None =>
         /\ cycles'[q.pred] \in CycleRow /\ cycles'[q.pred].revoked
         /\ cycles'[q.pred].rec = cycles[q.pred].rec
         /\ cycles'[q.pred].lease = cycles[q.pred].lease
         /\ cycles'[q.pred].version = cycles[q.pred].version
  BY <1>9, <1>n DEF CycleRow
<1>11. cycles' \in [Cycles -> CycleRow \cup {None}]
  <2>1. \A d \in Cycles : cycles'[d] \in CycleRow \cup {None}
    <3> SUFFICES ASSUME NEW d \in Cycles
                 PROVE  cycles'[d] \in CycleRow \cup {None}
      OBVIOUS
    <3>1. CASE d = z
      BY <1>6, <1>9, <3>1
    <3>2. CASE d # z /\ d = q.pred
      BY <1>10, <3>2, CycleAssumption
    <3>3. CASE d # z /\ d # q.pred
      BY <1>9, <1>t, <3>3
    <3> QED BY <3>1, <3>2, <3>3
  <2> QED BY <1>4, <2>1
<1> HIDE DEF z
<1>12. z = c
  BY DEF z
<1>13. Grows(cycles, cycles')
  <2> SUFFICES ASSUME NEW d \in IssuedIn(cycles)
               PROVE  /\ cycles'[d] # None /\ cycles'[d].rec = cycles[d].rec
                      /\ cycles'[d].lease = cycles[d].lease
                      /\ cycles'[d].version = cycles[d].version
                      /\ cycles[d].revoked => cycles'[d].revoked
    BY DEF Grows
  <2>1. d \in Cycles \ {z} /\ cycles[d] # None
    BY <1>3, <1>12 DEF IssuedIn
  <2>2. CASE d = q.pred
    BY <1>10, <2>1, <2>2, CycleAssumption
  <2>3. CASE d # q.pred
    BY <1>9, <2>1, <2>3
  <2> QED BY <2>2, <2>3
<1>14. ActiveIn(cycles') = {z}
  <2>1. z \in ActiveIn(cycles')
    BY <1>2, <1>6, <1>9, <1>12, CycleAssumption DEF ActiveIn, IssuedIn
  <2>2. ASSUME NEW d \in ActiveIn(cycles'), d # z PROVE FALSE
    <3>1. d \in Cycles \ {z} /\ cycles'[d] # None /\ ~cycles'[d].revoked
      BY <2>2 DEF ActiveIn, IssuedIn
    <3>2. d # q.pred
      BY <1>10, <3>1, CycleAssumption
    <3>3. d \in ActiveIn(cycles)
      BY <1>9, <3>1, <3>2 DEF ActiveIn, IssuedIn
    <3> QED BY <1>3, <3>2, <3>3
  <2> QED BY <2>1, <2>2
<1>15. LogOK(events', cycles')
  <2>0. EventsOK(events) /\ CurrentVersion(events, Campaign) \in Nat
    BY <1>t, VersionsBounded DEF LogOK, EventsOK
  <2>1. EventsOK(events')
    BY <1>2, <1>3, <1>4, <1>5, <2>0, AppendEvents
  <2>2. /\ LastOf(Decided(events')) = {Row(e, x + 1)}
        /\ CurrentVersion(events', Campaign) = x + 1
        /\ CurrentVersion(events, Campaign) = x
    BY <1>2, <1>3, <1>4, <1>5, <2>0, AppendDecided
  <2>3. events' = events \cup {Row(e, x + 1)}
    BY <1>4 DEF Append1
  <2> DEFINE n == Row(e, x + 1)
  <2>4. n.body = e.body /\ n.version = x + 1
    BY DEF Row
  <2> HIDE DEF n
  <2>5. ReplayOK(events', cycles')
    <3>1. LeftActive({n}) = {c}
      BY <1>5, <2>4 DEF LeftActive
    <3> QED BY <1>12, <1>14, <2>2, <3>1 DEF ReplayOK, n
  <2>6. VersionsOK(events', cycles')
    <3> SUFFICES ASSUME NEW d \in IssuedIn(cycles')
                 PROVE  /\ cycles'[d].version = cycles'[d].rec.expected + 1
                        /\ cycles'[d].version <= x + 1
      BY <1>6, <1>9, <1>14, <2>2 DEF VersionsOK
    <3>1. CASE d = z
      BY <1>2, <1>6, <1>9, <3>1
    <3>2. CASE d # z
      <4>1. d \in IssuedIn(cycles)
        <5>1. d \in Cycles /\ cycles'[d] # None
          BY DEF IssuedIn
        <5>2. CASE d = q.pred
          BY <1>3, <5>1, <5>2, CycleAssumption DEF ActiveIn
        <5>3. CASE d # q.pred
          BY <1>9, <3>2, <5>1, <5>3 DEF IssuedIn
        <5> QED BY <5>2, <5>3
      <4>2. cycles[d].version = cycles[d].rec.expected + 1
            /\ cycles[d].version <= x /\ cycles[d].version \in Nat
        BY <1>t, <2>2, <4>1 DEF LogOK, VersionsOK, IssuedIn, CycleRow
      <4>3. cycles'[d].version = cycles[d].version /\ cycles'[d].rec = cycles[d].rec
        BY <1>13, <4>1 DEF Grows
      <4> QED BY <1>2, <4>2, <4>3
    <3> QED BY <3>1, <3>2
  <2>7. Legal(n, cycles')
    <3> SUFFICES ASSUME q.pred # None
                 PROVE  /\ cycles'[q.pred] # None /\ cycles'[q.pred].revoked
                        /\ x + 1 = cycles'[q.pred].version + 1
                        /\ cycles'[q.pred].rec.directive
                              \notin {"approve_closure", "abort"}
      BY <1>5, <1>n, <2>4 DEF Legal
    <3>1. x = cycles[q.pred].rec.expected + 1
          /\ cycles[q.pred].rec.directive \notin {"approve_closure", "abort"}
      BY <1>3 DEF ValidSuccessor
    <3>2. cycles[q.pred].version = cycles[q.pred].rec.expected + 1
      BY <1>3, <1>t DEF LogOK, VersionsOK, ActiveIn
    <3> QED BY <1>10, <3>1, <3>2, CycleAssumption
  <2>8. \A r \in events' : Legal(r, cycles')
    BY <1>13, <1>t, <2>3, <2>7, GrowsKeeps DEF LogOK, n
  <2> QED BY <2>1, <2>5, <2>6, <2>8 DEF LogOK
<1>16. BriefsOK(briefs', cycles') /\ briefs' \subseteq Brief
  <2>1. BriefsOK(Dropped(briefs, q.pred), cycles')
    <3>1. ActiveIn(cycles) \ {q.pred} \subseteq ActiveIn(cycles')
      BY <1>3
    <3>2. BriefsOK(briefs, cycles)
      BY DEF Inv
    <3> QED BY <1>13, <1>t, <3>1, <3>2, DroppedBriefsOK
  <2>2. BriefsOK(given, cycles')
    BY <1>6, <1>8, <1>9, <1>12, <1>14 DEF BriefsOK
  <2>3. Dropped(briefs, q.pred) \subseteq Brief
    BY <1>t, DroppedBriefs
  <2> QED BY <1>4, <1>8, <2>1, <2>2, <2>3 DEF BriefsOK
<1>17. /\ BindingsOK(bindings', cycles', live') /\ bindings' \subseteq Binding
       /\ \A b \in bindings' : \/ \E s \in bindings : s.thread = b.thread
                               \/ b.thread \in Chiefs
  <2>1. BindingsOK(Dropped(bindings, q.pred), cycles, live)
    BY <1>t, DroppedGenuine DEF Inv
  <2>2. BindingsOK(Dropped(bindings, q.pred), cycles', live)
    BY <1>13, <2>1, GrowsKeeps
  <2>3. Genuine(root, cycles')
    BY <1>2, <1>6, <1>7, <1>9, <1>12, CycleAssumption DEF Genuine, Names, IssuedIn
  <2>4. \A a \in live : a.thread # root.thread
    BY <1>1, <1>7, <1>t, CycleAssumption
  <2>5. BindingsOK(bindings', cycles', live')
    BY <1>4, <2>2, <2>3, <2>4 DEF BindingsOK
  <2>6. Dropped(bindings, q.pred) \subseteq Binding
        /\ \A b \in Dropped(bindings, q.pred) :
              \E s \in bindings : s.thread = b.thread
    BY <1>t, DroppedBindings
  <2> QED BY <1>1, <1>4, <1>7, <2>5, <2>6
<1>18. proc' \in [Procs -> Call] /\ CallsOK' /\ SpawnsApart'
  BY <1>4, <1>13, <1>17, CallEnds
<1>19. TypeOK'
  BY <1>4, <1>11, <1>15, <1>16, <1>17, <1>18 DEF Inv, TypeOK, LogOK, EventsOK
<1> QED BY <1>15, <1>16, <1>17, <1>18, <1>19 DEF Inv

\* The active cycle is revoked.
LEMMA RevokeKeeps ==
    ASSUME Inv, NEW p \in Procs, CommitRevoke(p)
    PROVE  Inv'
<1> DEFINE q == proc[p]  c == q.pred  x == q.expected  e == RevokeEvent(q)
<1>1. c \in Cycles /\ x \in Nat
  BY DEF Inv, TypeOK, Call, CallsOK, CallOK, CommitRevoke
<1>2. /\ Appends(events, e, x) /\ c \in ActiveIn(cycles)
  BY TableDefs DEF CommitRevoke, Revocable
<1>3. /\ events' = Append1(events, e, x)
      /\ cycles' = [cycles EXCEPT ![c] = [cycles[c] EXCEPT !.revoked = TRUE]]
      /\ briefs' = Dropped(briefs, c) /\ bindings' = Dropped(bindings, c)
      /\ proc' = [proc EXCEPT ![p] = Idle]
      /\ leases' = leases /\ files' = files /\ live' = live /\ clock' = clock
  BY DEF CommitRevoke
<1>4. e.agg = Campaign /\ e.body.type = "revoked"
  BY DEF RevokeEvent, Event
<1> HIDE DEF e, q
<1>t. /\ cycles \in [Cycles -> CycleRow \cup {None}] /\ briefs \in SUBSET Brief
      /\ bindings \in SUBSET Binding /\ LogOK(events, cycles)
  BY DEF Inv, TypeOK
<1>5. cycles[c] \in CycleRow
  BY <1>2, <1>t DEF ActiveIn, IssuedIn
<1>6. /\ cycles'[c] = [cycles[c] EXCEPT !.revoked = TRUE]
      /\ \A d \in Cycles \ {c} : cycles'[d] = cycles[d]
  BY <1>1, <1>3, <1>t
<1>7. /\ cycles'[c] \in CycleRow /\ cycles'[c].revoked
      /\ cycles'[c].rec = cycles[c].rec
      /\ cycles'[c].lease = cycles[c].lease
      /\ cycles'[c].version = cycles[c].version
  BY <1>5, <1>6 DEF CycleRow
<1>8. cycles' \in [Cycles -> CycleRow \cup {None}]
  BY <1>3, <1>6, <1>7, <1>t
<1>9. Grows(cycles, cycles')
  <2> SUFFICES ASSUME NEW d \in IssuedIn(cycles)
               PROVE  /\ cycles'[d] # None /\ cycles'[d].rec = cycles[d].rec
                      /\ cycles'[d].lease = cycles[d].lease
                      /\ cycles'[d].version = cycles[d].version
                      /\ cycles[d].revoked => cycles'[d].revoked
    BY DEF Grows
  <2>1. d \in Cycles /\ cycles[d] # None
    BY DEF IssuedIn
  <2> QED BY <1>6, <1>7, <2>1, CycleAssumption
<1>10. IssuedIn(cycles') = IssuedIn(cycles)
  BY <1>2, <1>6, <1>7, CycleAssumption DEF IssuedIn, ActiveIn
<1>11. ActiveIn(cycles') = {}
  <2> SUFFICES ASSUME NEW d \in ActiveIn(cycles') PROVE FALSE
    OBVIOUS
  <2>1. d # c
    BY <1>7 DEF ActiveIn
  <2>2. d \in ActiveIn(cycles)
    BY <1>6, <2>1 DEF ActiveIn, IssuedIn
  <2> QED BY <1>2, <1>t, <2>1, <2>2, ActiveIsUnique
<1>12. LogOK(events', cycles')
  <2>0. EventsOK(events)
    BY <1>t DEF LogOK
  <2>1. EventsOK(events')
    BY <1>1, <1>2, <1>3, <1>4, <2>0, AppendEvents
  <2>2. /\ LastOf(Decided(events')) = {Row(e, x + 1)}
        /\ CurrentVersion(events', Campaign) = x + 1
        /\ CurrentVersion(events, Campaign) = x
    BY <1>1, <1>2, <1>3, <1>4, <2>0, AppendDecided
  <2>3. events' = events \cup {Row(e, x + 1)}
    BY <1>3 DEF Append1
  <2> DEFINE n == Row(e, x + 1)
  <2>4. n.body.type = "revoked"
    BY <1>4 DEF Row
  <2> HIDE DEF n
  <2>5. ReplayOK(events', cycles')
    <3>1. LeftActive({n}) = {}
      BY <2>4 DEF LeftActive
    <3> QED BY <1>11, <2>2, <3>1 DEF ReplayOK, n
  <2>6. VersionsOK(events', cycles')
    <3> SUFFICES ASSUME NEW d \in IssuedIn(cycles)
                 PROVE  /\ cycles'[d].version = cycles'[d].rec.expected + 1
                        /\ cycles'[d].version <= x + 1
      BY <1>10, <1>11, <2>2 DEF VersionsOK
    <3>1. cycles[d].version = cycles[d].rec.expected + 1
          /\ cycles[d].version <= x /\ cycles[d].version \in Nat
      BY <1>t, <2>2 DEF LogOK, VersionsOK, IssuedIn, CycleRow
    <3>2. cycles'[d].version = cycles[d].version /\ cycles'[d].rec = cycles[d].rec
      BY <1>9 DEF Grows
    <3> QED BY <1>1, <3>1, <3>2
  <2>7. Legal(n, cycles')
    BY <2>4 DEF Legal
  <2>8. \A r \in events' : Legal(r, cycles')
    BY <1>9, <1>t, <2>3, <2>7, GrowsKeeps DEF LogOK, n
  <2> QED BY <2>1, <2>5, <2>6, <2>8 DEF LogOK
<1>13. BriefsOK(briefs', cycles') /\ briefs' \subseteq Brief
  <2>1. ActiveIn(cycles) \ {c} \subseteq ActiveIn(cycles')
    BY <1>2, <1>t, ActiveIsUnique
  <2>2. BriefsOK(briefs, cycles)
    BY DEF Inv
  <2> QED BY <1>3, <1>9, <1>t, <2>1, <2>2, DroppedBriefsOK, DroppedBriefs
<1>14. /\ BindingsOK(bindings', cycles', live') /\ bindings' \subseteq Binding
       /\ \A b \in bindings' : \E s \in bindings : s.thread = b.thread
  <2>1. BindingsOK(bindings', cycles, live)
    BY <1>3, <1>t, DroppedGenuine DEF Inv
  <2>2. BindingsOK(bindings', cycles', live')
    BY <1>3, <1>9, <2>1, GrowsKeeps
  <2> QED BY <1>3, <1>t, <2>2, DroppedBindings
<1>15. proc' \in [Procs -> Call] /\ CallsOK' /\ SpawnsApart'
  BY <1>3, <1>9, <1>14, CallEnds
<1>16. TypeOK'
  BY <1>3, <1>8, <1>12, <1>13, <1>14, <1>15 DEF Inv, TypeOK, LogOK, EventsOK
<1> QED BY <1>12, <1>13, <1>14, <1>15, <1>16 DEF Inv

-----------------------------------------------------------------------------
(* The theorems.                                                           *)

LEMMA InitInv == Init => Inv
<1> SUFFICES ASSUME Init PROVE Inv
  OBVIOUS
<1>0. Idle \in Call /\ Idle.op = "idle" /\ Idle.todo = <<>> /\ Idle.dead0 = {}
  BY DEF Idle, NoRow, Call, Target
<1>1. TypeOK
  BY <1>0 DEF Init, TypeOK
<1>2. IssuedIn(cycles) = {} /\ ActiveIn(cycles) = {}
  BY DEF Init, IssuedIn, ActiveIn
<1>3. EventsOK(events)
  <2>1. \A a : Versions({}, a) = 1..0
    BY DEF Versions
  <2>2. \A a : Numbered({}, a)
    BY <2>1 DEF Numbered
  <2> QED BY <2>2 DEF Init, EventsOK, UniqueRows
<1>4. LogOK(events, cycles)
  <2>1. ReplayOK(events, cycles)
    BY <1>2 DEF Init, ReplayOK, LeftActive, LastOf, Decided
  <2> QED BY <1>2, <1>3, <2>1 DEF Init, LogOK, VersionsOK
<1>5. BriefsOK(briefs, cycles) /\ BindingsOK(bindings, cycles, live)
  BY DEF Init, BriefsOK, BindingsOK
<1>6. CallsOK /\ SpawnsApart
  BY <1>0 DEF Init, CallsOK, CallOK, SpawnsApart
<1> QED BY <1>1, <1>4, <1>5, <1>6 DEF Inv

LEMMA NextInv == Inv /\ [Next]_vars => Inv'
<1> SUFFICES ASSUME Inv, [Next]_vars PROVE Inv'
  OBVIOUS
<1>1. CASE UNCHANGED vars
  BY <1>1 DEF vars, Inv, TypeOK, CallsOK, SpawnsApart
<1>2. CASE Tick \/ ForeignEvent \/ WriteRecord \/ RevokeThread
  BY <1>2, TickKeeps, ForeignKeeps, RecordKeeps, RevokeThreadKeeps
<1>3. ASSUME NEW l \in Chiefs, ProvisionLease(l) \/ RevokeLease(l) PROVE Inv'
  BY <1>3, ProvisionKeeps, RevokeLeaseKeeps
<1>4. ASSUME NEW p \in Procs, ProcStep(p) PROVE Inv'
  <2>1. CASE StartIssue(p) \/ StartRevoke(p) \/ StartRoot(p) \/ StartSpawn(p)
             \/ StartResolve(p)
    BY <2>1, IssueBegins, RevokeBegins, RootBegins, SpawnBegins, ResolveBegins
  <2>2. CASE CheckCycle(p) \/ CheckLease(p) \/ LoadBrief(p) \/ ReadParent(p)
             \/ CheckBrief(p)
    BY <2>2, CycleChecked, LeaseChecked, BriefLoaded, ParentRead, BriefChecked
  <2>3. CASE CommitIssue(p) \/ CommitRevoke(p) \/ InsertBinding(p)
    BY <2>3, IssueKeeps, RevokeKeeps, InsertKeeps
  <2>4. CASE CommitWithoutEffect(p) \/ EndCall(p)
    BY <2>4, ProcEnds DEF CommitWithoutEffect, EndCall
  <2> QED BY <1>4, <2>1, <2>2, <2>3, <2>4 DEF ProcStep
<1> QED BY <1>1, <1>2, <1>3, <1>4 DEF Next

LEMMA Invariance == Spec => []Inv
BY InitInv, NextInv, PTL DEF Spec

\* The tables and the processes keep their types.
THEOREM TypeCorrect == Spec => []TypeOK
BY Invariance, InvImplies, PTL

\* The audit log explains the tables: whoever issues, supersedes and revokes
\* concurrently, the active cycle is the one the last cycle event left.
THEOREM ActiveReplayed == Spec => []ActiveCycleIsReplay
BY Invariance, InvImplies, PTL

\* A successor is the very next campaign event after its predecessor's, which
\* was neither an abort nor an approved closure.
THEOREM SuccessorsLegal == Spec => []SupersessionLegal
BY Invariance, InvImplies, PTL

\* An active brief belongs to the active cycle, for a role it routes.
THEOREM NoOrphans == Spec => []NoOrphanBrief
BY Invariance, InvImplies, PTL

\* Although every check was made before the INSERT, in other reads, a binding
\* names its cycle's lease and version, and a worker's brief suits it.
THEOREM BindingsGenuine == Spec => []BindingIsGenuine
BY Invariance, InvImplies, PTL

\* No call that began after a revocation is admitted to the revoked cycle, and
\* no spawn that began after its lease was revoked starts a worker.
THEOREM RevokedDenied == Spec => []RevokedIsDenied
BY Invariance, InvImplies, PTL
=============================================================================
