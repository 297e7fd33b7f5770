-------------------------- MODULE Coordinator_proofs --------------------------
(***************************************************************************)
(* Proofs about the Coordinator, for every set of agents, stored snapshot, *)
(* set of keys and bound.  Two arguments carry them.  The first is an      *)
(* induction over the log: replay_event is a function of the events, so    *)
(* replaying one event more is one more replay_event, and what holds of    *)
(* every accepted prefix holds of the snapshot.  The second is an          *)
(* invariant of the callers: an event id names the version and the caller  *)
(* it was made for, so that a command can find only itself in the log.     *)
(***************************************************************************)
EXTENDS Coordinator, Induction, FiniteSetTheorems

-----------------------------------------------------------------------------
(* The tables.                                                             *)

\* An event leads from a campaign state to one state at most.
LEMMA CampaignDeterministic ==
    ASSUME NEW s \in CampaignStates, NEW e \in CampaignEvents,
           NEW t \in CampaignNext(s, e), NEW u \in CampaignNext(s, e)
    PROVE  t = u /\ t \in CampaignStates
<1>1. CASE e = "Abort"
  BY <1>1 DEF CampaignNext, CampaignTable
<1>2. CASE e = "PlanApproved"
  BY <1>2 DEF CampaignNext, CampaignTable
<1>3. CASE e = "ReplanRequired"
  BY <1>3 DEF CampaignNext, CampaignTable
<1>4. CASE e \notin {"Abort", "PlanApproved", "ReplanRequired"}
  BY <1>4 DEF CampaignNext, CampaignTable
<1> QED BY <1>1, <1>2, <1>3, <1>4

\* So does an event of an agent.
LEMMA AgentDeterministic ==
    ASSUME NEW s \in AgentStates, NEW e \in AgentEvents,
           NEW t \in AgentNext(s, e), NEW u \in AgentNext(s, e)
    PROVE  t = u /\ t \in AgentStates
BY DEF AgentNext, AgentTable, Working

\* What a body is.
LEMMA BodyCases ==
    ASSUME NEW b \in Bodies
    PROVE  \/ b.kind = "campaign" /\ b.event \in CampaignEvents
              /\ b = CampaignBody(b.event)
           \/ b.kind = "agent" /\ b.event \in AgentEvents /\ b.agent \in Ids
              /\ b.label = Append(Name[b.agent], b.event)
              /\ b = AgentBody(b.agent, b.event) /\ \A e : b # CampaignBody(e)
<1>1. CASE b \in {CampaignBody(e) : e \in CampaignEvents}
  BY <1>1 DEF CampaignBody
<1>2. CASE b \in {AgentBody(o[1], o[2]) : o \in Orders}
  <2>1. PICK o \in Orders : b = AgentBody(o[1], o[2])
    BY <1>2
  <2>2. o[1] \in Ids /\ o[2] \in AgentEvents
    BY PastsAssumption
  <2>3. b.kind = "agent" /\ b.agent = o[1] /\ b.event = o[2]
        /\ b.label = Append(Name[o[1]], o[2])
    BY <2>1 DEF AgentBody
  <2>4. \A e : b # CampaignBody(e)
    BY <2>3 DEF CampaignBody
  <2> QED BY <2>1, <2>2, <2>3, <2>4
<1> QED BY <1>1, <1>2 DEF Bodies

\* The role tables of replay_event are those of the handlers.
LEMMA SameTables ==
    ASSUME NEW actor, NEW members, NEW b \in Bodies
    PROVE  ReplayPermits(actor, members, b) <=> RolePermits(actor, members, b)
<1>1. CASE b.kind = "campaign"
  BY <1>1, BodyCases DEF ReplayPermits, RolePermits, CampaignPermitted
<1>2. CASE b.kind = "agent"
  BY <1>2, BodyCases DEF ReplayPermits, RolePermits, AgentPermitted, SelfAction
<1> QED BY <1>1, <1>2, BodyCases

\* What is read of a recorded text: the body it was made from, unless the id
\* of its agent has a colon.
LEMMA ReadBack ==
    ASSUME NEW b \in Bodies
    PROVE  Reparsed(b) = IF Readable(b) THEN {b} ELSE {}
<1>1. CASE b.kind = "campaign"
  <2> DEFINE e == b.event
  <2>1. e \in CampaignLabels /\ b = CampaignBody(e) /\ b.label = <<e>>
    <3>1. b = CampaignBody(e) /\ e \in CampaignEvents
      BY <1>1, BodyCases
    <3>2. b.label = <<e>>
      BY <3>1 DEF CampaignBody
    <3> QED BY <3>1, <3>2 DEF CampaignEvents, CampaignLabels
  <2> HIDE DEF e
  <2>2. {l \in CampaignLabels : b.label = <<l>>} = {e}
    BY <2>1
  <2>3. Reparsed(b) = {CampaignBody(k) : k \in {e}}
    BY <1>1, <2>2 DEF Reparsed
  <2> QED BY <1>1, <2>1, <2>3 DEF Readable
<1>2. CASE b.kind = "agent"
  <2> DEFINE a == b.agent  e == b.event  name == Name[a]
             As == {k \in Ids : Name[k] = <<Head(b.label)>>}
             Text == STRING \cup AgentLabels
             Es == {l \in AgentLabels : Tail(b.label) = <<l>>}
  <2>1. a \in Ids /\ e \in AgentLabels /\ b = AgentBody(a, e)
        /\ b.label = Append(name, e)
    BY <1>2, BodyCases DEF AgentEvents, AgentLabels
  <2>2. name \in Seq(Text) /\ name # <<>> /\ e \in Text
    <3>1. name \in Seq(STRING)
      BY <2>1, BootAssumption
    <3>2. name \in Seq(Text)
      BY <3>1
    <3>3. name # <<>>
      BY <2>1, BootAssumption
    <3> QED BY <2>1, <3>2, <3>3
  <2> HIDE DEF Text
  <2>3. \A k \in Ids : Name[k] = name => k = a
    BY <2>1, BootAssumption
  <2>4. Reparsed(b) = {AgentBody(k, l) : k \in As, l \in Es}
    BY <1>2 DEF Reparsed
  <2> HIDE DEF name, e, a
  <2> DEFINE label == Append(name, e)
  <2>5. Len(name) \in Nat /\ Len(name) >= 1 /\ Head(label) = name[1]
        /\ label \in Seq(Text) /\ Len(label) = Len(name) + 1
        /\ label[Len(name) + 1] = e
    <3>1. Len(name) \in Nat /\ Len(name) # 0
      BY <2>2
    <3>2. label \in Seq(Text) /\ Len(label) = Len(name) + 1
          /\ label[Len(name) + 1] = e
      BY <2>2
    <3>3. label[1] = name[1]
      BY <2>2, <3>1
    <3>4. Head(label) = label[1]
      OBVIOUS
    <3> QED BY <3>1, <3>2, <3>3, <3>4
  <2>6. Tail(label) \in Seq(Text) /\ Len(Tail(label)) = Len(name)
        /\ Tail(label)[1] = label[2]
    <3> HIDE DEF label
    <3> QED BY <2>5
  <2> HIDE DEF label
  <2>7. Head(b.label) = Head(label) /\ Tail(b.label) = Tail(label)
    BY <2>1 DEF label
  <2>8. CASE Len(name) = 1
    <3>1. name = <<name[1]>>
      BY <2>2, <2>8
    <3>2. Tail(b.label) = <<e>>
      <4> DEFINE q == Tail(label)
      <4>1. q \in Seq(Text) /\ Len(q) = 1 /\ q[1] = e
        BY <2>5, <2>6, <2>8
      <4> HIDE DEF q
      <4>2. q = <<e>>
        BY <4>1
      <4> QED BY <2>7, <4>2 DEF q
    <3>3. As = {a}
      BY <2>1, <2>3, <2>5, <2>7, <3>1 DEF name
    <3>4. Es = {e}
      BY <2>1, <3>2
    <3> HIDE DEF As, Es
    <3>5. Reparsed(b) = {b}
      BY <2>1, <2>4, <3>3, <3>4
    <3> QED BY <2>8, <3>5 DEF Readable, name, a
  <2>9. CASE Len(name) # 1
    <3>1. \A l : Tail(b.label) # <<l>>
      BY <2>5, <2>6, <2>7, <2>9
    <3>2. Es = {}
      BY <3>1
    <3> HIDE DEF As, Es
    <3>3. Reparsed(b) = {}
      BY <2>4, <3>2
    <3> QED BY <1>2, <2>9, <3>3 DEF Readable, name, a
  <2> QED BY <2>8, <2>9
<1> QED BY <1>1, <1>2, BodyCases

\* replay_event, on an event that a handler recorded.
LEMMA ReplayRead ==
    ASSUME NEW st, st.ok, NEW r, r.body \in Bodies
    PROVE  ReplayEvent(st, r) =
               IF Readable(r.body) THEN ReplayBody(st, r.actor, r.body) ELSE Rejected
<1>1. r.body.kind # "registered"
  BY BodyCases
<1>2. Reparsed(r.body) = IF Readable(r.body) THEN {r.body} ELSE {}
  BY ReadBack
<1>3. Readable(r.body) =>
         Reparsed(r.body) # {} /\ (CHOOSE b \in Reparsed(r.body) : TRUE) = r.body
  BY <1>2
<1> QED BY <1>1, <1>2, <1>3 DEF ReplayEvent

-----------------------------------------------------------------------------
(* Replaying.                                                              *)

Fresh == [ok |-> TRUE, state |-> "New", members |-> <<>>]

\* upTo is the recursive function of Replay.
ReplayedBy(upTo, l, n) ==
    upTo = [i \in 0..n |-> IF i = 0 THEN Fresh
                           ELSE ReplayEvent(upTo[i - 1], l[i])]

LEMMA ReplayExists ==
    ASSUME NEW l
    PROVE  \A n \in Nat : \E f : ReplayedBy(f, l, n)
<1> DEFINE S == {n \in Nat : \E f : ReplayedBy(f, l, n)}
<1>1. 0 \in S
  <2> DEFINE f == [i \in 0..0 |-> Fresh]
  <2>1. ReplayedBy(f, l, 0)
    BY DEF ReplayedBy
  <2> QED BY <2>1
<1>2. ASSUME NEW n \in Nat, n \in S PROVE n + 1 \in S
  <2>1. PICK f : ReplayedBy(f, l, n)
    BY <1>2
  <2> DEFINE g == [i \in 0..n + 1 |-> IF i <= n THEN f[i]
                                      ELSE ReplayEvent(f[n], l[n + 1])]
  <2>2. \A i \in 0..n : f[i] = IF i = 0 THEN Fresh
                               ELSE ReplayEvent(f[i - 1], l[i])
    BY <2>1 DEF ReplayedBy
  <2>3. \A i \in 0..n + 1 : g[i] = IF i = 0 THEN Fresh
                                   ELSE ReplayEvent(g[i - 1], l[i])
    BY <2>2
  <2>4. ReplayedBy(g, l, n + 1)
    BY <2>3 DEF ReplayedBy
  <2> QED BY <2>4
<1> HIDE DEF S
<1>3. Nat \subseteq S
  BY <1>1, <1>2, NumberInduction
<1> QED BY <1>3 DEF S

LEMMA ReplayIs ==
    ASSUME NEW l, Len(l) \in Nat
    PROVE  \E f : ReplayedBy(f, l, Len(l)) /\ Replay(l) = f[Len(l)]
BY ReplayExists DEF Replay, ReplayedBy, Fresh

\* Logs with the same first n events are replayed alike so far.
LEMMA ReplayAgree ==
    ASSUME NEW l, NEW new, NEW n \in Nat, NEW m \in Nat, n <= m,
           \A i \in 1..n : l[i] = new[i],
           NEW f, ReplayedBy(f, l, n), NEW g, ReplayedBy(g, new, m)
    PROVE  f[n] = g[n]
<1> DEFINE S == {i \in Nat : i <= n => f[i] = g[i]}
<1>1. 0 \in S
  BY DEF ReplayedBy
<1>2. ASSUME NEW i \in Nat, i \in S PROVE i + 1 \in S
  <2> SUFFICES ASSUME i + 1 <= n PROVE f[i + 1] = g[i + 1]
    OBVIOUS
  <2>1. f[i] = g[i]
    BY <1>2
  <2>2. f[i + 1] = ReplayEvent(f[i], l[i + 1])
        /\ g[i + 1] = ReplayEvent(g[i], new[i + 1])
    BY DEF ReplayedBy
  <2>3. l[i + 1] = new[i + 1]
    OBVIOUS
  <2> QED BY <2>1, <2>2, <2>3
<1> HIDE DEF S
<1>3. n \in S
  BY <1>1, <1>2, NumberInduction
<1> QED BY <1>3 DEF S

\* One more event is one more replay_event.
LEMMA ReplayAppend ==
    ASSUME NEW S, NEW l \in Seq(S), NEW r \in S
    PROVE  Replay(Append(l, r)) = ReplayEvent(Replay(l), r)
<1> DEFINE new == Append(l, r)  n == Len(l)
<1>1. n \in Nat /\ Len(new) = n + 1 /\ new[n + 1] = r
      /\ \A i \in 1..n : new[i] = l[i]
  OBVIOUS
<1>2. PICK f : ReplayedBy(f, l, n) /\ Replay(l) = f[n]
  BY <1>1, ReplayIs
<1> HIDE DEF new, n
<1>3. PICK g : ReplayedBy(g, new, Len(new)) /\ Replay(new) = g[Len(new)]
  <2>1. Len(new) \in Nat
    BY <1>1
  <2> QED BY <2>1, ReplayIs
<1>4. ReplayedBy(g, new, n + 1) /\ Replay(new) = g[n + 1]
  BY <1>1, <1>3
<1>5. f[n] = g[n]
  BY <1>1, <1>2, <1>4, ReplayAgree
<1>6. g[n + 1] = ReplayEvent(g[n], new[n + 1])
  BY <1>1, <1>4 DEF ReplayedBy
<1> QED BY <1>1, <1>2, <1>4, <1>5, <1>6 DEF new

-----------------------------------------------------------------------------
(* What an accepted log holds.                                             *)

\* The log of a campaign: the registrations, then commands; a record's id
\* names its version and its caller, its key its id.
LogOK(l) ==
    /\ l \in Seq(Record) /\ Len(Boot) <= Len(l)
    /\ \A i \in 1..Len(l) :
          /\ i <= Len(Boot) => l[i].body = Registration(Boot[i]) /\ l[i].by = None
          /\ i > Len(Boot) => l[i].body \in Bodies
          /\ l[i].id = <<i, l[i].by>> /\ l[i].key[1] = l[i].id
          /\ l[i].by # None =>
                /\ l[i].actor = RoleOf[l[i].by]
                /\ l[i].body.kind = "campaign"
                      => CampaignPermitted(l[i].actor, l[i].body.event)

\* The agents registered by the first n events.
Enrolled(n) == {Boot[j].id : j \in {k \in DOMAIN Boot : k <= n}}

IsPlan(l, i) == l[i].body = CampaignBody("PlanApproved")
Is(l, i, e, roles) == l[i].body = CampaignBody(e) /\ l[i].actor \in roles

HasVerdict == {"ScoreVerified", "ClosureReview", "Closed"}
HasScore == {"Observed"} \cup HasVerdict
HasDispatch == {"AwaitingScore"} \cup HasScore
HasTransport == {"Submitting"} \cup HasDispatch
HasPlan == {"Planned", "Executing", "EvidenceReady", "Preflight"} \cup HasTransport

\* The events that brought the campaign to state s in its last round: plan,
\* transport, dispatch, score, verdict and review, as far as it has come.
Round(l, n, s, p, t, d, o, v, r) ==
    /\ s \in HasPlan =>
          /\ 0 < p /\ IsPlan(l, p)
          /\ \A j \in 1..n : p < j => ~IsPlan(l, j)
    /\ s \in HasTransport => p < t /\ Is(l, t, "TransportAccepted", {"Solver"})
    /\ s \in HasDispatch => t < d /\ Is(l, d, "SubmissionDispatched", {"Chief"})
    /\ s \in HasScore =>
          d < o /\ Is(l, o, "ScoreObserved", {"Monitor", "JudgeAnalyst"})
    /\ s \in HasVerdict => o < v /\ Is(l, v, "ScoreVerified", {"JudgeAnalyst"})
    /\ s \in {"ClosureReview", "Closed"} =>
          v < r /\ Is(l, r, "ClosureReviewStarted", {"Chief"})

RoundOK(l, n, s) ==
    \E p, t, d, o, v, r \in 0..n : Round(l, n, s, p, t, d, o, v, r)

\* What the replay of n events of a log has found.
Sound(st, l, n) ==
    /\ st.state \in CampaignStates
    /\ DOMAIN st.members = Enrolled(n)
    /\ \A a \in Enrolled(n) : st.members[a] \in Agent
    /\ RoundOK(l, n, st.state)
    /\ \A i \in 1..n : Readable(l[i].body)

\* An event of an agent leaves the round as it is.
LEMMA RoundStays ==
    ASSUME NEW l, NEW n \in Nat, NEW s, RoundOK(l, n, s),
           \A e : l[n + 1].body # CampaignBody(e)
    PROVE  RoundOK(l, n + 1, s)
<1>1. PICK p, t, d, o, v, r \in 0..n : Round(l, n, s, p, t, d, o, v, r)
  BY DEF RoundOK
<1>2. ~IsPlan(l, n + 1)
  BY DEF IsPlan
<1>3. Round(l, n + 1, s, p, t, d, o, v, r)
  BY <1>1, <1>2 DEF Round
<1>4. p \in 0..n + 1 /\ t \in 0..n + 1 /\ d \in 0..n + 1
      /\ o \in 0..n + 1 /\ v \in 0..n + 1 /\ r \in 0..n + 1
  OBVIOUS
<1> QED BY <1>3, <1>4 DEF RoundOK

\* An event of the campaign takes it one entry further, if any.
LEMMA RoundMoves ==
    ASSUME NEW l, NEW n \in Nat, NEW s \in CampaignStates, RoundOK(l, n, s),
           NEW e \in CampaignEvents, l[n + 1].body = CampaignBody(e),
           CampaignPermitted(l[n + 1].actor, e), NEW u \in CampaignNext(s, e)
    PROVE  RoundOK(l, n + 1, u)
<1>1. PICK p, t, d, o, v, r \in 0..n : Round(l, n, s, p, t, d, o, v, r)
  BY DEF RoundOK
<1> DEFINE m == n + 1
<1>0. m \in 0..n + 1 /\ p \in 0..n + 1 /\ t \in 0..n + 1 /\ d \in 0..n + 1
      /\ o \in 0..n + 1 /\ v \in 0..n + 1 /\ r \in 0..n + 1
  OBVIOUS
<1>2. CASE e = "PlanApproved"
  <2>1. u = "Planned"
    BY <1>2 DEF CampaignNext, CampaignTable
  <2>2. Round(l, m, u, m, t, d, o, v, r)
    BY <1>2, <2>1 DEF Round, HasPlan, HasTransport, HasDispatch, HasScore,
         HasVerdict, IsPlan
  <2> QED BY <1>0, <2>2 DEF RoundOK
<1>3. ASSUME e # "PlanApproved" PROVE ~IsPlan(l, m)
  BY <1>3 DEF IsPlan, CampaignBody
<1>4. CASE e = "TransportAccepted"
  <2>1. s = "Preflight" /\ u = "Submitting"
    BY <1>4 DEF CampaignNext, CampaignTable
  <2>2. l[m].actor = "Solver"
    BY <1>4 DEF CampaignPermitted
  <2>3. Round(l, m, u, p, m, d, o, v, r)
    BY <1>1, <1>3, <1>4, <2>1, <2>2 DEF Round, HasPlan, HasTransport,
         HasDispatch, HasScore, HasVerdict, Is
  <2> QED BY <1>0, <2>3 DEF RoundOK
<1>5. CASE e = "SubmissionDispatched"
  <2>1. s = "Submitting" /\ u = "AwaitingScore"
    BY <1>5 DEF CampaignNext, CampaignTable
  <2>2. l[m].actor = "Chief"
    BY <1>5 DEF CampaignPermitted
  <2>3. Round(l, m, u, p, t, m, o, v, r)
    BY <1>1, <1>3, <1>5, <2>1, <2>2 DEF Round, HasPlan, HasTransport,
         HasDispatch, HasScore, HasVerdict, Is
  <2> QED BY <1>0, <2>3 DEF RoundOK
<1>6. CASE e = "ScoreObserved"
  <2>1. s = "AwaitingScore" /\ u = "Observed"
    BY <1>6 DEF CampaignNext, CampaignTable
  <2>2. l[m].actor \in {"Monitor", "JudgeAnalyst"}
    BY <1>6 DEF CampaignPermitted
  <2>3. Round(l, m, u, p, t, d, m, v, r)
    BY <1>1, <1>3, <1>6, <2>1, <2>2 DEF Round, HasPlan, HasTransport,
         HasDispatch, HasScore, HasVerdict, Is
  <2> QED BY <1>0, <2>3 DEF RoundOK
<1>7. CASE e = "ScoreVerified"
  <2>1. s = "Observed" /\ u = "ScoreVerified"
    BY <1>7 DEF CampaignNext, CampaignTable
  <2>2. l[m].actor = "JudgeAnalyst"
    BY <1>7 DEF CampaignPermitted
  <2>3. Round(l, m, u, p, t, d, o, m, r)
    BY <1>1, <1>3, <1>7, <2>1, <2>2 DEF Round, HasPlan, HasTransport,
         HasDispatch, HasScore, HasVerdict, Is
  <2> QED BY <1>0, <2>3 DEF RoundOK
<1>8. CASE e = "ClosureReviewStarted"
  <2>1. s = "ScoreVerified" /\ u = "ClosureReview"
    BY <1>8 DEF CampaignNext, CampaignTable
  <2>2. l[m].actor = "Chief"
    BY <1>8 DEF CampaignPermitted
  <2>3. Round(l, m, u, p, t, d, o, v, m)
    BY <1>1, <1>3, <1>8, <2>1, <2>2 DEF Round, HasPlan, HasTransport,
         HasDispatch, HasScore, HasVerdict, Is
  <2> QED BY <1>0, <2>3 DEF RoundOK
<1>9. CASE e \notin {"PlanApproved", "TransportAccepted", "SubmissionDispatched",
                     "ScoreObserved", "ScoreVerified", "ClosureReviewStarted"}
  <2>1. \/ u \notin HasPlan
        \/ s = "Planned" /\ u = "Executing"
        \/ s = "Executing" /\ u = "EvidenceReady"
        \/ s = "EvidenceReady" /\ u = "Preflight"
        \/ s = "ClosureReview" /\ u = "Closed"
    BY <1>9 DEF CampaignNext, CampaignTable, HasPlan, HasTransport, HasDispatch,
         HasScore, HasVerdict
  <2>2. Round(l, m, u, p, t, d, o, v, r)
    BY <1>1, <1>3, <1>9, <2>1 DEF Round, HasPlan, HasTransport,
         HasDispatch, HasScore, HasVerdict
  <2> QED BY <1>0, <2>2 DEF RoundOK
<1> QED BY <1>2, <1>4, <1>5, <1>6, <1>7, <1>8, <1>9

\* Logs with the same first n events have the same round so far.
LEMMA RoundCarries ==
    ASSUME NEW l, NEW m, NEW n \in Nat, \A i \in 1..n : m[i] = l[i], NEW s,
           RoundOK(l, n, s)
    PROVE  RoundOK(m, n, s)
<1>1. PICK p, t, d, o, v, r \in 0..n : Round(l, n, s, p, t, d, o, v, r)
  BY DEF RoundOK
<1>2. \A i \in 0..n : 0 < i => m[i] = l[i]
  OBVIOUS
<1>3. Round(m, n, s, p, t, d, o, v, r)
  BY <1>1, <1>2 DEF Round, IsPlan, Is, HasPlan, HasTransport, HasDispatch,
       HasScore, HasVerdict
<1> QED BY <1>3 DEF RoundOK

\* What an event that the role rules permit makes of a state and its members.
LEMMA EffectSound ==
    ASSUME NEW l, NEW n \in Nat, NEW s \in CampaignStates, RoundOK(l, n, s),
           NEW m, \A a \in DOMAIN m : m[a] \in Agent,
           NEW b \in Bodies, l[n + 1].body = b,
           RolePermits(l[n + 1].actor, m, b), NEW x \in Effect(s, m, b)
    PROVE  /\ x[1] \in CampaignStates /\ RoundOK(l, n + 1, x[1])
           /\ DOMAIN x[2] = DOMAIN m /\ \A a \in DOMAIN m : x[2][a] \in Agent
<1>1. CASE b.kind = "campaign"
  <2> DEFINE e == b.event
  <2>1. e \in CampaignEvents /\ b = CampaignBody(e)
    BY <1>1, BodyCases
  <2>2. PICK u \in CampaignNext(s, e) : x = <<u, m>>
    BY <1>1 DEF Effect
  <2>3. CampaignPermitted(l[n + 1].actor, e)
    BY <1>1 DEF RolePermits
  <2>4. u \in CampaignStates
    BY <2>2 DEF CampaignNext
  <2>5. l[n + 1].body = CampaignBody(e)
    BY <2>1
  <2> HIDE DEF e
  <2>6. RoundOK(l, n + 1, u)
    BY <2>1, <2>2, <2>3, <2>5, RoundMoves
  <2> QED BY <2>2, <2>4, <2>6
<1>2. CASE b.kind = "agent"
  <2> DEFINE a == b.agent  e == b.event
  <2>1. \A k : l[n + 1].body # CampaignBody(k)
    BY <1>2, BodyCases
  <2>2. a \in DOMAIN m
    BY <1>2 DEF RolePermits
  <2>3. PICK u \in AgentNext(m[a].state, e) : x = <<s, [m EXCEPT ![a].state = u]>>
    BY <1>2, <2>2 DEF Effect
  <2>4. u \in AgentStates
    BY <2>3 DEF AgentNext
  <2>5. RoundOK(l, n + 1, s)
    BY <2>1, RoundStays
  <2>6. x[1] = s /\ x[2] = [m EXCEPT ![a].state = u]
    BY <2>3
  <2> HIDE DEF a
  <2>7. DOMAIN x[2] = DOMAIN m /\ \A k \in DOMAIN m : x[2][k] \in Agent
    BY <2>2, <2>4, <2>6 DEF Agent
  <2> QED BY <2>5, <2>6, <2>7
<1> QED BY <1>1, <1>2, BodyCases

\* One replayed event.
LEMMA ReplayStep ==
    ASSUME NEW l, LogOK(l), NEW n \in Nat, n + 1 <= Len(l), NEW st,
           st.ok => Sound(st, l, n), ReplayEvent(st, l[n + 1]).ok
    PROVE  Sound(ReplayEvent(st, l[n + 1]), l, n + 1)
<1> DEFINE rec == l[n + 1]  res == ReplayEvent(st, rec)
<1>0. Len(Boot) \in Nat /\ DOMAIN Boot = 1..Len(Boot) /\ Len(l) \in Nat
      /\ n + 1 \in 1..Len(l)
  BY BootAssumption DEF LogOK
<1>1. st.ok
  BY DEF ReplayEvent, Rejected
<1>2. Sound(st, l, n)
  BY <1>1
<1>3. CASE n + 1 <= Len(Boot)
  <2> DEFINE p == Boot[n + 1]
  <2>1. rec.body = Registration(p) /\ n + 1 \in DOMAIN Boot /\ p \in Profile
    BY <1>0, <1>3 DEF LogOK, Profile
  <2>2. rec.body.kind = "registered" /\ rec.body.agent = p
        /\ \A e : rec.body # CampaignBody(e)
    BY <2>1 DEF Registration, CampaignBody
  <2>3. res = [ok |-> TRUE, state |-> st.state, members |-> Registered(st.members, p)]
    BY <1>1, <2>2 DEF ReplayEvent, Rejected
  <2>4. Enrolled(n + 1) = Enrolled(n) \cup {p.id}
    BY <1>0, <2>1 DEF Enrolled
  <2>5. p.role \in Role
    BY <2>1, BootAssumption
  <2> HIDE DEF p, res, rec
  <2>6. /\ DOMAIN res.members = Enrolled(n + 1)
        /\ \A a \in Enrolled(n) : a # p.id => res.members[a] = st.members[a]
        /\ res.members[p.id] = [role |-> p.role, parent |-> p.parent,
                                lease |-> p.lease, state |-> "Registered"]
    BY <1>2, <2>3, <2>4 DEF Registered, Sound
  <2>7. res.members[p.id] \in Agent
    BY <2>1, <2>5, <2>6 DEF Agent, AgentStates
  <2>8. RoundOK(l, n + 1, st.state)
    BY <1>2, <2>2, RoundStays DEF Sound, rec
  <2>9. \A i \in 1..n + 1 : Readable(l[i].body)
    <3>1. Readable(rec.body)
      BY <2>2 DEF Readable
    <3> QED BY <1>2, <3>1 DEF Sound, rec
  <2>10. Sound(res, l, n + 1)
    BY <1>2, <2>3, <2>4, <2>6, <2>7, <2>8, <2>9 DEF Sound
  <2> QED BY <2>10 DEF res, rec
<1>4. CASE n + 1 > Len(Boot)
  <2> DEFINE b == rec.body  eff == Effect(st.state, st.members, b)
  <2>1. b \in Bodies
    BY <1>0, <1>4 DEF LogOK
  <2>2. Enrolled(n + 1) = Enrolled(n)
    BY <1>0, <1>4 DEF Enrolled
  <2>3. Readable(b) /\ res = ReplayBody(st, rec.actor, b)
    BY <1>1, <2>1, ReplayRead DEF Rejected
  <2>4. ReplayPermits(rec.actor, st.members, b) /\ eff # {}
    BY <2>3 DEF ReplayBody, Rejected
  <2>5. PICK x \in eff : res = [ok |-> TRUE, state |-> x[1], members |-> x[2]]
    BY <2>3, <2>4 DEF ReplayBody
  <2>6. RolePermits(rec.actor, st.members, b)
    BY <2>1, <2>4, SameTables
  <2>7. l[n + 1].body = b /\ RolePermits(l[n + 1].actor, st.members, b)
    BY <2>6
  <2> DEFINE s == st.state  m == st.members
  <2>8. s \in CampaignStates /\ RoundOK(l, n, s) /\ DOMAIN m = Enrolled(n)
        /\ (\A a \in DOMAIN m : m[a] \in Agent)
        /\ \A i \in 1..n : Readable(l[i].body)
    BY <1>2 DEF Sound
  <2>9. x \in Effect(s, m, b) /\ RolePermits(l[n + 1].actor, m, b)
    BY <2>5, <2>7
  <2>10. res.state = x[1] /\ res.members = x[2]
    BY <2>5
  <2>11. \A i \in 1..n + 1 : Readable(l[i].body)
    BY <2>3, <2>8
  <2> HIDE DEF s, m, b, res
  <2>12. /\ x[1] \in CampaignStates /\ RoundOK(l, n + 1, x[1])
         /\ DOMAIN x[2] = DOMAIN m /\ \A a \in DOMAIN m : x[2][a] \in Agent
    BY <2>1, <2>7, <2>8, <2>9, EffectSound
  <2>13. Sound(res, l, n + 1)
    BY <2>2, <2>8, <2>10, <2>11, <2>12 DEF Sound
  <2> QED BY <2>13 DEF res
<1> QED BY <1>0, <1>3, <1>4

\* An accepted log's replay is sound, by induction over the log.
LEMMA ReplaySound ==
    ASSUME NEW l, LogOK(l), Replay(l).ok
    PROVE  Sound(Replay(l), l, Len(l))
<1>0. Len(l) \in Nat
  BY DEF LogOK
<1>1. PICK f : ReplayedBy(f, l, Len(l)) /\ Replay(l) = f[Len(l)]
  BY <1>0, ReplayIs
<1> DEFINE S == {n \in Nat : n <= Len(l) /\ f[n].ok => Sound(f[n], l, n)}
<1>2. 0 \in S
  <2>1. f[0] = Fresh
    BY <1>0, <1>1 DEF ReplayedBy
  <2>2. Enrolled(0) = {}
    BY BootAssumption DEF Enrolled
  <2>3. RoundOK(l, 0, "New")
    BY DEF RoundOK, Round, HasPlan, HasTransport, HasDispatch, HasScore, HasVerdict
  <2>4. Sound(Fresh, l, 0)
    BY <2>2, <2>3 DEF Sound, Fresh, CampaignStates
  <2> QED BY <2>1, <2>4
<1>3. ASSUME NEW n \in Nat, n \in S PROVE n + 1 \in S
  <2> SUFFICES ASSUME n + 1 <= Len(l), f[n + 1].ok PROVE Sound(f[n + 1], l, n + 1)
    OBVIOUS
  <2>1. f[n + 1] = ReplayEvent(f[n], l[n + 1])
    BY <1>0, <1>1 DEF ReplayedBy
  <2>2. f[n].ok => Sound(f[n], l, n)
    BY <1>0, <1>3
  <2> QED BY <2>1, <2>2, ReplayStep
<1> HIDE DEF S
<1>4. Len(l) \in S
  BY <1>0, <1>2, <1>3, NumberInduction
<1> QED BY <1>0, <1>1, <1>4 DEF S

-----------------------------------------------------------------------------
(* The inductive invariant.                                                *)

\* A call of c: a command decided at the version it names, which c has not
\* committed since, or a repetition of one that it has committed.
CallOK(c, r, l) ==
    r # None =>
        /\ r.body \in Bodies /\ r.seen \in 0..Len(l)
        /\ r.id \in Nat \X Ids /\ r.id[2] = c
        /\ r.key \in EventId \X (KeyVariants \cup {1}) /\ r.key[1] = r.id
        /\ r.body.kind = "campaign" => CampaignPermitted(RoleOf[c], r.body.event)
        /\ \/ /\ r.id[1] = r.seen + 1
              /\ r.seen + 1 \in 1..Len(l) => l[r.seen + 1].by # c
           \/ \E i \in 1..Len(l) : l[i].by = c /\ l[i].id = r.id /\ l[i].body = r.body

Keys(l) == {l[i].key : i \in DOMAIN l}
EventIds(l) == {l[i].id : i \in DOMAIN l}

CallsOK == \A c \in Ids : CallOK(c, calls[c], log)

\* Every text in the log can be read back.
Legible(l) == \A i \in DOMAIN l : Readable(l[i].body)

Inv ==
    /\ TypeOK /\ LogOK(log) /\ LogOK(saved.log)
    /\ RoundOK(log, Len(log), campaign)
    /\ Legible(log) => Accepts(Snapshot)
    /\ applied = Keys(log) /\ CallsOK

\* What an accepted snapshot holds.
LEMMA AcceptedSound ==
    ASSUME NEW s, LogOK(s.log), Accepts(s)
    PROVE  /\ s.campaign \in CampaignStates
           /\ DOMAIN s.agents = Ids /\ \A a \in Ids : s.agents[a] \in Agent
           /\ RoundOK(s.log, Len(s.log), s.campaign) /\ Legible(s.log)
<1>1. Replay(s.log).ok /\ Replay(s.log).state = s.campaign
      /\ Replay(s.log).members = s.agents
  BY DEF Accepts
<1>2. Sound(Replay(s.log), s.log, Len(s.log))
  BY <1>1, ReplaySound
<1>3. Enrolled(Len(s.log)) = Ids
  <2>1. Len(Boot) <= Len(s.log) /\ Len(s.log) \in Nat
    BY DEF LogOK
  <2>2. DOMAIN Boot = 1..Len(Boot) /\ Len(Boot) \in Nat
    BY BootAssumption
  <2> QED BY <2>1, <2>2 DEF Enrolled, Ids, Profile
<1>4. DOMAIN s.log = 1..Len(s.log)
  BY DEF LogOK
<1> QED BY <1>1, <1>2, <1>3, <1>4 DEF Sound, Legible

\* An event has one effect at most.
LEMMA EffectUnique ==
    ASSUME NEW s \in CampaignStates, NEW m, DOMAIN m = Ids,
           \A a \in Ids : m[a] \in Agent, NEW b \in Bodies,
           NEW x \in Effect(s, m, b), NEW y \in Effect(s, m, b)
    PROVE  x = y
<1>1. CASE b.kind = "campaign"
  <2>1. b.event \in CampaignEvents
    BY <1>1, BodyCases
  <2>2. PICK t \in CampaignNext(s, b.event) : x = <<t, m>>
    BY <1>1 DEF Effect
  <2>3. PICK u \in CampaignNext(s, b.event) : y = <<u, m>>
    BY <1>1 DEF Effect
  <2> QED BY <2>1, <2>2, <2>3, CampaignDeterministic
<1>2. CASE b.kind = "agent"
  <2>1. b.event \in AgentEvents /\ b.agent \in Ids
    BY <1>2, BodyCases, BootAssumption
  <2> DEFINE now == m[b.agent].state
  <2>2. now \in AgentStates
    BY <2>1 DEF Agent
  <2>3. PICK t \in AgentNext(now, b.event) : x = <<s, [m EXCEPT ![b.agent].state = t]>>
    BY <1>2, <2>1 DEF Effect
  <2>4. PICK u \in AgentNext(now, b.event) : y = <<s, [m EXCEPT ![b.agent].state = u]>>
    BY <1>2, <2>1 DEF Effect
  <2> HIDE DEF now
  <2>5. t = u
    BY <2>1, <2>2, <2>3, <2>4, AgentDeterministic
  <2> QED BY <2>3, <2>4, <2>5
<1> QED BY <1>1, <1>2, BodyCases

\* The entries of a longer log.
LEMMA LogEntries ==
    ASSUME NEW l \in Seq(Record), NEW r \in Record
    PROVE  /\ Append(l, r) \in Seq(Record)
           /\ Len(Append(l, r)) = Len(l) + 1 /\ Len(l) \in Nat
           /\ DOMAIN l = 1..Len(l) /\ DOMAIN Append(l, r) = 1..Len(l) + 1
           /\ \A i \in 1..Len(l) : Append(l, r)[i] = l[i]
           /\ Append(l, r)[Len(l) + 1] = r
OBVIOUS

\* One more key, or one more id, than before.
LEMMA OneMore ==
    ASSUME NEW S, NEW x, x \notin S, IsFiniteSet(S), NEW T, T = S \cup {x},
           NEW n \in Nat, Cardinality(S) = n
    PROVE  Cardinality(T) = n + 1
BY FS_AddElement

LEMMA FiniteKeys ==
    ASSUME NEW l \in Seq(Record)
    PROVE  IsFiniteSet(Keys(l)) /\ IsFiniteSet(EventIds(l))
<1>1. DOMAIN l = 1..Len(l) /\ Len(l) \in Nat
  OBVIOUS
<1>2. IsFiniteSet(1..Len(l))
  BY <1>1, FS_Interval
<1> DEFINE f == [i \in 1..Len(l) |-> l[i].key]  g == [i \in 1..Len(l) |-> l[i].id]
<1>3. f \in Surjection(1..Len(l), Keys(l)) /\ g \in Surjection(1..Len(l), EventIds(l))
  BY <1>1 DEF Surjection, Keys, EventIds
<1> HIDE DEF f, g
<1> QED BY <1>2, <1>3, FS_Surjection

\* RoleOf is a registered role.
LEMMA RolesKnown == \A c \in Ids : RoleOf[c] \in Role
<1> SUFFICES ASSUME NEW c \in Ids PROVE RoleOf[c] \in Role
  OBVIOUS
<1>1. \E p \in Profile : p.id = c
  BY DEF Ids
<1>2. (CHOOSE p \in Profile : p.id = c) \in Profile
  BY <1>1
<1> QED BY <1>2, BootAssumption DEF RoleOf

\* The log stays well-formed when a caller's fresh command joins it.
LEMMA LogGrows ==
    ASSUME NEW l, LogOK(l), NEW r \in Record, NEW c \in Ids,
           r.by = c, r.id = <<Len(l) + 1, c>>, r.key[1] = r.id, r.body \in Bodies,
           r.actor = RoleOf[c],
           r.body.kind = "campaign" => CampaignPermitted(r.actor, r.body.event)
    PROVE  LogOK(Append(l, r))
<1> DEFINE new == Append(l, r)  n == Len(l)
<1>1. l \in Seq(Record) /\ Len(Boot) <= n
  BY DEF LogOK
<1>2. /\ new \in Seq(Record) /\ Len(new) = n + 1 /\ n \in Nat
      /\ \A i \in 1..n : new[i] = l[i]
      /\ new[n + 1] = r
  BY <1>1, LogEntries
<1>3. Len(Boot) \in Nat
  BY BootAssumption
<1> HIDE DEF new
<1> DEFINE EntryOK(k, i) ==
          /\ i <= Len(Boot) => k[i].body = Registration(Boot[i]) /\ k[i].by = None
          /\ i > Len(Boot) => k[i].body \in Bodies
          /\ k[i].id = <<i, k[i].by>> /\ k[i].key[1] = k[i].id
          /\ k[i].by # None =>
                /\ k[i].actor = RoleOf[k[i].by]
                /\ k[i].body.kind = "campaign"
                      => CampaignPermitted(k[i].actor, k[i].body.event)
<1>4. \A i \in 1..n : EntryOK(l, i)
  BY DEF LogOK
<1>5. \A i \in 1..n : EntryOK(new, i)
  BY <1>2, <1>4
<1> HIDE DEF n
<1>6. EntryOK(new, n + 1)
  BY <1>1, <1>2, <1>3 DEF n
<1>7. \A i \in 1..n + 1 : EntryOK(new, i)
  <2> HIDE DEF EntryOK
  <2>1. \A i \in 1..n + 1 : i \in 1..n \/ i = n + 1
    BY <1>2
  <2> QED BY <1>5, <1>6, <2>1
<1>8. LogOK(new)
  BY <1>1, <1>2, <1>3, <1>7 DEF LogOK
<1> QED BY <1>8 DEF new

\* One more entry of the log adds its key and its event id, and nothing else.
LEMMA KeysGrow ==
    ASSUME NEW l \in Seq(Record), NEW r \in Record
    PROVE  /\ Keys(Append(l, r)) = Keys(l) \cup {r.key}
           /\ EventIds(Append(l, r)) = EventIds(l) \cup {r.id}
<1> DEFINE m == Append(l, r)  n == Len(l)
<1>0. /\ n \in Nat /\ DOMAIN l = 1..n /\ DOMAIN m = 1..n + 1
      /\ (\A i \in 1..n : m[i] = l[i]) /\ m[n + 1] = r
  BY LogEntries
<1> HIDE DEF m, n
<1>1. /\ 1..n \subseteq 1..n + 1 /\ n + 1 \in 1..n + 1
      /\ \A i \in 1..n + 1 : i \in 1..n \/ i = n + 1
  BY <1>0
<1>2. Keys(m) \subseteq Keys(l) \cup {r.key}
  <2> SUFFICES ASSUME NEW i \in 1..n + 1 PROVE m[i].key \in Keys(l) \cup {r.key}
    BY <1>0, Zenon DEF Keys
  <2>1. CASE i \in 1..n
    <3>1. i \in DOMAIN l /\ m[i].key = l[i].key
      BY <1>0, <2>1, Zenon
    <3> QED BY <3>1, Zenon DEF Keys
  <2>2. CASE i = n + 1
    BY <1>0, <2>2, Zenon
  <2> QED BY <1>1, <2>1, <2>2, Zenon
<1>3. Keys(l) \cup {r.key} \subseteq Keys(m)
  <2>1. ASSUME NEW i \in 1..n PROVE l[i].key \in Keys(m)
    <3>1. i \in DOMAIN m /\ m[i].key = l[i].key
      BY <1>0, <1>1, Zenon
    <3> QED BY <3>1, Zenon DEF Keys
  <2>2. r.key \in Keys(m)
    <3>1. n + 1 \in DOMAIN m /\ m[n + 1].key = r.key
      BY <1>0, <1>1, Zenon
    <3> QED BY <3>1, Zenon DEF Keys
  <2>3. Keys(l) \subseteq Keys(m)
    <3> SUFFICES ASSUME NEW k \in Keys(l) PROVE k \in Keys(m)
      BY Zenon
    <3>1. PICK i \in 1..n : k = l[i].key
      BY <1>0, Zenon DEF Keys
    <3> QED BY <2>1, <3>1, Zenon
  <2> QED BY <2>2, <2>3, Zenon
<1>4. EventIds(m) \subseteq EventIds(l) \cup {r.id}
  <2> SUFFICES ASSUME NEW i \in 1..n + 1 PROVE m[i].id \in EventIds(l) \cup {r.id}
    BY <1>0, Zenon DEF EventIds
  <2>1. CASE i \in 1..n
    <3>1. i \in DOMAIN l /\ m[i].id = l[i].id
      BY <1>0, <2>1, Zenon
    <3> QED BY <3>1, Zenon DEF EventIds
  <2>2. CASE i = n + 1
    BY <1>0, <2>2, Zenon
  <2> QED BY <1>1, <2>1, <2>2, Zenon
<1>5. EventIds(l) \cup {r.id} \subseteq EventIds(m)
  <2>1. ASSUME NEW i \in 1..n PROVE l[i].id \in EventIds(m)
    <3>1. i \in DOMAIN m /\ m[i].id = l[i].id
      BY <1>0, <1>1, Zenon
    <3> QED BY <3>1, Zenon DEF EventIds
  <2>2. r.id \in EventIds(m)
    <3>1. n + 1 \in DOMAIN m /\ m[n + 1].id = r.id
      BY <1>0, <1>1, Zenon
    <3> QED BY <3>1, Zenon DEF EventIds
  <2>3. EventIds(l) \subseteq EventIds(m)
    <3> SUFFICES ASSUME NEW k \in EventIds(l) PROVE k \in EventIds(m)
      BY Zenon
    <3>1. PICK i \in 1..n : k = l[i].id
      BY <1>0, Zenon DEF EventIds
    <3> QED BY <2>1, <3>1, Zenon
  <2> QED BY <2>2, <2>3, Zenon
<1> QED BY <1>2, <1>3, <1>4, <1>5, Zenon DEF m

\* A snapshot stays acceptable when an event joins it that its rules admit
\* and whose text can be read back.
LEMMA AcceptsGrows ==
    ASSUME NEW s, LogOK(s.log), Accepts(s), NEW r \in Record, r.body \in Bodies,
           Readable(r.body), r.key \notin Keys(s.log), r.id \notin EventIds(s.log),
           RolePermits(r.actor, s.agents, r.body),
           NEW x \in Effect(s.campaign, s.agents, r.body),
           NEW t, t.log = Append(s.log, r), t.campaign = x[1], t.agents = x[2]
    PROVE  Accepts(t)
<1> DEFINE l == s.log  new == Append(l, r)
<1>1. l \in Seq(Record)
  BY DEF LogOK
<1>2. /\ Len(new) = Len(l) + 1 /\ Len(l) \in Nat
      /\ DOMAIN l = 1..Len(l) /\ DOMAIN new = 1..Len(l) + 1
      /\ \A i \in 1..Len(l) : new[i] = l[i]
      /\ new[Len(l) + 1] = r
  BY <1>1, LogEntries
<1>3. Cardinality(Keys(l)) = Len(l) /\ Cardinality(EventIds(l)) = Len(l)
      /\ Replay(l).ok /\ Replay(l).state = s.campaign /\ Replay(l).members = s.agents
  BY DEF Accepts, Keys, EventIds
<1>4. Replay(new) = ReplayEvent(Replay(l), r)
  BY <1>1, ReplayAppend
<1>5. Keys(new) = Keys(l) \cup {r.key} /\ EventIds(new) = EventIds(l) \cup {r.id}
  BY <1>1, KeysGrow
<1> HIDE DEF new, l
<1>6. Cardinality(Keys(new)) = Len(new) /\ Cardinality(EventIds(new)) = Len(new)
  <2>1. IsFiniteSet(Keys(l)) /\ IsFiniteSet(EventIds(l))
    BY <1>1, FiniteKeys
  <2>2. r.key \notin Keys(l) /\ r.id \notin EventIds(l)
    BY DEF l
  <2> QED BY <1>2, <1>3, <1>5, <2>1, <2>2, OneMore
<1>7. Replay(new) = [ok |-> TRUE, state |-> x[1], members |-> x[2]]
  <2> DEFINE st == Replay(l)  eff == Effect(st.state, st.members, r.body)
  <2>1. st.ok /\ st.state = s.campaign /\ st.members = s.agents /\ x \in eff
    BY <1>3
  <2>2. ReplayEvent(st, r) = ReplayBody(st, r.actor, r.body)
    BY <2>1, ReplayRead
  <2>3. ReplayPermits(r.actor, st.members, r.body)
    BY <2>1, SameTables
  <2>4. \A y \in eff : y = x
    <3>1. s.campaign \in CampaignStates /\ DOMAIN s.agents = Ids
          /\ \A a \in Ids : s.agents[a] \in Agent
      BY AcceptedSound
    <3> QED BY <2>1, <3>1, EffectUnique
  <2> HIDE DEF st
  <2>5. (CHOOSE y \in eff : TRUE) = x /\ eff # {}
    <3> HIDE DEF eff
    <3> QED BY <2>1, <2>4
  <2>6. ReplayEvent(st, r) = [ok |-> TRUE, state |-> x[1], members |-> x[2]]
    BY <2>2, <2>3, <2>5 DEF ReplayBody
  <2> QED BY <1>4, <2>6 DEF st
<1>8. t.log = new
  BY DEF new, l
<1> QED BY <1>6, <1>7, <1>8 DEF Accepts, Keys, EventIds

\* Another caller's event leaves a call in order.
LEMMA CallGrows ==
    ASSUME NEW c \in Ids, NEW q, NEW l \in Seq(Record), CallOK(c, q, l),
           NEW r \in Record, r.by # c
    PROVE  CallOK(c, q, Append(l, r))
<1> DEFINE new == Append(l, r)  n == Len(l)
<1>1. /\ Len(new) = n + 1 /\ n \in Nat
      /\ \A i \in 1..n : new[i] = l[i]
      /\ new[n + 1] = r
  BY LogEntries
<1>2. CASE q = None
  BY <1>2 DEF CallOK
<1>3. CASE q # None
  <2> HIDE DEF new
  <2>1. q.seen \in 0..n /\ q.seen \in 0..n + 1
    BY <1>1, <1>3 DEF CallOK
  <2>2. CASE /\ q.id[1] = q.seen + 1
             /\ q.seen + 1 \in 1..n => l[q.seen + 1].by # c
    <3>1. q.seen + 1 \in 1..n + 1 => new[q.seen + 1].by # c
      <4> HIDE DEF n
      <4> QED BY <1>1, <2>1, <2>2
    <3>2. CallOK(c, q, new)
      BY <1>1, <1>3, <2>1, <2>2, <3>1 DEF CallOK
    <3> QED BY <3>2 DEF new
  <2>3. CASE \E i \in 1..n : l[i].by = c /\ l[i].id = q.id /\ l[i].body = q.body
    <3>1. \E i \in 1..n + 1 : new[i].by = c /\ new[i].id = q.id /\ new[i].body = q.body
      <4> HIDE DEF n
      <4> QED BY <1>1, <2>3
    <3>2. CallOK(c, q, new)
      BY <1>1, <1>3, <2>1, <3>1 DEF CallOK
    <3> QED BY <3>2 DEF new
  <2> QED BY <1>3, <2>2, <2>3 DEF CallOK
<1> QED BY <1>2, <1>3

-----------------------------------------------------------------------------
(* The invariant holds.                                                    *)

\* A stored log is well-formed.
LEMMA StoredOK ==
    ASSUME NEW past \in Pasts
    PROVE  LogOK(StoredLog(past)) /\ \A i \in DOMAIN StoredLog(past) : StoredLog(past)[i].by = None
<1> DEFINE l == StoredLog(past)  k == Len(Boot)  n == Len(past)
<1>1. k \in Nat /\ DOMAIN Boot = 1..k /\ \A i \in 1..k : Boot[i] \in Profile
  BY BootAssumption
<1>2. n \in Nat /\ \A i \in 1..n : past[i].actor \in Role /\ past[i].body \in Bodies
  <2> DEFINE Past == [actor : Role, body : Bodies]
  <2>1. past \in Seq(Past)
    BY PastsAssumption
  <2> HIDE DEF Past
  <2>2. n \in Nat /\ \A i \in 1..n : past[i] \in Past
    BY <2>1
  <2> QED BY <2>2 DEF Past
<1> HIDE DEF k, n
<1>3. DOMAIN l = 1..k + n
      /\ (\A i \in 1..k : l[i] = Stored(i, "Chief", Registration(Boot[i])))
      /\ \A i \in 1..k + n : i > k => l[i] = Stored(i, past[i - k].actor, past[i - k].body)
  BY <1>1, <1>2 DEF StoredLog, k, n
<1> HIDE DEF l
<1>4. ASSUME NEW i \in 1..k + n, NEW a \in Role,
             NEW b \in Bodies \cup {Registration(p) : p \in Profile}
      PROVE  Stored(i, a, b) \in Record
  <2>1. <<i, None>> \in EventId
    BY <1>1, <1>2 DEF EventId
  <2> QED BY <2>1 DEF Stored, Record
<1>5. ASSUME NEW i \in 1..k
      PROVE  /\ l[i] \in Record /\ l[i].body = Registration(Boot[i])
             /\ l[i].by = None /\ l[i].id = <<i, None>> /\ l[i].key[1] = l[i].id
  <2>1. Registration(Boot[i]) \in Bodies \cup {Registration(p) : p \in Profile}
    BY <1>1
  <2>2. "Chief" \in Role
    BY DEF Role
  <2>3. i \in 1..k + n
    BY <1>1, <1>2
  <2>4. l[i] \in Record
    BY <1>3, <1>4, <2>1, <2>2, <2>3
  <2> DEFINE b == Registration(Boot[i])
  <2>5. l[i] = Stored(i, "Chief", b)
    BY <1>3
  <2> HIDE DEF b
  <2>6. l[i].body = b /\ l[i].by = None /\ l[i].id = <<i, None>>
        /\ l[i].key[1] = l[i].id
    BY <2>5 DEF Stored
  <2> QED BY <2>4, <2>6 DEF b
<1>6. ASSUME NEW i \in 1..k + n, i > k
      PROVE  /\ l[i] \in Record /\ l[i].body \in Bodies
             /\ l[i].by = None /\ l[i].id = <<i, None>> /\ l[i].key[1] = l[i].id
  <2> DEFINE j == i - k
  <2>1. j \in 1..n
    BY <1>1, <1>2, <1>6
  <2> HIDE DEF j
  <2>2. past[j].actor \in Role /\ past[j].body \in Bodies
    BY <1>2, <2>1
  <2>3. l[i] = Stored(i, past[j].actor, past[j].body)
    BY <1>3, <1>6 DEF j
  <2>4. l[i] \in Record
    BY <1>4, <2>2, <2>3
  <2> QED BY <2>2, <2>3, <2>4 DEF Stored
<1>7. \A i \in 1..k + n : i \in 1..k \/ i > k
  BY <1>1, <1>2
<1>8. l \in Seq(Record) /\ Len(l) = k + n
  <2>1. \A i \in 1..k + n : l[i] \in Record
    BY <1>5, <1>6, <1>7
  <2>2. l = [i \in 1..k + n |-> l[i]]
    BY DEF StoredLog, k, n, l
  <2>3. k + n \in Nat
    BY <1>1, <1>2
  <2> QED BY <2>1, <2>2, <2>3
<1>9. \A i \in 1..k + n :
         /\ i <= k => l[i].body = Registration(Boot[i])
         /\ i > k => l[i].body \in Bodies
         /\ l[i].by = None /\ l[i].id = <<i, None>> /\ l[i].key[1] = l[i].id
  BY <1>1, <1>2, <1>5, <1>6, <1>7
<1>10. LogOK(l)
  BY <1>1, <1>2, <1>8, <1>9 DEF LogOK, k
<1>11. \A i \in DOMAIN l : l[i].by = None
  BY <1>3, <1>9
<1> QED BY <1>10, <1>11 DEF l

LEMMA InitInv == Init => Inv
<1> SUFFICES ASSUME Init PROVE Inv
  OBVIOUS
<1>1. LogOK(log)
  BY StoredOK DEF Init
<1>2. saved = Snapshot /\ Accepts(saved)
  BY DEF Init
<1>3. LogOK(saved.log) /\ Accepts(Snapshot) /\ Snapshot.log = log
  BY <1>1, <1>2 DEF Snapshot
<1>4. /\ campaign \in CampaignStates /\ RoundOK(log, Len(log), campaign)
      /\ DOMAIN agents = Ids /\ \A a \in Ids : agents[a] \in Agent
  BY <1>1, <1>3, AcceptedSound DEF Snapshot
<1>5. calls = [a \in Ids |-> None] /\ applied = Keys(log)
  BY DEF Init, Keys
<1>6. CallsOK
  BY <1>5 DEF CallsOK, CallOK
<1>7. TypeOK
  BY <1>1, <1>4, <1>5 DEF TypeOK, LogOK, Init
<1> QED BY <1>1, <1>3, <1>4, <1>5, <1>6, <1>7 DEF Inv

\* The invariant depends on the calls through CallOK only.
LEMMA CallStep ==
    ASSUME Inv, NEW c \in Ids, NEW q, CallOK(c, q, log),
           calls' = [calls EXCEPT ![c] = q],
           UNCHANGED <<snapshot, saved>>,
           retries' \in Nat /\ saves' \in Nat /\ crashes' \in Nat
    PROVE  Inv'
<1>1. UNCHANGED <<campaign, agents, log, applied, saved>>
  BY DEF snapshot
<1>2. DOMAIN calls = Ids
  BY DEF Inv, TypeOK
<1>3. CallsOK'
  BY <1>1, <1>2 DEF Inv, CallsOK
<1>4. TypeOK'
  BY <1>1, <1>2, <1>3 DEF Inv, TypeOK, CallsOK, CallOK
<1>5. Snapshot' = Snapshot
  BY <1>1 DEF Snapshot
<1>6. LogOK(log)' /\ LogOK(saved.log)' /\ (Legible(log) => Accepts(Snapshot))'
      /\ RoundOK(log, Len(log), campaign)'
  BY <1>1, <1>5 DEF Inv
<1>7. applied' = Keys(log')
  BY <1>1 DEF Inv
<1> QED BY <1>3, <1>4, <1>6, <1>7 DEF Inv

LEMMA DecideInv ==
    ASSUME Inv, NEW c \in Ids, Decide(c)
    PROVE  Inv'
<1> DEFINE n == Len(log)
<1>1. PICK b \in Bodies :
         /\ Wanted(c, b)
         /\ calls' = [calls EXCEPT ![c] =
               [id |-> <<n + 1, c>>, key |-> <<<<n + 1, c>>, 1>>, body |-> b,
                seen |-> n]]
  BY DEF Decide
<1> DEFINE q == [id |-> <<n + 1, c>>, key |-> <<<<n + 1, c>>, 1>>, body |-> b,
                 seen |-> n]
<1>2. n \in Nat
  BY DEF Inv, LogOK
<1>3. b.kind = "campaign" => CampaignPermitted(RoleOf[c], b.event)
  BY <1>1 DEF Wanted, RolePermits
<1>4. CallOK(c, q, log)
  <2>1. <<n + 1, c>> \in Nat \X Ids /\ <<n + 1, c>> \in EventId
    BY <1>2 DEF EventId
  <2>2. n \in 0..n /\ ~(n + 1 \in 1..n)
    BY <1>2
  <2> QED BY <1>3, <2>1, <2>2 DEF CallOK
<1>5. calls' = [calls EXCEPT ![c] = q]
  BY <1>1
<1>6. UNCHANGED <<snapshot, saved>> /\ retries' \in Nat /\ saves' \in Nat /\ crashes' \in Nat
  BY DEF Decide, counters, Inv, TypeOK
<1> HIDE DEF q
<1> QED BY <1>4, <1>5, <1>6, CallStep

LEMMA RetryInv ==
    ASSUME Inv, NEW c \in Ids, Retry(c)
    PROVE  Inv'
<1>1. PICK i \in New(log), k \in KeyVariants :
         /\ log[i].by = c
         /\ calls' = [calls EXCEPT ![c] =
               [id |-> log[i].id, key |-> <<log[i].id, k>>, body |-> log[i].body,
                seen |-> Len(log)]]
  BY DEF Retry
<1> DEFINE q == [id |-> log[i].id, key |-> <<log[i].id, k>>, body |-> log[i].body,
                 seen |-> Len(log)]
<1>2. log \in Seq(Record) /\ LogOK(log)
  BY DEF Inv, LogOK
<1>3. i \in 1..Len(log) /\ log[i].by # None /\ Len(log) \in Nat
  BY <1>2 DEF New
<1>4. /\ i <= Len(Boot) => log[i].by = None
      /\ i > Len(Boot) => log[i].body \in Bodies
      /\ log[i].id = <<i, log[i].by>>
      /\ log[i].by # None =>
            /\ log[i].actor = RoleOf[log[i].by]
            /\ log[i].body.kind = "campaign"
                  => CampaignPermitted(log[i].actor, log[i].body.event)
  BY <1>2, <1>3 DEF LogOK
<1>5. Len(Boot) \in Nat
  BY BootAssumption
<1>6. log[i].body \in Bodies
  BY <1>3, <1>4, <1>5
<1>7. CallOK(c, q, log)
  <2>1. log[i].id = <<i, c>> /\ log[i].id \in Nat \X Ids
        /\ <<log[i].id, k>> \in EventId \X (KeyVariants \cup {1})
    BY <1>1, <1>3, <1>4 DEF EventId
  <2>2. Len(log) \in 0..Len(log)
    BY <1>3
  <2>3. log[i].body.kind = "campaign" => CampaignPermitted(RoleOf[c], log[i].body.event)
    BY <1>1, <1>3, <1>4
  <2>4. q.id = log[i].id /\ q.key = <<log[i].id, k>> /\ q.body = log[i].body
        /\ q.seen = Len(log) /\ q.key[1] = q.id /\ q.id[2] = c
    BY <2>1
  <2> HIDE DEF q
  <2> QED BY <1>1, <1>3, <1>6, <2>1, <2>2, <2>3, <2>4 DEF CallOK
<1>8. calls' = [calls EXCEPT ![c] = q]
  BY <1>1
<1>9. UNCHANGED <<snapshot, saved>> /\ retries' \in Nat /\ saves' \in Nat /\ crashes' \in Nat
  BY DEF Retry, Inv, TypeOK
<1> HIDE DEF q
<1> QED BY <1>7, <1>8, <1>9, CallStep

\* r is committed by c, with effect x.
CommitsRecord(c, r, x) ==
    /\ log' = Append(log, r) /\ campaign' = x[1] /\ agents' = x[2]
    /\ x \in Effect(campaign, agents, r.body)
    /\ r.by = c /\ r.id = <<Len(log) + 1, c>> /\ r.key[1] = r.id
    /\ r.body \in Bodies /\ r.actor = RoleOf[c]
    /\ r.body.kind = "campaign" => CampaignPermitted(r.actor, r.body.event)
    /\ r.key \notin Keys(log) /\ r.id \notin EventIds(log)
    /\ RolePermits(r.actor, agents, r.body)
    /\ EntryAllows(c, r.body)
    /\ applied' = Keys(log) \cup {r.key}
    /\ calls' = [calls EXCEPT ![c] = None]
    /\ UNCHANGED <<saved, counters>>

\* What is committed: a fresh command, decided at this very version.
LEMMA Committed ==
    ASSUME Inv, NEW c \in Ids, Commit(c)
    PROVE  \E r \in Record : \E x : CommitsRecord(c, r, x)
<1> DEFINE q == calls[c]
           r == [id |-> q.id, key |-> q.key, actor |-> RoleOf[c], body |-> q.body,
                 by |-> c]
<1>1. q # None /\ CallOK(c, q, log) /\ LogOK(log) /\ applied = Keys(log)
  BY DEF Commit, Inv, CallsOK
<1>2. /\ q.key \notin applied /\ RolePermits(RoleOf[c], agents, q.body)
      /\ \A i \in DOMAIN log : log[i].id # q.id
      /\ q.seen = Len(log)
  BY DEF Commit, Commits
<1>3. DOMAIN log = 1..Len(log) /\ Len(log) \in Nat
  BY <1>1 DEF LogOK
<1>4. /\ q.body \in Bodies
      /\ q.id \in Nat \X Ids /\ q.id[2] = c
      /\ q.key \in EventId \X (KeyVariants \cup {1}) /\ q.key[1] = q.id
      /\ q.body.kind = "campaign" => CampaignPermitted(RoleOf[c], q.body.event)
      /\ \/ q.id[1] = q.seen + 1
         \/ \E i \in 1..Len(log) : log[i].id = q.id
  BY <1>1 DEF CallOK
<1>5. PICK x \in Effect(campaign, agents, q.body) : campaign' = x[1] /\ agents' = x[2]
  BY DEF Commit
<1>6. /\ log' = Append(log, r) /\ applied' = applied \cup {q.key}
      /\ calls' = [calls EXCEPT ![c] = None] /\ UNCHANGED <<saved, counters>>
      /\ EntryAllows(c, q.body)
  BY DEF Commit
<1>7. q.id = <<Len(log) + 1, c>>
  BY <1>2, <1>3, <1>4
<1>8. r.id = q.id /\ r.key = q.key /\ r.actor = RoleOf[c] /\ r.body = q.body /\ r.by = c
  OBVIOUS
<1>9. r \in Record
  <2>1. q.id \in EventId
    BY <1>4 DEF EventId
  <2> QED BY <1>4, <2>1, RolesKnown DEF Record
<1> HIDE DEF r, q
<1>10. r.key \notin Keys(log) /\ r.id \notin EventIds(log)
  BY <1>1, <1>2, <1>8 DEF EventIds
<1>11. CommitsRecord(c, r, x)
  BY <1>1, <1>2, <1>4, <1>5, <1>6, <1>7, <1>8, <1>10 DEF CommitsRecord
<1> QED BY <1>9, <1>11

LEMMA CommitInv ==
    ASSUME Inv, NEW c \in Ids, Commit(c)
    PROVE  Inv'
<1>0. PICK r \in Record : \E x : CommitsRecord(c, r, x)
  BY Committed
<1>1. PICK x : CommitsRecord(c, r, x)
  BY <1>0
<1> USE <1>1 DEF CommitsRecord
<1>2. LogOK(log) /\ (Legible(log) => Accepts(Snapshot)) /\ log \in Seq(Record)
  BY DEF Inv, LogOK
<1>3. LogOK(log')
  BY <1>1, <1>2, LogGrows
<1>4. Snapshot.log = log /\ Snapshot.campaign = campaign /\ Snapshot.agents = agents
      /\ Snapshot'.log = log' /\ Snapshot'.campaign = campaign'
      /\ Snapshot'.agents = agents'
  BY DEF Snapshot
<1>5. Legible(log') => Accepts(Snapshot')
  <2> SUFFICES ASSUME Legible(log') PROVE Accepts(Snapshot')
    OBVIOUS
  <2> DEFINE s == Snapshot  t == Snapshot'
  <2>1. s.log = log /\ s.campaign = campaign /\ s.agents = agents
        /\ t.log = Append(log, r) /\ t.campaign = x[1] /\ t.agents = x[2]
    BY <1>1, <1>4
  <2>2. Legible(log) /\ Readable(r.body)
    <3> DEFINE n == Len(log)
    <3>1. /\ n \in Nat /\ DOMAIN log = 1..n /\ DOMAIN log' = 1..n + 1
          /\ (\A i \in 1..n : log'[i] = log[i]) /\ log'[n + 1] = r
      BY <1>1, <1>2, LogEntries
    <3> HIDE DEF n
    <3>2. 1..n \subseteq 1..n + 1 /\ n + 1 \in 1..n + 1
      BY <3>1
    <3> QED BY <3>1, <3>2, Zenon DEF Legible
  <2>3. Accepts(s)
    BY <1>2, <2>2
  <2> HIDE DEF s, t
  <2>4. /\ LogOK(s.log) /\ x \in Effect(s.campaign, s.agents, r.body)
        /\ r.key \notin Keys(s.log) /\ r.id \notin EventIds(s.log)
        /\ RolePermits(r.actor, s.agents, r.body)
        /\ t.log = Append(s.log, r)
    BY <1>1, <1>2, <2>1
  <2>5. Accepts(t)
    BY <1>1, <2>1, <2>2, <2>3, <2>4, AcceptsGrows
  <2> QED BY <2>5 DEF t
<1>6. /\ campaign' \in CampaignStates /\ RoundOK(log', Len(log'), campaign')
      /\ DOMAIN agents' = Ids /\ \A a \in Ids : agents'[a] \in Agent
  <2> DEFINE n == Len(log)  b == r.body
  <2>1. /\ n \in Nat /\ Len(log') = n + 1
        /\ (\A i \in 1..n : log'[i] = log[i]) /\ log'[n + 1] = r
    BY <1>1, <1>2, LogEntries
  <2>2. campaign \in CampaignStates /\ DOMAIN agents = Ids
        /\ (\A a \in DOMAIN agents : agents[a] \in Agent)
        /\ RoundOK(log, n, campaign)
    BY DEF Inv, TypeOK
  <2> HIDE DEF n
  <2>3. RoundOK(log', n, campaign)
    BY <2>1, <2>2, RoundCarries
  <2>4. b \in Bodies /\ log'[n + 1].body = b
        /\ RolePermits(log'[n + 1].actor, agents, b) /\ x \in Effect(campaign, agents, b)
    BY <1>1, <2>1
  <2> HIDE DEF b
  <2> DEFINE new == log'
  <2>5. RoundOK(new, n, campaign) /\ new[n + 1].body = b
        /\ RolePermits(new[n + 1].actor, agents, b)
    BY <2>3, <2>4
  <2> HIDE DEF new
  <2>6. /\ x[1] \in CampaignStates /\ RoundOK(new, n + 1, x[1])
        /\ DOMAIN x[2] = DOMAIN agents /\ \A a \in DOMAIN agents : x[2][a] \in Agent
    BY <2>1, <2>2, <2>4, <2>5, EffectSound
  <2> QED BY <1>1, <2>1, <2>2, <2>6 DEF new
<1>7. applied' = Keys(log')
  <2>1. Keys(Append(log, r)) = Keys(log) \cup {r.key}
    BY <1>1, <1>2, KeysGrow
  <2> QED BY <1>1, <2>1
<1>8. DOMAIN calls = Ids /\ CallsOK
  BY DEF Inv, TypeOK
<1>9. CallsOK'
  <2> SUFFICES ASSUME NEW k \in Ids PROVE CallOK(k, calls'[k], log')
    BY DEF CallsOK
  <2>1. CASE k = c
    BY <1>1, <1>8, <2>1 DEF CallOK
  <2>2. CASE k # c
    <3>1. calls'[k] = calls[k] /\ CallOK(k, calls[k], log)
      BY <1>1, <1>8, <2>2 DEF CallsOK
    <3>2. r.by # k
      BY <1>1, <2>2
    <3>3. CallOK(k, calls[k], Append(log, r))
      BY <1>2, <3>1, <3>2, CallGrows
    <3> QED BY <1>1, <3>1, <3>3
  <2> QED BY <2>1, <2>2
<1>10. TypeOK'
  <2>1. log' \in Seq(Record)
    BY <1>3 DEF LogOK
  <2>2. DOMAIN calls' = Ids
    BY <1>1, <1>8
  <2>3. ASSUME NEW k \in Ids, calls'[k] # None
        PROVE  calls'[k].body \in Bodies /\ calls'[k].seen \in 0..Len(log')
    <3>1. CallOK(k, calls'[k], log')
      BY <1>9 DEF CallsOK
    <3> QED BY <2>3, <3>1, Zenon DEF CallOK
  <2>4. retries' \in Nat /\ saves' \in Nat /\ crashes' \in Nat
    BY <1>1 DEF Inv, TypeOK, counters
  <2> QED BY <1>6, <2>1, <2>2, <2>3, <2>4, Zenon DEF TypeOK
<1>11. LogOK(saved.log)'
  BY <1>1 DEF Inv
<1> QED BY <1>3, <1>5, <1>6, <1>7, <1>9, <1>10, <1>11 DEF Inv

LEMMA SaveInv ==
    ASSUME Inv, Save
    PROVE  Inv'
<1>1. UNCHANGED <<campaign, agents, log, applied, calls, retries, crashes>>
      /\ saved' = Snapshot /\ saves' = saves + 1
  BY DEF Save, snapshot
<1>2. Snapshot' = Snapshot /\ Snapshot.log = log
  BY <1>1 DEF Snapshot
<1>3. saved'.log = log /\ (Legible(log') => Accepts(Snapshot'))
  BY <1>1, <1>2 DEF Inv
<1>4. TypeOK'
  BY <1>1 DEF Inv, TypeOK
<1>5. CallsOK' /\ applied' = Keys(log')
  BY <1>1 DEF Inv, CallsOK
<1> QED BY <1>1, <1>3, <1>4, <1>5 DEF Inv

LEMMA RestartInv ==
    ASSUME Inv, Restart
    PROVE  Inv'
<1>1. /\ campaign' = saved.campaign /\ agents' = saved.agents /\ log' = saved.log
      /\ applied' = Keys(saved.log) /\ calls' = [a \in Ids |-> None]
      /\ UNCHANGED <<saved, retries, saves>> /\ crashes' = crashes + 1
  BY DEF Restart, Keys
<1>2. LogOK(saved.log) /\ Accepts(saved)
  BY DEF Inv, Restart
<1>3. /\ campaign' \in CampaignStates /\ RoundOK(log', Len(log'), campaign')
      /\ DOMAIN agents' = Ids /\ \A a \in Ids : agents'[a] \in Agent
  BY <1>1, <1>2, AcceptedSound
<1>4. Accepts(Snapshot)'
  <2> DEFINE t == Snapshot'
  <2>1. t.log = saved.log /\ t.campaign = saved.campaign /\ t.agents = saved.agents
    BY <1>1 DEF Snapshot
  <2> HIDE DEF t
  <2>2. Accepts(t)
    BY <1>2, <2>1 DEF Accepts
  <2> QED BY <2>2 DEF t
<1>5. CallsOK'
  BY <1>1 DEF CallsOK, CallOK
<1>6. TypeOK'
  BY <1>1, <1>2, <1>3 DEF Inv, TypeOK, LogOK
<1> QED BY <1>1, <1>2, <1>3, <1>4, <1>5, <1>6 DEF Inv

LEMMA NextInv == Inv /\ [Next]_vars => Inv'
<1> SUFFICES ASSUME Inv, [Next]_vars PROVE Inv'
  OBVIOUS
<1>1. ASSUME NEW c \in Ids, ReplayIdempotent(c) \/ Refuse(c) PROVE Inv'
  <2>1. CallOK(c, None, log)
    BY DEF CallOK
  <2>2. /\ calls' = [calls EXCEPT ![c] = None]
        /\ UNCHANGED <<snapshot, saved>>
        /\ retries' \in Nat /\ saves' \in Nat /\ crashes' \in Nat
    BY <1>1 DEF ReplayIdempotent, Refuse, counters, Inv, TypeOK
  <2> QED BY <2>1, <2>2, CallStep
<1>2. CASE UNCHANGED vars
  <2>1. UNCHANGED <<campaign, agents, log, applied, saved, calls, retries, saves, crashes>>
    BY <1>2 DEF vars
  <2>2. Snapshot' = Snapshot /\ TypeOK' /\ CallsOK'
    BY <2>1 DEF Snapshot, Inv, TypeOK, CallsOK
  <2> QED BY <2>1, <2>2 DEF Inv
<1> QED BY <1>1, <1>2, DecideInv, RetryInv, CommitInv, SaveInv, RestartInv
     DEF Next, Acts

LEMMA InvInvariant == Spec => []Inv
BY InitInv, NextInv, PTL DEF Spec

-----------------------------------------------------------------------------
(* The theorems.                                                           *)

\* The snapshot and the calls keep their types, across restarts too.
THEOREM TypeCorrect == Spec => []TypeOK
<1>1. Inv => TypeOK
  BY DEF Inv
<1> QED BY <1>1, InvInvariant, PTL

\* A snapshot taken at any moment is accepted by from_snapshot exactly when no
\* agent with a colon in its id has an event in it.
THEOREM Restorable == Spec => []SnapshotRestores
<1>1. Inv => SnapshotRestores
  <2> SUFFICES ASSUME Inv PROVE Accepts(Snapshot) <=> Legible(log)
    BY DEF SnapshotRestores, Legible
  <2> DEFINE s == Snapshot
  <2>1. s.log = log /\ LogOK(log) /\ (Legible(log) => Accepts(s))
    BY DEF Inv, Snapshot
  <2> HIDE DEF s
  <2>2. Accepts(s) => Legible(s.log)
    BY <2>1, AcceptedSound
  <2> QED BY <2>1, <2>2 DEF s
<1> QED BY <1>1, InvInvariant, PTL

\* A repeated command whose key is in the log is answered as committed: the
\* record under the key is the caller's own.
THEOREM RetriesAnswered == Spec => []RetryIsAnswered
<1>1. Inv => RetryIsAnswered
  <2> SUFFICES ASSUME Inv, NEW c \in Ids, calls[c] # None,
                      EntryAllows(c, calls[c].body),
                      NEW i \in DOMAIN log, log[i].key = calls[c].key
               PROVE  Answered(c)
    BY DEF RetryIsAnswered
  <2> DEFINE q == calls[c]
  <2>1. LogOK(log) /\ CallOK(c, q, log) /\ q # None /\ applied = Keys(log)
    BY DEF Inv, CallsOK
  <2>2. i \in 1..Len(log)
    BY <2>1 DEF LogOK
  <2>3. log[i].id = <<i, log[i].by>> /\ log[i].key[1] = log[i].id
    BY <2>1, <2>2 DEF LogOK
  <2>4. /\ q.body \in Bodies /\ q.id \in Nat \X Ids /\ q.id[2] = c /\ q.key[1] = q.id
        /\ q.body.kind = "campaign" => CampaignPermitted(RoleOf[c], q.body.event)
        /\ q.seen \in 0..Len(log)
        /\ \/ /\ q.id[1] = q.seen + 1
              /\ q.seen + 1 \in 1..Len(log) => log[q.seen + 1].by # c
           \/ \E k \in 1..Len(log) :
                 log[k].by = c /\ log[k].id = q.id /\ log[k].body = q.body
    BY <2>1 DEF CallOK
  <2>5. q.key = log[i].key
    OBVIOUS
  <2> HIDE DEF q
  <2>6. log[i].id = q.id /\ i = q.id[1] /\ log[i].by = c
    BY <2>3, <2>4, <2>5
  <2>7. PICK k \in 1..Len(log) :
           log[k].by = c /\ log[k].id = q.id /\ log[k].body = q.body
    BY <2>2, <2>4, <2>6
  <2>8. log[k].id = <<k, log[k].by>>
    BY <2>1 DEF LogOK
  <2>9. k = i
    BY <2>6, <2>7, <2>8
  <2>10. log[i].actor = RoleOf[c]
    <3>1. log[i].by # None
      BY <2>6, BootAssumption
    <3> QED BY <2>1, <2>2, <2>6, <3>1 DEF LogOK
  <2>11. q.key \in applied
    BY <2>1, <2>5 DEF Keys
  <2>12. ReplaysIdempotently(c)
    BY <2>5, <2>6, <2>7, <2>9, <2>10, <2>11 DEF ReplaysIdempotently, q
  <2> QED BY <2>4, <2>12 DEF Answered, q
<1> QED BY <1>1, InvInvariant, PTL

\* "a replay cannot turn a transport acknowledgement or queued attempt into
\* an official score": the last round of the log has what brought it about.
THEOREM ScoresFollow == Spec => []ScoreFollowsDispatch
<1>1. Inv => ScoreFollowsDispatch
  <2> SUFFICES ASSUME Inv, campaign \in HasScore PROVE ScoreFollowsDispatch
    BY DEF ScoreFollowsDispatch, HasScore, HasVerdict
  <2> DEFINE n == Len(log)
  <2>1. LogOK(log) /\ RoundOK(log, n, campaign)
    BY DEF Inv
  <2>2. n \in Nat /\ DOMAIN log = 1..n
    BY <2>1 DEF LogOK
  <2>3. PICK p, t, d, o, v, r \in 0..n : Round(log, n, campaign, p, t, d, o, v, r)
    BY <2>1 DEF RoundOK
  <2> HIDE DEF n
  <2>4. /\ 0 < p /\ IsPlan(log, p)
        /\ \A j \in 1..n : p < j => ~IsPlan(log, j)
        /\ p < t /\ Is(log, t, "TransportAccepted", {"Solver"})
        /\ t < d /\ Is(log, d, "SubmissionDispatched", {"Chief"})
        /\ d < o /\ Is(log, o, "ScoreObserved", {"Monitor", "JudgeAnalyst"})
        /\ campaign \in HasVerdict =>
              o < v /\ Is(log, v, "ScoreVerified", {"JudgeAnalyst"})
        /\ campaign = "Closed" =>
              v < r /\ Is(log, r, "ClosureReviewStarted", {"Chief"})
    BY <2>3 DEF Round, HasPlan, HasTransport, HasDispatch
  <2>5. LastPlan = p
    <3> DEFINE P(i) == IsPlan(log, i) /\ \A j \in i + 1..n : ~IsPlan(log, j)
    <3>1. LastPlan = CHOOSE i \in DOMAIN log : P(i)
      BY DEF LastPlan, IsPlan, n
    <3>2. p \in DOMAIN log /\ P(p)
      BY <2>2, <2>4
    <3>3. \A i \in DOMAIN log : P(i) => i = p
      <4> SUFFICES ASSUME NEW i \in DOMAIN log, P(i), i # p PROVE FALSE
        OBVIOUS
      <4>1. i \in 1..n /\ p \in 1..n
        BY <2>2, <3>2
      <4>2. CASE i < p
        <5>1. p \in i + 1..n
          BY <2>2, <4>1, <4>2
        <5> QED BY <2>4, <5>1
      <4>3. CASE p < i
        BY <2>4, <4>1, <4>3
      <4> QED BY <2>2, <4>1, <4>2, <4>3
    <3> HIDE DEF P
    <3> QED BY <3>1, <3>2, <3>3
  <2>6. ASSUME NEW e, NEW roles, NEW i \in 0..n, p < i, Is(log, i, e, roles)
        PROVE  i \in InRound(e, roles)
    <3>1. i \in p + 1..n
      BY <2>2, <2>6
    <3> QED BY <2>5, <2>6, <3>1 DEF InRound, Is, n
  <2>7. /\ t \in InRound("TransportAccepted", {"Solver"})
        /\ d \in InRound("SubmissionDispatched", {"Chief"})
        /\ o \in InRound("ScoreObserved", {"Monitor", "JudgeAnalyst"})
    <3>1. p < d /\ p < o
      BY <2>2, <2>4
    <3> QED BY <2>4, <2>6, <3>1
  <2>8. campaign \in HasVerdict => v \in InRound("ScoreVerified", {"JudgeAnalyst"})
    <3>1. campaign \in HasVerdict => p < v
      BY <2>2, <2>4
    <3> QED BY <2>4, <2>6, <3>1
  <2>9. campaign = "Closed" => r \in InRound("ClosureReviewStarted", {"Chief"})
    <3>1. campaign = "Closed" => campaign \in HasVerdict
      BY DEF HasVerdict
    <3>2. campaign = "Closed" => p < r
      BY <2>2, <2>4, <3>1
    <3> QED BY <2>4, <2>6, <3>2
  <2>10. campaign # "Observed" => campaign \in HasVerdict
    BY DEF HasScore
  <2> QED BY <2>4, <2>7, <2>8, <2>9, <2>10 DEF ScoreFollowsDispatch
<1> QED BY <1>1, InvInvariant, PTL

\* What agents say of themselves, in a log.
Own(l) ==
    \A i \in DOMAIN l :
        (l[i].body.kind = "agent" /\ l[i].body.event \in SelfAction)
        => l[i].by \in {l[i].body.agent, None}

\* Through the context-bound entry, what agents say of themselves was said by
\* that very agent: the role rule sends a Solver to itself, and the target
\* rule keeps the Chief from another Chief.
THEOREM SelfActionsOwn ==
    ASSUME "agent" \notin RoleEntry
    PROVE  Spec => []SelfActionsAreOwn
<1> DEFINE OwnInv == Own(log) /\ Own(saved.log)
<1>1. Init => OwnInv
  <2> SUFFICES ASSUME Init PROVE OwnInv
    OBVIOUS
  <2>1. \A i \in DOMAIN log : log[i].by = None
    BY StoredOK DEF Init
  <2>2. saved.log = log
    BY DEF Init, Snapshot
  <2> QED BY <2>1, <2>2 DEF Own
<1>2. Inv /\ OwnInv /\ [Next]_vars => OwnInv'
  <2> SUFFICES ASSUME Inv, OwnInv, [Next]_vars PROVE OwnInv'
    OBVIOUS
  <2>1. ASSUME NEW c \in Ids, Commit(c) PROVE OwnInv'
    <3>0. PICK r \in Record : \E x : CommitsRecord(c, r, x)
      BY <2>1, Committed
    <3>1. PICK x : CommitsRecord(c, r, x)
      BY <3>0
    <3>2. ASSUME r.body.kind = "agent", r.body.event \in SelfAction
          PROVE  r.by = r.body.agent
      <4>1. ContextAllows(c, r.body)
        BY <3>1, <3>2 DEF CommitsRecord, EntryAllows
      <4>2. RoleOf[c] = agents[r.body.agent].role
        BY <3>1, <3>2 DEF CommitsRecord, RolePermits, AgentPermitted
      <4>3. r.body.agent = c
        BY <3>2, <4>1, <4>2 DEF ContextAllows
      <4> QED BY <3>1, <4>3 DEF CommitsRecord
    <3>3. log' = Append(log, r) /\ saved' = saved
      BY <3>1 DEF CommitsRecord
    <3> DEFINE n == Len(log)
    <3>4. n \in Nat /\ DOMAIN log = 1..n /\ DOMAIN log' = 1..n + 1
          /\ (\A i \in 1..n : log'[i] = log[i]) /\ log'[n + 1] = r
      BY <3>3, LogEntries DEF Inv, LogOK
    <3> HIDE DEF n
    <3>5. \A i \in 1..n + 1 : i \in 1..n \/ i = n + 1
      BY <3>4
    <3>6. Own(log')
      BY <3>2, <3>4, <3>5 DEF Own
    <3> QED BY <3>3, <3>6
  <2>2. CASE Save
    <3>1. log' = log /\ saved'.log = log
      BY <2>2 DEF Save, snapshot, Snapshot
    <3> QED BY <3>1
  <2>3. CASE Restart
    <3>1. log' = saved.log /\ saved' = saved
      BY <2>3 DEF Restart
    <3> QED BY <3>1
  <2>4. CASE UNCHANGED <<log, saved>>
    BY <2>4
  <2> QED BY <2>1, <2>2, <2>3, <2>4 DEF Next, Acts, Decide, Retry, ReplayIdempotent,
       Refuse, vars, snapshot
<1>3. OwnInv => SelfActionsAreOwn
  BY DEF Own, SelfActionsAreOwn
<1> HIDE DEF OwnInv
<1>4. Spec => []OwnInv
  BY <1>1, <1>2, InvInvariant, PTL DEF Spec
<1> QED BY <1>3, <1>4, PTL

-----------------------------------------------------------------------------
(* The refinement of CampaignPromise.                                      *)

LEMMA StageOfState ==
    /\ \A s \in {"New", "Intake", "Oriented", "Planned", "Replan"} : Stage(s) = "planning"
    /\ \A s \in {"Executing", "EvidenceReady", "Preflight"} : Stage(s) = "executing"
    /\ \A s \in {"Submitting", "AwaitingScore"} : Stage(s) = "submitted"
    /\ \A s \in {"Observed", "ScoreVerified"} : Stage(s) = "scored"
    /\ Stage("ClosureReview") = "closing"
    /\ \A s \in {"Closed", "Aborted"} : Stage(s) = "over"
BY DEF Stage

\* The table keeps to the road.
LEMMA StageLeads ==
    ASSUME NEW s \in CampaignStates, NEW e \in CampaignEvents, NEW u \in CampaignNext(s, e)
    PROVE  Promise!Leads(Stage(s), Stage(u))
<1>1. s \notin {"Closed", "Aborted"}
  BY DEF CampaignNext, CampaignTable, CampaignOver
<1>2. Stage(s) # "over"
  BY <1>1, StageOfState DEF CampaignStates
<1>3. CASE u = "Aborted"
  BY <1>2, <1>3, StageOfState DEF Promise!Leads
<1>4. CASE u # "Aborted"
  <2>1. \/ s = "New" /\ u = "Intake"
        \/ s = "Intake" /\ u = "Oriented"
        \/ s = "Oriented" /\ u = "Planned"
        \/ s = "Planned" /\ u = "Executing"
        \/ s = "Executing" /\ u = "EvidenceReady"
        \/ s = "EvidenceReady" /\ u = "Preflight"
        \/ s = "Preflight" /\ u = "Submitting"
        \/ s = "Submitting" /\ u = "AwaitingScore"
        \/ s = "AwaitingScore" /\ u = "Observed"
        \/ s = "Observed" /\ u \in {"ScoreVerified", "Replan"}
        \/ s = "ScoreVerified" /\ u \in {"Replan", "ClosureReview"}
        \/ s = "Replan" /\ u = "Planned"
        \/ s = "ClosureReview" /\ u = "Closed"
    BY <1>4 DEF CampaignNext, CampaignTable
  <2> HIDE DEF Stage
  <2> QED BY <1>2, <2>1, StageOfState DEF Promise!Leads, Promise!Road
<1> QED BY <1>3, <1>4

\* A committed event is a command obeyed.
LEMMA CommitObeys ==
    ASSUME Inv, NEW c \in Ids, Commit(c)
    PROVE  Promise!Obey
<1>0. PICK r \in Record : \E x : CommitsRecord(c, r, x)
  BY Committed
<1>1. PICK x : CommitsRecord(c, r, x)
  BY <1>0
<1> DEFINE n == Len(log)
<1>2. n \in Nat /\ DOMAIN log = 1..n /\ DOMAIN log' = 1..n + 1 /\ Len(log') = n + 1
      /\ (\A i \in 1..n : log'[i] = log[i]) /\ log'[n + 1] = r
  BY <1>1, LogEntries DEF Inv, LogOK, CommitsRecord
<1>3. r.by = c /\ c # None /\ r.id = <<n + 1, c>> /\ r.id \notin EventIds(log)
  BY <1>1, BootAssumption DEF CommitsRecord
<1> HIDE DEF n
<1>6. Done(log') = Done(log) \cup {r.id}
  <2>1. New(log') = New(log) \cup {n + 1}
    BY <1>2, <1>3 DEF New
  <2>2. \A i \in New(log) : log'[i] = log[i]
    BY <1>2 DEF New
  <2> QED BY <1>2, <2>1, <2>2 DEF Done
<1>7. r.id \notin Done(log)
  BY <1>3 DEF Done, New, EventIds
<1>9. r.id \in Nat \X Ids
  BY <1>2, <1>3
<1>10. Promise!Leads(Stage(campaign), Stage(campaign')) \/ campaign' = campaign
  <2> DEFINE b == r.body
  <2>1. x \in Effect(campaign, agents, b) /\ campaign' = x[1] /\ b \in Bodies
    BY <1>1 DEF CommitsRecord
  <2>2. campaign \in CampaignStates
    BY DEF Inv, TypeOK
  <2> HIDE DEF b
  <2>3. CASE b.kind = "campaign"
    <3>1. PICK u \in CampaignNext(campaign, b.event) : x = <<u, agents>>
      BY <2>1, <2>3 DEF Effect
    <3>2. campaign' = u /\ b.event \in CampaignEvents
      BY <2>1, <2>3, <3>1, BodyCases
    <3> QED BY <2>2, <3>1, <3>2, StageLeads
  <2>4. CASE b.kind = "agent"
    <3>0. PICK m : x = <<campaign, m>>
      BY <2>1, <2>4 DEF Effect
    <3>1. x[1] = campaign
      BY <3>0
    <3> QED BY <2>1, <3>1
  <2> QED BY <2>1, <2>3, <2>4, BodyCases
<1>11. saved' = saved
  BY <1>1 DEF CommitsRecord
<1>12. Len(log') = Len(log) + 1
  BY <1>2 DEF n
<1>13. r.id \in Done(log') \ Done(log) /\ Done(log') = Done(log) \cup {r.id}
  BY <1>6, <1>7
<1>14. Stage(campaign') = Stage(campaign) \/ Promise!Leads(Stage(campaign), Stage(campaign'))
  BY <1>10
<1> QED BY <1>9, <1>11, <1>12, <1>13, <1>14 DEF Promise!Obey

\* The Coordinator implements CampaignPromise: whatever is lost, repeated,
\* refused or restarted, a command takes effect at most once and the stages
\* come in order.
THEOREM Refinement == Spec => ImplementsPromise
<1>1. Init => Promise!Init
  <2> SUFFICES ASSUME Init PROVE Promise!Init
    OBVIOUS
  <2>1. Inv
    BY InitInv
  <2>2. \A i \in DOMAIN log : log[i].by = None
    BY StoredOK DEF Init
  <2>3. Done(log) = {}
    BY <2>2 DEF Done, New
  <2>4. saved.campaign = campaign /\ saved.log = log
    BY DEF Init, Snapshot
  <2>5. campaign \in CampaignStates /\ Len(log) \in Nat
    BY <2>1 DEF Inv, TypeOK
  <2>6. Stage(campaign) \in Promise!Stages
    BY <2>5, StageOfState DEF CampaignStates, Promise!Stages
  <2> QED BY <2>3, <2>4, <2>5, <2>6 DEF Promise!Init
<1>2. Inv /\ [Next]_vars => [Promise!Next]_(Promise!vars)
  <2> SUFFICES ASSUME Inv, [Next]_vars
               PROVE  Promise!Next \/ UNCHANGED <<campaign, log, saved>>
    BY DEF Promise!vars
  <2>1. ASSUME NEW c \in Ids, Commit(c) PROVE Promise!Next
    BY <2>1, CommitObeys DEF Promise!Next
  <2>2. CASE Save
    <3>1. campaign' = campaign /\ log' = log /\ saved'.campaign = campaign
          /\ saved'.log = log
      BY <2>2 DEF Save, snapshot, Snapshot
    <3> QED BY <3>1 DEF Promise!Next, Promise!Keep
  <2>3. CASE Restart
    <3>1. campaign' = saved.campaign /\ log' = saved.log /\ saved' = saved
      BY <2>3 DEF Restart
    <3> QED BY <3>1 DEF Promise!Next, Promise!Restart
  <2> QED BY <2>1, <2>2, <2>3 DEF Next, Acts, Decide, Retry, ReplayIdempotent,
       Refuse, vars, snapshot
<1> QED BY <1>1, <1>2, InvInvariant, PTL DEF Spec, ImplementsPromise, Promise!Spec
=============================================================================
