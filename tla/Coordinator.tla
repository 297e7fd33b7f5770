----------------------------- MODULE Coordinator -----------------------------
(***************************************************************************)
(* The Coordinator of one campaign: an in-memory snapshot (campaign state, *)
(* agent states, event list) that is changed only by events, each raised   *)
(* by an agent under a role, at an expected version, with an event id and  *)
(* an idempotency key.  A snapshot can be saved and a Coordinator rebuilt  *)
(* from it by replaying its events.                                        *)
(*                                                                         *)
(* Callers are the campaign's agents.  An agent reads the snapshot, decides*)
(* on a command, and calls; answers get lost and it calls again, with the  *)
(* version it read then or a newer one, with the same key or, retrying     *)
(* naively, a second one.  A command keeps its event id.                   *)
(***************************************************************************)
EXTENDS Naturals, FiniteSets, Sequences

CONSTANTS
    None,
    Boot,         \* the registrations the stored snapshot begins with
    Name,         \* [Ids -> an agent's id as text, split at its colons]
    Pasts,        \* the events it may hold after them: [actor, body] each
    Orders,       \* the agent events raised: <<agent, event>> each
    RoleEntry,    \* the operations called by their role-only entry:
                  \* a subset of {"campaign", "agent"}
    KeyVariants,  \* the keys a caller may use for one command
    MaxCommands,  \* bound on the commands in the log
    MaxCalls,     \* bound on calls under way at once
    MaxRetries, MaxSaves, MaxCrashes  \* bounds

VARIABLES
    campaign,  \* snapshot.campaign_state
    agents,    \* snapshot.agents: [Ids -> agent record]
    log,       \* snapshot.events; its length is snapshot.state_version
    applied,   \* applied_idempotency_keys
    saved,     \* the snapshot a restart begins from
    calls,     \* [Ids -> the call an agent is making, or None]
    retries, saves, crashes  \* counters of the bounds

vars == <<campaign, agents, log, applied, saved, calls,
          retries, saves, crashes>>
counters == <<retries, saves, crashes>>
snapshot == <<campaign, agents, log, applied>>

Profile == {Boot[i] : i \in DOMAIN Boot}
Ids == {p.id : p \in Profile}
RoleOf == [a \in Ids |-> (CHOOSE p \in Profile : p.id = a).role]

Role == {"Chief", "Solver", "Monitor", "Intel", "JudgeAnalyst", "RedTeam"}

ASSUME BootAssumption ==
    /\ Boot \in Seq(Profile) /\ \A p \in Profile : p.role \in Role
    /\ \A i, j \in DOMAIN Boot : Boot[i].id = Boot[j].id => i = j
    /\ None \notin Ids
    /\ Name \in [Ids -> Seq(STRING)]
    /\ \A a, b \in Ids : Name[a] # <<>> /\ (Name[a] = Name[b] => a = b)
    /\ RoleEntry \subseteq {"campaign", "agent"}
    /\ {MaxCommands, MaxCalls, MaxRetries, MaxSaves, MaxCrashes} \subseteq Nat

-----------------------------------------------------------------------------
(* The transition tables.                                                  *)

CampaignStates ==
    {"New", "Intake", "Oriented", "Planned", "Executing", "EvidenceReady",
     "Preflight", "Submitting", "AwaitingScore", "Observed", "ScoreVerified",
     "ClosureReview", "Replan", "Closed", "Aborted"}

CampaignEvents ==
    {"IntakeAccepted", "VerifierFrozen", "PlanApproved", "ExecutionStarted",
     "EvidenceReady", "PreflightPassed", "TransportAccepted",
     "SubmissionDispatched", "ScoreObserved", "ScoreVerified",
     "ReplanRequired", "ClosureReviewStarted", "ClosureApproved", "Abort"}

\* CampaignState::transition, but for Abort.
CampaignTable ==
    {<<"New", "IntakeAccepted", "Intake">>,
     <<"Intake", "VerifierFrozen", "Oriented">>,
     <<"Oriented", "PlanApproved", "Planned">>,
     <<"Planned", "ExecutionStarted", "Executing">>,
     <<"Executing", "EvidenceReady", "EvidenceReady">>,
     <<"EvidenceReady", "PreflightPassed", "Preflight">>,
     <<"Preflight", "TransportAccepted", "Submitting">>,
     <<"Submitting", "SubmissionDispatched", "AwaitingScore">>,
     <<"AwaitingScore", "ScoreObserved", "Observed">>,
     <<"Observed", "ScoreVerified", "ScoreVerified">>,
     <<"Observed", "ReplanRequired", "Replan">>,
     <<"ScoreVerified", "ReplanRequired", "Replan">>,
     <<"Replan", "PlanApproved", "Planned">>,
     <<"ScoreVerified", "ClosureReviewStarted", "ClosureReview">>,
     <<"ClosureReview", "ClosureApproved", "Closed">>}

CampaignOver == {"Closed", "Aborted"}

\* Mutant: an accepted transport counts as a dispatched submission.
TransportDispatches(s, e) ==
    {t \in CampaignStates :
      \/ <<s, e, t>> \in CampaignTable /\ s # "Preflight"
      \/ <<s, e, t>> = <<"Preflight", "TransportAccepted", "AwaitingScore">>
      \/ e = "Abort" /\ s \notin CampaignOver /\ t = "Aborted"}

\* Mutant: a submission whose score is awaited may be planned anew.
ReplanUnscored(s, e) ==
    {t \in CampaignStates :
      \/ <<s, e, t>> \in CampaignTable
      \/ <<s, e, t>> = <<"AwaitingScore", "ReplanRequired", "Replan">>
      \/ e = "Abort" /\ s \notin CampaignOver /\ t = "Aborted"}

\* The states an event leads to: one, or none when it is illegal.
CampaignNext(s, e) ==
    {t \in CampaignStates :
      \/ <<s, e, t>> \in CampaignTable
      \/ e = "Abort" /\ s \notin CampaignOver /\ t = "Aborted"}

AgentStates ==
    {"Registered", "Briefed", "Active", "WaitingInput", "WaitingScore",
     "HandoffPending", "EndProposed", "EndAccepted", "Suspended", "Crashed",
     "Recovering", "Aborted"}

AgentEvents ==
    {"Brief", "Activate", "WaitInput", "WaitScore", "RequestHandoff",
     "ProposeEnd", "AcceptEnd", "Suspend", "Crash", "Recover", "Abort"}

Working == {"Active", "WaitingInput", "WaitingScore"}

\* AgentState::transition, but for what interrupts an agent.
AgentTable ==
    {<<"Registered", "Brief", "Briefed">>,
     <<"Briefed", "Activate", "Active">>,
     <<"Recovering", "Activate", "Active">>,
     <<"Active", "WaitInput", "WaitingInput">>,
     <<"Active", "WaitScore", "WaitingScore">>,
     <<"Active", "RequestHandoff", "HandoffPending">>,
     <<"HandoffPending", "ProposeEnd", "EndProposed">>,
     <<"EndProposed", "AcceptEnd", "EndAccepted">>,
     <<"Crashed", "Recover", "Recovering">>,
     <<"Suspended", "Recover", "Recovering">>}

AgentNext(s, e) ==
    {t \in AgentStates :
      \/ <<s, e, t>> \in AgentTable
      \/ s \in Working /\ <<e, t>> \in {<<"Suspend", "Suspended">>,
                                        <<"Crash", "Crashed">>}
      \/ e = "Abort" /\ s \notin {"EndAccepted", "Aborted"} /\ t = "Aborted"}

SelfAction == {"WaitInput", "WaitScore", "RequestHandoff", "ProposeEnd", "Crash"}

-----------------------------------------------------------------------------
(* Authority.                                                              *)

\* The role table of transition_campaign.
CampaignPermitted(role, e) ==
    CASE e \in {"EvidenceReady", "TransportAccepted"} -> role = "Solver"
      [] e = "ScoreObserved" -> role \in {"Monitor", "JudgeAnalyst"}
      [] e = "ScoreVerified" -> role = "JudgeAnalyst"
      [] OTHER -> role = "Chief"

\* The role rule of transition_agent: `self' is the target agent's role.
AgentPermitted(role, self, e) ==
    IF e \in SelfAction THEN role = self ELSE role = "Chief"

\* authorize_action, for the two actions the Coordinator asks about.
MayDecide(role) == role = "Chief"
MayTransitionAgent(role) == role \in {"Chief", "Solver"}

\* An event and the text recorded of it: after its kind, `label', the rest of
\* the text split at its colons.  An id may hold colons of its own.
CampaignBody(e) ==
    [kind |-> "campaign", agent |-> None, event |-> e, label |-> <<e>>]
AgentBody(a, e) ==
    [kind |-> "agent", agent |-> a, event |-> e, label |-> Append(Name[a], e)]
Bodies ==
    {CampaignBody(e) : e \in CampaignEvents}
        \cup {AgentBody(o[1], o[2]) : o \in Orders}

ASSUME PastsAssumption ==
    /\ Orders \subseteq Ids \X AgentEvents
    /\ Pasts \subseteq Seq([actor : Role, body : Bodies])

\* Mutant: the caller's role is checked, its identity is not.
ContextByRole(c, body) ==
    IF body.kind = "campaign" THEN MayDecide(RoleOf[c])
    ELSE body.agent \in DOMAIN agents /\ MayTransitionAgent(RoleOf[c])

\* The checks of the ..._with_context entries, before they call the
\* role-only ones: the action, and whose agent it is.  (The lease itself: see
\* Refuse.)
ContextAllows(c, body) ==
    IF body.kind = "campaign" THEN MayDecide(RoleOf[c])
    ELSE /\ MayTransitionAgent(RoleOf[c])
         /\ body.agent \in DOMAIN agents
         /\ IF RoleOf[c] = "Chief"
            THEN agents[body.agent].role = "Chief" => body.agent = c
            ELSE body.agent = c

EntryAllows(c, body) == body.kind \in RoleEntry \/ ContextAllows(c, body)

-----------------------------------------------------------------------------
(* Committing and replaying.                                               *)

\* Where the body leads from a campaign state and agents: at most one pair.
Effect(state, members, body) ==
    IF body.kind = "campaign"
    THEN {<<t, members>> : t \in CampaignNext(state, body.event)}
    ELSE {<<state, [members EXCEPT ![body.agent].state = t]>> :
             t \in IF body.agent \in DOMAIN members
                   THEN AgentNext(members[body.agent].state, body.event)
                   ELSE {}}

\* The role rules of transition_campaign and transition_agent.
RolePermits(role, members, body) ==
    IF body.kind = "campaign" THEN CampaignPermitted(role, body.event)
    ELSE /\ body.agent \in DOMAIN members
         /\ AgentPermitted(role, members[body.agent].role, body.event)

\* validate_agent_registration.
RegistrationValid(members, p) ==
    /\ p.id \notin DOMAIN members
    /\ IF p.role = "Chief"
       THEN /\ p.parent = None /\ p.lease = None
            /\ \A a \in DOMAIN members : members[a].role # "Chief"
       ELSE /\ p.lease # None
            /\ p.parent \in DOMAIN members /\ members[p.parent].role = "Chief"
            /\ \A a \in DOMAIN members : members[a].lease # p.lease

Registered(members, p) ==
    [a \in DOMAIN members \cup {p.id} |->
        IF a = p.id THEN [role |-> p.role, parent |-> p.parent,
                          lease |-> p.lease, state |-> "Registered"]
        ELSE members[a]]

Rejected == [ok |-> FALSE, state |-> "New", members |-> <<>>]

\* Events are recorded by their Debug labels; campaign_event_from_debug and
\* agent_event_from_debug know these.
CampaignLabels ==
    {"IntakeAccepted", "VerifierFrozen", "PlanApproved", "ExecutionStarted",
     "EvidenceReady", "PreflightPassed", "TransportAccepted",
     "SubmissionDispatched", "ScoreObserved", "ScoreVerified",
     "ReplanRequired", "ClosureReviewStarted", "ClosureApproved", "Abort"}
AgentLabels ==
    {"Brief", "Activate", "WaitInput", "WaitScore", "RequestHandoff",
     "ProposeEnd", "AcceptEnd", "Suspend", "Crash", "Recover", "Abort"}

\* What replay_event reads in a recorded text: one body, or none.  The id of
\* an agent ends at the first colon, and what follows must be a known label.
Reparsed(body) ==
    IF body.kind = "campaign"
    THEN {CampaignBody(e) : e \in {l \in CampaignLabels : body.label = <<l>>}}
    ELSE {AgentBody(a, e) :
             a \in {a \in Ids : Name[a] = <<Head(body.label)>>},
             e \in {l \in AgentLabels : Tail(body.label) = <<l>>}}

\* Mutant: replay accepts a score only from a Monitor.
ReplayMonitorOnly(actor, members, body) ==
    /\ body.event = "ScoreObserved" => actor = "Monitor"
    /\ RolePermits(actor, members, body)

\* The role tables of replay_event, written out a second time there.
ReplayPermits(actor, members, body) ==
    LET e == body.event IN
    IF body.kind = "campaign"
    THEN actor \in
            CASE e \in {"EvidenceReady", "TransportAccepted"} -> {"Solver"}
              [] e = "ScoreObserved" -> {"Monitor", "JudgeAnalyst"}
              [] e = "ScoreVerified" -> {"JudgeAnalyst"}
              [] OTHER -> {"Chief"}
    ELSE /\ body.agent \in DOMAIN members
         /\ actor = IF e \in {"WaitInput", "WaitScore", "RequestHandoff",
                              "ProposeEnd", "Crash"}
                    THEN members[body.agent].role ELSE "Chief"

\* The rules once more, on the body that was read.
ReplayBody(st, actor, body) ==
    LET eff == Effect(st.state, st.members, body) IN
    IF ReplayPermits(actor, st.members, body) /\ eff # {}
    THEN LET s == CHOOSE s \in eff : TRUE IN
         [ok |-> TRUE, state |-> s[1], members |-> s[2]]
    ELSE Rejected

\* replay_event.  A registration carries its agent, and its text is compared
\* with the one it was made from.
ReplayEvent(st, record) ==
    IF ~st.ok THEN Rejected
    ELSE IF record.body.kind = "registered"
    THEN IF record.actor = "Chief"
              /\ RegistrationValid(st.members, record.body.agent)
         THEN [ok |-> TRUE, state |-> st.state,
               members |-> Registered(st.members, record.body.agent)]
         ELSE Rejected
    ELSE IF Reparsed(record.body) = {} THEN Rejected
    ELSE ReplayBody(st, record.actor, CHOOSE b \in Reparsed(record.body) : TRUE)

Replay(events) ==
    LET upTo[i \in 0..Len(events)] ==
            IF i = 0 THEN [ok |-> TRUE, state |-> "New", members |-> <<>>]
            ELSE ReplayEvent(upTo[i - 1], events[i])
    IN  upTo[Len(events)]

\* from_snapshot: versions are positions here, so contiguity is given.
Accepts(s) ==
    LET r == Replay(s.log) IN
    /\ Cardinality({s.log[i].key : i \in DOMAIN s.log}) = Len(s.log)
    /\ Cardinality({s.log[i].id : i \in DOMAIN s.log}) = Len(s.log)
    /\ r.ok /\ r.state = s.campaign /\ r.members = s.agents

Snapshot == [campaign |-> campaign, agents |-> agents, log |-> log]

\* A stored snapshot's events.
Registration(p) == [kind |-> "registered", agent |-> p, event |-> None]

Stored(i, actor, body) ==
    [id |-> <<i, None>>, key |-> <<<<i, None>>, 1>>, actor |-> actor, body |-> body,
     by |-> None]

StoredLog(past) ==
    [i \in 1..Len(Boot) + Len(past) |->
        IF i <= Len(Boot)
        THEN Stored(i, "Chief", Registration(Boot[i]))
        ELSE LET e == past[i - Len(Boot)] IN Stored(i, e.actor, e.body)]

Init ==
    /\ \E past \in Pasts : log = StoredLog(past)
    /\ campaign = Replay(log).state /\ agents = Replay(log).members
    /\ applied = {log[i].key : i \in DOMAIN log}
    /\ saved = Snapshot /\ Accepts(saved)
    /\ calls = [a \in Ids |-> None]
    /\ retries = 0 /\ saves = 0 /\ crashes = 0

-----------------------------------------------------------------------------
(* The callers.                                                            *)

\* A caller decides on what it reads: an event its role may raise now.
Wanted(c, body) ==
    /\ RolePermits(RoleOf[c], agents, body)
    /\ Effect(campaign, agents, body) # {}

MayCall(c) ==
    calls[c] = None /\ Cardinality({a \in Ids : calls[a] # None}) < MaxCalls

New(events) == {i \in DOMAIN events : events[i].by # None}

\* A new command.  Its id need only be new; version and caller make it so.
Decide(c) ==
    /\ MayCall(c) /\ Cardinality(New(log)) < MaxCommands
    /\ \E body \in Bodies :
          /\ Wanted(c, body)
          /\ LET id == <<Len(log) + 1, c>> IN
             calls' = [calls EXCEPT ![c] =
                [id |-> id, key |-> <<id, 1>>, body |-> body, seen |-> Len(log)]]
    /\ UNCHANGED <<snapshot, saved, counters>>

\* The answer to a committed command was lost: its caller calls again.  (One
\* that was refused, or lost in a restart, is as good as a new one.)
Retry(c) ==
    /\ MayCall(c) /\ retries < MaxRetries
    /\ retries' = retries + 1
    /\ \E i \in New(log), k \in KeyVariants :
          /\ log[i].by = c
          /\ calls' = [calls EXCEPT ![c] =
                [id |-> log[i].id, key |-> <<log[i].id, k>>,
                 body |-> log[i].body, seen |-> Len(log)]]
    /\ UNCHANGED <<snapshot, saved, saves, crashes>>

-----------------------------------------------------------------------------
(* The handlers: transition_campaign and transition_agent, through the     *)
(* entry the instance uses.                                                *)

\* A bound key: the stored record must have the same text and role.  Equal
\* texts are equal bodies: a label ends in its event and no id is another's.
ReplaysIdempotently(c) ==
    LET r == calls[c] IN
    /\ r.key \in applied
    /\ \E i \in DOMAIN log :
          /\ log[i].key = r.key
          /\ log[i].id = r.id /\ log[i].body = r.body
          /\ log[i].actor = RoleOf[c]

\* A free key: the role, the table, a free event id and the version.
Commits(c) ==
    LET r == calls[c] IN
    /\ r.key \notin applied
    /\ RolePermits(RoleOf[c], agents, r.body)
    /\ Effect(campaign, agents, r.body) # {}
    /\ \A i \in DOMAIN log : log[i].id # r.id
    /\ r.seen = Len(log)

\* The role rule of transition_campaign precedes the key, that of
\* transition_agent follows it.
Answered(c) ==
    LET r == calls[c] IN
    /\ r # None /\ EntryAllows(c, r.body)
    /\ r.body.kind = "campaign" => CampaignPermitted(RoleOf[c], r.body.event)
    /\ ReplaysIdempotently(c)

\* commit_event.  `by' is history: the record has the role only.
Commit(c) ==
    LET r == calls[c] IN
    /\ r # None /\ EntryAllows(c, r.body) /\ Commits(c)
    /\ \E s \in Effect(campaign, agents, r.body) :
          campaign' = s[1] /\ agents' = s[2]
    /\ log' = Append(log, [id |-> r.id, key |-> r.key, actor |-> RoleOf[c],
                           body |-> r.body, by |-> c])
    /\ applied' = applied \cup {r.key}
    /\ calls' = [calls EXCEPT ![c] = None]
    /\ UNCHANGED <<saved, counters>>

ReplayIdempotent(c) ==
    /\ Answered(c)
    /\ calls' = [calls EXCEPT ![c] = None]
    /\ UNCHANGED <<snapshot, saved, counters>>

\* A context-bound entry also refuses whenever the caller's lease is outside
\* its window or does not list the action.
Refuse(c) ==
    /\ calls[c] # None
    /\ \/ calls[c].body.kind \notin RoleEntry
       \/ ~(EntryAllows(c, calls[c].body) /\ Commits(c)) /\ ~Answered(c)
    /\ calls' = [calls EXCEPT ![c] = None]
    /\ UNCHANGED <<snapshot, saved, counters>>

-----------------------------------------------------------------------------
(* The environment.                                                        *)

\* The snapshot is written out as a whole.
Save ==
    /\ saved # Snapshot /\ saves < MaxSaves
    /\ saved' = Snapshot /\ saves' = saves + 1
    /\ UNCHANGED <<snapshot, calls, retries, crashes>>

\* Mutant: the keys are not indexed again.
RestartForgettingKeys ==
    /\ crashes < MaxCrashes /\ Accepts(saved)
    /\ crashes' = crashes + 1
    /\ campaign' = saved.campaign /\ agents' = saved.agents
    /\ log' = saved.log /\ applied' = {}
    /\ calls' = [a \in Ids |-> None]
    /\ UNCHANGED <<saved, retries, saves>>

\* Mutant: the snapshot is put back under the callers' running calls.
RestartKeepingCalls ==
    /\ crashes < MaxCrashes /\ Accepts(saved)
    /\ crashes' = crashes + 1
    /\ campaign' = saved.campaign /\ agents' = saved.agents
    /\ log' = saved.log /\ applied' = {saved.log[i].key : i \in DOMAIN saved.log}
    /\ UNCHANGED <<saved, calls, retries, saves>>

\* The process dies with its callers' calls; from_snapshot rebuilds the rest.
Restart ==
    /\ crashes < MaxCrashes /\ Accepts(saved)
    /\ crashes' = crashes + 1
    /\ campaign' = saved.campaign /\ agents' = saved.agents
    /\ log' = saved.log /\ applied' = {saved.log[i].key : i \in DOMAIN saved.log}
    /\ calls' = [a \in Ids |-> None]
    /\ UNCHANGED <<saved, retries, saves>>

Acts(c) == Decide(c) \/ Retry(c) \/ Commit(c) \/ ReplayIdempotent(c) \/ Refuse(c)

Next == (\E c \in Ids : Acts(c)) \/ Save \/ Restart

Spec == Init /\ [][Next]_vars

-----------------------------------------------------------------------------
Agent == [role : Role, parent : {p.parent : p \in Profile},
          lease : {p.lease : p \in Profile}, state : AgentStates]

EventId == Nat \X (Ids \cup {None})
Record == [id : EventId, key : EventId \X (KeyVariants \cup {1}), actor : Role,
           body : Bodies \cup {Registration(p) : p \in Profile},
           by : Ids \cup {None}]

\* Type correctness of the snapshot and of the calls.
TypeOK ==
    /\ campaign \in CampaignStates
    /\ DOMAIN agents = Ids /\ \A a \in Ids : agents[a] \in Agent
    /\ log \in Seq(Record)
    /\ DOMAIN calls = Ids
    /\ \A c \in Ids : calls[c] # None =>
          calls[c].body \in Bodies /\ calls[c].seen \in 0..Len(log)
    /\ retries \in Nat /\ saves \in Nat /\ crashes \in Nat

\* The text of an event can be read back when its agent's id has no colon.
Readable(body) == body.kind = "agent" => Len(Name[body.agent]) = 1

(***************************************************************************)
(* A snapshot taken at any moment is accepted by from_snapshot, which      *)
(* reads every event back from its text and judges it a second time with   *)
(* tables of its own (replay_event), as long as no agent with a colon in   *)
(* its id has an event in the log.  With the first such event, which       *)
(* registration and the handlers let pass, the stored campaign is lost:    *)
(* split_once ends the id at its own colon.                                *)
(***************************************************************************)
SnapshotRestores ==
    Accepts(Snapshot) <=> \A i \in DOMAIN log : Readable(log[i].body)

(***************************************************************************)
(* A caller that repeats a committed event under its key is told that it   *)
(* is committed, whatever has happened since: other events, a restart, an  *)
(* outdated version, a state in which the event would be illegal.          *)
(***************************************************************************)
RetryIsAnswered ==
    \A c \in Ids :
        (/\ calls[c] # None /\ EntryAllows(c, calls[c].body)
         /\ \E i \in DOMAIN log : log[i].key = calls[c].key)
        => Answered(c)

\* The last round of the log: what follows its last approved plan.
LastPlan == CHOOSE i \in DOMAIN log :
    /\ log[i].body = CampaignBody("PlanApproved")
    /\ \A j \in i + 1..Len(log) : log[j].body # CampaignBody("PlanApproved")

\* Where in that round an event was raised by one of the roles.
InRound(e, roles) ==
    LET plan == LastPlan IN
    {i \in plan + 1..Len(log) :
        log[i].body = CampaignBody(e) /\ log[i].actor \in roles}

(***************************************************************************)
(* "a replay cannot turn a transport acknowledgement or queued attempt     *)
(* into an official score" (CampaignState::transition): a campaign with a  *)
(* score has, after its last plan and in this order, a Solver's transport, *)
(* the Chief's dispatch and an observer's score; a verified one a          *)
(* JudgeAnalyst's verdict after that, and a closed one a review after the  *)
(* verdict.                                                                *)
(***************************************************************************)
ScoreFollowsDispatch ==
    campaign \in {"Observed", "ScoreVerified", "ClosureReview", "Closed"} =>
        \E t \in InRound("TransportAccepted", {"Solver"}),
          d \in InRound("SubmissionDispatched", {"Chief"}),
          o \in InRound("ScoreObserved", {"Monitor", "JudgeAnalyst"}) :
            /\ t < d /\ d < o
            /\ campaign # "Observed" =>
                  \E v \in InRound("ScoreVerified", {"JudgeAnalyst"}) :
                      /\ o < v
                      /\ campaign = "Closed" =>
                            \E r \in InRound("ClosureReviewStarted", {"Chief"}) :
                                v < r

(***************************************************************************)
(* "so a sibling session cannot impersonate the same role": what agents    *)
(* say of themselves (waiting, handing off, crashed) was said by that very *)
(* agent.  The log cannot tell, it records a role.                         *)
(***************************************************************************)
SelfActionsAreOwn ==
    \A i \in DOMAIN log :
        (log[i].body.kind = "agent" /\ log[i].body.event \in SelfAction)
        => log[i].by \in {log[i].body.agent, None}

(***************************************************************************)
(* What the context-bound entry is for: an event that the Coordinator's    *)
(* role table permits to its caller, and that would be committed, is       *)
(* admitted under a lease that is in its window.                           *)
(***************************************************************************)
PermittedIsAdmitted ==
    \A c \in Ids :
        (/\ calls[c] # None /\ calls[c].body.kind = "campaign"
         /\ Commits(c))
        => EntryAllows(c, calls[c].body)

-----------------------------------------------------------------------------
(* The refinement.                                                         *)

Stage(s) ==
    CASE s \in {"New", "Intake", "Oriented", "Planned", "Replan"} -> "planning"
      [] s \in {"Executing", "EvidenceReady", "Preflight"} -> "executing"
      [] s \in {"Submitting", "AwaitingScore"} -> "submitted"
      [] s \in {"Observed", "ScoreVerified"} -> "scored"
      [] s = "ClosureReview" -> "closing"
      [] OTHER -> "over"

Done(events) == {events[i].id : i \in New(events)}

Promise == INSTANCE CampaignPromise WITH
    Commands <- Nat \X Ids,
    stage <- Stage(campaign),
    done <- Done(log),
    effects <- Len(log),
    kept <- [stage |-> Stage(saved.campaign), done |-> Done(saved.log),
             effects |-> Len(saved.log)]

(***************************************************************************)
(* The Coordinator implements CampaignPromise: with lost answers, retries  *)
(* under old and new keys, expiring leases and restarts, every command     *)
(* takes effect at most once and the stages come in order.                 *)
(***************************************************************************)
ImplementsPromise == Promise!Spec
=============================================================================
