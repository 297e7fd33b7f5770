---------------------------- MODULE MCCoordinator ----------------------------
(***************************************************************************)
(* Instances of Coordinator: a Chief, two Solvers that are siblings, and a *)
(* JudgeAnalyst, registered in that order.  The id of the second Solver    *)
(* has a colon in it.                                                      *)
(***************************************************************************)
EXTENDS Coordinator

CONSTANTS chief, solver1, solver2, judge

MCBoot ==
    <<[id |-> chief, role |-> "Chief", parent |-> None, lease |-> None],
      [id |-> solver1, role |-> "Solver", parent |-> chief, lease |-> 1],
      [id |-> solver2, role |-> "Solver", parent |-> chief, lease |-> 2],
      [id |-> judge, role |-> "JudgeAnalyst", parent |-> chief, lease |-> 3]>>

MCName ==
    [a \in Ids |-> CASE a = chief -> <<"chief">>
                     [] a = solver1 -> <<"solver1">>
                     [] a = solver2 -> <<"solver", "2">>
                     [] OTHER -> <<"judge">>]

\* One solver's work, and a brief for the other.
MCOrders ==
    {solver1} \X (AgentEvents \ {"WaitScore", "Abort"})
        \cup {<<solver2, "Brief">>}

Raised(actor, e) == [actor |-> actor, body |-> CampaignBody(e)]
Told(e) == [actor |-> "Chief", body |-> AgentBody(solver1, e)]

\* Solver 1 is at work and the campaign is executing.
AtWork ==
    <<Raised("Chief", "IntakeAccepted"), Raised("Chief", "VerifierFrozen"),
      Raised("Chief", "PlanApproved"), Raised("Chief", "ExecutionStarted"),
      Told("Brief"), Told("Activate")>>

\* Its submission is about to be sent.
Ready == AtWork \o
    <<Raised("Solver", "EvidenceReady"), Raised("Chief", "PreflightPassed")>>

\* Its score has been observed.
Scored == Ready \o
    <<Raised("Solver", "TransportAccepted"),
      Raised("Chief", "SubmissionDispatched"),
      Raised("JudgeAnalyst", "ScoreObserved")>>

MCPasts == {<<>>, Ready, Scored}
=============================================================================
