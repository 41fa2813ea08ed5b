----------------------------- MODULE MCBackground -----------------------------
(* The four background jobs and the delta-dispatch swarm, which share no state: *)
(* a behaviour is one of the chasing runs, of the governance sweeps, of the    *)
(* SharePoint sync, of the Outlook poll or of the swarm.  Each job has two     *)
(* processes that overlap; tasks are due on day 0 or have no deadline; day 29  *)
(* is the last Friday of its month and day 22 is another; two projects have    *)
(* sprints of one title; a roster holds an agent that no executor is wired for *)
(* or one that is the scheduler's.                                             *)
EXTENDS Chasing, GovernanceSweep, SharePointSync, OutlookSync, DeltaDispatch

VARIABLE which   \* the component whose behaviour this is

TheTasks    == {"major", "minor"}
TheImpact   == [major |-> 8, minor |-> 2]
TheSeverity == [major |-> 5, minor |-> 2]

TheRoster  == << "p1", "p2" >>
TheSprints == {"s1", "s2"}
OwnProject == [s1 |-> "p1", s2 |-> "p2"]
SameTitle  == [s \in TheSprints |-> "sprint 1"]
TheDueDays == [s1 |-> 22, s2 |-> 28]

TheAgents  == {"radar", "clerk", "unwired", "auditor"}
TheWired   == {"radar", "clerk"}
TheRosters == {{"radar", "clerk", "unwired"}, {"clerk", "auditor"}, {"auditor"}}

MCInit ==
  /\ which \in {"chasing", "governance", "sharepoint", "outlook", "dispatch"}
  /\ ChasingInit /\ GovernanceInit /\ SharePointInit /\ OutlookInit /\ DispatchInit
  /\ which # "chasing" => deadline = [t \in Tasks |-> None]

MCNext ==
  \/ /\ which = "chasing" /\ ChasingNext
     /\ UNCHANGED << which, governanceVars, syncVars, outlookVars, dispatchVars >>
  \/ /\ which = "governance" /\ GovernanceNext
     /\ UNCHANGED << which, chasingVars, syncVars, outlookVars, dispatchVars >>
  \/ /\ which = "sharepoint" /\ SharePointNext
     /\ UNCHANGED << which, chasingVars, governanceVars, outlookVars, dispatchVars >>
  \/ /\ which = "outlook" /\ OutlookNext
     /\ UNCHANGED << which, chasingVars, governanceVars, syncVars, dispatchVars >>
  \/ /\ which = "dispatch" /\ DispatchNext
     /\ UNCHANGED << which, chasingVars, governanceVars, syncVars, outlookVars >>

\* The fairness of the component that runs: a sweep or a sync could be started in
\* the initial state of one that does not, a chasing run or a poll could not.
MCSpec ==
  /\ MCInit
  /\ [][MCNext]_<< which, chasingVars, governanceVars, syncVars, outlookVars, dispatchVars >>
  /\ ChasingFairness
  /\ OutlookFairness
  /\ \A x \in Sweepers : WF_governanceVars(which = "governance" /\ RunSweep(x))
  /\ \A x \in Syncs : WF_syncVars(which = "sharepoint" /\ RunSync(x))
-----------------------------------------------------------------------------
\* The state of the chasing runs, of the syncs, of the polls and of the swarm keeps
\* its shape, whichever order their steps are taken in (chasing_engine.py,
\* core/sharepoint_sync.py, core/outlook_sync.py, core/workflow.py).
JobsTypeOK == ChasingTypeOK /\ SharePointTypeOK /\ OutlookTypeOK /\ DispatchTypeOK
=============================================================================
