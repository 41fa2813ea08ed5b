---------------------------- MODULE GovernanceSweep ----------------------------
(***************************************************************************)
(* The governance sweeps of core/scheduler.py: for each project the        *)
(* auditor's stamp, on the month's last Friday the end-of-month action,    *)
(* and an action for each sprint past its due date.  Every API process     *)
(* runs the sweep daily, and anything may run it again.  Each database     *)
(* session is a step of its own.                                           *)
(*                                                                         *)
(* Days are numbered from 1 January of a year of 365 days that begins on a *)
(* Friday, as 2027 does; the model's calendar ends with February.          *)
(*                                                                         *)
(* External: the calendar, those who close sprints, PostgreSQL.  The       *)
(* projects' tenants stay active.                                          *)
(***************************************************************************)
EXTENDS Integers, Sequences

CONSTANTS
  Roster,                  \* list_active_projects: oldest first
  Sprints,                 \* pmo_artifacts of type SPRINT
  ProjectOf, Title, DueOn, \* of each sprint: its columns
  Sweepers,                \* processes that run the sweep
  Days,                    \* bound: the days there are
  NoAction,
  MaxSweepFaults           \* bound: exceptions, crashes and lost events

Projects == {Roster[k] : k \in DOMAIN Roster}

ASSUME GovernanceConstants ==
  /\ Roster \in Seq(Projects) /\ Roster # << >>
  /\ ProjectOf \in [Sprints -> Projects]
  /\ Days \subseteq 1..59 /\ Days # {}
  /\ DueOn \in [Sprints -> Nat]
  /\ MaxSweepFaults \in Nat

VARIABLES
  today,
  sprintOpen,          \* sprints whose status is not a closed one
  eom_checkpoint_day,  \* of each project, 0 before the first audit
  actions,             \* committed ACTION rows
  announced,           \* RAID_ARTIFACT_WRITTEN events, and who published them
  sweep,               \* the runs
  sweepFaults

governanceVars ==
  << today, sprintOpen, eom_checkpoint_day, actions, announced, sweep, sweepFaults >>

-----------------------------------------------------------------------------
(* The calendar and the keys.                                               *)

MonthEnd(day)   == IF day <= 31 THEN 31 ELSE 59
Month(day)      == IF day <= 31 THEN 1 ELSE 2
DayOfMonth(day) == IF day <= 31 THEN day ELSE day - 31
weekday(day)    == (day + 3) % 7            \* Monday is 0

ThursdayBefore(day) == MonthEnd(day) - ((weekday(MonthEnd(day)) - 3) % 7)
last_friday_of_month(day) == MonthEnd(day) - ((weekday(MonthEnd(day)) - 4) % 7)

\* deterministic_artifact_id: the key is a hash of the seed, with the period.
Id == [seed : Projects \cup {Title[s] : s \in Sprints}, period : 0..2]

EomId(p, day)   == [seed |-> p, period |-> Month(day)]
OverdueId(s)    == [seed |-> Title[s], period |-> 0]

-----------------------------------------------------------------------------
(* State.                                                                   *)

\* "k" is the project's place in the roster, "todo" the actions to upsert of
\* the current job, "id" the one whose upsert is going on.
Sweep ==
  [ at : {"idle", "audit", "eom", "watchdog", "insert", "publish"},
    day : Days, k : DOMAIN Roster, job : {"eom", "watchdog"},
    todo : SUBSET Id, id : Id \cup {NoAction} ]

IdleSweep ==
  [ at |-> "idle", day |-> CHOOSE d \in Days : TRUE, k |-> 1, job |-> "eom",
    todo |-> {}, id |-> NoAction ]

Action == [id : Id, project : Projects]

GovernanceTypeOK ==
  /\ today \in Days
  /\ sprintOpen \subseteq Sprints
  /\ eom_checkpoint_day \in [Projects -> 0..31]
  /\ actions \subseteq Action
  /\ \A a, b \in actions : a.id = b.id => a = b
  /\ announced \subseteq [by : Sweepers, id : Id]
  /\ sweep \in [Sweepers -> Sweep]
  /\ sweepFaults \in 0..MaxSweepFaults

GovernanceInit ==
  /\ today \in Days /\ \A d \in Days : today <= d
  /\ sprintOpen = Sprints
  /\ eom_checkpoint_day = [p \in Projects |-> 0]
  /\ actions = {}
  /\ announced = {}
  /\ sweep = [x \in Sweepers |-> IdleSweep]
  /\ sweepFaults = 0

-----------------------------------------------------------------------------
(* The environment.                                                         *)

DayPasses ==
  /\ \E d \in Days : d > today /\ today' = d
  /\ UNCHANGED << sprintOpen, eom_checkpoint_day, actions, announced, sweep, sweepFaults >>

SprintCloses(s) ==
  /\ s \in sprintOpen
  /\ sprintOpen' = sprintOpen \ {s}
  /\ UNCHANGED << today, eom_checkpoint_day, actions, announced, sweep, sweepFaults >>

SweepFault == sweepFaults < MaxSweepFaults /\ sweepFaults' = sweepFaults + 1

-----------------------------------------------------------------------------
(* run_cron_governance_sweeps.                                              *)

ProjectAt(x) == Roster[sweep[x].k]

\* The day is read once, when the run starts.
StartSweep(x) ==
  /\ sweep[x].at = "idle"
  /\ sweep' = [sweep EXCEPT ![x].at = "audit", ![x].day = today]
  /\ UNCHANGED << today, sprintOpen, eom_checkpoint_day, actions, announced, sweepFaults >>

NextProject(x) ==
  IF sweep[x].k = Len(Roster) THEN IdleSweep
  ELSE [IdleSweep EXCEPT !.at = "audit", !.day = sweep[x].day, !.k = sweep[x].k + 1]

_run_governance_auditor(x) ==
  /\ sweep[x].at = "audit"
  /\ eom_checkpoint_day' =
       [eom_checkpoint_day EXCEPT ![ProjectAt(x)] = DayOfMonth(last_friday_of_month(sweep[x].day))]
  /\ sweep' = [sweep EXCEPT ![x].at = "eom",
                            ![x].todo = IF sweep[x].day = last_friday_of_month(sweep[x].day)
                                        THEN {EomId(ProjectAt(x), sweep[x].day)} ELSE {}]
  /\ UNCHANGED << today, sprintOpen, actions, announced, sweepFaults >>

DueYesterday(p, day) == {s \in sprintOpen : ProjectOf[s] = p /\ DueOn[s] = day - 1}
Overdue(p, day) == {s \in sprintOpen : ProjectOf[s] = p /\ DueOn[s] < day}

\* The watchdog's reading, after the end-of-month job.
_run_sprint_watchdog(x) ==
  /\ sweep[x].at = "eom"
  /\ sweep[x].todo = {}
  /\ sweep' = [sweep EXCEPT
       ![x].at = "watchdog", ![x].job = "watchdog",
       ![x].todo = {OverdueId(s) : s \in Overdue(ProjectAt(x), sweep[x].day)}]
  /\ UNCHANGED << today, sprintOpen, eom_checkpoint_day, actions, announced, sweepFaults >>

\* session.get of _upsert_action: a row that is there needs no event.
Unchecked(id) == FALSE
HasRow(id) == \E a \in actions : a.id = id

CheckAction(x) ==
  /\ sweep[x].at \in {"eom", "watchdog"}
  /\ \E id \in sweep[x].todo :
       sweep' = [sweep EXCEPT
         ![x] = IF HasRow(id) THEN [sweep[x] EXCEPT !.todo = sweep[x].todo \ {id}]
                ELSE [sweep[x] EXCEPT !.at = "insert", !.id = id]]
  /\ UNCHANGED << today, sprintOpen, eom_checkpoint_day, actions, announced, sweepFaults >>

\* ON CONFLICT DO NOTHING: a row that another process has put there meanwhile
\* is kept, and the caller is told that it wrote one.
PlainInsert(row) == actions \cup {row}
on_conflict_do_nothing(row) ==
  IF \E a \in actions : a.id = row.id THEN actions ELSE actions \cup {row}

InsertAction(x) ==
  /\ sweep[x].at = "insert"
  /\ actions' = on_conflict_do_nothing([id |-> sweep[x].id, project |-> ProjectAt(x)])
  /\ sweep' = [sweep EXCEPT ![x].at = "publish"]
  /\ UNCHANGED << today, sprintOpen, eom_checkpoint_day, announced, sweepFaults >>

\* The event may be lost: record_ingress_event then returns False, unread.
_publish_raid_written(x) ==
  /\ sweep[x].at = "publish"
  /\ \/ announced' = announced \cup {[by |-> x, id |-> sweep[x].id]} /\ UNCHANGED sweepFaults
     \/ SweepFault /\ UNCHANGED announced
  /\ sweep' = [sweep EXCEPT ![x].at = sweep[x].job, ![x].todo = @ \ {sweep[x].id},
                            ![x].id = NoAction]
  /\ UNCHANGED << today, sprintOpen, eom_checkpoint_day, actions >>

ProjectDone(x) ==
  /\ sweep[x].at = "watchdog"
  /\ sweep[x].todo = {}
  /\ sweep' = [sweep EXCEPT ![x] = NextProject(x)]
  /\ UNCHANGED << today, sprintOpen, eom_checkpoint_day, actions, announced, sweepFaults >>

\* An exception ends the work on one project only.
ProjectFails(x) ==
  /\ sweep[x].at \in {"audit", "eom", "watchdog", "insert"}
  /\ SweepFault
  /\ sweep' = [sweep EXCEPT ![x] = NextProject(x)]
  /\ UNCHANGED << today, sprintOpen, eom_checkpoint_day, actions, announced >>

SweepStops(x) ==
  /\ sweep[x].at # "idle"
  /\ SweepFault
  /\ sweep' = [sweep EXCEPT ![x] = IdleSweep]
  /\ UNCHANGED << today, sprintOpen, eom_checkpoint_day, actions, announced >>

RunSweep(x) ==
  \/ StartSweep(x) \/ _run_governance_auditor(x) \/ _run_sprint_watchdog(x)
  \/ CheckAction(x) \/ InsertAction(x) \/ _publish_raid_written(x) \/ ProjectDone(x)

GovernanceNext ==
  \/ DayPasses
  \/ \E s \in Sprints : SprintCloses(s)
  \/ \E x \in Sweepers : RunSweep(x) \/ ProjectFails(x) \/ SweepStops(x)

GovernanceSpec == GovernanceInit /\ [][GovernanceNext]_governanceVars

\* The scheduler starts a run of each process every day.
GovernanceFairness == \A x \in Sweepers : WF_governanceVars(RunSweep(x))
-----------------------------------------------------------------------------
(* Correctness.                                                             *)

\* However often the sweep runs again, over restarts and next to the sweeps of
\* other processes, one process announces an action at most once; two announce
\* the same one only when neither had found the other's row.
AnnouncedOncePerProcess ==
  [][ \A x \in Sweepers :
        sweep[x].at = "publish" /\ sweep'[x].at \in {"eom", "watchdog"} =>
          [by |-> x, id |-> sweep[x].id] \notin announced ]_governanceVars

\* The end-of-month action is written on the month's last Friday and on no other
\* day, and a run of that day goes on to the sprints only when it is there.
Written(id) == \E a \in actions : a.id = id

LastFriday(day) ==
  /\ weekday(day) = 4
  /\ \A d \in day + 1..MonthEnd(day) : weekday(d) # 4

EomOnLastFriday ==
  [][ \A x \in Sweepers :
        /\ sweep[x].at = "insert" /\ sweep[x].job = "eom" /\ actions' # actions =>
             LastFriday(sweep[x].day)
        /\ sweep[x].at = "eom" /\ sweep'[x].at = "watchdog" /\ LastFriday(sweep[x].day) =>
             Written(EomId(ProjectAt(x), sweep[x].day)) ]_governanceVars

\* A sprint that is past its due date and still open gets its action at last,
\* although runs fail, stop and leave projects out.  (Sprints of one title share
\* the action, whichever project they are of.)
NeedsAction(s) == s \in sprintOpen /\ DueOn[s] < today

SprintsGetActions ==
  \A s \in Sprints : NeedsAction(s) ~> Written(OverdueId(s)) \/ s \notin sprintOpen
=============================================================================
