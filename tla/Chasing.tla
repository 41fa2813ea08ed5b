------------------------------- MODULE Chasing -------------------------------
(***************************************************************************)
(* Dynamic chasing: chasing_engine.py, the daily sweep of                  *)
(* core/scheduler.py and the chasing graph (chasing_graph.py), which score *)
(* the open tasks of one project, send a message for each that is due, the *)
(* highest score first, and stamp the task's last contact.  Nothing locks  *)
(* the tasks: the scheduler runs in every API process, the graph in its    *)
(* own, and the graph awaits the LLM between two tasks.                    *)
(*                                                                         *)
(* External: the clock, those who create and close tasks, the LLM.         *)
(*                                                                         *)
(* Left out: the CHASE_SUPPRESSED events of the tasks that are not due,    *)
(* for which the graph scores the tasks a second time: nothing reads them  *)
(* back here.                                                              *)
(***************************************************************************)
EXTENDS Integers

CONSTANTS
  Tasks, NoTask,
  Impact, Severity,     \* of each task, 1..10: tasks' columns
  DeadlineDays, None,   \* days on which a task may be due; no deadline, never
  Sweeps, Graphs,       \* processes that run the daily sweep; the chasing graph
  HoursPerTick, MaxTicks, MaxChaseFaults   \* bounds

ASSUME ChasingConstants ==
  /\ NoTask \notin Tasks
  /\ DeadlineDays \subseteq Nat /\ None \notin Int
  /\ Impact \in [Tasks -> 1..10] /\ Severity \in [Tasks -> 1..10]
  /\ HoursPerTick \in Nat \ {0} /\ MaxTicks \in Nat /\ MaxChaseFaults \in Nat

VARIABLES
  clock,         \* hours
  deadline,      \* the day of each task's deadline, None without one
  contact,       \* last_contact_timestamp of each task, None if never
  status,        \* of each task
  chaser,        \* the sweeps and the graph's runs
  last,          \* when the last message for each task was sent: history
  chaseFaults

chasingVars == << clock, deadline, contact, status, chaser, last, chaseFaults >>

Chasers == Sweeps \cup Graphs
Hours   == 0..(HoursPerTick * MaxTicks)

\* "score" holds what the run has read and not chased yet, "seen" the last
\* contact it was computed from; a task of score 0 is not chased.
Chaser ==
  [ at : {"idle", "chasing", "stamping"}, task : Tasks \cup {NoTask},
    score : [Tasks -> Int], seen : [Tasks -> Hours \cup {None}] ]

IdleChaser ==
  [ at |-> "idle", task |-> NoTask,
    score |-> [t \in Tasks |-> 0], seen |-> [t \in Tasks |-> None] ]

ChasingTypeOK ==
  /\ clock \in Hours
  /\ deadline \in [Tasks -> DeadlineDays \cup {None}]
  /\ contact \in [Tasks -> Hours \cup {None}]
  /\ status \in [Tasks -> {"absent", "open", "closed"}]
  /\ chaser \in [Chasers -> Chaser]
  /\ last \in [Tasks -> Hours \cup {None}]
  /\ chaseFaults \in 0..MaxChaseFaults

ChasingInit ==
  /\ clock = 0
  /\ deadline \in [Tasks -> DeadlineDays \cup {None}]
  /\ contact = [t \in Tasks |-> None]
  /\ status = [t \in Tasks |-> "absent"]
  /\ chaser = [x \in Chasers |-> IdleChaser]
  /\ last = [t \in Tasks |-> None]
  /\ chaseFaults = 0

-----------------------------------------------------------------------------
(* The score.                                                               *)

never_contacted_hours   == 24 * 3650
no_deadline_days        == 365

hours_since_last_contact(t) ==
  IF contact[t] = None THEN never_contacted_hours ELSE clock - contact[t]

\* timedelta.days rounds down: on the day itself it is already -1.
days_to_deadline(t) ==
  IF deadline[t] = None THEN no_deadline_days ELSE (24 * deadline[t] - clock) \div 24

Unbounded(days) == 10 - days
proximity_multiplier(days) == IF 10 - days > 1 THEN 10 - days ELSE 1

HalfADay(hours) == hours < 12
InCooldown(hours) == hours < 24

\* Ten times the source's score, which has one decimal.
chasing_score(t) ==
  IF InCooldown(hours_since_last_contact(t)) THEN 0
  ELSE (15 * Impact[t] + 12 * Severity[t]) * proximity_multiplier(days_to_deadline(t))

-----------------------------------------------------------------------------
(* A run.                                                                   *)

score_active_tasks(x) ==
  /\ chaser[x].at = "idle"
  /\ LET due == {t \in Tasks : status[t] = "open" /\ chasing_score(t) # 0}
     IN /\ due # {}
        /\ chaser' = [chaser EXCEPT ![x] =
             [ at |-> "chasing", task |-> NoTask,
               score |-> [t \in Tasks |-> IF t \in due THEN chasing_score(t) ELSE 0],
               seen  |-> [t \in Tasks |-> IF t \in due THEN contact[t] ELSE None] ]]
  /\ UNCHANGED << clock, deadline, contact, status, last, chaseFaults >>

Todo(x) == {t \in Tasks : chaser[x].score[t] # 0}

\* Tasks of one score are in the database's order, which is any order.
First(x, t) ==
  t \in Todo(x) /\ \A u \in Todo(x) : chaser[x].score[u] <= chaser[x].score[t]

\* The graph drafts the message first.  CHASE_SENT is published; that the bus
\* may lose it changes nothing here.
SendChase(x, t) ==
  /\ chaser[x].at = "chasing"
  /\ First(x, t)
  /\ last' = [last EXCEPT ![t] = clock]
  /\ chaser' = [chaser EXCEPT ![x].at = "stamping", ![x].task = t,
                              ![x].score[t] = 0, ![x].seen[t] = None]
  /\ UNCHANGED << clock, deadline, contact, status, chaseFaults >>

ChaseFault == chaseFaults < MaxChaseFaults /\ chaseFaults' = chaseFaults + 1

Unstamped(t) == contact
AheadOfUs(t) == [contact EXCEPT ![t] = clock + HoursPerTick]
mark_task_contacted(t) == [contact EXCEPT ![t] = clock]

AfterTask(x) ==
  chaser' = [chaser EXCEPT ![x] =
               IF Todo(x) = {} THEN IdleChaser ELSE [@ EXCEPT !.at = "chasing", !.task = NoTask]]

\* A stamp that fails is logged and the run goes on.
Stamp(x) ==
  /\ chaser[x].at = "stamping"
  /\ \/ contact' = mark_task_contacted(chaser[x].task) /\ UNCHANGED chaseFaults
     \/ ChaseFault /\ UNCHANGED contact
  /\ AfterTask(x)
  /\ UNCHANGED << clock, deadline, status, last >>

\* The process stops, or the LLM's exception ends the graph's run: the tasks
\* that were left are not chased.
ChaserStops(x) ==
  /\ chaser[x].at # "idle"
  /\ ChaseFault
  /\ chaser' = [chaser EXCEPT ![x] = IdleChaser]
  /\ UNCHANGED << clock, deadline, contact, status, last >>

TimePasses ==
  /\ clock + HoursPerTick \in Hours
  /\ clock' = clock + HoursPerTick
  /\ UNCHANGED << deadline, contact, status, chaser, last, chaseFaults >>

TaskIsCreated(t) ==
  /\ status[t] = "absent"
  /\ status' = [status EXCEPT ![t] = "open"]
  /\ UNCHANGED << clock, deadline, contact, chaser, last, chaseFaults >>

TaskCloses(t) ==
  /\ status[t] = "open"
  /\ status' = [status EXCEPT ![t] = "closed"]
  /\ UNCHANGED << clock, deadline, contact, chaser, last, chaseFaults >>

RunChaser(x) ==
  score_active_tasks(x) \/ (\E t \in Tasks : SendChase(x, t)) \/ Stamp(x)

ChasingNext ==
  \/ TimePasses
  \/ \E t \in Tasks : TaskIsCreated(t) \/ TaskCloses(t)
  \/ \E x \in Chasers : RunChaser(x) \/ ChaserStops(x)

ChasingSpec == ChasingInit /\ [][ChasingNext]_chasingVars

\* The sweep is started every day; nothing starts the graph.
ChasingFairness == \A x \in Sweeps : WF_chasingVars(RunChaser(x))
-----------------------------------------------------------------------------
(* Correctness.                                                             *)

Sends(x, t) == chaser[x].at = "chasing" /\ chaser'[x].at = "stamping" /\ chaser'[x].task = t

\* Nobody is chased for a task twice in 24 hours by runs that could know of the
\* first message: the second one had read the task before the first was stamped,
\* or the stamp had failed.
CooldownUnlessUnseen ==
  [][ \A x \in Chasers, t \in Tasks :
        Sends(x, t) /\ last[t] # None =>
          \/ clock - last[t] >= 24
          \/ chaser[x].seen[t] # last[t] ]_chasingVars

\* A task is never chased before one that the run has still to chase and that
\* matters more, is riskier and is due earlier, overdue tasks and tasks with no
\* or a far deadline included.
SoonerThan(u, t) == deadline[u] # None /\ (deadline[t] = None \/ deadline[u] < deadline[t])

Dominates(u, t) ==
  /\ Impact[u] >= Impact[t] /\ Severity[u] >= Severity[t]
  /\ deadline[u] = deadline[t] \/ SoonerThan(u, t)
  /\ Impact[u] > Impact[t] \/ Severity[u] > Severity[t]

UrgentFirst ==
  [][ \A x \in Chasers, t \in Tasks :
        Sends(x, t) => ~ \E u \in Todo(x) : Dominates(u, t) ]_chasingVars

\* Each open task that nobody was contacted about for a day is chased and
\* stamped at last, through crashes, failing stamps and overlapping runs, and
\* however far or long past its deadline is: in a project that stays on the
\* roster.  list_active_projects leaves those of a tenant out that is not
\* active (a suspended one, say), and nobody chases their tasks meanwhile.
Due(t) == status[t] = "open" /\ (contact[t] = None \/ clock - contact[t] >= 24)

DueTasksGetChased == \A t \in Tasks : Due(t) ~> ~Due(t)
=============================================================================
