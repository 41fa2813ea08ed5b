------------------------ MODULE GovernanceSweepProofs ------------------------
(***************************************************************************)
(* Proofs about the governance sweeps: type correctness and the one row    *)
(* per id, that a process announces an action at most once, and that the   *)
(* end-of-month action is written on the last Friday, for any roster, any  *)
(* sprints and any number of processes and runs.                           *)
(***************************************************************************)
EXTENDS GovernanceSweep, TLAPS

-----------------------------------------------------------------------------
(* The calendar.                                                            *)

\* The last Fridays of the two months are the 29th and the 57th day of the year.
LEMMA LastFridays ==
  ASSUME NEW day \in 1..59
  PROVE  last_friday_of_month(day) = IF day <= 31 THEN 29 ELSE 57
<1>1. weekday(31) = 6 /\ weekday(59) = 6
  BY DEF weekday
<1>2. (6 - 4) % 7 = 2
  OBVIOUS
<1> QED BY <1>1, <1>2 DEF last_friday_of_month, MonthEnd

\* last_friday_of_month finds the Friday that no Friday of its month follows.
LEMMA LastFridayFound ==
  ASSUME NEW day \in 1..59
  PROVE  LastFriday(day) <=> day = last_friday_of_month(day)
<1>1. CASE day <= 31
  <2>1. /\ weekday(29) = 4 /\ weekday(30) = 5 /\ weekday(31) = 6
    BY DEF weekday
  <2>2. LastFriday(day) => day = 29
    <3>1. day < 29 => 29 \in day + 1..MonthEnd(day)
      BY <1>1 DEF MonthEnd
    <3>2. ~ (day < 29) => day \in {29, 30, 31}
      BY <1>1
    <3> QED BY <2>1, <3>1, <3>2 DEF LastFriday
  <2>3. day = 29 => LastFriday(day)
    <3>1. \A d \in 30..31 : d = 30 \/ d = 31
      OBVIOUS
    <3> QED BY <1>1, <2>1, <3>1 DEF LastFriday, MonthEnd
  <2> QED BY <1>1, <2>2, <2>3, LastFridays
<1>2. CASE day > 31
  <2>1. /\ weekday(57) = 4 /\ weekday(58) = 5 /\ weekday(59) = 6
    BY DEF weekday
  <2>2. LastFriday(day) => day = 57
    <3>1. day < 57 => 57 \in day + 1..MonthEnd(day)
      BY <1>2 DEF MonthEnd
    <3>2. ~ (day < 57) => day \in {57, 58, 59}
      BY <1>2
    <3> QED BY <2>1, <3>1, <3>2 DEF LastFriday
  <2>3. day = 57 => LastFriday(day)
    <3>1. \A d \in 58..59 : d = 58 \/ d = 59
      OBVIOUS
    <3> QED BY <1>2, <2>1, <3>1 DEF LastFriday, MonthEnd
  <2> QED BY <1>2, <2>2, <2>3, LastFridays
<1> QED BY <1>1, <1>2

\* The keys of end-of-month and overdue actions are action ids.
LEMMA KeysTyped ==
  /\ \A p \in Projects, day \in 1..59 : EomId(p, day) \in Id
  /\ \A s \in Sprints : OverdueId(s) \in Id
BY DEF EomId, OverdueId, Id, Month

-----------------------------------------------------------------------------
(* The invariant.                                                           *)

OwnEomId(s) == EomId(Roster[s.k], s.day)
HasRowIn(id, rows) == \E a \in rows : a.id = id

\* What is true of run s of process x when these rows are committed and these
\* events are published: the action it is about to write or to announce is one
\* of its job's, not announced by x yet, and to announce only when it has a row;
\* the end-of-month job has its project's one action on the last Friday, and
\* none on another day, and is not done with it before it has a row.
RunOk(x, s, rows, events) ==
  /\ s \in Sweep
  /\ s.at \in {"insert", "publish"} => s.id \in s.todo /\ [by |-> x, id |-> s.id] \notin events
  /\ s.at = "publish" => HasRowIn(s.id, rows)
  /\ s.at \in {"idle", "audit"} => s.job = "eom" /\ s.todo = {}
  /\ s.at \in {"eom", "watchdog"} => s.job = s.at
  /\ s.job = "eom" /\ s.todo # {} => LastFriday(s.day) /\ s.todo = {OwnEomId(s)}
  /\ s.job = "eom" /\ s.at \notin {"idle", "audit"} /\ LastFriday(s.day) =>
       OwnEomId(s) \in s.todo \/ HasRowIn(OwnEomId(s), rows)

GovernanceInv ==
  /\ GovernanceTypeOK
  /\ \A x \in Sweepers : RunOk(x, sweep[x], actions, announced)
  /\ \A e \in announced : HasRowIn(e.id, actions)

\* Rows are only added, and another process's events do not concern the run.
LEMMA RunStaysOk ==
  ASSUME NEW x, NEW s, NEW rows, NEW events, RunOk(x, s, rows, events),
         NEW rows2, NEW events2, rows \subseteq rows2,
         \A e \in events2 \ events : e.by # x
  PROVE  RunOk(x, s, rows2, events2)
BY DEF RunOk, HasRowIn

\* A step of one run.
LEMMA RunStep ==
  ASSUME GovernanceInv, NEW x \in Sweepers, NEW s,
         sweep' = [sweep EXCEPT ![x] = s],
         RunOk(x, s, actions', announced'),
         actions \subseteq actions', actions' \subseteq Action,
         \A a, b \in actions' : a.id = b.id => a = b,
         announced \subseteq announced',
         \A e \in announced' \ announced :
           e \in [by : {x}, id : Id] /\ HasRowIn(e.id, actions'),
         eom_checkpoint_day' \in [Projects -> 0..31],
         sweepFaults' \in 0..MaxSweepFaults,
         UNCHANGED << today, sprintOpen >>
  PROVE  GovernanceInv'
<1>1. s \in Sweep
  BY DEF RunOk
<1>2. announced' \subseteq [by : Sweepers, id : Id]
  BY DEF GovernanceInv, GovernanceTypeOK
<1>3. GovernanceTypeOK'
  BY <1>1, <1>2 DEF GovernanceInv, GovernanceTypeOK
<1>4. ASSUME NEW y \in Sweepers
      PROVE  RunOk(y, sweep'[y], actions', announced')
  <2>1. CASE y = x
    BY <2>1 DEF GovernanceInv, GovernanceTypeOK
  <2>2. CASE y # x
    <3>1. sweep'[y] = sweep[y]
      BY <2>2 DEF GovernanceInv, GovernanceTypeOK
    <3>2. \A e \in announced' \ announced : e.by # y
      BY <2>2
    <3>3. RunOk(y, sweep[y], actions, announced)
      BY DEF GovernanceInv
    <3> QED BY <3>1, <3>2, <3>3, RunStaysOk
  <2> QED BY <2>1, <2>2
<1>5. \A e \in announced' : HasRowIn(e.id, actions')
  BY DEF GovernanceInv, HasRowIn
<1>6. \A y \in Sweepers : RunOk(y, sweep[y], actions, announced)'
  BY <1>4 DEF RunOk, HasRowIn
<1> QED BY <1>3, <1>5, <1>6 DEF GovernanceInv, HasRowIn

\* A step of one run that touches no tables.
LEMMA QuietStep ==
  ASSUME GovernanceInv, NEW x \in Sweepers, NEW s,
         sweep' = [sweep EXCEPT ![x] = s],
         RunOk(x, s, actions, announced),
         sweepFaults' \in 0..MaxSweepFaults,
         UNCHANGED << today, sprintOpen, eom_checkpoint_day, actions, announced >>
  PROVE  GovernanceInv'
<1>1. RunOk(x, s, actions', announced')
  BY DEF RunOk, HasRowIn
<1> QED BY <1>1, RunStep DEF GovernanceInv, GovernanceTypeOK

\* An idle run, and one that begins with a project, have nothing to do yet.
LEMMA IdleOk ==
  ASSUME NEW x, NEW rows, NEW events
  PROVE  RunOk(x, IdleSweep, rows, events)
<1>1. (CHOOSE d \in Days : TRUE) \in Days
  BY GovernanceConstants
<1>2. 1 \in DOMAIN Roster
  BY GovernanceConstants
<1>3. IdleSweep \in Sweep
  BY <1>1, <1>2 DEF IdleSweep, Sweep
<1> QED BY <1>3 DEF RunOk, IdleSweep

\* A run that starts a project holds nothing of it yet.
LEMMA AuditOk ==
  ASSUME NEW x, NEW rows, NEW events, NEW day \in Days, NEW k \in DOMAIN Roster
  PROVE  RunOk(x, [IdleSweep EXCEPT !.at = "audit", !.day = day, !.k = k], rows, events)
<1>1. IdleSweep \in Sweep
  BY IdleOk DEF RunOk
<1> QED BY <1>1 DEF RunOk, IdleSweep, Sweep

\* What follows a project is the next one, or the end.
LEMMA NextProjectOk ==
  ASSUME NEW x, sweep[x] \in Sweep, NEW rows, NEW events
  PROVE  RunOk(x, NextProject(x), rows, events)
<1>1. CASE sweep[x].k = Len(Roster)
  BY <1>1, IdleOk DEF NextProject
<1>2. CASE sweep[x].k # Len(Roster)
  <2>1. sweep[x].k + 1 \in DOMAIN Roster /\ sweep[x].day \in Days
    BY <1>2, GovernanceConstants DEF Sweep
  <2> QED BY <1>2, <2>1, AuditOk DEF NextProject
<1> QED BY <1>1, <1>2

-----------------------------------------------------------------------------
(* Each step keeps the invariant.                                           *)

\* A failure of a run stays within the bound.
LEMMA FaultTyped ==
  ASSUME sweepFaults \in 0..MaxSweepFaults, SweepFault
  PROVE  sweepFaults' \in 0..MaxSweepFaults
BY GovernanceConstants DEF SweepFault

\* At first nothing is announced, remembered or running.
LEMMA GovernanceInitInv == GovernanceInit => GovernanceInv
<1> SUFFICES ASSUME GovernanceInit PROVE GovernanceInv
  OBVIOUS
<1>1. IdleSweep \in Sweep
  BY IdleOk DEF RunOk
<1>2. GovernanceTypeOK
  BY <1>1, GovernanceConstants DEF GovernanceInit, GovernanceTypeOK
<1> QED BY <1>2, IdleOk DEF GovernanceInit, GovernanceInv

\* Every step of the calendar, a run or a failure keeps the invariant.
LEMMA GovernanceNextInv ==
  GovernanceInv /\ [GovernanceNext]_governanceVars => GovernanceInv'
<1> SUFFICES ASSUME GovernanceInv, [GovernanceNext]_governanceVars PROVE GovernanceInv'
  OBVIOUS
<1>t. GovernanceTypeOK
  BY DEF GovernanceInv
<1>s. \A x \in Sweepers : sweep[x] \in Sweep /\ RunOk(x, sweep[x], actions, announced)
  BY DEF GovernanceInv, GovernanceTypeOK
<1>d. Days \subseteq 1..59 /\ \A k \in DOMAIN Roster : Roster[k] \in Projects
  BY GovernanceConstants DEF Projects
<1>1. CASE DayPasses \/ \E s \in Sprints : SprintCloses(s)
  <2>1. GovernanceTypeOK'
    BY <1>1, <1>t DEF GovernanceTypeOK, DayPasses, SprintCloses
  <2>2. UNCHANGED << actions, announced, sweep >>
    BY <1>1 DEF DayPasses, SprintCloses
  <2> QED BY <2>1, <2>2 DEF GovernanceInv, RunOk, HasRowIn
<1>2. ASSUME NEW x \in Sweepers, StartSweep(x) PROVE GovernanceInv'
  <2> DEFINE s == [sweep[x] EXCEPT !.at = "audit", !.day = today]
  <2>1. sweep' = [sweep EXCEPT ![x] = s]
    BY <1>2, <1>t DEF StartSweep, GovernanceTypeOK
  <2>2. RunOk(x, s, actions, announced)
    BY <1>2, <1>s, <1>t DEF StartSweep, RunOk, Sweep, GovernanceTypeOK
  <2> HIDE DEF s
  <2> QED BY <1>2, <1>t, <2>1, <2>2, QuietStep DEF StartSweep, GovernanceTypeOK
<1>3. ASSUME NEW x \in Sweepers, _run_governance_auditor(x) PROVE GovernanceInv'
  <2> DEFINE day == sweep[x].day
             todo == IF day = last_friday_of_month(day) THEN {EomId(ProjectAt(x), day)} ELSE {}
             s == [sweep[x] EXCEPT !.at = "eom", !.todo = todo]
  <2>1. sweep' = [sweep EXCEPT ![x] = s]
    BY <1>3, <1>t DEF _run_governance_auditor, GovernanceTypeOK
  <2>2. day \in 1..59 /\ ProjectAt(x) \in Projects
    BY <1>d, <1>s DEF Sweep, ProjectAt
  <2>3. todo \in SUBSET Id
    BY <2>2, KeysTyped
  <2>4. /\ LastFriday(day) => todo = {OwnEomId(s)}
        /\ todo # {} => LastFriday(day)
    BY <1>s, <2>2, LastFridayFound DEF OwnEomId, ProjectAt, Sweep
  <2>5. s \in Sweep /\ s.at = "eom" /\ s.job = "eom" /\ s.day = day /\ s.todo = todo
    <3>1. sweep[x] \in Sweep /\ sweep[x].job = "eom"
      BY <1>3, <1>s DEF _run_governance_auditor, RunOk
    <3> HIDE DEF todo
    <3> QED BY <2>3, <3>1 DEF Sweep
  <2>6. DayOfMonth(last_friday_of_month(day)) \in 0..31
    BY <2>2, LastFridays DEF DayOfMonth
  <2>7. eom_checkpoint_day' \in [Projects -> 0..31]
    BY <1>3, <1>t, <2>6 DEF _run_governance_auditor, GovernanceTypeOK
  <2> HIDE DEF s, todo
  <2>8. RunOk(x, s, actions', announced')
    BY <2>4, <2>5 DEF RunOk
  <2> QED BY <1>3, <1>t, <2>1, <2>7, <2>8, RunStep DEF _run_governance_auditor, GovernanceTypeOK
<1>4. ASSUME NEW x \in Sweepers, _run_sprint_watchdog(x) PROVE GovernanceInv'
  <2> DEFINE todo == {OverdueId(q) : q \in Overdue(ProjectAt(x), sweep[x].day)}
             s == [sweep[x] EXCEPT !.at = "watchdog", !.job = "watchdog", !.todo = todo]
  <2>1. sweep' = [sweep EXCEPT ![x] = s]
    BY <1>4, <1>t DEF _run_sprint_watchdog, GovernanceTypeOK
  <2>2. todo \in SUBSET Id
    BY <1>t, KeysTyped DEF Overdue, GovernanceTypeOK
  <2>3. s \in Sweep /\ s.at = "watchdog" /\ s.job = "watchdog"
    BY <1>s, <2>2 DEF Sweep
  <2> HIDE DEF s
  <2>4. RunOk(x, s, actions, announced)
    BY <2>3 DEF RunOk
  <2> QED BY <1>4, <1>t, <2>1, <2>4, QuietStep DEF _run_sprint_watchdog, GovernanceTypeOK
<1>5. ASSUME NEW x \in Sweepers, CheckAction(x) PROVE GovernanceInv'
  <2>1. PICK id \in sweep[x].todo :
          sweep' = [sweep EXCEPT
            ![x] = IF HasRow(id) THEN [sweep[x] EXCEPT !.todo = sweep[x].todo \ {id}]
                   ELSE [sweep[x] EXCEPT !.at = "insert", !.id = id]]
    BY <1>5, <1>t DEF CheckAction, GovernanceTypeOK
  <2>2. id \in Id /\ sweep[x].at \in {"eom", "watchdog"}
    BY <1>5, <1>s DEF CheckAction, Sweep
  <2>3. CASE HasRow(id)
    <3> DEFINE s == [sweep[x] EXCEPT !.todo = sweep[x].todo \ {id}]
    <3>1. /\ s \in Sweep /\ s.at = sweep[x].at /\ s.job = sweep[x].job /\ s.day = sweep[x].day
          /\ s.k = sweep[x].k /\ s.todo = sweep[x].todo \ {id}
      BY <1>s DEF Sweep
    <3>2. OwnEomId(s) = OwnEomId(sweep[x])
      BY <3>1 DEF OwnEomId
    <3>3. sweep' = [sweep EXCEPT ![x] = s]
      BY <2>1, <2>3
    <3>4. HasRowIn(id, actions)
      BY <2>3 DEF HasRow, HasRowIn
    <3> HIDE DEF s
    <3>5. RunOk(x, s, actions, announced)
      BY <1>s, <2>2, <3>1, <3>2, <3>4 DEF RunOk
    <3> QED BY <1>5, <1>t, <3>3, <3>5, QuietStep DEF CheckAction, GovernanceTypeOK
  <2>4. CASE ~HasRow(id)
    <3> DEFINE s == [sweep[x] EXCEPT !.at = "insert", !.id = id]
    <3>1. /\ s \in Sweep /\ s.at = "insert" /\ s.job = sweep[x].job /\ s.day = sweep[x].day
          /\ s.k = sweep[x].k /\ s.todo = sweep[x].todo /\ s.id = id
      BY <1>s, <2>2 DEF Sweep
    <3>2. OwnEomId(s) = OwnEomId(sweep[x])
      BY <3>1 DEF OwnEomId
    <3>3. sweep' = [sweep EXCEPT ![x] = s]
      BY <2>1, <2>4
    <3>4. [by |-> x, id |-> id] \notin announced
      BY <2>4 DEF HasRow, HasRowIn, GovernanceInv
    <3> HIDE DEF s
    <3>5. RunOk(x, s, actions, announced)
      BY <1>s, <2>1, <2>2, <3>1, <3>2, <3>4 DEF RunOk
    <3> QED BY <1>5, <1>t, <3>3, <3>5, QuietStep DEF CheckAction, GovernanceTypeOK
  <2> QED BY <2>3, <2>4
<1>6. ASSUME NEW x \in Sweepers, InsertAction(x) PROVE GovernanceInv'
  <2> DEFINE s == [sweep[x] EXCEPT !.at = "publish"]
             row == [id |-> sweep[x].id, project |-> ProjectAt(x)]
  <2>1. sweep' = [sweep EXCEPT ![x] = s]
    BY <1>6, <1>t DEF InsertAction, GovernanceTypeOK
  <2>2. sweep[x].at = "insert" /\ sweep[x].id \in sweep[x].todo /\ sweep[x].id \in Id
    BY <1>6, <1>s DEF InsertAction, RunOk, Sweep
  <2>3. row \in Action
    BY <1>d, <1>s, <2>2 DEF Action, ProjectAt, Sweep
  <2>4. actions' = IF \E a \in actions : a.id = sweep[x].id THEN actions ELSE actions \cup {row}
    BY <1>6 DEF InsertAction, on_conflict_do_nothing
  <2>5. /\ actions \subseteq actions' /\ actions' \subseteq Action
        /\ \A a, b \in actions' : a.id = b.id => a = b
        /\ HasRowIn(sweep[x].id, actions')
    BY <1>t, <2>3, <2>4 DEF GovernanceTypeOK, HasRowIn
  <2>6. /\ s \in Sweep /\ s.at = "publish" /\ s.job = sweep[x].job /\ s.day = sweep[x].day
        /\ s.k = sweep[x].k /\ s.todo = sweep[x].todo /\ s.id = sweep[x].id
    BY <1>s DEF Sweep
  <2>7. OwnEomId(s) = OwnEomId(sweep[x])
    BY <2>6 DEF OwnEomId
  <2>8. announced' = announced
    BY <1>6 DEF InsertAction
  <2> HIDE DEF s, row
  <2>9. RunOk(x, s, actions', announced')
    BY <1>s, <2>2, <2>5, <2>6, <2>7, <2>8 DEF RunOk, HasRowIn
  <2> QED BY <1>6, <1>t, <2>1, <2>5, <2>9, RunStep DEF InsertAction, GovernanceTypeOK
<1>7. ASSUME NEW x \in Sweepers, _publish_raid_written(x) PROVE GovernanceInv'
  <2> DEFINE s == [sweep[x] EXCEPT !.at = sweep[x].job, !.todo = sweep[x].todo \ {sweep[x].id},
                                   !.id = NoAction]
  <2>1. sweep' = [sweep EXCEPT ![x] = s]
    BY <1>7, <1>t DEF _publish_raid_written, GovernanceTypeOK
  <2>2. /\ sweep[x].at = "publish" /\ sweep[x].id \in sweep[x].todo /\ sweep[x].id \in Id
        /\ HasRowIn(sweep[x].id, actions)
    BY <1>7, <1>s DEF _publish_raid_written, RunOk, Sweep
  <2>3. /\ s \in Sweep /\ s.at = sweep[x].job /\ s.job = sweep[x].job /\ s.day = sweep[x].day
        /\ s.k = sweep[x].k /\ s.todo = sweep[x].todo \ {sweep[x].id}
        /\ sweep[x].job \in {"eom", "watchdog"}
    BY <1>s DEF Sweep
  <2>4. OwnEomId(s) = OwnEomId(sweep[x])
    BY <2>3 DEF OwnEomId
  <2>5. announced' \in {announced, announced \cup {[by |-> x, id |-> sweep[x].id]}}
    BY <1>7 DEF _publish_raid_written
  <2>6. sweepFaults' \in 0..MaxSweepFaults
    BY <1>7, <1>t, FaultTyped DEF _publish_raid_written, GovernanceTypeOK
  <2>7. UNCHANGED << today, sprintOpen, eom_checkpoint_day, actions >>
    BY <1>7 DEF _publish_raid_written
  <2> HIDE DEF s
  <2>8. RunOk(x, s, actions', announced')
    BY <1>s, <2>2, <2>3, <2>4, <2>7 DEF RunOk, HasRowIn
  <2>9. /\ announced \subseteq announced'
        /\ \A e \in announced' \ announced :
             e \in [by : {x}, id : Id] /\ HasRowIn(e.id, actions')
    BY <2>2, <2>5, <2>7 DEF HasRowIn
  <2> QED BY <1>t, <2>1, <2>6, <2>7, <2>8, <2>9, RunStep DEF GovernanceTypeOK
<1>8. ASSUME NEW x \in Sweepers, ProjectDone(x) \/ ProjectFails(x) PROVE GovernanceInv'
  <2>1. sweepFaults' \in 0..MaxSweepFaults
    BY <1>8, <1>t, FaultTyped DEF ProjectDone, ProjectFails, GovernanceTypeOK
  <2>2. RunOk(x, NextProject(x), actions, announced)
    BY <1>s, NextProjectOk
  <2> QED BY <1>8, <2>1, <2>2, QuietStep DEF ProjectDone, ProjectFails
<1>9. ASSUME NEW x \in Sweepers, SweepStops(x) PROVE GovernanceInv'
  <2>1. sweepFaults' \in 0..MaxSweepFaults
    BY <1>9, <1>t, FaultTyped DEF SweepStops, GovernanceTypeOK
  <2> QED BY <1>9, <2>1, IdleOk, QuietStep DEF SweepStops
<1>10. CASE UNCHANGED governanceVars
  BY <1>10 DEF governanceVars, GovernanceInv, GovernanceTypeOK, RunOk, HasRowIn
<1> QED BY <1>1, <1>2, <1>3, <1>4, <1>5, <1>6, <1>7, <1>8, <1>9, <1>10
        DEF GovernanceNext, RunSweep

-----------------------------------------------------------------------------
(* The theorems.                                                            *)

\* The invariant above holds in every reachable state.
THEOREM GovernanceInvariant == GovernanceSpec => []GovernanceInv
BY GovernanceInitInv, GovernanceNextInv, PTL DEF GovernanceSpec

\* The audit stamps are days of a month, and whoever inserts, there is one
\* pmo_artifacts row for an id.
THEOREM GovernanceTypeCorrect == GovernanceSpec => []GovernanceTypeOK
<1>1. GovernanceInv => GovernanceTypeOK
  BY DEF GovernanceInv
<1> QED BY <1>1, GovernanceInvariant, PTL

\* _upsert_action lets a process announce an action at most once, however often
\* its sweep runs again.
THEOREM AnnouncedOncePerProcessHolds == GovernanceSpec => AnnouncedOncePerProcess
<1>1. GovernanceInv /\ [GovernanceNext]_governanceVars
        => [ \A x \in Sweepers :
               sweep[x].at = "publish" /\ sweep'[x].at \in {"eom", "watchdog"} =>
                 [by |-> x, id |-> sweep[x].id] \notin announced ]_governanceVars
  BY DEF GovernanceInv, RunOk
<1> QED BY <1>1, GovernanceInvariant, PTL DEF GovernanceSpec, AnnouncedOncePerProcess

\* The end-of-month action is written on the last Friday only, and on that day a
\* run does not go on to the sprints without it.
THEOREM EomOnLastFridayHolds == GovernanceSpec => EomOnLastFriday
<1> DEFINE Eom(x) ==
      /\ sweep[x].at = "insert" /\ sweep[x].job = "eom" /\ actions' # actions =>
           LastFriday(sweep[x].day)
      /\ sweep[x].at = "eom" /\ sweep'[x].at = "watchdog" /\ LastFriday(sweep[x].day) =>
           Written(EomId(ProjectAt(x), sweep[x].day))
<1>1. GovernanceInv /\ [GovernanceNext]_governanceVars
        => [\A x \in Sweepers : Eom(x)]_governanceVars
  <2> SUFFICES ASSUME GovernanceInv, [GovernanceNext]_governanceVars, NEW x \in Sweepers
               PROVE  Eom(x)
    OBVIOUS
  <2>1. RunOk(x, sweep[x], actions, announced) /\ sweep \in [Sweepers -> Sweep]
    BY DEF GovernanceInv, GovernanceTypeOK
  <2>2. sweep[x].at = "insert" /\ sweep[x].job = "eom" => LastFriday(sweep[x].day)
    BY <2>1 DEF RunOk
  <2>3. ASSUME sweep[x].at = "eom", sweep'[x].at = "watchdog", LastFriday(sweep[x].day)
        PROVE  Written(EomId(ProjectAt(x), sweep[x].day))
    <3>1. \A y \in Sweepers \ {x} : ~ (RunSweep(y) \/ ProjectFails(y) \/ SweepStops(y))
      BY <2>1, <2>3
      DEF RunSweep, StartSweep, _run_governance_auditor, _run_sprint_watchdog, CheckAction,
          InsertAction, _publish_raid_written, ProjectDone, ProjectFails, SweepStops
    <3>2. IdleSweep.at = "idle" /\ NextProject(x).at \in {"idle", "audit"}
      BY DEF NextProject, IdleSweep
    <3>3. ~ (ProjectFails(x) \/ SweepStops(x))
      BY <2>1, <2>3, <3>2 DEF ProjectFails, SweepStops
    <3>4. ~ CheckAction(x)
      <4>1. \A id : /\ [sweep[x] EXCEPT !.todo = sweep[x].todo \ {id}].at = "eom"
                    /\ [sweep[x] EXCEPT !.at = "insert", !.id = id].at = "insert"
        BY <2>1, <2>3 DEF Sweep
      <4> QED BY <2>1, <2>3, <4>1 DEF CheckAction
    <3>5. _run_sprint_watchdog(x)
      BY <2>1, <2>3, <3>1, <3>3, <3>4
      DEF GovernanceNext, governanceVars, DayPasses, SprintCloses, RunSweep, StartSweep,
          _run_governance_auditor, InsertAction, _publish_raid_written, ProjectDone
    <3>6. sweep[x].todo = {}
      BY <3>5 DEF _run_sprint_watchdog
    <3> QED BY <2>1, <2>3, <3>6 DEF RunOk, HasRowIn, Written, OwnEomId, ProjectAt
  <2> QED BY <2>2, <2>3
<1> QED BY <1>1, GovernanceInvariant, PTL DEF GovernanceSpec, EomOnLastFriday
=============================================================================
