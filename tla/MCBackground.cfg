SPECIFICATION MCSpec
CONSTANTS
  Tasks <- TheTasks
  NoTask = NoTask
  Impact <- TheImpact
  Severity <- TheSeverity
  DeadlineDays = {0}
  None = None
  Sweeps = {s1}
  Graphs = {g1}
  HoursPerTick = 12
  MaxTicks = 2
  MaxChaseFaults = 1
  Roster <- TheRoster
  Sprints <- TheSprints
  ProjectOf <- OwnProject
  Title <- SameTitle
  DueOn <- TheDueDays
  Sweepers = {x1, x2}
  Days = {22, 29}
  NoAction = NoAction
  MaxSweepFaults = 1
  Files = {f1, f2}
  NoFile = NoFile
  Skippable = {f1}
  Syncs = {x1, x2}
  MaxVersion = 2
  MaxSyncFaults = 1
  Mails = {m1, m2}
  NoMail = NoMail
  Pollers = {x1, x2}
  MaxPollFaults = 2
  Agents <- TheAgents
  Excluded = {"auditor"}
  Wired <- TheWired
  Rosters <- TheRosters
  MaxNamed = 2
  MaxCycles = 2
INVARIANTS
  JobsTypeOK
  GovernanceTypeOK
  CursorIsHonest
  OnlyRosteredRun
PROPERTIES
  CooldownUnlessUnseen
  UrgentFirst
  DueTasksGetChased
  AnnouncedOncePerProcess
  EomOnLastFriday
  SprintsGetActions
  EventsComeTrue
  EachAnswersOnce
  ImplementsAtLeastOnce
CHECK_DEADLOCK FALSE
