SPECIFICATION Spec
CONSTANTS
  r1 = r1
  r2 = r2
  Runs = {r1, r2}
  EVENT_BUS_MAX = 2
  Changes = {change}
  NoChange = NoChange
  NoRun = NoRun
  Responses = {"approved", "rejected", "unrecognized"}
  EntryStates <- MCEntryStates
  RouterDecisions <- MCRouterDecisions
  PersistMayFail = TRUE
  DatabaseMayFail = TRUE
  ChangeIdReuse = TRUE
  MaxAttempts = 3
INVARIANT OwnCheckpoint
CHECK_DEADLOCK FALSE
