SPECIFICATION BotSpec
CONSTANTS
  t1 = t1
  t2 = t2
  t3 = t3
  k1 = k1
  k2 = k2
  u1 = u1
  u2 = u2
  Turns <- ThreeTurns
  Runs <- ThreeTurnsRuns
  Convs = {k1}
  NoConv = NoConv
  EVENT_BUS_MAX = 2
  Changes = {u1}
  NoChange = NoChange
  NoRun = NoRun
  Responses = {"approved", "rejected"}
  EntryStates = {}
  RouterDecisions <- Drafts
  PersistMayFail = FALSE
  DatabaseMayFail = FALSE
  ChangeIdReuse = FALSE
  MaxAttempts = 1
  MaxLive = 1
  MaxRestarts = 0
  SendMayFail = TRUE
INVARIANT DecidedOnce
CHECK_DEADLOCK FALSE
