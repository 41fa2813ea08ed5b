SPECIFICATION BotFairSpec
CONSTANTS
  t1 = t1
  t2 = t2
  t3 = t3
  k1 = k1
  k2 = k2
  u1 = u1
  u2 = u2
  Turns <- TwoTurns
  Runs <- TwoTurnsRuns
  Convs = {k1, k2}
  NoConv = NoConv
  EVENT_BUS_MAX = 2
  Changes = {u1}
  NoChange = NoChange
  NoRun = NoRun
  Responses = {"approved", "rejected", "acknowledge"}
  EntryStates = {}
  RouterDecisions <- DraftsAndRisks
  PersistMayFail = FALSE
  DatabaseMayFail = FALSE
  ChangeIdReuse = FALSE
  MaxAttempts = 1
  MaxLive = 2
  MaxRestarts = 1
  SendMayFail = TRUE
INVARIANTS
  BotTypeOK
  ClickedApproval
  SlotHasCard
PROPERTIES
  TurnsEnd
CHECK_DEADLOCK FALSE
