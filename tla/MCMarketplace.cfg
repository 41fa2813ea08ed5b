SPECIFICATION MCSpec
CONSTANTS
  Rows <- TwoRows
  Emitters = {e1, e2}
  AzurePlans = {p1, p2}
  NoPlan = NoPlan
  Window = 1
  METERING_BATCH_LIMIT = 1
  MaxAttempts = 2
  MaxHour = 2
  MaxEmitFaults = 2
  Landings = {l1}
  Webhooks = {w1, w2}
  Plans <- TwoPlans
  TrialPlans <- Trial
  MaxChanges = 3
  MaxFailures = 1
INVARIANTS
  MeteringTypeOK
  MarkedHasEvent
  FulfillmentTypeOK
PROPERTIES
  BilledOnceInWindow
  RowsGetMetered
  BackwardsOnlyIfOvertaken
  SuccessAfterActivation
  ChangesReachTenant
CHECK_DEADLOCK FALSE
