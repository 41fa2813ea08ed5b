SPECIFICATION FairFulfillmentSpec
CONSTANTS
  Landings = {l1}
  Webhooks = {w1}
  Plans = {"paid"}
  TrialPlans = {}
  MaxChanges = 2
  MaxFailures = 0
PROPERTY SuccessIsConfirmed
CHECK_DEADLOCK FALSE
