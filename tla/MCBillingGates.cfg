SPECIFICATION FairSpec
CONSTANTS
  s1 = s1
  s2 = s2
  s3 = s3
  Sessions <- ThreeSessions
  NoSession = NoSession
  Entries = {"run_billing_gates", "check_pilot_compute_cap"}
  Costs = {0, 250}
  Statuses = {"active", "suspended"}
  PILOT_PROJECT_LIMITS <- Limits
  MaxProjects = 2
  AllAgentsEnabled = {s3}
INVARIANTS
  BillingTypeOK
  BillDriftBounded
PROPERTIES
  ExactUnderLock
  OnlyAdmittedPay
  GatesAnswer
