SPECIFICATION Spec
CONSTANTS
  s1 = s1
  s2 = s2
  s3 = s3
  Sessions <- TwoSessions
  NoSession = NoSession
  Entries = {"run_billing_gates"}
  Costs = {200}
  Statuses = {"active"}
  PILOT_PROJECT_LIMITS <- Limits
  MaxProjects = 0
  AllAgentsEnabled = {}
INVARIANT SpendAccumulated
