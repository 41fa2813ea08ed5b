---------------------------- MODULE MCBillingGates ----------------------------
EXTENDS BillingGates

CONSTANTS s1, s2, s3

ThreeSessions == {s1, s2, s3}
TwoSessions == {s1, s2}

Limits == [p \in PlanTier |-> IF p = "free_trial" THEN 1 ELSE 25]
=============================================================================
