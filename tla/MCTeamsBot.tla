------------------------------ MODULE MCTeamsBot ------------------------------
EXTENDS TeamsBot, TLC

CONSTANTS t1, t2, t3, k1, k2, u1, u2

ThreeTurns == {t1, t2, t3}
ThreeTurnsRuns == ThreeTurns \X {"main", "followup"}

TwoTurns == {t1, t2}
TwoTurnsRuns == TwoTurns \X {"main", "followup"}

Decision(n, v, w) == [next_node |-> n, update_vague_turns |-> v, wake_reason |-> w]

Drafts == { Decision("change_control_clerk", FALSE, "none") }
DraftsAndRisks == Drafts \cup { Decision("governance_worker", FALSE, "none") }

Symmetry == Permutations(ThreeTurns) \cup Permutations({u1, u2})
=============================================================================
