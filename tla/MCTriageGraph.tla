---------------------------- MODULE MCTriageGraph ----------------------------
EXTENDS TriageGraph

CONSTANTS r1, r2

MCEntryStates ==
  { NewState,
    [NewState EXCEPT !.vague_turns = 1],
    [NewState EXCEPT !.billing_status = "trial_exhausted"] }

Decision(n, v, w) == [next_node |-> n, update_vague_turns |-> v, wake_reason |-> w]

MCRouterDecisions ==
  { Decision(n, FALSE, "none") : n \in SpecialistNodes \cup {"end_conversation"} }
    \cup { Decision("pmp_worker", TRUE, "none"),
           Decision("change_control_clerk", FALSE, "event_bus") }
=============================================================================
