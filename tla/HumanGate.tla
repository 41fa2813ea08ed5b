------------------------------ MODULE HumanGate ------------------------------
(***************************************************************************)
(* What the two human-in-the-loop interrupts of app_graph.py promise: the  *)
(* program acts on a request only after it was put to a human and a human  *)
(* answered it with a response that permits the act.  The same request may *)
(* be answered more than once, and acted on more than once: the graph      *)
(* itself keeps no record of the checkpoints it has already resumed.       *)
(***************************************************************************)
CONSTANTS Requests, Responses,
          Permits    \* the responses that let the program act

VARIABLES asked,     \* requests put to a human
          answers,   \* <<request, response>> pairs the program received
          acted      \* requests the program has acted on

gateVars == << asked, answers, acted >>

Init == asked = {} /\ answers = {} /\ acted = {}

Ask(q) ==
  /\ asked' = asked \cup {q}
  /\ UNCHANGED << answers, acted >>

Answer(q, a) ==
  /\ q \in asked
  /\ answers' = answers \cup {<<q, a>>}
  /\ UNCHANGED << asked, acted >>

Act(q) ==
  /\ \E a \in Permits : <<q, a>> \in answers
  /\ acted' = acted \cup {q}
  /\ UNCHANGED << asked, answers >>

Next == \E q \in Requests : Ask(q) \/ Act(q) \/ \E a \in Responses : Answer(q, a)

Spec == Init /\ [][Next]_gateVars
=============================================================================
