---------------------------- MODULE DeltaDispatch ----------------------------
(***************************************************************************)
(* The delta-dispatch swarm of core/workflow.py and core/state.py: cycles  *)
(* of dispatch_delta on one SwarmState.  The router asks the LLM which     *)
(* agents of the roster the delta concerns, the framework fans the reply   *)
(* out to their executors, and what they yield is appended to the state.   *)
(*                                                                         *)
(* External: the agent framework, which runs the chosen executors of a     *)
(* superstep concurrently and lists what they yield in that order; the     *)
(* LLM; the specialists' own work; the caller, of which the repository has *)
(* none but the tests, and which sets the roster of each cycle.            *)
(***************************************************************************)
EXTENDS Integers, Sequences

CONSTANTS
  Agents,      \* keys that a roster or a reply may hold, known or not
  Excluded,    \* DELTA_DISPATCH_EXCLUDED_AGENTS
  Wired,       \* agent_keys of build_pmo_workflow
  Rosters,     \* rosters that callers set; model_copy validates none of them
  MaxNamed,    \* bound: keys in a reply
  MaxCycles    \* bound: dispatches

ASSUME DispatchConstants ==
  /\ Excluded \subseteq Agents
  /\ Wired \subseteq Agents
  /\ Wired \cap Excluded = {}     \* build_pmo_workflow refuses to wire others
  /\ Rosters \subseteq SUBSET Agents
  /\ MaxNamed \in Nat /\ MaxCycles \in Nat

VARIABLES
  roster,     \* active_agent_roster
  outputs,    \* execution_outputs
  cycle,      \* the dispatch going on
  cycles      \* dispatches so far

dispatchVars == << roster, outputs, cycle, cycles >>

Output == [agent : Agents, status : {"success", "failed"}, cycle : 1..MaxCycles]

Replies == UNION {[1..n -> Agents] : n \in 0..MaxNamed}

\* "selected" is the decision's selected_agent_keys, "running" the executors
\* that have not yielded yet.
Cycle ==
  [ at : {"idle", "routing", "routed", "specialists"},
    selected : Replies, running : SUBSET Wired, yielded : Seq(Output) ]

IdleCycle == [at |-> "idle", selected |-> << >>, running |-> {}, yielded |-> << >>]

DispatchTypeOK ==
  /\ roster \in SUBSET Agents
  /\ outputs \in Seq(Output)
  /\ cycle \in Cycle
  /\ cycles \in 0..MaxCycles

DispatchInit ==
  /\ roster = {}
  /\ outputs = << >>
  /\ cycle = IdleCycle
  /\ cycles = 0

-----------------------------------------------------------------------------
(* One cycle.                                                               *)

StartDispatch ==
  /\ cycle.at = "idle"
  /\ cycles < MaxCycles
  /\ cycles' = cycles + 1
  /\ roster' \in Rosters
  /\ cycle' = [cycle EXCEPT !.at = "routing"]
  /\ UNCHANGED outputs

filter_excluded_agents(agents) == agents \ Excluded

\* What the router takes of a reply: no key from outside the filtered roster.
AsTold(reply) == reply
safe_selection(reply) ==
  LET kept[n \in 0..Len(reply)] ==
        IF n = 0 THEN << >>
        ELSE IF reply[n] \in filter_excluded_agents(roster)
             THEN Append(kept[n - 1], reply[n])
             ELSE kept[n - 1]
  IN kept[Len(reply)]

\* With no roster left the LLM is not asked; a reply without structured output
\* selects none.
Route ==
  /\ cycle.at = "routing"
  /\ \E reply \in Replies :
       /\ filter_excluded_agents(roster) = {} => reply = << >>
       /\ cycle' = [cycle EXCEPT !.at = "routed", !.selected = safe_selection(reply)]
  /\ UNCHANGED << roster, outputs, cycles >>

Named(keys) == {keys[k] : k \in DOMAIN keys}

select_by_router_decision ==
  /\ cycle.at = "routed"
  /\ cycle' = [cycle EXCEPT !.at = "specialists", !.running = Wired \cap Named(cycle.selected)]
  /\ UNCHANGED << roster, outputs, cycles >>

\* A specialist returns or raises, and yields its output either way.
FailuresVanish(agent, status) == IF status = "failed" THEN {} ELSE {agent}
Yields(agent, status) == {agent}

SpecialistDone(agent) ==
  /\ cycle.at = "specialists"
  /\ agent \in cycle.running
  /\ \E status \in {"success", "failed"} :
       cycle' = [cycle EXCEPT
         !.running = @ \ {agent},
         !.yielded = IF agent \in Yields(agent, status)
                     THEN Append(@, [agent |-> agent, status |-> status, cycle |-> cycles])
                     ELSE @]
  /\ UNCHANGED << roster, outputs, cycles >>

with_outputs(more) == outputs \o more

EndDispatch ==
  /\ cycle.at = "specialists"
  /\ cycle.running = {}
  /\ outputs' = with_outputs(cycle.yielded)
  /\ cycle' = IdleCycle
  /\ UNCHANGED << roster, cycles >>

\* The LLM's exception, a cancellation or the end of the run: dispatch_delta
\* raises and the caller keeps the state it had.
DispatchFails ==
  /\ cycle.at # "idle"
  /\ cycle' = IdleCycle
  /\ UNCHANGED << roster, outputs, cycles >>

DispatchNext ==
  \/ StartDispatch \/ Route \/ select_by_router_decision
  \/ \E agent \in Wired : SpecialistDone(agent)
  \/ EndDispatch \/ DispatchFails

DispatchSpec == DispatchInit /\ [][DispatchNext]_dispatchVars
-----------------------------------------------------------------------------
(* Correctness.                                                             *)

\* Whatever the LLM names, only agents of the cycle's roster run, and none that
\* is reserved for the scheduler, also when the caller's roster holds one.
OnlyRosteredRun ==
  cycle.at = "specialists" =>
    \A agent \in cycle.running \cup {cycle.yielded[k].agent : k \in DOMAIN cycle.yielded} :
      agent \in roster \ Excluded

\* A cycle that adds to the state's outputs adds exactly one for each wired agent
\* that was selected, a failed or twice named one included, none for any other,
\* and leaves those of earlier cycles as they were.
OutputsOf(agent, list) == {k \in DOMAIN list : list[k].agent = agent}

EachAnswersOnce ==
  [][ outputs' # outputs =>
        LET added == SubSeq(outputs', Len(outputs) + 1, Len(outputs'))
        IN /\ outputs = SubSeq(outputs', 1, Len(outputs))
           /\ \A agent \in Wired :
                IF agent \in Named(cycle.selected)
                THEN \E k \in DOMAIN added : OutputsOf(agent, added) = {k}
                ELSE OutputsOf(agent, added) = {} ]_dispatchVars
=============================================================================
