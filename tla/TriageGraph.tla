----------------------------- MODULE TriageGraph -----------------------------
(***************************************************************************)
(* The conversational graph of app_graph.py.  One element of Runs is one   *)
(* invocation of Workflow.run: a conversational turn, a proactive sibling  *)
(* run, or the resumption of a checkpoint with a human's response.  The    *)
(* graph has one message in flight per run, so pc[r] names the executor    *)
(* that will handle it and st[r] is the PMOState it carries; each action   *)
(* is one executor's handler, from its first line to its last.  Runs       *)
(* interleave freely: the API process awaits between executors, and the    *)
(* webhook scripts resume checkpoints from other processes.                *)
(*                                                                         *)
(* External, modelled from its use here: the agent framework (message      *)
(* delivery, checkpoint files, request/response), the LLM (any reply of    *)
(* the schema, or none), Postgres (a write may be made, refused or raise). *)
(***************************************************************************)
EXTENDS Blackboard

CONSTANTS
  Changes,          \* change_ids the Change Control Clerk's LLM may supply
  NoChange, NoRun,
  Responses,        \* strings a card submission may carry as its decision
  EntryStates,      \* PMOStates callers start a conversational turn with
  RouterDecisions,  \* bound: the TriageRouterDecisions the LLM may return
  PersistMayFail,   \* bound: whether event_bus writes may fail
  DatabaseMayFail,  \* bound: whether project writes may be refused or raise
  ChangeIdReuse,    \* bound: whether the LLM may supply a change_id twice
  MaxAttempts       \* 3 in the source: attempts of one structured LLM call

VARIABLES
  pc,        \* the executor that handles the run's message, or how it ended
  st,        \* the PMOState in that message
  caller,    \* the function of app_graph.py that started the run
  calls,     \* LLM calls made so far, by the router and by a specialist
  origin,    \* the run whose checkpoint a resumption restored, else itself
  response,  \* the response a resumption was given
  out,       \* what the run yielded
  found,     \* the checkpoint run_turn looked up for a suspended run
  latest,    \* the newest checkpoint in storage, of any run
  rows,      \* the event_bus table
  writes     \* rows and baseline values committed to the project database

graphVars ==
  << pc, st, caller, calls, origin, response, out, found, latest, rows, writes >>

-----------------------------------------------------------------------------
TriageRouterDecision ==
  [ next_node : SpecialistNodes \cup {"escalation_node", "end_conversation"},
    update_vague_turns : BOOLEAN,
    wake_reason : {"none", "user_message", "event_bus"} ]

PMOState ==
  [ billing_status : {"active_trial", "trial_exhausted", "active_paid", "paid_halt"},
    vague_turns : Nat,
    requires_pm_veto : BOOLEAN,
    pending_change : Changes \cup {NoChange},
    pm_veto_decision : {"none", "approved", "rejected"},
    latest_task_progress : BOOLEAN,
    latest_blocker : BOOLEAN,
    latest_risk_escalation : {"none", "in_tolerance", "exception"},
    exception_decision : {"none", "acknowledge", "escalate_to_board"},
    event_bus : Seq(BlackboardEvent),
    wake_reason : {"none", "user_message", "event_bus"},
    proactive_target : SpecialistNodes \cup {"none"} ]

NewState ==
  [ billing_status |-> "active_trial", vague_turns |-> 0,
    requires_pm_veto |-> FALSE, pending_change |-> NoChange,
    pm_veto_decision |-> "none", latest_task_progress |-> FALSE,
    latest_blocker |-> FALSE, latest_risk_escalation |-> "none",
    exception_decision |-> "none", event_bus |-> << >>,
    wake_reason |-> "none", proactive_target |-> "none" ]

HaltsPaidOnly == {"paid_halt"}
HaltedBillingStatuses == {"trial_exhausted", "paid_halt"}

StubNodes == {"escalation_node", "hard_fail_node", "end_conversation"}
Pending   == {"veto_pending", "exception_pending"}  \* IDLE_WITH_PENDING_REQUESTS
Ended     == Pending \cup {"done", "raised"}
InFlight  == SpecialistNodes \cup StubNodes \cup
  { "gateway_middleware", "router_node", "state_writeback_node",
    "suspend_for_veto_node", "on_veto_decision", "baseline_commit_node",
    "suspend_for_exception_node", "on_exception_decision",
    "exception_commit_node" }
Nodes     == InFlight \cup Ended \cup {"unstarted"}

Callers     == {"none", "run_turn", "maybe_run_proactive_followup", "resume"}
Payloads    == {"task_progress", "blocker", "risk_escalation"}
WriteKinds  == {"baseline", "task_progress", "blocker", "risk", "exception_risk"}
Checkpoints == [run : Runs, at : Nodes]
NoCheckpoint == [run |-> NoRun, at |-> "unstarted"]
Outputs     == [ status : { "none", "hard_halt", "failed", "not_implemented",
                            "committed", "rejected" },
                 committed : SUBSET (Payloads \cup {"baseline"}) ]

ASSUME GraphConstants ==
  /\ EntryStates \subseteq PMOState
  /\ RouterDecisions \subseteq TriageRouterDecision
  /\ PersistMayFail \in BOOLEAN
  /\ DatabaseMayFail \in BOOLEAN
  /\ ChangeIdReuse \in BOOLEAN
  /\ MaxAttempts \in Nat \ {0}
  /\ NoChange \notin Changes
  /\ NoRun \notin Runs
  /\ "none" \notin Responses

-----------------------------------------------------------------------------
(* How one handler moves its run on.                                        *)

\* The message goes to executor n with state s; the superstep it ends is
\* checkpointed.
Send(r, n, s) ==
  /\ pc' = [pc EXCEPT ![r] = n]
  /\ st' = [st EXCEPT ![r] = s]
  /\ latest' = [run |-> r, at |-> n]

\* The run yields its output and has nothing more to deliver.
Yield(r, s, output) ==
  /\ Send(r, "done", s)
  /\ out' = [out EXCEPT ![r] = output]

Output(status, committed) == [status |-> status, committed |-> committed]
Plain(status) == Output(status, {})

\* An exception leaves the handler: run_turn raises, nothing is checkpointed.
Raise(r) ==
  /\ pc' = [pc EXCEPT ![r] = "raised"]
  /\ UNCHANGED << st, latest, out >>

\* The events e of a handler reach the event_bus table as far as their
\* best-effort writes succeed.
Persist(events) ==
  \E kept \in IF PersistMayFail THEN SUBSET events ELSE {events} :
     rows' = merge(rows, kept)

Publish(s, e) == [s EXCEPT !.event_bus = append_event(@, e)]

-----------------------------------------------------------------------------
TypeOK ==
  /\ pc \in [Runs -> Nodes]
  /\ st \in [Runs -> PMOState]
  /\ caller \in [Runs -> Callers]
  /\ calls \in [Runs -> [router : 0..MaxAttempts, specialist : 0..MaxAttempts]]
  /\ origin \in [Runs -> Runs]
  /\ response \in [Runs -> Responses \cup {"none"}]
  /\ out \in [Runs -> Outputs]
  /\ found \in [Runs -> Checkpoints \cup {NoCheckpoint}]
  /\ latest \in Checkpoints \cup {NoCheckpoint}
  /\ rows \subseteq BlackboardEvent /\ IsFiniteSet(rows)
  /\ writes \subseteq (WriteKinds \X Runs)

GraphInit ==
  /\ pc = [r \in Runs |-> "unstarted"]
  /\ st = [r \in Runs |-> NewState]
  /\ caller = [r \in Runs |-> "none"]
  /\ calls = [r \in Runs |-> [router |-> 0, specialist |-> 0]]
  /\ origin = [r \in Runs |-> r]
  /\ response = [r \in Runs |-> "none"]
  /\ out = [r \in Runs |-> Plain("none")]
  /\ found = [r \in Runs |-> NoCheckpoint]
  /\ latest = NoCheckpoint
  /\ rows = {}
  /\ writes = {}

-----------------------------------------------------------------------------
(* Starting a run.                                                          *)

StartRun(r, s) ==
  /\ pc[r] = "unstarted"
  /\ pc' = [pc EXCEPT ![r] = "gateway_middleware"]
  /\ st' = [st EXCEPT ![r] = s]
  /\ caller' = [caller EXCEPT ![r] = "run_turn"]
  /\ UNCHANGED << calls, origin, response, out, found, latest, writes >>

\* An empty bus is reloaded from the event_bus table, oldest first; the
\* table's order is abstracted to any order.
BusToScan(s) ==
  IF s.event_bus # << >> THEN {s.event_bus}
  ELSE { b \in [1..Cardinality(rows) -> rows] :
           \A e \in rows : \E i \in DOMAIN b : b[i] = e }

\* maybe_run_proactive_followup: the caller's copy of the bus stays unmarked,
\* the run and the event_bus table get the mark.
StartFollowup(r, s) ==
  /\ pc[r] = "unstarted"
  /\ \E bus \in BusToScan(s) :
       LET i     == next_proactive_target(bus)
           agent == EVENT_SUBSCRIPTIONS[bus[i].event_type]
           woken == mark_event_consumed(bus, i, agent)
       IN /\ i # 0
          /\ Persist({woken[i]})
          /\ st' = [st EXCEPT ![r] = [s EXCEPT !.event_bus = woken,
                                               !.wake_reason = "event_bus",
                                               !.proactive_target = agent]]
  /\ pc' = [pc EXCEPT ![r] = "gateway_middleware"]
  /\ caller' = [caller EXCEPT ![r] = "maybe_run_proactive_followup"]
  /\ UNCHANGED << calls, origin, response, out, found, latest, writes >>

\* The request a suspended run waits on: the LLM's change_id, or a fresh uuid.
RequestId(r) == IF pc[r] = "veto_pending" THEN st[r].pending_change ELSE r

\* resume_after_veto and resume_after_exception: the framework restores the
\* checkpoint and hands the response to the executor that asked, or refuses
\* when the checkpoint holds no such request.
Resume(r, checkpoint, id, resp) ==
  /\ pc[r] = "unstarted"
  /\ checkpoint # NoCheckpoint
  /\ caller' = [caller EXCEPT ![r] = "resume"]
  /\ \/ /\ checkpoint.at \in Pending
        /\ RequestId(checkpoint.run) = id
        /\ response' = [response EXCEPT ![r] = resp]
        /\ origin' = [origin EXCEPT ![r] = checkpoint.run]
        /\ pc' = [pc EXCEPT ![r] = IF checkpoint.at = "veto_pending"
                                   THEN "on_veto_decision"
                                   ELSE "on_exception_decision"]
        /\ st' = [st EXCEPT ![r] = st[checkpoint.run]]
     \/ /\ checkpoint.at \in Pending => RequestId(checkpoint.run) # id
        /\ pc' = [pc EXCEPT ![r] = "raised"]
        /\ UNCHANGED << st, origin, response >>
  /\ UNCHANGED << calls, out, found, latest, rows, writes >>

-----------------------------------------------------------------------------
(* GatewayMiddleware and RouterNode.                                        *)

GatewayCheck(r) ==
  /\ pc[r] = "gateway_middleware"
  /\ IF st[r].billing_status \in HaltedBillingStatuses
     THEN Yield(r, st[r], Plain("hard_halt"))
     ELSE Send(r, "router_node", st[r]) /\ UNCHANGED out
  /\ UNCHANGED << caller, calls, origin, response, found, rows, writes >>

FrictionAfterThree(vague_turns, next_node) ==
  vague_turns > 2 \/ next_node = "escalation_node"

friction_breaker_fires(vague_turns, next_node) ==
  vague_turns >= 2 \/ next_node = "escalation_node"

\* The switch-case edge group behind the router, first match wins.
RouteTarget(failed, vague_turns, next_node) ==
  IF failed THEN "hard_fail_node"
  ELSE IF friction_breaker_fires(vague_turns, next_node) THEN "escalation_node"
  ELSE IF next_node \in SpecialistNodes THEN next_node
  ELSE "end_conversation"

WokenByMessage(s) ==
  /\ s.wake_reason = "user_message"
  /\ s.proactive_target \notin {"none", "change_control_clerk"}

Woken(s) ==
  /\ s.wake_reason = "event_bus"
  /\ s.proactive_target \notin {"none", "change_control_clerk"}

\* A turn is started by a message: only maybe_run_proactive_followup sets a wake
\* reason, in a copy of the state, and RouterNode clears it before it routes.
ASSUME EntryStatesAwake == \A s \in EntryStates : ~Woken(s)

RouterWake(r) ==
  /\ pc[r] = "router_node"
  /\ Woken(st[r])
  /\ Send(r, RouteTarget(FALSE, st[r].vague_turns, st[r].proactive_target),
          [st[r] EXCEPT !.wake_reason = "none", !.proactive_target = "none"])
  /\ UNCHANGED << caller, calls, origin, response, out, found, rows, writes >>

\* The executor's LLM call, which the retry decorator makes up to three times.
Role(r) == IF pc[r] = "router_node" THEN "router" ELSE "specialist"

CallsLLM(r) ==
  \/ pc[r] = "router_node" /\ ~Woken(st[r])
  \/ pc[r] \in SpecialistNodes

Call(r) ==
  /\ calls[r][Role(r)] < MaxAttempts
  /\ calls' = [calls EXCEPT ![r][Role(r)] = @ + 1]

AttemptFails(r) ==
  /\ CallsLLM(r)
  /\ Call(r)
  /\ calls'[r][Role(r)] < MaxAttempts
  /\ UNCHANGED << pc, st, caller, origin, response, out, found, latest, rows, writes >>

LastAttemptFails(r) ==
  /\ CallsLLM(r)
  /\ Call(r)
  /\ calls'[r][Role(r)] = MaxAttempts
  /\ IF pc[r] = "router_node"
     THEN /\ Send(r, RouteTarget(TRUE, st[r].vague_turns, "none"), st[r])
          /\ UNCHANGED out
     ELSE Yield(r, st[r], Plain("failed"))
  /\ UNCHANGED << caller, origin, response, found, rows, writes >>

NextNode(d) ==
  IF d.next_node = "change_control_clerk" /\ d.wake_reason = "event_bus"
  THEN "end_conversation" ELSE d.next_node

NewVagueTurns(s, d) == IF d.update_vague_turns THEN s.vague_turns + 1 ELSE 0

RouterDecides(r) ==
  /\ pc[r] = "router_node"
  /\ ~Woken(st[r])
  /\ Call(r)
  /\ \E d \in RouterDecisions :
       LET vague == NewVagueTurns(st[r], d)
       IN Send(r, RouteTarget(FALSE, vague, NextNode(d)),
               [st[r] EXCEPT !.vague_turns = vague])
  /\ UNCHANGED << caller, origin, response, out, found, rows, writes >>

-----------------------------------------------------------------------------
(* The Change Control Clerk and the PM Veto interrupt.                      *)

DraftChange(r) ==
  /\ pc[r] = "change_control_clerk"
  /\ Call(r)
  /\ LET e == NewEvent(r, "BASELINE_SLIP_REQUESTED", "change_control_clerk")
     IN \E change_id \in Changes :
          /\ ChangeIdReuse \/ \A q \in Runs : st[q].pending_change # change_id
          /\ Send(r, "suspend_for_veto_node",
                  Publish([st[r] EXCEPT !.requires_pm_veto = TRUE,
                                        !.pending_change = change_id], e))
          /\ Persist({e})
  /\ UNCHANGED << caller, origin, response, out, found, writes >>

SuspendForVeto(r) ==
  /\ pc[r] = "suspend_for_veto_node"
  /\ Send(r, "veto_pending", st[r])
  /\ UNCHANGED << caller, calls, origin, response, out, found, rows, writes >>

VetoFailsOpen(resp) == IF resp = "rejected" THEN "rejected" ELSE "approved"

VetoDecision(resp) == IF resp = "approved" THEN "approved" ELSE "rejected"

OnVetoDecision(r) ==
  /\ pc[r] = "on_veto_decision"
  /\ Send(r, "baseline_commit_node",
          [st[r] EXCEPT !.pm_veto_decision = VetoDecision(response[r])])
  /\ UNCHANGED << caller, calls, origin, response, out, found, rows, writes >>

\* What the user is told when apply_baseline_change refuses the write.
RefusalIgnored == Output("committed", {"baseline"})
RefusedOutput  == Plain("failed")

\* The decision event is published first; an approved change is then written,
\* refused by apply_baseline_change, or lost to a database error.
BaselineCommit(r) ==
  /\ pc[r] = "baseline_commit_node"
  /\ LET approved == st[r].pm_veto_decision = "approved"
         e == NewEvent(r, IF approved THEN "BASELINE_CHANGE_APPROVED"
                          ELSE "BASELINE_CHANGE_REJECTED", "baseline_commit_node")
         cleared == Publish([st[r] EXCEPT !.requires_pm_veto = FALSE,
                                          !.pending_change = NoChange,
                                          !.pm_veto_decision = "none"], e)
     IN /\ Persist({e})
        /\ \/ /\ approved
              /\ writes' = writes \cup {<<"baseline", r>>}
              /\ Yield(r, cleared, Output("committed", {"baseline"}))
           \/ /\ approved /\ DatabaseMayFail
              /\ Yield(r, cleared, RefusedOutput)
              /\ UNCHANGED writes
           \/ /\ approved /\ DatabaseMayFail
              /\ Raise(r)
              /\ UNCHANGED writes
           \/ /\ ~approved
              /\ Yield(r, cleared, Plain("rejected"))
              /\ UNCHANGED writes
  /\ UNCHANGED << caller, calls, origin, response, found >>

-----------------------------------------------------------------------------
(* The Tri-Framework specialists.                                           *)

LogTaskProgress(r) ==
  /\ pc[r] = "pmp_worker"
  /\ Call(r)
  /\ \E slipped \in BOOLEAN :     \* critical path and below 100 percent
       LET e == NewEvent(r, "TASK_PROGRESS_LOGGED", "pmp_worker")
           f == NewEvent(r, "CRITICAL_PATH_SLIPPED", "pmp_worker")
           s == Publish([st[r] EXCEPT !.latest_task_progress = TRUE], e)
       IN /\ Send(r, "state_writeback_node", IF slipped THEN Publish(s, f) ELSE s)
          /\ Persist(IF slipped THEN {e, f} ELSE {e})
  /\ UNCHANGED << caller, origin, response, out, found, writes >>

LogBlocker(r) ==
  /\ pc[r] = "agile_worker"
  /\ Call(r)
  /\ LET e == NewEvent(r, "BLOCKER_LOGGED", "agile_worker")
     IN /\ Send(r, "state_writeback_node",
                Publish([st[r] EXCEPT !.latest_blocker = TRUE], e))
        /\ Persist({e})
  /\ UNCHANGED << caller, origin, response, out, found, writes >>

FlagRisk(r) ==
  /\ pc[r] = "governance_worker"
  /\ Call(r)
  /\ \E risk \in {"in_tolerance", "exception"} :
       LET e == NewEvent(r, "RISK_FLAGGED", "governance_worker")
       IN /\ Send(r, "state_writeback_node",
                  Publish([st[r] EXCEPT !.latest_risk_escalation = risk], e))
          /\ Persist({e})
  /\ UNCHANGED << caller, origin, response, out, found, writes >>

-----------------------------------------------------------------------------
(* StateWritebackNode and the PRINCE2 Exception interrupt.                  *)

BreachesNever(s) == FALSE
BreachesTolerance(s) == s.latest_risk_escalation = "exception"

RaiseException(r) ==
  /\ pc[r] = "state_writeback_node"
  /\ BreachesTolerance(st[r])
  /\ LET e == NewEvent(r, "TOLERANCE_BREACHED", "state_writeback_node")
         f == NewEvent(r, "EXCEPTION_SUSPENDED", "state_writeback_node")
     IN /\ Send(r, "suspend_for_exception_node", Publish(Publish(st[r], e), f))
        /\ Persist({e, f})
  /\ UNCHANGED << caller, calls, origin, response, out, found, writes >>

PresentPayloads(s) ==
  { p \in Payloads :
      \/ p = "task_progress" /\ s.latest_task_progress
      \/ p = "blocker" /\ s.latest_blocker
      \/ p = "risk_escalation" /\ s.latest_risk_escalation # "none" }

WriteKind(s, p) ==
  IF p # "risk_escalation" THEN p
  ELSE IF s.latest_risk_escalation = "exception" THEN "exception_risk" ELSE "risk"

\* The payloads committed before p, each in a transaction of its own.
Before(p) ==
  CASE p = "task_progress" -> {}
    [] p = "blocker" -> {"task_progress"}
    [] p = "risk_escalation" -> {"task_progress", "blocker"}

\* What the commit_* calls for the payloads may write: each writes its row, or
\* finds no task or project and returns False.
Written(payloads) == IF DatabaseMayFail THEN SUBSET payloads ELSE {payloads}

\* A database error ends the run where it strikes.
CommitPayloads(r) ==
  /\ pc[r] = "state_writeback_node"
  /\ ~BreachesTolerance(st[r])
  /\ \E rowsWritten \in Written(PresentPayloads(st[r])) :
       /\ writes' = writes \cup { <<WriteKind(st[r], p), r>> : p \in rowsWritten }
       /\ \/ Yield(r, [st[r] EXCEPT !.latest_task_progress = FALSE,
                                    !.latest_blocker = FALSE,
                                    !.latest_risk_escalation = "none"],
                Output("committed", rowsWritten))
          \/ /\ DatabaseMayFail
             /\ \E p \in PresentPayloads(st[r]) : rowsWritten \subseteq Before(p)
             /\ Raise(r)
  /\ UNCHANGED << caller, calls, origin, response, found, rows >>

SuspendForException(r) ==
  /\ pc[r] = "suspend_for_exception_node"
  /\ Send(r, "exception_pending", st[r])
  /\ UNCHANGED << caller, calls, origin, response, out, found, rows, writes >>

DecisionVerbatim(resp) == resp

ExceptionDecision(resp) ==
  IF resp \in {"acknowledge", "escalate_to_board"} THEN resp
  ELSE "escalate_to_board"

\* The edge out of suspend_for_exception_node.
ExceptionLoopsBack == "state_writeback_node"
AfterException     == "exception_commit_node"

OnExceptionDecision(r) ==
  /\ pc[r] = "on_exception_decision"
  /\ Send(r, AfterException,
          [st[r] EXCEPT !.exception_decision = ExceptionDecision(response[r])])
  /\ UNCHANGED << caller, calls, origin, response, out, found, rows, writes >>

\* commit_risk_escalation's result is not looked at: the output says committed.
ExceptionCommit(r) ==
  /\ pc[r] = "exception_commit_node"
  /\ LET p == "risk_escalation" IN
     \/ /\ \E written \in Written(PresentPayloads(st[r]) \cap {p}) :
             writes' = writes \cup { <<WriteKind(st[r], q), r>> : q \in written }
        /\ Yield(r, [st[r] EXCEPT !.latest_risk_escalation = "none",
                                  !.exception_decision = "none"],
              Output("committed", {p}))
     \/ /\ DatabaseMayFail
        /\ p \in PresentPayloads(st[r])
        /\ Raise(r)
        /\ UNCHANGED writes
  /\ UNCHANGED << caller, calls, origin, response, found, rows >>

\* escalation_node, hard_fail_node and end_conversation.
Stub(r) ==
  /\ pc[r] \in StubNodes
  /\ Yield(r, st[r], Plain("not_implemented"))
  /\ UNCHANGED << caller, calls, origin, response, found, rows, writes >>

-----------------------------------------------------------------------------
(* The end of run_turn: a suspended run's caller is told the checkpoint to  *)
(* resume, which is whatever checkpoint of the workflow is newest by then.  *)
GetLatest(r) ==
  /\ pc[r] \in Pending
  /\ found[r] = NoCheckpoint
  /\ found' = [found EXCEPT ![r] = latest]
  /\ UNCHANGED << pc, st, caller, calls, origin, response, out, latest, rows, writes >>

\* The process dies, and the runs in flight with it; files and tables stay.
Crash ==
  /\ \E r \in Runs : pc[r] \in InFlight
  /\ pc' = [r \in Runs |-> IF pc[r] \in InFlight THEN "raised" ELSE pc[r]]
  /\ UNCHANGED << st, caller, calls, origin, response, out, found, latest, rows, writes >>

Step(r) ==
  \/ GatewayCheck(r) \/ RouterWake(r) \/ AttemptFails(r) \/ LastAttemptFails(r)
  \/ RouterDecides(r) \/ DraftChange(r) \/ SuspendForVeto(r)
  \/ OnVetoDecision(r) \/ BaselineCommit(r) \/ LogTaskProgress(r)
  \/ LogBlocker(r) \/ FlagRisk(r) \/ RaiseException(r) \/ CommitPayloads(r)
  \/ SuspendForException(r) \/ OnExceptionDecision(r) \/ ExceptionCommit(r)
  \/ Stub(r) \/ GetLatest(r)

\* A caller starts a turn, follows one up with the state run_turn returned for
\* it, or resumes a checkpoint it was told of, as often as it likes.
Caller(r) ==
  \/ \E s \in EntryStates : StartRun(r, s) /\ UNCHANGED rows
  \/ \E s \in EntryStates : StartFollowup(r, s)
  \/ \E q \in Runs : /\ pc[q] = "veto_pending"
                     /\ found[q] # NoCheckpoint
                     /\ StartFollowup(r, st[q])
  \/ \E q \in Runs, resp \in Responses : Resume(r, found[q], RequestId(q), resp)

Next == (\E r \in Runs : Step(r) \/ Caller(r)) \/ Crash

Spec == GraphInit /\ [][Next]_graphVars
-----------------------------------------------------------------------------
(* Correctness.                                                             *)

\* The two interrupts as the abstract gate: a request is the run that asked.
AnsweredIn(pendingKind) ==
  { <<origin[r], response[r]>> :
      r \in {q \in Runs : response[q] # "none" /\ pc[origin[q]] = pendingKind} }

ActedOn(kind) == { origin[r] : r \in {q \in Runs : <<kind, q>> \in writes} }

Veto == INSTANCE HumanGate WITH
  Requests <- Runs, Permits <- {"approved"},
  asked <- {r \in Runs : pc[r] = "veto_pending"},
  answers <- AnsweredIn("veto_pending"), acted <- ActedOn("baseline")

Exception == INSTANCE HumanGate WITH
  Requests <- Runs, Permits <- Responses,
  asked <- {r \in Runs : pc[r] = "exception_pending"},
  answers <- AnsweredIn("exception_pending"), acted <- ActedOn("exception_risk")

\* No baseline value is written except for a proposal that was put to the PM
\* and answered "approved": not for a garbled answer, not after a crash, not
\* through any path that skips suspend_for_veto_node.
VetoGate == Veto!Spec

\* A risk flagged as breaching PRINCE2 tolerance is committed only after the
\* PM has answered its exception card: state_writeback_node never commits it
\* on the way in.
ExceptionGate == Exception!Spec

\* Why the gates hold, as an inductive invariant.  A suspended run stays
\* suspended, so a checkpoint taken at a suspension stays resumable; an answer
\* is only ever recorded for a suspended run; and the commit nodes are reached
\* only with the answer the veto node was given.
HeldBy(checkpoint) ==
  checkpoint.at \in Pending => pc[checkpoint.run] = checkpoint.at

GateInv ==
  /\ HeldBy(latest)
  /\ \A r \in Runs :
       /\ HeldBy(found[r])
       /\ response[r] # "none" => pc[origin[r]] \in Pending
       /\ pc[r] = "unstarted" =>
            /\ response[r] = "none"
            /\ \A kind \in WriteKinds : <<kind, r>> \notin writes
       /\ pc[r] \in {"on_veto_decision", "baseline_commit_node"} =>
            response[r] # "none" /\ pc[origin[r]] = "veto_pending"
       /\ pc[r] \in {"on_exception_decision", "exception_commit_node"} =>
            response[r] # "none" /\ pc[origin[r]] = "exception_pending"
       /\ pc[r] = "baseline_commit_node" /\ st[r].pm_veto_decision = "approved" =>
            response[r] = "approved"

\* The Token Loop Breaker's whole-run budget (at most three calls each, by
\* TypeOK): no specialist is called before the router has decided, and none but
\* the specialist is called in a proactive run; a halted tenant's run and a
\* resumed run make no LLM call at all.
NoCalls == [router |-> 0, specialist |-> 0]

WithinBudget(r) ==
  /\ st[r].billing_status \in {"trial_exhausted", "paid_halt"} => calls[r] = NoCalls
  /\ caller[r] = "resume" => calls[r] = NoCalls
  /\ caller[r] = "maybe_run_proactive_followup" => calls[r].router = 0
  /\ caller[r] = "run_turn" /\ calls[r].specialist > 0 => calls[r].router > 0

LLMBudget == \A r \in Runs : WithinBudget(r)

\* The Friction Breaker overrides the LLM's route: no specialist handles, and
\* nothing is drafted, suspended or written in, a run whose state has reached
\* two vague turns.
BeyondRouter == SpecialistNodes \cup Pending \cup
  { "state_writeback_node", "suspend_for_veto_node", "on_veto_decision",
    "baseline_commit_node", "suspend_for_exception_node",
    "on_exception_decision", "exception_commit_node" }

FrictionOverrides(r) ==
  pc[r] \in BeyondRouter \/ (\E k \in WriteKinds : <<k, r>> \in writes) =>
    st[r].vague_turns < 2

FrictionOverridesRoute == \A r \in Runs : FrictionOverrides(r)

\* Events never route to Change Control: a run woken from the bus neither
\* reaches the clerk nor waits for a veto, whatever proposal its state carries.
ProactiveIsKeptOut(r) ==
  caller[r] = "maybe_run_proactive_followup" =>
    pc[r] \notin {"change_control_clerk", "suspend_for_veto_node", "veto_pending"}

ProactiveNeverDrafts == \A r \in Runs : ProactiveIsKeptOut(r)

\* What a run tells its user it committed was committed by that run; a run that
\* says failed or rejected, or ended without an output of its own, wrote
\* nothing of a baseline.  The exception path's output is left out:
\* ExceptionCommitNode reports the risk committed whatever the write returned.
WriteOf(p) == IF p = "risk_escalation" THEN "risk" ELSE p

OutputIsTrue(r) ==
  /\ response[r] = "none" \/ "baseline" \in out[r].committed =>
       \A p \in out[r].committed : <<WriteOf(p), r>> \in writes
  /\ "baseline" \notin out[r].committed => <<"baseline", r>> \notin writes

OutputsAreTrue == \A r \in Runs : OutputIsTrue(r)

\* A human's decision ends the matter: a run resumed with one never suspends
\* again, and never re-enters the writeback that raised its question.
DecisionsAreFinal ==
  \A r \in Runs :
    caller[r] = "resume" => pc[r] \notin Pending \cup {"state_writeback_node"}

\* run_turn's docstring: the PendingVetoRequest carries "the checkpoint to
\* resume later".
OwnCheckpoint ==
  \A r \in Runs : found[r] # NoCheckpoint => found[r].run = r
=============================================================================
