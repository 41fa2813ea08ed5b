-------------------------- MODULE TriageGraphProofs --------------------------
(***************************************************************************)
(* Theorems about the blackboard's operators, for every bus, every number  *)
(* of runs and every cap, and about the conversational graph built on      *)
(* them, for every set of runs, of change_ids and of responses, whatever   *)
(* the LLM and the database do.                                            *)
(***************************************************************************)
EXTENDS TriageGraph, FiniteSetTheorems, SequenceTheorems, WellFoundedInduction, TLAPS

-----------------------------------------------------------------------------
(* The blackboard.                                                          *)

\* The literal (event type, publisher) pairs of app_graph.py and api/bot.py.
Sites ==
  { <<"BASELINE_SLIP_REQUESTED", "change_control_clerk">>,
    <<"BASELINE_CHANGE_APPROVED", "baseline_commit_node">>,
    <<"BASELINE_CHANGE_REJECTED", "baseline_commit_node">>,
    <<"TASK_PROGRESS_LOGGED", "pmp_worker">>,
    <<"CRITICAL_PATH_SLIPPED", "pmp_worker">>,
    <<"BLOCKER_LOGGED", "agile_worker">>,
    <<"RISK_FLAGGED", "governance_worker">>,
    <<"TOLERANCE_BREACHED", "state_writeback_node">>,
    <<"EXCEPTION_SUSPENDED", "state_writeback_node">>,
    <<"TEAMS_MESSAGE_RECEIVED", "teams_bot">> }

\* append_event never raises for an event the graph or the bot publishes: each
\* of their literal publishers is in LEGAL_PUBLISHERS for its event type.
THEOREM LegalSites ==
  ASSUME NEW run \in Runs, NEW site \in Sites
  PROVE  /\ NewEvent(run, site[1], site[2]) \in BlackboardEvent
         /\ Legal(NewEvent(run, site[1], site[2]))
<1>1. site[1] \in EventType
  BY DEF Sites, EventType
<1>2. site[2] \in LEGAL_PUBLISHERS[site[1]]
  BY DEF Sites, EventType, LEGAL_PUBLISHERS
<1>3. site[2] \in Publishers
  BY <1>1, <1>2 DEF Publishers
<1> QED
  BY <1>1, <1>2, <1>3 DEF NewEvent, BlackboardEvent, Legal

\* append_event returns a bus, never one longer than the cap, that ends in the
\* event appended and before it has the newest events of the old bus in their
\* order: however full the bus was, only the oldest are evicted.
THEOREM AppendKeepsNewest ==
  ASSUME NEW bus \in Seq(BlackboardEvent), NEW e \in BlackboardEvent
  PROVE  LET new == append_event(bus, e)
         IN /\ new \in Seq(BlackboardEvent)
            /\ Len(new) = IF Len(bus) < EVENT_BUS_MAX THEN Len(bus) + 1 ELSE EVENT_BUS_MAX
            /\ new[Len(new)] = e
            /\ \A k \in 1..(Len(new) - 1) : new[k] = bus[Len(bus) + 1 - Len(new) + k]
<1> DEFINE full == Append(bus, e)
           from == Len(full) - EVENT_BUS_MAX + 1
<1>1. /\ full \in Seq(BlackboardEvent) /\ Len(full) = Len(bus) + 1 /\ full[Len(full)] = e
      /\ \A k \in 1..Len(bus) : full[k] = bus[k]
      /\ Len(bus) \in Nat
  OBVIOUS
<1>2. append_event(bus, e) =
        IF Len(full) > EVENT_BUS_MAX THEN SubSeq(full, from, Len(full)) ELSE full
  BY DEF append_event, Newest
<1>. HIDE DEF full
<1>3. CASE Len(full) > EVENT_BUS_MAX
  <2>1. /\ from \in Int /\ Len(full) \in Int
        /\ \A k \in from..Len(full) : full[k] \in BlackboardEvent
        /\ Len(full) - from + 1 = EVENT_BUS_MAX
        /\ from + EVENT_BUS_MAX - 1 = Len(full)
    BY <1>1, <1>3, BusMaxPositive
  <2>. HIDE DEF from
  <2>2. /\ SubSeq(full, from, Len(full)) \in Seq(BlackboardEvent)
        /\ Len(SubSeq(full, from, Len(full))) =
             IF from <= Len(full) THEN Len(full) - from + 1 ELSE 0
        /\ \A k \in 1..(Len(full) - from + 1) :
             SubSeq(full, from, Len(full))[k] = full[from + k - 1]
    BY <2>1, SubSeqProperties
  <2>3. Len(SubSeq(full, from, Len(full))) = EVENT_BUS_MAX
    BY <2>1, <2>2, BusMaxPositive
  <2>4. SubSeq(full, from, Len(full))[EVENT_BUS_MAX] = e
    BY <1>1, <2>1, <2>2, BusMaxPositive
  <2>5. \A k \in 1..(EVENT_BUS_MAX - 1) :
          SubSeq(full, from, Len(full))[k] = bus[Len(bus) + 1 - EVENT_BUS_MAX + k]
    <3> SUFFICES ASSUME NEW k \in 1..(EVENT_BUS_MAX - 1)
                 PROVE  SubSeq(full, from, Len(full))[k] = bus[Len(bus) + 1 - EVENT_BUS_MAX + k]
      OBVIOUS
    <3>1. SubSeq(full, from, Len(full))[k] = full[from + k - 1]
      BY <2>1, <2>2, BusMaxPositive
    <3>2. from + k - 1 = Len(bus) + 1 - EVENT_BUS_MAX + k /\ from + k - 1 \in 1..Len(bus)
      BY <1>1, <1>3, BusMaxPositive DEF from
    <3> QED BY <1>1, <3>1, <3>2
  <2>6. ~(Len(bus) < EVENT_BUS_MAX)
    BY <1>1, <1>3, BusMaxPositive
  <2>7. PICK new : new = SubSeq(full, from, Len(full))
    OBVIOUS
  <2>8. /\ new \in Seq(BlackboardEvent) /\ Len(new) = EVENT_BUS_MAX
        /\ new[Len(new)] = e
        /\ \A k \in 1..(Len(new) - 1) : new[k] = bus[Len(bus) + 1 - Len(new) + k]
    BY <2>2, <2>3, <2>4, <2>5, <2>7
  <2>9. append_event(bus, e) = new
    BY <1>2, <1>3, <2>7
  <2> QED
    BY <2>6, <2>8, <2>9
<1>4. CASE ~(Len(full) > EVENT_BUS_MAX)
  <2>1. append_event(bus, e) = full /\ Len(bus) < EVENT_BUS_MAX
    BY <1>1, <1>2, <1>4, BusMaxPositive
  <2>2. \A k \in 1..(Len(full) - 1) : full[k] = bus[Len(bus) + 1 - Len(full) + k]
    BY <1>1
  <2> QED BY <1>1, <2>1, <2>2
<1> QED
  BY <1>3, <1>4

\* mark_event_consumed changes no event's identity, order or publisher and
\* only ever adds the agent it was called with.
THEOREM MarkOnlyAdds ==
  ASSUME NEW bus \in Seq(BlackboardEvent), NEW i \in 1..Len(bus),
         NEW agent \in SpecialistNodes
  PROVE  LET woken == mark_event_consumed(bus, i, agent)
         IN /\ woken \in Seq(BlackboardEvent)
            /\ Len(woken) = Len(bus)
            /\ \A j \in 1..Len(bus) :
                 /\ SameEvent(woken[j], bus[j])
                 /\ woken[j].publisher = bus[j].publisher
                 /\ bus[j].consumed_by \subseteq woken[j].consumed_by
                 /\ woken[j].consumed_by \subseteq bus[j].consumed_by \cup {agent}
<1> DEFINE woken == mark_event_consumed(bus, i, agent)
<1>1. ASSUME NEW j \in 1..Len(bus)
      PROVE  /\ woken[j] \in BlackboardEvent
             /\ SameEvent(woken[j], bus[j])
             /\ woken[j].publisher = bus[j].publisher
             /\ bus[j].consumed_by \subseteq woken[j].consumed_by
             /\ woken[j].consumed_by \subseteq bus[j].consumed_by \cup {agent}
  <2>1. bus[j] \in BlackboardEvent
    OBVIOUS
  <2>2. woken[j] = IF SameEvent(bus[j], bus[i])
                   THEN [bus[j] EXCEPT !.consumed_by = @ \cup {agent}] ELSE bus[j]
    BY DEF mark_event_consumed
  <2>3. bus[j].consumed_by \cup {agent} \in SUBSET SpecialistNodes
    BY <2>1 DEF BlackboardEvent
  <2> QED
    BY <2>1, <2>2, <2>3 DEF BlackboardEvent, SameEvent
<1>2. woken \in [1..Len(bus) -> BlackboardEvent]
  BY <1>1 DEF mark_event_consumed
<1>3. woken \in Seq(BlackboardEvent) /\ Len(woken) = Len(bus)
  BY <1>2
<1> QED
  BY <1>1, <1>3

\* The one-wake loop breaker within a bus: next_proactive_target picks an
\* unread event, and once that event is marked for the agent it wakes, no copy
\* of it is unread in the marked bus, so a second call cannot pick it again.
THEOREM OneWake ==
  ASSUME NEW bus \in Seq(BlackboardEvent), next_proactive_target(bus) # 0
  PROVE  LET i     == next_proactive_target(bus)
             agent == EVENT_SUBSCRIPTIONS[bus[i].event_type]
             woken == mark_event_consumed(bus, i, agent)
         IN /\ i \in UnreadIndices(bus)
            /\ agent \in SpecialistNodes \ {"change_control_clerk"}
            /\ \A j \in UnreadIndices(woken) : ~SameEvent(woken[j], bus[i])
<1> DEFINE i     == next_proactive_target(bus)
           agent == EVENT_SUBSCRIPTIONS[bus[i].event_type]
           woken == mark_event_consumed(bus, i, agent)
<1>1. i \in UnreadIndices(bus)
  <2>1. UnreadIndices(bus) # {} /\ UnreadIndices(bus) \subseteq Nat
    BY DEF next_proactive_target, UnreadIndices
  <2>. DEFINE before == {p \in Nat \X Nat : p[1] < p[2]}
  <2>2. IsWellFoundedOn(before, Nat)
    <3>1. before = OpToRel(<, Nat)
      BY DEF OpToRel
    <3> QED
      BY <3>1, NatLessThanWellFounded
  <2>3. PICK m \in UnreadIndices(bus) :
          \A n \in UnreadIndices(bus) : ~(<<n, m>> \in before)
    <3>. HIDE DEF before
    <3> QED
      BY <2>1, <2>2, WFMin
  <2>4. \A n \in UnreadIndices(bus) : m <= n
    <3>1. ASSUME NEW n \in UnreadIndices(bus), n < m
          PROVE  <<n, m>> \in before
      BY <2>1, <3>1
    <3>2. \A n \in UnreadIndices(bus) : ~(n < m)
      BY <2>3, <3>1
    <3> QED
      BY <2>1, <3>2
  <2> QED
    BY <2>1, <2>4 DEF next_proactive_target
<1>2. /\ i \in 1..Len(bus)
      /\ bus[i].event_type \in DOMAIN EVENT_SUBSCRIPTIONS
      /\ agent # "change_control_clerk"
  BY <1>1 DEF UnreadIndices, Unread
<1>3. agent \in SpecialistNodes \ {"change_control_clerk"}
  BY <1>2 DEF EVENT_SUBSCRIPTIONS, SpecialistNodes
<1>4. ASSUME NEW j \in UnreadIndices(woken), SameEvent(woken[j], bus[i])
      PROVE  FALSE
  <2>1. j \in 1..Len(bus) /\ Unread(woken[j])
    BY <1>2, <1>3, MarkOnlyAdds DEF UnreadIndices
  <2>2. SameEvent(bus[j], bus[i])
    BY <1>2, <1>3, <1>4, <2>1, MarkOnlyAdds DEF SameEvent
  <2>3. woken[j] = [bus[j] EXCEPT !.consumed_by = @ \cup {agent}]
    BY <2>1, <2>2 DEF mark_event_consumed
  <2>4. agent \in woken[j].consumed_by /\ woken[j].event_type = bus[i].event_type
    BY <1>4, <2>1, <2>3 DEF SameEvent, BlackboardEvent
  <2> QED
    BY <2>1, <2>4 DEF Unread
<1> QED
  BY <1>1, <1>3, <1>4
-----------------------------------------------------------------------------
(* The operators the handlers are built from.                               *)

\* Every event a handler of the graph publishes is a BlackboardEvent.
LEMMA EventsTyped ==
  ASSUME NEW r \in Runs
  PROVE  /\ NewEvent(r, "BASELINE_SLIP_REQUESTED", "change_control_clerk") \in BlackboardEvent
         /\ NewEvent(r, "BASELINE_CHANGE_APPROVED", "baseline_commit_node") \in BlackboardEvent
         /\ NewEvent(r, "BASELINE_CHANGE_REJECTED", "baseline_commit_node") \in BlackboardEvent
         /\ NewEvent(r, "TASK_PROGRESS_LOGGED", "pmp_worker") \in BlackboardEvent
         /\ NewEvent(r, "CRITICAL_PATH_SLIPPED", "pmp_worker") \in BlackboardEvent
         /\ NewEvent(r, "BLOCKER_LOGGED", "agile_worker") \in BlackboardEvent
         /\ NewEvent(r, "RISK_FLAGGED", "governance_worker") \in BlackboardEvent
         /\ NewEvent(r, "TOLERANCE_BREACHED", "state_writeback_node") \in BlackboardEvent
         /\ NewEvent(r, "EXCEPTION_SUSPENDED", "state_writeback_node") \in BlackboardEvent
<1>1. \A site \in Sites : NewEvent(r, site[1], site[2]) \in BlackboardEvent
  BY LegalSites
<1>2. \A t, p : <<t, p>> \in Sites => NewEvent(r, t, p) \in BlackboardEvent
  BY <1>1
<1> QED
  BY <1>2 DEF Sites

\* Publishing an event keeps a PMOState a PMOState.
LEMMA PublishTyped ==
  ASSUME NEW s \in PMOState, NEW e \in BlackboardEvent
  PROVE  Publish(s, e) \in PMOState
<1>1. append_event(s.event_bus, e) \in Seq(BlackboardEvent)
  BY AppendKeepsNewest DEF PMOState
<1> QED
  BY <1>1 DEF Publish, PMOState

\* The one or two events a handler persists are a finite set.
LEMMA PairFinite ==
  ASSUME NEW a, NEW b
  PROVE  IsFiniteSet({a}) /\ IsFiniteSet({a, b})
<1>1. IsFiniteSet({a}) /\ IsFiniteSet({b})
  BY FS_Singleton
<1>2. IsFiniteSet({a} \cup {b})
  BY <1>1, FS_Union
<1>3. {a, b} = {a} \cup {b}
  OBVIOUS
<1> QED
  BY <1>1, <1>2, <1>3

\* However many of a handler's event_bus writes succeed, the table stays a
\* finite set of events.
LEMMA PersistTyped ==
  ASSUME rows \subseteq BlackboardEvent, IsFiniteSet(rows),
         NEW events \in SUBSET BlackboardEvent, IsFiniteSet(events),
         Persist(events)
  PROVE  rows' \subseteq BlackboardEvent /\ IsFiniteSet(rows')
<1>1. PICK kept \in SUBSET events : rows' = merge(rows, kept)
  BY DEF Persist
<1>2. IsFiniteSet(kept)
  BY FS_Subset
<1>3. IsFiniteSet({ f \in rows : \A e \in kept : ~SameEvent(e, f) })
  BY FS_Subset
<1> QED
  BY <1>1, <1>2, <1>3, FS_Union DEF merge

\* The router's switch-case sends to an executor that exists, whatever it was
\* given: the edge group is never left without a match.
LEMMA RouteTargetTyped ==
  ASSUME NEW failed, NEW vague_turns, NEW next_node
  PROVE  RouteTarget(failed, vague_turns, next_node) \in SpecialistNodes \cup StubNodes
BY DEF RouteTarget, StubNodes

\* One step of one run keeps pc, st, latest and out typed.
LEMMA SendTyped ==
  ASSUME TypeOK, NEW r \in Runs, NEW n \in Nodes, NEW s \in PMOState, Send(r, n, s)
  PROVE  /\ pc' \in [Runs -> Nodes]
         /\ st' \in [Runs -> PMOState]
         /\ latest' \in Checkpoints \cup {NoCheckpoint}
BY DEF TypeOK, Send, Checkpoints

\* Yielding an output keeps pc, st, latest and out typed.
LEMMA YieldTyped ==
  ASSUME TypeOK, NEW r \in Runs, NEW s \in PMOState, NEW output \in Outputs,
         Yield(r, s, output)
  PROVE  /\ pc' \in [Runs -> Nodes]
         /\ st' \in [Runs -> PMOState]
         /\ latest' \in Checkpoints \cup {NoCheckpoint}
         /\ out' \in [Runs -> Outputs]
<1>1. "done" \in Nodes
  BY DEF Nodes, Ended
<1> QED
  BY <1>1, SendTyped DEF Yield, TypeOK

\* So does an exception that leaves the handler.
LEMMA RaiseTyped ==
  ASSUME TypeOK, NEW r \in Runs, Raise(r)
  PROVE  /\ pc' \in [Runs -> Nodes]
         /\ st' \in [Runs -> PMOState]
         /\ latest' \in Checkpoints \cup {NoCheckpoint}
         /\ out' \in [Runs -> Outputs]
<1>1. "raised" \in Nodes
  BY DEF Nodes, Ended
<1> QED
  BY <1>1 DEF Raise, TypeOK

\* The retry decorator never makes more than MaxAttempts calls for one role.
LEMMA CallTyped ==
  ASSUME TypeOK, NEW r \in Runs, Call(r)
  PROVE  calls' \in [Runs -> [router : 0..MaxAttempts, specialist : 0..MaxAttempts]]
<1>1. Role(r) \in {"router", "specialist"}
  BY DEF Role
<1>2. calls[r][Role(r)] + 1 \in 0..MaxAttempts
  BY <1>1, GraphConstants DEF TypeOK, Call
<1> QED
  BY <1>1, <1>2 DEF TypeOK, Call

\* What the handlers yield are Outputs.
LEMMA PlainTyped ==
  ASSUME NEW status \in {"none", "hard_halt", "failed", "not_implemented",
                         "committed", "rejected"},
         NEW committed \in SUBSET (Payloads \cup {"baseline"})
  PROVE  /\ Output(status, committed) \in Outputs
         /\ Plain(status) \in Outputs
BY DEF Output, Plain, Outputs

\* The executors that handlers send to are Nodes.
LEMMA NodesNamed ==
  /\ InFlight \subseteq Nodes /\ Ended \subseteq Nodes /\ Pending \subseteq Nodes
  /\ SpecialistNodes \cup StubNodes \subseteq InFlight
  /\ \A n \in { "gateway_middleware", "router_node", "state_writeback_node",
                "suspend_for_veto_node", "on_veto_decision", "baseline_commit_node",
                "suspend_for_exception_node", "on_exception_decision",
                "exception_commit_node" } : n \in InFlight
BY DEF Nodes, InFlight, Ended, Pending

-----------------------------------------------------------------------------
(* Type correctness.                                                        *)

\* Before any run starts the state is typed.
LEMMA InitTyped == GraphInit => TypeOK
<1> SUFFICES ASSUME GraphInit PROVE TypeOK
  OBVIOUS
<1>1. NewState \in PMOState
  BY DEF NewState, PMOState
<1>2. Plain("none") \in Outputs
  BY PlainTyped
<1>3. "unstarted" \in Nodes
  BY DEF Nodes
<1>4. 0 \in 0..MaxAttempts
  BY GraphConstants
<1> QED
  BY <1>1, <1>2, <1>3, <1>4, FS_EmptySet DEF GraphInit, TypeOK, Callers, NoCheckpoint

\* Every handler keeps the state typed.
LEMMA StepTyped ==
  ASSUME TypeOK, NEW r \in Runs, Step(r)
  PROVE  TypeOK'
<1> USE NodesNamed
<1>0. st[r] \in PMOState /\ rows \subseteq BlackboardEvent /\ IsFiniteSet(rows)
  BY DEF TypeOK
<1>1. CASE GatewayCheck(r)
  <2>1. CASE Yield(r, st[r], Plain("hard_halt"))
    BY <1>0, <1>1, <2>1, YieldTyped, PlainTyped DEF GatewayCheck, TypeOK
  <2>2. CASE Send(r, "router_node", st[r]) /\ UNCHANGED out
    BY <1>0, <1>1, <2>2, SendTyped DEF GatewayCheck, TypeOK
  <2> QED
    BY <1>1, <2>1, <2>2 DEF GatewayCheck
<1>2. CASE RouterWake(r)
  <2>1. [st[r] EXCEPT !.wake_reason = "none", !.proactive_target = "none"] \in PMOState
    BY <1>0 DEF PMOState
  <2>2. RouteTarget(FALSE, st[r].vague_turns, st[r].proactive_target) \in Nodes
    BY RouteTargetTyped
  <2> QED
    BY <1>2, <2>1, <2>2, SendTyped DEF RouterWake, TypeOK
<1>3. CASE AttemptFails(r)
  BY <1>3, CallTyped DEF AttemptFails, TypeOK
<1>4. CASE LastAttemptFails(r)
  <2>1. CASE /\ Send(r, RouteTarget(TRUE, st[r].vague_turns, "none"), st[r])
             /\ UNCHANGED out
    <3>1. RouteTarget(TRUE, st[r].vague_turns, "none") \in Nodes
      BY RouteTargetTyped
    <3> QED
      BY <1>0, <1>4, <2>1, <3>1, SendTyped, CallTyped DEF LastAttemptFails, TypeOK
  <2>2. CASE Yield(r, st[r], Plain("failed"))
    BY <1>0, <1>4, <2>2, YieldTyped, PlainTyped, CallTyped DEF LastAttemptFails, TypeOK
  <2> QED
    BY <1>4, <2>1, <2>2 DEF LastAttemptFails
<1>5. CASE RouterDecides(r)
  <2>1. PICK d \in RouterDecisions :
          Send(r, RouteTarget(FALSE, NewVagueTurns(st[r], d), NextNode(d)),
               [st[r] EXCEPT !.vague_turns = NewVagueTurns(st[r], d)])
    BY <1>5 DEF RouterDecides
  <2>2. NewVagueTurns(st[r], d) \in Nat
    BY <1>0 DEF NewVagueTurns, PMOState
  <2>3. [st[r] EXCEPT !.vague_turns = NewVagueTurns(st[r], d)] \in PMOState
    BY <1>0, <2>2 DEF PMOState
  <2>4. RouteTarget(FALSE, NewVagueTurns(st[r], d), NextNode(d)) \in Nodes
    BY RouteTargetTyped
  <2> QED
    BY <1>5, <2>1, <2>3, <2>4, SendTyped, CallTyped DEF RouterDecides, TypeOK
<1>6. CASE DraftChange(r)
  <2> DEFINE e == NewEvent(r, "BASELINE_SLIP_REQUESTED", "change_control_clerk")
             drafted(c) == [st[r] EXCEPT !.requires_pm_veto = TRUE, !.pending_change = c]
  <2>1. PICK change_id \in Changes :
          Send(r, "suspend_for_veto_node", Publish(drafted(change_id), e)) /\ Persist({e})
    BY <1>6 DEF DraftChange
  <2>2. e \in BlackboardEvent /\ IsFiniteSet({e})
    BY EventsTyped, FS_Singleton
  <2>3. drafted(change_id) \in PMOState
    BY <1>0 DEF PMOState
  <2>4. Publish(drafted(change_id), e) \in PMOState
    BY <2>2, <2>3, PublishTyped
  <2>5. rows' \subseteq BlackboardEvent /\ IsFiniteSet(rows')
    BY <1>0, <2>1, <2>2, PersistTyped
  <2> QED
    BY <1>6, <2>1, <2>4, <2>5, SendTyped, CallTyped DEF DraftChange, TypeOK
<1>7. CASE SuspendForVeto(r)
  <2>1. "veto_pending" \in Nodes
    BY DEF Pending
  <2> QED
    BY <1>0, <1>7, <2>1, SendTyped DEF SuspendForVeto, TypeOK
<1>8. CASE OnVetoDecision(r)
  <2>1. [st[r] EXCEPT !.pm_veto_decision = VetoDecision(response[r])] \in PMOState
    BY <1>0 DEF PMOState, VetoDecision
  <2> QED
    BY <1>8, <2>1, SendTyped DEF OnVetoDecision, TypeOK
<1>9. CASE BaselineCommit(r)
  <2> DEFINE e == NewEvent(r, IF st[r].pm_veto_decision = "approved"
                              THEN "BASELINE_CHANGE_APPROVED"
                              ELSE "BASELINE_CHANGE_REJECTED", "baseline_commit_node")
             closed == [st[r] EXCEPT !.requires_pm_veto = FALSE,
                                     !.pending_change = NoChange,
                                     !.pm_veto_decision = "none"]
  <2>1. e \in BlackboardEvent /\ IsFiniteSet({e})
    BY EventsTyped, FS_Singleton
  <2>2. closed \in PMOState
    BY <1>0 DEF PMOState
  <2>3. Publish(closed, e) \in PMOState
    BY <2>1, <2>2, PublishTyped
  <2>4. rows' \subseteq BlackboardEvent /\ IsFiniteSet(rows')
    BY <1>0, <1>9, <2>1, PersistTyped DEF BaselineCommit
  <2>5. writes' \subseteq WriteKinds \X Runs
    BY <1>9 DEF BaselineCommit, TypeOK, WriteKinds
  <2>6. CASE Raise(r)
    BY <1>9, <2>4, <2>5, <2>6, RaiseTyped DEF BaselineCommit, TypeOK
  <2>7. ASSUME NEW output \in {Output("committed", {"baseline"}), RefusedOutput, Plain("rejected")},
               Yield(r, Publish(closed, e), output)
        PROVE  TypeOK'
    <3>1. output \in Outputs
      BY PlainTyped DEF RefusedOutput
    <3> QED
      BY <1>9, <2>3, <2>4, <2>5, <2>7, <3>1, YieldTyped DEF BaselineCommit, TypeOK
  <2> QED
    BY <1>9, <2>6, <2>7 DEF BaselineCommit
<1>10. CASE LogTaskProgress(r)
  <2> DEFINE e == NewEvent(r, "TASK_PROGRESS_LOGGED", "pmp_worker")
             f == NewEvent(r, "CRITICAL_PATH_SLIPPED", "pmp_worker")
             s == Publish([st[r] EXCEPT !.latest_task_progress = TRUE], e)
  <2>1. PICK slipped \in BOOLEAN :
          /\ Send(r, "state_writeback_node", IF slipped THEN Publish(s, f) ELSE s)
          /\ Persist(IF slipped THEN {e, f} ELSE {e})
    BY <1>10 DEF LogTaskProgress
  <2>2. e \in BlackboardEvent /\ f \in BlackboardEvent
    BY EventsTyped
  <2>3. IsFiniteSet({e}) /\ IsFiniteSet({e, f})
    BY PairFinite
  <2>4. [st[r] EXCEPT !.latest_task_progress = TRUE] \in PMOState
    BY <1>0 DEF PMOState
  <2>5. s \in PMOState /\ Publish(s, f) \in PMOState
    BY <2>2, <2>4, PublishTyped
  <2>6. rows' \subseteq BlackboardEvent /\ IsFiniteSet(rows')
    BY <1>0, <2>1, <2>2, <2>3, PersistTyped
  <2>. HIDE DEF s
  <2> QED
    BY <1>10, <2>1, <2>5, <2>6, SendTyped, CallTyped DEF LogTaskProgress, TypeOK
<1>11. CASE LogBlocker(r)
  <2> DEFINE e == NewEvent(r, "BLOCKER_LOGGED", "agile_worker")
  <2>1. e \in BlackboardEvent /\ IsFiniteSet({e})
    BY EventsTyped, FS_Singleton
  <2>2. [st[r] EXCEPT !.latest_blocker = TRUE] \in PMOState
    BY <1>0 DEF PMOState
  <2>3. Publish([st[r] EXCEPT !.latest_blocker = TRUE], e) \in PMOState
    BY <2>1, <2>2, PublishTyped
  <2>4. rows' \subseteq BlackboardEvent /\ IsFiniteSet(rows')
    BY <1>0, <1>11, <2>1, PersistTyped DEF LogBlocker
  <2> QED
    BY <1>11, <2>3, <2>4, SendTyped, CallTyped DEF LogBlocker, TypeOK
<1>12. CASE FlagRisk(r)
  <2> DEFINE e == NewEvent(r, "RISK_FLAGGED", "governance_worker")
             flagged(risk) == [st[r] EXCEPT !.latest_risk_escalation = risk]
  <2>1. PICK risk \in {"in_tolerance", "exception"} :
          Send(r, "state_writeback_node", Publish(flagged(risk), e)) /\ Persist({e})
    BY <1>12 DEF FlagRisk
  <2>2. e \in BlackboardEvent /\ IsFiniteSet({e})
    BY EventsTyped, FS_Singleton
  <2>3. flagged(risk) \in PMOState
    BY <1>0 DEF PMOState
  <2>4. Publish(flagged(risk), e) \in PMOState
    BY <2>2, <2>3, PublishTyped
  <2>5. rows' \subseteq BlackboardEvent /\ IsFiniteSet(rows')
    BY <1>0, <2>1, <2>2, PersistTyped
  <2> QED
    BY <1>12, <2>1, <2>4, <2>5, SendTyped, CallTyped DEF FlagRisk, TypeOK
<1>13. CASE RaiseException(r)
  <2> DEFINE e == NewEvent(r, "TOLERANCE_BREACHED", "state_writeback_node")
             f == NewEvent(r, "EXCEPTION_SUSPENDED", "state_writeback_node")
  <2>1. e \in BlackboardEvent /\ f \in BlackboardEvent /\ IsFiniteSet({e, f})
    BY EventsTyped, PairFinite
  <2>2. Publish(Publish(st[r], e), f) \in PMOState
    BY <1>0, <2>1, PublishTyped
  <2>3. rows' \subseteq BlackboardEvent /\ IsFiniteSet(rows')
    BY <1>0, <1>13, <2>1, PersistTyped DEF RaiseException
  <2> QED
    BY <1>13, <2>2, <2>3, SendTyped DEF RaiseException, TypeOK
<1>14. CASE CommitPayloads(r)
  <2>1. PICK rowsWritten \in SUBSET PresentPayloads(st[r]) :
          /\ writes' = writes \cup { <<WriteKind(st[r], p), r>> : p \in rowsWritten }
          /\ \/ Yield(r, [st[r] EXCEPT !.latest_task_progress = FALSE,
                                       !.latest_blocker = FALSE,
                                       !.latest_risk_escalation = "none"],
                   Output("committed", rowsWritten))
             \/ Raise(r)
    BY <1>14 DEF CommitPayloads, Written
  <2>2. writes' \subseteq WriteKinds \X Runs
    BY <2>1 DEF TypeOK, WriteKind, WriteKinds, PresentPayloads, Payloads
  <2>3. [st[r] EXCEPT !.latest_task_progress = FALSE, !.latest_blocker = FALSE,
                      !.latest_risk_escalation = "none"] \in PMOState
    BY <1>0 DEF PMOState
  <2>4. Output("committed", rowsWritten) \in Outputs
    BY PlainTyped DEF PresentPayloads
  <2> QED
    BY <1>14, <2>1, <2>2, <2>3, <2>4, YieldTyped, RaiseTyped DEF CommitPayloads, TypeOK
<1>15. CASE SuspendForException(r)
  <2>1. "exception_pending" \in Nodes
    BY DEF Pending
  <2> QED
    BY <1>0, <1>15, <2>1, SendTyped DEF SuspendForException, TypeOK
<1>16. CASE OnExceptionDecision(r)
  <2>1. [st[r] EXCEPT !.exception_decision = ExceptionDecision(response[r])] \in PMOState
    BY <1>0 DEF PMOState, ExceptionDecision
  <2> QED
    BY <1>16, <2>1, SendTyped DEF OnExceptionDecision, AfterException, TypeOK
<1>17. CASE ExceptionCommit(r)
  <2>1. writes' \subseteq WriteKinds \X Runs
    BY <1>17 DEF ExceptionCommit, Written, TypeOK, WriteKind, WriteKinds, PresentPayloads, Payloads
  <2>2. [st[r] EXCEPT !.latest_risk_escalation = "none",
                      !.exception_decision = "none"] \in PMOState
    BY <1>0 DEF PMOState
  <2>3. Output("committed", {"risk_escalation"}) \in Outputs
    BY PlainTyped DEF Payloads
  <2> QED
    BY <1>17, <2>1, <2>2, <2>3, YieldTyped, RaiseTyped DEF ExceptionCommit, TypeOK
<1>18. CASE Stub(r)
  BY <1>0, <1>18, YieldTyped, PlainTyped DEF Stub, TypeOK
<1>19. CASE GetLatest(r)
  BY <1>19 DEF GetLatest, TypeOK
<1> QED
  BY <1>1, <1>2, <1>3, <1>4, <1>5, <1>6, <1>7, <1>8, <1>9, <1>10, <1>11, <1>12, <1>13,
     <1>14, <1>15, <1>16, <1>17, <1>18, <1>19 DEF Step

\* The bus a proactive follow-up scans, the state's own or the reloaded one.
LEMMA ScannedBusTyped ==
  ASSUME TypeOK, NEW s \in PMOState, NEW bus \in BusToScan(s)
  PROVE  bus \in Seq(BlackboardEvent)
<1>1. CASE s.event_bus # << >>
  BY <1>1 DEF BusToScan, PMOState
<1>2. CASE s.event_bus = << >>
  <2>1. Cardinality(rows) \in Nat
    BY FS_CardinalityType DEF TypeOK
  <2>2. bus \in [1..Cardinality(rows) -> rows]
    BY <1>2 DEF BusToScan
  <2>3. bus \in [1..Cardinality(rows) -> BlackboardEvent]
    BY <2>2 DEF TypeOK
  <2> QED
    BY <2>1, <2>3
<1> QED
  BY <1>1, <1>2

\* A caller's step: a new turn, a proactive sibling run, a resumption.
LEMMA FollowupTyped ==
  ASSUME TypeOK, NEW r \in Runs, NEW s \in PMOState, StartFollowup(r, s)
  PROVE  TypeOK'
<1> DEFINE i(bus)     == next_proactive_target(bus)
           agent(bus) == EVENT_SUBSCRIPTIONS[bus[i(bus)].event_type]
           woken(bus) == mark_event_consumed(bus, i(bus), agent(bus))
<1>1. PICK bus \in BusToScan(s) :
        /\ i(bus) # 0
        /\ Persist({woken(bus)[i(bus)]})
        /\ st' = [st EXCEPT ![r] = [s EXCEPT !.event_bus = woken(bus),
                                             !.wake_reason = "event_bus",
                                             !.proactive_target = agent(bus)]]
  BY DEF StartFollowup
<1>2. bus \in Seq(BlackboardEvent)
  BY ScannedBusTyped
<1>3. i(bus) \in 1..Len(bus) /\ agent(bus) \in SpecialistNodes
  BY <1>1, <1>2, OneWake DEF UnreadIndices
<1>4. woken(bus) \in Seq(BlackboardEvent) /\ Len(woken(bus)) = Len(bus)
  BY <1>2, <1>3, MarkOnlyAdds
<1>5. [s EXCEPT !.event_bus = woken(bus), !.wake_reason = "event_bus",
                !.proactive_target = agent(bus)] \in PMOState
  BY <1>3, <1>4 DEF PMOState
<1>6. st' \in [Runs -> PMOState]
  BY <1>1, <1>5 DEF TypeOK
<1>7. woken(bus)[i(bus)] \in BlackboardEvent
  BY <1>3, <1>4
<1>8. rows' \subseteq BlackboardEvent /\ IsFiniteSet(rows')
  BY <1>1, <1>7, FS_Singleton, PersistTyped DEF TypeOK
<1> QED
  BY <1>6, <1>8, NodesNamed DEF StartFollowup, TypeOK, Callers

\* A resumption restores a typed state from the checkpoint it was given.
LEMMA ResumeTyped ==
  ASSUME TypeOK, NEW r \in Runs, NEW checkpoint \in Checkpoints \cup {NoCheckpoint},
         NEW id, NEW resp \in Responses, Resume(r, checkpoint, id, resp)
  PROVE  TypeOK'
<1>1. checkpoint.run \in Runs
  BY DEF Resume, Checkpoints
<1>2. pc' \in [Runs -> Nodes]
  <2>1. "raised" \in Nodes /\ "on_veto_decision" \in Nodes /\ "on_exception_decision" \in Nodes
    BY DEF Nodes, InFlight, Ended
  <2> QED
    BY <2>1 DEF Resume, TypeOK
<1>3. st' \in [Runs -> PMOState] /\ origin' \in [Runs -> Runs]
  <2>1. st \in [Runs -> PMOState] /\ origin \in [Runs -> Runs]
    BY DEF TypeOK
  <2>2. \/ /\ st' = [st EXCEPT ![r] = st[checkpoint.run]]
           /\ origin' = [origin EXCEPT ![r] = checkpoint.run]
        \/ UNCHANGED << st, origin >>
    BY DEF Resume
  <2> QED
    BY <1>1, <2>1, <2>2
<1>4. /\ response' \in [Runs -> Responses \cup {"none"}]
      /\ caller' \in [Runs -> Callers]
  BY DEF Resume, TypeOK, Callers
<1> QED
  BY <1>2, <1>3, <1>4 DEF Resume, TypeOK

\* A caller that starts, follows up or resumes a run keeps the state typed.
LEMMA CallerTyped ==
  ASSUME TypeOK, NEW r \in Runs, Caller(r)
  PROVE  TypeOK'
<1>1. CASE \E s \in EntryStates : StartRun(r, s) /\ UNCHANGED rows
  BY <1>1, GraphConstants, NodesNamed DEF StartRun, TypeOK, Callers
<1>2. CASE \E s \in EntryStates : StartFollowup(r, s)
  BY <1>2, GraphConstants, FollowupTyped
<1>3. CASE \E q \in Runs : /\ pc[q] = "veto_pending"
                           /\ found[q] # NoCheckpoint
                           /\ StartFollowup(r, st[q])
  BY <1>3, FollowupTyped DEF TypeOK
<1>4. CASE \E q \in Runs, resp \in Responses : Resume(r, found[q], RequestId(q), resp)
  BY <1>4, ResumeTyped DEF TypeOK
<1> QED
  BY <1>1, <1>2, <1>3, <1>4 DEF Caller

\* A crash of the process keeps the state typed.
LEMMA CrashTyped ==
  ASSUME TypeOK, Crash
  PROVE  TypeOK'
<1>1. "raised" \in Nodes
  BY DEF Nodes, Ended
<1> QED
  BY <1>1 DEF Crash, TypeOK

\* In every run of the program, whatever its size, the graph's state stays
\* within its schemas: no handler writes a value the Pydantic models of
\* maf_graph_state.py or the Literal fields of PMOState would refuse.
THEOREM TypeCorrect == Spec => []TypeOK
<1>1. TypeOK /\ [Next]_graphVars => TypeOK'
  <2> SUFFICES ASSUME TypeOK, [Next]_graphVars PROVE TypeOK'
    OBVIOUS
  <2>1. ASSUME NEW r \in Runs, Step(r) PROVE TypeOK'
    BY <2>1, StepTyped
  <2>2. ASSUME NEW r \in Runs, Caller(r) PROVE TypeOK'
    BY <2>2, CallerTyped
  <2>3. CASE Crash
    BY <2>3, CrashTyped
  <2>4. CASE UNCHANGED graphVars
    BY <2>4 DEF graphVars, TypeOK
  <2> QED
    BY <2>1, <2>2, <2>3, <2>4 DEF Next
<1> QED
  BY InitTyped, <1>1, PTL DEF Spec
=============================================================================
