----------------------------- MODULE Blackboard -----------------------------
(***************************************************************************)
(* The conversational blackboard of maf_graph_state.py: the closed set of  *)
(* event types, who may publish each of them, the capped bus a PMOState    *)
(* carries, the marks an agent leaves on an event it has woken on, and the *)
(* table of wake subscriptions of app_graph.py.  Pure operators: the       *)
(* modules that publish and wake extend this one.                          *)
(*                                                                         *)
(* An event's uuid is abstracted to the workflow run (or turn) it was      *)
(* published for and its type: no run publishes the same type twice.  Its  *)
(* payload and its timestamp are left out, and so is the check of the      *)
(* BASELINE_SLIP_REQUESTED payload's top-level keys, which the only caller *)
(* builds from a literal.                                                  *)
(***************************************************************************)
EXTENDS Naturals, Sequences, FiniteSets

CONSTANTS Runs,           \* invocations of Workflow.run
          EVENT_BUS_MAX   \* 100 in the source

ASSUME BusMaxPositive == EVENT_BUS_MAX \in Nat \ {0}

EventType ==
  { "BASELINE_SLIP_REQUESTED", "BASELINE_CHANGE_APPROVED",
    "BASELINE_CHANGE_REJECTED", "TASK_PROGRESS_LOGGED",
    "CRITICAL_PATH_SLIPPED", "BLOCKER_LOGGED", "RISK_FLAGGED",
    "TOLERANCE_BREACHED", "EXCEPTION_SUSPENDED", "EXCEPTION_RESOLVED",
    "CHASE_SENT", "CHASE_SUPPRESSED", "RAID_ARTIFACT_WRITTEN",
    "DOCUMENT_INGESTED", "TEAMS_MESSAGE_RECEIVED", "EMAIL_RECEIVED" }

RaidAgents ==
  { "risk_radar_monitor", "raid_compliance_auto_chaser",
    "lessons_learned_curator", "dependency_map_maintainer",
    "scrum_master_liaison", "eom_financial_checkpoint",
    "sprint_boundary_watchdog" }

LEGAL_PUBLISHERS ==
  [ t \in EventType |->
      CASE t = "BASELINE_SLIP_REQUESTED" -> {"change_control_clerk"}
        [] t \in {"BASELINE_CHANGE_APPROVED", "BASELINE_CHANGE_REJECTED"}
             -> {"baseline_commit_node"}
        [] t \in {"TASK_PROGRESS_LOGGED", "CRITICAL_PATH_SLIPPED"}
             -> {"pmp_worker", "pmp_schedule_specialist"}
        [] t = "BLOCKER_LOGGED" -> {"agile_worker", "agile_facilitator"}
        [] t = "RISK_FLAGGED"
             -> {"governance_worker", "prince2_governance_worker"}
        [] t = "TOLERANCE_BREACHED"
             -> { "state_writeback_node", "governance_worker",
                  "prince2_governance_worker" }
        [] t = "EXCEPTION_SUSPENDED"
             -> {"state_writeback_node", "suspend_for_exception_node"}
        [] t = "EXCEPTION_RESOLVED" -> {"exception_commit_node"}
        [] t \in {"CHASE_SENT", "CHASE_SUPPRESSED"} -> {"chasing_agent"}
        [] t = "RAID_ARTIFACT_WRITTEN" -> RaidAgents
        [] t = "DOCUMENT_INGESTED" -> {"sharepoint_delta_ingestion"}
        [] t = "TEAMS_MESSAGE_RECEIVED" -> {"teams_bot"}
        [] t = "EMAIL_RECEIVED" -> {"outlook_inbox_ingestion"} ]

Publishers == UNION { LEGAL_PUBLISHERS[t] : t \in EventType }

SpecialistNodes ==
  {"pmp_worker", "agile_worker", "governance_worker", "change_control_clerk"}

EVENT_SUBSCRIPTIONS ==
  [ t \in { "BASELINE_SLIP_REQUESTED", "CRITICAL_PATH_SLIPPED",
            "BASELINE_CHANGE_REJECTED" } |-> "governance_worker" ]

BlackboardEvent ==
  [ run : Runs, event_type : EventType, publisher : Publishers,
    consumed_by : SUBSET SpecialistNodes ]

NewEvent(run, type, publisher) ==
  [ run |-> run, event_type |-> type, publisher |-> publisher,
    consumed_by |-> {} ]

\* Two rows of the same primary key, event_id.
SameEvent(e, f) == e.run = f.run /\ e.event_type = f.event_type

-----------------------------------------------------------------------------
(* maf_graph_state.append_event.  An event that is not Legal is refused by  *)
(* an exception; every event below is built from a literal pair, and        *)
(* LegalSites (TriageGraphProofs) shows that each of these pairs is legal.  *)

Legal(e) == e.publisher \in LEGAL_PUBLISHERS[e.event_type]

Newest(bus) ==
  IF Len(bus) > EVENT_BUS_MAX
  THEN SubSeq(bus, Len(bus) - EVENT_BUS_MAX + 1, Len(bus))
  ELSE bus

append_event(bus, e) == Newest(Append(bus, e))

(* maf_graph_state.mark_event_consumed, for the event at position i.        *)
mark_event_consumed(bus, i, agent) ==
  [ j \in 1..Len(bus) |->
      IF SameEvent(bus[j], bus[i])
      THEN [bus[j] EXCEPT !.consumed_by = @ \cup {agent}]
      ELSE bus[j] ]

(* app_graph.next_proactive_target: the first unread event somebody other  *)
(* than Change Control subscribes to; 0 when there is none.                 *)
Unread(e) ==
  /\ e.event_type \in DOMAIN EVENT_SUBSCRIPTIONS
  /\ EVENT_SUBSCRIPTIONS[e.event_type] # "change_control_clerk"
  /\ EVENT_SUBSCRIPTIONS[e.event_type] \notin e.consumed_by

UnreadIndices(bus) == { i \in 1..Len(bus) : Unread(bus[i]) }

next_proactive_target(bus) ==
  IF UnreadIndices(bus) = {} THEN 0
  ELSE CHOOSE i \in UnreadIndices(bus) :
         \A j \in UnreadIndices(bus) : i <= j

(* maf_graph_state.persist_blackboard_event: session.merge by event_id.     *)
merge(rows, events) ==
  { f \in rows : \A e \in events : ~SameEvent(e, f) } \cup events
=============================================================================
