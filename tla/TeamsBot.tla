------------------------------- MODULE TeamsBot -------------------------------
(***************************************************************************)
(* The Teams bot of api/bot.py around the triage graph.  One element of    *)
(* Turns is one activity the channel delivers: a message, or the click on  *)
(* an Adaptive Card.  A turn loads its conversation's document once, works *)
(* on that copy, and writes it back at the end if its handler returned;    *)
(* turns interleave wherever the handler awaits.  A message turn makes up  *)
(* to two runs of the graph, the turn's own and a proactive sibling; a     *)
(* click makes one, the resumption of the checkpoint in the document's     *)
(* single pending slot.  All graph steps are those of TriageGraph.         *)
(*                                                                         *)
(* External: MemoryStorage (a dictionary lost on restart; a write over a   *)
(* document another turn has saved meanwhile may win or be refused), and   *)
(* the channel (a send may fail after or before it reached the user).      *)
(***************************************************************************)
EXTENDS TriageGraph

CONSTANTS
  Turns, Convs, NoConv,
  MaxLive,          \* bound: activities handled at the same time
  MaxRestarts,      \* bound: restarts of the API process
  SendMayFail       \* bound: whether send_activity may raise

VARIABLES
  doc,       \* the saved ConversationState of each conversation
  saves,     \* how often each document has been written, its e_tag
  turn,      \* the activity handlers
  cards,     \* the Adaptive Cards users can see
  restarts

botVars == << doc, saves, turn, cards, restarts >>
vars == << graphVars, botVars >>

main(t)     == <<t, "main">>
followup(t) == <<t, "followup">>

ASSUME BotConstants ==
  /\ Runs = { main(t) : t \in Turns } \cup { followup(t) : t \in Turns }
  /\ MaxLive \in Nat \ {0}
  /\ MaxRestarts \in Nat
  /\ SendMayFail \in BOOLEAN
  /\ NoConv \notin Convs
  /\ Changes \cap Runs = {}   \* an exception's request id is a fresh uuid

-----------------------------------------------------------------------------
Kinds == {"veto", "exception"}
RequestIds == Changes \cup Runs

PendingInterrupt ==
  [ kind : Kinds, checkpoint : Checkpoints \cup {NoCheckpoint}, request_id : RequestIds ]
NoPending == [ kind |-> "none", checkpoint |-> NoCheckpoint, request_id |-> NoRun ]

Document == [ pmo_state : PMOState, pending_interrupt : PendingInterrupt \cup {NoPending} ]

\* _load_pmo_state's first turn: the defaults stand for an absent document.
NewDocument == [ pmo_state |-> NewState, pending_interrupt |-> NoPending ]

\* run is the run whose proposal or exception the card shows.
Card == [ conv : Convs, kind : Kinds, request_id : RequestIds, run : Runs ]
NoCard == [ conv |-> NoConv, kind |-> "none", request_id |-> NoRun, run |-> NoRun ]

TurnPhases == { "idle", "main_run", "followup", "followup_run", "resuming",
                "saving", "ended", "refused", "failed" }
Turn ==
  [ at : TurnPhases, conv : Convs \cup {NoConv},
    doc : Document,          \* the cached copy the accessors read and set
    saves : Nat,             \* the e_tag it was loaded with
    state : PMOState,        \* the handler's local PMOState
    card : Card \cup {NoCard},
    decision : Responses \cup {"none"} ]

BotTypeOK ==
  /\ TypeOK
  /\ doc \in [Convs -> Document]
  /\ saves \in [Convs -> Nat]
  /\ turn \in [Turns -> Turn]
  /\ cards \subseteq Card
  /\ restarts \in 0..MaxRestarts

BotInit ==
  /\ GraphInit
  /\ doc = [c \in Convs |-> NewDocument]
  /\ saves = [c \in Convs |-> 0]
  /\ turn = [t \in Turns |->
       [ at |-> "idle", conv |-> NoConv, doc |-> NewDocument, saves |-> 0,
         state |-> NewState, card |-> NoCard, decision |-> "none" ]]
  /\ cards = {}
  /\ restarts = 0

Live(t) == turn[t].at \notin {"idle", "ended", "refused", "failed"}

-----------------------------------------------------------------------------
(* A message.                                                               *)

ReceiveMessage(t, c) ==
  /\ turn[t].at = "idle"
  /\ LET e == NewEvent(main(t), "TEAMS_MESSAGE_RECEIVED", "teams_bot")
         s == Publish(doc[c].pmo_state, e)
     IN /\ Persist({e})
        /\ StartRun(main(t), s)
        /\ turn' = [turn EXCEPT ![t] = [@ EXCEPT !.at = "main_run", !.conv = c,
                      !.doc = doc[c], !.saves = saves[c], !.state = s]]
  /\ UNCHANGED << doc, saves, cards, restarts >>

\* What run_turn returned for run r: it raised, or a suspension whose
\* checkpoint was looked up, or an output.
ReturnedOutputOnly(r) == pc[r] = "done"

Returned(r) == pc[r] = "done" \/ (pc[r] \in Pending /\ found[r] # NoCheckpoint)

CardForRun(c, r) ==
  [ conv |-> c, kind |-> IF pc[r] = "veto_pending" THEN "veto" ELSE "exception",
    request_id |-> r, run |-> r ]

CardFor(c, r) ==
  [ conv |-> c, kind |-> IF pc[r] = "veto_pending" THEN "veto" ELSE "exception",
    request_id |-> RequestId(r), run |-> r ]

InterruptSwapped(r) ==
  [ kind |-> IF pc[r] = "veto_pending" THEN "veto" ELSE "exception",
    checkpoint |-> RequestId(r), request_id |-> found[r] ]

InterruptFor(r) ==
  [ kind |-> IF pc[r] = "veto_pending" THEN "veto" ELSE "exception",
    checkpoint |-> found[r], request_id |-> RequestId(r) ]

\* Only a veto's state is merged back into the handler's.
Merged(s, r) ==
  IF pc[r] # "veto_pending" THEN s
  ELSE [s EXCEPT !.event_bus = st[r].event_bus,
                 !.pending_change = st[r].pending_change,
                 !.requires_pm_veto = st[r].requires_pm_veto]

\* A turn that is over keeps nothing of its context but what it was about.
Over(t, at) ==
  turn' = [turn EXCEPT ![t] = [@ EXCEPT !.at = at, !.doc = NewDocument,
                                        !.saves = 0, !.state = NewState]]

\* The handler's exception reaches on_turn_error, and save_changes is skipped.
FailTurn(t) ==
  /\ Over(t, "failed")
  /\ UNCHANGED << doc, saves, restarts >>

\* _send_result(result of run r, s): the pending slot, the activity, then the
\* PMOState; the turn goes on at the given phase.
SendResult(t, r, s, next) ==
  LET pending == IF pc[r] \in Pending THEN InterruptFor(r)
                 ELSE turn[t].doc.pending_interrupt
      shown   == IF pc[r] \in Pending THEN {CardFor(turn[t].conv, r)} ELSE {}
  IN \/ /\ cards' = cards \cup shown
        /\ turn' = [turn EXCEPT ![t] = [@ EXCEPT !.at = next, !.state = s,
                      !.doc = [pmo_state |-> s, pending_interrupt |-> pending]]]
        /\ UNCHANGED << doc, saves, restarts >>
     \/ /\ SendMayFail
        /\ cards' \in {cards, cards \cup shown}
        /\ FailTurn(t)

MainReturns(t) ==
  /\ turn[t].at = "main_run"
  /\ \/ /\ Returned(main(t))
        /\ SendResult(t, main(t), Merged(turn[t].state, main(t)),
                      IF out[main(t)].status = "hard_halt" THEN "saving" ELSE "followup")
     \/ /\ pc[main(t)] = "raised"
        /\ FailTurn(t)
        /\ UNCHANGED cards
  /\ UNCHANGED graphVars

Followup(t) ==
  /\ turn[t].at = "followup"
  /\ IF next_proactive_target(turn[t].state.event_bus) # 0
     THEN /\ StartFollowup(followup(t), turn[t].state)
          /\ turn' = [turn EXCEPT ![t].at = "followup_run"]
     ELSE /\ turn' = [turn EXCEPT ![t].at = "saving"]
          /\ UNCHANGED graphVars
  /\ UNCHANGED << doc, saves, cards, restarts >>

FollowupReturns(t) ==
  /\ turn[t].at = "followup_run"
  /\ \/ /\ Returned(followup(t))
        /\ SendResult(t, followup(t), turn[t].state, "saving")
     \/ /\ pc[followup(t)] = "raised"
        /\ FailTurn(t)
        /\ UNCHANGED cards
  /\ UNCHANGED graphVars

-----------------------------------------------------------------------------
(* A click on a card.                                                       *)

MatchesKind(pending, card) ==
  pending # NoPending /\ pending.kind = card.kind

Matches(pending, card) ==
  /\ pending # NoPending
  /\ pending.kind = card.kind
  /\ pending.request_id = card.request_id

Buttons(kind) ==
  Responses \cap (IF kind = "veto" THEN {"approved", "rejected"}
                  ELSE {"acknowledge", "escalate_to_board"})

\* _handle_card_submission and _resume_pending up to the resumption: a stale,
\* duplicate or mismatched submission is refused.
Click(t, card, decision) ==
  /\ turn[t].at = "idle"
  /\ LET c == card.conv
         pending == doc[c].pending_interrupt
     IN /\ turn' = [turn EXCEPT ![t] = [@ EXCEPT
                      !.at = IF Matches(pending, card) THEN "resuming" ELSE "refused",
                      !.conv = c, !.doc = doc[c], !.saves = saves[c],
                      !.card = card, !.decision = decision]]
        /\ IF Matches(pending, card)
           THEN Resume(main(t), pending.checkpoint, pending.request_id, decision)
           ELSE UNCHANGED graphVars
  /\ UNCHANGED << doc, saves, cards, restarts >>

\* The slot is cleared in the turn's copy only once the resumption returned,
\* and saved only if the reply could be sent.
ResumeReturns(t) ==
  /\ turn[t].at = "resuming"
  /\ \/ /\ pc[main(t)] = "done"
        /\ turn' = [turn EXCEPT ![t] = [@ EXCEPT !.at = "saving",
                                         !.doc.pending_interrupt = NoPending]]
        /\ UNCHANGED << doc, saves, restarts >>
     \/ /\ pc[main(t)] = "raised" \/ (SendMayFail /\ pc[main(t)] = "done")
        /\ FailTurn(t)
  /\ UNCHANGED cards
  /\ UNCHANGED graphVars

-----------------------------------------------------------------------------
(* on_turn: save_changes writes the whole document.                         *)
SaveChanges(t) ==
  /\ turn[t].at = "saving"
  /\ LET c == turn[t].conv
     IN \/ /\ doc' = [doc EXCEPT ![c] = turn[t].doc]
           /\ saves' = [saves EXCEPT ![c] = @ + 1]
           /\ Over(t, "ended")
           /\ UNCHANGED << cards, restarts >>
        \/ /\ saves[c] # turn[t].saves
           /\ FailTurn(t)
           /\ UNCHANGED cards
  /\ UNCHANGED graphVars

\* The API process restarts: MemoryStorage and everything in flight are lost;
\* checkpoints, tables and the cards in Teams stay.
Restart ==
  /\ restarts < MaxRestarts
  /\ restarts' = restarts + 1
  /\ doc' = [c \in Convs |-> NewDocument]
  /\ turn' = [t \in Turns |->
       IF Live(t) THEN [turn[t] EXCEPT !.at = "failed", !.doc = NewDocument,
                                       !.saves = 0, !.state = NewState]
       ELSE turn[t]]
  /\ pc' = [r \in Runs |-> IF pc[r] \in InFlight THEN "raised" ELSE pc[r]]
  /\ UNCHANGED << st, caller, calls, origin, response, out, found, latest, rows, writes >>
  /\ UNCHANGED << saves, cards >>

\* Runs of a turn move on while the turn awaits them.
GraphStep(t) ==
  /\ Live(t)
  /\ Step(main(t)) \/ Step(followup(t))
  /\ UNCHANGED botVars

Handler(t) ==
  \/ GraphStep(t) \/ MainReturns(t) \/ Followup(t) \/ FollowupReturns(t)
  \/ ResumeReturns(t) \/ SaveChanges(t)

Activity(t) ==
  /\ Cardinality({u \in Turns : Live(u)}) < MaxLive
  /\ \/ \E c \in Convs : ReceiveMessage(t, c)
     \/ \E card \in cards : \E decision \in Buttons(card.kind) : Click(t, card, decision)

BotNext == (\E t \in Turns : Handler(t) \/ Activity(t)) \/ Restart

BotSpec == BotInit /\ [][BotNext]_vars

BotFairSpec == BotSpec /\ \A t \in Turns : WF_vars(Handler(t))
-----------------------------------------------------------------------------
(* Correctness.                                                             *)

\* A human's write is the write of the card clicked: whatever turns run side
\* by side and whatever the slot held, a baseline value comes from a click on
\* Approve, and a committed exception from a click, on the card that showed
\* that very proposal or risk, in the conversation it was raised in.
StartedBy(r, t) == r \in {main(t), followup(t)}

ClickedOn(r, kind, decisions) ==
  \E t, u \in Turns :
    /\ r = main(t)
    /\ turn[t].card.kind = kind
    /\ turn[t].card.run = origin[r]
    /\ turn[t].decision \in decisions
    /\ StartedBy(origin[r], u)
    /\ turn[t].conv = turn[u].conv

ClickedApproval ==
  \A r \in Runs :
    /\ <<"baseline", r>> \in writes => ClickedOn(r, "veto", {"approved"})
    /\ <<"exception_risk", r>> \in writes => ClickedOn(r, "exception", Responses)

\* A saved pending slot can always be resolved: the user of that conversation
\* has been sent a card that the bot's stale-submission check accepts for it,
\* even when sends fail, turns fail half way and the process restarts.
SlotHasCard ==
  \A c \in Convs :
    doc[c].pending_interrupt # NoPending =>
      \E card \in cards : card.conv = c /\ Matches(doc[c].pending_interrupt, card)

\* Every activity the bot starts to handle is finished, refused or failed: no
\* turn waits for ever for a run that raised, suspended or was lost.
TurnsEnd == \A t \in Turns : Live(t) ~> ~Live(t)

-----------------------------------------------------------------------------
(* What the source says of itself, and the bot does not do.                 *)

Decided(r) == \E q \in Runs : origin[q] = r /\ q # r

\* build_app_graph: a proposal "is always vetoed by a human PM, and the outcome
\* is always committed or rejected": once the turn that posted its card has
\* been saved, an undecided proposal can still be decided by a click on it.
ProposalDecidable ==
  \A t \in Turns : \A card \in cards :
    /\ turn[t].at = "ended"
    /\ StartedBy(card.run, t)
    /\ card.kind = "veto"
    /\ ~Decided(card.run)
    => Matches(doc[card.conv].pending_interrupt, card)

\* _resume_pending: "Fail closed on a stale/duplicate/mismatched submission
\* (e.g. a double-click ...)": one proposal is decided at most once.
DecidedOnce ==
  \A q, r \in Runs :
    /\ <<"baseline", q>> \in writes /\ <<"baseline", r>> \in writes
    /\ origin[q] = origin[r]
    => q = r

\* mark_event_consumed: "Record that agent has woken on event_id (one-wake loop
\* breaker)": no two proactive runs are woken by the same event.
WokenOn(r) ==
  { << e.run, e.event_type >> :
      e \in { st[r].event_bus[i] : i \in { j \in DOMAIN st[r].event_bus :
                                            st[r].event_bus[j].consumed_by # {} } } }

WokenOnce ==
  \A q, r \in { p \in Runs : caller[p] = "maybe_run_proactive_followup" } :
    q # r => WokenOn(q) \cap WokenOn(r) = {}
=============================================================================
