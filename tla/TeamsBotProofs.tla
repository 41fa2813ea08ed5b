---------------------------- MODULE TeamsBotProofs ----------------------------
(***************************************************************************)
(* Theorems about the Teams bot, for every number of conversations, of     *)
(* activities handled side by side, of restarts and of failed sends.  The  *)
(* graph inside the bot is moved by nothing but Moves (BotMoves), so the   *)
(* gates and the runs' invariant of TriageGateProofs hold in it too; the   *)
(* bot's own invariants say what a saved or cached document may hold and   *)
(* what a card in a conversation stands for.                               *)
(***************************************************************************)
EXTENDS TeamsBot, TriageGateProofs

-----------------------------------------------------------------------------
(* What documents hold.                                                     *)

\* A document d of conversation c, where the runs are at pcs and users see the
\* cards shown: its PMOState is not a woken one, the checkpoint of its slot is
\* still resumable, and some card of the conversation matches the slot.
DocOK(pcs, shown, c, d) ==
  /\ ~Woken(d.pmo_state)
  /\ d.pending_interrupt.checkpoint.at \in Pending =>
       pcs[d.pending_interrupt.checkpoint.run] = d.pending_interrupt.checkpoint.at
  /\ d.pending_interrupt # NoPending =>
       \E card \in shown : card.conv = c /\ Matches(d.pending_interrupt, card)

TurnOK(t) ==
  /\ turn[t].at # "idle" => turn[t].conv \in Convs
  /\ ~Woken(turn[t].state)
  /\ DocOK(pc, cards, turn[t].conv, turn[t].doc)

DocInv ==
  /\ \A c \in Convs : DocOK(pc, cards, c, doc[c])
  /\ \A t \in Turns : TurnOK(t)

\* Every run of the graph is a turn's own or its proactive sibling.
LEMMA RunsOfTurns ==
  ASSUME NEW t \in Turns
  PROVE  main(t) \in Runs /\ followup(t) \in Runs /\ main(t) # followup(t)
BY BotConstants DEF main, followup

\* The bot's own event is one append_event accepts.
LEMMA MessageEventTyped ==
  ASSUME NEW r \in Runs
  PROVE  NewEvent(r, "TEAMS_MESSAGE_RECEIVED", "teams_bot") \in BlackboardEvent
<1>1. <<"TEAMS_MESSAGE_RECEIVED", "teams_bot">> \in Sites
  BY DEF Sites
<1> QED
  BY <1>1, LegalSites

\* A PMOState that is published to stays as woken as it was.
LEMMA PublishWakesNobody ==
  ASSUME NEW s \in PMOState, NEW e
  PROVE  Woken(Publish(s, e)) <=> Woken(s)
BY DEF Publish, PMOState, Woken

\* So does one a veto's state is merged into.
LEMMA MergedTyped ==
  ASSUME TypeOK, NEW s \in PMOState, NEW r \in Runs
  PROVE  Merged(s, r) \in PMOState /\ (Woken(Merged(s, r)) <=> Woken(s))
<1>1. st[r] \in PMOState
  BY DEF TypeOK
<1>2. st[r].event_bus \in Seq(BlackboardEvent)
      /\ st[r].pending_change \in Changes \cup {NoChange} /\ st[r].requires_pm_veto \in BOOLEAN
  BY <1>1 DEF PMOState
<1>3. CASE pc[r] # "veto_pending"
  BY <1>3 DEF Merged
<1>4. CASE pc[r] = "veto_pending"
  BY <1>2, <1>4 DEF Merged, PMOState, Woken
<1> QED
  BY <1>3, <1>4

\* The defaults are a document, and an unproblematic one.
LEMMA NewDocumentOK ==
  /\ NewDocument \in Document /\ NewState \in PMOState
  /\ \A c, pcs, shown : DocOK(pcs, shown, c, NewDocument)
<1>1. NewState \in PMOState /\ ~Woken(NewState)
  BY DEF NewState, PMOState, Woken
<1> QED
  BY <1>1 DEF NewDocument, Document, DocOK, NoPending, NoCheckpoint, Pending

\* A good document stays good while suspended runs stay suspended and cards
\* are only ever added.
LEMMA DocStays ==
  ASSUME NEW pcs, NEW pcsNext, NEW shown, NEW shownNext, shown \subseteq shownNext,
         \A p \in Runs : pcs[p] \in Pending => pcsNext[p] = pcs[p],
         NEW c, NEW d \in Document, DocOK(pcs, shown, c, d)
  PROVE  DocOK(pcsNext, shownNext, c, d)
<1>1. d.pending_interrupt.checkpoint.at \in Pending =>
        d.pending_interrupt.checkpoint.run \in Runs
  <2>1. d.pending_interrupt \in PendingInterrupt \cup {NoPending}
    BY DEF Document
  <2>2. d.pending_interrupt.checkpoint \in Checkpoints \cup {NoCheckpoint}
    BY <2>1 DEF PendingInterrupt, NoPending
  <2> QED
    BY <2>2 DEF Checkpoints, NoCheckpoint, Pending
<1> QED
  BY <1>1 DEF DocOK

-----------------------------------------------------------------------------
(* What the bot does to the graph, and to turns and cards.                  *)

\* The documents' invariant gives a turn's context its types.
LEMMA TurnTyped ==
  ASSUME BotTypeOK, NEW t \in Turns
  PROVE  /\ turn[t].at \in TurnPhases /\ turn[t].conv \in Convs \cup {NoConv}
         /\ turn[t].doc \in Document /\ turn[t].doc.pmo_state \in PMOState
         /\ turn[t].doc.pending_interrupt \in PendingInterrupt \cup {NoPending}
         /\ turn[t].saves \in Nat /\ turn[t].state \in PMOState
         /\ turn[t].card \in Card \cup {NoCard}
         /\ turn[t].decision \in Responses \cup {"none"}
<1>1. turn[t] \in Turn
  BY DEF BotTypeOK
<1>2. turn[t].doc \in Document
  BY <1>1 DEF Turn
<1> QED
  BY <1>1, <1>2 DEF Turn, Document

\* The restart of the process is a crash for the graph.
LEMMA RestartMoves ==
  ASSUME TypeOK, Restart
  PROVE  Crash \/ UNCHANGED graphVars
<1>1. CASE \E r \in Runs : pc[r] \in InFlight
  BY <1>1 DEF Restart, Crash
<1>2. CASE ~(\E r \in Runs : pc[r] \in InFlight)
  <2>1. pc' = pc
    BY <1>2 DEF Restart, TypeOK
  <2> QED
    BY <2>1 DEF Restart, graphVars
<1> QED
  BY <1>1, <1>2

\* Whatever the bot does, the graph inside it makes one of its moves: in
\* particular no turn starts from a woken state, and no click hands a
\* checkpoint to the framework whose run is no longer suspended.
LEMMA BotMoves ==
  ASSUME BotTypeOK, DocInv, [BotNext]_vars
  PROVE  Moves
<1>0. TypeOK
  BY DEF BotTypeOK
<1>1. ASSUME NEW t \in Turns, GraphStep(t) PROVE Moves
  BY <1>1, RunsOfTurns DEF GraphStep, Moves
<1>2. ASSUME NEW t \in Turns,
             MainReturns(t) \/ FollowupReturns(t) \/ ResumeReturns(t) \/ SaveChanges(t)
      PROVE  Moves
  BY <1>2 DEF MainReturns, FollowupReturns, ResumeReturns, SaveChanges, Moves
<1>3. ASSUME NEW t \in Turns, Followup(t) PROVE Moves
  <2>1. turn[t].state \in PMOState
    BY TurnTyped
  <2> QED
    BY <1>3, <2>1, RunsOfTurns DEF Followup, Moves, Starts
<1>4. ASSUME NEW t \in Turns, NEW c \in Convs, ReceiveMessage(t, c) PROVE Moves
  <2>1. PICK e \in BlackboardEvent : StartRun(main(t), Publish(doc[c].pmo_state, e))
    <3>1. NewEvent(main(t), "TEAMS_MESSAGE_RECEIVED", "teams_bot") \in BlackboardEvent
      BY RunsOfTurns, MessageEventTyped
    <3> QED
      BY <1>4, <3>1 DEF ReceiveMessage
  <2>2. doc[c].pmo_state \in PMOState /\ ~Woken(doc[c].pmo_state)
    BY DEF BotTypeOK, Document, DocInv, DocOK
  <2>3. Publish(doc[c].pmo_state, e) \in PMOState /\ ~Woken(Publish(doc[c].pmo_state, e))
    BY <2>2, PublishTyped, PublishWakesNobody
  <2> QED
    BY <2>1, <2>3, RunsOfTurns DEF Moves, Starts
<1>5. ASSUME NEW t \in Turns, NEW card \in cards, NEW decision \in Buttons(card.kind),
             Click(t, card, decision)
      PROVE  Moves
  <2>1. card.conv \in Convs /\ decision \in Responses
    BY DEF BotTypeOK, Card, Buttons
  <2>2. CASE Matches(doc[card.conv].pending_interrupt, card)
    <3> DEFINE pending == doc[card.conv].pending_interrupt
    <3>1. pending.checkpoint \in Checkpoints \cup {NoCheckpoint}
      <4>1. pending \in PendingInterrupt \cup {NoPending}
        BY <2>1 DEF BotTypeOK, Document
      <4> QED
        BY <4>1 DEF PendingInterrupt, NoPending
    <3>2. HeldBy(pending.checkpoint)
      BY <2>1 DEF DocInv, DocOK, HeldBy
    <3>3. Resume(main(t), pending.checkpoint, pending.request_id, decision)
      BY <1>5, <2>2 DEF Click
    <3>. HIDE DEF pending
    <3>4. Resumes(main(t))
      BY <2>1, <3>1, <3>2, <3>3 DEF Resumes
    <3> QED
      BY <3>4, RunsOfTurns DEF Moves
  <2>3. CASE ~Matches(doc[card.conv].pending_interrupt, card)
    BY <1>5, <2>3 DEF Click, Moves
  <2> QED
    BY <2>2, <2>3
<1>6. CASE Restart
  BY <1>0, <1>6, RestartMoves DEF Moves
<1>7. CASE UNCHANGED vars
  BY <1>7 DEF vars, Moves
<1> QED
  BY <1>1, <1>2, <1>3, <1>4, <1>5, <1>6, <1>7 DEF BotNext, Handler, Activity

-----------------------------------------------------------------------------
(* Types and documents are kept.                                            *)

\* A suspended run stays suspended, with its state, whatever the graph does.
LEMMA SuspendedStay ==
  ASSUME TypeOK, GateInv, RunInv, Moves, NEW p \in Runs, pc[p] \in Pending
  PROVE  pc'[p] = pc[p] /\ st'[p] = st[p]
<1>1. ASSUME NEW r \in Runs, Step(r) PROVE pc'[p] = pc[p] /\ st'[p] = st[p]
  BY <1>1, StepFrame, StepOfRun DEF Frame, RunStep, Keeps
<1>2. ASSUME NEW r \in Runs, Starts(r) PROVE pc'[p] = pc[p] /\ st'[p] = st[p]
  BY <1>2, StartFrame DEF StartsAtGateway, TypeOK, Pending
<1>3. ASSUME NEW r \in Runs, Resumes(r) PROVE pc'[p] = pc[p] /\ st'[p] = st[p]
  BY <1>3 DEF Resumes, Resume, TypeOK, Pending
<1>4. CASE Crash
  BY <1>4 DEF Crash, Pending, InFlight, SpecialistNodes, StubNodes
<1>5. CASE UNCHANGED graphVars
  BY <1>5 DEF graphVars
<1> QED
  BY <1>1, <1>2, <1>3, <1>4, <1>5 DEF Moves

\* The graph's types are kept by whatever the bot does to it.
LEMMA MovesTyped ==
  ASSUME BotTypeOK, DocInv, [BotNext]_vars
  PROVE  TypeOK'
<1>0. TypeOK
  BY DEF BotTypeOK
<1>1. ASSUME NEW t \in Turns, GraphStep(t) PROVE TypeOK'
  BY <1>0, <1>1, RunsOfTurns, StepTyped DEF GraphStep
<1>2. CASE UNCHANGED graphVars
  BY <1>0, <1>2 DEF graphVars, TypeOK
<1>3. ASSUME NEW t \in Turns, Followup(t) PROVE TypeOK'
  <2>1. turn[t].state \in PMOState
    BY TurnTyped
  <2> QED
    BY <1>0, <1>2, <1>3, <2>1, RunsOfTurns, FollowupTyped DEF Followup
<1>4. ASSUME NEW t \in Turns, NEW c \in Convs, ReceiveMessage(t, c) PROVE TypeOK'
  <2>1. PICK e \in BlackboardEvent :
          StartRun(main(t), Publish(doc[c].pmo_state, e)) /\ Persist({e})
    <3>1. NewEvent(main(t), "TEAMS_MESSAGE_RECEIVED", "teams_bot") \in BlackboardEvent
      BY RunsOfTurns, MessageEventTyped
    <3> QED
      BY <1>4, <3>1 DEF ReceiveMessage
  <2>2. doc[c].pmo_state \in PMOState
    BY DEF BotTypeOK, Document
  <2>3. Publish(doc[c].pmo_state, e) \in PMOState
    BY <2>2, PublishTyped
  <2>4. rows' \subseteq BlackboardEvent /\ IsFiniteSet(rows')
    <3>1. {e} \in SUBSET BlackboardEvent /\ IsFiniteSet({e})
      BY PairFinite
    <3> QED
      BY <1>0, <2>1, <3>1, PersistTyped DEF TypeOK
  <2>5. "gateway_middleware" \in Nodes /\ "run_turn" \in Callers
    BY NodesNamed DEF Callers
  <2> QED
    BY <1>0, <2>1, <2>3, <2>4, <2>5, RunsOfTurns DEF StartRun, TypeOK
<1>5. ASSUME NEW t \in Turns, NEW card \in cards, NEW decision \in Buttons(card.kind),
             Click(t, card, decision)
      PROVE  TypeOK'
  <2>1. card.conv \in Convs /\ decision \in Responses
    BY DEF BotTypeOK, Card, Buttons
  <2>2. CASE UNCHANGED graphVars
    BY <1>0, <2>2 DEF graphVars, TypeOK
  <2>3. ASSUME Resume(main(t), doc[card.conv].pending_interrupt.checkpoint,
                      doc[card.conv].pending_interrupt.request_id, decision)
        PROVE  TypeOK'
    <3>1. doc[card.conv].pending_interrupt.checkpoint \in Checkpoints \cup {NoCheckpoint}
      <4>1. doc[card.conv].pending_interrupt \in PendingInterrupt \cup {NoPending}
        BY <2>1 DEF BotTypeOK, Document
      <4> QED
        BY <4>1 DEF PendingInterrupt, NoPending
    <3> QED
      BY <1>0, <2>1, <2>3, <3>1, ResumeTyped, RunsOfTurns
  <2> QED
    BY <1>5, <2>2, <2>3 DEF Click
<1>6. CASE Restart
  BY <1>0, <1>2, <1>6, RestartMoves, CrashTyped
<1>7. CASE UNCHANGED vars
  BY <1>2, <1>7 DEF vars
<1>8. ASSUME NEW t \in Turns,
             MainReturns(t) \/ FollowupReturns(t) \/ ResumeReturns(t) \/ SaveChanges(t)
      PROVE  TypeOK'
  BY <1>2, <1>8 DEF MainReturns, FollowupReturns, ResumeReturns, SaveChanges
<1> QED
  BY <1>1, <1>3, <1>4, <1>5, <1>6, <1>7, <1>8 DEF BotNext, Handler, Activity

\* When one turn moves on, the bot's types and documents are kept if they are
\* for the turn's new context.
LEMMA OneTurnMoves ==
  ASSUME BotTypeOK, DocInv, TypeOK', NEW t \in Turns, NEW new \in Turn,
         \A p \in Runs : pc[p] \in Pending => pc'[p] = pc[p],
         turn' = [turn EXCEPT ![t] = new],
         cards \subseteq cards', cards' \subseteq Card,
         new.at # "idle" => new.conv \in Convs,
         ~Woken(new.state), DocOK(pc', cards', new.conv, new.doc),
         UNCHANGED << doc, saves, restarts >>
  PROVE  BotTypeOK' /\ DocInv'
<1>1. BotTypeOK'
  BY DEF BotTypeOK
<1>2. ASSUME NEW c \in Convs PROVE DocOK(pc', cards', c, doc'[c])
  <2>1. doc[c] \in Document /\ DocOK(pc, cards, c, doc[c])
    BY DEF BotTypeOK, DocInv
  <2> QED
    BY <2>1, DocStays
<1>3. ASSUME NEW u \in Turns PROVE TurnOK(u)'
  <2>1. CASE u = t
    <3>1. turn'[u] = new
      BY <2>1 DEF BotTypeOK
    <3> QED
      BY <3>1 DEF TurnOK
  <2>2. CASE u # t
    <3>1. turn'[u] = turn[u]
      BY <2>2 DEF BotTypeOK
    <3>2. TurnOK(u) /\ turn[u].doc \in Document
      BY TurnTyped DEF DocInv
    <3>3. DocOK(pc', cards', turn[u].conv, turn[u].doc)
      BY <3>2, DocStays DEF TurnOK
    <3> QED
      BY <3>1, <3>2, <3>3 DEF TurnOK
  <2> QED
    BY <2>1, <2>2
<1>4. DocInv'
  BY <1>2, <1>3 DEF DocInv
<1> QED
  BY <1>1, <1>4

\* The slot filled for a suspended run, and the card shown for it, go together.
LEMMA SuspensionShown ==
  ASSUME BotTypeOK, GateInv, RunInv, NEW r \in Runs, pc[r] \in Pending, NEW c \in Convs
  PROVE  /\ RequestId(r) \in RequestIds
         /\ CardFor(c, r) \in Card /\ CardFor(c, r).conv = c
         /\ InterruptFor(r) \in PendingInterrupt
         /\ Matches(InterruptFor(r), CardFor(c, r))
<1>1. RequestId(r) \in RequestIds
  BY DEF RunInv, OneRunInv, OutputInv, RequestId, RequestIds
<1>2. found[r] \in Checkpoints \cup {NoCheckpoint}
  BY DEF BotTypeOK, TypeOK
<1>3. InterruptFor(r) # NoPending
  BY DEF InterruptFor, NoPending
<1> QED
  BY <1>1, <1>2, <1>3 DEF CardFor, Card, InterruptFor, PendingInterrupt, Kinds, Matches

\* A turn that is over keeps no context that could be wrong.
LEMMA OverKept ==
  ASSUME BotTypeOK, DocInv, TypeOK', NEW t \in Turns, turn[t].at # "idle",
         NEW at \in {"ended", "refused", "failed"}, Over(t, at),
         \A p \in Runs : pc[p] \in Pending => pc'[p] = pc[p],
         cards \subseteq cards', cards' \subseteq Card,
         UNCHANGED << doc, saves, restarts >>
  PROVE  BotTypeOK' /\ DocInv'
<1> DEFINE new == [turn[t] EXCEPT !.at = at, !.doc = NewDocument,
                                  !.saves = 0, !.state = NewState]
<1>1. turn[t] \in Turn /\ turn[t].conv \in Convs
  BY DEF BotTypeOK, DocInv, TurnOK
<1>2. new \in Turn /\ new.conv = turn[t].conv /\ new.doc = NewDocument /\ new.state = NewState
  BY <1>1, NewDocumentOK DEF Turn, TurnPhases
<1>3. ~Woken(NewState) /\ DocOK(pc', cards', turn[t].conv, NewDocument)
  BY NewDocumentOK DEF NewState, Woken
<1>4. turn' = [turn EXCEPT ![t] = new]
  BY DEF Over
<1>. HIDE DEF new
<1> QED
  BY <1>1, <1>2, <1>3, <1>4, OneTurnMoves

\* _send_result: whether the activity is sent, lost or sent and then reported
\* as failed, the slot of the turn's copy has its card.
LEMMA SendResultKept ==
  ASSUME BotTypeOK, GateInv, RunInv, DocInv, TypeOK', UNCHANGED graphVars,
         NEW t \in Turns, turn[t].at # "idle", NEW r \in Runs, Returned(r),
         NEW s \in PMOState, ~Woken(s), NEW next \in TurnPhases,
         SendResult(t, r, s, next)
  PROVE  BotTypeOK' /\ DocInv'
<1> DEFINE pending == IF pc[r] \in Pending THEN InterruptFor(r)
                      ELSE turn[t].doc.pending_interrupt
           shown   == IF pc[r] \in Pending THEN {CardFor(turn[t].conv, r)} ELSE {}
           new     == [turn[t] EXCEPT !.at = next, !.state = s,
                         !.doc = [pmo_state |-> s, pending_interrupt |-> pending]]
<1>1. turn[t].conv \in Convs /\ turn[t] \in Turn /\ cards \subseteq Card
  BY DEF BotTypeOK, DocInv, TurnOK
<1>2. shown \subseteq Card
  BY <1>1, SuspensionShown
<1>3. \A p \in Runs : pc[p] \in Pending => pc'[p] = pc[p]
  BY DEF graphVars
<1>4. CASE /\ cards' = cards \cup shown
           /\ turn' = [turn EXCEPT ![t] = new]
           /\ UNCHANGED << doc, saves, restarts >>
  <2>1. pending \in PendingInterrupt \cup {NoPending}
    BY <1>1, SuspensionShown, TurnTyped
  <2>2. /\ pending.checkpoint.at \in Pending =>
             pc[pending.checkpoint.run] = pending.checkpoint.at
        /\ pending # NoPending =>
             \E card \in cards \cup shown :
               card.conv = turn[t].conv /\ Matches(pending, card)
    <3>1. CASE pc[r] \in Pending
      <4>1. HeldBy(found[r])
        BY DEF GateInv
      <4>2. pending = InterruptFor(r) /\ CardFor(turn[t].conv, r) \in shown
        BY <3>1
      <4>3. pending.checkpoint = found[r]
        BY <4>2 DEF InterruptFor
      <4>4. /\ CardFor(turn[t].conv, r).conv = turn[t].conv
            /\ Matches(pending, CardFor(turn[t].conv, r))
        BY <1>1, <3>1, <4>2, SuspensionShown
      <4>. HIDE DEF pending, shown
      <4> QED
        BY <4>1, <4>2, <4>3, <4>4 DEF HeldBy
    <3>2. CASE pc[r] \notin Pending
      BY <3>2 DEF DocInv, TurnOK, DocOK
    <3> QED
      BY <3>1, <3>2
  <2>3. /\ new \in Turn /\ new.conv = turn[t].conv /\ new.state = s
        /\ new.doc.pmo_state = s /\ new.doc.pending_interrupt = pending
    <3>. HIDE DEF pending
    <3> QED
      BY <1>1, <2>1 DEF Turn, Document
  <2>4. DocOK(pc', cards', new.conv, new.doc)
    <3>. HIDE DEF pending, shown, new
    <3> QED
      BY <1>4, <2>2, <2>3 DEF DocOK, graphVars
  <2>. HIDE DEF pending, shown, new
  <2> QED
    BY <1>1, <1>2, <1>3, <1>4, <2>3, <2>4, OneTurnMoves
<1>5. CASE cards' \in {cards, cards \cup shown} /\ FailTurn(t)
  <2>. HIDE DEF shown
  <2> QED
    BY <1>1, <1>2, <1>3, <1>5, OverKept DEF FailTurn
<1> QED
  BY <1>4, <1>5 DEF SendResult

\* A click takes the conversation's document as it is saved.
LEMMA ClickKept ==
  ASSUME BotTypeOK, DocInv, TypeOK',
         NEW t \in Turns, NEW card \in cards, NEW decision \in Buttons(card.kind),
         Click(t, card, decision),
         \A p \in Runs : pc[p] \in Pending => pc'[p] = pc[p]
  PROVE  BotTypeOK' /\ DocInv'
<1> DEFINE c   == card.conv
           at  == IF Matches(doc[c].pending_interrupt, card) THEN "resuming" ELSE "refused"
           new == [turn[t] EXCEPT !.at = at, !.conv = c, !.doc = doc[c], !.saves = saves[c],
                                  !.card = card, !.decision = decision]
<1>1. /\ card \in Card /\ c \in Convs /\ decision \in Responses
      /\ at \in TurnPhases /\ cards \subseteq Card
  BY DEF BotTypeOK, Card, Buttons, TurnPhases
<1>2. /\ turn[t] \in Turn /\ ~Woken(turn[t].state) /\ doc[c] \in Document /\ saves[c] \in Nat
      /\ DocOK(pc, cards, c, doc[c])
  BY <1>1 DEF BotTypeOK, DocInv, TurnOK
<1>3. turn' = [turn EXCEPT ![t] = new] /\ UNCHANGED << doc, saves, cards, restarts >>
  BY DEF Click
<1>4. DocOK(pc', cards', c, doc[c])
  BY <1>2, <1>3, DocStays
<1>. HIDE DEF at, c
<1>5. new \in Turn /\ new.conv = c /\ new.doc = doc[c] /\ new.state = turn[t].state
  BY <1>1, <1>2 DEF Turn
<1>. HIDE DEF new
<1> QED
  BY <1>1, <1>2, <1>3, <1>4, <1>5, OneTurnMoves

\* So does a message, whose turn works on a copy it has published its event to.
LEMMA MessageKept ==
  ASSUME BotTypeOK, DocInv, TypeOK', NEW t \in Turns, NEW c \in Convs, ReceiveMessage(t, c),
         \A p \in Runs : pc[p] \in Pending => pc'[p] = pc[p]
  PROVE  BotTypeOK' /\ DocInv'
<1> DEFINE e   == NewEvent(main(t), "TEAMS_MESSAGE_RECEIVED", "teams_bot")
           s   == Publish(doc[c].pmo_state, e)
           new == [turn[t] EXCEPT !.at = "main_run", !.conv = c, !.doc = doc[c],
                                  !.saves = saves[c], !.state = s]
<1>1. e \in BlackboardEvent
  BY RunsOfTurns, MessageEventTyped
<1>2. /\ turn[t] \in Turn /\ cards \subseteq Card /\ doc[c] \in Document /\ saves[c] \in Nat
      /\ DocOK(pc, cards, c, doc[c])
  BY DEF BotTypeOK, DocInv, TurnOK
<1>3. s \in PMOState /\ ~Woken(s)
  <2>1. doc[c].pmo_state \in PMOState /\ ~Woken(doc[c].pmo_state)
    BY <1>2 DEF Document, DocOK
  <2>. HIDE DEF e
  <2> QED
    BY <1>1, <2>1, PublishTyped, PublishWakesNobody
<1>4. turn' = [turn EXCEPT ![t] = new] /\ UNCHANGED << doc, saves, cards, restarts >>
  BY DEF ReceiveMessage
<1>5. DocOK(pc', cards', c, doc[c])
  BY <1>2, <1>4, DocStays
<1>. HIDE DEF s, e
<1>6. new \in Turn /\ new.conv = c /\ new.doc = doc[c] /\ new.state = s
  BY <1>2, <1>3 DEF Turn, TurnPhases
<1>. HIDE DEF new
<1> QED
  BY <1>2, <1>3, <1>4, <1>5, <1>6, OneTurnMoves

\* What save_changes writes over the saved document is as good as the copy.
LEMMA SaveKept ==
  ASSUME BotTypeOK, DocInv, TypeOK', NEW t \in Turns, SaveChanges(t)
  PROVE  BotTypeOK' /\ DocInv'
<1> DEFINE c == turn[t].conv
<1>1. /\ turn[t].at # "idle" /\ c \in Convs /\ cards \subseteq Card
      /\ turn[t].doc \in Document /\ DocOK(pc, cards, c, turn[t].doc)
  BY TurnTyped DEF SaveChanges, BotTypeOK, DocInv, TurnOK
<1>2. UNCHANGED graphVars /\ UNCHANGED << cards, restarts >>
  BY DEF SaveChanges, FailTurn
<1>3. \A p \in Runs : pc[p] \in Pending => pc'[p] = pc[p]
  BY <1>2 DEF graphVars
<1>4. CASE FailTurn(t)
  BY <1>1, <1>2, <1>3, <1>4, OverKept DEF FailTurn
<1>5. CASE /\ doc' = [doc EXCEPT ![c] = turn[t].doc]
           /\ saves' = [saves EXCEPT ![c] = saves[c] + 1]
           /\ Over(t, "ended")
  <2> DEFINE new == [turn[t] EXCEPT !.at = "ended", !.doc = NewDocument,
                                    !.saves = 0, !.state = NewState]
  <2>1. turn[t] \in Turn
    BY DEF BotTypeOK
  <2>2. new \in Turn /\ new.conv = c /\ new.doc = NewDocument /\ new.state = NewState
    BY <2>1, NewDocumentOK DEF Turn, TurnPhases
  <2>3. turn' = [turn EXCEPT ![t] = new]
    BY <1>5 DEF Over
  <2>. HIDE DEF new, c
  <2>4. BotTypeOK'
    BY <1>1, <1>2, <1>5, <2>2, <2>3 DEF BotTypeOK
  <2>5. ASSUME NEW k \in Convs PROVE DocOK(pc', cards', k, doc'[k])
    <3>1. doc[k] \in Document /\ DocOK(pc, cards, k, doc[k])
      BY DEF BotTypeOK, DocInv
    <3>2. doc'[k] = IF k = c THEN turn[t].doc ELSE doc[k]
      BY <1>1, <1>5 DEF BotTypeOK
    <3>3. cards \subseteq cards'
      BY <1>2
    <3> QED
      BY <1>1, <1>3, <3>1, <3>2, <3>3, DocStays
  <2>6. ASSUME NEW u \in Turns PROVE TurnOK(u)'
    <3>1. CASE u = t
      <4>1. turn'[u] = new
        BY <2>3, <3>1 DEF BotTypeOK
      <4>2. ~Woken(NewState) /\ DocOK(pc', cards', c, NewDocument)
        BY NewDocumentOK DEF NewState, Woken
      <4> QED
        BY <1>1, <2>2, <4>1, <4>2 DEF TurnOK
    <3>2. CASE u # t
      <4>1. turn'[u] = turn[u]
        BY <2>3, <3>2 DEF BotTypeOK
      <4> QED
        BY <1>2, <4>1 DEF TurnOK, DocInv, graphVars
    <3> QED
      BY <3>1, <3>2
  <2> QED
    BY <2>4, <2>5, <2>6 DEF DocInv
<1> QED
  BY <1>4, <1>5 DEF SaveChanges

\* A restart forgets documents and copies, which makes them the defaults.
LEMMA RestartKept ==
  ASSUME BotTypeOK, DocInv, TypeOK', Restart,
         \A p \in Runs : pc[p] \in Pending => pc'[p] = pc[p]
  PROVE  BotTypeOK' /\ DocInv'
<1>1. /\ NewDocument \in Document /\ NewState \in PMOState /\ ~Woken(NewState)
      /\ \A c : DocOK(pc', cards', c, NewDocument)
  BY NewDocumentOK DEF NewState, Woken
<1>2. ASSUME NEW u \in Turns
      PROVE  /\ turn'[u] \in Turn
             /\ TurnOK(u)'
  <2> DEFINE lost == [turn[u] EXCEPT !.at = "failed", !.doc = NewDocument,
                                     !.saves = 0, !.state = NewState]
  <2>1. turn[u] \in Turn /\ TurnOK(u) /\ cards' = cards
    BY DEF BotTypeOK, DocInv, Restart
  <2>2. turn'[u] = IF Live(u) THEN lost ELSE turn[u]
    BY DEF Restart
  <2>3. CASE Live(u)
    <3>1. lost \in Turn /\ lost.conv = turn[u].conv /\ lost.at = "failed"
          /\ lost.doc = NewDocument /\ lost.state = NewState
      BY <1>1, <2>1 DEF Turn, TurnPhases
    <3>. HIDE DEF lost
    <3> QED
      BY <1>1, <2>1, <2>2, <2>3, <3>1 DEF TurnOK, Live
  <2>4. CASE ~Live(u)
    <3>1. turn'[u] = turn[u] /\ turn[u].doc \in Document
      BY <2>2, <2>4, TurnTyped
    <3>2. DocOK(pc', cards', turn[u].conv, turn[u].doc)
      BY <2>1, <3>1, DocStays DEF TurnOK
    <3> QED
      BY <2>1, <3>1, <3>2 DEF TurnOK
  <2> QED
    BY <2>3, <2>4
<1>3. turn' \in [Turns -> Turn]
  BY <1>2 DEF Restart
<1>4. restarts' \in 0..MaxRestarts
  <2>1. MaxRestarts \in Nat
    BY BotConstants
  <2>2. restarts \in 0..MaxRestarts /\ restarts < MaxRestarts /\ restarts' = restarts + 1
    BY DEF Restart, BotTypeOK
  <2> QED
    BY <2>1, <2>2
<1>5. BotTypeOK'
  BY <1>1, <1>3, <1>4 DEF Restart, BotTypeOK
<1>6. \A c \in Convs : DocOK(pc', cards', c, doc'[c])
  BY <1>1 DEF Restart
<1> QED
  BY <1>2, <1>5, <1>6 DEF DocInv

\* Every step of the bot keeps its types and its documents.
LEMMA BotKept ==
  ASSUME BotTypeOK, GateInv, RunInv, DocInv, [BotNext]_vars
  PROVE  BotTypeOK' /\ DocInv'
<1>1. TypeOK' /\ TypeOK /\ Moves
  BY MovesTyped, BotMoves DEF BotTypeOK
<1>2. \A p \in Runs : pc[p] \in Pending => pc'[p] = pc[p]
  BY <1>1, SuspendedStay
<1>3. cards \subseteq Card
  BY DEF BotTypeOK
<1>4. CASE UNCHANGED botVars
  <2>1. BotTypeOK'
    BY <1>1, <1>4 DEF BotTypeOK, botVars
  <2>2. ASSUME NEW c \in Convs PROVE DocOK(pc', cards', c, doc'[c])
    <3>1. doc[c] \in Document /\ DocOK(pc, cards, c, doc[c])
      BY DEF BotTypeOK, DocInv
    <3> QED
      BY <1>2, <1>4, <3>1, DocStays DEF botVars
  <2>3. ASSUME NEW u \in Turns PROVE TurnOK(u)'
    <3>1. turn[u].doc \in Document /\ TurnOK(u)
      BY TurnTyped DEF DocInv
    <3>2. DocOK(pc', cards', turn[u].conv, turn[u].doc)
      BY <1>2, <1>4, <3>1, DocStays DEF botVars, TurnOK
    <3> QED
      BY <1>4, <3>1, <3>2 DEF botVars, TurnOK
  <2> QED
    BY <2>1, <2>2, <2>3 DEF DocInv
<1>5. ASSUME NEW t \in Turns, MainReturns(t) PROVE BotTypeOK' /\ DocInv'
  <2>1. /\ turn[t].at # "idle" /\ UNCHANGED graphVars
        /\ turn[t].state \in PMOState /\ ~Woken(turn[t].state)
    BY <1>5, TurnTyped DEF MainReturns, DocInv, TurnOK
  <2>2. CASE FailTurn(t) /\ UNCHANGED cards
    BY <1>1, <1>2, <1>3, <2>1, <2>2, OverKept DEF FailTurn
  <2>3. ASSUME NEW next \in {"saving", "followup"}, Returned(main(t)),
               SendResult(t, main(t), Merged(turn[t].state, main(t)), next)
        PROVE  BotTypeOK' /\ DocInv'
    <3>1. /\ Merged(turn[t].state, main(t)) \in PMOState
          /\ ~Woken(Merged(turn[t].state, main(t)))
      BY <1>1, <2>1, MergedTyped, RunsOfTurns
    <3>2. next \in TurnPhases
      BY DEF TurnPhases
    <3> QED
      BY <1>1, <2>1, <2>3, <3>1, <3>2, RunsOfTurns, SendResultKept
  <2> QED
    BY <1>5, <2>2, <2>3 DEF MainReturns
<1>6. ASSUME NEW t \in Turns, FollowupReturns(t) PROVE BotTypeOK' /\ DocInv'
  <2>1. /\ turn[t].at # "idle" /\ UNCHANGED graphVars
        /\ turn[t].state \in PMOState /\ ~Woken(turn[t].state)
    BY <1>6, TurnTyped DEF FollowupReturns, DocInv, TurnOK
  <2>2. CASE FailTurn(t) /\ UNCHANGED cards
    BY <1>1, <1>2, <1>3, <2>1, <2>2, OverKept DEF FailTurn
  <2>3. CASE Returned(followup(t)) /\ SendResult(t, followup(t), turn[t].state, "saving")
    <3>1. "saving" \in TurnPhases
      BY DEF TurnPhases
    <3> QED
      BY <1>1, <2>1, <2>3, <3>1, RunsOfTurns, SendResultKept
  <2> QED
    BY <1>6, <2>2, <2>3 DEF FollowupReturns
<1>7. ASSUME NEW t \in Turns, Followup(t) PROVE BotTypeOK' /\ DocInv'
  <2>1. PICK at \in {"followup_run", "saving"} :
          turn' = [turn EXCEPT ![t] = [turn[t] EXCEPT !.at = at]]
    BY <1>7 DEF Followup
  <2> DEFINE new == [turn[t] EXCEPT !.at = at]
  <2>2. /\ turn[t] \in Turn /\ TurnOK(t) /\ turn[t].at # "idle" /\ turn[t].doc \in Document
        /\ UNCHANGED << doc, saves, cards, restarts >>
    BY <1>7, TurnTyped DEF Followup, BotTypeOK, DocInv
  <2>3. new \in Turn /\ new.conv = turn[t].conv /\ new.doc = turn[t].doc
        /\ new.state = turn[t].state
    BY <2>2 DEF Turn, TurnPhases
  <2>4. DocOK(pc', cards', new.conv, new.doc)
    BY <1>2, <2>2, <2>3, DocStays DEF TurnOK
  <2>5. turn' = [turn EXCEPT ![t] = new]
    BY <2>1
  <2>. HIDE DEF new
  <2> QED
    BY <1>1, <1>2, <1>3, <2>2, <2>3, <2>4, <2>5, OneTurnMoves DEF TurnOK
<1>8. ASSUME NEW t \in Turns, ResumeReturns(t) PROVE BotTypeOK' /\ DocInv'
  <2>1. turn[t].at # "idle" /\ UNCHANGED cards
    BY <1>8 DEF ResumeReturns
  <2>2. CASE FailTurn(t)
    BY <1>1, <1>2, <1>3, <2>1, <2>2, OverKept DEF FailTurn
  <2>3. CASE /\ turn' = [turn EXCEPT ![t] = [turn[t] EXCEPT !.at = "saving",
                                   !.doc = [turn[t].doc EXCEPT !.pending_interrupt = NoPending]]]
             /\ UNCHANGED << doc, saves, restarts >>
    <3> DEFINE cleared == [turn[t].doc EXCEPT !.pending_interrupt = NoPending]
               new     == [turn[t] EXCEPT !.at = "saving", !.doc = cleared]
    <3>1. turn[t] \in Turn /\ TurnOK(t) /\ turn[t].doc \in Document
      BY TurnTyped DEF BotTypeOK, DocInv
    <3>2. /\ cleared \in Document /\ cleared.pending_interrupt = NoPending
          /\ cleared.pmo_state = turn[t].doc.pmo_state
      BY <3>1 DEF Document
    <3>3. DocOK(pc', cards', turn[t].conv, cleared)
      BY <3>1, <3>2 DEF DocOK, TurnOK, NoPending, NoCheckpoint, Pending
    <3>. HIDE DEF cleared
    <3>4. new \in Turn /\ new.conv = turn[t].conv /\ new.doc = cleared
          /\ new.state = turn[t].state
      BY <3>1, <3>2 DEF Turn, TurnPhases
    <3>5. turn' = [turn EXCEPT ![t] = new]
      BY <2>3 DEF cleared
    <3>. HIDE DEF new
    <3> QED
      BY <1>1, <1>2, <1>3, <2>1, <2>3, <3>1, <3>3, <3>4, <3>5, OneTurnMoves DEF TurnOK
  <2> QED
    BY <1>8, <2>2, <2>3 DEF ResumeReturns
<1>9. ASSUME NEW t \in Turns, SaveChanges(t) PROVE BotTypeOK' /\ DocInv'
  BY <1>1, <1>9, SaveKept
<1>10. ASSUME NEW t \in Turns, Activity(t) PROVE BotTypeOK' /\ DocInv'
  BY <1>1, <1>2, <1>10, MessageKept, ClickKept DEF Activity
<1>11. CASE Restart
  BY <1>1, <1>2, <1>11, RestartKept
<1>12. CASE \E t \in Turns : GraphStep(t)
  BY <1>4, <1>12 DEF GraphStep
<1>13. CASE UNCHANGED vars
  BY <1>4, <1>13 DEF vars, botVars
<1> QED
  BY <1>5, <1>6, <1>7, <1>8, <1>9, <1>10, <1>11, <1>12, <1>13 DEF BotNext, Handler

BotInv == BotTypeOK /\ GateInv /\ RunInv /\ DocInv

\* The bot's invariants hold of every state it can be in: its documents, its
\* copies of them, and the runs of the graph inside it.
THEOREM BotInvariant == BotSpec => []BotInv
<1>1. BotInit => BotInv
  <2> SUFFICES ASSUME BotInit PROVE BotInv
    OBVIOUS
  <2>1. TypeOK /\ GateInv /\ RunInv
    BY InitTyped, GateInit, RunInit DEF BotInit
  <2>2. /\ NewDocument \in Document /\ NewState \in PMOState /\ ~Woken(NewState)
        /\ \A c : DocOK(pc, cards, c, NewDocument)
    BY NewDocumentOK DEF NewState, Woken
  <2>3. ASSUME NEW t \in Turns PROVE turn[t] \in Turn /\ TurnOK(t)
    BY <2>2 DEF BotInit, Turn, TurnPhases, TurnOK
  <2>4. turn \in [Turns -> Turn]
    BY <2>3 DEF BotInit
  <2>5. 0 \in 0..MaxRestarts
    <3>1. MaxRestarts \in Nat
      BY BotConstants
    <3> QED
      BY <3>1
  <2>6. BotTypeOK
    BY <2>1, <2>2, <2>4, <2>5 DEF BotInit, BotTypeOK
  <2>7. DocInv
    BY <2>2, <2>3 DEF BotInit, DocInv
  <2> QED
    BY <2>1, <2>6, <2>7 DEF BotInv
<1>2. BotInv /\ [BotNext]_vars => BotInv'
  <2> SUFFICES ASSUME BotInv, [BotNext]_vars PROVE BotInv'
    OBVIOUS
  <2>1. TypeOK /\ Moves
    BY BotMoves DEF BotInv, BotTypeOK
  <2>2. GateInv'
    BY <2>1, GateKept DEF BotInv
  <2>3. RunInv'
    BY <2>1, RunKept DEF BotInv
  <2>4. BotTypeOK' /\ DocInv'
    BY BotKept DEF BotInv
  <2> QED
    BY <2>2, <2>3, <2>4 DEF BotInv
<1> QED
  BY <1>1, <1>2, PTL DEF BotSpec

\* Every document, copy and card of the bot is of the type the code gives it.
THEOREM BotTypeCorrect == BotSpec => []BotTypeOK
<1>1. BotInv => BotTypeOK
  BY DEF BotInv
<1> QED
  BY BotInvariant, <1>1, PTL

\* A saved pending slot can always be resolved from a card the conversation's
\* user was sent, whichever sends and turns fail and wherever turns interleave.
THEOREM SlotHasCardHolds == BotSpec => []SlotHasCard
<1>1. BotInv => SlotHasCard
  BY DEF BotInv, DocInv, DocOK, SlotHasCard
<1> QED
  BY BotInvariant, <1>1, PTL

\* The graph's promises are kept inside the bot too: turns side by side, stale
\* slots, failed sends and restarts give nobody a way around the PM Veto.
THEOREM BotVetoGate == BotSpec => VetoGate
<1>1. BotInit => Veto!Init
  BY DEF BotInit, GraphInit, Veto!Init, AnsweredIn, ActedOn
<1>2. BotInv /\ [BotNext]_vars => [Veto!Next]_(Veto!gateVars)
  BY BotMoves, VetoMoves DEF BotInv, BotTypeOK
<1> QED
  BY <1>1, <1>2, BotInvariant, PTL DEF BotSpec, VetoGate, Veto!Spec

\* Nor around the PRINCE2 exception.
THEOREM BotExceptionGate == BotSpec => ExceptionGate
<1>1. BotInit => Exception!Init
  BY DEF BotInit, GraphInit, Exception!Init, AnsweredIn, ActedOn
<1>2. BotInv /\ [BotNext]_vars => [Exception!Next]_(Exception!gateVars)
  BY BotMoves, ExceptionMoves DEF BotInv, BotTypeOK
<1> QED
  BY <1>1, <1>2, BotInvariant, PTL DEF BotSpec, ExceptionGate, Exception!Spec

\* Every run the bot makes has its call budget, its Friction Breaker and a true
\* output, no proactive run of it drafts a change, and none that a click resumed
\* asks a human again.
THEOREM BotRunsKeepTheirPromises ==
  BotSpec => [](/\ LLMBudget /\ FrictionOverridesRoute /\ ProactiveNeverDrafts
                /\ OutputsAreTrue /\ DecisionsAreFinal)
<1>1. BotInv => /\ LLMBudget /\ FrictionOverridesRoute /\ ProactiveNeverDrafts
                /\ OutputsAreTrue
  BY DEF BotInv, RunInv, OneRunInv, LLMBudget, FrictionOverridesRoute, ProactiveNeverDrafts,
       OutputsAreTrue
<1>2. BotInv => DecisionsAreFinal
  BY DEF BotInv, RunInv, OneRunInv, CallerInv, DecisionsAreFinal, Resumed, Pending
<1> QED
  BY BotInvariant, <1>1, <1>2, PTL

-----------------------------------------------------------------------------
(* Whose click it was.  A request id names one suspended run, every card    *)
(* names the run it was shown for, and every answer a run was given is the  *)
(* decision of a click on the card of the very run that asked.              *)

Proposals == {"suspend_for_veto_node", "veto_pending"}

OneProposalPerId ==
  ChangeIdReuse \/
    \A p, q \in Runs :
      /\ pc[p] \in Proposals /\ pc[q] \in Proposals
      /\ st[p].pending_change = st[q].pending_change
      => p = q

RaisedIn(r, c) ==
  \E u \in Turns : StartedBy(r, u) /\ turn[u].at # "idle" /\ turn[u].conv = c

KindAt(node) == IF node = "veto_pending" THEN "veto" ELSE "exception"

CardOK(card) ==
  /\ pc[card.run] \in Pending
  /\ card.kind = KindAt(pc[card.run])
  /\ card.request_id = RequestId(card.run)
  /\ RaisedIn(card.run, card.conv)

\* Two proposals of one change_id are the one case that an id leaves open.
Told(p) == ChangeIdReuse => pc[p] # "veto_pending"

AnswerOK(r) ==
  response[r] # "none" =>
    \E t \in Turns :
      /\ r = main(t)
      /\ turn[t].at # "idle"
      /\ turn[t].card.kind = KindAt(pc[origin[r]])
      /\ turn[t].decision = response[r]
      /\ Told(origin[r]) => turn[t].card.run = origin[r] /\ RaisedIn(origin[r], turn[t].conv)

ClickInv ==
  /\ OneProposalPerId
  /\ \A card \in cards : CardOK(card)
  /\ \A r \in Runs : AnswerOK(r)

\* As long as the LLM supplies no change_id twice, each names one proposal.
LEMMA OneProposalKept ==
  ASSUME TypeOK, GateInv, RunInv, OneProposalPerId, Moves
  PROVE  OneProposalPerId'
<1>0. CASE ChangeIdReuse
  BY <1>0 DEF OneProposalPerId
<1> SUFFICES ASSUME ~ChangeIdReuse PROVE OneProposalPerId'
  BY <1>0
<1> DEFINE Kept(p) == pc'[p] \in Proposals => pc[p] \in Proposals /\ st'[p] = st[p]
<1>1. ASSUME \A p \in Runs : Kept(p) PROVE OneProposalPerId'
  BY <1>1 DEF OneProposalPerId
<1>2. ASSUME NEW r \in Runs, Step(r) PROVE OneProposalPerId'
  <2>1. \A p \in Runs : p # r => pc'[p] = pc[p] /\ st'[p] = st[p]
    BY <1>2, StepFrame DEF Frame
  <2>2. CASE pc'[r] # "suspend_for_veto_node"
    <3>1. Entries(r) /\ RoutedFrom(r)
      BY <1>2, StepFrame, StepOfRun DEF RunStep
    <3>2. Kept(r)
      BY <2>2, <3>1 DEF Entries, RoutedFrom, Proposals
    <3> QED
      BY <1>1, <2>1, <3>2
  <2>3. CASE pc'[r] = "suspend_for_veto_node"
    <3>1. \A q \in Runs : st[q].pending_change # st'[r].pending_change
      BY <1>2, <2>3, StepOfRun DEF RunStep, RoutedFrom
    <3> QED
      BY <2>1, <3>1 DEF OneProposalPerId
  <2> QED
    BY <2>2, <2>3
<1>3. ASSUME NEW r \in Runs, Starts(r) PROVE OneProposalPerId'
  <2>1. \A p \in Runs : Kept(p)
    BY <1>3, StartFrame DEF StartsAtGateway, TypeOK, Proposals
  <2> QED
    BY <1>1, <2>1
<1>4. ASSUME NEW r \in Runs, Resumes(r) PROVE OneProposalPerId'
  <2>1. \A p \in Runs : Kept(p)
    BY <1>4 DEF Resumes, Resume, TypeOK, Proposals
  <2> QED
    BY <1>1, <2>1
<1>5. CASE Crash
  <2>1. \A p \in Runs : Kept(p)
    BY <1>5 DEF Crash, Proposals
  <2> QED
    BY <1>1, <2>1
<1>6. CASE UNCHANGED graphVars
  BY <1>1, <1>6 DEF graphVars
<1> QED
  BY <1>2, <1>3, <1>4, <1>5, <1>6 DEF Moves

\* A turn never forgets the conversation, card and decision it is about.
LEMMA TurnsKept ==
  ASSUME BotTypeOK, [BotNext]_vars, NEW u \in Turns, turn[u].at # "idle"
  PROVE  /\ turn'[u].at # "idle" /\ turn'[u].conv = turn[u].conv
         /\ turn'[u].card = turn[u].card /\ turn'[u].decision = turn[u].decision
<1> DEFINE Kept == /\ turn'[u].at # "idle" /\ turn'[u].conv = turn[u].conv
                   /\ turn'[u].card = turn[u].card /\ turn'[u].decision = turn[u].decision
<1>0. turn \in [Turns -> Turn] /\ turn[u] \in Turn
  BY DEF BotTypeOK
<1>1. ASSUME NEW t \in Turns, NEW at \in {"ended", "refused", "failed"}, Over(t, at)
      PROVE  Kept
  BY <1>0, <1>1 DEF Over, Turn
<1>2. ASSUME NEW t \in Turns, FailTurn(t) PROVE Kept
  BY <1>1, <1>2 DEF FailTurn
<1>3. ASSUME NEW t \in Turns, NEW r, NEW s, NEW next \in TurnPhases \ {"idle"},
             SendResult(t, r, s, next)
      PROVE  Kept
  <2>1. CASE FailTurn(t)
    BY <1>2, <2>1
  <2>2. ASSUME NEW d, turn' = [turn EXCEPT ![t] = [turn[t] EXCEPT !.at = next, !.state = s,
                                                                  !.doc = d]]
        PROVE  Kept
    <3>1. CASE u = t
      <4>1. turn'[u] = [turn[u] EXCEPT !.at = next, !.state = s, !.doc = d]
        BY <1>0, <2>2, <3>1
      <4> QED
        BY <1>0, <4>1 DEF Turn
    <3>2. CASE u # t
      BY <1>0, <2>2, <3>2
    <3> QED
      BY <3>1, <3>2
  <2> QED
    BY <1>3, <2>1, <2>2 DEF SendResult
<1>4. ASSUME NEW t \in Turns, MainReturns(t) PROVE Kept
  <2>1. {"saving", "followup"} \subseteq TurnPhases \ {"idle"}
    BY DEF TurnPhases
  <2> QED
    BY <1>2, <1>3, <1>4, <2>1 DEF MainReturns
<1>5. ASSUME NEW t \in Turns, FollowupReturns(t) PROVE Kept
  <2>1. "saving" \in TurnPhases \ {"idle"}
    BY DEF TurnPhases
  <2> QED
    BY <1>2, <1>3, <1>5, <2>1 DEF FollowupReturns
<1>6. ASSUME NEW t \in Turns, Followup(t) PROVE Kept
  BY <1>0, <1>6 DEF Followup, Turn
<1>7. ASSUME NEW t \in Turns, ResumeReturns(t) PROVE Kept
  <2>1. CASE FailTurn(t)
    BY <1>2, <2>1
  <2>2. ASSUME NEW d, turn' = [turn EXCEPT ![t] = [turn[t] EXCEPT !.at = "saving", !.doc = d]]
        PROVE  Kept
    <3>1. CASE u = t
      <4>1. turn'[u] = [turn[u] EXCEPT !.at = "saving", !.doc = d]
        BY <1>0, <2>2, <3>1
      <4> QED
        BY <1>0, <4>1 DEF Turn
    <3>2. CASE u # t
      BY <1>0, <2>2, <3>2
    <3> QED
      BY <3>1, <3>2
  <2> QED
    BY <1>7, <2>1, <2>2 DEF ResumeReturns
<1>8. ASSUME NEW t \in Turns, SaveChanges(t) PROVE Kept
  BY <1>1, <1>2, <1>8 DEF SaveChanges
<1>9. ASSUME NEW t \in Turns, Activity(t) PROVE Kept
  <2>1. turn[t].at = "idle"
    BY <1>9 DEF Activity, ReceiveMessage, Click
  <2>2. PICK new : turn' = [turn EXCEPT ![t] = new]
    BY <1>9 DEF Activity, ReceiveMessage, Click
  <2> QED
    BY <1>0, <2>1, <2>2
<1>10. CASE Restart
  BY <1>0, <1>10 DEF Restart, Turn
<1>11. CASE UNCHANGED turn
  BY <1>11
<1> QED
  BY <1>4, <1>5, <1>6, <1>7, <1>8, <1>9, <1>10, <1>11
     DEF BotNext, Handler, GraphStep, botVars, vars

\* A card comes to be shown for a suspended run of a turn, in its conversation.
LEMMA CardsMove ==
  ASSUME BotTypeOK, [BotNext]_vars, NEW card \in cards', card \notin cards
  PROVE  \E t \in Turns : \E r \in {main(t), followup(t)} :
           /\ turn[t].at # "idle" /\ pc[r] \in Pending
           /\ card = CardFor(turn[t].conv, r)
<1>1. ASSUME NEW t \in Turns, NEW r, NEW s, NEW next, SendResult(t, r, s, next)
      PROVE  pc[r] \in Pending /\ card = CardFor(turn[t].conv, r)
  BY <1>1 DEF SendResult
<1>2. ASSUME NEW t \in Turns, MainReturns(t) \/ FollowupReturns(t)
      PROVE  \E r \in {main(t), followup(t)} :
               /\ turn[t].at # "idle" /\ pc[r] \in Pending
               /\ card = CardFor(turn[t].conv, r)
  BY <1>1, <1>2 DEF MainReturns, FollowupReturns
<1>3. \E t \in Turns : MainReturns(t) \/ FollowupReturns(t)
  BY DEF BotNext, Handler, Activity, GraphStep, Followup, ResumeReturns, SaveChanges, FailTurn,
     ReceiveMessage, Click, Restart, botVars, vars
<1> QED
  BY <1>2, <1>3

\* Only a click gives a run an answer.
LEMMA AnswersMove ==
  ASSUME BotTypeOK, DocInv, [BotNext]_vars
  PROVE  \/ UNCHANGED << origin, response >>
         \/ \E t \in Turns : \E card \in cards : \E decision \in Buttons(card.kind) :
              Click(t, card, decision)
<1>1. ASSUME NEW t \in Turns, GraphStep(t) PROVE UNCHANGED << origin, response >>
  <2>1. PICK r \in Runs : Step(r)
    BY <1>1, RunsOfTurns DEF GraphStep
  <2> QED
    BY <2>1, StepFrame DEF Frame, BotTypeOK
<1>2. ASSUME NEW t \in Turns,
             MainReturns(t) \/ FollowupReturns(t) \/ ResumeReturns(t) \/ SaveChanges(t)
      PROVE  UNCHANGED << origin, response >>
  BY <1>2 DEF MainReturns, FollowupReturns, ResumeReturns, SaveChanges, graphVars
<1>3. ASSUME NEW t \in Turns, Followup(t) PROVE UNCHANGED << origin, response >>
  BY <1>3 DEF Followup, StartFollowup, graphVars
<1>4. ASSUME NEW t \in Turns, NEW c \in Convs, ReceiveMessage(t, c)
      PROVE  UNCHANGED << origin, response >>
  BY <1>4 DEF ReceiveMessage, StartRun
<1>5. CASE Restart \/ UNCHANGED vars
  BY <1>5 DEF Restart, vars, graphVars
<1> QED
  BY <1>1, <1>2, <1>3, <1>4, <1>5 DEF BotNext, Handler, Activity

\* The run a checkpoint restores is the run whose card was clicked: the slot
\* may hold another run's checkpoint, but then the framework refuses the id.
LEMMA ClickFindsTheRun ==
  ASSUME BotTypeOK, RunInv, OneProposalPerId, NEW card \in Card, CardOK(card),
         NEW held \in Runs, pc[held] \in Pending, RequestId(held) = card.request_id
  PROVE  pc[held] = pc[card.run] /\ (Told(held) => held = card.run)
<1>1. card.run \in Runs /\ pc[card.run] \in Pending /\ RequestId(held) = RequestId(card.run)
  BY DEF Card, CardOK
<1>2. \A p \in Runs : pc[p] = "veto_pending" =>
        RequestId(p) \in Changes /\ RequestId(p) = st[p].pending_change
  BY DEF RunInv, OneRunInv, OutputInv, RequestId
<1>3. \A p \in Runs : pc[p] # "veto_pending" => RequestId(p) = p
  BY DEF RequestId
<1>4. \A p \in Runs : p \notin Changes
  BY BotConstants
<1>5. CASE pc[held] = "veto_pending" /\ pc[card.run] = "veto_pending"
  BY <1>1, <1>2, <1>5 DEF OneProposalPerId, Proposals, Told
<1>6. CASE pc[held] # "veto_pending" /\ pc[card.run] # "veto_pending"
  BY <1>1, <1>3, <1>6
<1>7. CASE (pc[held] = "veto_pending") # (pc[card.run] = "veto_pending")
  BY <1>1, <1>2, <1>3, <1>4, <1>7
<1> QED
  BY <1>5, <1>6, <1>7

\* The answer a click gives is the clicked card's.
LEMMA ClickAnswers ==
  ASSUME BotInv, ClickInv, NEW t \in Turns, NEW card \in cards,
         NEW decision \in Buttons(card.kind), Click(t, card, decision),
         RaisedIn(card.run, card.conv)', pc'[card.run] = pc[card.run],
         response'[main(t)] # "none"
  PROVE  AnswerOK(main(t))'
<1>0. BotTypeOK /\ TypeOK /\ GateInv /\ RunInv /\ main(t) \in Runs
  BY RunsOfTurns DEF BotInv, BotTypeOK
<1>1. card \in Card /\ card.conv \in Convs /\ CardOK(card) /\ decision \in Responses
  BY <1>0 DEF BotTypeOK, Card, ClickInv, Buttons
<1> DEFINE pending == doc[card.conv].pending_interrupt
<1>2. /\ pending.checkpoint \in Checkpoints \cup {NoCheckpoint}
      /\ HeldBy(pending.checkpoint)
  <2>1. pending \in PendingInterrupt \cup {NoPending}
    BY <1>0, <1>1 DEF BotTypeOK, Document
  <2>2. HeldBy(pending.checkpoint)
    BY <1>1 DEF BotInv, DocInv, DocOK, HeldBy
  <2> QED
    BY <2>1, <2>2 DEF PendingInterrupt, NoPending
<1>3. pc[main(t)] = "unstarted" /\ response[main(t)] = "none"
  <2>1. CASE UNCHANGED graphVars
    <3>1. turn[t].at = "idle" /\ response[main(t)] # "none"
      BY <2>1 DEF Click, graphVars
    <3>2. \E u \in Turns : main(t) = main(u) /\ turn[u].at # "idle"
      BY <1>0, <3>1 DEF ClickInv, AnswerOK
    <3> QED
      BY <3>1, <3>2 DEF main
  <2>2. CASE Resume(main(t), pending.checkpoint, pending.request_id, decision)
    <3>1. pc[main(t)] = "unstarted"
      BY <2>2 DEF Resume
    <3> QED
      BY <1>0, <3>1 DEF GateInv
  <2> QED
    BY <2>1, <2>2 DEF Click
<1>4. /\ Matches(pending, card)
      /\ Resume(main(t), pending.checkpoint, pending.request_id, decision)
  BY <1>3 DEF Click, graphVars
<1>5. turn'[t].at # "idle" /\ turn'[t].conv = card.conv
      /\ turn'[t].card = card /\ turn'[t].decision = decision
  <2>1. turn[t] \in Turn /\ turn \in [Turns -> Turn]
    BY <1>0 DEF BotTypeOK
  <2> QED
    BY <2>1 DEF Click, Turn
<1>. HIDE DEF pending
<1>6. PICK held \in Runs \ {main(t)} :
        /\ pc[held] \in Pending /\ RequestId(held) = pending.request_id
        /\ response'[main(t)] = decision /\ origin'[main(t)] = held
  <2>1. ~UNCHANGED response
    BY <1>3
  <2>2. \E held \in Runs \ {main(t)} :
                 /\ pc[held] \in Pending
                 /\ response' = [response EXCEPT ![main(t)] = decision]
                 /\ origin' = [origin EXCEPT ![main(t)] = held]
                 /\ held = pending.checkpoint.run /\ RequestId(held) = pending.request_id
    BY <1>0, <1>1, <1>2, <1>4, <2>1, ResumeFrame
  <2> QED
    BY <1>0, <2>2 DEF TypeOK
<1>7. pc[held] = pc[card.run] /\ (Told(held) => held = card.run)
  BY <1>0, <1>1, <1>4, <1>6, ClickFindsTheRun DEF ClickInv, Matches
<1>8. pc'[held] = pc[held]
  BY <1>0, <1>4, <1>6 DEF Resume, TypeOK, Pending
<1>9. card.kind = KindAt(pc'[origin'[main(t)]])
  BY <1>1, <1>6, <1>7, <1>8 DEF CardOK
<1>10. Told(origin[main(t)])' => card.run = origin'[main(t)]
  BY <1>6, <1>7, <1>8 DEF Told
<1> QED
  BY <1>5, <1>6, <1>9, <1>10 DEF AnswerOK

\* Every step of the bot keeps what cards and answers stand for.
LEMMA ClicksKept ==
  ASSUME BotInv, ClickInv, [BotNext]_vars
  PROVE  ClickInv'
<1>0. BotTypeOK /\ TypeOK /\ GateInv /\ RunInv /\ DocInv /\ Moves
  BY BotMoves DEF BotInv, BotTypeOK
<1>1. OneProposalPerId'
  BY <1>0, OneProposalKept DEF ClickInv
<1>2. ASSUME NEW r, NEW c, RaisedIn(r, c) PROVE RaisedIn(r, c)'
  BY <1>0, <1>2, TurnsKept DEF RaisedIn
<1>3. \A p \in Runs : pc[p] \in Pending => pc'[p] = pc[p] /\ st'[p] = st[p]
  BY <1>0, SuspendedStay
<1>4. ASSUME NEW card \in Card, CardOK(card)
      PROVE  CardOK(card)' /\ pc'[card.run] = pc[card.run]
  <2>1. card.run \in Runs /\ pc[card.run] \in Pending
    BY <1>4 DEF Card, CardOK
  <2>2. RaisedIn(card.run, card.conv)'
    BY <1>2, <1>4 DEF CardOK
  <2>3. pc'[card.run] = pc[card.run] /\ RequestId(card.run)' = RequestId(card.run)
    BY <1>3, <2>1 DEF RequestId
  <2> QED
    BY <1>4, <2>1, <2>2, <2>3 DEF CardOK
<1>5. \A card \in cards' : card \in Card
  BY <1>0, BotKept DEF BotTypeOK
<1>6. ASSUME NEW card \in cards' PROVE CardOK(card)'
  <2>1. CASE card \in cards
    BY <1>4, <1>5, <2>1 DEF ClickInv
  <2>2. CASE card \notin cards
    <3>1. PICK t \in Turns : \E r \in {main(t), followup(t)} :
             /\ turn[t].at # "idle" /\ pc[r] \in Pending
             /\ card = CardFor(turn[t].conv, r)
      BY <1>0, <2>2, CardsMove
    <3>2. PICK r \in {main(t), followup(t)} :
             /\ turn[t].at # "idle" /\ pc[r] \in Pending
             /\ card = CardFor(turn[t].conv, r)
      BY <3>1
    <3>3. /\ card.run = r /\ card.conv = turn[t].conv
          /\ card.kind = KindAt(pc[r]) /\ card.request_id = RequestId(r)
      BY <3>2 DEF CardFor, KindAt
    <3>4. RaisedIn(card.run, card.conv)
      BY <3>2, <3>3 DEF RaisedIn, StartedBy
    <3>5. CardOK(card)
      BY <3>2, <3>3, <3>4 DEF CardOK
    <3> QED
      BY <1>4, <1>5, <3>5
  <2> QED
    BY <2>1, <2>2
<1>7. ASSUME NEW r \in Runs, response'[r] = response[r], origin'[r] = origin[r]
      PROVE  AnswerOK(r)'
  <2> SUFFICES ASSUME response[r] # "none" PROVE AnswerOK(r)'
    BY <1>7 DEF AnswerOK
  <2>1. PICK t \in Turns :
          /\ r = main(t)
          /\ turn[t].at # "idle"
          /\ turn[t].card.kind = KindAt(pc[origin[r]])
          /\ turn[t].decision = response[r]
          /\ Told(origin[r]) =>
               turn[t].card.run = origin[r] /\ RaisedIn(origin[r], turn[t].conv)
    BY DEF ClickInv, AnswerOK
  <2>2. /\ turn'[t].at # "idle" /\ turn'[t].conv = turn[t].conv
        /\ turn'[t].card = turn[t].card /\ turn'[t].decision = turn[t].decision
    BY <1>0, <2>1, TurnsKept
  <2>3. origin[r] \in Runs /\ pc[origin[r]] \in Pending
    BY <1>0 DEF TypeOK, GateInv
  <2>4. pc'[origin[r]] = pc[origin[r]]
    BY <1>3, <2>3
  <2>5. PICK asker \in Runs, conv \in {turn[t].conv} : asker = origin[r]
    BY <2>3
  <2>6. Told(origin[r])' => turn[t].card.run = origin[r] /\ RaisedIn(asker, conv)'
    BY <1>2, <1>7, <2>1, <2>4, <2>5 DEF Told
  <2>7. asker = origin'[r] /\ conv = turn'[t].conv
    BY <1>7, <2>2, <2>5
  <2> QED
    BY <1>7, <2>1, <2>2, <2>4, <2>5, <2>6, <2>7 DEF AnswerOK
<1>8. ASSUME NEW r \in Runs PROVE AnswerOK(r)'
  <2>1. CASE UNCHANGED << origin, response >>
    BY <1>7, <2>1
  <2>2. ASSUME NEW t \in Turns, NEW card \in cards, NEW decision \in Buttons(card.kind),
               Click(t, card, decision)
        PROVE  AnswerOK(r)'
    <3>1. CASE r = main(t)
      <4>1. CardOK(card) /\ card \in Card
        BY <1>0 DEF ClickInv, BotTypeOK
      <4>2. pc'[card.run] = pc[card.run] /\ RaisedIn(card.run, card.conv)'
        BY <1>4, <4>1 DEF CardOK
      <4>3. response'[main(t)] # "none" => AnswerOK(main(t))'
        BY <2>2, <4>2, ClickAnswers
      <4> QED
        BY <3>1, <4>3 DEF AnswerOK
    <3>2. CASE r # main(t)
      <4>1. response'[r] = response[r] /\ origin'[r] = origin[r]
        BY <1>0, <2>2, <3>2 DEF Click, Resume, graphVars, TypeOK
      <4> QED
        BY <1>7, <4>1
    <3> QED
      BY <3>1, <3>2
  <2> QED
    BY <1>0, <2>1, <2>2, AnswersMove
<1> QED
  BY <1>1, <1>6, <1>8 DEF ClickInv

\* What cards and answers stand for holds of every state of the bot.
THEOREM ClickInvariant == BotSpec => [](BotInv /\ ClickInv)
<1>1. BotInit => ClickInv
  <2> SUFFICES ASSUME BotInit PROVE ClickInv
    OBVIOUS
  <2>1. cards = {} /\ \A r \in Runs : response[r] = "none" /\ pc[r] = "unstarted"
    BY DEF BotInit, GraphInit
  <2> QED
    BY <2>1 DEF ClickInv, OneProposalPerId, Proposals, AnswerOK
<1>2. BotInv /\ ClickInv /\ [BotNext]_vars => ClickInv'
  BY ClicksKept
<1> QED
  BY <1>1, <1>2, BotInvariant, PTL DEF BotSpec

\* A write behind a gate goes back to a click on a card of that gate, with the
\* decision the gate permits, and on the card of the very run that asked unless
\* two proposals may share a change_id.
LEMMA WritesWereClicked ==
  ASSUME BotInv, ClickInv, NEW r \in Runs,
         NEW kind \in {"baseline", "exception_risk"}, <<kind, r>> \in writes,
         kind = "baseline" => ~ChangeIdReuse
  PROVE  IF kind = "baseline" THEN ClickedOn(r, "veto", {"approved"})
                              ELSE ClickedOn(r, "exception", Responses)
<1>1. /\ response[r] # "none" /\ response[r] \in Responses
      /\ kind = "baseline" => response[r] = "approved" /\ pc[origin[r]] = "veto_pending"
      /\ kind = "exception_risk" => pc[origin[r]] = "exception_pending"
  BY DEF BotInv, BotTypeOK, TypeOK, RunInv, OneRunInv, OutputInv
<1>2. Told(origin[r])
  BY <1>1 DEF Told
<1>3. PICK t \in Turns :
        /\ r = main(t)
        /\ turn[t].card.run = origin[r]
        /\ turn[t].card.kind = KindAt(pc[origin[r]])
        /\ turn[t].decision = response[r]
        /\ RaisedIn(origin[r], turn[t].conv)
  BY <1>1, <1>2 DEF ClickInv, AnswerOK
<1>4. PICK u \in Turns : StartedBy(origin[r], u) /\ turn[t].conv = turn[u].conv
  BY <1>3 DEF RaisedIn
<1> QED
  BY <1>1, <1>3, <1>4 DEF ClickedOn, KindAt

\* A baseline value comes from a click on Approve, and a committed exception
\* from a click, on the card that showed that very proposal or risk, in the
\* conversation it was raised in: for every interleaving of turns, failed send
\* and restart, as long as the LLM supplies no change_id twice.
THEOREM ClickedApprovalHolds ==
  ASSUME ~ChangeIdReuse
  PROVE  BotSpec => []ClickedApproval
<1>1. BotInv /\ ClickInv => ClickedApproval
  BY WritesWereClicked DEF ClickedApproval
<1> QED
  BY <1>1, ClickInvariant, PTL

\* The exception half needs no such hypothesis: its request id is a fresh uuid.
THEOREM ExceptionsWereClicked ==
  BotSpec => [](\A r \in Runs :
                  <<"exception_risk", r>> \in writes => ClickedOn(r, "exception", Responses))
<1>1. BotInv /\ ClickInv =>
        \A r \in Runs :
          <<"exception_risk", r>> \in writes => ClickedOn(r, "exception", Responses)
  BY WritesWereClicked
<1> QED
  BY <1>1, ClickInvariant, PTL
=============================================================================
