--------------------------- MODULE TriageGateProofs ---------------------------
(***************************************************************************)
(* The two human gates, for every set of runs and of responses: the graph  *)
(* implements the abstract HumanGate for baseline changes and for PRINCE2  *)
(* exceptions.  The argument: what one handler's step may touch (StepFrame *)
(* and its siblings), from which GateInv is inductive, from which every    *)
(* step is an Ask, an Answer, an Act or a stutter of the abstract gate.    *)
(* Then what each run keeps to, by the way it was started (RunInv): the    *)
(* call budget, the Friction Breaker, the proactive rule and its output.   *)
(* Both are proved of Moves, whatever the callers do within it, so that    *)
(* they hold of Spec and of the bot that runs the graph.                   *)
(***************************************************************************)
EXTENDS TriageGraphProofs

\* What a step of run r leaves alone, and the only ways into the nodes that
\* ask, answer and commit.
Frame(r) ==
  /\ \A q \in Runs : q # r => pc'[q] = pc[q] /\ st'[q] = st[q]
  /\ pc[r] # "unstarted" /\ pc'[r] # "unstarted"
  /\ pc[r] \in Pending => pc'[r] = pc[r]
  /\ UNCHANGED << origin, response >>
  /\ latest' = latest \/ latest' = [run |-> r, at |-> pc'[r]]
  /\ \A q \in Runs : found'[q] = found[q] \/ found'[q] = latest

Entries(r) ==
  /\ pc'[r] \notin {"on_veto_decision", "on_exception_decision"}
  /\ pc'[r] = "veto_pending" => pc[r] \in {"suspend_for_veto_node", "veto_pending"}
  /\ pc'[r] = "exception_pending" =>
       pc[r] \in {"suspend_for_exception_node", "exception_pending"}
  /\ pc'[r] = "baseline_commit_node" =>
       /\ pc[r] = "on_veto_decision"
       /\ st'[r].pm_veto_decision = VetoDecision(response[r])
  /\ pc'[r] = "exception_commit_node" => pc[r] = "on_exception_decision"

WritesOf(r) ==
  /\ writes \subseteq writes'
  /\ \A kind \in WriteKinds, q \in Runs :
       <<kind, q>> \in writes' /\ <<kind, q>> \notin writes => q = r
  /\ <<"baseline", r>> \in writes' /\ <<"baseline", r>> \notin writes =>
       pc[r] = "baseline_commit_node" /\ st[r].pm_veto_decision = "approved"
  /\ <<"exception_risk", r>> \in writes' /\ <<"exception_risk", r>> \notin writes =>
       pc[r] = "exception_commit_node"

\* What one handler of run r may change of what the gates read: each handler
\* moves only its own run and writes only in its own run's name.
LEMMA StepFrame ==
  ASSUME TypeOK, NEW r \in Runs, Step(r)
  PROVE  Frame(r) /\ Entries(r) /\ WritesOf(r)
<1>1. CASE GatewayCheck(r)
  BY <1>1 DEF GatewayCheck, Send, Yield, TypeOK, Frame, Entries, WritesOf, Pending
<1>2. CASE RouterWake(r)
  BY <1>2, RouteTargetTyped DEF RouterWake, Send, TypeOK, Frame, Entries, WritesOf,
       Pending, SpecialistNodes, StubNodes
<1>3. CASE AttemptFails(r)
  BY <1>3 DEF AttemptFails, CallsLLM, TypeOK, Frame, Entries, WritesOf, Pending,
       SpecialistNodes
<1>4. CASE LastAttemptFails(r)
  <2>1. pc[r] \in SpecialistNodes \cup {"router_node"}
    BY <1>4 DEF LastAttemptFails, CallsLLM
  <2>2. pc'[r] \in SpecialistNodes \cup StubNodes \cup {"done"}
    <3>1. CASE Yield(r, st[r], Plain("failed"))
      BY <3>1 DEF Yield, Send, TypeOK
    <3>2. CASE Send(r, RouteTarget(TRUE, st[r].vague_turns, "none"), st[r])
      BY <3>2, RouteTargetTyped DEF Send, TypeOK
    <3> QED
      BY <1>4, <3>1, <3>2 DEF LastAttemptFails
  <2> QED
    BY <1>4, <2>1, <2>2 DEF LastAttemptFails, Send, Yield, TypeOK, Frame, Entries,
         WritesOf, Pending, SpecialistNodes, StubNodes
<1>5. CASE RouterDecides(r)
  <2>1. PICK d \in RouterDecisions :
          Send(r, RouteTarget(FALSE, NewVagueTurns(st[r], d), NextNode(d)),
               [st[r] EXCEPT !.vague_turns = NewVagueTurns(st[r], d)])
    BY <1>5 DEF RouterDecides
  <2>2. pc'[r] \in SpecialistNodes \cup StubNodes
    BY <2>1, RouteTargetTyped DEF Send, TypeOK
  <2> QED
    BY <1>5, <2>1, <2>2 DEF RouterDecides, Send, TypeOK, Frame, Entries, WritesOf,
         Pending, SpecialistNodes, StubNodes
<1>6. CASE DraftChange(r)
  BY <1>6 DEF DraftChange, Send, TypeOK, Frame, Entries, WritesOf, Pending
<1>7. CASE SuspendForVeto(r)
  BY <1>7 DEF SuspendForVeto, Send, TypeOK, Frame, Entries, WritesOf, Pending
<1>8. CASE OnVetoDecision(r)
  BY <1>8 DEF OnVetoDecision, Send, TypeOK, Frame, Entries, WritesOf, Pending, PMOState
<1>9. CASE BaselineCommit(r)
  BY <1>9 DEF BaselineCommit, Yield, Send, Raise, TypeOK, Frame, Entries, WritesOf, Pending
<1>10. CASE LogTaskProgress(r)
  BY <1>10 DEF LogTaskProgress, Send, TypeOK, Frame, Entries, WritesOf, Pending
<1>11. CASE LogBlocker(r)
  BY <1>11 DEF LogBlocker, Send, TypeOK, Frame, Entries, WritesOf, Pending
<1>12. CASE FlagRisk(r)
  BY <1>12 DEF FlagRisk, Send, TypeOK, Frame, Entries, WritesOf, Pending
<1>13. CASE RaiseException(r)
  BY <1>13 DEF RaiseException, Send, TypeOK, Frame, Entries, WritesOf, Pending
<1>14. CASE CommitPayloads(r)
  <2>1. PICK rowsWritten \in SUBSET PresentPayloads(st[r]) :
          writes' = writes \cup { <<WriteKind(st[r], p), r>> : p \in rowsWritten }
    BY <1>14 DEF CommitPayloads, Written
  <2>2. \A p \in rowsWritten : WriteKind(st[r], p) \notin {"baseline", "exception_risk"}
    BY <1>14, <2>1 DEF CommitPayloads, BreachesTolerance, WriteKind, PresentPayloads, Payloads
  <2>3. WritesOf(r)
    BY <2>1, <2>2 DEF WritesOf
  <2> QED
    BY <1>14, <2>3 DEF CommitPayloads, Yield, Send, Raise, TypeOK, Frame, Entries, Pending
<1>15. CASE SuspendForException(r)
  BY <1>15 DEF SuspendForException, Send, TypeOK, Frame, Entries, WritesOf, Pending
<1>16. CASE OnExceptionDecision(r)
  BY <1>16 DEF OnExceptionDecision, AfterException, Send, TypeOK, Frame, Entries, WritesOf,
       Pending
<1>17. CASE ExceptionCommit(r)
  <2>1. WritesOf(r)
    BY <1>17 DEF ExceptionCommit, Written, WritesOf, WriteKind, PresentPayloads, Payloads
  <2> QED
    BY <1>17, <2>1 DEF ExceptionCommit, Yield, Send, Raise, TypeOK, Frame, Entries, Pending
<1>18. CASE Stub(r)
  BY <1>18 DEF Stub, Yield, Send, TypeOK, Frame, Entries, WritesOf, Pending, StubNodes
<1>19. CASE GetLatest(r)
  BY <1>19 DEF GetLatest, TypeOK, Frame, Entries, WritesOf, Pending
<1> QED
  BY <1>1, <1>2, <1>3, <1>4, <1>5, <1>6, <1>7, <1>8, <1>9, <1>10, <1>11, <1>12, <1>13,
     <1>14, <1>15, <1>16, <1>17, <1>18, <1>19 DEF Step

\* The two ways a caller starts a run: at the gateway, or at the node that
\* asked, with the answer.
StartsAtGateway(r) ==
  /\ pc[r] = "unstarted"
  /\ pc' = [pc EXCEPT ![r] = "gateway_middleware"]
  /\ \A q \in Runs : q # r => st'[q] = st[q]
  /\ UNCHANGED << origin, response, found, latest, writes >>

\* A caller starts a turn or a proactive sibling run, or resumes a checkpoint
\* whose run, if it was suspended, still is.
Starts(r) ==
  \E s \in PMOState : (StartRun(r, s) /\ ~Woken(s)) \/ StartFollowup(r, s)

Resumes(r) ==
  \E checkpoint \in Checkpoints \cup {NoCheckpoint}, resp \in Responses : \E id :
    HeldBy(checkpoint) /\ Resume(r, checkpoint, id, resp)

\* All that can happen to the graph, whoever its callers are.
Moves ==
  \/ \E r \in Runs : Step(r) \/ Starts(r) \/ Resumes(r)
  \/ Crash
  \/ UNCHANGED graphVars

\* A start is at the gateway and touches no answer, checkpoint or write.
LEMMA StartFrame ==
  ASSUME TypeOK, NEW r \in Runs, Starts(r)
  PROVE  StartsAtGateway(r)
BY DEF Starts, StartRun, StartFollowup, StartsAtGateway, TypeOK

\* The callers of Spec do no more than that.
LEMMA NextMoves ==
  ASSUME TypeOK, GateInv, [Next]_graphVars
  PROVE  Moves
<1>1. ASSUME NEW r \in Runs, Caller(r)
      PROVE  Starts(r) \/ Resumes(r)
  <2>1. CASE \E s \in EntryStates : (StartRun(r, s) /\ UNCHANGED rows) \/ StartFollowup(r, s)
    BY <2>1, GraphConstants, EntryStatesAwake DEF Starts
  <2>2. CASE \E q \in Runs : StartFollowup(r, st[q])
    BY <2>2 DEF Starts, TypeOK
  <2>3. CASE \E q \in Runs, resp \in Responses : Resume(r, found[q], RequestId(q), resp)
    BY <2>3 DEF Resumes, GateInv, TypeOK
  <2> QED
    BY <1>1, <2>1, <2>2, <2>3 DEF Caller
<1> QED
  BY <1>1 DEF Next, Moves

\* The gates' invariant holds before any run starts.
LEMMA GateInit == GraphInit => GateInv
<1> SUFFICES ASSUME GraphInit PROVE GateInv
  OBVIOUS
<1> QED
  BY DEF GraphInit, GateInv, HeldBy, NoCheckpoint, Pending

\* Every handler keeps the gates' invariant.
LEMMA GateStep ==
  ASSUME TypeOK, GateInv, NEW r \in Runs, Step(r)
  PROVE  GateInv'
<1>1. Frame(r) /\ Entries(r) /\ WritesOf(r)
  BY StepFrame
<1>2. \A q \in Runs : pc[q] \in Pending => pc'[q] = pc[q]
  BY <1>1 DEF Frame
<1>3. HeldBy(latest)'
  <2>1. CASE latest' = latest
    <3>1. latest.at \in Pending => latest.run \in Runs
      BY DEF TypeOK, Checkpoints, NoCheckpoint, Pending
    <3> QED
      BY <1>2, <2>1, <3>1 DEF HeldBy, GateInv
  <2>2. CASE latest' = [run |-> r, at |-> pc'[r]]
    BY <2>2 DEF HeldBy
  <2> QED
    BY <1>1, <2>1, <2>2 DEF Frame
<1>4. ASSUME NEW q \in Runs PROVE HeldBy(found[q])'
  <2>1. PICK checkpoint \in {found[q], latest} : found'[q] = checkpoint
    BY <1>1 DEF Frame
  <2>2. HeldBy(checkpoint)
    BY <2>1 DEF GateInv
  <2>3. checkpoint.at \in Pending => checkpoint.run \in Runs
    BY <2>1 DEF TypeOK, Checkpoints, NoCheckpoint, Pending
  <2> QED
    BY <1>2, <2>1, <2>2, <2>3 DEF HeldBy
<1>5. ASSUME NEW q \in Runs
      PROVE  /\ response'[q] # "none" => pc'[origin'[q]] \in Pending
             /\ response'[q] # "none" => pc'[origin'[q]] = pc[origin[q]]
  <2>1. origin[q] \in Runs /\ origin' = origin /\ response' = response
    BY <1>1 DEF TypeOK, Frame
  <2> QED
    BY <1>2, <2>1 DEF GateInv
<1>6. ASSUME NEW q \in Runs, pc'[q] = "unstarted"
      PROVE  /\ response'[q] = "none"
             /\ \A kind \in WriteKinds : <<kind, q>> \notin writes'
  <2>1. q # r /\ pc[q] = "unstarted"
    BY <1>1, <1>6 DEF Frame
  <2>2. \A kind \in WriteKinds : <<kind, q>> \notin writes
    BY <2>1 DEF GateInv
  <2> QED
    BY <1>1, <2>1, <2>2 DEF Frame, WritesOf, GateInv
<1>7. ASSUME NEW q \in Runs
      PROVE  /\ pc'[q] \in {"on_veto_decision", "baseline_commit_node"} =>
                  response'[q] # "none" /\ pc'[origin'[q]] = "veto_pending"
             /\ pc'[q] \in {"on_exception_decision", "exception_commit_node"} =>
                  response'[q] # "none" /\ pc'[origin'[q]] = "exception_pending"
             /\ pc'[q] = "baseline_commit_node" /\ st'[q].pm_veto_decision = "approved" =>
                  response'[q] = "approved"
  <2>1. CASE q # r
    BY <1>1, <1>5, <2>1 DEF Frame, GateInv
  <2>2. CASE q = r
    BY <1>1, <1>5, <2>2 DEF Frame, Entries, GateInv, VetoDecision
  <2> QED
    BY <2>1, <2>2
<1> QED
  BY <1>3, <1>4, <1>5, <1>6, <1>7 DEF GateInv

\* So does starting a turn or a proactive sibling run.
LEMMA GateStart ==
  ASSUME TypeOK, GateInv, NEW r \in Runs, StartsAtGateway(r)
  PROVE  GateInv'
<1>1. \A q \in Runs : pc[q] \in Pending => pc'[q] = pc[q]
  BY DEF StartsAtGateway, TypeOK, Pending
<1>2. \A q \in Runs : pc'[q] # pc[q] => q = r /\ pc'[q] = "gateway_middleware"
  BY DEF StartsAtGateway, TypeOK
<1>3. \A taken \in Checkpoints \cup {NoCheckpoint} :
        HeldBy(taken) => (taken.at \in Pending => pc'[taken.run] = taken.at)
  BY <1>1 DEF HeldBy, Checkpoints, NoCheckpoint, Pending
<1>4. HeldBy(latest)' /\ \A q \in Runs : HeldBy(found[q])'
  BY <1>3 DEF StartsAtGateway, GateInv, HeldBy, TypeOK
<1>5. ASSUME NEW q \in Runs
      PROVE  response[q] # "none" => pc'[origin[q]] = pc[origin[q]] /\ pc[origin[q]] \in Pending
  BY <1>1 DEF GateInv, TypeOK
<1> QED
  BY <1>2, <1>4, <1>5 DEF StartsAtGateway, GateInv

\* A resumption that the framework accepts restores a run that is suspended
\* now, because checkpoints taken at a suspension stay resumable.
LEMMA ResumeFrame ==
  ASSUME TypeOK, GateInv, NEW r \in Runs,
         NEW checkpoint \in Checkpoints \cup {NoCheckpoint}, HeldBy(checkpoint),
         NEW id, NEW resp \in Responses, Resume(r, checkpoint, id, resp)
  PROVE  /\ pc[r] = "unstarted"
         /\ UNCHANGED << found, latest, writes >>
         /\ \/ \E held \in Runs \ {r} :
                 /\ pc[held] \in Pending
                 /\ response' = [response EXCEPT ![r] = resp]
                 /\ origin' = [origin EXCEPT ![r] = held]
                 /\ pc' = [pc EXCEPT ![r] = IF pc[held] = "veto_pending"
                                            THEN "on_veto_decision"
                                            ELSE "on_exception_decision"]
                 /\ st' = [st EXCEPT ![r] = st[held]]
                 /\ held = checkpoint.run /\ RequestId(held) = id
            \/ /\ pc' = [pc EXCEPT ![r] = "raised"]
               /\ UNCHANGED << st, origin, response >>
<1>1. checkpoint \in Checkpoints /\ checkpoint.run \in Runs
  BY DEF Resume, Checkpoints
<1>2. checkpoint.at \in Pending => pc[checkpoint.run] = checkpoint.at
  BY DEF HeldBy
<1>3. pc[r] = "unstarted" /\ "unstarted" \notin Pending
  BY DEF Resume, Pending
<1> QED
  BY <1>1, <1>2, <1>3 DEF Resume, TypeOK

\* A resumption keeps the gates' invariant, whether it is accepted or refused.
LEMMA GateResume ==
  ASSUME TypeOK, GateInv, NEW r \in Runs,
         NEW checkpoint \in Checkpoints \cup {NoCheckpoint}, HeldBy(checkpoint),
         NEW id, NEW resp \in Responses, Resume(r, checkpoint, id, resp)
  PROVE  GateInv'
<1>1. pc[r] = "unstarted" /\ UNCHANGED << found, latest, writes >>
  BY ResumeFrame
<1>2. pc'[r] \notin {"unstarted", "baseline_commit_node", "exception_commit_node"}
  BY DEF Resume, TypeOK
<1>3. \A p \in Runs : p # r => pc'[p] = pc[p] /\ origin'[p] = origin[p]
                              /\ response'[p] = response[p] /\ st'[p] = st[p]
  BY DEF Resume, TypeOK
<1>4. \A p \in Runs : pc[p] \in Pending => pc'[p] = pc[p]
  BY <1>1, <1>3 DEF Pending
<1>5. \A taken \in Checkpoints \cup {NoCheckpoint} :
        HeldBy(taken) => (taken.at \in Pending => pc'[taken.run] = taken.at)
  BY <1>4 DEF HeldBy, Checkpoints, NoCheckpoint, Pending
<1>6. HeldBy(latest)' /\ \A p \in Runs : HeldBy(found[p])'
  BY <1>1, <1>5 DEF GateInv, HeldBy, TypeOK
<1>7. ASSUME NEW p \in Runs, p # r
      PROVE  response[p] # "none" => pc'[origin[p]] = pc[origin[p]] /\ pc[origin[p]] \in Pending
  BY <1>4 DEF GateInv, TypeOK
<1>8. /\ response'[r] # "none" => pc'[origin'[r]] \in Pending
      /\ pc'[r] = "on_veto_decision" =>
           response'[r] # "none" /\ pc'[origin'[r]] = "veto_pending"
      /\ pc'[r] = "on_exception_decision" =>
           response'[r] # "none" /\ pc'[origin'[r]] = "exception_pending"
  <2>1. response[r] = "none" /\ resp # "none"
    BY <1>1, GraphConstants DEF GateInv
  <2>2. CASE \E held \in Runs \ {r} :
                /\ pc[held] \in Pending
                /\ response' = [response EXCEPT ![r] = resp]
                /\ origin' = [origin EXCEPT ![r] = held]
                /\ pc' = [pc EXCEPT ![r] = IF pc[held] = "veto_pending"
                                           THEN "on_veto_decision"
                                           ELSE "on_exception_decision"]
    BY <1>4, <2>1, <2>2 DEF TypeOK, Pending
  <2>3. CASE pc' = [pc EXCEPT ![r] = "raised"] /\ UNCHANGED << origin, response >>
    BY <2>1, <2>3 DEF TypeOK
  <2> QED
    BY <2>2, <2>3, ResumeFrame
<1> QED
  BY <1>1, <1>2, <1>3, <1>6, <1>7, <1>8 DEF GateInv

\* A crash keeps it: a suspended run is in a file, not in the process.
LEMMA GateCrash ==
  ASSUME TypeOK, GateInv, Crash
  PROVE  GateInv'
<1>1. \A q \in Runs : pc'[q] = pc[q] \/ (pc'[q] = "raised" /\ pc[q] \in InFlight)
  BY DEF Crash
<1>2. \A q \in Runs : pc[q] \in Pending => pc'[q] = pc[q]
  BY <1>1 DEF Pending, InFlight, SpecialistNodes, StubNodes
<1>3. \A taken \in Checkpoints \cup {NoCheckpoint} :
        HeldBy(taken) => (taken.at \in Pending => pc'[taken.run] = taken.at)
  BY <1>2 DEF HeldBy, Checkpoints, NoCheckpoint, Pending
<1>4. HeldBy(latest)' /\ \A q \in Runs : HeldBy(found[q])'
  BY <1>3 DEF Crash, GateInv, HeldBy, TypeOK
<1>5. ASSUME NEW q \in Runs
      PROVE  response[q] # "none" => pc'[origin[q]] = pc[origin[q]] /\ pc[origin[q]] \in Pending
  BY <1>2 DEF GateInv, TypeOK
<1> QED
  BY <1>1, <1>4, <1>5 DEF Crash, GateInv

\* Whoever the callers are, the gates' invariant is kept.
LEMMA GateKept ==
  ASSUME TypeOK, GateInv, Moves
  PROVE  GateInv'
<1>1. ASSUME NEW r \in Runs, Step(r) PROVE GateInv'
  BY <1>1, GateStep
<1>2. ASSUME NEW r \in Runs, Starts(r) PROVE GateInv'
  BY <1>2, StartFrame, GateStart
<1>3. ASSUME NEW r \in Runs, Resumes(r) PROVE GateInv'
  BY <1>3, GateResume DEF Resumes
<1>4. CASE Crash
  BY <1>4, GateCrash
<1>5. CASE UNCHANGED graphVars
  BY <1>5 DEF graphVars, GateInv, HeldBy
<1> QED
  BY <1>1, <1>2, <1>3, <1>4, <1>5 DEF Moves

\* The strengthening that makes the two gates inductive holds in every state
\* of the graph: a suspended run stays suspended, and the commit nodes are
\* reached only with the answer their veto or exception node was given.
THEOREM GateInvariant == Spec => [](TypeOK /\ GateInv)
<1>1. TypeOK /\ GateInv /\ [Next]_graphVars => GateInv'
  BY NextMoves, GateKept
<1> QED
  BY GateInit, TypeCorrect, <1>1, PTL DEF Spec

-----------------------------------------------------------------------------
(* The refinement.  A step that asks nobody, hears nobody and acts on no    *)
(* request is a stutter of both gates.                                      *)

Asked(kind) == {r \in Runs : pc[r] = kind}

\* A step that resumes nothing leaves the answers of a gate alone.
LEMMA AnswersStay ==
  ASSUME TypeOK, GateInv, NEW kind \in Pending,
         \A q \in Runs : pc[q] \in Pending => pc'[q] = pc[q],
         UNCHANGED << origin, response >>
  PROVE  AnsweredIn(kind)' = AnsweredIn(kind)
<1>1. \A q \in Runs : response[q] # "none" => pc'[origin[q]] = pc[origin[q]]
  BY DEF GateInv, TypeOK
<1> QED
  BY <1>1 DEF AnsweredIn

\* A step that writes nothing of a kind leaves what a gate acted on alone.
LEMMA ActedStays ==
  ASSUME NEW kind, UNCHANGED origin,
         \A q \in Runs : <<kind, q>> \in writes' <=> <<kind, q>> \in writes
  PROVE  ActedOn(kind)' = ActedOn(kind)
BY DEF ActedOn

\* What a step of run r is to a gate: it asks, it acts, or it is a stutter.
LEMMA GateOfStep ==
  ASSUME TypeOK, GateInv, NEW r \in Runs, Step(r),
         NEW pair \in { <<"veto_pending", "baseline">>,
                        <<"exception_pending", "exception_risk">> }
  PROVE  /\ AnsweredIn(pair[1])' = AnsweredIn(pair[1])
         /\ \/ /\ Asked(pair[1])' = Asked(pair[1]) \cup {r}
               /\ ActedOn(pair[2])' = ActedOn(pair[2])
            \/ /\ Asked(pair[1])' = Asked(pair[1])
               /\ ActedOn(pair[2])' = ActedOn(pair[2]) \cup {origin[r]}
               /\ <<origin[r], response[r]>> \in AnsweredIn(pair[1])
               /\ pair[2] = "baseline" => response[r] = "approved"
            \/ /\ Asked(pair[1])' = Asked(pair[1])
               /\ ActedOn(pair[2])' = ActedOn(pair[2])
<1> DEFINE kind == pair[1]
           write == pair[2]
<1>1. Frame(r) /\ Entries(r) /\ WritesOf(r)
  BY StepFrame
<1>2. kind \in Pending /\ write \in WriteKinds
  BY DEF Pending, WriteKinds
<1>3. AnsweredIn(kind)' = AnsweredIn(kind)
  BY <1>1, <1>2, AnswersStay DEF Frame
<1>4. CASE <<write, r>> \in writes' /\ <<write, r>> \notin writes
  <2>1. /\ response[r] # "none" /\ pc[origin[r]] = kind
        /\ write = "baseline" => response[r] = "approved"
        /\ pc[r] \in {"baseline_commit_node", "exception_commit_node"}
    BY <1>1, <1>4 DEF WritesOf, GateInv
  <2>2. <<origin[r], response[r]>> \in AnsweredIn(kind)
    BY <2>1 DEF AnsweredIn
  <2>3. Asked(kind)' = Asked(kind)
    BY <1>1, <1>2, <2>1 DEF Asked, Frame, Entries, Pending
  <2>4. ActedOn(write)' = ActedOn(write) \cup {origin[r]}
    BY <1>1, <1>2, <1>4 DEF ActedOn, Frame, WritesOf
  <2> QED
    BY <1>3, <2>1, <2>2, <2>3, <2>4
<1>5. CASE ~(<<write, r>> \in writes' /\ <<write, r>> \notin writes)
  <2>1. ActedOn(write)' = ActedOn(write)
    BY <1>1, <1>2, <1>5, ActedStays DEF Frame, WritesOf
  <2>2. Asked(kind)' = Asked(kind) \/ Asked(kind)' = Asked(kind) \cup {r}
    BY <1>1, <1>2 DEF Asked, Frame
  <2> QED
    BY <1>3, <2>1, <2>2
<1> QED
  BY <1>4, <1>5

\* What a resumption is to a gate: an answer to a request that was asked.
LEMMA GateOfResume ==
  ASSUME TypeOK, GateInv, NEW r \in Runs,
         NEW checkpoint \in Checkpoints \cup {NoCheckpoint}, HeldBy(checkpoint),
         NEW id, NEW resp \in Responses, Resume(r, checkpoint, id, resp), NEW kind \in Pending,
         NEW write \in WriteKinds
  PROVE  /\ Asked(kind)' = Asked(kind)
         /\ ActedOn(write)' = ActedOn(write)
         /\ \/ AnsweredIn(kind)' = AnsweredIn(kind)
            \/ \E held \in Asked(kind) :
                 AnsweredIn(kind)' = AnsweredIn(kind) \cup {<<held, resp>>}
<1>1. pc[r] = "unstarted" /\ writes' = writes
  BY ResumeFrame
<1>2. /\ response[r] = "none" /\ <<write, r>> \notin writes
      /\ \A p \in Runs : response[p] # "none" => origin[p] # r
  BY <1>1 DEF GateInv, Pending
<1>3. \A p \in Runs : p # r => pc'[p] = pc[p] /\ origin'[p] = origin[p]
                              /\ response'[p] = response[p]
  BY DEF Resume, TypeOK
<1>4. pc'[r] \notin Pending
  BY DEF Resume, TypeOK, Pending
<1>5. Asked(kind)' = Asked(kind)
  BY <1>1, <1>3, <1>4 DEF Asked, Pending
<1>6. ActedOn(write)' = ActedOn(write)
  BY <1>1, <1>2, <1>3 DEF ActedOn
<1>7. \A p \in Runs : p # r /\ response[p] # "none" =>
        pc'[origin[p]] = pc[origin[p]]
  BY <1>2, <1>3 DEF TypeOK
<1>8. CASE /\ pc' = [pc EXCEPT ![r] = "raised"]
           /\ UNCHANGED << st, origin, response >>
  <2>1. AnsweredIn(kind)' = AnsweredIn(kind)
    BY <1>2, <1>7, <1>8 DEF AnsweredIn
  <2> QED
    BY <1>5, <1>6, <2>1
<1>9. ASSUME NEW held \in Runs \ {r}, pc[held] \in Pending,
             response' = [response EXCEPT ![r] = resp],
             origin' = [origin EXCEPT ![r] = held]
      PROVE  \/ AnsweredIn(kind)' = AnsweredIn(kind)
             \/ /\ held \in Asked(kind)
                /\ AnsweredIn(kind)' = AnsweredIn(kind) \cup {<<held, resp>>}
  <2>1. resp # "none" /\ response'[r] = resp /\ origin'[r] = held /\ pc'[held] = pc[held]
    BY <1>3, <1>9, GraphConstants DEF TypeOK
  <2>2. CASE pc[held] = kind
    BY <1>2, <1>3, <1>7, <2>1, <2>2 DEF AnsweredIn, Asked
  <2>3. CASE pc[held] # kind
    BY <1>2, <1>3, <1>7, <2>1, <2>3 DEF AnsweredIn
  <2> QED
    BY <2>2, <2>3
<1> QED
  BY <1>5, <1>6, <1>8, <1>9, ResumeFrame

\* Starting a turn, a crash and a stutter concern no gate.
LEMMA GateOfRest ==
  ASSUME TypeOK, GateInv, NEW kind \in Pending, NEW write \in WriteKinds,
         (\E r \in Runs : StartsAtGateway(r)) \/ Crash \/ UNCHANGED graphVars
  PROVE  /\ Asked(kind)' = Asked(kind)
         /\ AnsweredIn(kind)' = AnsweredIn(kind)
         /\ ActedOn(write)' = ActedOn(write)
<1>1. UNCHANGED << origin, response, writes >>
  BY DEF StartsAtGateway, Crash, graphVars
<1>2. \A q \in Runs : (pc[q] \in Pending \/ pc'[q] \in Pending) => pc'[q] = pc[q]
  <2>1. CASE \E r \in Runs : StartsAtGateway(r)
    BY <2>1 DEF StartsAtGateway, TypeOK, Pending
  <2>2. CASE Crash
    BY <2>2 DEF Crash, Pending, InFlight, SpecialistNodes, StubNodes
  <2>3. CASE UNCHANGED graphVars
    BY <2>3 DEF graphVars
  <2> QED
    BY <2>1, <2>2, <2>3
<1>3. Asked(kind)' = Asked(kind)
  BY <1>2 DEF Asked
<1>4. AnsweredIn(kind)' = AnsweredIn(kind)
  BY <1>1, <1>2, AnswersStay
<1>5. ActedOn(write)' = ActedOn(write)
  BY <1>1, ActedStays
<1> QED
  BY <1>3, <1>4, <1>5

\* Every move of the graph is a step of the abstract veto gate or a stutter.
LEMMA VetoMoves ==
  ASSUME TypeOK, GateInv, Moves
  PROVE  [Veto!Next]_(Veto!gateVars)
<1> USE DEF Veto!Next, Veto!Ask, Veto!Answer, Veto!Act, Veto!gateVars, Asked
<1>0. "veto_pending" \in Pending /\ "baseline" \in WriteKinds
  BY DEF Pending, WriteKinds
<1>1. ASSUME NEW r \in Runs, Step(r)
      PROVE  [Veto!Next]_(Veto!gateVars)
  <2>1. origin[r] \in Runs
    BY DEF TypeOK
  <2>2. /\ AnsweredIn("veto_pending")' = AnsweredIn("veto_pending")
        /\ \/ /\ Asked("veto_pending")' = Asked("veto_pending") \cup {r}
              /\ ActedOn("baseline")' = ActedOn("baseline")
           \/ /\ Asked("veto_pending")' = Asked("veto_pending")
              /\ ActedOn("baseline")' = ActedOn("baseline") \cup {origin[r]}
              /\ <<origin[r], response[r]>> \in AnsweredIn("veto_pending")
              /\ response[r] = "approved"
           \/ /\ Asked("veto_pending")' = Asked("veto_pending")
              /\ ActedOn("baseline")' = ActedOn("baseline")
    <3>1. <<"veto_pending", "baseline">> \in
            { <<"veto_pending", "baseline">>, <<"exception_pending", "exception_risk">> }
      OBVIOUS
    <3>. HIDE DEF Asked
    <3> QED
      BY <1>1, <3>1, GateOfStep
  <2> QED
    BY <2>1, <2>2
<1>2. ASSUME NEW r \in Runs, Resumes(r)
      PROVE  [Veto!Next]_(Veto!gateVars)
  BY <1>0, <1>2, GateOfResume DEF Resumes
<1>3. CASE (\E r \in Runs : Starts(r)) \/ Crash \/ UNCHANGED graphVars
  BY <1>0, <1>3, GateOfRest, StartFrame
<1> QED
  BY <1>1, <1>2, <1>3 DEF Moves

\* For every number of concurrent turns, resumptions and crashes, and whatever
\* the LLM, the database and the senders of responses do: no baseline value is
\* committed for a proposal that was not put to the PM and answered
\* "approved".
THEOREM VetoGateHolds == Spec => VetoGate
<1>1. GraphInit => Veto!Init
  BY DEF GraphInit, Veto!Init, AnsweredIn, ActedOn
<1>2. TypeOK /\ GateInv /\ [Next]_graphVars => [Veto!Next]_(Veto!gateVars)
  BY NextMoves, VetoMoves
<1> QED
  BY <1>1, <1>2, GateInvariant, PTL DEF Spec, VetoGate, Veto!Spec

\* Every move of the graph is a step of the abstract exception gate or a stutter.
LEMMA ExceptionMoves ==
  ASSUME TypeOK, GateInv, Moves
  PROVE  [Exception!Next]_(Exception!gateVars)
<1> USE DEF Exception!Next, Exception!Ask, Exception!Answer, Exception!Act,
            Exception!gateVars, Asked
<1>0. "exception_pending" \in Pending /\ "exception_risk" \in WriteKinds
  BY DEF Pending, WriteKinds
<1>1. ASSUME NEW r \in Runs, Step(r)
      PROVE  [Exception!Next]_(Exception!gateVars)
  <2>1. origin[r] \in Runs
    BY DEF TypeOK
  <2>2. /\ AnsweredIn("exception_pending")' = AnsweredIn("exception_pending")
        /\ \/ /\ Asked("exception_pending")' = Asked("exception_pending") \cup {r}
              /\ ActedOn("exception_risk")' = ActedOn("exception_risk")
           \/ /\ Asked("exception_pending")' = Asked("exception_pending")
              /\ ActedOn("exception_risk")' = ActedOn("exception_risk") \cup {origin[r]}
              /\ <<origin[r], response[r]>> \in AnsweredIn("exception_pending")
           \/ /\ Asked("exception_pending")' = Asked("exception_pending")
              /\ ActedOn("exception_risk")' = ActedOn("exception_risk")
    <3>1. <<"exception_pending", "exception_risk">> \in
            { <<"veto_pending", "baseline">>, <<"exception_pending", "exception_risk">> }
      OBVIOUS
    <3>. HIDE DEF Asked
    <3> QED
      BY <1>1, <3>1, GateOfStep
  <2>3. <<origin[r], response[r]>> \in AnsweredIn("exception_pending") =>
          \E a \in Responses : <<origin[r], a>> \in AnsweredIn("exception_pending")
    BY DEF AnsweredIn, TypeOK
  <2> QED
    BY <2>1, <2>2, <2>3
<1>2. ASSUME NEW r \in Runs, Resumes(r)
      PROVE  [Exception!Next]_(Exception!gateVars)
  BY <1>0, <1>2, GateOfResume DEF Resumes
<1>3. CASE (\E r \in Runs : Starts(r)) \/ Crash \/ UNCHANGED graphVars
  BY <1>0, <1>3, GateOfRest, StartFrame
<1> QED
  BY <1>1, <1>2, <1>3 DEF Moves

\* Likewise no risk that breaches tolerance is committed before its exception
\* card was put to the PM and answered.
THEOREM ExceptionGateHolds == Spec => ExceptionGate
<1>1. GraphInit => Exception!Init
  BY DEF GraphInit, Exception!Init, AnsweredIn, ActedOn
<1>2. TypeOK /\ GateInv /\ [Next]_graphVars => [Exception!Next]_(Exception!gateVars)
  BY NextMoves, ExceptionMoves
<1> QED
  BY <1>1, <1>2, GateInvariant, PTL DEF Spec, ExceptionGate, Exception!Spec

-----------------------------------------------------------------------------
(* What one run may be, by the way it was started: the strengthening from   *)
(* which the invariants of a single run follow.                             *)

Resumed == { "on_veto_decision", "baseline_commit_node",
             "on_exception_decision", "exception_commit_node" }

\* A run that nobody started has called nothing; a resumed run is past the
\* question it answers.
CallerInv(r) ==
  /\ pc[r] = "unstarted" <=> caller[r] = "none"
  /\ pc[r] = "unstarted" => calls[r] = NoCalls
  /\ caller[r] = "resume" => pc[r] \in Resumed \cup {"done", "raised"}

\* Until the router has routed it, a proactive run is woken and a turn is not.
WakeInv(r) ==
  pc[r] \in {"gateway_middleware", "router_node"} =>
    /\ caller[r] = "maybe_run_proactive_followup" => Woken(st[r])
    /\ caller[r] = "run_turn" => ~Woken(st[r])

\* A halted tenant's run gets no further than the gateway, and a turn's
\* specialist was chosen by the router's LLM.
BudgetInv(r) ==
  /\ st[r].billing_status \in HaltedBillingStatuses /\ caller[r] # "resume" =>
       pc[r] \in {"unstarted", "gateway_middleware", "done", "raised"}
  /\ caller[r] = "run_turn" /\ pc[r] \in SpecialistNodes => calls[r].router > 0

\* Only a run that is done has told its user that it committed something, only
\* a run that is over has written, a suspended proposal has a change_id, and
\* what was written behind a gate was written with the gate's answer.
OutputInv(r) ==
  /\ pc[r] # "done" => out[r].committed = {}
  /\ pc[r] \notin {"done", "raised"} => \A kind \in WriteKinds : <<kind, r>> \notin writes
  /\ pc[r] \in {"suspend_for_veto_node", "veto_pending"} =>
       st[r].pending_change \in Changes
  /\ <<"baseline", r>> \in writes =>
       response[r] = "approved" /\ pc[origin[r]] = "veto_pending"
  /\ <<"exception_risk", r>> \in writes =>
       response[r] # "none" /\ pc[origin[r]] = "exception_pending"

\* What a step of run r does to the run itself: where its message may come
\* from, what it keeps of its state, whom it calls and what it reports.
Keeps(r) ==
  /\ \A q \in Runs : q # r => calls'[q] = calls[q] /\ out'[q] = out[q]
  /\ UNCHANGED caller
  /\ pc[r] \in InFlight \cup Pending
  /\ pc[r] \in Pending => st'[r] = st[r]
  /\ st'[r].billing_status = st[r].billing_status
  /\ pc[r] # "router_node" => st'[r].vague_turns = st[r].vague_turns

RoutedFrom(r) ==
  /\ pc'[r] # "gateway_middleware"
  /\ pc'[r] = "router_node" =>
       /\ pc[r] \in {"gateway_middleware", "router_node"}
       /\ st'[r] = st[r]
  /\ pc'[r] \in SpecialistNodes =>
       \/ pc'[r] = pc[r] /\ st'[r] = st[r]
       \/ /\ pc[r] = "router_node"
          /\ st'[r].vague_turns < 2
          /\ IF Woken(st[r]) THEN pc'[r] # "change_control_clerk"
                             ELSE calls'[r].router > 0
  /\ pc'[r] \in StubNodes => pc[r] = "router_node"
  /\ pc'[r] = "state_writeback_node" => pc[r] \in SpecialistNodes
  /\ pc'[r] = "suspend_for_veto_node" =>
       /\ pc[r] = "change_control_clerk"
       /\ st'[r].pending_change \in Changes
       /\ ChangeIdReuse \/ \A q \in Runs : st[q].pending_change # st'[r].pending_change
  /\ pc'[r] = "veto_pending" => st'[r] = st[r]
  /\ pc'[r] = "suspend_for_exception_node" => pc[r] = "state_writeback_node"

Halts(r) ==
  pc[r] = "gateway_middleware" /\ st[r].billing_status \in HaltedBillingStatuses =>
    pc'[r] = "done"

CallsOf(r) ==
  \/ calls'[r] = calls[r]
  \/ /\ pc[r] = "router_node" /\ ~Woken(st[r])
     /\ calls'[r].specialist = calls[r].specialist /\ calls'[r].router > 0
  \/ pc[r] \in SpecialistNodes /\ calls'[r].router = calls[r].router

ReportOf(r) ==
  /\ pc'[r] # "done" => out'[r] = out[r]
  /\ pc'[r] = "done" =>
       \/ \A p \in out'[r].committed : <<WriteOf(p), r>> \in writes'
       \/ pc[r] = "exception_commit_node" /\ "baseline" \notin out'[r].committed
  /\ <<"baseline", r>> \in writes' /\ <<"baseline", r>> \notin writes =>
       pc'[r] = "done" /\ "baseline" \in out'[r].committed

WritesAt(r) ==
  \A kind \in WriteKinds : <<kind, r>> \in writes' /\ <<kind, r>> \notin writes =>
    /\ pc[r] \in {"baseline_commit_node", "state_writeback_node", "exception_commit_node"}
    /\ pc'[r] \in {"done", "raised"}

RunStep(r) ==
  Keeps(r) /\ RoutedFrom(r) /\ Halts(r) /\ CallsOf(r) /\ ReportOf(r) /\ WritesAt(r)

\* An LLM call adds one to the caller's count and leaves the other's alone.
LEMMA CallCounts ==
  ASSUME TypeOK, NEW r \in Runs, Call(r)
  PROVE  /\ \A q \in Runs : q # r => calls'[q] = calls[q]
         /\ pc[r] = "router_node" =>
              calls'[r].router > 0 /\ calls'[r].specialist = calls[r].specialist
         /\ pc[r] # "router_node" => calls'[r].router = calls[r].router
<1>1. calls[r] \in [router : 0..MaxAttempts, specialist : 0..MaxAttempts]
  BY DEF TypeOK
<1>2. calls' = [calls EXCEPT ![r] = [calls[r] EXCEPT ![Role(r)] = calls[r][Role(r)] + 1]]
  BY DEF Call
<1>3. calls'[r] = [calls[r] EXCEPT ![Role(r)] = calls[r][Role(r)] + 1]
  BY <1>2 DEF TypeOK
<1>4. \A q \in Runs : q # r => calls'[q] = calls[q]
  BY <1>2 DEF TypeOK
<1>5. CASE pc[r] = "router_node"
  <2>1. Role(r) = "router"
    BY <1>5 DEF Role
  <2> QED
    BY <1>1, <1>3, <1>4, <1>5, <2>1, GraphConstants
<1>6. CASE pc[r] # "router_node"
  <2>1. Role(r) = "specialist"
    BY <1>6 DEF Role
  <2> QED
    BY <1>1, <1>3, <1>4, <1>6, <2>1
<1> QED
  BY <1>5, <1>6

\* Publishing an event touches nothing of a state but its bus.
LEMMA PublishKeeps ==
  ASSUME NEW s \in PMOState, NEW e
  PROVE  /\ Publish(s, e).billing_status = s.billing_status
         /\ Publish(s, e).vague_turns = s.vague_turns
         /\ Publish(s, e).pending_change = s.pending_change
BY DEF Publish, PMOState

\* What one handler does to its own run.
LEMMA StepOfRun ==
  ASSUME TypeOK, NEW r \in Runs, Step(r)
  PROVE  RunStep(r)
<1> USE DEF RunStep, Keeps, RoutedFrom, Halts, CallsOf, ReportOf, WritesAt
<1>0. /\ st[r] \in PMOState /\ st[r].vague_turns \in Nat
      /\ "baseline" \notin Payloads
  BY DEF TypeOK, PMOState, Payloads
<1> USE <1>0
<1> USE DEF InFlight, Pending, SpecialistNodes, StubNodes
<1>1. CASE GatewayCheck(r)
  BY <1>1 DEF GatewayCheck, Yield, Send, Plain, Output, TypeOK
<1>2. CASE RouterWake(r)
  <2>1. st' = [st EXCEPT ![r] = [st[r] EXCEPT !.wake_reason = "none", !.proactive_target = "none"]]
    BY <1>2 DEF RouterWake, Send
  <2>2. st'[r].billing_status = st[r].billing_status /\ st'[r].vague_turns = st[r].vague_turns
    BY <2>1 DEF TypeOK, PMOState
  <2>3. pc'[r] = RouteTarget(FALSE, st[r].vague_turns, st[r].proactive_target)
    BY <1>2 DEF RouterWake, Send, TypeOK
  <2>4. pc'[r] \in SpecialistNodes \cup StubNodes
    BY <2>3, RouteTargetTyped
  <2>5. pc'[r] \in SpecialistNodes =>
          st[r].vague_turns < 2 /\ pc'[r] # "change_control_clerk"
    BY <1>2, <2>3 DEF RouterWake, Woken, RouteTarget, friction_breaker_fires
  <2> QED
    BY <1>2, <2>2, <2>4, <2>5 DEF RouterWake, Send
<1>3. CASE AttemptFails(r)
  BY <1>3, CallCounts DEF AttemptFails, CallsLLM
<1>4. CASE LastAttemptFails(r)
  <2>1. CASE pc[r] = "router_node"
    <3>1. pc'[r] = RouteTarget(TRUE, st[r].vague_turns, "none") /\ st'[r] = st[r] /\ ~Woken(st[r])
      BY <1>4, <2>1 DEF LastAttemptFails, CallsLLM, Send, TypeOK
    <3>2. pc'[r] = "hard_fail_node"
      BY <3>1 DEF RouteTarget
    <3>3. /\ UNCHANGED << caller, out, writes >>
          /\ \A q \in Runs : q # r => calls'[q] = calls[q]
          /\ calls'[r].specialist = calls[r].specialist /\ calls'[r].router > 0
      BY <1>4, <2>1, CallCounts DEF LastAttemptFails
    <3>4. Keeps(r) /\ CallsOf(r)
      BY <2>1, <3>1, <3>3
    <3>5. RoutedFrom(r) /\ Halts(r)
      BY <2>1, <3>1, <3>2
    <3>6. ReportOf(r) /\ WritesAt(r)
      BY <2>1, <3>2, <3>3
    <3> QED
      BY <3>4, <3>5, <3>6
  <2>2. CASE pc[r] \in SpecialistNodes
    <3>1. Yield(r, st[r], Plain("failed")) /\ UNCHANGED << caller, writes >>
      BY <1>4, <2>2 DEF LastAttemptFails
    <3>2. /\ pc'[r] = "done" /\ st'[r] = st[r]
          /\ out'[r].committed = {} /\ \A q \in Runs : q # r => out'[q] = out[q]
      BY <3>1 DEF Yield, Send, Plain, Output, TypeOK
    <3>3. /\ \A q \in Runs : q # r => calls'[q] = calls[q]
          /\ calls'[r].router = calls[r].router
      BY <1>4, <2>2, CallCounts DEF LastAttemptFails
    <3> QED
      BY <2>2, <3>1, <3>2, <3>3
  <2> QED
    BY <1>4, <2>1, <2>2 DEF LastAttemptFails, CallsLLM
<1>5. CASE RouterDecides(r)
  <2>1. PICK d \in RouterDecisions :
          Send(r, RouteTarget(FALSE, NewVagueTurns(st[r], d), NextNode(d)),
               [st[r] EXCEPT !.vague_turns = NewVagueTurns(st[r], d)])
    BY <1>5 DEF RouterDecides
  <2>2. NewVagueTurns(st[r], d) \in Nat
    BY DEF NewVagueTurns
  <2>3. st'[r] = [st[r] EXCEPT !.vague_turns = NewVagueTurns(st[r], d)]
    BY <2>1 DEF Send, TypeOK
  <2>4. /\ st'[r].billing_status = st[r].billing_status
        /\ st'[r].vague_turns = NewVagueTurns(st[r], d)
    BY <2>3 DEF PMOState
  <2>5. pc'[r] = RouteTarget(FALSE, NewVagueTurns(st[r], d), NextNode(d))
    BY <2>1 DEF Send, TypeOK
  <2>6. pc'[r] \in SpecialistNodes \cup StubNodes
    BY <2>5, RouteTargetTyped
  <2>7. pc'[r] \in SpecialistNodes => st'[r].vague_turns < 2
    BY <2>2, <2>4, <2>5 DEF RouteTarget, friction_breaker_fires
  <2> QED
    BY <1>5, <2>4, <2>6, <2>7, CallCounts DEF RouterDecides
<1>6. CASE DraftChange(r)
  <2> DEFINE e == NewEvent(r, "BASELINE_SLIP_REQUESTED", "change_control_clerk")
             drafted(c) == [st[r] EXCEPT !.requires_pm_veto = TRUE, !.pending_change = c]
  <2>1. PICK change_id \in Changes :
          /\ Send(r, "suspend_for_veto_node", Publish(drafted(change_id), e))
          /\ ChangeIdReuse \/ \A q \in Runs : st[q].pending_change # change_id
    BY <1>6 DEF DraftChange
  <2>2. drafted(change_id) \in PMOState
    BY DEF PMOState
  <2>3. st'[r] = Publish(drafted(change_id), e) /\ pc'[r] = "suspend_for_veto_node"
    BY <2>1 DEF Send, TypeOK
  <2>4. /\ drafted(change_id).billing_status = st[r].billing_status
        /\ drafted(change_id).vague_turns = st[r].vague_turns
        /\ drafted(change_id).pending_change = change_id
    BY DEF PMOState
  <2>. HIDE DEF e, drafted
  <2>5. /\ st'[r].billing_status = st[r].billing_status
        /\ st'[r].vague_turns = st[r].vague_turns
        /\ st'[r].pending_change = change_id
    BY <2>2, <2>3, <2>4, PublishKeeps
  <2> QED
    BY <1>6, <2>1, <2>3, <2>5, CallCounts DEF DraftChange
<1>7. CASE SuspendForVeto(r)
  BY <1>7 DEF SuspendForVeto, Send, TypeOK
<1>8. CASE OnVetoDecision(r)
  BY <1>8 DEF OnVetoDecision, Send, TypeOK, PMOState
<1>9. CASE BaselineCommit(r)
  <2> DEFINE closed == [st[r] EXCEPT !.requires_pm_veto = FALSE,
                                     !.pending_change = NoChange,
                                     !.pm_veto_decision = "none"]
  <2>1. closed \in PMOState
    BY DEF PMOState
  <2>2. closed.billing_status = st[r].billing_status /\ closed.vague_turns = st[r].vague_turns
    BY DEF PMOState
  <2>. HIDE DEF closed
  <2>3. PICK e :
          \/ /\ writes' = writes \cup {<<"baseline", r>>}
             /\ Yield(r, Publish(closed, e), Output("committed", {"baseline"}))
          \/ /\ writes' = writes
             /\ \/ Yield(r, Publish(closed, e), RefusedOutput)
                \/ Yield(r, Publish(closed, e), Plain("rejected"))
          \/ writes' = writes /\ Raise(r)
    BY <1>9 DEF BaselineCommit, closed
  <2>4. st'[r] = Publish(closed, e) \/ st'[r] = st[r]
    BY <2>3 DEF Yield, Send, Raise, TypeOK
  <2>5. /\ st'[r].billing_status = st[r].billing_status
        /\ st'[r].vague_turns = st[r].vague_turns
    BY <2>1, <2>2, <2>4, PublishKeeps
  <2> QED
    BY <1>9, <2>3, <2>5 DEF BaselineCommit, Yield, Send, Raise, Plain, Output, RefusedOutput,
         WriteOf, TypeOK
<1>10. CASE LogTaskProgress(r)
  <2> DEFINE e == NewEvent(r, "TASK_PROGRESS_LOGGED", "pmp_worker")
             f == NewEvent(r, "CRITICAL_PATH_SLIPPED", "pmp_worker")
             logged == [st[r] EXCEPT !.latest_task_progress = TRUE]
  <2>1. PICK slipped \in BOOLEAN :
          Send(r, "state_writeback_node",
               IF slipped THEN Publish(Publish(logged, e), f) ELSE Publish(logged, e))
    BY <1>10 DEF LogTaskProgress
  <2>2. /\ logged \in PMOState /\ logged.billing_status = st[r].billing_status
        /\ logged.vague_turns = st[r].vague_turns
    BY DEF PMOState
  <2>. HIDE DEF logged
  <2>3. Publish(logged, e) \in PMOState
    BY <2>2, EventsTyped, PublishTyped
  <2>. HIDE DEF e, f
  <2>4. /\ pc'[r] = "state_writeback_node"
        /\ st'[r] = Publish(logged, e) \/ st'[r] = Publish(Publish(logged, e), f)
    BY <2>1 DEF Send, TypeOK
  <2>5. /\ st'[r].billing_status = st[r].billing_status
        /\ st'[r].vague_turns = st[r].vague_turns
    BY <2>2, <2>3, <2>4, PublishKeeps
  <2> QED
    BY <1>10, <2>4, <2>5, CallCounts DEF LogTaskProgress
<1>11. CASE LogBlocker(r)
  <2> DEFINE logged == [st[r] EXCEPT !.latest_blocker = TRUE]
  <2>1. PICK e : Send(r, "state_writeback_node", Publish(logged, e))
    BY <1>11 DEF LogBlocker
  <2>2. /\ logged \in PMOState /\ logged.billing_status = st[r].billing_status
        /\ logged.vague_turns = st[r].vague_turns
    BY DEF PMOState
  <2>. HIDE DEF logged
  <2>3. pc'[r] = "state_writeback_node" /\ st'[r] = Publish(logged, e)
    BY <2>1 DEF Send, TypeOK
  <2>4. /\ st'[r].billing_status = st[r].billing_status
        /\ st'[r].vague_turns = st[r].vague_turns
    BY <2>2, <2>3, PublishKeeps
  <2> QED
    BY <1>11, <2>3, <2>4, CallCounts DEF LogBlocker
<1>12. CASE FlagRisk(r)
  <2> DEFINE e == NewEvent(r, "RISK_FLAGGED", "governance_worker")
             flagged(risk) == [st[r] EXCEPT !.latest_risk_escalation = risk]
  <2>1. PICK risk \in {"in_tolerance", "exception"} :
          Send(r, "state_writeback_node", Publish(flagged(risk), e))
    BY <1>12 DEF FlagRisk
  <2>2. /\ flagged(risk) \in PMOState
        /\ flagged(risk).billing_status = st[r].billing_status
        /\ flagged(risk).vague_turns = st[r].vague_turns
    BY DEF PMOState
  <2>. HIDE DEF e, flagged
  <2>3. pc'[r] = "state_writeback_node" /\ st'[r] = Publish(flagged(risk), e)
    BY <2>1 DEF Send, TypeOK
  <2>4. /\ st'[r].billing_status = st[r].billing_status
        /\ st'[r].vague_turns = st[r].vague_turns
    BY <2>2, <2>3, PublishKeeps
  <2> QED
    BY <1>12, <2>3, <2>4, CallCounts DEF FlagRisk
<1>13. CASE RaiseException(r)
  <2> DEFINE e == NewEvent(r, "TOLERANCE_BREACHED", "state_writeback_node")
             f == NewEvent(r, "EXCEPTION_SUSPENDED", "state_writeback_node")
  <2>1. Send(r, "suspend_for_exception_node", Publish(Publish(st[r], e), f))
    BY <1>13 DEF RaiseException
  <2>2. Publish(st[r], e) \in PMOState
    BY EventsTyped, PublishTyped
  <2>. HIDE DEF e, f
  <2>3. /\ pc'[r] = "suspend_for_exception_node"
        /\ st'[r] = Publish(Publish(st[r], e), f)
    BY <2>1 DEF Send, TypeOK
  <2>4. /\ st'[r].billing_status = st[r].billing_status
        /\ st'[r].vague_turns = st[r].vague_turns
    BY <2>2, <2>3, PublishKeeps
  <2> QED
    BY <1>13, <2>3, <2>4 DEF RaiseException
<1>14. CASE CommitPayloads(r)
  <2> DEFINE cleared == [st[r] EXCEPT !.latest_task_progress = FALSE,
                                      !.latest_blocker = FALSE,
                                      !.latest_risk_escalation = "none"]
  <2>1. PICK rowsWritten \in SUBSET PresentPayloads(st[r]) :
          /\ writes' = writes \cup { <<WriteKind(st[r], p), r>> : p \in rowsWritten }
          /\ Yield(r, cleared, Output("committed", rowsWritten)) \/ Raise(r)
    BY <1>14 DEF CommitPayloads, Written
  <2>2. \A p \in rowsWritten :
          WriteKind(st[r], p) = WriteOf(p) /\ WriteOf(p) # "baseline"
    BY <1>14, <2>1 DEF CommitPayloads, BreachesTolerance, WriteKind, WriteOf,
         PresentPayloads, Payloads
  <2>3. cleared.billing_status = st[r].billing_status /\ cleared.vague_turns = st[r].vague_turns
    BY DEF PMOState
  <2>. HIDE DEF cleared
  <2>4. <<"baseline", r>> \in writes' => <<"baseline", r>> \in writes
    BY <2>1, <2>2
  <2>5. \A p \in rowsWritten : <<WriteOf(p), r>> \in writes'
    BY <2>1, <2>2
  <2>6. CASE Yield(r, cleared, Output("committed", rowsWritten))
    BY <1>14, <2>3, <2>4, <2>5, <2>6 DEF CommitPayloads, Yield, Send, Output, TypeOK
  <2>7. CASE Raise(r)
    BY <1>14, <2>4, <2>7 DEF CommitPayloads, Raise, TypeOK
  <2> QED
    BY <2>1, <2>6, <2>7
<1>15. CASE SuspendForException(r)
  BY <1>15 DEF SuspendForException, Send, TypeOK
<1>16. CASE OnExceptionDecision(r)
  BY <1>16 DEF OnExceptionDecision, AfterException, Send, TypeOK, PMOState
<1>17. CASE ExceptionCommit(r)
  <2> DEFINE cleared == [st[r] EXCEPT !.latest_risk_escalation = "none",
                                      !.exception_decision = "none"]
  <2>1. <<"baseline", r>> \in writes' => <<"baseline", r>> \in writes
    BY <1>17 DEF ExceptionCommit, Written, WriteKind, PresentPayloads, Payloads
  <2>2. cleared.billing_status = st[r].billing_status /\ cleared.vague_turns = st[r].vague_turns
    BY DEF PMOState
  <2>3. Yield(r, cleared, Output("committed", {"risk_escalation"})) \/ Raise(r)
    BY <1>17 DEF ExceptionCommit
  <2>. HIDE DEF cleared
  <2> QED
    BY <1>17, <2>1, <2>2, <2>3 DEF ExceptionCommit, Yield, Send, Raise, Output, TypeOK
<1>18. CASE Stub(r)
  BY <1>18 DEF Stub, Yield, Send, Plain, Output, TypeOK
<1>19. CASE GetLatest(r)
  BY <1>19 DEF GetLatest, Pending
<1> QED
  BY <1>1, <1>2, <1>3, <1>4, <1>5, <1>6, <1>7, <1>8, <1>9, <1>10, <1>11, <1>12, <1>13,
     <1>14, <1>15, <1>16, <1>17, <1>18, <1>19 DEF Step

\* What the runs' invariant reads of run q.
Untouched(q) ==
  /\ pc'[q] = pc[q] /\ st'[q] = st[q] /\ caller'[q] = caller[q] /\ calls'[q] = calls[q]
  /\ out'[q] = out[q] /\ response'[q] = response[q] /\ origin'[q] = origin[q]
  /\ \A kind \in WriteKinds : <<kind, q>> \in writes' <=> <<kind, q>> \in writes

\* The invariant of one run.
OneRunInv(q) ==
  /\ CallerInv(q) /\ WakeInv(q) /\ BudgetInv(q) /\ OutputInv(q)
  /\ WithinBudget(q) /\ FrictionOverrides(q) /\ ProactiveIsKeptOut(q) /\ OutputIsTrue(q)

\* A run that is left alone keeps its invariant: suspended runs, whose answers
\* it may have been given, stay suspended.
LEMMA UntouchedKept ==
  ASSUME TypeOK, GateInv, NEW q \in Runs, OneRunInv(q), Untouched(q),
         \A p \in Runs : pc[p] \in Pending => pc'[p] = pc[p]
  PROVE  OneRunInv(q)'
<1>1. origin[q] \in Runs /\ \A kind \in {"baseline", "exception_risk"} : kind \in WriteKinds
  BY DEF TypeOK, WriteKinds
<1>2. OutputInv(q)'
  BY <1>1 DEF OneRunInv, OutputInv, Untouched, Pending
<1>3. OutputIsTrue(q)'
  <2>1. \A p \in out[q].committed : WriteOf(p) \in WriteKinds
    BY DEF TypeOK, Outputs, WriteOf, Payloads, WriteKinds
  <2> QED
    BY <1>1, <2>1 DEF OneRunInv, OutputIsTrue, Untouched
<1>4. CallerInv(q)' /\ WakeInv(q)' /\ BudgetInv(q)'
  BY DEF OneRunInv, CallerInv, WakeInv, BudgetInv, Untouched, Woken
<1>5. WithinBudget(q)' /\ FrictionOverrides(q)' /\ ProactiveIsKeptOut(q)'
  BY DEF OneRunInv, WithinBudget, FrictionOverrides, ProactiveIsKeptOut, Untouched
<1> QED
  BY <1>2, <1>3, <1>4, <1>5 DEF OneRunInv

\* Every handler keeps the invariant of its own run.
LEMMA OwnRunKept ==
  ASSUME TypeOK, GateInv, NEW r \in Runs, OneRunInv(r), Step(r)
  PROVE  OneRunInv(r)'
<1>1. Frame(r) /\ Entries(r) /\ WritesOf(r)
  BY StepFrame
<1>2. RunStep(r)
  BY StepOfRun
<1>3. origin[r] \in Runs /\ origin'[r] = origin[r] /\ response'[r] = response[r]
      /\ caller'[r] = caller[r]
  BY <1>1, <1>2 DEF TypeOK, Frame, RunStep, Keeps
<1>4. pc[r] \notin {"unstarted", "done", "raised"} /\ pc'[r] # "unstarted" /\ pc'[r] \in Nodes
  <2>1. pc[r] \in InFlight \cup Pending
    BY <1>2 DEF RunStep, Keeps
  <2>2. pc'[r] \in Nodes
    BY StepTyped DEF TypeOK
  <2> QED
    BY <1>1, <2>1, <2>2 DEF Frame, InFlight, Pending, SpecialistNodes, StubNodes
<1>5. \A kind \in WriteKinds : <<kind, r>> \notin writes
  BY <1>4 DEF OneRunInv, OutputInv
<1>6. CallerInv(r)'
  <2>1. ASSUME caller[r] = "resume" PROVE pc'[r] \in Resumed \cup {"done", "raised"}
    <3>1. pc[r] \in Resumed
      BY <1>4, <2>1 DEF OneRunInv, CallerInv
    <3>2. pc'[r] \notin {"veto_pending", "exception_pending"}
      BY <1>1, <3>1 DEF Entries, Resumed
    <3>3. pc'[r] \notin SpecialistNodes \cup StubNodes \cup
            { "gateway_middleware", "router_node", "state_writeback_node",
              "suspend_for_veto_node", "suspend_for_exception_node" }
      BY <1>2, <3>1 DEF RunStep, RoutedFrom, Resumed, SpecialistNodes
    <3> QED
      BY <1>4, <3>2, <3>3 DEF Nodes, InFlight, Ended, Pending, Resumed
  <2>2. caller[r] # "none"
    BY <1>4 DEF OneRunInv, CallerInv
  <2> QED
    BY <1>3, <1>4, <2>1, <2>2 DEF CallerInv
<1>7. WakeInv(r)'
  BY <1>1, <1>2, <1>3 DEF OneRunInv, WakeInv, RunStep, Keeps, RoutedFrom, Woken
<1>8. ProactiveIsKeptOut(r)'
  BY <1>1, <1>2, <1>3 DEF OneRunInv, ProactiveIsKeptOut, WakeInv, RunStep, RoutedFrom, Entries,
       SpecialistNodes, Pending
<1>9. FrictionOverrides(r)'
  <2>1. CASE pc[r] = "router_node"
    <3>1. pc'[r] \in SpecialistNodes => st'[r].vague_turns < 2
      BY <1>2, <2>1 DEF RunStep, RoutedFrom, SpecialistNodes
    <3>2. pc'[r] \notin BeyondRouter \ SpecialistNodes
      BY <1>1, <1>2, <2>1 DEF RunStep, RoutedFrom, Entries, BeyondRouter, Pending, SpecialistNodes
    <3>3. \A kind \in WriteKinds : <<kind, r>> \notin writes'
      BY <1>2, <1>5, <2>1 DEF RunStep, WritesAt
    <3> QED
      BY <3>1, <3>2, <3>3 DEF FrictionOverrides
  <2>2. CASE pc[r] # "router_node"
    <3>1. st'[r].vague_turns = st[r].vague_turns
      BY <1>2, <2>2 DEF RunStep, Keeps
    <3>2. pc'[r] \in BeyondRouter => pc[r] \in BeyondRouter
      BY <1>1, <1>2, <2>2 DEF RunStep, RoutedFrom, Entries, BeyondRouter, Pending, SpecialistNodes
    <3>3. (\E kind \in WriteKinds : <<kind, r>> \in writes') => pc[r] \in BeyondRouter
      BY <1>2, <1>5 DEF RunStep, WritesAt, BeyondRouter
    <3> QED
      BY <3>1, <3>2, <3>3 DEF OneRunInv, FrictionOverrides
  <2> QED
    BY <2>1, <2>2
<1>10. BudgetInv(r)'
  <2>1. ASSUME st[r].billing_status \in HaltedBillingStatuses, caller[r] # "resume"
        PROVE  pc'[r] = "done"
    <3>1. pc[r] = "gateway_middleware"
      BY <1>4, <2>1 DEF OneRunInv, BudgetInv
    <3> QED
      BY <1>2, <2>1, <3>1 DEF RunStep, Halts
  <2>2. ASSUME caller[r] = "run_turn", pc'[r] \in SpecialistNodes
        PROVE  calls'[r].router > 0
    <3>1. CASE pc[r] = "router_node"
      BY <1>2, <2>2, <3>1 DEF OneRunInv, WakeInv, RunStep, RoutedFrom, SpecialistNodes
    <3>2. CASE pc[r] # "router_node"
      <4>1. pc[r] \in SpecialistNodes
        BY <1>2, <2>2, <3>2 DEF RunStep, RoutedFrom
      <4>2. calls'[r].router = calls[r].router
        BY <1>2, <3>2 DEF RunStep, CallsOf
      <4> QED
        BY <2>2, <4>1, <4>2 DEF OneRunInv, BudgetInv
    <3> QED
      BY <3>1, <3>2
  <2>3. st'[r].billing_status = st[r].billing_status
    BY <1>2 DEF RunStep, Keeps
  <2> QED
    BY <1>3, <2>1, <2>2, <2>3 DEF BudgetInv
<1>11. WithinBudget(r)'
  <2>1. st'[r].billing_status = st[r].billing_status
    BY <1>2 DEF RunStep, Keeps
  <2>2. CASE calls'[r] = calls[r]
    BY <1>3, <2>1, <2>2 DEF OneRunInv, WithinBudget, NoCalls
  <2>3. CASE /\ pc[r] = "router_node" /\ ~Woken(st[r])
             /\ calls'[r].specialist = calls[r].specialist /\ calls'[r].router > 0
    <3>1. /\ st[r].billing_status \notin {"trial_exhausted", "paid_halt"}
          /\ caller[r] \notin {"resume", "maybe_run_proactive_followup"}
      BY <2>3 DEF OneRunInv, BudgetInv, CallerInv, WakeInv, Resumed, HaltedBillingStatuses
    <3> QED
      BY <1>3, <2>1, <2>3, <3>1 DEF WithinBudget
  <2>4. CASE pc[r] \in SpecialistNodes /\ calls'[r].router = calls[r].router
    <3>1. /\ st[r].billing_status \notin {"trial_exhausted", "paid_halt"}
          /\ caller[r] # "resume"
      BY <2>4 DEF OneRunInv, BudgetInv, CallerInv, Resumed, HaltedBillingStatuses, SpecialistNodes
    <3> QED
      BY <1>3, <2>1, <2>4, <3>1 DEF OneRunInv, BudgetInv, WithinBudget
  <2> QED
    BY <1>2, <2>2, <2>3, <2>4 DEF RunStep, CallsOf
<1>12. OutputInv(r)'
  <2>1. pc'[r] # "done" => out'[r].committed = {}
    BY <1>2, <1>4 DEF OneRunInv, OutputInv, RunStep, ReportOf
  <2>2. pc'[r] \notin {"done", "raised"} => \A kind \in WriteKinds : <<kind, r>> \notin writes'
    BY <1>2, <1>5 DEF RunStep, WritesAt
  <2>3. pc'[r] \in {"suspend_for_veto_node", "veto_pending"} => st'[r].pending_change \in Changes
    BY <1>1, <1>2 DEF OneRunInv, OutputInv, RunStep, RoutedFrom, Entries
  <2>4. \A p \in Runs : pc[p] \in Pending => pc'[p] = pc[p]
    BY <1>1 DEF Frame
  <2>5. {"baseline", "exception_risk"} \subseteq WriteKinds /\ Pending = {"veto_pending", "exception_pending"}
    BY DEF WriteKinds, Pending
  <2>6. <<"baseline", r>> \in writes' => response[r] = "approved" /\ pc'[origin[r]] = "veto_pending"
    BY <1>1, <1>3, <1>5, <2>4, <2>5 DEF WritesOf, GateInv
  <2>7. <<"exception_risk", r>> \in writes' =>
          response[r] # "none" /\ pc'[origin[r]] = "exception_pending"
    BY <1>1, <1>3, <1>5, <2>4, <2>5 DEF WritesOf, GateInv
  <2> QED
    BY <1>3, <2>1, <2>2, <2>3, <2>6, <2>7 DEF OutputInv
<1>13. OutputIsTrue(r)'
  <2>1. "baseline" \in WriteKinds
    BY DEF WriteKinds
  <2>2. CASE pc'[r] # "done"
    <3>1. out'[r].committed = {}
      BY <1>2, <1>4, <2>2 DEF OneRunInv, OutputInv, RunStep, ReportOf
    <3>2. <<"baseline", r>> \notin writes'
      BY <1>2, <1>5, <2>1, <2>2 DEF RunStep, ReportOf
    <3> QED
      BY <3>1, <3>2 DEF OutputIsTrue
  <2>3. CASE pc'[r] = "done"
    <3>1. "baseline" \notin out'[r].committed => <<"baseline", r>> \notin writes'
      BY <1>2, <1>5, <2>1, <2>3 DEF RunStep, ReportOf
    <3>2. pc[r] = "exception_commit_node" => response'[r] # "none"
      BY <1>3 DEF GateInv
    <3> QED
      BY <1>2, <2>3, <3>1, <3>2 DEF OutputIsTrue, RunStep, ReportOf
  <2> QED
    BY <2>2, <2>3
<1> QED
  BY <1>6, <1>7, <1>8, <1>9, <1>10, <1>11, <1>12, <1>13 DEF OneRunInv

RunInv == \A r \in Runs : OneRunInv(r)

\* So a step of one run keeps the invariant of all.
LEMMA RunOfStep ==
  ASSUME TypeOK, GateInv, RunInv, NEW r \in Runs, Step(r)
  PROVE  RunInv'
<1>1. Frame(r) /\ WritesOf(r) /\ Keeps(r)
  BY StepFrame, StepOfRun DEF RunStep
<1>2. \A p \in Runs : pc[p] \in Pending => pc'[p] = pc[p]
  BY <1>1 DEF Frame
<1>3. ASSUME NEW q \in Runs, q # r PROVE OneRunInv(q)'
  <2>1. Untouched(q)
    BY <1>1, <1>3 DEF Untouched, Frame, WritesOf, Keeps
  <2> QED
    BY <1>2, <2>1, UntouchedKept DEF RunInv
<1>4. OneRunInv(r)'
  BY OwnRunKept DEF RunInv
<1> QED
  BY <1>3, <1>4 DEF RunInv

\* A run that starts has the invariant: a turn is not woken, a proactive run is.
LEMMA RunOfStart ==
  ASSUME TypeOK, GateInv, RunInv, NEW r \in Runs, Starts(r)
  PROVE  RunInv'
<1>1. StartsAtGateway(r) /\ UNCHANGED << calls, out >>
  BY StartFrame DEF Starts, StartRun, StartFollowup
<1>2. PICK by \in {"run_turn", "maybe_run_proactive_followup"} :
        /\ caller' = [caller EXCEPT ![r] = by]
        /\ Woken(st'[r]) <=> by = "maybe_run_proactive_followup"
  <2>1. PICK s \in PMOState : (StartRun(r, s) /\ ~Woken(s)) \/ StartFollowup(r, s)
    BY DEF Starts
  <2>2. CASE StartRun(r, s) /\ ~Woken(s)
    <3>1. st'[r] = s /\ caller' = [caller EXCEPT ![r] = "run_turn"]
      BY <2>2 DEF StartRun, TypeOK
    <3> QED
      BY <2>2, <3>1
  <2>3. CASE StartFollowup(r, s)
    <3> DEFINE agent(bus) == EVENT_SUBSCRIPTIONS[bus[next_proactive_target(bus)].event_type]
               woken(bus) == [s EXCEPT !.event_bus = mark_event_consumed(bus, next_proactive_target(bus), agent(bus)),
                                       !.wake_reason = "event_bus",
                                       !.proactive_target = agent(bus)]
    <3>1. PICK bus \in BusToScan(s) :
            next_proactive_target(bus) # 0 /\ st' = [st EXCEPT ![r] = woken(bus)]
      BY <2>3 DEF StartFollowup
    <3>2. bus \in Seq(BlackboardEvent)
      BY ScannedBusTyped
    <3>3. agent(bus) \in SpecialistNodes \ {"change_control_clerk"}
      BY <3>1, <3>2, OneWake
    <3>4. st'[r] = woken(bus)
      BY <3>1 DEF TypeOK
    <3>5. woken(bus).wake_reason = "event_bus" /\ woken(bus).proactive_target = agent(bus)
      BY DEF PMOState
    <3>. HIDE DEF agent, woken
    <3>6. Woken(st'[r])
      BY <3>3, <3>4, <3>5 DEF Woken, SpecialistNodes
    <3> QED
      BY <2>3, <3>6 DEF StartFollowup
  <2> QED
    BY <2>1, <2>2, <2>3
<1>3. \A p \in Runs : pc[p] \in Pending => pc'[p] = pc[p]
  BY <1>1 DEF StartsAtGateway, TypeOK, Pending
<1>4. ASSUME NEW q \in Runs, q # r PROVE OneRunInv(q)'
  <2>1. Untouched(q)
    BY <1>1, <1>2, <1>4 DEF Untouched, StartsAtGateway, TypeOK
  <2> QED
    BY <1>3, <2>1, UntouchedKept DEF RunInv
<1>5. OneRunInv(r)'
  <2>0. calls[r] = NoCalls /\ out[r].committed = {}
    BY <1>1 DEF StartsAtGateway, RunInv, OneRunInv, CallerInv, OutputInv
  <2>1. /\ pc'[r] = "gateway_middleware" /\ caller'[r] = by
        /\ calls'[r] = NoCalls /\ out'[r].committed = {}
    BY <1>1, <1>2, <2>0 DEF StartsAtGateway, TypeOK
  <2>2. \A kind \in WriteKinds : <<kind, r>> \notin writes'
    BY <1>1 DEF StartsAtGateway, GateInv
  <2>3. CallerInv(r)' /\ WakeInv(r)' /\ BudgetInv(r)' /\ WithinBudget(r)'
    BY <1>2, <2>1 DEF CallerInv, WakeInv, BudgetInv, WithinBudget, NoCalls, SpecialistNodes
  <2>4. OutputInv(r)' /\ OutputIsTrue(r)' /\ FrictionOverrides(r)' /\ ProactiveIsKeptOut(r)'
    BY <2>1, <2>2 DEF OutputInv, OutputIsTrue, FrictionOverrides, ProactiveIsKeptOut,
         BeyondRouter, Pending, SpecialistNodes, WriteKinds
  <2> QED
    BY <2>3, <2>4 DEF OneRunInv
<1> QED
  BY <1>4, <1>5 DEF RunInv

\* So has a run that is resumed: it takes the suspended run's state over.
LEMMA RunOfResume ==
  ASSUME TypeOK, GateInv, RunInv, NEW r \in Runs,
         NEW checkpoint \in Checkpoints \cup {NoCheckpoint}, HeldBy(checkpoint),
         NEW id, NEW resp \in Responses, Resume(r, checkpoint, id, resp)
  PROVE  RunInv'
<1>1. /\ pc[r] = "unstarted" /\ UNCHANGED << calls, out, writes >>
      /\ caller' = [caller EXCEPT ![r] = "resume"]
  BY DEF Resume
<1>2. \A p \in Runs : p # r => /\ pc'[p] = pc[p] /\ st'[p] = st[p]
                              /\ origin'[p] = origin[p] /\ response'[p] = response[p]
  BY DEF Resume, TypeOK
<1>3. \A p \in Runs : pc[p] \in Pending => pc'[p] = pc[p]
  BY <1>1, <1>2 DEF Pending
<1>4. ASSUME NEW q \in Runs, q # r PROVE OneRunInv(q)'
  <2>1. Untouched(q)
    BY <1>1, <1>2, <1>4 DEF Untouched, TypeOK
  <2> QED
    BY <1>3, <2>1, UntouchedKept DEF RunInv
<1>5. OneRunInv(r)'
  <2>0. calls[r] = NoCalls /\ out[r].committed = {}
    BY <1>1 DEF RunInv, OneRunInv, CallerInv, OutputInv
  <2>1. /\ calls'[r] = NoCalls /\ out'[r].committed = {} /\ caller'[r] = "resume"
        /\ \A kind \in WriteKinds : <<kind, r>> \notin writes'
    BY <1>1, <2>0 DEF TypeOK, GateInv
  <2>2. \/ /\ pc'[r] \in {"on_veto_decision", "on_exception_decision"}
           /\ st'[r].vague_turns < 2
        \/ pc'[r] = "raised"
    <3>1. CASE \E held \in Runs \ {r} :
                 /\ pc[held] \in Pending
                 /\ pc' = [pc EXCEPT ![r] = IF pc[held] = "veto_pending"
                                            THEN "on_veto_decision"
                                            ELSE "on_exception_decision"]
                 /\ st' = [st EXCEPT ![r] = st[held]]
      <4>1. PICK held \in Runs \ {r} :
                 /\ pc[held] \in Pending
                 /\ pc' = [pc EXCEPT ![r] = IF pc[held] = "veto_pending"
                                            THEN "on_veto_decision"
                                            ELSE "on_exception_decision"]
                 /\ st' = [st EXCEPT ![r] = st[held]]
        BY <3>1
      <4>2. st[held].vague_turns < 2
        BY <4>1 DEF RunInv, OneRunInv, FrictionOverrides, BeyondRouter
      <4> QED
        BY <4>1, <4>2 DEF TypeOK
    <3>2. CASE pc' = [pc EXCEPT ![r] = "raised"]
      BY <3>2 DEF TypeOK
    <3> QED
      BY <3>1, <3>2, ResumeFrame
  <2>3. CallerInv(r)' /\ WakeInv(r)' /\ BudgetInv(r)' /\ WithinBudget(r)'
    BY <2>1, <2>2 DEF CallerInv, WakeInv, BudgetInv, WithinBudget, NoCalls, Resumed
  <2>4. OutputInv(r)' /\ OutputIsTrue(r)' /\ FrictionOverrides(r)' /\ ProactiveIsKeptOut(r)'
    BY <2>1, <2>2 DEF OutputInv, OutputIsTrue, FrictionOverrides, ProactiveIsKeptOut,
         BeyondRouter, Pending, SpecialistNodes, WriteKinds
  <2> QED
    BY <2>3, <2>4 DEF OneRunInv
<1> QED
  BY <1>4, <1>5 DEF RunInv

\* A crash takes runs to where their invariant asks nothing of their node.
LEMMA RunOfCrash ==
  ASSUME TypeOK, GateInv, RunInv, Crash
  PROVE  RunInv'
<1>1. UNCHANGED << st, caller, calls, origin, response, out, writes >>
  BY DEF Crash
<1>2. \A p \in Runs : pc'[p] = pc[p] \/ (pc'[p] = "raised" /\ pc[p] \in InFlight)
  BY DEF Crash
<1>3. \A p \in Runs : pc[p] \in Pending => pc'[p] = pc[p]
  BY <1>2 DEF Pending, InFlight, SpecialistNodes, StubNodes
<1>4. ASSUME NEW q \in Runs PROVE OneRunInv(q)'
  <2>1. CASE pc'[q] = pc[q]
    <3>1. Untouched(q)
      BY <1>1, <2>1 DEF Untouched
    <3> QED
      BY <1>3, <3>1, UntouchedKept DEF RunInv
  <2>2. CASE pc'[q] = "raised" /\ pc[q] \in InFlight
    <3>1. pc[q] \notin {"unstarted", "done", "raised"}
      BY <2>2 DEF InFlight, SpecialistNodes, StubNodes
    <3>2. /\ caller[q] # "none" /\ out[q].committed = {}
          /\ \A kind \in WriteKinds : <<kind, q>> \notin writes
      BY <3>1 DEF RunInv, OneRunInv, CallerInv, OutputInv
    <3>3. CallerInv(q)' /\ WakeInv(q)' /\ BudgetInv(q)'
      BY <1>1, <2>2, <3>2 DEF CallerInv, WakeInv, BudgetInv, SpecialistNodes
    <3>4. WithinBudget(q)'
      BY <1>1 DEF RunInv, OneRunInv, WithinBudget
    <3>5. OutputInv(q)' /\ OutputIsTrue(q)' /\ FrictionOverrides(q)' /\ ProactiveIsKeptOut(q)'
      BY <1>1, <2>2, <3>2 DEF OutputInv, OutputIsTrue, FrictionOverrides, ProactiveIsKeptOut,
           BeyondRouter, Pending, SpecialistNodes, WriteKinds
    <3> QED
      BY <3>3, <3>4, <3>5 DEF OneRunInv
  <2> QED
    BY <1>2, <2>1, <2>2
<1> QED
  BY <1>4 DEF RunInv

\* Before any run starts the invariant holds of each.
LEMMA RunInit == GraphInit => RunInv
<1> SUFFICES ASSUME GraphInit, NEW r \in Runs PROVE OneRunInv(r)
  BY DEF RunInv
<1>1. /\ pc[r] = "unstarted" /\ caller[r] = "none" /\ calls[r] = NoCalls
      /\ out[r].committed = {} /\ writes = {}
  BY DEF GraphInit, NoCalls, Plain, Output
<1>2. CallerInv(r) /\ WakeInv(r) /\ BudgetInv(r) /\ WithinBudget(r)
  BY <1>1 DEF CallerInv, WakeInv, BudgetInv, WithinBudget, SpecialistNodes, NoCalls
<1>3. OutputInv(r) /\ OutputIsTrue(r) /\ FrictionOverrides(r) /\ ProactiveIsKeptOut(r)
  BY <1>1 DEF OutputInv, OutputIsTrue, FrictionOverrides, ProactiveIsKeptOut, BeyondRouter,
       Pending, SpecialistNodes
<1> QED
  BY <1>2, <1>3 DEF OneRunInv

\* Whoever the callers are, the runs' invariant is kept.
LEMMA RunKept ==
  ASSUME TypeOK, GateInv, RunInv, Moves
  PROVE  RunInv'
<1>1. ASSUME NEW r \in Runs, Step(r) PROVE RunInv'
  BY <1>1, RunOfStep
<1>2. ASSUME NEW r \in Runs, Starts(r) PROVE RunInv'
  BY <1>2, RunOfStart
<1>3. ASSUME NEW r \in Runs, Resumes(r) PROVE RunInv'
  BY <1>3, RunOfResume DEF Resumes
<1>4. CASE Crash
  BY <1>4, RunOfCrash
<1>5. CASE UNCHANGED graphVars
  <2>1. ASSUME NEW q \in Runs PROVE OneRunInv(q)'
    <3>1. Untouched(q) /\ pc' = pc
      BY <1>5 DEF graphVars, Untouched
    <3> QED
      BY <3>1, UntouchedKept DEF RunInv
  <2> QED
    BY <2>1 DEF RunInv
<1> QED
  BY <1>1, <1>2, <1>3, <1>4, <1>5 DEF Moves

\* What every run of the graph satisfies, however many run side by side and
\* wherever they crash: the strengthening behind the five theorems below.
THEOREM RunInvariant == Spec => [](TypeOK /\ GateInv /\ RunInv)
<1>1. TypeOK /\ GateInv /\ RunInv /\ [Next]_graphVars => RunInv'
  BY NextMoves, RunKept
<1> QED
  BY RunInit, GateInvariant, <1>1, PTL DEF Spec

\* The Token Loop Breaker: in every run no specialist is called before the
\* router, a proactive run never calls the router's LLM, and neither a halted
\* tenant's run nor a resumed one calls any LLM, for every set of states and
\* of router decisions.
THEOREM LLMBudgetHolds == Spec => []LLMBudget
<1>1. RunInv => LLMBudget
  BY DEF RunInv, OneRunInv, LLMBudget
<1> QED
  BY RunInvariant, <1>1, PTL

\* The Friction Breaker overrides the LLM's route in every run.
THEOREM FrictionOverridesRouteHolds == Spec => []FrictionOverridesRoute
<1>1. RunInv => FrictionOverridesRoute
  BY DEF RunInv, OneRunInv, FrictionOverridesRoute
<1> QED
  BY RunInvariant, <1>1, PTL

\* No event ever routes a proactive run to the Change Control Clerk.
THEOREM ProactiveNeverDraftsHolds == Spec => []ProactiveNeverDrafts
<1>1. RunInv => ProactiveNeverDrafts
  BY DEF RunInv, OneRunInv, ProactiveNeverDrafts
<1> QED
  BY RunInvariant, <1>1, PTL

\* No run tells its user of a commit it did not make, the exception path's own
\* report apart, and no baseline is written that is not reported.
THEOREM OutputsAreTrueHolds == Spec => []OutputsAreTrue
<1>1. RunInv => OutputsAreTrue
  BY DEF RunInv, OneRunInv, OutputsAreTrue
<1> QED
  BY RunInvariant, <1>1, PTL

\* A run resumed with a human's decision never suspends again.
THEOREM DecisionsAreFinalHold == Spec => []DecisionsAreFinal
<1>1. RunInv => DecisionsAreFinal
  BY DEF RunInv, OneRunInv, CallerInv, DecisionsAreFinal, Resumed, Pending
<1> QED
  BY RunInvariant, <1>1, PTL
=============================================================================
