--------------------------- MODULE BackgroundProofs ---------------------------
(***************************************************************************)
(* Proofs about four background jobs, for any number of processes,         *)
(* messages, tasks, files and agents: the Outlook poll implements          *)
(* AtLeastOnce but for its liveness, the chasing runs keep the cooldown    *)
(* and the order, the SharePoint cursor passes nothing but what its run    *)
(* skipped that the cache does not show, and the delta-dispatch swarm runs *)
(* whom the roster allows and answers once for each; and the jobs side by  *)
(* side keep their types.                                                  *)
(***************************************************************************)
EXTENDS MCBackground, SequenceTheorems, WellFoundedInduction, TLAPS

-----------------------------------------------------------------------------
(* The Outlook poll.                                                        *)

\* What is listed, in hand or on the bus has arrived.
MailsArrived ==
  /\ emailed \subseteq {m \in Mails : inbox[m] # "absent"}
  /\ \A x \in Pollers : poll[x].left \subseteq {m \in Mails : inbox[m] # "absent"}

OutlookInv == OutlookTypeOK /\ MarkedAreEmailed /\ MailsArrived

\* Before the first poll nothing is held, marked or announced.
LEMMA OutlookInitInv == OutlookInit => OutlookInv
BY OutlookConstants
DEF OutlookInit, OutlookInv, OutlookTypeOK, MarkedAreEmailed, MailsArrived, IdlePoll, Poll

\* A step of one poll that emails and marks nothing.
LEMMA PollMoves ==
  ASSUME OutlookInv, NEW x \in Pollers, NEW p \in Poll,
         poll' = [poll EXCEPT ![x] = p],
         p.at # "marking", p.mail = NoMail,
         p.left \subseteq {m \in Mails : inbox[m] # "absent"},
         pollFaults' \in 0..MaxPollFaults,
         UNCHANGED << inbox, emailed >>
  PROVE  OutlookInv'
<1>1. OutlookTypeOK'
  BY OutlookConstants DEF OutlookInv, OutlookTypeOK
<1>2. MarkedAreEmailed'
  BY DEF OutlookInv, OutlookTypeOK, MarkedAreEmailed
<1>3. MailsArrived'
  BY DEF OutlookInv, OutlookTypeOK, MailsArrived
<1> QED BY <1>1, <1>2, <1>3 DEF OutlookInv

\* A fault of a poll stays within the bound.
LEMMA PollFaultTyped ==
  ASSUME OutlookTypeOK, PollFault
  PROVE  pollFaults' \in 0..MaxPollFaults
BY OutlookConstants DEF OutlookTypeOK, PollFault

\* Every step of the mail server, a poll or a failure keeps the invariant.
LEMMA OutlookNextInv == OutlookInv /\ [OutlookNext]_outlookVars => OutlookInv'
<1> SUFFICES ASSUME OutlookInv, [OutlookNext]_outlookVars PROVE OutlookInv'
  OBVIOUS
<1>t. OutlookTypeOK /\ poll \in [Pollers -> Poll]
  BY DEF OutlookInv, OutlookTypeOK
<1>i. IdlePoll \in Poll /\ IdlePoll.at = "idle" /\ IdlePoll.mail = NoMail /\ IdlePoll.left = {}
  BY DEF IdlePoll, Poll
<1>1. ASSUME NEW m \in Mails, MailArrives(m) PROVE OutlookInv'
  BY <1>1 DEF MailArrives, OutlookInv, OutlookTypeOK, MarkedAreEmailed, MailsArrived
<1>2. ASSUME NEW x \in Pollers, _list_unread_inbox(x) PROVE OutlookInv'
  <2> DEFINE p == [poll[x] EXCEPT !.at = "scanning", !.left = Unread]
  <2>1. poll' = [poll EXCEPT ![x] = p]
    BY <1>2, <1>t DEF _list_unread_inbox
  <2>2. p \in Poll /\ p.at = "scanning" /\ p.left = Unread /\ p.mail = NoMail
    BY <1>2, <1>t DEF _list_unread_inbox, OutlookTypeOK, Poll, Unread
  <2>3. Unread \subseteq {m \in Mails : inbox[m] # "absent"}
    BY DEF Unread
  <2> HIDE DEF p
  <2> QED BY <1>2, <1>t, <2>1, <2>2, <2>3, PollMoves DEF _list_unread_inbox, OutlookTypeOK
<1>3. ASSUME NEW x \in Pollers, EmitEmail(x) PROVE OutlookInv'
  <2>1. PICK m \in poll[x].left, ok \in BOOLEAN :
          /\ IF ok THEN emailed' = emailed \cup {m} /\ UNCHANGED pollFaults
             ELSE PollFault /\ UNCHANGED emailed
          /\ poll' = [poll EXCEPT ![x] = Emitted(poll[x], m, ok)]
    BY <1>3, <1>t DEF EmitEmail, record_ingress_event
  <2>2. m \in Mails /\ inbox[m] # "absent" /\ inbox' = inbox
    BY <1>3, <2>1 DEF EmitEmail, OutlookInv, MailsArrived
  <2> DEFINE p == Emitted(poll[x], m, ok)
  <2>3. /\ p \in Poll /\ p.left = poll[x].left \ {m}
        /\ p.at = IF ok THEN "marking" ELSE "scanning"
        /\ p.mail = IF ok THEN m ELSE NoMail
    BY <1>t, <2>2 DEF Emitted, Poll
  <2> HIDE DEF p
  <2>4. poll' = [poll EXCEPT ![x] = p]
    BY <2>1 DEF p
  <2>5. pollFaults' \in 0..MaxPollFaults
    BY <1>t, <2>1, PollFaultTyped DEF OutlookTypeOK
  <2>6. emailed \subseteq emailed' /\ emailed' \subseteq emailed \cup {m} /\ (ok => m \in emailed')
    BY <2>1
  <2>7. OutlookTypeOK'
    BY <1>t, <2>2, <2>3, <2>4, <2>5, <2>6, OutlookConstants DEF OutlookTypeOK
  <2>8. MarkedAreEmailed'
    BY <1>t, <2>2, <2>3, <2>4, <2>6 DEF OutlookInv, MarkedAreEmailed
  <2>9. MailsArrived'
    BY <1>t, <2>2, <2>3, <2>4, <2>6 DEF OutlookInv, MailsArrived
  <2> QED BY <2>7, <2>8, <2>9 DEF OutlookInv
<1>4. ASSUME NEW x \in Pollers, _mark_message_read(x) PROVE OutlookInv'
  <2> DEFINE p == [poll[x] EXCEPT !.at = "scanning", !.mail = NoMail]
  <2>1. poll' = [poll EXCEPT ![x] = p]
    BY <1>4, <1>t DEF _mark_message_read
  <2>2. p \in Poll /\ p.at = "scanning" /\ p.mail = NoMail /\ p.left = poll[x].left
    BY <1>t DEF Poll
  <2>3. /\ poll[x].mail \in emailed /\ poll[x].mail \in Mails
        /\ inbox' \in {inbox, [inbox EXCEPT ![poll[x].mail] = "read"]}
        /\ emailed' = emailed
    BY <1>4 DEF _mark_message_read, OutlookInv, MarkedAreEmailed, OutlookTypeOK
  <2>4. pollFaults' \in 0..MaxPollFaults
    BY <1>4, <1>t, PollFaultTyped DEF _mark_message_read, OutlookTypeOK
  <2> HIDE DEF p
  <2>5. OutlookTypeOK'
    BY <1>t, <2>1, <2>2, <2>3, <2>4, OutlookConstants DEF OutlookTypeOK
  <2>6. MarkedAreEmailed'
    BY <1>t, <2>1, <2>2, <2>3 DEF OutlookInv, MarkedAreEmailed, OutlookTypeOK
  <2>7. MailsArrived'
    BY <1>t, <2>1, <2>2, <2>3 DEF OutlookInv, MailsArrived, OutlookTypeOK
  <2> QED BY <2>5, <2>6, <2>7 DEF OutlookInv
<1>5. ASSUME NEW x \in Pollers, PollEnds(x) \/ PollStops(x) PROVE OutlookInv'
  <2>1. pollFaults' \in 0..MaxPollFaults
    BY <1>5, <1>t, PollFaultTyped DEF PollEnds, PollStops, OutlookTypeOK
  <2> QED BY <1>5, <1>i, <2>1, PollMoves DEF PollEnds, PollStops
<1>6. CASE UNCHANGED outlookVars
  BY <1>6 DEF outlookVars, OutlookInv, OutlookTypeOK, MarkedAreEmailed, MailsArrived
<1> QED BY <1>1, <1>2, <1>3, <1>4, <1>5, <1>6 DEF OutlookNext, RunPoll

\* The invariant above holds in every reachable state.
THEOREM OutlookInvariant == OutlookSpec => []OutlookInv
BY OutlookInitInv, OutlookNextInv, PTL DEF OutlookSpec

\* Each step of a poll is a step of AtLeastOnce or changes nothing there.
LEMMA OutlookStep ==
  ASSUME OutlookInv, [OutlookNext]_outlookVars
  PROVE  [Delivery!Next]_(Delivery!vars)
<1> DEFINE arrivedMails == {m \in Mails : inbox[m] # "absent"}
           readMails == {m \in Mails : inbox[m] = "read"}
<1>t. poll \in [Pollers -> Poll] /\ inbox \in [Mails -> {"absent", "unread", "read"}]
  BY DEF OutlookInv, OutlookTypeOK
<1>1. ASSUME NEW m \in Mails, MailArrives(m) PROVE Delivery!Arrive(m)
  BY <1>1, <1>t DEF MailArrives, Delivery!Arrive
<1>2. ASSUME NEW x \in Pollers, EmitEmail(x)
      PROVE  (\E m \in Mails : Delivery!Deliver(m)) \/ UNCHANGED Delivery!vars
  <2>1. PICK m \in poll[x].left : emailed' \in {emailed, emailed \cup {m}}
    BY <1>2 DEF EmitEmail
  <2>2. m \in Mails /\ inbox[m] # "absent" /\ inbox' = inbox
    BY <1>2, <2>1 DEF EmitEmail, OutlookInv, MailsArrived
  <2> QED BY <2>1, <2>2 DEF Delivery!Deliver, Delivery!vars
<1>3. ASSUME NEW x \in Pollers, _mark_message_read(x)
      PROVE  (\E m \in Mails : Delivery!Settle(m)) \/ UNCHANGED Delivery!vars
  <2>1. /\ poll[x].mail \in emailed /\ poll[x].mail \in Mails
        /\ inbox' \in {inbox, [inbox EXCEPT ![poll[x].mail] = "read"]}
        /\ emailed' = emailed
    BY <1>3 DEF _mark_message_read, OutlookInv, MarkedAreEmailed, OutlookTypeOK
  <2>2. CASE inbox' = inbox
    BY <2>1, <2>2 DEF Delivery!vars
  <2>3. CASE inbox' = [inbox EXCEPT ![poll[x].mail] = "read"]
    <3>1. arrivedMails' = arrivedMails /\ readMails' = readMails \cup {poll[x].mail}
      BY <1>t, <2>1, <2>3 DEF OutlookInv, MailsArrived
    <3> QED BY <2>1, <3>1 DEF Delivery!Settle
  <2> QED BY <2>1, <2>2, <2>3
<1>4. CASE \/ \E x \in Pollers : _list_unread_inbox(x) \/ PollEnds(x) \/ PollStops(x)
           \/ UNCHANGED outlookVars
  BY <1>4 DEF _list_unread_inbox, PollEnds, PollStops, outlookVars, Delivery!vars
<1> QED BY <1>1, <1>2, <1>3, <1>4 DEF OutlookNext, RunPoll, Delivery!Next

\* poll_project_inbox marks no mail read that it has not put on the bus, whichever
\* calls fail and whichever polls overlap: the safety part of
\* ImplementsAtLeastOnce.
THEOREM OutlookImplementsDelivery == OutlookSpec => Delivery!Spec
<1>1. OutlookInit => Delivery!Init
  BY DEF OutlookInit, Delivery!Init
<1> QED BY <1>1, OutlookStep, OutlookInvariant, PTL DEF OutlookSpec, Delivery!Spec

-----------------------------------------------------------------------------
(* The chasing runs.                                                        *)

Weight(t) == 15 * Impact[t] + 12 * Severity[t]

\* days_to_deadline at an hour.
DaysAt(c, t) == IF deadline[t] = None THEN no_deadline_days ELSE (24 * deadline[t] - c) \div 24

\* What a run has still to chase was out of its cooldown when the run read it, and
\* has the scores of one hour.
ReadWell(s) ==
  /\ \A t \in Tasks : s.score[t] # 0 => s.seen[t] = None \/ clock - s.seen[t] >= 24
  /\ \E c \in Hours : \A t \in Tasks :
       s.score[t] # 0 => s.score[t] = Weight(t) * proximity_multiplier(DaysAt(c, t))

ChasingInv == ChasingTypeOK /\ \A x \in Chasers : ReadWell(chaser[x])

\* What a task weighs in the score is a natural number.
LEMMA WeightTyped ==
  ASSUME NEW t \in Tasks
  PROVE  Weight(t) \in Nat /\ Impact[t] \in 1..10 /\ Severity[t] \in 1..10
<1>1. Impact[t] \in 1..10 /\ Severity[t] \in 1..10
  BY ChasingConstants
<1> QED BY <1>1 DEF Weight

\* The hours of the clock are natural numbers from 0.
LEMMA HoursTyped == Hours \subseteq Nat /\ 0 \in Hours
BY ChasingConstants DEF Hours

\* days_remaining of a task with a deadline is an integer.
LEMMA DaysTyped ==
  ASSUME ChasingTypeOK, NEW t \in Tasks, NEW c \in Hours
  PROVE  /\ DaysAt(c, t) \in Int
         /\ proximity_multiplier(DaysAt(c, t)) \in Nat \ {0}
<1>1. deadline[t] \in Nat \cup {None} /\ c \in Nat
  BY ChasingConstants, HoursTyped DEF ChasingTypeOK
<1>2. DaysAt(c, t) \in Int
  BY <1>1 DEF DaysAt, no_deadline_days
<1> QED BY <1>2 DEF proximity_multiplier

\* A score that is not zero is a contact of a day ago, or none.
LEMMA ScoreRead ==
  ASSUME ChasingTypeOK, NEW t \in Tasks
  PROVE  /\ chasing_score(t) \in Int
         /\ chasing_score(t) # 0 =>
              /\ contact[t] = None \/ clock - contact[t] >= 24
              /\ chasing_score(t) = Weight(t) * proximity_multiplier(DaysAt(clock, t))
<1>1. clock \in Hours
  BY DEF ChasingTypeOK
<1>2. Weight(t) * proximity_multiplier(DaysAt(clock, t)) \in Int
  BY <1>1, WeightTyped, DaysTyped
<1>3. chasing_score(t) = IF InCooldown(hours_since_last_contact(t)) THEN 0
                         ELSE Weight(t) * proximity_multiplier(DaysAt(clock, t))
  BY DEF chasing_score, Weight, DaysAt, days_to_deadline
<1>4. contact[t] = None \/ contact[t] \in Nat
  BY HoursTyped DEF ChasingTypeOK
<1>5. ~ InCooldown(hours_since_last_contact(t)) => contact[t] = None \/ clock - contact[t] >= 24
  BY <1>1, <1>4, HoursTyped DEF InCooldown, hours_since_last_contact
<1> QED BY <1>2, <1>3, <1>5

\* A run that has read nothing.
LEMMA IdleChaserOk == IdleChaser \in Chaser /\ ReadWell(IdleChaser)
BY HoursTyped DEF IdleChaser, Chaser, ReadWell

\* A step of one run that changes no clock and no deadline.
LEMMA ChaserStep ==
  ASSUME ChasingInv, NEW x \in Chasers, NEW s \in Chaser,
         chaser' = [chaser EXCEPT ![x] = s], ReadWell(s),
         contact' \in [Tasks -> Hours \cup {None}],
         last' \in [Tasks -> Hours \cup {None}],
         chaseFaults' \in 0..MaxChaseFaults,
         UNCHANGED << clock, deadline, status >>
  PROVE  ChasingInv'
<1>1. ChasingTypeOK'
  BY DEF ChasingInv, ChasingTypeOK
<1>2. \A s2 : ReadWell(s2)' <=> ReadWell(s2)
  BY DEF ReadWell, DaysAt
<1>3. \A y \in Chasers : chaser'[y] = s \/ chaser'[y] = chaser[y]
  BY DEF ChasingInv, ChasingTypeOK
<1>4. \A y \in Chasers : ReadWell(chaser[y])'
  BY <1>3 DEF ChasingInv, ReadWell, DaysAt
<1> QED BY <1>1, <1>4 DEF ChasingInv

\* A fault of a sweep stays within the bound.
LEMMA ChaseFaultTyped ==
  ASSUME ChasingTypeOK, ChaseFault
  PROVE  chaseFaults' \in 0..MaxChaseFaults
BY ChasingConstants DEF ChasingTypeOK, ChaseFault

\* At first no task has been contacted and no sweep runs.
LEMMA ChasingInitInv == ChasingInit => ChasingInv
<1> SUFFICES ASSUME ChasingInit PROVE ChasingInv
  OBVIOUS
<1>1. ChasingTypeOK
  BY IdleChaserOk, HoursTyped, ChasingConstants DEF ChasingInit, ChasingTypeOK
<1> QED BY <1>1, IdleChaserOk DEF ChasingInit, ChasingInv

\* Every step of a sweep, the tasks or the clock keeps the invariant.
LEMMA ChasingNextInv == ChasingInv /\ [ChasingNext]_chasingVars => ChasingInv'
<1> SUFFICES ASSUME ChasingInv, [ChasingNext]_chasingVars PROVE ChasingInv'
  OBVIOUS
<1>t. ChasingTypeOK
  BY DEF ChasingInv
<1>s. \A x \in Chasers : chaser[x] \in Chaser /\ ReadWell(chaser[x])
  BY DEF ChasingInv, ChasingTypeOK
<1>1. CASE TimePasses
  <2>1. ChasingTypeOK'
    BY <1>1, <1>t DEF TimePasses, ChasingTypeOK
  <2>2. clock \in Nat /\ clock' \in Nat /\ clock' >= clock
    BY <1>1, <1>t, HoursTyped, ChasingConstants DEF TimePasses, ChasingTypeOK
  <2>3. ASSUME NEW x \in Chasers PROVE ReadWell(chaser[x])'
    <3>1. chaser' = chaser /\ deadline' = deadline
      BY <1>1 DEF TimePasses
    <3>2. \A t \in Tasks : chaser[x].seen[t] = None \/ chaser[x].seen[t] \in Nat
      <4>1. chaser[x].seen \in [Tasks -> Hours \cup {None}]
        BY <1>s DEF Chaser
      <4> QED BY <4>1, HoursTyped
    <3>3. ReadWell(chaser[x])
      BY <1>s
    <3> QED BY <2>2, <3>1, <3>2, <3>3 DEF ReadWell, DaysAt
  <2> QED BY <2>1, <2>3 DEF ChasingInv
<1>2. CASE \E t \in Tasks : TaskIsCreated(t) \/ TaskCloses(t)
  <2>1. ChasingTypeOK'
    BY <1>2, <1>t DEF TaskIsCreated, TaskCloses, ChasingTypeOK
  <2>2. UNCHANGED << clock, deadline, chaser >>
    BY <1>2 DEF TaskIsCreated, TaskCloses
  <2> QED BY <2>1, <2>2 DEF ChasingInv, ReadWell, DaysAt
<1>3. ASSUME NEW x \in Chasers, score_active_tasks(x) PROVE ChasingInv'
  <2> DEFINE due == {t \in Tasks : status[t] = "open" /\ chasing_score(t) # 0}
             score == [t \in Tasks |-> IF t \in due THEN chasing_score(t) ELSE 0]
             seen == [t \in Tasks |-> IF t \in due THEN contact[t] ELSE None]
             s == [at |-> "chasing", task |-> NoTask, score |-> score, seen |-> seen]
  <2>1. chaser' = [chaser EXCEPT ![x] = s]
    BY <1>3 DEF score_active_tasks
  <2>2. score \in [Tasks -> Int] /\ seen \in [Tasks -> Hours \cup {None}]
    BY <1>t, ScoreRead DEF ChasingTypeOK
  <2>3. ASSUME NEW t \in Tasks, score[t] # 0
        PROVE  /\ seen[t] = None \/ clock - seen[t] >= 24
               /\ score[t] = Weight(t) * proximity_multiplier(DaysAt(clock, t))
    BY <1>t, <2>3, ScoreRead
  <2> HIDE DEF score, seen
  <2>4. s \in Chaser /\ s.score = score /\ s.seen = seen
    BY <2>2 DEF Chaser
  <2>5. ReadWell(s)
    BY <1>t, <2>3, <2>4 DEF ReadWell, ChasingTypeOK
  <2> HIDE DEF s
  <2> QED BY <1>3, <1>t, <2>1, <2>4, <2>5, ChaserStep DEF score_active_tasks, ChasingTypeOK
<1>4. ASSUME NEW x \in Chasers, NEW t \in Tasks, SendChase(x, t) PROVE ChasingInv'
  <2> DEFINE s == [chaser[x] EXCEPT !.at = "stamping", !.task = t,
                                    !.score[t] = 0, !.seen[t] = None]
  <2>1. chaser' = [chaser EXCEPT ![x] = s]
    BY <1>4, <1>t DEF SendChase, ChasingTypeOK
  <2>2. /\ s \in Chaser
        /\ s.score[t] = 0
        /\ \A u \in Tasks \ {t} : s.score[u] = chaser[x].score[u] /\ s.seen[u] = chaser[x].seen[u]
    <3> DEFINE score == [chaser[x].score EXCEPT ![t] = 0]
               seen == [chaser[x].seen EXCEPT ![t] = None]
    <3>1. /\ chaser[x].score \in [Tasks -> Int]
          /\ chaser[x].seen \in [Tasks -> Hours \cup {None}]
      BY <1>s DEF Chaser
    <3>2. /\ score \in [Tasks -> Int] /\ score[t] = 0
          /\ seen \in [Tasks -> Hours \cup {None}]
          /\ \A u \in Tasks \ {t} : score[u] = chaser[x].score[u] /\ seen[u] = chaser[x].seen[u]
      BY <3>1
    <3>3. s = [chaser[x] EXCEPT !.at = "stamping", !.task = t, !.score = score, !.seen = seen]
      OBVIOUS
    <3> HIDE DEF score, seen, s
    <3>4. s \in Chaser /\ s.score = score /\ s.seen = seen
      BY <1>s, <3>2, <3>3 DEF Chaser
    <3> QED BY <3>2, <3>4
  <2> HIDE DEF s
  <2>3. ReadWell(s)
    BY <1>s, <2>2 DEF ReadWell
  <2>4. last' \in [Tasks -> Hours \cup {None}]
    BY <1>4, <1>t DEF SendChase, ChasingTypeOK
  <2> QED BY <1>4, <1>t, <2>1, <2>2, <2>3, <2>4, ChaserStep DEF SendChase, ChasingTypeOK
<1>5. ASSUME NEW x \in Chasers, Stamp(x) PROVE ChasingInv'
  <2> DEFINE s == IF Todo(x) = {} THEN IdleChaser
                  ELSE [chaser[x] EXCEPT !.at = "chasing", !.task = NoTask]
  <2>1. chaser' = [chaser EXCEPT ![x] = s]
    BY <1>5, <1>t DEF Stamp, AfterTask, ChasingTypeOK
  <2>2. s \in Chaser /\ ReadWell(s)
    <3>1. CASE Todo(x) = {}
      BY <3>1, IdleChaserOk
    <3>2. CASE Todo(x) # {}
      <4>1. s \in Chaser /\ s.score = chaser[x].score /\ s.seen = chaser[x].seen
        BY <1>s, <3>2 DEF Chaser
      <4> HIDE DEF s
      <4> QED BY <1>s, <4>1 DEF ReadWell
    <3> QED BY <3>1, <3>2
  <2> HIDE DEF s
  <2>3. contact' \in [Tasks -> Hours \cup {None}]
    <3>1. chaser[x].task \in Tasks \cup {NoTask} /\ clock \in Hours
      BY <1>s, <1>t DEF Chaser, ChasingTypeOK
    <3> QED BY <1>5, <1>t, <3>1 DEF Stamp, mark_task_contacted, ChasingTypeOK
  <2>4. chaseFaults' \in 0..MaxChaseFaults
    BY <1>5, <1>t, ChaseFaultTyped DEF Stamp, ChasingTypeOK
  <2> QED BY <1>5, <1>t, <2>1, <2>2, <2>3, <2>4, ChaserStep DEF Stamp, ChasingTypeOK
<1>6. ASSUME NEW x \in Chasers, ChaserStops(x) PROVE ChasingInv'
  <2>1. chaseFaults' \in 0..MaxChaseFaults
    BY <1>6, <1>t, ChaseFaultTyped DEF ChaserStops
  <2> QED BY <1>6, <1>t, <2>1, IdleChaserOk, ChaserStep DEF ChaserStops, ChasingTypeOK
<1>7. CASE UNCHANGED chasingVars
  BY <1>7 DEF chasingVars, ChasingInv, ChasingTypeOK, ReadWell, DaysAt
<1> QED BY <1>1, <1>2, <1>3, <1>4, <1>5, <1>6, <1>7 DEF ChasingNext, RunChaser

\* The invariant above holds in every reachable state.
THEOREM ChasingInvariant == ChasingSpec => []ChasingInv
BY ChasingInitInv, ChasingNextInv, PTL DEF ChasingSpec

\* Who sends a message takes the first of the tasks it has still to chase.
LEMMA SendsFirst ==
  ASSUME ChasingInv, [ChasingNext]_chasingVars, NEW x \in Chasers, NEW t \in Tasks, Sends(x, t)
  PROVE  First(x, t)
<1>s. chaser \in [Chasers -> Chaser] /\ chaser[x].at = "chasing"
  BY DEF ChasingInv, ChasingTypeOK, Sends
<1>1. \A y \in Chasers \ {x} : ~ (RunChaser(y) \/ ChaserStops(y))
  BY <1>s DEF Sends, RunChaser, score_active_tasks, SendChase, Stamp, AfterTask, ChaserStops
<1>2. ~ ChaserStops(x)
  BY <1>s DEF Sends, ChaserStops, IdleChaser
<1>3. \E u \in Tasks : SendChase(x, u)
  BY <1>s, <1>1, <1>2
  DEF Sends, ChasingNext, chasingVars, TimePasses, TaskIsCreated, TaskCloses, RunChaser,
      score_active_tasks, Stamp
<1>4. PICK u \in Tasks : SendChase(x, u)
  BY <1>3
<1>5. chaser'[x].task = u
  BY <1>s, <1>4 DEF SendChase, Chaser
<1> QED BY <1>4, <1>5 DEF Sends, SendChase

\* Whatever the sweeps and the graph's runs do at the same time, a task is chased
\* again within 24 hours only by one that had read it before the first message
\* was stamped, or when that stamp failed.
THEOREM CooldownUnlessUnseenHolds == ChasingSpec => CooldownUnlessUnseen
<1>1. ChasingInv /\ [ChasingNext]_chasingVars
        => [ \A x \in Chasers, t \in Tasks :
               Sends(x, t) /\ last[t] # None =>
                 \/ clock - last[t] >= 24
                 \/ chaser[x].seen[t] # last[t] ]_chasingVars
  <2> SUFFICES ASSUME ChasingInv, [ChasingNext]_chasingVars, NEW x \in Chasers, NEW t \in Tasks,
                      Sends(x, t), last[t] # None, chaser[x].seen[t] = last[t]
               PROVE  clock - last[t] >= 24
    OBVIOUS
  <2>1. chaser[x].score[t] # 0
    BY SendsFirst DEF First, Todo
  <2> QED BY <2>1 DEF ChasingInv, ReadWell
<1> QED BY <1>1, ChasingInvariant, PTL DEF ChasingSpec, CooldownUnlessUnseen

\* A nearer deadline never has the smaller multiplier.
LEMMA NearerIsMore ==
  ASSUME ChasingTypeOK, NEW t \in Tasks, NEW u \in Tasks, NEW c \in Hours,
         deadline[u] = deadline[t] \/ SoonerThan(u, t)
  PROVE  proximity_multiplier(DaysAt(c, u)) >= proximity_multiplier(DaysAt(c, t))
<1>1. deadline[t] \in Nat \cup {None} /\ deadline[u] \in Nat \cup {None} /\ c \in Nat
  <2>1. \A v \in Tasks : deadline[v] \in Nat \cup {None}
    BY ChasingConstants DEF ChasingTypeOK
  <2> QED BY <2>1, HoursTyped
<1>2. CASE deadline[u] = deadline[t]
  <2>1. DaysAt(c, u) = DaysAt(c, t)
    BY <1>2 DEF DaysAt
  <2>2. proximity_multiplier(DaysAt(c, u)) = proximity_multiplier(DaysAt(c, t))
    BY <2>1
  <2>3. proximity_multiplier(DaysAt(c, t)) \in Int
    BY DaysTyped
  <2> QED BY <2>2, <2>3
<1>3. CASE deadline[u] # None /\ deadline[t] = None
  <2>1. proximity_multiplier(DaysAt(c, t)) = 1
    BY <1>3 DEF DaysAt, no_deadline_days, proximity_multiplier
  <2>2. proximity_multiplier(DaysAt(c, u)) \in Nat \ {0}
    BY DaysTyped
  <2> QED BY <2>1, <2>2
<1>4. CASE deadline[u] # None /\ deadline[t] # None /\ deadline[u] < deadline[t]
  <2>1. deadline[u] \in Nat /\ deadline[t] \in Nat
    BY <1>1, <1>4
  <2>2. (24 * deadline[u] - c) \div 24 <= (24 * deadline[t] - c) \div 24
    BY <1>1, <1>4, <2>1
  <2>3. DaysAt(c, u) <= DaysAt(c, t) /\ DaysAt(c, u) \in Int /\ DaysAt(c, t) \in Int
    BY <1>4, <2>2, DaysTyped DEF DaysAt
  <2> QED BY <2>3 DEF proximity_multiplier
<1> QED BY <1>2, <1>3, <1>4 DEF SoonerThan

\* More by weight and no less by multiplier is more.
LEMMA ProductGrows ==
  ASSUME NEW a \in Nat, NEW b \in Nat, NEW p \in Nat, NEW q \in Nat \ {0}, a > b, p >= q
  PROVE  a * p > b * q
<1>1. a * p >= a * q
  <2>1. PICK d \in Nat : p = q + d
    <3>1. p - q \in Nat /\ p = q + (p - q)
      OBVIOUS
    <3> QED BY <3>1
  <2>2. a * p = a * q + a * d
    BY <2>1
  <2>3. a * d \in Nat /\ a * q \in Nat
    BY <2>1
  <2> QED BY <2>2, <2>3
<1>2. a * q > b * q
  <2>1. PICK d \in Nat \ {0} : a = b + d
    <3>1. a - b \in Nat \ {0} /\ a = b + (a - b)
      OBVIOUS
    <3> QED BY <3>1
  <2>2. a * q = b * q + d * q
    BY <2>1
  <2>3. d * q \in Nat \ {0} /\ b * q \in Nat
    BY <2>1
  <2> QED BY <2>2, <2>3
<1>3. a * p \in Nat /\ a * q \in Nat /\ b * q \in Nat
  OBVIOUS
<1> QED BY <1>1, <1>2, <1>3

\* score_active_tasks' order: for any impacts, severities, deadlines and hours,
\* what matters more, is riskier and is due earlier is chased first.
THEOREM UrgentFirstHolds == ChasingSpec => UrgentFirst
<1>1. ChasingInv /\ [ChasingNext]_chasingVars
        => [ \A x \in Chasers, t \in Tasks :
               Sends(x, t) => ~ \E u \in Todo(x) : Dominates(u, t) ]_chasingVars
  <2> SUFFICES ASSUME ChasingInv, [ChasingNext]_chasingVars, NEW x \in Chasers, NEW t \in Tasks,
                      Sends(x, t), NEW u \in Todo(x), Dominates(u, t)
               PROVE  FALSE
    OBVIOUS
  <2>t. ChasingTypeOK
    BY DEF ChasingInv
  <2>1. u \in Tasks /\ chaser[x].score[u] # 0 /\ chaser[x].score[t] # 0
    BY SendsFirst DEF First, Todo
  <2>2. chaser[x].score[u] <= chaser[x].score[t]
    BY SendsFirst DEF First
  <2>3. PICK c \in Hours : \A v \in Tasks :
          chaser[x].score[v] # 0 =>
            chaser[x].score[v] = Weight(v) * proximity_multiplier(DaysAt(c, v))
    BY DEF ChasingInv, ReadWell
  <2>4. Weight(u) > Weight(t) /\ Weight(u) \in Nat /\ Weight(t) \in Nat
    <3>1. /\ Impact[u] \in 1..10 /\ Severity[u] \in 1..10
          /\ Impact[t] \in 1..10 /\ Severity[t] \in 1..10
          /\ Weight(u) \in Nat /\ Weight(t) \in Nat
      BY <2>1, WeightTyped
    <3>2. Impact[u] >= Impact[t] /\ Severity[u] >= Severity[t]
          /\ (Impact[u] > Impact[t] \/ Severity[u] > Severity[t])
      BY DEF Dominates
    <3> QED BY <3>1, <3>2 DEF Weight
  <2> DEFINE pu == proximity_multiplier(DaysAt(c, u))
             pt == proximity_multiplier(DaysAt(c, t))
  <2>5. pu >= pt /\ pu \in Nat \ {0} /\ pt \in Nat \ {0}
    BY <2>t, <2>1, NearerIsMore, DaysTyped DEF Dominates
  <2>6. chaser[x].score[u] = Weight(u) * pu /\ chaser[x].score[t] = Weight(t) * pt
    BY <2>1, <2>3
  <2> HIDE DEF pu, pt
  <2>7. Weight(u) * pu > Weight(t) * pt
    BY <2>4, <2>5, ProductGrows
  <2>8. Weight(u) * pu \in Nat /\ Weight(t) * pt \in Nat
    BY <2>4, <2>5
  <2> QED BY <2>2, <2>6, <2>7, <2>8
<1> QED BY <1>1, ChasingInvariant, PTL DEF ChasingSpec, UrgentFirst

-----------------------------------------------------------------------------
(* The SharePoint sync.                                                     *)

\* A cached version shows the item as it is: Shows(f) is Right(f, cache[f]).
Right(f, v) ==
  /\ drive[f].kind = "file" => v = drive[f].version
  /\ drive[f].kind = "deleted" => v = 0

InHand(s, f) == s.at \in {"writing", "waiting"} /\ s.file = f
InList(s, f) == \E i \in s.items : i.file = f
Staged(s, f) == s.staged[f] # NotKnown
PassesOver(s, f) == drive[f].kind = "file" /\ s.skipped[f] = drive[f].version

\* Run s has still to treat an item as it is now, or has treated it rightly: what
\* it holds staged, or else what is cached, shows the item; or has skipped it.
Treats(s, f) ==
  /\ InList(s, f) =>
       [file |-> f, kind |-> drive[f].kind, version |-> drive[f].version] \in s.items
  /\ InHand(s, f) => Right(f, s.content)
  /\ ~InList(s, f) /\ ~InHand(s, f) =>
       \/ Right(f, IF Staged(s, f) THEN s.staged[f] ELSE cache[f])
       \/ PassesOver(s, f)

\* A run has each item in one place, and none that did not change after its
\* cursor; unless it was overtaken, it treats all that changed up to its link.
SyncRunOk(s) ==
  /\ s \in Sync
  /\ s.at \in {"writing", "waiting"} => s.file \in Files /\ ~Staged(s, s.file)
  /\ s.at \in {"idle", "started"} =>
       s.items = {} /\ \A f \in Files : ~Staged(s, f) /\ s.skipped[f] = 0
  /\ \A i, j \in s.items : i.file = j.file => i = j
  /\ \A i \in s.items : ~Staged(s, i.file) /\ ~InHand(s, i.file)
  /\ s.resume <= changes /\ s.link <= changes
  /\ \A f \in Files :
       InList(s, f) \/ InHand(s, f) \/ Staged(s, f) \/ s.skipped[f] # 0
         => drive[f].version > s.resume
  /\ s.at # "idle" /\ ~s.overtaken => s.resume = cursor
  /\ s.at \notin {"idle", "started"} /\ ~s.overtaken =>
       \A f \in Files : s.resume < drive[f].version /\ drive[f].version <= s.link => Treats(s, f)

DriveOk ==
  /\ cursor <= changes
  /\ \A f \in Files :
       /\ drive[f].version <= changes
       /\ drive[f].kind = "absent" <=> drive[f].version = 0

SyncInv ==
  /\ SharePointTypeOK
  /\ DriveOk
  /\ \A x \in Syncs : SyncRunOk(sync[x])
  /\ CursorIsHonest

\* Versions are natural numbers; an unknown one is none of them.
LEMMA VersionsTyped == Version \subseteq Nat /\ 0 \in Version /\ NotKnown = -1
BY SharePointConstants DEF Version, NotKnown

\* What CursorIsHonest asks of the cache is Right of the cached version.
LEMMA ShowsRight == \A f \in Files : Shows(f) <=> Right(f, cache[f])
BY DEF Shows, Right

\* A run that has not started owes nothing.
LEMMA IdleSyncOk ==
  ASSUME SharePointTypeOK
  PROVE  SyncRunOk(IdleSync)
<1>1. IdleSync \in Sync
  BY VersionsTyped DEF IdleSync, Sync
<1>2. changes \in Nat
  BY VersionsTyped DEF SharePointTypeOK
<1> QED BY <1>1, <1>2, VersionsTyped DEF IdleSync, SyncRunOk, InHand, InList, Staged

\* A step of one run that commits nothing.
LEMMA SyncStep ==
  ASSUME SyncInv, NEW x \in Syncs, NEW s,
         sync' = [sync EXCEPT ![x] = s], SyncRunOk(s),
         ingested' \subseteq Files \X Version,
         syncFaults' \in 0..MaxSyncFaults,
         UNCHANGED << changes, drive, cache, cursor, passed, stale >>
  PROVE  SyncInv'
<1>1. s \in Sync
  BY DEF SyncRunOk
<1>2. SharePointTypeOK'
  BY <1>1 DEF SyncInv, SharePointTypeOK
<1>3. \A y \in Syncs : sync'[y] = s \/ sync'[y] = sync[y]
  BY DEF SyncInv, SharePointTypeOK
<1>4. \A y \in Syncs : SyncRunOk(sync'[y])
  BY <1>3 DEF SyncInv
<1>5. \A y \in Syncs : SyncRunOk(sync[y])'
  BY <1>4 DEF SyncRunOk, Treats, Right, InHand, InList, Staged, PassesOver
<1>6. DriveOk'
  BY DEF SyncInv, DriveOk
<1>7. CursorIsHonest'
  BY DEF SyncInv, CursorIsHonest, Shows, Skipped
<1> QED BY <1>2, <1>5, <1>6, <1>7 DEF SyncInv

\* A fault of a run stays within the bound.
LEMMA SyncFaultTyped ==
  ASSUME SharePointTypeOK, SyncFault
  PROVE  syncFaults' \in 0..MaxSyncFaults
BY SharePointConstants DEF SharePointTypeOK, SyncFault

\* The empty drive, the empty cache and no cursor agree.
LEMMA SyncInitInv == SharePointInit => SyncInv
<1> SUFFICES ASSUME SharePointInit PROVE SyncInv
  OBVIOUS
<1>1. IdleSync \in Sync
  BY VersionsTyped DEF IdleSync, Sync
<1>2. SharePointTypeOK
  <2>1. drive \in [Files -> DriveItem]
    BY VersionsTyped DEF SharePointInit, DriveItem
  <2>2. sync \in [Syncs -> Sync]
    BY <1>1 DEF SharePointInit
  <2>3. syncFaults \in 0..MaxSyncFaults
    BY SharePointConstants DEF SharePointInit
  <2> QED BY <2>1, <2>2, <2>3, VersionsTyped DEF SharePointInit, SharePointTypeOK
<1>3. DriveOk
  BY DEF SharePointInit, DriveOk
<1>4. CursorIsHonest
  BY DEF SharePointInit, CursorIsHonest, Shows
<1> QED BY <1>2, <1>3, <1>4, IdleSyncOk DEF SharePointInit, SyncInv

\* What changes on the drive is after every link, and so concerns no promise.
LEMMA ItemChangesKeeps ==
  ASSUME SyncInv, NEW f \in Files, ItemChanges(f)
  PROVE  SyncInv'
<1>1. PICK kind \in {"file", "other", "deleted"} :
        drive' = [drive EXCEPT ![f] = [kind |-> kind, version |-> changes + 1]]
  BY DEF ItemChanges
<1>2. changes \in Nat /\ changes < MaxVersion /\ changes' = changes + 1 /\ cursor \in Nat
  BY VersionsTyped DEF ItemChanges, SyncInv, SharePointTypeOK
<1>3. changes + 1 \in Version
  BY <1>2, SharePointConstants DEF Version
<1>4. UNCHANGED << cache, cursor, ingested, sync, passed, stale, syncFaults >>
  BY DEF ItemChanges
<1>5. SharePointTypeOK'
  BY <1>1, <1>2, <1>3, <1>4 DEF SyncInv, SharePointTypeOK, DriveItem
<1>6. /\ drive'[f].version = changes + 1 /\ drive'[f].kind # "absent"
      /\ \A g \in Files \ {f} : drive'[g] = drive[g]
      /\ \A g \in Files : drive[g].version \in Nat /\ drive[g].version <= changes
  BY <1>1, VersionsTyped DEF SyncInv, SharePointTypeOK, DriveItem, DriveOk
<1>7. DriveOk'
  BY <1>2, <1>4, <1>6 DEF SyncInv, DriveOk
<1>8. CursorIsHonest'
  BY <1>2, <1>4, <1>6 DEF SyncInv, DriveOk, CursorIsHonest, Shows, Skipped
<1>9. ASSUME NEW x \in Syncs PROVE SyncRunOk(sync[x])'
  <2>0. PICK s : s = sync[x]
    OBVIOUS
  <2>1. SyncRunOk(s) /\ sync'[x] = s
    BY <1>4, <2>0 DEF SyncInv
  <2>2. s.resume \in Nat /\ s.link \in Int
    <3>1. s \in Sync
      BY <2>1 DEF SyncRunOk
    <3>2. s.resume \in Version /\ s.link \in Version \cup {NotKnown}
      BY <3>1 DEF Sync
    <3> QED BY <3>2, SharePointConstants DEF Version, NotKnown
  <2>3. \A g \in Files : drive'[g].version > s.resume \/ drive'[g].version = drive[g].version
    BY <1>2, <1>6, <2>1, <2>2 DEF SyncRunOk
  <2>4. s.resume <= changes' /\ s.link <= changes'
    BY <1>2, <2>1, <2>2 DEF SyncRunOk
  <2>5. \A g \in Files :
          InList(s, g) \/ InHand(s, g) \/ Staged(s, g) \/ s.skipped[g] # 0
            => drive'[g].version > s.resume
    BY <2>1, <2>3 DEF SyncRunOk
  <2>6. ASSUME NEW g \in Files, drive'[g].version <= s.link
        PROVE  g # f
    BY <1>2, <1>6, <2>1, <2>2, <2>6 DEF SyncRunOk
  <2>7. ASSUME s.at \notin {"idle", "started"}, ~s.overtaken, NEW g \in Files,
               s.resume < drive'[g].version, drive'[g].version <= s.link
        PROVE  /\ InList(s, g) =>
                    [file |-> g, kind |-> drive'[g].kind, version |-> drive'[g].version] \in s.items
               /\ InHand(s, g) => Right(g, s.content)'
               /\ ~InList(s, g) /\ ~InHand(s, g) =>
                    \/ Right(g, IF Staged(s, g) THEN s.staged[g] ELSE cache[g])'
                    \/ PassesOver(s, g)'
    <3>1. drive'[g] = drive[g] /\ Treats(s, g)
      BY <1>6, <2>1, <2>6, <2>7 DEF SyncRunOk
    <3> QED BY <1>4, <3>1 DEF Treats, Right, PassesOver
  <2> QED BY <1>4, <2>1, <2>4, <2>5, <2>7
      DEF SyncRunOk, Treats, Right, InHand, InList, Staged, PassesOver
<1> QED BY <1>5, <1>7, <1>8, <1>9 DEF SyncInv

\* A listing names everything that changed since the cursor, as it is.
LEMMA FetchOk ==
  ASSUME SyncInv, NEW x \in Syncs, sync[x].at = "started", NEW link \in {changes, NotKnown}
  PROVE  SyncRunOk([sync[x] EXCEPT !.at = "processing", !.link = link,
                                   !.items = ChangedSince(sync[x].resume)])
<1> DEFINE items == ChangedSince(sync[x].resume)
           s == [sync[x] EXCEPT !.at = "processing", !.link = link, !.items = items]
<1>1. SyncRunOk(sync[x]) /\ sync[x] \in Sync
  BY DEF SyncInv, SyncRunOk
<1>2. /\ changes \in Nat /\ changes \in Version
      /\ drive \in [Files -> DriveItem]
      /\ \A f \in Files : drive[f].version \in Nat /\ drive[f].version <= changes
  BY VersionsTyped DEF SyncInv, SharePointTypeOK, DriveOk, DriveItem
<1>3. sync[x].resume \in Nat
  BY <1>1, VersionsTyped DEF Sync
<1>4. ASSUME NEW i \in items
      PROVE  \E f \in Files : /\ drive[f].version > sync[x].resume
                              /\ i = [file |-> f, kind |-> drive[f].kind, version |-> drive[f].version]
  BY <1>4 DEF ChangedSince
<1>5. items \in SUBSET Listed
  <2>1. ASSUME NEW f \in Files, drive[f].version > sync[x].resume
        PROVE  [file |-> f, kind |-> drive[f].kind, version |-> drive[f].version] \in Listed
    <3>1. drive[f].kind # "absent"
      BY <1>2, <1>3, <2>1 DEF SyncInv, DriveOk
    <3> QED BY <1>2, <3>1 DEF Listed, DriveItem
  <2> QED BY <1>4, <2>1
<1>6. \A f \in Files : drive[f].version > sync[x].resume =>
        [file |-> f, kind |-> drive[f].kind, version |-> drive[f].version] \in items
  BY DEF ChangedSince
<1>7. \A i \in items : i.file \in Files /\ drive[i.file].version > sync[x].resume
  BY <1>4
<1>8. \A i, j \in items : i.file = j.file => i = j
  BY <1>4
<1> HIDE DEF items
<1>9. /\ s \in Sync /\ s.at = "processing" /\ s.link = link /\ s.items = items
      /\ s.resume = sync[x].resume /\ s.staged = sync[x].staged /\ s.overtaken = sync[x].overtaken
      /\ s.skipped = sync[x].skipped
  BY <1>1, <1>2, <1>5 DEF Sync
<1> HIDE DEF s
<1>10. s.resume <= changes /\ s.link <= changes
  BY <1>1, <1>2, <1>9, VersionsTyped DEF SyncRunOk
<1>11. \A f \in Files : ~Staged(s, f) /\ ~InHand(s, f) /\ s.skipped[f] = 0
  BY <1>1, <1>9 DEF SyncRunOk, Staged, InHand
<1>12. \A f \in Files : InList(s, f) => drive[f].version > s.resume
  BY <1>7, <1>9 DEF InList
<1>13. ASSUME NEW f \in Files, s.resume < drive[f].version
       PROVE  Treats(s, f)
  <2>1. [file |-> f, kind |-> drive[f].kind, version |-> drive[f].version] \in items
    BY <1>2, <1>3, <1>6, <1>9, <1>13
  <2> QED BY <1>9, <1>11, <2>1 DEF Treats, InList
<1>14. s.at # "idle" /\ ~s.overtaken => s.resume = cursor
  BY <1>1, <1>9 DEF SyncRunOk
<1>15. \A i \in s.items : ~Staged(s, i.file) /\ ~InHand(s, i.file)
  BY <1>7, <1>9, <1>11
<1>16. SyncRunOk(s)
  BY <1>8, <1>9, <1>10, <1>11, <1>12, <1>13, <1>14, <1>15 DEF SyncRunOk
<1> QED BY <1>16 DEF s, items

\* A step of a run on one item, which leaves the others where they are.
LEMMA ItemStepOk ==
  ASSUME SyncInv, NEW x \in Syncs, NEW s \in Sync, NEW f \in Files,
         sync[x].at \notin {"idle", "started"}, s.at \notin {"idle", "started"},
         s.resume = sync[x].resume, s.link = sync[x].link, s.overtaken = sync[x].overtaken,
         s.items \subseteq sync[x].items,
         \A g \in Files \ {f} : /\ InList(s, g) <=> InList(sync[x], g)
                                /\ ~InHand(s, g) /\ ~InHand(sync[x], g)
                                /\ s.staged[g] = sync[x].staged[g]
                                /\ s.skipped[g] = sync[x].skipped[g],
         \A i \in sync[x].items : i.file # f => i \in s.items,
         ~InList(s, f),
         InList(sync[x], f) \/ InHand(sync[x], f),
         s.at \in {"writing", "waiting"} => s.file = f /\ ~Staged(s, f),
         ~s.overtaken /\ s.resume < drive[f].version /\ drive[f].version <= s.link => Treats(s, f)
  PROVE  SyncRunOk(s)
<1>1. SyncRunOk(sync[x])
  BY DEF SyncInv
<1>2. \A i \in s.items : i.file \in Files \ {f} /\ i \in sync[x].items
  BY DEF InList, Sync, Listed
<1>3. \A i \in s.items : ~Staged(s, i.file) /\ ~InHand(s, i.file)
  BY <1>1, <1>2 DEF SyncRunOk, Staged
<1>4. \A g \in Files :
        InList(s, g) \/ InHand(s, g) \/ Staged(s, g) \/ s.skipped[g] # 0
          => drive[g].version > s.resume
  BY <1>1 DEF SyncRunOk, Staged
<1>5. ASSUME NEW g \in Files, ~s.overtaken, s.resume < drive[g].version, drive[g].version <= s.link
      PROVE  Treats(s, g)
  <2>1. CASE g = f
    BY <1>5, <2>1
  <2>2. CASE g # f
    <3>1. Treats(sync[x], g)
      BY <1>1, <1>5 DEF SyncRunOk
    <3> QED BY <2>2, <3>1 DEF Treats, Staged, PassesOver
  <2> QED BY <2>1, <2>2
<1> QED BY <1>1, <1>2, <1>3, <1>4, <1>5 DEF SyncRunOk

\* The run takes an item: it is skipped, or in hand with the content that shows
\* it, if it is as it was listed.
LEMMA TakeItemKeeps ==
  ASSUME SyncInv, NEW x \in Syncs, TakeItem(x)
  PROVE  SyncInv'
<1>1. SyncRunOk(sync[x]) /\ sync[x] \in Sync /\ sync[x].at = "processing"
  BY DEF SyncInv, SyncRunOk, TakeItem
<1>2. PICK item \in sync[x].items :
        Skip(x, item) \/ Treat(x, item)
  BY DEF TakeItem
<1> DEFINE f == item.file
<1>3. item \in Listed /\ f \in Files
  BY <1>1 DEF Sync, Listed
<1>4. InList(sync[x], f) /\ ~Staged(sync[x], f) /\ \A g : ~InHand(sync[x], g)
  BY <1>1, <1>2 DEF SyncRunOk, InList, InHand
<1>5. /\ \A i \in sync[x].items \ {item} : i.file # f
      /\ \A i \in sync[x].items : i.file # f => i \in sync[x].items \ {item}
  BY <1>1, <1>2 DEF SyncRunOk
<1>6. ASSUME ~sync[x].overtaken, sync[x].resume < drive[f].version,
             drive[f].version <= sync[x].link
      PROVE  item.kind = drive[f].kind /\ item.version = drive[f].version
  <2>1. Treats(sync[x], f)
    BY <1>1, <1>3, <1>6 DEF SyncRunOk
  <2>2. [file |-> f, kind |-> drive[f].kind, version |-> drive[f].version] \in sync[x].items
    BY <1>4, <2>1 DEF Treats
  <2>3. item = [file |-> f, kind |-> drive[f].kind, version |-> drive[f].version]
    BY <1>5, <2>2
  <2> QED BY <2>3
<1>7. UNCHANGED << changes, drive, cache, cursor, ingested, passed, stale, syncFaults >>
  BY DEF TakeItem
<1>8. ingested' \subseteq Files \X Version /\ syncFaults' \in 0..MaxSyncFaults
  BY <1>7 DEF SyncInv, SharePointTypeOK
<1>9. CASE Skip(x, item)
  <2> DEFINE skipped == [sync[x].skipped EXCEPT ![f] = IF item.kind = "file" THEN item.version ELSE @]
             s == [sync[x] EXCEPT !.items = sync[x].items \ {item}, !.skipped = skipped]
  <2>0. /\ skipped \in [Files -> Version]
        /\ item.kind = "file" => skipped[f] = item.version
        /\ \A g \in Files \ {f} : skipped[g] = sync[x].skipped[g]
    BY <1>1, <1>3 DEF Sync, Listed
  <2>1. sync' = [sync EXCEPT ![x] = s] /\ item.kind \in {"file", "other"}
    BY <1>9 DEF Skip, SyncInv, SharePointTypeOK
  <2> HIDE DEF skipped
  <2>2. /\ s \in Sync /\ s.at = "processing" /\ s.items = sync[x].items \ {item}
        /\ s.resume = sync[x].resume /\ s.link = sync[x].link
        /\ s.overtaken = sync[x].overtaken /\ s.staged = sync[x].staged
        /\ s.skipped = skipped
    BY <1>1, <2>0 DEF Sync
  <2> HIDE DEF s
  <2>3. /\ ~InList(s, f) /\ \A g : ~InHand(s, g)
        /\ \A g \in Files \ {f} : InList(s, g) <=> InList(sync[x], g)
    BY <1>5, <2>2 DEF InList, InHand
  <2>4. ~s.overtaken /\ s.resume < drive[f].version /\ drive[f].version <= s.link => Treats(s, f)
    BY <1>6, <2>0, <2>1, <2>2, <2>3 DEF Treats, Right, PassesOver
  <2> HIDE DEF f
  <2>5. SyncRunOk(s)
    BY <1>1, <1>3, <1>4, <1>5, <2>0, <2>2, <2>3, <2>4, ItemStepOk
  <2> QED BY <1>7, <1>8, <2>1, <2>5, SyncStep
<1>10. CASE Treat(x, item)
  <2>1. PICK content \in IF item.kind = "deleted" THEN {0} ELSE _download_and_classify(item) :
          sync' = [sync EXCEPT ![x].items = sync[x].items \ {item}, ![x].at = "writing",
                               ![x].file = f, ![x].content = content]
    BY <1>10 DEF Treat, SyncInv, SharePointTypeOK
  <2> DEFINE s == [sync[x] EXCEPT !.items = sync[x].items \ {item}, !.at = "writing",
                                  !.file = f, !.content = content]
  <2>2. sync' = [sync EXCEPT ![x] = s]
    BY <2>1 DEF SyncInv, SharePointTypeOK
  <2>3. /\ content \in Version
        /\ item.kind = "deleted" => content = 0
        /\ item.kind = "file" => content \in {item.version, drive[f].version}
        /\ item.kind # "other"
    BY <1>3, <1>10, <2>1, VersionsTyped
    DEF Treat, _download_and_classify, Listed, SyncInv, SharePointTypeOK, DriveItem
  <2>4. /\ s \in Sync /\ s.at = "writing" /\ s.items = sync[x].items \ {item}
        /\ s.file = f /\ s.content = content
        /\ s.resume = sync[x].resume /\ s.link = sync[x].link
        /\ s.overtaken = sync[x].overtaken /\ s.staged = sync[x].staged
        /\ s.skipped = sync[x].skipped
    BY <1>1, <1>3, <2>3 DEF Sync
  <2> HIDE DEF s
  <2>5. /\ ~InList(s, f) /\ InHand(s, f) /\ ~Staged(s, f)
        /\ \A g \in Files \ {f} : ~InHand(s, g) /\ (InList(s, g) <=> InList(sync[x], g))
    BY <1>4, <1>5, <2>4 DEF InList, InHand, Staged
  <2>6. ~s.overtaken /\ s.resume < drive[f].version /\ drive[f].version <= s.link => Treats(s, f)
    BY <1>6, <2>3, <2>4, <2>5 DEF Treats, Right
  <2> HIDE DEF f
  <2>7. SyncRunOk(s)
    BY <1>1, <1>3, <1>4, <1>5, <2>4, <2>5, <2>6, ItemStepOk
  <2> QED BY <1>7, <1>8, <2>2, <2>7, SyncStep
<1> QED BY <1>2, <1>9, <1>10

\* The item in hand is staged, or is not cached and need not be.
LEMMA ItemWrittenKeeps ==
  ASSUME SyncInv, NEW x \in Syncs, sync[x].at \in {"writing", "waiting"}, NEW staged,
         ItemWritten(x, staged),
         \/ staged = [sync[x].staged EXCEPT ![sync[x].file] = sync[x].content]
         \/ staged = sync[x].staged /\ NothingToDelete(x),
         ingested' \subseteq Files \X Version,
         syncFaults' \in 0..MaxSyncFaults,
         UNCHANGED << changes, drive, cache, cursor, passed, stale >>
  PROVE  SyncInv'
<1> DEFINE f == sync[x].file
           s == [sync[x] EXCEPT !.at = "processing", !.staged = staged, !.file = NoFile, !.content = 0]
<1>1. SyncRunOk(sync[x]) /\ sync[x] \in Sync
  BY DEF SyncInv, SyncRunOk
<1>2. f \in Files /\ ~Staged(sync[x], f) /\ InHand(sync[x], f)
  BY <1>1 DEF SyncRunOk, InHand
<1>3. ~InList(sync[x], f) /\ \A g \in Files \ {f} : ~InHand(sync[x], g)
  BY <1>1, <1>2 DEF SyncRunOk, InHand, InList
<1>4. /\ staged \in [Files -> Version \cup {NotKnown}]
      /\ \A g \in Files \ {f} : staged[g] = sync[x].staged[g]
  BY <1>1 DEF Sync
<1>5. IF staged[f] # NotKnown THEN staged[f] = sync[x].content ELSE cache[f] = sync[x].content
  <2>1. CASE staged = [sync[x].staged EXCEPT ![sync[x].file] = sync[x].content]
    <3>1. staged[f] = sync[x].content /\ sync[x].content \in Version
      BY <1>1, <1>2, <2>1 DEF Sync
    <3>2. sync[x].content # NotKnown
      BY <3>1, VersionsTyped
    <3> QED BY <3>1, <3>2
  <2>2. CASE staged = sync[x].staged /\ NothingToDelete(x)
    BY <1>2, <2>2 DEF NothingToDelete, Staged
  <2> QED BY <2>1, <2>2
<1>6. sync' = [sync EXCEPT ![x] = s]
  BY DEF ItemWritten, SyncInv, SharePointTypeOK
<1>7. /\ s \in Sync /\ s.at = "processing" /\ s.items = sync[x].items /\ s.staged = staged
      /\ s.resume = sync[x].resume /\ s.link = sync[x].link /\ s.overtaken = sync[x].overtaken
      /\ s.skipped = sync[x].skipped
  BY <1>1, <1>4, VersionsTyped DEF Sync
<1> HIDE DEF s
<1>8. /\ \A g : ~InHand(s, g) /\ (InList(s, g) <=> InList(sync[x], g))
      /\ \A i \in sync[x].items : i.file # f => i \in s.items
  BY <1>7 DEF InHand, InList
<1>9. ASSUME ~s.overtaken, s.resume < drive[f].version, drive[f].version <= s.link
      PROVE  Treats(s, f)
  <2>1. Treats(sync[x], f)
    BY <1>1, <1>2, <1>7, <1>9 DEF SyncRunOk
  <2>2. Right(f, sync[x].content)
    BY <1>2, <2>1 DEF Treats
  <2> QED BY <1>3, <1>5, <1>7, <1>8, <2>2 DEF Treats, Staged
<1> HIDE DEF f
<1>10. SyncRunOk(s)
  BY <1>1, <1>2, <1>3, <1>4, <1>7, <1>8, <1>9, ItemStepOk
<1> QED BY <1>6, <1>10, SyncStep

\* The commit of a run that was not overtaken shows all that its link covers; the
\* other runs are overtaken by it.
LEMMA CommitKeeps ==
  ASSUME SyncInv, NEW x \in Syncs, CommitSync(x)
  PROVE  SyncInv'
<1>1. SyncRunOk(sync[x]) /\ sync[x] \in Sync /\ sync[x].at = "processing" /\ sync[x].items = {}
  BY DEF SyncInv, SyncRunOk, CommitSync
<1>2. /\ cache' = [f \in Files |-> IF Staged(sync[x], f) THEN sync[x].staged[f] ELSE cache[f]]
      /\ cursor' = cursor_row(x)
      /\ passed' = [f \in Files |->
           IF sync[x].link # NotKnown /\ sync[x].skipped[f] # 0
           THEN sync[x].skipped[f] ELSE passed[f]]
      /\ stale' = (stale \/ sync[x].overtaken)
      /\ sync' = [y \in Syncs |->
           IF y = x THEN IdleSync
           ELSE IF sync[y].at = "idle" THEN sync[y] ELSE [sync[y] EXCEPT !.overtaken = TRUE]]
      /\ UNCHANGED << changes, drive, ingested, syncFaults >>
  BY DEF CommitSync, Holds, Staged
<1>3. /\ cursor \in Version /\ changes \in Nat /\ cursor <= changes
      /\ \A f \in Files : drive[f].version \in Nat /\ cache[f] \in Version
  BY VersionsTyped DEF SyncInv, SharePointTypeOK, DriveOk, DriveItem
<1>4. cursor' \in Version /\ cursor' <= changes
  <2>1. sync[x].link \in Version \cup {NotKnown} /\ sync[x].link <= changes
    BY <1>1 DEF Sync, SyncRunOk
  <2> QED BY <1>2, <1>3, <2>1 DEF cursor_row
<1>5. cache' \in [Files -> Version]
  <2>1. sync[x].staged \in [Files -> Version \cup {NotKnown}]
    BY <1>1 DEF Sync
  <2> QED BY <1>2, <1>3, <2>1 DEF Staged
<1>6. \A y \in Syncs : sync[y] \in Sync /\ SyncRunOk(sync[y])
  BY DEF SyncInv, SyncRunOk
<1>7. sync' \in [Syncs -> Sync]
  <2>1. IdleSync \in Sync
    BY IdleSyncOk DEF SyncInv, SyncRunOk
  <2>2. \A y \in Syncs : [sync[y] EXCEPT !.overtaken = TRUE] \in Sync
    BY <1>6 DEF Sync
  <2> QED BY <1>2, <1>6, <2>1, <2>2
<1>8. stale' \in BOOLEAN /\ passed' \in [Files -> Version]
  <2>1. sync[x].skipped \in [Files -> Version] /\ sync[x].overtaken \in BOOLEAN
    BY <1>1 DEF Sync
  <2> QED BY <1>2, <2>1 DEF SyncInv, SharePointTypeOK
<1>9. SharePointTypeOK'
  BY <1>2, <1>4, <1>5, <1>7, <1>8 DEF SyncInv, SharePointTypeOK
<1>10. DriveOk'
  BY <1>2, <1>4 DEF SyncInv, DriveOk
<1>11. CursorIsHonest'
  <2> SUFFICES ASSUME ~stale', NEW f \in Files, drive[f].version <= cursor'
               PROVE  \/ Right(f, cache'[f])
                      \/ drive[f].kind = "file" /\ passed'[f] = drive[f].version
    BY <1>2 DEF CursorIsHonest, Shows, Skipped, Right
  <2>1. ~stale /\ ~sync[x].overtaken
    BY <1>1, <1>2 DEF SyncInv, SharePointTypeOK, Sync
  <2>2. sync[x].resume = cursor
    BY <1>1, <2>1 DEF SyncRunOk
  <2>3. cache'[f] = IF Staged(sync[x], f) THEN sync[x].staged[f] ELSE cache[f]
    BY <1>2
  <2>4. CASE drive[f].version <= cursor
    <3>1. ~Staged(sync[x], f) /\ sync[x].skipped[f] = 0
      <4>1. SyncRunOk(sync[x]) /\ drive[f].version <= sync[x].resume
        BY <1>1, <2>2, <2>4
      <4>2. Staged(sync[x], f) \/ sync[x].skipped[f] # 0 => drive[f].version > sync[x].resume
        BY <4>1 DEF SyncRunOk
      <4> QED BY <1>3, <2>2, <4>1, <4>2, VersionsTyped
    <3>2. \/ Right(f, cache[f])
          \/ drive[f].kind = "file" /\ passed[f] = drive[f].version
      BY <2>1, <2>4, ShowsRight DEF SyncInv, CursorIsHonest, Skipped
    <3>3. passed'[f] = passed[f]
      BY <1>2, <3>1
    <3> QED BY <2>3, <3>1, <3>2, <3>3
  <2>5. CASE ~(drive[f].version <= cursor)
    <3>1. cursor' = sync[x].link /\ sync[x].link # NotKnown
      BY <1>2, <2>5 DEF cursor_row
    <3>2. Treats(sync[x], f)
      BY <1>1, <1>3, <2>1, <2>2, <2>5, <3>1, VersionsTyped DEF SyncRunOk
    <3>3. ~InList(sync[x], f) /\ ~InHand(sync[x], f)
      BY <1>1 DEF InList, InHand
    <3>4. CASE Right(f, cache'[f])
      BY <3>4
    <3>5. CASE PassesOver(sync[x], f)
      <4>1. drive[f].kind = "file" /\ sync[x].skipped[f] = drive[f].version
        BY <3>5 DEF PassesOver
      <4>2. drive[f].version # 0
        BY <1>3, <2>5, VersionsTyped
      <4> QED BY <1>2, <3>1, <4>1, <4>2
    <3> QED BY <2>3, <3>2, <3>3, <3>4, <3>5 DEF Treats
  <2> QED BY <2>4, <2>5
<1>12. ASSUME NEW y \in Syncs PROVE SyncRunOk(sync[y])'
  <2>1. CASE sync'[y] = IdleSync
    <3>1. PICK s : s = IdleSync
      OBVIOUS
    <3>2. /\ SyncRunOk(s) /\ s.at = "idle" /\ s.items = {}
          /\ \A f \in Files : ~Staged(s, f) /\ s.skipped[f] = 0
      BY <3>1, IdleSyncOk DEF SyncInv, IdleSync, Staged
    <3> QED BY <1>2, <2>1, <3>1, <3>2 DEF SyncRunOk, InHand, InList, Staged
  <2>2. CASE y # x /\ sync[y].at = "idle"
    <3>1. sync'[y] = sync[y]
      BY <1>2, <2>2
    <3> QED BY <1>2, <1>6, <2>2, <3>1 DEF SyncRunOk, InHand, InList, Staged
  <2>3. CASE y # x /\ sync[y].at # "idle"
    <3> DEFINE s == [sync[y] EXCEPT !.overtaken = TRUE]
    <3>1. sync'[y] = s
      BY <1>2, <2>3
    <3>2. /\ s \in Sync /\ s.overtaken /\ s.at = sync[y].at /\ s.items = sync[y].items
          /\ s.file = sync[y].file /\ s.staged = sync[y].staged /\ s.link = sync[y].link
          /\ s.resume = sync[y].resume /\ s.skipped = sync[y].skipped
      BY <1>6 DEF Sync
    <3> HIDE DEF s
    <3>3. PICK z : z = s
      OBVIOUS
    <3>4. /\ \A f \in Files : /\ InHand(z, f) <=> InHand(sync[y], f)
                              /\ InList(z, f) <=> InList(sync[y], f)
                              /\ Staged(z, f) <=> Staged(sync[y], f)
      BY <3>2, <3>3 DEF InHand, InList, Staged
    <3>5. SyncRunOk(z)
      BY <1>6, <2>3, <3>2, <3>3, <3>4 DEF SyncRunOk, Staged, InHand
    <3>6. z.overtaken /\ sync'[y] = z /\ drive' = drive /\ changes' = changes
      BY <1>2, <3>1, <3>2, <3>3
    <3> QED BY <3>5, <3>6 DEF SyncRunOk, InHand, InList, Staged
  <2> QED BY <1>2, <2>1, <2>2, <2>3
<1> QED BY <1>9, <1>10, <1>11, <1>12 DEF SyncInv

\* Every step of the drive or of a run keeps the invariant.
LEMMA SyncNextInv == SyncInv /\ [SharePointNext]_syncVars => SyncInv'
<1> SUFFICES ASSUME SyncInv, [SharePointNext]_syncVars PROVE SyncInv'
  OBVIOUS
<1>t. SharePointTypeOK /\ sync \in [Syncs -> Sync] /\ \A x \in Syncs : SyncRunOk(sync[x])
  BY DEF SyncInv, SharePointTypeOK
<1>1. ASSUME NEW f \in Files, ItemChanges(f) PROVE SyncInv'
  BY <1>1, ItemChangesKeeps
<1>2. ASSUME NEW x \in Syncs, ReadCursor(x) PROVE SyncInv'
  <2> DEFINE s == [sync[x] EXCEPT !.at = "started", !.resume = cursor]
  <2>1. sync' = [sync EXCEPT ![x] = s]
    BY <1>2, <1>t DEF ReadCursor
  <2>2. /\ s \in Sync /\ s.at = "started" /\ s.resume = cursor /\ s.items = sync[x].items
        /\ s.staged = sync[x].staged /\ s.link = sync[x].link /\ s.skipped = sync[x].skipped
    BY <1>t DEF Sync, SharePointTypeOK
  <2>3. sync[x].at = "idle"
    BY <1>2 DEF ReadCursor
  <2> HIDE DEF s
  <2>4. SyncRunOk(s)
    <3>1. cursor <= changes
      BY DEF SyncInv, DriveOk
    <3> QED BY <1>t, <2>2, <2>3, <3>1 DEF SyncRunOk, InHand, InList, Staged
  <2> QED BY <1>2, <1>t, <2>1, <2>4, SyncStep DEF ReadCursor, SharePointTypeOK
<1>3. ASSUME NEW x \in Syncs, _fetch_all_delta_items(x) PROVE SyncInv'
  <2>1. PICK link \in {changes, NotKnown} :
          /\ sync' = [sync EXCEPT ![x].at = "processing", ![x].link = link,
                                  ![x].items = ChangedSince(sync[x].resume)]
          /\ IF link = NotKnown THEN SyncFault ELSE UNCHANGED syncFaults
    BY <1>3 DEF _fetch_all_delta_items
  <2> DEFINE s == [sync[x] EXCEPT !.at = "processing", !.link = link,
                                  !.items = ChangedSince(sync[x].resume)]
  <2>2. sync' = [sync EXCEPT ![x] = s]
    BY <1>t, <2>1
  <2>3. SyncRunOk(s)
    BY <1>3, FetchOk DEF _fetch_all_delta_items
  <2>4. syncFaults' \in 0..MaxSyncFaults
    BY <1>t, <2>1, SyncFaultTyped DEF SharePointTypeOK
  <2> HIDE DEF s
  <2> QED BY <1>3, <1>t, <2>2, <2>3, <2>4, SyncStep DEF _fetch_all_delta_items, SharePointTypeOK
<1>4. ASSUME NEW x \in Syncs, TakeItem(x) PROVE SyncInv'
  BY <1>4, TakeItemKeeps
<1>5. ASSUME NEW x \in Syncs, WaitForRow(x) PROVE SyncInv'
  <2> DEFINE s == [sync[x] EXCEPT !.at = "waiting"]
  <2>1. sync' = [sync EXCEPT ![x] = s] /\ sync[x].at = "writing"
    BY <1>5, <1>t DEF WaitForRow
  <2>2. /\ s \in Sync /\ s.at = "waiting" /\ s.items = sync[x].items /\ s.file = sync[x].file
        /\ s.content = sync[x].content /\ s.staged = sync[x].staged /\ s.link = sync[x].link
        /\ s.resume = sync[x].resume /\ s.overtaken = sync[x].overtaken
        /\ s.skipped = sync[x].skipped
    BY <1>t DEF Sync
  <2> HIDE DEF s
  <2>3. \A f : /\ InHand(s, f) <=> InHand(sync[x], f)
               /\ InList(s, f) <=> InList(sync[x], f)
               /\ Staged(s, f) <=> Staged(sync[x], f)
    BY <2>1, <2>2 DEF InHand, InList, Staged
  <2>4. \A f \in Files : Treats(sync[x], f) => Treats(s, f)
    BY <2>2, <2>3 DEF Treats, PassesOver
  <2>5. SyncRunOk(s)
    BY <1>t, <2>1, <2>2, <2>3, <2>4 DEF SyncRunOk
  <2> QED BY <1>5, <1>t, <2>1, <2>5, SyncStep DEF WaitForRow, SharePointTypeOK
<1>6. ASSUME NEW x \in Syncs, UpsertItem(x) PROVE SyncInv'
  <2>1. sync[x].file \in Files /\ sync[x].content \in Version
    BY <1>6, <1>t DEF UpsertItem, SyncRunOk, Sync
  <2>2. ingested' \subseteq Files \X Version
    BY <1>6, <1>t, <2>1 DEF UpsertItem, SharePointTypeOK
  <2>3. syncFaults' \in 0..MaxSyncFaults
    BY <1>6, <1>t, SyncFaultTyped DEF UpsertItem, SharePointTypeOK
  <2> QED BY <1>6, <2>2, <2>3, ItemWrittenKeeps DEF UpsertItem
<1>7. ASSUME NEW x \in Syncs, DeleteItem(x) PROVE SyncInv'
  <2>1. /\ sync[x].at \in {"writing", "waiting"} /\ sync[x].content = 0
        /\ UNCHANGED << changes, drive, cache, cursor, ingested, passed, stale, syncFaults >>
    BY <1>7 DEF DeleteItem
  <2>2. \/ NothingToDelete(x) /\ ItemWritten(x, sync[x].staged)
        \/ ItemWritten(x, [sync[x].staged EXCEPT ![sync[x].file] = sync[x].content])
    BY <1>7, <2>1 DEF DeleteItem
  <2>3. ingested' \subseteq Files \X Version /\ syncFaults' \in 0..MaxSyncFaults
    BY <1>t, <2>1 DEF SharePointTypeOK
  <2> QED BY <2>1, <2>2, <2>3, ItemWrittenKeeps
<1>8. ASSUME NEW x \in Syncs, CommitSync(x) PROVE SyncInv'
  BY <1>8, CommitKeeps
<1>9. ASSUME NEW x \in Syncs, SyncFails(x) \/ DeadlockVictim(x) PROVE SyncInv'
  <2>1. syncFaults' \in 0..MaxSyncFaults
    BY <1>9, <1>t, SyncFaultTyped DEF SyncFails, DeadlockVictim, SharePointTypeOK
  <2>2. /\ sync' = [sync EXCEPT ![x] = IdleSync]
        /\ UNCHANGED << changes, drive, cache, cursor, ingested, passed, stale >>
    BY <1>9 DEF SyncFails, DeadlockVictim, RollBack, CursorRolledBack
  <2> QED BY <1>t, <2>1, <2>2, IdleSyncOk, SyncStep DEF SharePointTypeOK
<1>10. CASE UNCHANGED syncVars
  BY <1>10 DEF syncVars, SyncInv, SharePointTypeOK, DriveOk, SyncRunOk, Treats, Right, InHand,
     InList, Staged, PassesOver, CursorIsHonest, Shows, Skipped
<1> QED BY <1>1, <1>2, <1>3, <1>4, <1>5, <1>6, <1>7, <1>8, <1>9, <1>10
        DEF SharePointNext, RunSync

\* The invariant above holds in every reachable state.
THEOREM SyncInvariant == SharePointSpec => []SyncInv
BY SyncInitInv, SyncNextInv, PTL DEF SharePointSpec

\* sync_project_sharepoint's delta link never passes a change that
\* document_cache does not show, except of a file that the run which advanced the
\* link has skipped, whatever fails and whatever changes meanwhile, unless
\* overlapping runs commit in the wrong order.
THEOREM CursorIsHonestHolds == SharePointSpec => []CursorIsHonest
<1>1. SyncInv => CursorIsHonest
  BY DEF SyncInv
<1> QED BY <1>1, SyncInvariant, PTL

-----------------------------------------------------------------------------
(* The delta-dispatch swarm.                                                *)

\* A set that holds 0 and with n also n + 1 holds all numbers up to any bound:
\* induction with a set in the place of a predicate.
LEMMA UpTo ==
  ASSUME NEW bound \in Nat, NEW S, 0 \in S, \A n \in 0..(bound - 1) : n \in S => n + 1 \in S
  PROVE  \A n \in 0..bound : n \in S
<1> DEFINE before == {p \in Nat \X Nat : p[1] < p[2]}
           rest   == {n \in 0..bound : n \notin S}
<1> SUFFICES ASSUME rest # {} PROVE FALSE
  OBVIOUS
<1>1. before = OpToRel(<, Nat)
  BY DEF OpToRel
<1>2. IsWellFoundedOn(before, Nat)
  BY <1>1, NatLessThanWellFounded
<1>3. PICK least \in rest : \A n \in rest : ~(<<n, least>> \in before)
  <2>1. rest \subseteq Nat
    OBVIOUS
  <2>. HIDE DEF before, rest
  <2> QED BY <1>2, <2>1, WFMin
<1>4. least # 0 /\ least - 1 \in 0..(bound - 1) /\ least \in Nat
  BY <1>3
<1>5. least - 1 \in rest
  BY <1>4
<1>6. <<least - 1, least>> \in before
  BY <1>4
<1> QED BY <1>3, <1>5, <1>6

\* What the router's comprehension keeps of the first n keys.
Comprehension(reply, kept, n) ==
  IF n = 0 THEN << >>
  ELSE IF reply[n] \in filter_excluded_agents(roster)
       THEN Append(kept[n - 1], reply[n])
       ELSE kept[n - 1]

\* The recursion over the reply defines a function.
LEMMA SelectionDefined ==
  ASSUME NEW reply \in Seq(Agents)
  PROVE  \E kept : /\ kept = [n \in 0..Len(reply) |-> Comprehension(reply, kept, n)]
                   /\ safe_selection(reply) = kept[Len(reply)]
<1> DEFINE Fits(kept, k) == kept = [n \in 0..k |-> Comprehension(reply, kept, n)]
           Good == {k \in 0..Len(reply) : \E kept : Fits(kept, k)}
<1>0. Len(reply) \in Nat
  OBVIOUS
<1>1. 0 \in Good
  <2>1. Fits([n \in 0..0 |-> << >>], 0)
    BY DEF Comprehension
  <2> QED BY <1>0, <2>1
<1>2. ASSUME NEW n \in 0..(Len(reply) - 1), n \in Good PROVE n + 1 \in Good
  <2>1. PICK kept : Fits(kept, n)
    BY <1>2
  <2> DEFINE more == [k \in 0..(n + 1) |-> IF k = n + 1 THEN Comprehension(reply, kept, k)
                                                       ELSE kept[k]]
  <2>2. ASSUME NEW k \in 0..(n + 1) PROVE more[k] = Comprehension(reply, more, k)
    <3>1. more[k] = Comprehension(reply, kept, k)
      <4>1. CASE k = n + 1
        BY <4>1
      <4>2. CASE k # n + 1
        BY <1>0, <2>1, <4>2
      <4> QED BY <4>1, <4>2
    <3>2. k = 0 \/ more[k - 1] = kept[k - 1]
      BY <1>0
    <3> HIDE DEF more
    <3> QED BY <3>1, <3>2 DEF Comprehension
  <2>3. Fits(more, n + 1)
    <3>1. more = [k \in 0..(n + 1) |-> more[k]]
      OBVIOUS
    <3> HIDE DEF more
    <3> QED BY <2>2, <3>1
  <2>4. n + 1 \in 0..Len(reply)
    BY <1>0
  <2> HIDE DEF Fits, more
  <2> QED BY <2>3, <2>4
<1>3. \E kept : Fits(kept, Len(reply))
  <2> HIDE DEF Good
  <2>1. \A n \in 0..Len(reply) : n \in Good
    BY <1>0, <1>1, <1>2, UpTo
  <2> QED BY <1>0, <2>1 DEF Good
<1> DEFINE kept[n \in 0..Len(reply)] ==
      IF n = 0 THEN << >>
      ELSE IF reply[n] \in filter_excluded_agents(roster)
           THEN Append(kept[n - 1], reply[n])
           ELSE kept[n - 1]
<1>4. safe_selection(reply) = kept[Len(reply)]
  BY DEF safe_selection
<1>5. kept = [n \in 0..Len(reply) |-> Comprehension(reply, kept, n)]
  BY <1>3, Zenon DEF Comprehension
<1> HIDE DEF kept
<1> QED BY <1>4, <1>5

\* What the router keeps of a reply is a reply, and names only agents of the
\* roster that are not reserved for the scheduler.
LEMMA SelectionRostered ==
  ASSUME NEW reply \in Replies
  PROVE  /\ safe_selection(reply) \in Replies
         /\ Named(safe_selection(reply)) \subseteq filter_excluded_agents(roster)
<1>1. PICK size \in 0..MaxNamed : reply \in [1..size -> Agents]
  BY DEF Replies
<1>2. reply \in Seq(Agents) /\ Len(reply) = size /\ size \in Nat /\ size <= MaxNamed
  BY <1>1, DispatchConstants
<1>3. PICK kept : /\ kept = [n \in 0..size |-> Comprehension(reply, kept, n)]
                  /\ safe_selection(reply) = kept[size]
  BY <1>2, SelectionDefined
<1> DEFINE Good == {n \in 0..size :
                      /\ kept[n] \in Seq(filter_excluded_agents(roster) \cap Agents)
                      /\ Len(kept[n]) <= n}
<1>4. 0 \in Good
  BY <1>2, <1>3 DEF Comprehension
<1>5. ASSUME NEW n \in 0..(size - 1), n \in Good PROVE n + 1 \in Good
  <2>1. n + 1 \in 0..size /\ n + 1 # 0 /\ (n + 1) - 1 = n /\ reply[n + 1] \in Agents
    BY <1>1, <1>2
  <2>2. kept[n + 1] = IF reply[n + 1] \in filter_excluded_agents(roster)
                      THEN Append(kept[n], reply[n + 1]) ELSE kept[n]
    BY <1>3, <2>1 DEF Comprehension
  <2>3. kept[n] \in Seq(filter_excluded_agents(roster) \cap Agents) /\ Len(kept[n]) <= n
    BY <1>5
  <2>4. CASE reply[n + 1] \in filter_excluded_agents(roster)
    <3>1. /\ kept[n + 1] = Append(kept[n], reply[n + 1])
          /\ reply[n + 1] \in filter_excluded_agents(roster) \cap Agents
      BY <2>1, <2>2, <2>4
    <3>2. /\ kept[n + 1] \in Seq(filter_excluded_agents(roster) \cap Agents)
          /\ Len(kept[n + 1]) = Len(kept[n]) + 1
      BY <2>3, <3>1
    <3> QED BY <2>1, <2>3, <3>2
  <2>5. CASE reply[n + 1] \notin filter_excluded_agents(roster)
    BY <2>1, <2>2, <2>3, <2>5
  <2> QED BY <2>4, <2>5
<1>6. size \in Good
  <2> HIDE DEF Good
  <2> QED BY <1>2, <1>4, <1>5, UpTo
<1>7. /\ safe_selection(reply) \in Seq(filter_excluded_agents(roster) \cap Agents)
      /\ Len(safe_selection(reply)) \in 0..MaxNamed
  BY <1>2, <1>3, <1>6, DispatchConstants
<1>8. safe_selection(reply) \in [1..Len(safe_selection(reply)) -> Agents]
  BY <1>7
<1> QED BY <1>7, <1>8 DEF Replies, Named

\* The executors that a cycle's selection wakes, and those that have yielded.
Chosen(c)   == Wired \cap Named(c.selected)
Answered(c) == {c.yielded[k].agent : k \in DOMAIN c.yielded}

\* What a cycle holds: nothing before the router has answered, then a selection
\* from the roster, and of each chosen executor one output once it is done.
CycleOk(c) ==
  /\ c \in Cycle
  /\ c.at \in {"idle", "routing"} => c.selected = << >>
  /\ c.at # "specialists" => c.running = {} /\ c.yielded = << >>
  /\ Named(c.selected) \subseteq filter_excluded_agents(roster)
  /\ c.at = "specialists" => Answered(c) = Chosen(c) \ c.running
  /\ c.running \subseteq Chosen(c)
  /\ \A j, k \in DOMAIN c.yielded : c.yielded[j].agent = c.yielded[k].agent => j = k

DispatchInv ==
  /\ DispatchTypeOK
  /\ CycleOk(cycle)
  /\ cycle.at # "idle" => cycles > 0

\* No cycle is going on before the first dispatch, nor between two.
LEMMA IdleCycleOk == CycleOk(IdleCycle)
<1>1. << >> \in Replies
  <2>1. << >> \in [1..0 -> Agents] /\ 0 \in 0..MaxNamed
    BY DispatchConstants
  <2> QED BY <2>1 DEF Replies
<1>2. << >> \in Seq(Output)
  OBVIOUS
<1> QED BY <1>1, <1>2 DEF IdleCycle, CycleOk, Cycle, Chosen, Answered, Named

\* An executor that is done adds its output to the others'.
LEMMA SpecialistDoneKept ==
  ASSUME DispatchInv, NEW agent \in Wired, SpecialistDone(agent)
  PROVE  CycleOk(cycle)'
<1>1. /\ cycle \in Cycle /\ cycle.at = "specialists" /\ agent \in cycle.running
      /\ cycles \in 1..MaxCycles /\ agent \in Agents /\ roster' = roster
  BY DispatchConstants DEF DispatchInv, DispatchTypeOK, SpecialistDone
<1>2. PICK o \in Output :
        /\ o.agent = agent
        /\ cycle' = [cycle EXCEPT !.running = cycle.running \ {agent},
                                  !.yielded = Append(cycle.yielded, o)]
  <2>1. PICK how \in {"success", "failed"} :
          cycle' = [cycle EXCEPT !.running = cycle.running \ {agent},
                                 !.yielded = Append(cycle.yielded,
                                   [agent |-> agent, status |-> how, cycle |-> cycles])]
    BY DEF SpecialistDone, Yields
  <2>2. [agent |-> agent, status |-> how, cycle |-> cycles] \in Output
    BY <1>1 DEF Output
  <2> QED BY <2>1, <2>2
<1>3. cycle.yielded \in Seq(Output) /\ cycle.running \subseteq Wired
  BY <1>1 DEF Cycle
<1> DEFINE list == cycle.yielded
           size == Len(list)
<1>4. /\ cycle' \in Cycle /\ cycle'.at = "specialists" /\ cycle'.selected = cycle.selected
      /\ cycle'.running = cycle.running \ {agent} /\ cycle'.yielded = Append(list, o)
  <2>1. Append(list, o) \in Seq(Output) /\ cycle.running \ {agent} \in SUBSET Wired
    BY <1>3
  <2> DEFINE more == Append(list, o)
             fewer == cycle.running \ {agent}
  <2>2. cycle' = [cycle EXCEPT !.running = fewer, !.yielded = more]
    BY <1>2
  <2> HIDE DEF more, fewer
  <2>3. cycle' \in Cycle /\ cycle'.at = "specialists" /\ cycle'.selected = cycle.selected
        /\ cycle'.running = fewer /\ cycle'.yielded = more
    BY <1>1, <2>1, <2>2 DEF Cycle, more, fewer
  <2> QED BY <2>3 DEF more, fewer
<1>5. /\ size \in Nat /\ DOMAIN list = 1..size
      /\ DOMAIN cycle'.yielded = 1..(size + 1)
      /\ \A k \in 1..size : cycle'.yielded[k] = list[k]
      /\ cycle'.yielded[size + 1] = o
  BY <1>3, <1>4
<1>6. /\ Answered(cycle) = Chosen(cycle) \ cycle.running /\ cycle.running \subseteq Chosen(cycle)
      /\ \A j, k \in DOMAIN list : list[j].agent = list[k].agent => j = k
      /\ Named(cycle.selected) \subseteq filter_excluded_agents(roster)
  BY <1>1 DEF DispatchInv, CycleOk
<1>7. Chosen(cycle)' = Chosen(cycle)
  BY <1>4 DEF Chosen
<1>. HIDE DEF list, size
<1>8. Answered(cycle)' = Answered(cycle) \cup {agent}
  BY <1>2, <1>5 DEF Answered, list
<1>9. \A k \in 1..size : list[k].agent # agent
  BY <1>1, <1>5, <1>6 DEF Answered, list
<1>10. \A j, k \in 1..(size + 1) : cycle'.yielded[j].agent = cycle'.yielded[k].agent => j = k
  <2> SUFFICES ASSUME NEW j \in 1..(size + 1), NEW k \in 1..(size + 1),
                      cycle'.yielded[j].agent = cycle'.yielded[k].agent
               PROVE  j = k
    OBVIOUS
  <2>1. (j \in 1..size \/ j = size + 1) /\ (k \in 1..size \/ k = size + 1)
    BY <1>5
  <2> QED BY <1>2, <1>5, <1>6, <1>9, <2>1
<1>11. Named(cycle.selected)' \subseteq filter_excluded_agents(roster)'
  BY <1>1, <1>4, <1>6 DEF Named, filter_excluded_agents
<1> QED BY <1>1, <1>4, <1>5, <1>6, <1>7, <1>8, <1>10, <1>11 DEF CycleOk

\* Every step of the swarm keeps the invariant.
LEMMA DispatchNextInv == DispatchInv /\ [DispatchNext]_dispatchVars => DispatchInv'
<1> SUFFICES ASSUME DispatchInv, [DispatchNext]_dispatchVars PROVE DispatchInv'
  OBVIOUS
<1>t. /\ roster \in SUBSET Agents /\ outputs \in Seq(Output) /\ cycle \in Cycle
      /\ cycles \in 0..MaxCycles /\ CycleOk(cycle) /\ MaxCycles \in Nat
      /\ cycle.at # "idle" => cycles > 0
  BY DispatchConstants DEF DispatchInv, DispatchTypeOK
<1>i. CycleOk(IdleCycle)' /\ IdleCycle \in Cycle /\ IdleCycle.at = "idle"
  <2>1. IdleCycle \in Cycle /\ IdleCycle.selected = << >> /\ CycleOk(IdleCycle)
    BY IdleCycleOk DEF CycleOk, IdleCycle
  <2>2. Named(IdleCycle.selected) = {}
    BY <2>1 DEF Named
  <2> QED BY <2>1, <2>2 DEF CycleOk, IdleCycle, Chosen, Answered
<1>1. CASE StartDispatch
  <2>1. /\ roster' \in SUBSET Agents /\ cycles' = cycles + 1 /\ cycles' \in 0..MaxCycles
        /\ outputs' = outputs
    BY <1>1, <1>t, DispatchConstants DEF StartDispatch
  <2>2. /\ cycle' \in Cycle /\ cycle'.at = "routing" /\ cycle'.selected = << >>
        /\ cycle'.running = {} /\ cycle'.yielded = << >>
    BY <1>1, <1>t DEF StartDispatch, CycleOk, Cycle
  <2>3. CycleOk(cycle)'
    BY <2>2 DEF CycleOk, Named, Chosen
  <2> QED BY <1>t, <2>1, <2>2, <2>3 DEF DispatchInv, DispatchTypeOK
<1>2. CASE Route
  <2>1. PICK reply \in Replies :
          cycle' = [cycle EXCEPT !.at = "routed", !.selected = safe_selection(reply)]
    BY <1>2 DEF Route
  <2>2. /\ safe_selection(reply) \in Replies
        /\ Named(safe_selection(reply)) \subseteq filter_excluded_agents(roster)
    BY SelectionRostered
  <2> DEFINE keys == safe_selection(reply)
  <2>3. /\ cycle' \in Cycle /\ cycle'.at = "routed" /\ cycle'.selected = keys
        /\ cycle'.running = {} /\ cycle'.yielded = << >> /\ roster' = roster
        /\ outputs' = outputs /\ cycles' = cycles /\ cycle.at = "routing"
    <3> HIDE DEF keys
    <3>1. keys \in Replies
      BY <2>2 DEF keys
    <3>2. cycle' = [cycle EXCEPT !.at = "routed", !.selected = keys]
      BY <2>1 DEF keys
    <3> QED BY <1>2, <1>t, <3>1, <3>2 DEF Route, CycleOk, Cycle
  <2>4. Named(cycle'.selected) \subseteq filter_excluded_agents(roster)'
    BY <2>2, <2>3 DEF filter_excluded_agents
  <2> HIDE DEF keys
  <2>5. CycleOk(cycle)'
    BY <2>3, <2>4 DEF CycleOk, Chosen
  <2> QED BY <1>t, <2>3, <2>5 DEF DispatchInv, DispatchTypeOK
<1>3. CASE select_by_router_decision
  <2>1. /\ cycle' \in Cycle /\ cycle'.at = "specialists" /\ cycle'.selected = cycle.selected
        /\ cycle'.running = Chosen(cycle) /\ cycle'.yielded = << >>
        /\ roster' = roster /\ outputs' = outputs /\ cycles' = cycles /\ cycle.at = "routed"
    BY <1>3, <1>t DEF select_by_router_decision, CycleOk, Cycle, Chosen
  <2>2. Chosen(cycle)' = Chosen(cycle) /\ Answered(cycle)' = {}
    BY <2>1 DEF Chosen, Answered
  <2>3. Named(cycle.selected)' \subseteq filter_excluded_agents(roster)'
    BY <1>t, <2>1 DEF CycleOk, Named, filter_excluded_agents
  <2>4. CycleOk(cycle)'
    BY <2>1, <2>2, <2>3 DEF CycleOk
  <2> QED BY <1>t, <2>1, <2>4 DEF DispatchInv, DispatchTypeOK
<1>4. ASSUME NEW agent \in Wired, SpecialistDone(agent) PROVE DispatchInv'
  <2>1. CycleOk(cycle)'
    BY <1>4, SpecialistDoneKept
  <2> QED BY <1>4, <1>t, <2>1 DEF SpecialistDone, DispatchInv, DispatchTypeOK, CycleOk
<1>5. CASE EndDispatch
  <2>1. outputs' \in Seq(Output)
    BY <1>5, <1>t DEF EndDispatch, with_outputs, Cycle
  <2> QED BY <1>5, <1>i, <1>t, <2>1 DEF EndDispatch, DispatchInv, DispatchTypeOK, CycleOk
<1>6. CASE DispatchFails
  BY <1>6, <1>i, <1>t DEF DispatchFails, DispatchInv, DispatchTypeOK, CycleOk
<1>7. CASE UNCHANGED dispatchVars
  <2>1. roster' = roster /\ outputs' = outputs /\ cycle' = cycle /\ cycles' = cycles
    BY <1>7 DEF dispatchVars
  <2>2. CycleOk(cycle)'
    BY <1>t, <2>1 DEF CycleOk, Chosen, Answered, Named, filter_excluded_agents
  <2> QED BY <1>t, <2>1, <2>2 DEF DispatchInv, DispatchTypeOK
<1> QED BY <1>1, <1>2, <1>3, <1>4, <1>5, <1>6, <1>7 DEF DispatchNext

\* Nor does anything break it before the first dispatch.
LEMMA DispatchInitInv == DispatchInit => DispatchInv
<1> SUFFICES ASSUME DispatchInit PROVE DispatchInv
  OBVIOUS
<1>1. CycleOk(cycle) /\ cycle \in Cycle /\ cycle.at = "idle"
  BY IdleCycleOk DEF DispatchInit, CycleOk, IdleCycle
<1>2. << >> \in Seq(Output) /\ 0 \in 0..MaxCycles
  BY DispatchConstants
<1> QED BY <1>1, <1>2 DEF DispatchInit, DispatchInv, DispatchTypeOK

\* What a swarm's state and cycle hold, in every reachable state.
THEOREM DispatchInvariant == DispatchSpec => []DispatchInv
BY DispatchInitInv, DispatchNextInv, PTL DEF DispatchSpec

\* Whatever the LLM names, only agents of the cycle's roster run, and none that
\* is reserved for the scheduler, for every set of agents, rosters and replies.
THEOREM OnlyRosteredRunHolds == DispatchSpec => []OnlyRosteredRun
<1>1. DispatchInv => OnlyRosteredRun
  BY DEF DispatchInv, CycleOk, Chosen, Answered, OnlyRosteredRun, filter_excluded_agents
<1> QED BY <1>1, DispatchInvariant, PTL

\* A cycle adds exactly one output for each wired agent that was selected, a
\* failed or twice named one included, and keeps those of earlier cycles.
THEOREM EachAnswersOnceHolds == DispatchSpec => EachAnswersOnce
<1>1. ASSUME DispatchInv, [DispatchNext]_dispatchVars, outputs' # outputs
      PROVE  LET added == SubSeq(outputs', Len(outputs) + 1, Len(outputs'))
             IN /\ outputs = SubSeq(outputs', 1, Len(outputs))
                /\ \A agent \in Wired :
                     IF agent \in Named(cycle.selected)
                     THEN \E k \in DOMAIN added : OutputsOf(agent, added) = {k}
                     ELSE OutputsOf(agent, added) = {}
  <2>1. /\ outputs \in Seq(Output) /\ cycle.yielded \in Seq(Output)
        /\ outputs' = outputs \o cycle.yielded
        /\ cycle.at = "specialists" /\ cycle.running = {}
    BY <1>1 DEF DispatchNext, StartDispatch, Route, select_by_router_decision, SpecialistDone,
       EndDispatch, DispatchFails, dispatchVars, with_outputs, DispatchInv, DispatchTypeOK, Cycle
  <2>2. /\ Answered(cycle) = Chosen(cycle)
        /\ \A j, k \in DOMAIN cycle.yielded :
             cycle.yielded[j].agent = cycle.yielded[k].agent => j = k
    BY <1>1, <2>1 DEF DispatchInv, CycleOk
  <2>3. /\ SubSeq(outputs \o cycle.yielded, 1, Len(outputs)) = outputs
        /\ SubSeq(outputs \o cycle.yielded, Len(outputs) + 1, Len(outputs \o cycle.yielded))
             = cycle.yielded
    BY <2>1
  <2>4. ASSUME NEW agent \in Wired
        PROVE  IF agent \in Named(cycle.selected)
               THEN \E k \in DOMAIN cycle.yielded : OutputsOf(agent, cycle.yielded) = {k}
               ELSE OutputsOf(agent, cycle.yielded) = {}
    BY <2>2 DEF Answered, Chosen, OutputsOf
  <2> QED BY <2>1, <2>3, <2>4
<1>2. DispatchInv /\ [DispatchNext]_dispatchVars =>
        [ outputs' # outputs =>
            LET added == SubSeq(outputs', Len(outputs) + 1, Len(outputs'))
            IN /\ outputs = SubSeq(outputs', 1, Len(outputs))
               /\ \A agent \in Wired :
                    IF agent \in Named(cycle.selected)
                    THEN \E k \in DOMAIN added : OutputsOf(agent, added) = {k}
                    ELSE OutputsOf(agent, added) = {} ]_dispatchVars
  BY <1>1
<1> QED BY <1>2, DispatchInvariant, PTL DEF DispatchSpec, EachAnswersOnce

-----------------------------------------------------------------------------
(* The jobs side by side.                                                   *)

JobsInv == ChasingInv /\ SyncInv /\ OutlookInv /\ DispatchInv

\* In the composition of the background jobs each keeps its own state's shape.
THEOREM JobsTypeCorrect == MCSpec => []JobsTypeOK
<1>1. MCInit => JobsInv
  BY ChasingInitInv, SyncInitInv, OutlookInitInv, DispatchInitInv DEF MCInit, JobsInv
<1>2. JobsInv /\ [MCNext]_<< which, chasingVars, governanceVars, syncVars, outlookVars, dispatchVars >>
        => JobsInv'
  <2> SUFFICES ASSUME JobsInv,
        [MCNext]_<< which, chasingVars, governanceVars, syncVars, outlookVars, dispatchVars >>
               PROVE  JobsInv'
    OBVIOUS
  <2>1. /\ [ChasingNext]_chasingVars /\ [SharePointNext]_syncVars
        /\ [OutlookNext]_outlookVars /\ [DispatchNext]_dispatchVars
    BY DEF MCNext
  <2> QED BY <2>1, ChasingNextInv, SyncNextInv, OutlookNextInv, DispatchNextInv DEF JobsInv
<1>3. JobsInv => JobsTypeOK
  BY DEF JobsInv, ChasingInv, SyncInv, OutlookInv, DispatchInv, JobsTypeOK
<1> QED BY <1>1, <1>2, <1>3, PTL DEF MCSpec
=============================================================================
