---------------------------- MODULE MeteringProofs ----------------------------
(***************************************************************************)
(* Proofs about the usage emission: type correctness, that no row is       *)
(* struck off without an event, and that a row in the window is billed     *)
(* once, for any rows, emitters, plans, window and batch limit.            *)
(***************************************************************************)
EXTENDS Metering, TLAPS

-----------------------------------------------------------------------------
(* The invariant.                                                           *)

\* Marks are made for keys the Marketplace knows.
MarksHaveEvents ==
  \A e \in Emitters : \A m \in em[e].marks : \E b \in market : b.key = m.key

\* A bucket, sent or not, holds recorded rows, and has the hour of each that is
\* still in the window.
RightHour(b) ==
  \A r \in b.rows :
    /\ ledger[r].status # "absent"
    /\ InWindow(r) => b.key.hour = ledger[r].created

BucketsKeepHours ==
  /\ \A b \in market : RightHour(b)
  /\ \A e \in Emitters : \A b \in em[e].left : RightHour(b)

MeteringInv ==
  /\ MeteringTypeOK
  /\ MarkedHasEvent
  /\ MarksHaveEvents
  /\ BucketsKeepHours

-----------------------------------------------------------------------------
(* The operators of the steps.                                              *)

\* What is sent is known to the Marketplace afterwards, and nothing is forgotten.
LEMMA AcceptedKnows ==
  ASSUME NEW events
  PROVE  /\ market \subseteq Accepted(events)
         /\ Accepted(events) \subseteq market \cup events
         /\ \A b \in events : \E m \in Accepted(events) : m.key = b.key
         /\ \A b \in Accepted(events) \ market, m \in market : m.key # b.key
BY DEF Accepted

\* The marks of typed buckets are typed, and each is for the key of one of them.
LEMMA MarksOfBuckets ==
  ASSUME NEW buckets \in SUBSET Bucket
  PROVE  /\ MarksOf(buckets) \subseteq [row : Rows, key : Key]
         /\ \A m \in MarksOf(buckets) : \E b \in buckets : m.key = b.key
BY DEF MarksOf, Bucket

\* A batch is part of what is left to send.
LEMMA ChunkIsPart ==
  ASSUME NEW buckets
  PROVE  next_chunk(buckets) \subseteq buckets
BY DEF next_chunk

\* Aggregation yields typed buckets with the right hours.
LEMMA AggregateRight ==
  ASSUME MeteringTypeOK
  PROVE  /\ aggregate_unmetered_rows \subseteq Bucket
         /\ \A b \in aggregate_unmetered_rows : RightHour(b)
<1>1. CASE plan = NoPlan
  BY <1>1 DEF aggregate_unmetered_rows
<1>2. CASE plan # NoPlan
  <2>1. \A r \in Rows : ledger[r].created \in Hours /\ hour \in Hours
    BY DEF MeteringTypeOK, LedgerRow
  <2>2. \A r \in Rows : clamp_usage_hour(ledger[r].created, hour) \in Hours
    BY <2>1, MeteringConstants DEF clamp_usage_hour, Hours
  <2>3. \A r \in Rows : BucketKey(r) \in Key
    BY <1>2, <2>2 DEF BucketKey, Key, MeteringTypeOK
  <2>4. \A r \in Rows : InWindow(r) => BucketKey(r).hour = ledger[r].created
    BY <2>1, MeteringConstants DEF InWindow, BucketKey, clamp_usage_hour, Hours
  <2>5. Unmetered \subseteq Rows /\ \A r \in Unmetered : ledger[r].status # "absent"
    BY DEF Unmetered
  <2>6. ASSUME NEW b \in aggregate_unmetered_rows
        PROVE  b \in Bucket /\ RightHour(b)
    <3>1. PICK r \in Unmetered :
            b = [key |-> BucketKey(r), rows |-> {q \in Unmetered : BucketKey(q) = BucketKey(r)}]
      BY <1>2, <2>6 DEF aggregate_unmetered_rows
    <3>2. b \in Bucket
      BY <2>3, <2>5, <3>1 DEF Bucket
    <3>3. ASSUME NEW q \in b.rows
          PROVE  /\ ledger[q].status # "absent"
                 /\ InWindow(q) => b.key.hour = ledger[q].created
      <4>1. q \in Unmetered /\ BucketKey(q) = b.key
        BY <3>1, <3>3
      <4> QED BY <2>4, <2>5, <4>1
    <3> QED BY <3>2, <3>3 DEF RightHour
  <2> QED BY <2>6
<1> QED BY <1>1, <1>2

\* Time that passes and rows that are marked take no bucket's hour away: a bucket
\* stays right while its rows stay as they were created.
LEMMA RightHourStays ==
  ASSUME MeteringTypeOK, NEW b \in Bucket, RightHour(b),
         hour' \in Hours, hour' >= hour,
         \A r \in Rows : ledger[r].status # "absent" =>
           ledger'[r].status # "absent" /\ ledger'[r].created = ledger[r].created
  PROVE  RightHour(b)'
<1> SUFFICES ASSUME NEW r \in b.rows
             PROVE  /\ ledger'[r].status # "absent"
                    /\ hour' <= ledger'[r].created + Window => b.key.hour = ledger'[r].created
  BY DEF RightHour, InWindow
<1>1. r \in Rows
  BY DEF Bucket
<1>2. /\ ledger[r].status # "absent"
      /\ hour <= ledger[r].created + Window => b.key.hour = ledger[r].created
  BY DEF RightHour, InWindow
<1>3. ledger[r].created \in Int /\ hour \in Int /\ hour' \in Int /\ Window \in Int
  BY <1>1, MeteringConstants DEF MeteringTypeOK, LedgerRow, Hours
<1> QED BY <1>1, <1>2, <1>3

-----------------------------------------------------------------------------
(* Each step keeps the invariant.                                           *)

\* The run's part of a step that ends a batch, some of whose buckets are marked.
LEMMA BatchDoneKeeps ==
  ASSUME MeteringInv, NEW e \in Emitters, NEW marked \in SUBSET em[e].left,
         market \subseteq market', market' \subseteq market \cup em[e].left,
         \A b \in marked : \E m \in market' : m.key = b.key,
         emitFaults' \in 0..MaxEmitFaults,
         BatchDone(e, marked), UNCHANGED << hour, plan, ledger >>
  PROVE  MeteringInv'
<1>1. em[e].left \subseteq Bucket /\ em[e] \in Emission /\ marked \in SUBSET Bucket
  BY DEF MeteringInv, MeteringTypeOK, Emission
<1>2. market' \subseteq Bucket
  BY <1>1 DEF MeteringInv, MeteringTypeOK
<1>3. em' \in [Emitters -> Emission]
  <2>1. em[e].left \ next_chunk(em[e].left) \in SUBSET Bucket
    BY <1>1
  <2>2. em[e].marks \cup MarksOf(marked) \in SUBSET [row : Rows, key : Key]
    BY <1>1, MarksOfBuckets DEF Emission
  <2>3. 1 \in 1..MaxAttempts
    BY MeteringConstants
  <2>4. [em[e] EXCEPT !.left = em[e].left \ next_chunk(em[e].left), !.attempt = 1,
                      !.marks = em[e].marks \cup MarksOf(marked)] \in Emission
    BY <1>1, <2>1, <2>2, <2>3 DEF Emission
  <2> QED BY <2>4 DEF BatchDone, MeteringInv, MeteringTypeOK
<1>4. MeteringTypeOK'
  BY <1>2, <1>3 DEF MeteringInv, MeteringTypeOK
<1>5. MarkedHasEvent'
  BY DEF MeteringInv, MarkedHasEvent
<1>6. MarksHaveEvents'
  <2>1. ASSUME NEW f \in Emitters, NEW m \in em'[f].marks
        PROVE  \E b \in market' : b.key = m.key
    <3>1. em'[f].marks \subseteq em[f].marks \cup MarksOf(marked)
      BY DEF BatchDone, MeteringInv, MeteringTypeOK
    <3>2. CASE m \in em[f].marks
      BY <3>2 DEF MeteringInv, MarksHaveEvents
    <3>3. CASE m \in MarksOf(marked)
      BY <1>1, <3>3, MarksOfBuckets
    <3> QED BY <2>1, <3>1, <3>2, <3>3
  <2> QED BY <2>1 DEF MarksHaveEvents
<1>7. BucketsKeepHours'
  <2>1. \A b : RightHour(b)' <=> RightHour(b)
    BY DEF RightHour, InWindow
  <2>2. \A f \in Emitters : em'[f].left \subseteq em[f].left
    BY DEF BatchDone, MeteringInv, MeteringTypeOK
  <2> QED BY <2>1, <2>2 DEF MeteringInv, BucketsKeepHours
<1> QED BY <1>4, <1>5, <1>6, <1>7 DEF MeteringInv

\* A step that touches neither the rows nor the time and leaves each run as it
\* was or idle, or with another attempt.
LEMMA RunsKeep ==
  ASSUME MeteringInv, NEW e \in Emitters,
         market \subseteq market', market' \subseteq market \cup em[e].left,
         em' \in [Emitters -> Emission],
         \A f \in Emitters : em'[f].marks \subseteq em[f].marks /\ em'[f].left \subseteq em[f].left,
         emitFaults' \in 0..MaxEmitFaults,
         UNCHANGED << hour, plan, ledger >>
  PROVE  MeteringInv'
<1>1. market' \subseteq Bucket
  BY DEF MeteringInv, MeteringTypeOK, Emission
<1>2. MeteringTypeOK'
  BY <1>1 DEF MeteringInv, MeteringTypeOK
<1>3. MarkedHasEvent'
  BY DEF MeteringInv, MarkedHasEvent
<1>4. MarksHaveEvents'
  BY DEF MeteringInv, MarksHaveEvents
<1>5. \A b : RightHour(b)' <=> RightHour(b)
  BY DEF RightHour, InWindow
<1>6. BucketsKeepHours'
  BY <1>5 DEF MeteringInv, BucketsKeepHours
<1> QED BY <1>2, <1>3, <1>4, <1>6 DEF MeteringInv

\* A step that touches neither the Marketplace nor the runs, and changes no row
\* that was recorded but for its status.
LEMMA RowsKeep ==
  ASSUME MeteringInv,
         hour' \in Hours, hour' >= hour,
         plan' \in AzurePlans \cup {NoPlan},
         ledger' \in [Rows -> LedgerRow],
         \A r \in Rows : ledger[r].status # "absent" =>
           ledger'[r].status # "absent" /\ ledger'[r].created = ledger[r].created,
         MarkedHasEvent',
         UNCHANGED << market, em, emitFaults >>
  PROVE  MeteringInv'
<1>1. MeteringTypeOK'
  BY DEF MeteringInv, MeteringTypeOK
<1>2. MarksHaveEvents'
  BY DEF MeteringInv, MarksHaveEvents
<1>3. \A b \in Bucket : RightHour(b) => RightHour(b)'
  BY RightHourStays DEF MeteringInv
<1>4. market \subseteq Bucket /\ \A e \in Emitters : em[e].left \subseteq Bucket
  BY DEF MeteringInv, MeteringTypeOK, Emission
<1>5. BucketsKeepHours'
  BY <1>3, <1>4 DEF MeteringInv, BucketsKeepHours
<1> QED BY <1>1, <1>2, <1>5 DEF MeteringInv

\* An emitter at rest holds no batch and no marks.
LEMMA IdleTyped == Idle \in Emission /\ Idle.marks = {} /\ Idle.left = {}
BY MeteringConstants DEF Idle, Emission

\* At first no row is marked and no event is known.
LEMMA MeteringInitInv == MeteringInit => MeteringInv
<1> SUFFICES ASSUME MeteringInit PROVE MeteringInv
  OBVIOUS
<1>1. MeteringTypeOK
  BY IdleTyped, MeteringConstants DEF MeteringInit, MeteringTypeOK, LedgerRow, Hours
<1>2. MarkedHasEvent /\ MarksHaveEvents /\ BucketsKeepHours
  BY IdleTyped DEF MeteringInit, MarkedHasEvent, MarksHaveEvents, BucketsKeepHours
<1> QED BY <1>1, <1>2 DEF MeteringInv

\* Every step of the meter, an emitter, the marketplace or a failure keeps the invariant.
LEMMA MeteringNextInv == MeteringInv /\ [MeteringNext]_meteringVars => MeteringInv'
<1> SUFFICES ASSUME MeteringInv, [MeteringNext]_meteringVars PROVE MeteringInv'
  OBVIOUS
<1> USE DEF MeteringInv
<1>typed. MeteringTypeOK
  OBVIOUS
<1>1. CASE Tick
  <2>1. hour' \in Hours /\ hour' >= hour
    BY <1>1, MeteringConstants DEF Tick, MeteringTypeOK, Hours
  <2>2. MarkedHasEvent'
    BY <1>1 DEF Tick, MarkedHasEvent
  <2> QED BY <1>1, <2>1, <2>2, RowsKeep DEF Tick, MeteringTypeOK
<1>2. ASSUME NEW r \in Rows, RecordUsage(r) PROVE MeteringInv'
  <2>1. ledger' \in [Rows -> LedgerRow]
    BY <1>2 DEF RecordUsage, MeteringTypeOK, LedgerRow
  <2>2. \A q \in Rows : q # r => ledger'[q] = ledger[q]
    BY <1>2 DEF RecordUsage, MeteringTypeOK
  <2>3. ledger'[r].status = "unmetered"
    BY <1>2 DEF RecordUsage, MeteringTypeOK, LedgerRow
  <2>4. MarkedHasEvent'
    BY <1>2, <2>2, <2>3 DEF RecordUsage, MarkedHasEvent
  <2>5. hour' \in Hours /\ hour' >= hour
    BY <1>2 DEF RecordUsage, MeteringTypeOK, Hours
  <2>6. \A q \in Rows : ledger[q].status # "absent" =>
          ledger'[q].status # "absent" /\ ledger'[q].created = ledger[q].created
    BY <1>2, <2>2 DEF RecordUsage
  <2> QED BY <1>2, <2>1, <2>4, <2>5, <2>6, RowsKeep DEF RecordUsage, MeteringTypeOK
<1>3. ASSUME NEW p \in AzurePlans, ChangePlan(p) PROVE MeteringInv'
  <2>1. hour' \in Hours /\ hour' >= hour
    BY <1>3 DEF ChangePlan, MeteringTypeOK, Hours
  <2>2. MarkedHasEvent'
    BY <1>3 DEF ChangePlan, MarkedHasEvent
  <2> QED BY <1>3, <2>1, <2>2, RowsKeep DEF ChangePlan, MeteringTypeOK
<1>4. ASSUME NEW e \in Emitters, Aggregate(e) PROVE MeteringInv'
  <2>1. em' \in [Emitters -> Emission]
    BY <1>4, AggregateRight DEF Aggregate, MeteringTypeOK, Emission
  <2>2. MeteringTypeOK'
    BY <1>4, <2>1 DEF Aggregate, MeteringTypeOK
  <2>3. MarkedHasEvent' /\ MarksHaveEvents'
    BY <1>4 DEF Aggregate, MeteringTypeOK, MarkedHasEvent, MarksHaveEvents
  <2>4. \A b : RightHour(b)' <=> RightHour(b)
    BY <1>4 DEF Aggregate, RightHour, InWindow
  <2>5. \A f \in Emitters : em'[f].left = IF f = e THEN aggregate_unmetered_rows ELSE em[f].left
    BY <1>4 DEF Aggregate, MeteringTypeOK, Emission
  <2>6. BucketsKeepHours'
    BY <1>4, <2>4, <2>5, AggregateRight DEF Aggregate, BucketsKeepHours
  <2> QED BY <2>2, <2>3, <2>6
<1>5. ASSUME NEW e \in Emitters, BatchAnswered(e) PROVE MeteringInv'
  <2> DEFINE chunk == next_chunk(em[e].left)
  <2>1. PICK refused \in SUBSET chunk : \E unmatched \in SUBSET (chunk \ refused) :
          LET items == chunk \ unmatched
          IN /\ market' = Accepted(chunk \ refused)
             /\ IF items = {}
                THEN BatchDone(e, chunk)
                ELSE BatchDone(e, {b \in items : event_succeeded(ItemStatus(b, refused))})
             /\ IF refused = {} /\ unmatched \in {{}, chunk} THEN UNCHANGED emitFaults ELSE EmitFault
    BY <1>5 DEF BatchAnswered
  <2>2. PICK unmatched \in SUBSET (chunk \ refused) :
          /\ market' = Accepted(chunk \ refused)
          /\ IF chunk \ unmatched = {}
             THEN BatchDone(e, chunk)
             ELSE BatchDone(e, {b \in chunk \ unmatched : event_succeeded(ItemStatus(b, refused))})
          /\ IF refused = {} /\ unmatched \in {{}, chunk} THEN UNCHANGED emitFaults ELSE EmitFault
    BY <2>1
  <2>3. chunk \subseteq em[e].left
    BY ChunkIsPart
  <2>4. market \subseteq market' /\ market' \subseteq market \cup em[e].left
    BY <2>2, <2>3, AcceptedKnows
  <2>5. \A b \in chunk \ refused : \E m \in market' : m.key = b.key
    BY <2>2, AcceptedKnows
  <2>6. emitFaults' \in 0..MaxEmitFaults
    BY <2>2, MeteringConstants DEF EmitFault, MeteringTypeOK
  <2>7. UNCHANGED << hour, plan, ledger >>
    BY <1>5 DEF BatchAnswered
  <2>8. CASE chunk \ unmatched = {}
    <3>1. refused = {}
      BY <2>8
    <3> QED BY <2>2, <2>3, <2>4, <2>5, <2>6, <2>7, <2>8, <3>1, BatchDoneKeeps
  <2>9. CASE chunk \ unmatched # {}
    <3> DEFINE marked == {b \in chunk \ unmatched : event_succeeded(ItemStatus(b, refused))}
    <3>1. marked \subseteq chunk \ refused
      BY DEF event_succeeded, ItemStatus
    <3>2. marked \in SUBSET em[e].left /\ \A b \in marked : \E m \in market' : m.key = b.key
      BY <2>3, <2>5, <3>1
    <3>3. BatchDone(e, marked)
      BY <2>2, <2>9
    <3> HIDE DEF marked
    <3> QED BY <2>4, <2>6, <2>7, <3>2, <3>3, BatchDoneKeeps
  <2> QED BY <2>8, <2>9
<1>6. ASSUME NEW e \in Emitters, BatchRefused(e) PROVE MeteringInv'
  <2>1. market \subseteq market' /\ market' \subseteq market \cup em[e].left
    BY <1>6, AcceptedKnows, ChunkIsPart DEF BatchRefused
  <2>2. emitFaults' \in 0..MaxEmitFaults
    BY <1>6, MeteringConstants DEF BatchRefused, EmitFault, MeteringTypeOK
  <2>3. BatchDone(e, {}) /\ UNCHANGED << hour, plan, ledger >>
    BY <1>6 DEF BatchRefused
  <2> QED BY <2>1, <2>2, <2>3, BatchDoneKeeps
<1>7. ASSUME NEW e \in Emitters, TransportError(e) PROVE MeteringInv'
  <2>1. market \subseteq market' /\ market' \subseteq market \cup em[e].left
    BY <1>7, AcceptedKnows, ChunkIsPart DEF TransportError
  <2>2. emitFaults' \in 0..MaxEmitFaults
    BY <1>7, MeteringConstants DEF TransportError, EmitFault, MeteringTypeOK
  <2>3. em' \in [Emitters -> Emission]
    BY <1>7, IdleTyped, MeteringConstants
    DEF TransportError, stop_after_attempt, MeteringTypeOK, Emission
  <2>4. \A f \in Emitters : em'[f].marks \subseteq em[f].marks /\ em'[f].left \subseteq em[f].left
    BY <1>7, IdleTyped DEF TransportError, MeteringTypeOK, Emission
  <2> QED BY <1>7, <2>1, <2>2, <2>3, <2>4, RunsKeep DEF TransportError
<1>8. ASSUME NEW e \in Emitters, CommitMarks(e) PROVE MeteringInv'
  <2> DEFINE marks(r) == {m \in em[e].marks : m.row = r}
             row(r)   == [ledger[r] EXCEPT !.status = "emitted",
                                           !.key = (CHOOSE m \in marks(r) : TRUE).key]
  <2>1. ledger' = [r \in Rows |-> IF marks(r) = {} THEN ledger[r] ELSE row(r)]
    BY <1>8 DEF CommitMarks
  <2>2. ASSUME NEW r \in Rows, marks(r) # {}
        PROVE  \E m \in em[e].marks : /\ (CHOOSE k \in marks(r) : TRUE).key = m.key
                                      /\ m.key \in Key
    <3> DEFINE c == CHOOSE k \in marks(r) : TRUE
    <3>1. \E k \in marks(r) : TRUE
      BY <2>2
    <3>2. c \in marks(r)
      BY <3>1
    <3>3. c \in em[e].marks
      BY <3>2
    <3>4. c.key \in Key
      BY <3>3 DEF MeteringTypeOK, Emission
    <3> HIDE DEF c
    <3>5. \E m \in em[e].marks : c.key = m.key /\ m.key \in Key
      BY <3>3, <3>4
    <3> QED BY <3>5 DEF c
  <2>3. ASSUME NEW r \in Rows
        PROVE  /\ ledger'[r] \in LedgerRow
               /\ ledger[r].status # "absent" =>
                    ledger'[r].status # "absent" /\ ledger'[r].created = ledger[r].created
               /\ ledger'[r].status = "emitted" => \E m \in market : m.key = ledger'[r].key
    <3>1. ledger[r] \in LedgerRow
      BY DEF MeteringTypeOK
    <3>2. CASE marks(r) = {}
      BY <2>1, <3>1, <3>2 DEF MarkedHasEvent
    <3>3. CASE marks(r) # {}
      <4>1. ledger'[r] = row(r)
        BY <2>1, <3>3
      <4>2. PICK m \in em[e].marks : /\ (CHOOSE k \in marks(r) : TRUE).key = m.key
                                     /\ m.key \in Key
        BY <2>2, <3>3
      <4>3. row(r) = [ledger[r] EXCEPT !.status = "emitted", !.key = m.key]
        BY <4>2
      <4>4. \E b \in market : b.key = m.key
        BY DEF MarksHaveEvents
      <4> HIDE DEF marks, row
      <4> QED BY <3>1, <4>1, <4>2, <4>3, <4>4 DEF LedgerRow
    <3> QED BY <3>2, <3>3
  <2>4. market' = market /\ UNCHANGED << hour, plan, emitFaults >>
    BY <1>8 DEF CommitMarks
  <2>5. ledger' \in [Rows -> LedgerRow]
    BY <2>1, <2>3
  <2>6. em' \in [Emitters -> Emission]
    BY <1>8, IdleTyped DEF CommitMarks, MeteringTypeOK
  <2>7. MeteringTypeOK'
    BY <2>4, <2>5, <2>6 DEF MeteringTypeOK
  <2>8. MarkedHasEvent'
    BY <2>3, <2>4 DEF MarkedHasEvent
  <2>9. \A f \in Emitters : em'[f].marks \subseteq em[f].marks /\ em'[f].left \subseteq em[f].left
    BY <1>8, IdleTyped DEF CommitMarks, MeteringTypeOK
  <2>10. MarksHaveEvents'
    BY <2>4, <2>9 DEF MarksHaveEvents
  <2>11. hour' \in Hours /\ hour' >= hour
    BY <2>4 DEF MeteringTypeOK, Hours
  <2>12. \A b \in Bucket : RightHour(b) => RightHour(b)'
    BY <1>typed, <2>3, <2>11, RightHourStays
  <2>13. market \subseteq Bucket /\ \A f \in Emitters : em[f].left \subseteq Bucket
    BY DEF MeteringTypeOK, Emission
  <2>14. BucketsKeepHours'
    BY <2>4, <2>9, <2>12, <2>13 DEF BucketsKeepHours
  <2> QED BY <2>7, <2>8, <2>10, <2>14
<1>9. ASSUME NEW e \in Emitters, CrashEmitter(e) PROVE MeteringInv'
  <2>1. emitFaults' \in 0..MaxEmitFaults
    BY <1>9, MeteringConstants DEF CrashEmitter, EmitFault, MeteringTypeOK
  <2>2. em' \in [Emitters -> Emission]
    BY <1>9, IdleTyped DEF CrashEmitter, MeteringTypeOK
  <2>3. \A f \in Emitters : em'[f].marks \subseteq em[f].marks /\ em'[f].left \subseteq em[f].left
    BY <1>9, IdleTyped DEF CrashEmitter, MeteringTypeOK
  <2> QED BY <1>9, <2>1, <2>2, <2>3, RunsKeep DEF CrashEmitter
<1>10. CASE UNCHANGED meteringVars
  BY <1>10 DEF meteringVars, MeteringTypeOK, MarkedHasEvent, MarksHaveEvents, BucketsKeepHours,
     RightHour, InWindow
<1> QED BY <1>1, <1>2, <1>3, <1>4, <1>5, <1>6, <1>7, <1>8, <1>9, <1>10 DEF MeteringNext, Emit

-----------------------------------------------------------------------------
(* The theorems.                                                            *)

\* The invariant above holds in every reachable state.
THEOREM MeteringInvariant == MeteringSpec => []MeteringInv
BY MeteringInitInv, MeteringNextInv, PTL DEF MeteringSpec

\* Clamped hours stay within the hours there are, marks and rows keep their types.
THEOREM MeteringTypeCorrect == MeteringSpec => []MeteringTypeOK
<1>1. MeteringInv => MeteringTypeOK
  BY DEF MeteringInv
<1> QED BY <1>1, MeteringInvariant, PTL

\* emit_unmetered_token_ledger marks no row for an event the Marketplace never
\* took.
THEOREM MarkedHasEventHolds == MeteringSpec => []MarkedHasEvent
<1>1. MeteringInv => MarkedHasEvent
  BY DEF MeteringInv
<1> QED BY <1>1, MeteringInvariant, PTL

\* A row in the window and on one plan is billed once, whatever is repeated: two
\* events with the row would have its own hour both, and so one key.
THEOREM BilledOnceInWindowHolds == MeteringSpec => BilledOnceInWindow
<1> DEFINE Once ==
      \A b \in market' \ market, m \in market : \A r \in b.rows \cap m.rows :
        InWindow(r) => b.key.plan # m.key.plan
<1>1. MeteringInv /\ [MeteringNext]_meteringVars => [Once]_meteringVars
  <2> SUFFICES ASSUME MeteringInv, [MeteringNext]_meteringVars,
                      NEW b \in market' \ market, NEW m \in market,
                      NEW r \in b.rows \cap m.rows, InWindow(r), b.key.plan = m.key.plan
               PROVE  FALSE
    OBVIOUS
  <2>1. PICK e \in Emitters : BatchAnswered(e) \/ BatchRefused(e) \/ TransportError(e)
    BY DEF MeteringNext, Emit, meteringVars, Tick, RecordUsage, ChangePlan, Aggregate, CommitMarks,
           CrashEmitter
  <2>2. \E events \in SUBSET em[e].left : market' = Accepted(events)
    <3>1. CASE BatchAnswered(e)
      BY <3>1, ChunkIsPart DEF BatchAnswered
    <3>2. CASE BatchRefused(e) \/ TransportError(e)
      BY <3>2, ChunkIsPart DEF BatchRefused, TransportError
    <3> QED BY <2>1, <3>1, <3>2
  <2>3. b \in em[e].left /\ m.key # b.key
    BY <2>2, AcceptedKnows
  <2>4. b \in Bucket /\ m \in Bucket
    BY <2>3 DEF MeteringInv, MeteringTypeOK, Emission
  <2>5. b.key.hour = ledger[r].created /\ m.key.hour = ledger[r].created
    BY <2>3 DEF MeteringInv, BucketsKeepHours, RightHour
  <2>6. b.key = m.key
    BY <2>4, <2>5 DEF Bucket, Key
  <2> QED BY <2>3, <2>6
<1> QED BY <1>1, MeteringInvariant, PTL DEF MeteringSpec, BilledOnceInWindow
=============================================================================
