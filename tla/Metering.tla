------------------------------- MODULE Metering -------------------------------
(***************************************************************************)
(* Usage emission of core/marketplace_client.py: runs of                   *)
(* emit_unmetered_token_ledger for the rows of one tenant.  A run is one   *)
(* database session: it aggregates the unmetered rows into one event per   *)
(* plan and hour, posts the events in batches, and marks rows as their     *)
(* batch is answered; the marks are committed when the run ends, so that   *)
(* whatever stops it in between loses them all.                            *)
(*                                                                         *)
(* An event's quantity is represented by the rows it sums up.              *)
(*                                                                         *)
(* External: the Marketplace, which accepts one event per resource, plan,  *)
(* dimension and hour and answers Duplicate to any other; the clock; the   *)
(* writers of token_ledger and of the tenant's plan (api/marketplace.py);  *)
(* the schedule on which the script is started, runs overlapping or not.   *)
(***************************************************************************)
EXTENDS Integers, FiniteSets

CONSTANTS
  Rows,                  \* ids of the token_ledger rows that cost something:
                         \* a row of no cost is never aggregated
  Emitters,              \* processes that run the emission
  AzurePlans, NoPlan,    \* azure_plan_id values; no plan or no subscription
  Window,                \* 23 hours in the source
  METERING_BATCH_LIMIT,  \* 25 in the source
  MaxAttempts,           \* 3 in the source
  MaxHour, MaxEmitFaults \* bounds: hours that pass; failures of any kind

ASSUME MeteringConstants ==
  /\ Rows \subseteq Nat
  /\ NoPlan \notin AzurePlans
  /\ Window \in Nat /\ MaxHour \in Nat /\ MaxEmitFaults \in Nat
  /\ METERING_BATCH_LIMIT \in Nat \ {0}
  /\ MaxAttempts \in Nat \ {0}

VARIABLES
  hour,    \* the current hour
  plan,    \* the tenant's azure_plan_id, NoPlan if it cannot be billed
  ledger,  \* the committed token_ledger rows
  market,  \* the events the Marketplace accepted
  em,      \* the emission runs
  emitFaults

meteringVars == << hour, plan, ledger, market, em, emitFaults >>

Hours   == 0..MaxHour
Key     == [plan : AzurePlans, hour : Hours]
Bucket  == [key : Key, rows : SUBSET Rows]
NoKey   == [plan |-> NoPlan, hour |-> 0]

\* "key" is the event a row was marked for: its azure_metering_emission_id.
LedgerRow ==
  [ status : {"absent", "unmetered", "emitted"}, created : Hours, key : Key \cup {NoKey} ]

Emission ==
  [ at : {"idle", "posting"},
    left : SUBSET Bucket,               \* buckets of the batches not answered yet
    attempt : 1..MaxAttempts,           \* of the batch being posted
    marks : SUBSET [row : Rows, key : Key] ]

Idle == [at |-> "idle", left |-> {}, attempt |-> 1, marks |-> {}]

MeteringTypeOK ==
  /\ hour \in Hours
  /\ plan \in AzurePlans \cup {NoPlan}
  /\ ledger \in [Rows -> LedgerRow]
  /\ market \subseteq Bucket
  /\ em \in [Emitters -> Emission]
  /\ emitFaults \in 0..MaxEmitFaults

MeteringInit ==
  /\ hour = 0
  /\ plan = NoPlan
  /\ ledger = [r \in Rows |-> [status |-> "absent", created |-> 0, key |-> NoKey]]
  /\ market = {}
  /\ em = [e \in Emitters |-> Idle]
  /\ emitFaults = 0

-----------------------------------------------------------------------------
(* The environment.                                                         *)

Tick ==
  /\ hour < MaxHour
  /\ hour' = hour + 1
  /\ UNCHANGED << plan, ledger, market, em, emitFaults >>

\* Ids are assigned in order.
RecordUsage(r) ==
  /\ ledger[r].status = "absent"
  /\ \A q \in Rows : q < r => ledger[q].status # "absent"
  /\ ledger' = [ledger EXCEPT ![r].status = "unmetered", ![r].created = hour]
  /\ UNCHANGED << hour, plan, market, em, emitFaults >>

\* The upsert of api/marketplace.py never takes a plan away.
ChangePlan(p) ==
  /\ p # plan
  /\ plan' = p
  /\ UNCHANGED << hour, ledger, market, em, emitFaults >>

\* What the Marketplace holds after it was sent a set of events.
Accepted(events) ==
  market \cup {b \in events : \A m \in market : m.key # b.key}

-----------------------------------------------------------------------------
(* The emission.                                                            *)

UsedNow(created, now) == now
clamp_usage_hour(created, now) ==
  IF created >= now - Window THEN created ELSE now - Window

Unmetered == {r \in Rows : ledger[r].status = "unmetered"}

BucketKey(r) ==
  [plan |-> plan, hour |-> clamp_usage_hour(ledger[r].created, hour)]

aggregate_unmetered_rows ==
  IF plan = NoPlan THEN {}
  ELSE {[key |-> BucketKey(r), rows |-> {q \in Unmetered : BucketKey(q) = BucketKey(r)}]
          : r \in Unmetered}

\* Buckets are made and sent in the order of their first rows.
Before(b, c) == \E r \in b.rows : \A q \in c.rows : r < q

next_chunk(buckets) ==
  {b \in buckets : Cardinality({c \in buckets : Before(c, b)}) < METERING_BATCH_LIMIT}

Aggregate(e) ==
  /\ em[e].at = "idle"
  /\ aggregate_unmetered_rows # {}
  /\ em' = [em EXCEPT ![e].at = "posting", ![e].left = aggregate_unmetered_rows]
  /\ UNCHANGED << hour, plan, ledger, market, emitFaults >>

EmitFault == emitFaults < MaxEmitFaults /\ emitFaults' = emitFaults + 1

\* The marks of the rows of some buckets.
MarksOf(buckets) ==
  UNION {{[row |-> r, key |-> b.key] : r \in b.rows} : b \in buckets}

\* The batch is done with, and the rows of some of its buckets are marked.
BatchDone(e, marked) ==
  em' = [em EXCEPT ![e].left = @ \ next_chunk(@),
                   ![e].attempt = 1,
                   ![e].marks = @ \cup MarksOf(marked)]

Posting(e) == em[e].at = "posting" /\ em[e].left # {}

KnownKey(b) == \E m \in market : m.key = b.key

AcceptedOnly(status) == status = "accepted"
AnyStatus(status) == TRUE
event_succeeded(status) == status \in {"accepted", "duplicate"}

ItemStatus(b, refused) ==
  IF b \in refused THEN "error" ELSE IF KnownKey(b) THEN "duplicate" ELSE "accepted"

\* HTTP 200.  The Marketplace may refuse some events, and may leave some of
\* them out of its list or name them in a way that matches no bucket; it means
\* by an empty list that it took all.
BatchAnswered(e) ==
  /\ Posting(e)
  /\ LET chunk == next_chunk(em[e].left)
     IN \E refused \in SUBSET chunk : \E unmatched \in SUBSET (chunk \ refused) :
          LET items == chunk \ unmatched
          IN /\ market' = Accepted(chunk \ refused)
             /\ IF items = {}
                THEN BatchDone(e, chunk)
                ELSE BatchDone(e, {b \in items : event_succeeded(ItemStatus(b, refused))})
             /\ IF refused = {} /\ unmatched \in {{}, chunk} THEN UNCHANGED emitFaults ELSE EmitFault
  /\ UNCHANGED << hour, plan, ledger >>

\* A status of 400 or more, or no access token: MarketplaceApiError ends the
\* batch, and the run goes on with the next.
BatchRefused(e) ==
  /\ Posting(e)
  /\ EmitFault
  /\ market' \in {market, Accepted(next_chunk(em[e].left))}
  /\ BatchDone(e, {})
  /\ UNCHANGED << hour, plan, ledger >>

\* The third attempt is the last one; what it raises rolls the session back.
OneMoreAttempt(n) == n > MaxAttempts
stop_after_attempt(n) == n >= MaxAttempts

TransportError(e) ==
  /\ Posting(e)
  /\ EmitFault
  /\ market' \in {market, Accepted(next_chunk(em[e].left))}
  /\ em' = [em EXCEPT ![e] =
              IF stop_after_attempt(em[e].attempt) THEN Idle
              ELSE [em[e] EXCEPT !.attempt = em[e].attempt + 1]]
  /\ UNCHANGED << hour, plan, ledger >>

\* get_session's commit.
CommitMarks(e) ==
  /\ em[e].at = "posting"
  /\ em[e].left = {}
  /\ ledger' = [r \in Rows |->
       LET marks == {m \in em[e].marks : m.row = r}
       IN IF marks = {} THEN ledger[r]
          ELSE [ledger[r] EXCEPT !.status = "emitted",
                                 !.key = (CHOOSE m \in marks : TRUE).key]]
  /\ em' = [em EXCEPT ![e] = Idle]
  /\ UNCHANGED << hour, plan, market, emitFaults >>

\* The process stops or the database session is lost.
CrashEmitter(e) ==
  /\ em[e].at = "posting"
  /\ EmitFault
  /\ em' = [em EXCEPT ![e] = Idle]
  /\ UNCHANGED << hour, plan, ledger, market >>

Emit(e) == Aggregate(e) \/ BatchAnswered(e) \/ CommitMarks(e)

MeteringNext ==
  \/ Tick
  \/ \E r \in Rows : RecordUsage(r)
  \/ \E p \in AzurePlans : ChangePlan(p)
  \/ \E e \in Emitters : Emit(e) \/ BatchRefused(e) \/ TransportError(e) \/ CrashEmitter(e)

MeteringSpec == MeteringInit /\ [][MeteringNext]_meteringVars

\* The emission is started again and again.
MeteringFairness == \A e \in Emitters : WF_meteringVars(Emit(e))
-----------------------------------------------------------------------------
(* Correctness.                                                             *)

\* No row is struck off the books for an event the Marketplace never took:
\* not for one that was refused, left out of a list, lost with its batch, or
\* whose run was rolled back and repeated by another.
MarkedHasEvent ==
  \A r \in Rows :
    ledger[r].status = "emitted" => \E m \in market : m.key = ledger[r].key

\* While it is not older than the Marketplace's window and stays on one plan, a
\* row is billed once, however often its batch is repeated after lost answers,
\* crashes and overlapping runs: the hour of its event is its own and not that
\* of sending, so that the Marketplace knows the repetition.  (An older row, or
\* one whose tenant changed the plan, can be billed again.)
InWindow(r) == hour <= ledger[r].created + Window

BilledOnceInWindow ==
  [][ \A b \in market' \ market, m \in market : \A r \in b.rows \cap m.rows :
        InWindow(r) => b.key.plan # m.key.plan ]_meteringVars

\* Once failures cease, each billable row of a tenant with a plan is marked:
\* also one whose event was taken by a run that lost its marks.
Billable(r) == ledger[r].status = "unmetered" /\ plan # NoPlan

RowsGetMetered ==
  \A r \in Rows : Billable(r) ~> ledger[r].status = "emitted"
=============================================================================
