--------------------------- MODULE FulfillmentProofs ---------------------------
(***************************************************************************)
(* Proofs about the landing page and the webhook: type correctness, that   *)
(* only an overtaken handler sets the tenant back, and that success is not *)
(* said before an activation was taken, for any number of landings,        *)
(* deliveries, plans and changes.                                          *)
(***************************************************************************)
EXTENDS Fulfillment, TLAPS

-----------------------------------------------------------------------------
(* The invariant.                                                           *)

Pending == "PendingFulfillmentStart"

\* The row, and what a handler is about to write to it, come from the subscription
\* as it is or was; a handler that fetched saw nothing newer in the row.
VersionsInOrder ==
  /\ tenant.version <= subscription.version
  /\ \A x \in Handlers :
       h[x].at \in {"fetched", "refetched"} =>
         h[x].seen <= h[x].snap.version /\ h[x].snap.version <= subscription.version

\* After the call that activates, a subscription that still is pending is one
\* whose activation was taken, and so is what is fetched then.
Taken(s) == s.status = Pending => s.accepted

ActivationTaken ==
  \A x \in Handlers :
    /\ h[x].at = "activated" => Taken(subscription)
    /\ h[x].at = "refetched" => Taken(h[x].snap)

FulfillmentInv == FulfillmentTypeOK /\ VersionsInOrder /\ ActivationTaken

-----------------------------------------------------------------------------
(* The operators of the steps.                                              *)

\* No change makes a subscription pending.
LEMMA NextStatusTyped ==
  ASSUME NEW s \in SaasStatus
  PROVE  NextStatus[s] \subseteq SaasStatus \ {Pending}
BY DEF NextStatus, SaasStatus, Pending

\* The status maps of the webhook give subscription and swarm states.
LEMMA MapsTyped ==
  /\ \A s : Mapped(s) => SAAS_STATUS_TO_SWARM_STATUS[s] \in SwarmStatus
  /\ \A p : map_plan_id_to_tier(p) \in PlanTier
BY DEF Mapped, SAAS_STATUS_TO_SWARM_STATUS, SwarmStatus, map_plan_id_to_tier, PlanTier

\* What an upsert writes is a row.
LEMMA UpsertedTyped ==
  ASSUME tenant \in Tenant, NEW snap \in Subscription
  PROVE  Upserted(snap) \in Tenant /\ Upserted(snap).version = snap.version
<1>1. MappedStatus(snap) \in SwarmStatus
  BY MapsTyped DEF MappedStatus, Tenant
<1>2. map_plan_id_to_tier(snap.plan) \in PlanTier
  BY MapsTyped
<1>3. (IF tenant.exists THEN tenant.trial_start
       ELSE map_plan_id_to_tier(snap.plan) = "free_trial") \in BOOLEAN
  BY DEF Tenant
<1>4. snap.version \in Versions
  BY DEF Subscription
<1> QED BY <1>1, <1>2, <1>3, <1>4 DEF Upserted, Tenant

\* A handler that starts again is one.
LEMMA FreshTyped ==
  ASSUME FulfillmentTypeOK, NEW at \in Phases, NEW n \in Versions
  PROVE  /\ Fresh(at, n) \in Handler
         /\ Fresh(at, n).at = at
<1>1. (CHOOSE p \in Plans : TRUE) \in Plans
  BY DEF FulfillmentTypeOK, Subscription
<1>2. 0 \in Versions
  BY FulfillmentConstants DEF Versions
<1>3. NewPurchase(CHOOSE p \in Plans : TRUE) \in Subscription
  BY <1>1, <1>2 DEF NewPurchase, Subscription, SaasStatus
<1> QED BY <1>2, <1>3 DEF Fresh, Handler

-----------------------------------------------------------------------------
(* Each step keeps the invariant.                                           *)

\* A step of one handler, to a state in which it has fetched nothing yet or no
\* longer needs what it fetched, that touches neither side's row.
LEMMA MovesOn ==
  ASSUME FulfillmentInv, NEW x \in Handlers,
         h' \in [Handlers -> Handler], \A y \in Handlers \ {x} : h'[y] = h[y],
         h'[x].at \notin {"fetched", "refetched", "activated"},
         notice' \in [1..MaxChanges -> {"none", "sent", "answered", "dropped"}],
         failures' \in 0..MaxFailures,
         UNCHANGED << subscription, tenant, newest >>
  PROVE  FulfillmentInv'
<1>1. FulfillmentTypeOK'
  BY DEF FulfillmentInv, FulfillmentTypeOK
<1>2. VersionsInOrder'
  BY DEF FulfillmentInv, VersionsInOrder
<1>3. ActivationTaken'
  BY DEF FulfillmentInv, ActivationTaken, Taken
<1> QED BY <1>1, <1>2, <1>3 DEF FulfillmentInv

\* A handler that fetches has the subscription of the moment.
LEMMA FetchKeeps ==
  ASSUME FulfillmentInv, NEW x \in Handlers, NEW from, NEW to \in {"fetched", "refetched"},
         Fetch(x, from, to), to = "refetched" => from = "activated"
  PROVE  FulfillmentInv'
<1> USE DEF FulfillmentInv
<1>1. h[x] \in Handler /\ subscription \in Subscription /\ tenant.version \in Versions
  BY DEF FulfillmentTypeOK, Tenant
<1> DEFINE next == [h[x] EXCEPT !.at = to, !.snap = subscription, !.seen = tenant.version]
<1>2. h' = [h EXCEPT ![x] = next]
  BY DEF Fetch, get_subscription, FulfillmentTypeOK
<1>3. /\ next \in Handler
      /\ next.at = to /\ next.snap = subscription /\ next.seen = tenant.version
  BY <1>1 DEF Handler, Phases
<1> HIDE DEF next
<1>4. h'[x] = next /\ \A y \in Handlers \ {x} : h'[y] = h[y]
  BY <1>2 DEF FulfillmentTypeOK
<1>5. h' \in [Handlers -> Handler]
  BY <1>2, <1>3 DEF FulfillmentTypeOK
<1>6. UNCHANGED << subscription, tenant, notice, newest, failures >>
  BY DEF Fetch
<1>7. FulfillmentTypeOK'
  BY <1>5, <1>6 DEF FulfillmentTypeOK
<1>8. VersionsInOrder'
  <2>1. subscription.version \in Int
    BY FulfillmentConstants, <1>1 DEF Subscription, Versions
  <2> QED BY <1>3, <1>4, <1>6, <2>1 DEF VersionsInOrder
<1>9. ActivationTaken'
  <2>1. h[x].at = from
    BY DEF Fetch
  <2>2. h'[x].at = "refetched" => Taken(h'[x].snap)
    BY <1>3, <1>4, <2>1 DEF ActivationTaken, Taken
  <2> QED BY <1>3, <1>4, <1>6, <2>2 DEF ActivationTaken, Taken
<1> QED BY <1>7, <1>8, <1>9

\* An upsert writes what was fetched, which is not newer than the subscription.
LEMMA UpsertKeeps ==
  ASSUME FulfillmentInv, NEW x \in Handlers, NEW from \in {"fetched", "refetched"},
         NEW written \in Handler, NEW refused \in Handler,
         written.at \notin {"fetched", "refetched", "activated"},
         refused.at \notin {"fetched", "refetched", "activated"},
         Upsert(x, from, written, refused)
  PROVE  FulfillmentInv'
<1> USE DEF FulfillmentInv
<1>1. CASE Refused(Upserted(h[x].snap))
  <2>1. h' = [h EXCEPT ![x] = refused] /\ UNCHANGED << subscription, tenant, notice, newest, failures >>
    BY <1>1 DEF Upsert
  <2>2. h' \in [Handlers -> Handler] /\ h'[x] = refused /\ \A y \in Handlers \ {x} : h'[y] = h[y]
    BY <2>1 DEF FulfillmentTypeOK
  <2> QED BY <2>1, <2>2, MovesOn DEF FulfillmentTypeOK
<1>2. CASE ~Refused(Upserted(h[x].snap))
  <2>1. /\ h' = [h EXCEPT ![x] = written]
        /\ tenant' = Upserted(h[x].snap)
        /\ newest' \in {newest, h[x].snap.version}
        /\ h[x].at = from
        /\ UNCHANGED << subscription, notice, failures >>
    BY <1>2 DEF Upsert
  <2>2. h' \in [Handlers -> Handler] /\ h'[x] = written /\ \A y \in Handlers \ {x} : h'[y] = h[y]
    BY <2>1 DEF FulfillmentTypeOK
  <2>3. h[x].snap \in Subscription /\ h[x].snap.version \in Versions
    BY DEF FulfillmentTypeOK, Handler, Subscription
  <2>4. tenant' \in Tenant /\ tenant'.version = h[x].snap.version
    BY <2>1, <2>3, UpsertedTyped DEF FulfillmentTypeOK
  <2>5. FulfillmentTypeOK'
    BY <2>1, <2>2, <2>3, <2>4 DEF FulfillmentTypeOK
  <2>6. VersionsInOrder'
    BY <2>1, <2>2, <2>4 DEF VersionsInOrder
  <2>7. ActivationTaken'
    BY <2>1, <2>2 DEF ActivationTaken, Taken
  <2> QED BY <2>5, <2>6, <2>7
<1> QED BY <1>1, <1>2

\* The subscription moves on, to a state that is not pending or one whose
\* activation was taken.
LEMMA SubscriptionMovesOn ==
  ASSUME FulfillmentInv,
         subscription' \in Subscription, subscription'.version >= subscription.version,
         Taken(subscription'),
         h' \in [Handlers -> Handler],
         \A x \in Handlers : h'[x] = h[x] \/ h'[x].at \notin {"fetched", "refetched"},
         notice' \in [1..MaxChanges -> {"none", "sent", "answered", "dropped"}],
         failures' \in 0..MaxFailures,
         UNCHANGED << tenant, newest >>
  PROVE  FulfillmentInv'
<1> USE DEF FulfillmentInv
<1>1. FulfillmentTypeOK'
  BY DEF FulfillmentTypeOK
<1>2. /\ subscription.version \in Int /\ subscription'.version \in Int /\ tenant.version \in Int
      /\ \A x \in Handlers : h[x].snap.version \in Int
  BY FulfillmentConstants DEF FulfillmentTypeOK, Subscription, Versions, Tenant, Handler
<1>3. VersionsInOrder'
  BY <1>2 DEF VersionsInOrder
<1>4. ActivationTaken'
  BY DEF ActivationTaken, Taken
<1> QED BY <1>1, <1>3, <1>4

\* A step of one handler that begins anew, or ends.
LEMMA StartsAnew ==
  ASSUME FulfillmentInv, NEW x \in Handlers, NEW at \in Phases, NEW n \in Versions,
         at \notin {"fetched", "refetched", "activated"},
         h' = [h EXCEPT ![x] = Fresh(at, n)],
         notice' \in [1..MaxChanges -> {"none", "sent", "answered", "dropped"}],
         failures' \in 0..MaxFailures,
         UNCHANGED << subscription, tenant, newest >>
  PROVE  FulfillmentInv'
<1>1. Fresh(at, n) \in Handler /\ Fresh(at, n).at = at
  BY FreshTyped DEF FulfillmentInv
<1>2. /\ h' \in [Handlers -> Handler]
      /\ h'[x] = Fresh(at, n)
      /\ \A y \in Handlers \ {x} : h'[y] = h[y]
  BY <1>1 DEF FulfillmentInv, FulfillmentTypeOK
<1> QED BY <1>1, <1>2, MovesOn

\* A failure of a call stays within the bound.
LEMMA FailsTyped ==
  ASSUME FulfillmentTypeOK, Fails
  PROVE  failures' \in 0..MaxFailures
BY FulfillmentConstants DEF FulfillmentTypeOK, Fails

\* At first no event was sent and no handler runs.
LEMMA FulfillmentInitInv == FulfillmentInit => FulfillmentInv
<1> SUFFICES ASSUME FulfillmentInit PROVE FulfillmentInv
  OBVIOUS
<1>1. 0 \in Versions
  BY FulfillmentConstants DEF Versions
<1>2. PICK plan \in Plans : subscription = NewPurchase(plan)
  BY DEF FulfillmentInit
<1>3. subscription \in Subscription /\ subscription.version = 0
  BY <1>1, <1>2 DEF NewPurchase, Subscription, SaasStatus
<1>4. (CHOOSE p \in Plans : TRUE) \in Plans
  BY <1>2
<1>5. NewPurchase(CHOOSE p \in Plans : TRUE) \in Subscription
  BY <1>1, <1>4 DEF NewPurchase, Subscription, SaasStatus
<1>6. Fresh("idle", 0) \in Handler /\ Fresh("idle", 0).at = "idle"
  BY <1>1, <1>5 DEF Fresh, Handler, Phases
<1>7. tenant \in Tenant /\ tenant.version = 0
  BY <1>1 DEF FulfillmentInit, NoTenant, Tenant, PlanTier, SwarmStatus
<1>8. FulfillmentTypeOK
  BY <1>1, <1>3, <1>6, <1>7, FulfillmentConstants DEF FulfillmentInit, FulfillmentTypeOK
<1>9. VersionsInOrder /\ ActivationTaken
  BY <1>3, <1>6, <1>7 DEF FulfillmentInit, VersionsInOrder, ActivationTaken, Taken
<1> QED BY <1>8, <1>9 DEF FulfillmentInv

\* Every step of Microsoft, a handler or a failure keeps the invariant.
LEMMA FulfillmentNextInv ==
  FulfillmentInv /\ [FulfillmentNext]_fulfillmentVars => FulfillmentInv'
<1> SUFFICES ASSUME FulfillmentInv, [FulfillmentNext]_fulfillmentVars PROVE FulfillmentInv'
  OBVIOUS
<1> USE DEF FulfillmentInv
<1>t. FulfillmentTypeOK
  OBVIOUS
<1>0. Landings \subseteq Handlers /\ Webhooks \subseteq Handlers /\ 0 \in Versions
  BY FulfillmentConstants DEF Handlers, Versions
<1>v. \A x \in Handlers : h[x] \in Handler /\ h[x].notice \in Versions
  BY DEF FulfillmentTypeOK, Handler
<1>1. CASE MicrosoftChanges
  <2>1. PICK status \in NextStatus[subscription.status], plan \in Plans :
          subscription' = [subscription EXCEPT !.status = status, !.plan = plan,
                                               !.version = subscription.version + 1]
    BY <1>1 DEF MicrosoftChanges, FulfillmentTypeOK, Subscription
  <2>2. status \in SaasStatus \ {Pending}
    BY NextStatusTyped DEF FulfillmentTypeOK, Subscription
  <2>3. subscription.version \in Versions /\ subscription.version < MaxChanges
    BY <1>1 DEF MicrosoftChanges, FulfillmentTypeOK, Subscription
  <2>4. /\ subscription' \in Subscription
        /\ subscription'.version >= subscription.version
        /\ Taken(subscription')
    <3>1. subscription \in Subscription
      BY DEF FulfillmentTypeOK
    <3>2. subscription.version + 1 \in Versions /\ subscription.version + 1 >= subscription.version
      BY <2>3, FulfillmentConstants DEF Versions
    <3>3. /\ subscription' \in Subscription
          /\ subscription'.version = subscription.version + 1
          /\ subscription'.status # Pending
      BY <2>1, <2>2, <3>1, <3>2 DEF Subscription
    <3>4. Taken(subscription')
      BY <3>3 DEF Taken
    <3> QED BY <3>2, <3>3, <3>4
  <2>5. notice' \in [1..MaxChanges -> {"none", "sent", "answered", "dropped"}]
    BY <1>1 DEF MicrosoftChanges, FulfillmentTypeOK
  <2> QED BY <1>1, <2>4, <2>5, SubscriptionMovesOn DEF MicrosoftChanges, FulfillmentTypeOK
<1>2. ASSUME NEW l \in Landings, Resolve(l) PROVE FulfillmentInv'
  <2>1. [h[l] EXCEPT !.at = "resolved"] \in Handler
    BY <1>0, <1>v DEF Handler, Phases
  <2>2. /\ h' \in [Handlers -> Handler]
        /\ h'[l].at = "resolved"
        /\ \A y \in Handlers \ {l} : h'[y] = h[y]
    BY <1>0, <1>2, <1>v, <2>1 DEF Resolve, FulfillmentTypeOK, Handler
  <2> QED BY <1>0, <1>2, <2>2, MovesOn DEF Resolve, FulfillmentTypeOK
<1>3. ASSUME NEW l \in Landings, FetchForLanding(l) PROVE FulfillmentInv'
  BY <1>0, <1>3, FetchKeeps DEF FetchForLanding
<1>4. ASSUME NEW l \in Landings, LandingUpsert(l) PROVE FulfillmentInv'
  <2> DEFINE written == IF h[l].snap.status = "PendingFulfillmentStart"
                        THEN [h[l] EXCEPT !.at = "activating"] ELSE Fresh("success", 0)
             refused == Fresh("failed", 0)
  <2>1. refused \in Handler /\ refused.at = "failed"
    BY <1>0, FreshTyped DEF Phases
  <2>2. Fresh("success", 0) \in Handler /\ Fresh("success", 0).at = "success"
    BY <1>0, FreshTyped DEF Phases
  <2>3. /\ [h[l] EXCEPT !.at = "activating"] \in Handler
        /\ [h[l] EXCEPT !.at = "activating"].at = "activating"
    BY <1>0, <1>v DEF Handler, Phases
  <2>4. written \in Handler /\ written.at \in {"activating", "success"}
    BY <2>2, <2>3
  <2>5. Upsert(l, "fetched", written, refused)
    BY <1>4 DEF LandingUpsert
  <2> HIDE DEF written, refused
  <2> QED BY <1>0, <2>1, <2>4, <2>5, UpsertKeeps
<1>5. ASSUME NEW l \in Landings, Activate(l) PROVE FulfillmentInv'
  <2>1. /\ [h[l] EXCEPT !.at = "activated"] \in Handler
        /\ [h[l] EXCEPT !.at = "activated"].at = "activated"
    BY <1>0, <1>v DEF Handler, Phases
  <2>2. Fresh("failed", 0) \in Handler /\ Fresh("failed", 0).at = "failed"
    BY <1>0, FreshTyped DEF Phases
  <2>3. \/ UNCHANGED h
        \/ h' = [h EXCEPT ![l] = [h[l] EXCEPT !.at = "activated"]]
        \/ h' = [h EXCEPT ![l] = Fresh("failed", 0)]
    BY <1>0, <1>5 DEF Activate, AfterActivation, FulfillmentTypeOK
  <2>4. /\ h' \in [Handlers -> Handler]
        /\ \A x \in Handlers : h'[x] = h[x] \/ h'[x].at \notin {"fetched", "refetched"}
    BY <2>1, <2>2, <2>3 DEF FulfillmentTypeOK
  <2>5. /\ subscription' \in Subscription
        /\ subscription'.version >= subscription.version
        /\ Taken(subscription')
    <3>1. subscription.version \in Int /\ subscription \in Subscription
      BY FulfillmentConstants DEF FulfillmentTypeOK, Subscription, Versions
    <3>2. CASE subscription.status = "PendingFulfillmentStart"
      <4>1. subscription' = [subscription EXCEPT !.accepted = TRUE]
        BY <1>5, <3>2 DEF Activate
      <4>2. subscription' \in Subscription /\ subscription'.accepted = TRUE
        BY <3>1, <4>1 DEF Subscription
      <4>3. subscription'.version = subscription.version
        BY <3>1, <4>1 DEF Subscription
      <4>4. Taken(subscription')
        BY <4>2 DEF Taken
      <4> QED BY <3>1, <4>2, <4>3, <4>4
    <3>3. CASE subscription.status # "PendingFulfillmentStart"
      BY <1>5, <3>1, <3>3 DEF Activate, Pending, Taken
    <3> QED BY <3>2, <3>3
  <2>6. failures' \in 0..MaxFailures
    BY <1>5, FailsTyped DEF Activate, FulfillmentTypeOK
  <2> QED BY <1>5, <2>4, <2>5, <2>6, SubscriptionMovesOn DEF Activate, FulfillmentTypeOK
<1>6. ASSUME NEW l \in Landings, Refetch(l) PROVE FulfillmentInv'
  BY <1>0, <1>6, FetchKeeps DEF Refetch
<1>7. ASSUME NEW l \in Landings, LandingConfirm(l) PROVE FulfillmentInv'
  <2>1. /\ Fresh("failed", 0) \in Handler /\ Fresh("failed", 0).at = "failed"
        /\ Fresh("success", 0) \in Handler /\ Fresh("success", 0).at = "success"
    BY <1>0, FreshTyped DEF Phases
  <2> QED BY <1>0, <1>7, <2>1, UpsertKeeps DEF LandingConfirm
<1>8. ASSUME NEW l \in Landings, LandingFails(l) PROVE FulfillmentInv'
  <2>1. failures' \in 0..MaxFailures
    BY <1>8, FailsTyped DEF LandingFails
  <2>2. "failed" \in Phases
    BY DEF Phases
  <2> QED BY <1>0, <1>8, <2>1, <2>2, StartsAnew DEF LandingFails, FulfillmentTypeOK
<1>9. ASSUME NEW w \in Webhooks, Deliver(w) PROVE FulfillmentInv'
  <2>1. PICK n \in 1..MaxChanges : h' = [h EXCEPT ![w] = Fresh("received", n)]
    BY <1>9 DEF Deliver
  <2>2. n \in Versions
    BY FulfillmentConstants DEF Versions
  <2>3. "received" \in Phases
    BY DEF Phases
  <2> QED BY <1>0, <1>9, <2>1, <2>2, <2>3, StartsAnew DEF Deliver, FulfillmentTypeOK
<1>10. ASSUME NEW w \in Webhooks, FetchForNotice(w) PROVE FulfillmentInv'
  BY <1>0, <1>10, FetchKeeps DEF FetchForNotice
<1>11. ASSUME NEW w \in Webhooks, ReconcileMalformed(w) PROVE FulfillmentInv'
  <2>1. failures' \in 0..MaxFailures
    BY <1>11, FailsTyped DEF ReconcileMalformed
  <2>2. "idle" \in Phases
    BY DEF Phases
  <2>3. notice' \in [1..MaxChanges -> {"none", "sent", "answered", "dropped"}]
    BY <1>11 DEF ReconcileMalformed, FulfillmentTypeOK
  <2> QED BY <1>0, <1>11, <2>1, <2>2, <2>3, StartsAnew DEF ReconcileMalformed
<1>12. ASSUME NEW w \in Webhooks, WebhookUpsert(w) PROVE FulfillmentInv'
  <2>1. /\ Fresh("idle", 0) \in Handler /\ Fresh("idle", 0).at = "idle"
        /\ Fresh("upserted", h[w].notice) \in Handler /\ Fresh("upserted", h[w].notice).at = "upserted"
    BY <1>0, <1>v, FreshTyped DEF Phases
  <2> QED BY <1>0, <1>12, <2>1, UpsertKeeps DEF WebhookUpsert
<1>13. ASSUME NEW w \in Webhooks, Acknowledge(w) PROVE FulfillmentInv'
  <2>1. "idle" \in Phases
    BY DEF Phases
  <2>2. notice' \in [1..MaxChanges -> {"none", "sent", "answered", "dropped"}]
    BY <1>13 DEF Acknowledge, FulfillmentTypeOK
  <2> QED BY <1>0, <1>13, <2>1, <2>2, StartsAnew DEF Acknowledge, FulfillmentTypeOK
<1>14. ASSUME NEW w \in Webhooks, WebhookFails(w) PROVE FulfillmentInv'
  <2>1. failures' \in 0..MaxFailures
    BY <1>14, FailsTyped DEF WebhookFails
  <2>2. "idle" \in Phases
    BY DEF Phases
  <2> QED BY <1>0, <1>14, <2>1, <2>2, StartsAnew DEF WebhookFails, RetryLater, FulfillmentTypeOK
<1>15. CASE MicrosoftActivates
  <2>1. /\ subscription' = [subscription EXCEPT !.status = "Subscribed",
                                                !.version = subscription.version + 1]
        /\ subscription.version < MaxChanges /\ subscription.version \in Versions
        /\ subscription \in Subscription
    BY <1>15 DEF MicrosoftActivates, FulfillmentTypeOK, Subscription
  <2>2. subscription.version + 1 \in Versions /\ subscription.version + 1 >= subscription.version
    BY <2>1, FulfillmentConstants DEF Versions
  <2>3. /\ subscription' \in Subscription
        /\ subscription'.version >= subscription.version
        /\ Taken(subscription')
    BY <2>1, <2>2 DEF Subscription, SaasStatus, Taken, Pending
  <2> QED BY <1>15, <2>3, SubscriptionMovesOn DEF MicrosoftActivates, FulfillmentTypeOK
<1>16. CASE UNCHANGED fulfillmentVars
  BY <1>16 DEF fulfillmentVars, FulfillmentTypeOK, VersionsInOrder, ActivationTaken, Taken
<1> QED BY <1>1, <1>2, <1>3, <1>4, <1>5, <1>6, <1>7, <1>8, <1>9, <1>10, <1>11, <1>12, <1>13, <1>14,
           <1>15, <1>16 DEF FulfillmentNext, Landing, Webhook

-----------------------------------------------------------------------------
(* The theorems.                                                            *)

\* The invariant above holds in every reachable state.
THEOREM FulfillmentInvariant == FulfillmentSpec => []FulfillmentInv
BY FulfillmentInitInv, FulfillmentNextInv, PTL DEF FulfillmentSpec

\* The tenants row and the handlers keep their types: no mapping of plan or
\* status leads out of the columns' values.
THEOREM FulfillmentTypeCorrect == FulfillmentSpec => []FulfillmentTypeOK
<1>1. FulfillmentInv => FulfillmentTypeOK
  BY DEF FulfillmentInv
<1> QED BY <1>1, FulfillmentInvariant, PTL

\* What an upsert that is not refused does.
LEMMA UpsertWrites ==
  ASSUME FulfillmentInv, NEW x \in Handlers, NEW from, NEW written, NEW refused,
         Upsert(x, from, written, refused), tenant' # tenant
  PROVE  /\ h[x].at = from
         /\ h'[x] = written
         /\ tenant'.version = h[x].snap.version
<1>1. h[x].snap \in Subscription
  BY DEF FulfillmentInv, FulfillmentTypeOK, Handler
<1>2. h' = [h EXCEPT ![x] = written] /\ tenant' = Upserted(h[x].snap) /\ h[x].at = from
  BY DEF Upsert
<1>3. tenant'.version = h[x].snap.version
  BY <1>1, <1>2, UpsertedTyped DEF FulfillmentInv, FulfillmentTypeOK
<1> QED BY <1>2, <1>3 DEF FulfillmentInv, FulfillmentTypeOK

\* Only the upserts write the row.
LEMMA WritesAreUpserts ==
  ASSUME FulfillmentInv, [FulfillmentNext]_fulfillmentVars, tenant' # tenant
  PROVE  \E x \in Handlers :
           /\ h[x].at \in {"fetched", "refetched"}
           /\ h'[x].at # h[x].at
           /\ tenant'.version = h[x].snap.version
<1>0. Landings \subseteq Handlers /\ Webhooks \subseteq Handlers /\ 0 \in Versions
  BY FulfillmentConstants DEF Handlers, Versions
<1>1. ASSUME NEW l \in Landings, LandingUpsert(l)
      PROVE  /\ h[l].at = "fetched"
             /\ h'[l].at # h[l].at
             /\ tenant'.version = h[l].snap.version
  <2> DEFINE written == IF h[l].snap.status = "PendingFulfillmentStart"
                        THEN [h[l] EXCEPT !.at = "activating"] ELSE Fresh("success", 0)
  <2>1. written.at \in {"activating", "success"}
    BY <1>0 DEF Fresh, FulfillmentInv, FulfillmentTypeOK, Handler
  <2>2. Upsert(l, "fetched", written, Fresh("failed", 0))
    BY <1>1 DEF LandingUpsert
  <2> HIDE DEF written
  <2> QED BY <1>0, <2>1, <2>2, UpsertWrites
<1>2. ASSUME NEW l \in Landings, LandingConfirm(l)
      PROVE  /\ h[l].at = "refetched"
             /\ h'[l].at # h[l].at
             /\ tenant'.version = h[l].snap.version
  <2>1. Fresh("success", 0).at = "success"
    BY DEF Fresh
  <2> QED BY <1>0, <1>2, <2>1, UpsertWrites DEF LandingConfirm
<1>3. ASSUME NEW w \in Webhooks, WebhookUpsert(w)
      PROVE  /\ h[w].at = "fetched"
             /\ h'[w].at # h[w].at
             /\ tenant'.version = h[w].snap.version
  <2>1. Fresh("upserted", h[w].notice).at = "upserted"
    BY DEF Fresh
  <2> QED BY <1>0, <1>3, <2>1, UpsertWrites DEF WebhookUpsert
<1>4. \/ \E l \in Landings : LandingUpsert(l) \/ LandingConfirm(l)
      \/ \E w \in Webhooks : WebhookUpsert(w)
  BY DEF FulfillmentNext, fulfillmentVars, MicrosoftChanges, MicrosoftActivates, Landing, Resolve, FetchForLanding,
         Activate, Refetch, LandingFails, Webhook, Deliver, FetchForNotice, ReconcileMalformed,
         Acknowledge, WebhookFails, Fetch
<1> QED BY <1>0, <1>1, <1>2, <1>3, <1>4

\* The upsert sets the tenant back to an older state of the subscription only
\* when another handler has written since this one fetched.
THEOREM BackwardsOnlyIfOvertakenHolds == FulfillmentSpec => BackwardsOnlyIfOvertaken
<1>1. FulfillmentInv /\ [FulfillmentNext]_fulfillmentVars
        => [tenant'.version < tenant.version => \E x \in Handlers : Overtaken(x)]_fulfillmentVars
  <2> SUFFICES ASSUME FulfillmentInv, [FulfillmentNext]_fulfillmentVars,
                      tenant'.version < tenant.version
               PROVE  \E x \in Handlers : Overtaken(x)
    OBVIOUS
  <2>1. tenant.version \in Int
    BY FulfillmentConstants DEF FulfillmentInv, FulfillmentTypeOK, Tenant, Versions
  <2>2. tenant' # tenant
    BY <2>1
  <2>3. PICK x \in Handlers : /\ h[x].at \in {"fetched", "refetched"}
                              /\ h'[x].at # h[x].at
                              /\ tenant'.version = h[x].snap.version
    BY <2>2, WritesAreUpserts
  <2>4. h[x].seen \in Int /\ h[x].snap.version \in Int
    BY FulfillmentConstants DEF FulfillmentInv, FulfillmentTypeOK, Handler, Subscription, Versions
  <2>5. h[x].seen < tenant.version
    BY <2>1, <2>3, <2>4 DEF FulfillmentInv, VersionsInOrder
  <2> QED BY <2>3, <2>5 DEF Overtaken
<1> QED BY <1>1, FulfillmentInvariant, PTL DEF FulfillmentSpec, BackwardsOnlyIfOvertaken

\* The landing page ends in success only with an upsert of a subscription that
\* no longer waits for activation, or one whose activation was taken.
LEMMA SuccessIsUpsert ==
  ASSUME FulfillmentInv, [FulfillmentNext]_fulfillmentVars, NEW l \in Landings,
         h'[l].at = "success", h[l].at # "success"
  PROVE  /\ Taken(h[l].snap)
         /\ tenant' = Upserted(h[l].snap)
<1>0. Landings \cap Webhooks = {} /\ Landings \subseteq Handlers /\ Webhooks \subseteq Handlers
  BY FulfillmentConstants DEF Handlers
<1>t. h \in [Handlers -> Handler]
  BY DEF FulfillmentInv, FulfillmentTypeOK
<1>1. CASE LandingUpsert(l)
  <2>1. /\ Fresh("failed", 0).at = "failed"
        /\ [h[l] EXCEPT !.at = "activating"].at = "activating"
    BY <1>0, <1>t DEF Fresh, Handler
  <2>2. CASE Refused(Upserted(h[l].snap))
    BY <1>0, <1>t, <1>1, <2>1, <2>2 DEF LandingUpsert, Upsert
  <2>3. CASE ~Refused(Upserted(h[l].snap))
    BY <1>0, <1>t, <1>1, <2>1, <2>3 DEF LandingUpsert, Upsert, Pending, Taken
  <2> QED BY <2>2, <2>3
<1>2. CASE LandingConfirm(l)
  <2>1. Taken(h[l].snap)
    BY <1>0, <1>2 DEF LandingConfirm, Upsert, FulfillmentInv, ActivationTaken
  <2>2. Fresh("failed", 0).at = "failed"
    BY DEF Fresh
  <2>3. CASE Refused(Upserted(h[l].snap))
    BY <1>0, <1>t, <1>2, <2>2, <2>3 DEF LandingConfirm, Upsert
  <2>4. CASE ~Refused(Upserted(h[l].snap))
    BY <1>0, <1>t, <1>2, <2>1, <2>4 DEF LandingConfirm, Upsert
  <2> QED BY <2>3, <2>4
<1>3. ~ (Resolve(l) \/ FetchForLanding(l) \/ Activate(l) \/ Refetch(l) \/ LandingFails(l))
  <2>1. Fresh("failed", 0).at = "failed"
    BY DEF Fresh
  <2>2. h[l] \in Handler
    BY <1>0, <1>t
  <2>3. ~ Resolve(l) /\ ~ FetchForLanding(l) /\ ~ Refetch(l)
    BY <1>0, <1>t, <2>2 DEF Resolve, FetchForLanding, Refetch, Fetch, Handler
  <2>4. ~ Activate(l)
    BY <1>0, <1>t, <2>1, <2>2 DEF Activate, AfterActivation, Handler
  <2>5. ~ LandingFails(l)
    BY <1>0, <1>t, <2>1 DEF LandingFails
  <2> QED BY <2>3, <2>4, <2>5
<1>4. ASSUME NEW m \in Landings, m # l PROVE ~ (Landing(m) \/ LandingFails(m))
  BY <1>0, <1>t, <1>4
  DEF Landing, Resolve, FetchForLanding, LandingUpsert, Activate, Refetch, LandingConfirm, Fetch,
      Upsert, LandingFails
<1>5. ASSUME NEW w \in Webhooks
      PROVE  ~ (Deliver(w) \/ Webhook(w) \/ ReconcileMalformed(w) \/ WebhookFails(w))
  BY <1>0, <1>t
  DEF Deliver, Webhook, FetchForNotice, WebhookUpsert, Acknowledge, ReconcileMalformed,
      WebhookFails, Fetch, Upsert
<1>6. LandingUpsert(l) \/ LandingConfirm(l)
  BY <1>3, <1>4, <1>5 DEF FulfillmentNext, fulfillmentVars, MicrosoftChanges, MicrosoftActivates, Landing
<1> QED BY <1>1, <1>2, <1>6

\* The landing page says success only when the row was written from what the
\* visit fetched last, after the activation was taken if it had to ask for one.
THEOREM SuccessAfterActivationHolds == FulfillmentSpec => SuccessAfterActivation
<1>1. FulfillmentInv /\ [FulfillmentNext]_fulfillmentVars
        => [ \A l \in Landings :
               TurnsToSuccess(l) =>
                 /\ tenant'.version = h[l].snap.version
                 /\ h[l].snap.status = "PendingFulfillmentStart" => h[l].snap.accepted
           ]_fulfillmentVars
  <2> SUFFICES ASSUME FulfillmentInv, [FulfillmentNext]_fulfillmentVars, NEW l \in Landings,
                      TurnsToSuccess(l)
               PROVE  /\ tenant'.version = h[l].snap.version
                      /\ h[l].snap.status = "PendingFulfillmentStart" => h[l].snap.accepted
    OBVIOUS
  <2>1. h[l].snap \in Subscription
    BY DEF FulfillmentInv, FulfillmentTypeOK, Handler, Handlers
  <2>2. h'[l].at = "success" /\ h[l].at # "success"
    BY DEF TurnsToSuccess
  <2> QED BY <2>1, <2>2, SuccessIsUpsert, UpsertedTyped
          DEF Taken, Pending, FulfillmentInv, FulfillmentTypeOK
<1> QED BY <1>1, FulfillmentInvariant, PTL DEF FulfillmentSpec, SuccessAfterActivation
=============================================================================
