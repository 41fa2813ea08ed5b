------------------------------ MODULE Fulfillment ------------------------------
(***************************************************************************)
(* api/marketplace.py: the landing page and the webhook, around one        *)
(* subscription and its tenants row.  A landing is one visit with a        *)
(* purchase token, a webhook is one delivery of a notification.  Both      *)
(* fetch the subscription and write what they fetched, with awaits in      *)
(* between at which other handlers run; the select, the write and the      *)
(* commit of an upsert have no await between them and are one step of the  *)
(* one process that serves the API.                                        *)
(*                                                                         *)
(* External: Microsoft's side of the subscription, which changes when it   *)
(* likes, notifies each change at least once, in any order and again until *)
(* it is answered 2xx, resolves a purchase token once, and takes a request *)
(* to activate a pending subscription at once, but may carry it out later: *)
(* marketplace_landing fetches again "rather than assume"; PostgreSQL's    *)
(* check constraint.                                                       *)
(***************************************************************************)
EXTENDS Integers

CONSTANTS
  Landings, Webhooks,   \* visits of the landing page; concurrent deliveries
  Plans, TrialPlans,    \* planIds, and MARKETPLACE_TRIAL_PLAN_IDS
  MaxChanges,           \* bound: changes on Microsoft's side
  MaxFailures           \* bound: failing calls and malformed answers

ASSUME FulfillmentConstants ==
  /\ Landings \cap Webhooks = {}
  /\ TrialPlans \subseteq Plans
  /\ MaxChanges \in Nat /\ MaxFailures \in Nat

VARIABLES
  subscription,   \* Microsoft's, with the number of changes so far
  tenant,         \* the committed row, and the version it was written from
  notice,         \* the notification of each change
  h,              \* the handlers
  newest,         \* the newest version that was ever written to the row: history
  failures

fulfillmentVars == << subscription, tenant, notice, h, newest, failures >>

SaasStatus  == {"PendingFulfillmentStart", "Subscribed", "Suspended", "Unsubscribed", "Other"}
SwarmStatus == {"provisioning", "active", "suspended", "cancelled"}
PlanTier    == {"free_trial", "paid_monthly"}
Versions    == 0..MaxChanges
Handlers    == Landings \cup Webhooks

\* "accepted" is history: whether Microsoft has taken a request to activate it.
Subscription ==
  [status : SaasStatus, plan : Plans, version : Versions, accepted : BOOLEAN]

Tenant ==
  [ exists : BOOLEAN, plan_tier : PlanTier, swarm_status : SwarmStatus,
    trial_start : BOOLEAN, version : Versions ]

NoTenant ==
  [ exists |-> FALSE, plan_tier |-> "paid_monthly", swarm_status |-> "provisioning",
    trial_start |-> FALSE, version |-> 0 ]

Phases == { "idle", "resolved", "received", "fetched", "upserted",
            "activating", "activated", "refetched", "success", "failed" }

\* "seen" is the row's version when the handler last fetched; a landing has no
\* notice, and is over after success or failure.
Handler == [at : Phases, snap : Subscription, notice : Versions, seen : Versions]

NewPurchase(plan) ==
  [ status |-> "PendingFulfillmentStart", plan |-> plan, version |-> 0,
    accepted |-> FALSE ]

Fresh(at, n) ==
  [ at |-> at, snap |-> NewPurchase(CHOOSE p \in Plans : TRUE), notice |-> n, seen |-> 0 ]

FulfillmentTypeOK ==
  /\ subscription \in Subscription
  /\ tenant \in Tenant
  /\ notice \in [1..MaxChanges -> {"none", "sent", "answered", "dropped"}]
  /\ h \in [Handlers -> Handler]
  /\ newest \in Versions
  /\ failures \in 0..MaxFailures

FulfillmentInit ==
  /\ \E plan \in Plans : subscription = NewPurchase(plan)
  /\ tenant = NoTenant
  /\ notice = [n \in 1..MaxChanges |-> "none"]
  /\ h = [x \in Handlers |-> Fresh("idle", 0)]
  /\ newest = 0
  /\ failures = 0

-----------------------------------------------------------------------------
(* Microsoft's side.                                                        *)

NextStatus ==
  [ PendingFulfillmentStart |-> {"Unsubscribed"},
    Subscribed   |-> {"Subscribed", "Suspended", "Unsubscribed", "Other"},
    Suspended    |-> {"Subscribed", "Unsubscribed"},
    Unsubscribed |-> {},
    Other        |-> {"Subscribed", "Unsubscribed"} ]

\* A renewal or a change of plan, quantity or status, and its notification.
MicrosoftChanges ==
  /\ subscription.version < MaxChanges
  /\ \E status \in NextStatus[subscription.status], plan \in Plans :
       /\ plan # subscription.plan => subscription.status = "Subscribed" /\ status = "Subscribed"
       /\ subscription' = [ subscription EXCEPT !.status = status, !.plan = plan,
                                                !.version = @ + 1 ]
  /\ notice' = [notice EXCEPT ![subscription.version + 1] = "sent"]
  /\ UNCHANGED << tenant, h, newest, failures >>

\* An activation it has accepted is done, now or later; nobody is notified.
MicrosoftActivates ==
  /\ subscription.version < MaxChanges
  /\ subscription.status = "PendingFulfillmentStart" /\ subscription.accepted
  /\ subscription' = [subscription EXCEPT !.status = "Subscribed", !.version = @ + 1]
  /\ UNCHANGED << tenant, notice, h, newest, failures >>

Fails == failures < MaxFailures /\ failures' = failures + 1

-----------------------------------------------------------------------------
(* The upsert.                                                              *)

map_plan_id_to_tier(plan) == IF plan \in TrialPlans THEN "free_trial" ELSE "paid_monthly"

SAAS_STATUS_TO_SWARM_STATUS ==
  [ PendingFulfillmentStart |-> "provisioning", Subscribed |-> "active",
    Suspended |-> "suspended", Unsubscribed |-> "cancelled" ]

Mapped(status) == status \in DOMAIN SAAS_STATUS_TO_SWARM_STATUS

RawStatus(snap) == snap.status
MappedStatus(snap) ==
  IF Mapped(snap.status) THEN SAAS_STATUS_TO_SWARM_STATUS[snap.status] ELSE tenant.swarm_status

\* The row after _upsert_tenant_from_subscription: an unmapped status leaves
\* swarm_status alone, and trial_start_date is set on creation only.
Upserted(snap) ==
  [ exists |-> TRUE,
    plan_tier |-> map_plan_id_to_tier(snap.plan),
    swarm_status |-> MappedStatus(snap),
    trial_start |-> IF tenant.exists THEN tenant.trial_start
                    ELSE map_plan_id_to_tier(snap.plan) = "free_trial",
    version |-> snap.version ]

\* chk_trial_dates_present raises an IntegrityError.
Refused(row) == row.plan_tier = "free_trial" /\ ~row.trial_start

-----------------------------------------------------------------------------
(* Steps of both handlers.                                                  *)

TrustPayload(n) == [subscription EXCEPT !.version = n]
get_subscription(n) == subscription

Fetch(x, from, to) ==
  /\ h[x].at = from
  /\ h' = [h EXCEPT ![x].at = to, ![x].snap = get_subscription(h[x].notice),
                    ![x].seen = tenant.version]
  /\ UNCHANGED << subscription, tenant, notice, newest, failures >>

\* get_session commits the upsert, or rolls back what the constraint refuses.
Upsert(x, from, written, refused) ==
  /\ h[x].at = from
  /\ IF Refused(Upserted(h[x].snap))
     THEN h' = [h EXCEPT ![x] = refused] /\ UNCHANGED << tenant, newest >>
     ELSE /\ h' = [h EXCEPT ![x] = written]
          /\ tenant' = Upserted(h[x].snap)
          /\ newest' = IF newest < h[x].snap.version THEN h[x].snap.version ELSE newest
  /\ UNCHANGED << subscription, notice, failures >>

-----------------------------------------------------------------------------
(* marketplace_landing.                                                     *)

Ended == {"success", "failed"}

Resolve(l) ==
  /\ h[l].at = "idle"
  /\ h' = [h EXCEPT ![l].at = "resolved"]
  /\ UNCHANGED << subscription, tenant, notice, newest, failures >>

FetchForLanding(l) == Fetch(l, "resolved", "fetched")

LandingUpsert(l) ==
  Upsert(l, "fetched",
         IF h[l].snap.status = "PendingFulfillmentStart"
         THEN [h[l] EXCEPT !.at = "activating"] ELSE Fresh("success", 0),
         Fresh("failed", 0))

\* POST activate: accepted for a pending subscription, a no-op or an error for
\* any other; an answer that is lost is asked for again by _request.
SkipRefetch == "refetched"
AfterActivation == "activated"

Activate(l) ==
  /\ h[l].at = "activating"
  /\ IF subscription.status = "PendingFulfillmentStart"
     THEN /\ subscription' = [subscription EXCEPT !.accepted = TRUE]
          /\ \/ h' = [h EXCEPT ![l].at = AfterActivation] /\ UNCHANGED failures
             \/ Fails /\ UNCHANGED h
     ELSE /\ h' \in { [h EXCEPT ![l].at = AfterActivation],
                      [h EXCEPT ![l] = Fresh("failed", 0)] }
          /\ UNCHANGED << subscription, failures >>
  /\ UNCHANGED << tenant, notice, newest >>

Refetch(l) == Fetch(l, "activated", "refetched")

\* The status that was fetched is written, and not looked at.
LandingConfirm(l) ==
  Upsert(l, "refetched", Fresh("success", 0), Fresh("failed", 0))

\* MarketplaceApiError (a token used before, no id in the answer) or any other
\* exception, or the end of the process: an error page and nothing else.
LandingFails(l) ==
  /\ h[l].at \notin Ended
  /\ Fails
  /\ h' = [h EXCEPT ![l] = Fresh("failed", 0)]
  /\ UNCHANGED << subscription, tenant, notice, newest >>

-----------------------------------------------------------------------------
(* _handle_marketplace_webhook.                                             *)

\* A notification is delivered, maybe again while an earlier delivery of it is
\* still being handled.
Deliver(w) ==
  /\ h[w].at = "idle"
  /\ \E n \in 1..MaxChanges :
       /\ notice[n] = "sent"
       /\ h' = [h EXCEPT ![w] = Fresh("received", n)]
  /\ UNCHANGED << subscription, tenant, notice, newest, failures >>

FetchForNotice(w) == Fetch(w, "received", "fetched")

\* No id or no beneficiary.tenantId: acknowledged_with_errors, so that Microsoft
\* stops sending it.
ReconcileMalformed(w) ==
  /\ h[w].at = "fetched"
  /\ Fails
  /\ notice' = [notice EXCEPT ![h[w].notice] = "dropped"]
  /\ h' = [h EXCEPT ![w] = Fresh("idle", 0)]
  /\ UNCHANGED << subscription, tenant, newest >>

WebhookUpsert(w) ==
  Upsert(w, "fetched", Fresh("upserted", h[w].notice), Fresh("idle", 0))

\* PATCH of the operation's status, whose refusal is only logged, and the 200.
Acknowledge(w) ==
  /\ h[w].at = "upserted"
  /\ notice' = [notice EXCEPT ![h[w].notice] = "answered"]
  /\ h' = [h EXCEPT ![w] = Fresh("idle", 0)]
  /\ UNCHANGED << subscription, tenant, newest, failures >>

\* A 5xx, a lost answer or the end of the process: Microsoft sends it again.
AcknowledgeAnyway(n) == [notice EXCEPT ![n] = "answered"]
RetryLater(n) == notice

WebhookFails(w) ==
  /\ h[w].at \in {"received", "fetched", "upserted"}
  /\ Fails
  /\ notice' = RetryLater(h[w].notice)
  /\ h' = [h EXCEPT ![w] = Fresh("idle", 0)]
  /\ UNCHANGED << subscription, tenant, newest >>

Landing(l) ==
  Resolve(l) \/ FetchForLanding(l) \/ LandingUpsert(l) \/ Activate(l) \/ Refetch(l)
  \/ LandingConfirm(l)

Webhook(w) == FetchForNotice(w) \/ WebhookUpsert(w) \/ Acknowledge(w)

FulfillmentNext ==
  \/ MicrosoftChanges \/ MicrosoftActivates
  \/ \E l \in Landings : Landing(l) \/ LandingFails(l)
  \/ \E w \in Webhooks :
       Deliver(w) \/ Webhook(w) \/ ReconcileMalformed(w) \/ WebhookFails(w)

FulfillmentSpec == FulfillmentInit /\ [][FulfillmentNext]_fulfillmentVars

\* Handlers run, and Microsoft sends a notification again until it is answered;
\* nobody need visit the landing page.
FulfillmentFairness ==
  \A w \in Webhooks :
    WF_fulfillmentVars(Webhook(w)) /\ WF_fulfillmentVars(Deliver(w))

FairFulfillmentSpec == FulfillmentSpec /\ FulfillmentFairness
-----------------------------------------------------------------------------
(* Correctness.                                                             *)

\* A handler sets the tenant back to an older state of the subscription only
\* when another has written since it fetched: late, repeated and reordered
\* notifications do it no harm by themselves, because each is answered with a
\* subscription fetched for it.
Overtaken(x) ==
  h[x].at \in {"fetched", "refetched"} /\ h'[x] # h[x] /\ h[x].seen < tenant.version

BackwardsOnlyIfOvertaken ==
  [][ tenant'.version < tenant.version => \E x \in Handlers : Overtaken(x) ]_fulfillmentVars

\* The landing page says success only when the row was written from what this
\* visit fetched last, which for a purchase that it had to activate was fetched
\* after Microsoft took the activation: not from what it fetched before.
TurnsToSuccess(l) == h'[l].at = "success" /\ h[l].at # "success"

SuccessAfterActivation ==
  [][ \A l \in Landings :
        TurnsToSuccess(l) =>
          /\ tenant'.version = h[l].snap.version
          /\ h[l].snap.status = "PendingFulfillmentStart" => h[l].snap.accepted
    ]_fulfillmentVars

\* Each notification is answered at last, through lost answers and failing
\* calls, and by then the tenant has held that change or a later one: unless
\* Microsoft's answer was malformed, or the plan is a trial that the tenant has
\* no start date for, which the table refuses each time.
TrialRefused ==
  /\ tenant.exists
  /\ ~tenant.trial_start
  /\ map_plan_id_to_tier(subscription.plan) = "free_trial"

ChangesReachTenant ==
  \A n \in 1..MaxChanges :
    notice[n] = "sent" ~>
      \/ notice[n] = "answered" /\ newest >= n
      \/ notice[n] = "dropped"
      \/ TrialRefused

\* marketplace_landing: it fetches again "to confirm activation succeeded before
\* telling the customer they're provisioned".  No visit says success of a
\* purchase that still waits for its activation.
SuccessIsConfirmed ==
  [][ \A l \in Landings :
        TurnsToSuccess(l) => h[l].snap.status # "PendingFulfillmentStart"
    ]_fulfillmentVars
=============================================================================
