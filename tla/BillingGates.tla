----------------------------- MODULE BillingGates -----------------------------
(***************************************************************************)
(* The four billing gates of core/billing.py around one tenant's row.  One *)
(* element of Sessions is one agent-node execution: a database session     *)
(* that passes the gates (or calls the third gate alone, as                *)
(* test_billing_metering.py does), commits, calls its model and corrects   *)
(* its reservation in a second session.  The repository has no caller of   *)
(* the gates outside its tests, so the callers are as the docstrings       *)
(* demand: they commit before the model is called.                         *)
(*                                                                         *)
(* External: PostgreSQL at its default isolation, READ COMMITTED (a        *)
(* session reads what is committed when the statement runs; FOR UPDATE and *)
(* UPDATE wait for the row's lock), and SQLAlchemy's identity map (a row   *)
(* that a session has already loaded keeps the attributes it was loaded    *)
(* with, a locking select included, since no statement of the repository   *)
(* asks for populate_existing).  An UPDATE writes the changed columns only,*)
(* and rounds each amount to its column's four digits; the session's copy  *)
(* stays the unrounded Decimal.                                            *)
(*                                                                         *)
(* Raw amounts are integers of a millionth of a dollar, the precision of a *)
(* call's cost (token_ledger.raw_cost_usd), and billed ones of half that.  *)
(***************************************************************************)
EXTENDS Integers, Functions

CONSTANTS
  Sessions, NoSession,
  Entries,              \* functions of core.billing an execution starts with
  Costs,                \* bound: raw costs of a call
  Statuses,             \* bound: the swarm_status values the Marketplace sets
  PILOT_PROJECT_LIMITS, \* 1 and 25 in the source
  MaxProjects,          \* bound: projects of the tenant
  AllAgentsEnabled      \* sessions of processes with SWARM_ALL_AGENTS_ENABLED

PlanTier     == {"free_trial", "paid_monthly"}
SwarmStatus  == {"provisioning", "active", "trial_expired", "suspended", "cancelled"}
FeatureTier  == {"pilot_allowed", "standard_tier"}
EntryPoints  == {"run_billing_gates", "check_pilot_compute_cap"}

ASSUME BillingConstants ==
  /\ NoSession \notin Sessions
  /\ Entries \subseteq EntryPoints
  /\ Costs \subseteq Nat
  /\ Statuses \subseteq SwarmStatus
  /\ PILOT_PROJECT_LIMITS \in [PlanTier -> Nat]
  /\ MaxProjects \in Nat
  /\ AllAgentsEnabled \subseteq Sessions

VARIABLES
  tenant,    \* the committed row of the tenants table
  projects,  \* committed rows of the tenant's projects
  lock,      \* the session that holds the tenant's row lock
  sess,      \* the executions
  charged,   \* what each execution has committed to pay: the history of tenant
  writes     \* how often the two amounts have been committed: a history too

vars == << tenant, projects, lock, sess, charged, writes >>

Tenant ==
  [ plan_tier : PlanTier, swarm_status : SwarmStatus,
    raw_token_spend_usd : Nat, billed_overage_usd : Int ]

\* The two columns are NUMERIC(12, 4): what one step of their last digit is.
RawDigit == 100
BilledDigit == 200

OnDigits(t) ==
  t.raw_token_spend_usd % RawDigit = 0 /\ t.billed_overage_usd % BilledDigit = 0

NewTenant ==
  [ plan_tier |-> "free_trial", swarm_status |-> "active",
    raw_token_spend_usd |-> 0, billed_overage_usd |-> 0 ]

Phases == { "idle", "loaded", "counted", "reserved", "checked",
            "admitted", "bypassed", "rejected", "reconciled", "failed" }

Execution ==
  [ at : Phases, entry : EntryPoints \cup {"none"},
    tenant : Tenant,       \* the session's copy: loaded, then with its estimate
    estimate : Nat ]

BillingTypeOK ==
  /\ tenant \in Tenant /\ OnDigits(tenant)
  /\ projects \in 0..MaxProjects
  /\ lock \in Sessions \cup {NoSession}
  /\ sess \in [Sessions -> Execution]
  /\ charged \in [Sessions -> Nat]
  /\ writes \in Nat

Init ==
  /\ tenant = NewTenant
  /\ projects = 0
  /\ lock = NoSession
  /\ sess = [s \in Sessions |->
       [at |-> "idle", entry |-> "none", tenant |-> NewTenant, estimate |-> 0]]
  /\ charged = [s \in Sessions |-> 0]
  /\ writes = 0

-----------------------------------------------------------------------------
OVERAGE_MULTIPLIER == 5   \* 2.50, in the units of the bill

billable_cost_usd(raw) == raw * OVERAGE_MULTIPLIER

\* The in-place += on a loaded tenant of check_pilot_compute_cap and of
\* reconcile_actual_cost.
ChargeRawOnly(t, cost) == [t EXCEPT !.raw_token_spend_usd = @ + cost]

Charge(t, cost) ==
  [t EXCEPT !.raw_token_spend_usd = @ + cost,
            !.billed_overage_usd = @ + billable_cost_usd(cost)]

\* PostgreSQL rounds a numeric half away from zero.
Rounded(x, digit) ==
  IF x >= 0 THEN ((x + digit \div 2) \div digit) * digit
  ELSE -(((digit \div 2 - x) \div digit) * digit)

\* The constraint chk_raw_spend_nonnegative, on the value as stored.
NeverRefused(t) == FALSE
Refused(t) == t.raw_token_spend_usd < 0

Unlocked == TRUE
LockFree == lock = NoSession

\* The UPDATE of the two amounts, as its commit makes it visible.
Written(t, copy) ==
  [t EXCEPT !.raw_token_spend_usd = Rounded(copy.raw_token_spend_usd, RawDigit),
            !.billed_overage_usd = Rounded(copy.billed_overage_usd, BilledDigit)]

\* A session that is closed keeps nothing of what it loaded.
Closed(s, at, estimate) ==
  sess' = [sess EXCEPT ![s] = [@ EXCEPT !.at = at, !.tenant = NewTenant,
                                        !.estimate = estimate]]

\* get_session's rollback.
RollbackKeepsLock(s, at) ==
  /\ Closed(s, at, 0)
  /\ UNCHANGED << tenant, projects, lock, charged, writes >>

Rollback(s, at) ==
  /\ Closed(s, at, 0)
  /\ lock' = IF lock = s THEN NoSession ELSE lock
  /\ UNCHANGED << tenant, projects, charged, writes >>

-----------------------------------------------------------------------------
(* run_billing_gates.                                                       *)

Bypass(s) ==
  /\ s \in AllAgentsEnabled
  /\ sess[s].at = "idle"
  /\ sess' = [sess EXCEPT ![s].at = "bypassed", ![s].entry = "run_billing_gates"]
  /\ UNCHANGED << tenant, projects, lock, charged, writes >>

FeatureDenied(t, feature_tier) ==
  feature_tier = "standard_tier" /\ t.plan_tier = "free_trial"

\* The first select, and assert_pilot_feature_access for an agent of the
\* registry; an agent outside it is rejected before anything is read.
LoadTenant(s) ==
  /\ s \notin AllAgentsEnabled
  /\ sess[s].at = "idle"
  /\ \E feature_tier \in FeatureTier, estimate \in Costs :
       sess' = [sess EXCEPT ![s] =
         IF FeatureDenied(tenant, feature_tier)
         THEN [@ EXCEPT !.at = "rejected", !.entry = "run_billing_gates"]
         ELSE [ at |-> "loaded", entry |-> "run_billing_gates",
                tenant |-> tenant, estimate |-> estimate ]]
  /\ UNCHANGED << tenant, projects, lock, charged, writes >>

\* check_pilot_project_limit: the plan as loaded, the projects as of now.
CheckProjectLimit(s) ==
  /\ sess[s].at = "loaded"
  /\ IF projects > PILOT_PROJECT_LIMITS[sess[s].tenant.plan_tier]
     THEN Rollback(s, "rejected")
     ELSE /\ sess' = [sess EXCEPT ![s].at = "counted"]
          /\ UNCHANGED << tenant, projects, lock, charged, writes >>

\* check_pilot_compute_cap: the row is locked, but the copy that was loaded
\* before is the one that is charged and flushed.
CheckComputeCap(s) ==
  /\ sess[s].at = "counted"
  /\ LockFree
  /\ lock' = s
  /\ sess' = [sess EXCEPT ![s].at = "reserved",
                          ![s].tenant = Charge(@, sess[s].estimate)]
  /\ UNCHANGED << tenant, projects, charged, writes >>

Halted == {"trial_expired", "suspended", "cancelled"}

\* check_credit_balance.
RejectAfterCommit(s) ==
  /\ sess[s].at = "reserved"
  /\ IF sess[s].tenant.swarm_status \in Halted
     THEN /\ tenant' = Written(tenant, sess[s].tenant)
          /\ Closed(s, "rejected", 0)
          /\ lock' = NoSession
          /\ writes' = writes + 1
          /\ UNCHANGED << projects, charged >>
     ELSE /\ sess' = [sess EXCEPT ![s].at = "checked"]
          /\ UNCHANGED << tenant, projects, lock, charged, writes >>

CheckCreditBalance(s) ==
  /\ sess[s].at = "reserved"
  /\ IF sess[s].tenant.swarm_status \in Halted
     THEN Rollback(s, "rejected")
     ELSE /\ sess' = [sess EXCEPT ![s].at = "checked"]
          /\ UNCHANGED << tenant, projects, lock, charged, writes >>

\* A session that calls the third gate alone loads the row under its lock.
ComputeCapAlone(s) ==
  /\ sess[s].at = "idle"
  /\ LockFree
  /\ lock' = s
  /\ \E estimate \in Costs :
       sess' = [sess EXCEPT ![s] =
         [ at |-> "checked", entry |-> "check_pilot_compute_cap",
           tenant |-> Charge(tenant, estimate), estimate |-> estimate ]]
  /\ UNCHANGED << tenant, projects, charged, writes >>

\* The caller commits promptly, and only then calls its model.  Adding an
\* estimate of zero changes no attribute, so nothing is written for it.
Commit(s) ==
  /\ sess[s].at = "checked"
  /\ IF sess[s].estimate = 0
     THEN UNCHANGED << tenant, writes >>
     ELSE /\ tenant' = Written(tenant, sess[s].tenant)
          /\ writes' = writes + 1
  /\ charged' = [charged EXCEPT ![s] = sess[s].estimate]
  /\ Closed(s, "admitted", sess[s].estimate)
  /\ lock' = NoSession
  /\ UNCHANGED projects

\* reconcile_actual_cost, in a session of its own: no other statement runs
\* between its locking select and its commit, which the lock makes one step.
\* An exact estimate is left alone without touching the row.
Reconcile(s) ==
  /\ sess[s].at = "admitted"
  /\ \E actual \in Costs :
       LET delta == actual - sess[s].estimate
           t     == Written(tenant, Charge(tenant, delta))
       IN \/ /\ delta = 0
             /\ Closed(s, "reconciled", 0)
             /\ UNCHANGED << tenant, charged, writes >>
          \/ /\ delta # 0
             /\ LockFree
             /\ IF Refused(t)
                THEN /\ Closed(s, "failed", 0)
                     /\ UNCHANGED << tenant, charged, writes >>
                ELSE /\ tenant' = t
                     /\ writes' = writes + 1
                     /\ charged' = [charged EXCEPT ![s] = actual]
                     /\ Closed(s, "reconciled", 0)
  /\ UNCHANGED << projects, lock >>

\* The session's connection or process is lost, or its caller's later work in
\* the transaction raises.
InGates == {"loaded", "counted", "reserved", "checked"}

Lose(s) ==
  /\ sess[s].at \in InGates \cup {"admitted"}
  /\ Rollback(s, "failed")

-----------------------------------------------------------------------------
(* What other components do to the tenant meanwhile: api/marketplace.py     *)
(* writes the plan and the status, api/copilot.py adds projects.            *)

UpsertTenant ==
  /\ LockFree
  /\ \E plan \in PlanTier, status \in Statuses :
       tenant' = [tenant EXCEPT !.plan_tier = plan, !.swarm_status = status]
  /\ UNCHANGED << projects, lock, sess, charged, writes >>

CreateProject ==
  /\ projects < MaxProjects
  /\ projects' = projects + 1
  /\ UNCHANGED << tenant, lock, sess, charged, writes >>

Gate(s) == CheckProjectLimit(s) \/ CheckComputeCap(s) \/ CheckCreditBalance(s) \/ Commit(s)

Start(s) ==
  \/ "run_billing_gates" \in Entries /\ (Bypass(s) \/ LoadTenant(s))
  \/ "check_pilot_compute_cap" \in Entries /\ ComputeCapAlone(s)

Next ==
  \/ \E s \in Sessions : Start(s) \/ Gate(s) \/ Reconcile(s) \/ Lose(s)
  \/ UpsertTenant
  \/ CreateProject

Spec == Init /\ [][Next]_vars

FairSpec == Spec /\ \A s \in Sessions : WF_vars(Gate(s))
-----------------------------------------------------------------------------
(* Correctness.                                                             *)

Abs(x) == IF x < 0 THEN -x ELSE x

\* How far the bill of a tenant is from 2.5 times its raw spend.
Drift(t) == Abs(t.billed_overage_usd - billable_cost_usd(t.raw_token_spend_usd))

\* The Marketplace bill keeps in step with the spend to 0.00015 dollars for
\* each committed reservation or correction, which is what the rounding of the
\* two columns can cost: also when reservations and corrections overlap,
\* overwrite one another or are refused by the table's constraint half way.
MaxDrift == 300

BillDriftBounded == Drift(tenant) <= MaxDrift * writes

\* A session that reads the row under its lock is exact to half of the column's
\* last digit: check_pilot_compute_cap on its own and reconcile_actual_cost
\* move the tenant's spend by what their execution owes, whatever commits
\* around them.
ReadUnderLock(s) ==
  sess[s].entry = "check_pilot_compute_cap" \/ sess[s].at = "admitted"

Owes(s) == charged'[s] - charged[s]

ExactUnderLock ==
  [][ \A s \in Sessions :
        ReadUnderLock(s) /\ charged'[s] # charged[s] =>
          2 * Abs(tenant'.raw_token_spend_usd
                    - (tenant.raw_token_spend_usd + Owes(s))) <= RawDigit ]_vars

\* Spend only ever moves for an execution that passed all of its gates: the
\* reservation the third gate has flushed is gone when the fourth rejects it,
\* when the session is lost, or while it waits.
OnlyAdmittedPay ==
  [][ tenant'.raw_token_spend_usd # tenant.raw_token_spend_usd =>
        \E s \in Sessions :
          /\ sess[s].at \in {"checked", "admitted"}
          /\ sess'[s].at \in {"admitted", "reconciled"} \ {sess[s].at} ]_vars

\* No execution waits for ever for the row lock, not even behind one that was
\* rejected or lost while it held it.
GatesAnswer == \A s \in Sessions : sess[s].at \in InGates ~> sess[s].at \notin InGates

\* schema.sql on raw_token_spend_usd: "Atomically accumulated raw token spend";
\* check_pilot_compute_cap: executions "cannot both read a stale
\* raw_token_spend_usd".  What is accumulated is what executions owe, but for
\* the rounding.
SpendAccumulated ==
  2 * Abs(tenant.raw_token_spend_usd - FoldFunction(+, 0, charged)) <= RawDigit * writes
=============================================================================
