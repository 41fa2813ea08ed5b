-------------------------- MODULE BillingGatesProofs --------------------------
(***************************************************************************)
(* Theorems about the billing gates, for any number of executions, any     *)
(* costs and any limits.                                                   *)
(***************************************************************************)
EXTENDS BillingGates, TLAPS

(* A bill and its spend, n commits after the tenant's first: within MaxDrift *)
(* of one another for each of them, and a multiple of half of the bill's     *)
(* last digit apart.                                                         *)
Gap(t) == t.billed_overage_usd - billable_cost_usd(t.raw_token_spend_usd)

InStep(t, n) ==
  /\ Gap(t) % 100 = 0
  /\ -(MaxDrift * n) <= Gap(t)
  /\ Gap(t) <= MaxDrift * n

\* PostgreSQL's rounding to the digits of the two columns: what it returns,
\* how far it goes, and that a spend stays one.
LEMMA RawRounded ==
  ASSUME NEW x \in Int
  PROVE  /\ Rounded(x, RawDigit) \in Int
         /\ Rounded(x, RawDigit) % 100 = 0
         /\ x - 50 <= Rounded(x, RawDigit) /\ Rounded(x, RawDigit) <= x + 50
         /\ x \in Nat => Rounded(x, RawDigit) \in Nat
BY DEF Rounded, RawDigit

LEMMA BilledRounded ==
  ASSUME NEW x \in Int
  PROVE  /\ Rounded(x, BilledDigit) \in Int
         /\ Rounded(x, BilledDigit) % 200 = 0
         /\ x - 100 <= Rounded(x, BilledDigit) /\ Rounded(x, BilledDigit) <= x + 100
BY DEF Rounded, BilledDigit

\* What was in step stays so after more commits, and bounds the drift.
LEMMA InStepLasts ==
  ASSUME NEW t, t.raw_token_spend_usd \in Int, t.billed_overage_usd \in Int,
         NEW n \in Nat, InStep(t, n)
  PROVE  /\ InStep(t, n + 1)
         /\ Drift(t) <= MaxDrift * n
<1> DEFINE gap == Gap(t)
<1>1. gap \in Int
  BY DEF Gap, billable_cost_usd, OVERAGE_MULTIPLIER
<1>2. gap % 100 = 0 /\ -(300 * n) <= gap /\ gap <= 300 * n
  BY DEF InStep, MaxDrift
<1>3. Drift(t) = Abs(gap)
  BY DEF Drift, Gap
<1> HIDE DEF gap
<1>4. -(300 * (n + 1)) <= gap /\ gap <= 300 * (n + 1)
  BY <1>1, <1>2
<1>5. Abs(gap) <= 300 * n
  BY <1>1, <1>2 DEF Abs
<1> QED
  BY <1>2, <1>3, <1>4, <1>5 DEF InStep, MaxDrift, gap

\* The in-place additions, of a reservation or of a negative correction, keep
\* the gap as it is: nothing is rounded before the row is written.
LEMMA ChargeTyped ==
  ASSUME NEW t \in Tenant, NEW n \in Nat, InStep(t, n), NEW cost \in Int
  PROVE  /\ InStep(Charge(t, cost), n)
         /\ Charge(t, cost).raw_token_spend_usd = t.raw_token_spend_usd + cost
         /\ Charge(t, cost).billed_overage_usd \in Int
         /\ cost \in Nat => Charge(t, cost) \in Tenant
<1> DEFINE u == Charge(t, cost)
<1>1. t.raw_token_spend_usd \in Nat /\ t.billed_overage_usd \in Int
  BY DEF Tenant
<1>2. /\ u.raw_token_spend_usd = t.raw_token_spend_usd + cost
      /\ u.billed_overage_usd = t.billed_overage_usd + 5 * cost
  BY DEF Charge, Tenant, billable_cost_usd, OVERAGE_MULTIPLIER
<1>3. Gap(u) = Gap(t)
  <2> HIDE DEF u
  <2> QED
    BY <1>1, <1>2 DEF Gap, billable_cost_usd, OVERAGE_MULTIPLIER
<1>4. cost \in Nat => u \in Tenant
  <2>1. u = [t EXCEPT !.raw_token_spend_usd = u.raw_token_spend_usd,
                      !.billed_overage_usd = u.billed_overage_usd]
    BY DEF Charge, Tenant
  <2> HIDE DEF u
  <2>2. u.billed_overage_usd \in Int /\ (cost \in Nat => u.raw_token_spend_usd \in Nat)
    BY <1>1, <1>2
  <2> QED
    BY <2>1, <2>2 DEF Tenant
<1> HIDE DEF u
<1>5. InStep(u, n)
  BY <1>3 DEF InStep
<1> QED
  BY <1>1, <1>2, <1>4, <1>5 DEF u

\* A commit of a copy that is in step leaves a row that is in step after one
\* commit more, on the digits of its columns, and a tenant row unless the
\* table's constraint refuses it.
LEMMA WrittenTyped ==
  ASSUME NEW t \in Tenant, NEW n \in Nat, NEW copy, InStep(copy, n),
         copy.raw_token_spend_usd \in Int, copy.billed_overage_usd \in Int
  PROVE  LET row == Written(t, copy) IN
         /\ InStep(row, n + 1)
         /\ OnDigits(row)
         /\ copy.raw_token_spend_usd - 50 <= row.raw_token_spend_usd
         /\ row.raw_token_spend_usd <= copy.raw_token_spend_usd + 50
         /\ row.raw_token_spend_usd \in Int
         /\ ~Refused(row) \/ copy.raw_token_spend_usd \in Nat => row \in Tenant
<1> DEFINE row    == Written(t, copy)
           raw    == copy.raw_token_spend_usd
           billed == copy.billed_overage_usd
           spend  == Rounded(raw, RawDigit)
           bill   == Rounded(billed, BilledDigit)
<1>1. row.raw_token_spend_usd = spend /\ row.billed_overage_usd = bill
  BY DEF Written, Tenant
<1>2. /\ spend \in Int /\ spend % 100 = 0
      /\ raw - 50 <= spend /\ spend <= raw + 50
      /\ raw \in Nat => spend \in Nat
  <2> HIDE DEF raw
  <2>1. raw \in Int
    BY DEF raw
  <2> QED
    BY <2>1, RawRounded
<1>3. bill \in Int /\ bill % 200 = 0 /\ billed - 100 <= bill /\ bill <= billed + 100
  <2> HIDE DEF billed
  <2>1. billed \in Int
    BY DEF billed
  <2> QED
    BY <2>1, BilledRounded
<1>4. raw \in Int /\ billed \in Int
  OBVIOUS
<1>5. row = [t EXCEPT !.raw_token_spend_usd = spend, !.billed_overage_usd = bill]
  BY DEF Written
<1>6. /\ (billed - 5 * raw) % 100 = 0
      /\ -(300 * n) <= billed - 5 * raw /\ billed - 5 * raw <= 300 * n
  BY <1>4 DEF InStep, Gap, billable_cost_usd, OVERAGE_MULTIPLIER, MaxDrift
<1> HIDE DEF row, spend, bill, raw, billed
<1>7. /\ (bill - 5 * spend) % 100 = 0
      /\ -(300 * (n + 1)) <= bill - 5 * spend
      /\ bill - 5 * spend <= 300 * (n + 1)
  BY <1>2, <1>3, <1>4, <1>6
<1>8. InStep(row, n + 1)
  BY <1>1, <1>2, <1>3, <1>7 DEF InStep, Gap, billable_cost_usd, OVERAGE_MULTIPLIER, MaxDrift
<1>9. OnDigits(row)
  BY <1>1, <1>2, <1>3 DEF OnDigits, RawDigit, BilledDigit
<1>10. ASSUME spend \in Nat PROVE row \in Tenant
  BY <1>3, <1>5, <1>10 DEF Tenant
<1>11. ~Refused(row) \/ raw \in Nat => row \in Tenant
  BY <1>1, <1>2, <1>10 DEF Refused
<1> QED
  BY <1>1, <1>2, <1>8, <1>9, <1>11 DEF row, raw

-----------------------------------------------------------------------------
(* The inductive invariant.  The lock is held exactly from the third gate   *)
(* to the end of the transaction; the row and every copy a session works on *)
(* have their bill in step with their spend; and the copy of a session that loaded the   *)
(* row under its lock is the committed row plus its own estimate.           *)
LockInv ==
  \A s \in Sessions : sess[s].at \in {"reserved", "checked"} <=> lock = s

CopyInv ==
  \A s \in Sessions :
    /\ InStep(sess[s].tenant, writes)
    /\ sess[s].entry = "check_pilot_compute_cap" =>
         sess[s].at \in {"checked", "admitted", "reconciled", "failed"}
    /\ sess[s].entry = "check_pilot_compute_cap" /\ sess[s].at = "checked" =>
         sess[s].tenant.raw_token_spend_usd =
           tenant.raw_token_spend_usd + sess[s].estimate

ChargedInv ==
  \A s \in Sessions :
    /\ sess[s].at \notin {"admitted", "reconciled", "failed"} => charged[s] = 0
    /\ sess[s].at = "admitted" => charged[s] = sess[s].estimate

Inv == BillingTypeOK /\ InStep(tenant, writes) /\ LockInv /\ CopyInv /\ ChargedInv

\* The fresh row of a new tenant is typed and in step at any time.
LEMMA NewTenantTyped ==
  /\ NewTenant \in Tenant /\ OnDigits(NewTenant)
  /\ \A n \in Nat : InStep(NewTenant, n)
BY DEF NewTenant, Tenant, OnDigits, RawDigit, BilledDigit, PlanTier, SwarmStatus,
       InStep, Gap, billable_cost_usd, OVERAGE_MULTIPLIER, MaxDrift

\* The invariant holds before any execution starts.
LEMMA BillingInit == Init => Inv
<1> SUFFICES ASSUME Init PROVE Inv
  OBVIOUS
<1>1. BillingTypeOK
  BY NewTenantTyped, BillingConstants
  DEF Init, BillingTypeOK, Execution, Phases
<1>2. InStep(tenant, writes)
  BY NewTenantTyped DEF Init
<1>3. LockInv /\ ChargedInv
  BY BillingConstants DEF Init, LockInv, ChargedInv
<1>4. CopyInv
  BY NewTenantTyped DEF Init, CopyInv
<1> QED
  BY <1>1, <1>2, <1>3, <1>4 DEF Inv

-----------------------------------------------------------------------------
(* Preservation, by the kind of step.  A step of an execution s that leaves *)
(* the committed row, and what is charged, alone:                           *)

QuietStep(s, new) ==
  /\ sess' = [sess EXCEPT ![s] = new]
  /\ UNCHANGED << tenant, projects, charged, writes >>

\* Loading, being counted, being checked, being bypassed or rejected, and
\* being lost keep the invariant, whether or not the lock moves with them.
LEMMA QuietKeeps ==
  ASSUME Inv, NEW s \in Sessions, NEW new \in Execution,
         QuietStep(s, new),
         InStep(new.tenant, writes),
         new.entry = "check_pilot_compute_cap" =>
           new.at \in {"checked", "admitted", "reconciled", "failed"},
         new.entry = "check_pilot_compute_cap" /\ new.at = "checked" =>
           new.tenant.raw_token_spend_usd = tenant.raw_token_spend_usd + new.estimate,
         new.at = "admitted" => sess[s].at = "admitted" /\ new.estimate = sess[s].estimate,
         new.at \notin {"reconciled", "failed", "admitted"} =>
           sess[s].at \notin {"reconciled", "failed", "admitted"},
         lock' \in Sessions \cup {NoSession},
         \A q \in Sessions : q # s => (lock' = q <=> lock = q),
         new.at \in {"reserved", "checked"} <=> lock' = s
  PROVE  Inv'
<1>1. /\ sess'[s] = new
      /\ \A q \in Sessions : q # s => sess'[q] = sess[q]
  BY DEF Inv, BillingTypeOK, QuietStep
<1>2. BillingTypeOK'
  BY DEF Inv, BillingTypeOK, QuietStep
<1>3. InStep(tenant, writes)'
  BY DEF Inv, QuietStep, InStep, Gap
<1>4. LockInv'
  BY <1>1 DEF Inv, LockInv
<1>5. CopyInv'
  <2>1. writes' = writes /\ tenant' = tenant
    BY DEF QuietStep
  <2> QED
    BY <1>1, <2>1 DEF Inv, CopyInv, InStep, Gap
<1>6. ChargedInv'
  BY <1>1 DEF Inv, ChargedInv, QuietStep
<1> QED
  BY <1>2, <1>3, <1>4, <1>5, <1>6 DEF Inv

\* What is shared by the steps below: an execution is a record of its type,
\* its copy is in step, and so is the committed row.
LEMMA Shared ==
  ASSUME Inv, NEW s \in Sessions
  PROVE  /\ sess[s] \in Execution
         /\ sess[s].tenant \in Tenant /\ InStep(sess[s].tenant, writes)
         /\ tenant \in Tenant /\ OnDigits(tenant) /\ InStep(tenant, writes)
         /\ writes \in Nat
         /\ sess[s].estimate \in Nat
         /\ charged[s] \in Nat
         /\ lock \in Sessions \cup {NoSession}
         /\ NoSession \notin Sessions
         /\ sess[s].at \in {"reserved", "checked"} <=> lock = s
BY BillingConstants
DEF Inv, BillingTypeOK, Execution, CopyInv, LockInv

\* A rollback, whatever it ends the session as.
LEMMA RollbackKeeps ==
  ASSUME Inv, NEW s \in Sessions,
         NEW at \in {"rejected", "failed"}, Rollback(s, at),
         at = "rejected" =>
           /\ sess[s].entry # "check_pilot_compute_cap"
           /\ sess[s].at \notin {"admitted", "reconciled", "failed"}
  PROVE  Inv'
<1> DEFINE new == [sess[s] EXCEPT !.at = at, !.tenant = NewTenant, !.estimate = 0]
<1>1. QuietStep(s, new)
  BY DEF Rollback, Closed, QuietStep
<1>2. /\ new \in Execution
      /\ new.at = at /\ new.tenant = NewTenant /\ new.entry = sess[s].entry
  BY Shared, NewTenantTyped DEF Execution, Phases
<1>3. /\ lock' \in Sessions \cup {NoSession}
      /\ \A q \in Sessions : q # s => (lock' = q <=> lock = q)
      /\ lock' # s
  BY Shared DEF Rollback
<1>4. InStep(new.tenant, writes)
  BY <1>2, Shared, NewTenantTyped
<1> HIDE DEF new
<1> QED
  BY <1>1, <1>2, <1>3, <1>4, QuietKeeps

\* Starting the gates: bypassed, denied by the first, or loaded.
LEMMA LoadKeeps ==
  ASSUME Inv, NEW s \in Sessions, Bypass(s) \/ LoadTenant(s)
  PROVE  Inv'
<1>1. CASE Bypass(s)
  <2> DEFINE new == [sess[s] EXCEPT !.at = "bypassed", !.entry = "run_billing_gates"]
  <2>1. QuietStep(s, new) /\ lock' = lock /\ sess[s].at = "idle"
    BY <1>1 DEF Bypass, QuietStep
  <2>2. /\ new \in Execution /\ new.tenant = sess[s].tenant
        /\ new.at = "bypassed" /\ new.entry = "run_billing_gates"
    BY Shared DEF Execution, Phases, EntryPoints
  <2> HIDE DEF new
  <2> QED
    BY <2>1, <2>2, Shared, QuietKeeps
<1>2. CASE LoadTenant(s)
  <2>1. PICK feature_tier \in FeatureTier, estimate \in Costs :
          sess' = [sess EXCEPT ![s] =
            IF FeatureDenied(tenant, feature_tier)
            THEN [@ EXCEPT !.at = "rejected", !.entry = "run_billing_gates"]
            ELSE [ at |-> "loaded", entry |-> "run_billing_gates",
                   tenant |-> tenant, estimate |-> estimate ]]
    BY <1>2 DEF LoadTenant
  <2>2. sess[s].at = "idle" /\ UNCHANGED << tenant, projects, lock, charged, writes >>
    BY <1>2 DEF LoadTenant
  <2>3. estimate \in Nat
    BY BillingConstants
  <2>4. CASE FeatureDenied(tenant, feature_tier)
    <3> DEFINE new == [sess[s] EXCEPT !.at = "rejected", !.entry = "run_billing_gates"]
    <3>1. QuietStep(s, new)
      BY <2>1, <2>2, <2>4 DEF QuietStep
    <3>2. /\ new \in Execution /\ new.tenant = sess[s].tenant
          /\ new.at = "rejected" /\ new.entry = "run_billing_gates"
      BY Shared DEF Execution, Phases, EntryPoints
    <3> HIDE DEF new
    <3> QED
      BY <2>2, <3>1, <3>2, Shared, QuietKeeps
  <2>5. CASE ~FeatureDenied(tenant, feature_tier)
    <3> DEFINE new == [ at |-> "loaded", entry |-> "run_billing_gates",
                        tenant |-> tenant, estimate |-> estimate ]
    <3>1. QuietStep(s, new)
      BY <2>1, <2>2, <2>5 DEF QuietStep
    <3>2. /\ new \in Execution /\ new.tenant = tenant
          /\ new.at = "loaded" /\ new.entry = "run_billing_gates"
      BY <2>3, Shared DEF Execution, Phases, EntryPoints
    <3> HIDE DEF new
    <3> QED
      BY <2>2, <3>1, <3>2, Shared, QuietKeeps
  <2> QED
    BY <2>4, <2>5
<1> QED
  BY <1>1, <1>2

\* The second and the fourth gate.
LEMMA LimitAndCreditKeep ==
  ASSUME Inv, NEW s \in Sessions, CheckProjectLimit(s) \/ CheckCreditBalance(s)
  PROVE  Inv'
<1>0. sess[s].at \in {"loaded", "reserved"}
  BY DEF CheckProjectLimit, CheckCreditBalance
<1>1. sess[s].entry # "check_pilot_compute_cap"
  BY <1>0 DEF Inv, CopyInv
<1>2. CASE Rollback(s, "rejected")
  BY <1>0, <1>1, <1>2, RollbackKeeps
<1>3. ASSUME NEW at \in {"counted", "checked"},
             at = "counted" <=> sess[s].at = "loaded",
             sess' = [sess EXCEPT ![s].at = at],
             UNCHANGED << tenant, projects, lock, charged, writes >>
      PROVE  Inv'
  <2> DEFINE new == [sess[s] EXCEPT !.at = at]
  <2>1. QuietStep(s, new)
    BY <1>3 DEF QuietStep
  <2>2. /\ new \in Execution /\ new.tenant = sess[s].tenant
        /\ new.at = at /\ new.entry = sess[s].entry
    BY Shared DEF Execution, Phases
  <2>3. lock' = lock /\ (new.at \in {"reserved", "checked"} <=> lock = s)
    BY <1>0, <1>3, <2>2, Shared
  <2> HIDE DEF new
  <2> QED
    BY <1>0, <1>1, <1>3, <2>1, <2>2, <2>3, Shared, QuietKeeps
<1> QED
  BY <1>2, <1>3 DEF CheckProjectLimit, CheckCreditBalance

\* Taking the row lock, with the copy that was loaded before it or under it.
LEMMA CapKeeps ==
  ASSUME Inv, NEW s \in Sessions, CheckComputeCap(s) \/ ComputeCapAlone(s)
  PROVE  Inv'
<1>1. lock = NoSession /\ lock' = s /\ UNCHANGED << tenant, projects, charged, writes >>
  BY DEF CheckComputeCap, ComputeCapAlone, LockFree
<1>2. CASE CheckComputeCap(s)
  <2> DEFINE copy == Charge(sess[s].tenant, sess[s].estimate)
             new  == [sess[s] EXCEPT !.at = "reserved", !.tenant = copy]
  <2>1. copy \in Tenant /\ InStep(copy, writes)
    BY Shared, ChargeTyped
  <2>2. sess[s].at = "counted" /\ sess[s].entry # "check_pilot_compute_cap"
    BY <1>2 DEF CheckComputeCap, Inv, CopyInv
  <2>3. QuietStep(s, new)
    BY <1>1, <1>2 DEF CheckComputeCap, QuietStep
  <2>4. /\ new \in Execution /\ new.tenant = copy
        /\ new.at = "reserved" /\ new.entry = sess[s].entry
    BY <2>1, Shared DEF Execution, Phases
  <2> HIDE DEF new, copy
  <2> QED
    BY <1>1, <2>1, <2>2, <2>3, <2>4, Shared, QuietKeeps
<1>3. CASE ComputeCapAlone(s)
  <2>1. PICK estimate \in Costs :
          sess' = [sess EXCEPT ![s] =
            [ at |-> "checked", entry |-> "check_pilot_compute_cap",
              tenant |-> Charge(tenant, estimate), estimate |-> estimate ]]
    BY <1>3 DEF ComputeCapAlone
  <2>2. estimate \in Nat
    BY BillingConstants
  <2> DEFINE copy == Charge(tenant, estimate)
             new  == [ at |-> "checked", entry |-> "check_pilot_compute_cap",
                       tenant |-> copy, estimate |-> estimate ]
  <2>3. /\ copy \in Tenant /\ InStep(copy, writes)
        /\ copy.raw_token_spend_usd = tenant.raw_token_spend_usd + estimate
    BY <2>2, Shared, ChargeTyped
  <2>4. sess[s].at = "idle" /\ QuietStep(s, new)
    BY <1>1, <1>3, <2>1 DEF ComputeCapAlone, QuietStep
  <2>5. /\ new \in Execution /\ new.tenant = copy /\ new.estimate = estimate
        /\ new.at = "checked" /\ new.entry = "check_pilot_compute_cap"
    BY <2>2, <2>3 DEF Execution, Phases, EntryPoints
  <2> HIDE DEF new, copy
  <2> QED
    BY <1>1, <2>3, <2>4, <2>5, Shared, QuietKeeps
<1> QED
  BY <1>2, <1>3

-----------------------------------------------------------------------------
(* Steps that move the committed row.                                       *)

\* A closed session's record.
LEMMA ClosedTyped ==
  ASSUME Inv, NEW s \in Sessions, NEW at \in Phases, NEW estimate \in Nat,
         Closed(s, at, estimate)
  PROVE  /\ sess' \in [Sessions -> Execution]
         /\ sess'[s].at = at /\ sess'[s].tenant = NewTenant
         /\ sess'[s].entry = sess[s].entry /\ sess'[s].estimate = estimate
         /\ \A q \in Sessions : q # s => sess'[q] = sess[q]
<1> DEFINE new == [sess[s] EXCEPT !.at = at, !.tenant = NewTenant, !.estimate = estimate]
<1>1. sess' = [sess EXCEPT ![s] = new]
  BY DEF Closed
<1>2. /\ new \in Execution /\ new.at = at /\ new.tenant = NewTenant
      /\ new.entry = sess[s].entry /\ new.estimate = estimate
  BY Shared, NewTenantTyped DEF Execution
<1>3. sess \in [Sessions -> Execution]
  BY DEF Inv, BillingTypeOK
<1> HIDE DEF new
<1> QED
  BY <1>1, <1>2, <1>3

\* What a step that writes the row, or leaves it, has to show of it: the other
\* copies only see that a commit more has passed.
LEMMA CopiesLast ==
  ASSUME Inv, NEW s \in Sessions,
         NEW at \in {"admitted", "reconciled", "failed"}, NEW estimate \in Nat,
         Closed(s, at, estimate),
         writes' = writes \/ writes' = writes + 1,
         \/ tenant' = tenant
         \/ \A q \in Sessions : q # s => sess[q].at # "checked"
  PROVE  CopyInv'
<1>1. /\ sess'[s].at = at /\ sess'[s].tenant = NewTenant
      /\ \A q \in Sessions : q # s => sess'[q] = sess[q]
  <2>1. at \in Phases
    BY DEF Phases
  <2> QED
    BY <2>1, ClosedTyped
<1>2. writes' \in Nat
  BY Shared
<1>3. ASSUME NEW q \in Sessions PROVE InStep(sess'[q].tenant, writes')
  <2>1. CASE q = s
    BY <1>1, <1>2, <2>1, NewTenantTyped
  <2>2. CASE q # s
    <3> DEFINE copy == sess[q].tenant
    <3>1. /\ copy.raw_token_spend_usd \in Int /\ copy.billed_overage_usd \in Int
          /\ InStep(copy, writes) /\ writes \in Nat
      BY Shared DEF Tenant
    <3> HIDE DEF copy
    <3>2. InStep(copy, writes + 1)
      BY <3>1, InStepLasts
    <3>3. sess'[q].tenant = copy
      BY <1>1, <2>2 DEF copy
    <3> QED
      BY <3>1, <3>2, <3>3
  <2> QED
    BY <2>1, <2>2
<1>4. InStep(sess'[s].tenant, writes')
  BY <1>3
<1>5. ASSUME NEW q \in Sessions
      PROVE  /\ sess'[q].entry = "check_pilot_compute_cap" =>
                  sess'[q].at \in {"checked", "admitted", "reconciled", "failed"}
             /\ sess'[q].entry = "check_pilot_compute_cap" /\ sess'[q].at = "checked" =>
                  sess'[q].tenant.raw_token_spend_usd =
                    tenant'.raw_token_spend_usd + sess'[q].estimate
  <2>1. CASE q = s
    BY <1>1, <2>1
  <2>2. CASE q # s
    BY <1>1, <2>2 DEF Inv, CopyInv
  <2> QED
    BY <2>1, <2>2
<1>6. CopyInv' = \A q \in Sessions :
        /\ InStep(sess'[q].tenant, writes')
        /\ sess'[q].entry = "check_pilot_compute_cap" =>
             sess'[q].at \in {"checked", "admitted", "reconciled", "failed"}
        /\ sess'[q].entry = "check_pilot_compute_cap" /\ sess'[q].at = "checked" =>
             sess'[q].tenant.raw_token_spend_usd =
               tenant'.raw_token_spend_usd + sess'[q].estimate
  BY DEF CopyInv, InStep, Gap
<1> QED
  BY <1>3, <1>5, <1>6

\* The commit of a reservation.  No other session holds the lock, so no other
\* session's copy is measured against the row it changes.
LEMMA CommitKeeps ==
  ASSUME Inv, NEW s \in Sessions, Commit(s)
  PROVE  Inv'
<1>1. /\ sess[s].at = "checked" /\ lock = s /\ lock' = NoSession
      /\ charged' = [charged EXCEPT ![s] = sess[s].estimate]
      /\ projects' = projects
  BY Shared DEF Commit
<1>2. /\ sess' \in [Sessions -> Execution]
      /\ sess'[s].at = "admitted" /\ sess'[s].tenant = NewTenant
      /\ sess'[s].entry = sess[s].entry /\ sess'[s].estimate = sess[s].estimate
      /\ \A q \in Sessions : q # s => sess'[q] = sess[q]
  <2>1. "admitted" \in Phases
    BY DEF Phases
  <2> QED
    BY <2>1, Shared, ClosedTyped DEF Commit
<1>3. /\ tenant' \in Tenant /\ OnDigits(tenant') /\ InStep(tenant', writes')
      /\ writes' = writes \/ writes' = writes + 1
  <2>1. CASE sess[s].estimate = 0
    BY <2>1, Shared DEF Commit
  <2>2. CASE sess[s].estimate # 0
    <3> DEFINE copy == sess[s].tenant
               row  == Written(tenant, copy)
    <3>1. tenant' = row /\ writes' = writes + 1
      BY <2>2 DEF Commit
    <3>2. /\ copy \in Tenant /\ InStep(copy, writes)
          /\ copy.raw_token_spend_usd \in Nat /\ copy.billed_overage_usd \in Int
      BY Shared DEF Tenant
    <3> HIDE DEF copy
    <3>3. row \in Tenant /\ OnDigits(row) /\ InStep(row, writes + 1)
      BY <3>2, Shared, WrittenTyped
    <3> QED
      BY <3>1, <3>3
  <2> QED
    BY <2>1, <2>2
<1>4. BillingTypeOK'
  <2>1. writes' \in Nat
    BY <1>3, Shared
  <2>2. OnDigits(tenant)'
    BY <1>3 DEF OnDigits
  <2> QED
    BY <1>1, <1>2, <1>3, <2>1, <2>2, Shared DEF Inv, BillingTypeOK
<1>5. InStep(tenant, writes)'
  BY <1>3 DEF InStep, Gap
<1>6. \A q \in Sessions : q # s => sess[q].at \notin {"reserved", "checked"}
  BY <1>1 DEF Inv, LockInv
<1>7. LockInv'
  BY <1>1, <1>2, <1>6, Shared DEF LockInv
<1>8. CopyInv'
  BY <1>3, <1>6, Shared, CopiesLast DEF Commit
<1>9. ChargedInv'
  BY <1>1, <1>2 DEF Inv, ChargedInv, BillingTypeOK
<1> QED
  BY <1>4, <1>5, <1>7, <1>8, <1>9 DEF Inv

\* A correction: left alone, refused by the constraint, or written.
LEMMA ReconcileKeeps ==
  ASSUME Inv, NEW s \in Sessions, Reconcile(s)
  PROVE  Inv'
<1>1. sess[s].at = "admitted" /\ lock' = lock /\ projects' = projects
  BY DEF Reconcile
<1>2. \/ (Closed(s, "reconciled", 0) \/ Closed(s, "failed", 0))
         /\ UNCHANGED << tenant, charged, writes >>
      \/ \E actual \in Costs :
           LET t == Written(tenant, Charge(tenant, actual - sess[s].estimate)) IN
           /\ LockFree /\ ~Refused(t) /\ tenant' = t
           /\ writes' = writes + 1
           /\ charged' = [charged EXCEPT ![s] = actual]
           /\ Closed(s, "reconciled", 0)
  BY DEF Reconcile
<1>3. PICK at \in {"reconciled", "failed"} : Closed(s, at, 0)
  BY <1>2
<1>4. /\ sess' \in [Sessions -> Execution]
      /\ sess'[s].at = at /\ sess'[s].tenant = NewTenant
      /\ sess'[s].entry = sess[s].entry
      /\ \A q \in Sessions : q # s => sess'[q] = sess[q]
  <2>1. at \in Phases /\ 0 \in Nat
    BY DEF Phases
  <2> QED
    BY <1>3, <2>1, ClosedTyped
<1>5. LockInv'
  BY <1>1, <1>4 DEF Inv, LockInv
<1>6. /\ tenant' \in Tenant /\ OnDigits(tenant') /\ InStep(tenant', writes')
      /\ writes' = writes \/ writes' = writes + 1
      /\ charged' \in [Sessions -> Nat]
      /\ \A q \in Sessions : q # s => charged'[q] = charged[q]
      /\ tenant' = tenant \/ lock = NoSession
  <2>1. CASE UNCHANGED << tenant, charged, writes >>
    BY <2>1, Shared DEF Inv, BillingTypeOK
  <2>2. CASE ~UNCHANGED << tenant, charged, writes >>
    <3>1. PICK actual \in Costs :
            LET t == Written(tenant, Charge(tenant, actual - sess[s].estimate)) IN
            /\ LockFree /\ ~Refused(t) /\ tenant' = t
            /\ writes' = writes + 1
            /\ charged' = [charged EXCEPT ![s] = actual]
      BY <1>2, <2>2
    <3> DEFINE copy == Charge(tenant, actual - sess[s].estimate)
    <3>2. actual \in Nat /\ actual - sess[s].estimate \in Int
      BY Shared, BillingConstants
    <3>3. /\ InStep(copy, writes)
          /\ copy.raw_token_spend_usd \in Int /\ copy.billed_overage_usd \in Int
      BY <3>2, Shared, ChargeTyped DEF Tenant
    <3>4. tenant' = Written(tenant, copy) /\ ~Refused(Written(tenant, copy))
      BY <3>1
    <3> HIDE DEF copy
    <3>5. tenant' \in Tenant /\ OnDigits(tenant') /\ InStep(tenant', writes + 1)
      BY <3>3, <3>4, Shared, WrittenTyped
    <3> QED
      BY <3>1, <3>2, <3>5 DEF LockFree, Inv, BillingTypeOK
  <2> QED
    BY <2>1, <2>2
<1>7. BillingTypeOK'
  <2>1. writes' \in Nat
    BY <1>6, Shared
  <2>2. OnDigits(tenant)'
    BY <1>6 DEF OnDigits
  <2> QED
    BY <1>1, <1>4, <1>6, <2>1, <2>2 DEF Inv, BillingTypeOK
<1>8. InStep(tenant, writes)'
  BY <1>6 DEF InStep, Gap
<1>9. CopyInv'
  <2>1. lock = NoSession => \A q \in Sessions : sess[q].at # "checked"
    BY BillingConstants DEF Inv, LockInv
  <2>2. 0 \in Nat
    OBVIOUS
  <2> QED
    BY <1>3, <1>6, <2>1, <2>2, CopiesLast
<1>10. ChargedInv'
  BY <1>4, <1>6 DEF Inv, ChargedInv
<1> QED
  BY <1>5, <1>7, <1>8, <1>9, <1>10 DEF Inv

\* The Marketplace's and the Copilot API's steps leave the billing alone.
LEMMA OthersKeep ==
  ASSUME Inv, UpsertTenant \/ CreateProject
  PROVE  Inv'
<1>1. /\ tenant' \in Tenant
      /\ tenant'.raw_token_spend_usd = tenant.raw_token_spend_usd
      /\ tenant'.billed_overage_usd = tenant.billed_overage_usd
      /\ projects' \in 0..MaxProjects
  <2>1. CASE UpsertTenant
    <3>1. PICK plan \in PlanTier, status \in Statuses :
            tenant' = [tenant EXCEPT !.plan_tier = plan, !.swarm_status = status]
      BY <2>1 DEF UpsertTenant
    <3> QED
      BY <2>1, <3>1, BillingConstants DEF UpsertTenant, Inv, BillingTypeOK, Tenant
  <2>2. CASE CreateProject
    BY <2>2, BillingConstants DEF CreateProject, Inv, BillingTypeOK
  <2> QED
    BY <2>1, <2>2
<1>2. UNCHANGED << lock, sess, charged, writes >>
  BY DEF UpsertTenant, CreateProject
<1>3. OnDigits(tenant)' /\ InStep(tenant, writes)'
  BY <1>1, <1>2 DEF Inv, BillingTypeOK, OnDigits, InStep, Gap
<1>4. BillingTypeOK' /\ LockInv' /\ ChargedInv'
  BY <1>1, <1>2, <1>3 DEF Inv, BillingTypeOK, LockInv, ChargedInv
<1>5. CopyInv'
  BY <1>1, <1>2 DEF Inv, CopyInv, InStep, Gap
<1> QED
  BY <1>3, <1>4, <1>5 DEF Inv

\* Every step keeps the invariant.
LEMMA BillingNext == Inv /\ [Next]_vars => Inv'
<1> SUFFICES ASSUME Inv, [Next]_vars PROVE Inv'
  OBVIOUS
<1>1. CASE UNCHANGED vars
  BY <1>1
  DEF vars, Inv, BillingTypeOK, OnDigits, LockInv, CopyInv, ChargedInv, InStep, Gap
<1>2. ASSUME NEW s \in Sessions, Start(s) PROVE Inv'
  BY <1>2, LoadKeeps, CapKeeps DEF Start
<1>3. ASSUME NEW s \in Sessions, Gate(s) PROVE Inv'
  BY <1>3, LimitAndCreditKeep, CapKeeps, CommitKeeps DEF Gate
<1>4. ASSUME NEW s \in Sessions, Lose(s) PROVE Inv'
  BY <1>4, RollbackKeeps DEF Lose
<1> QED
  BY <1>1, <1>2, <1>3, <1>4, ReconcileKeeps, OthersKeep DEF Next

-----------------------------------------------------------------------------
(* The theorems.                                                            *)

\* In every state: the row lock is where the gates believe it is, copies are
\* in step, and what has been charged is what was admitted.
THEOREM BillingInvariant == Spec => []Inv
BY BillingInit, BillingNext, PTL DEF Spec

\* The tenant row and the sessions keep to the columns' types and to the
\* constraint on the spend, for any number of overlapping executions.
THEOREM BillingTypeCorrect == Spec => []BillingTypeOK
<1>1. Inv => BillingTypeOK
  BY DEF Inv
<1> QED
  BY <1>1, BillingInvariant, PTL

\* The bill keeps in step with the spend: for any costs and any number of
\* overlapping executions the two columns are never further apart than what
\* their rounding can cost in the commits there have been.
THEOREM BillDriftBoundedHolds == Spec => []BillDriftBounded
<1>1. Inv => BillDriftBounded
  <2> SUFFICES ASSUME Inv PROVE Drift(tenant) <= MaxDrift * writes
    BY DEF BillDriftBounded
  <2>1. /\ tenant.raw_token_spend_usd \in Int /\ tenant.billed_overage_usd \in Int
        /\ InStep(tenant, writes) /\ writes \in Nat
    BY DEF Inv, BillingTypeOK, Tenant
  <2> QED
    BY <2>1, InStepLasts
<1> QED
  BY <1>1, BillingInvariant, PTL

-----------------------------------------------------------------------------
(* The action properties.                                                   *)

\* Only a commit and a correction move the spend or what is charged, and only
\* what is charged to their own execution.
LEMMA WhoPays ==
  ASSUME Inv, Next
  PROVE  \/ \E s \in Sessions :
              /\ Commit(s) \/ Reconcile(s)
              /\ \A q \in Sessions : q # s => charged'[q] = charged[q]
         \/ /\ charged' = charged
            /\ tenant'.raw_token_spend_usd = tenant.raw_token_spend_usd
<1> DEFINE Free == /\ charged' = charged
                   /\ tenant'.raw_token_spend_usd = tenant.raw_token_spend_usd
<1>1. ASSUME NEW s \in Sessions, Start(s) PROVE Free
  BY <1>1 DEF Start, Bypass, LoadTenant, ComputeCapAlone
<1>2. ASSUME NEW s \in Sessions, Gate(s), ~Commit(s) PROVE Free
  BY <1>2 DEF Gate, CheckProjectLimit, CheckComputeCap, CheckCreditBalance, Rollback
<1>3. ASSUME NEW s \in Sessions, Lose(s) PROVE Free
  BY <1>3 DEF Lose, Rollback
<1>4. ASSUME UpsertTenant PROVE Free
  BY <1>4 DEF UpsertTenant, Inv, BillingTypeOK, Tenant
<1>5. ASSUME CreateProject PROVE Free
  BY <1>5 DEF CreateProject
<1>6. ASSUME NEW s \in Sessions, Commit(s) \/ Reconcile(s)
      PROVE  \A q \in Sessions : q # s => charged'[q] = charged[q]
  BY <1>6 DEF Commit, Reconcile, Inv, BillingTypeOK
<1>7. CASE \E s \in Sessions : Gate(s)
  <2>1. PICK s \in Sessions : Gate(s)
    BY <1>7
  <2>2. CASE Commit(s)
    BY <1>6, <2>2
  <2> QED
    BY <1>2, <2>1, <2>2
<1>8. CASE \E s \in Sessions : Reconcile(s)
  BY <1>6, <1>8
<1> HIDE DEF Free
<1>9. CASE Free
  BY <1>9 DEF Free
<1> QED
  BY <1>1, <1>3, <1>4, <1>5, <1>7, <1>8, <1>9 DEF Next

ExactFor(s) ==
  2 * Abs(tenant'.raw_token_spend_usd
            - (tenant.raw_token_spend_usd + Owes(s))) <= RawDigit

ExactStep ==
  \A s \in Sessions :
    ReadUnderLock(s) /\ charged'[s] # charged[s] => ExactFor(s)

OnlyAdmittedStep ==
  tenant'.raw_token_spend_usd # tenant.raw_token_spend_usd =>
    \E s \in Sessions :
      /\ sess[s].at \in {"checked", "admitted"}
      /\ sess'[s].at \in {"admitted", "reconciled"} \ {sess[s].at}

\* A row written from the committed one plus what is owed is exact.
LEMMA ExactWithin ==
  ASSUME NEW s \in Sessions, NEW owed \in Int, Owes(s) = owed,
         tenant.raw_token_spend_usd \in Int, tenant'.raw_token_spend_usd \in Int,
         (tenant.raw_token_spend_usd + owed) - 50 <= tenant'.raw_token_spend_usd,
         tenant'.raw_token_spend_usd <= (tenant.raw_token_spend_usd + owed) + 50
  PROVE  ExactFor(s)
BY DEF ExactFor, Abs, RawDigit

\* A commit moves the spend by the estimate if the copy was loaded under the
\* lock.
LEMMA CommitExact ==
  ASSUME Inv, NEW s \in Sessions, Commit(s)
  PROVE  /\ sess[s].at = "checked" /\ sess'[s].at = "admitted"
         /\ ReadUnderLock(s) /\ charged'[s] # charged[s] => ExactFor(s)
<1>1. sess[s].at = "checked"
  BY DEF Commit
<1>2. sess'[s].at = "admitted"
  <2>1. "admitted" \in Phases
    BY DEF Phases
  <2> QED
    BY <2>1, Shared, ClosedTyped DEF Commit
<1>3. charged[s] = 0 /\ charged'[s] = sess[s].estimate
  BY <1>1 DEF Commit, Inv, ChargedInv, BillingTypeOK
<1>4. ASSUME ReadUnderLock(s), charged'[s] # charged[s] PROVE ExactFor(s)
  <2> DEFINE copy == sess[s].tenant
  <2>1. tenant' = Written(tenant, copy)
    BY <1>3, <1>4 DEF Commit
  <2>2. copy.raw_token_spend_usd = tenant.raw_token_spend_usd + sess[s].estimate
    BY <1>1, <1>4 DEF ReadUnderLock, Inv, CopyInv
  <2>3. /\ InStep(copy, writes)
        /\ copy.raw_token_spend_usd \in Int /\ copy.billed_overage_usd \in Int
        /\ tenant.raw_token_spend_usd \in Int
    BY Shared DEF Tenant
  <2> HIDE DEF copy
  <2>4. /\ copy.raw_token_spend_usd - 50 <= tenant'.raw_token_spend_usd
        /\ tenant'.raw_token_spend_usd <= copy.raw_token_spend_usd + 50
        /\ tenant'.raw_token_spend_usd \in Int
    BY <2>1, <2>3, Shared, WrittenTyped
  <2>5. Owes(s) = sess[s].estimate /\ sess[s].estimate \in Int
    BY <1>3, Shared DEF Owes
  <2> QED
    BY <2>2, <2>3, <2>4, <2>5, ExactWithin
<1> QED
  BY <1>1, <1>2, <1>4

\* A correction moves the spend by the difference to the estimate, or not at
\* all.
LEMMA ReconcileExact ==
  ASSUME Inv, NEW s \in Sessions, Reconcile(s)
  PROVE  \/ UNCHANGED << tenant, charged >>
         \/ /\ sess[s].at = "admitted" /\ sess'[s].at = "reconciled"
            /\ ExactFor(s)
<1>1. SUFFICES ASSUME ~UNCHANGED << tenant, charged >>
               PROVE  /\ sess[s].at = "admitted" /\ sess'[s].at = "reconciled"
                      /\ ExactFor(s)
  OBVIOUS
<1>2. PICK actual \in Costs :
        /\ tenant' = Written(tenant, Charge(tenant, actual - sess[s].estimate))
        /\ charged' = [charged EXCEPT ![s] = actual]
        /\ Closed(s, "reconciled", 0)
  BY <1>1 DEF Reconcile
<1>3. sess[s].at = "admitted"
  BY DEF Reconcile
<1>4. sess'[s].at = "reconciled"
  <2>1. "reconciled" \in Phases /\ 0 \in Nat
    BY DEF Phases
  <2> QED
    BY <1>2, <2>1, ClosedTyped
<1>5. actual \in Nat /\ actual - sess[s].estimate \in Int
  BY Shared, BillingConstants
<1>6. Owes(s) = actual - sess[s].estimate
  BY <1>2, <1>3 DEF Owes, Inv, ChargedInv, BillingTypeOK
<1> DEFINE copy == Charge(tenant, actual - sess[s].estimate)
<1>7. /\ InStep(copy, writes)
      /\ copy.raw_token_spend_usd =
           tenant.raw_token_spend_usd + (actual - sess[s].estimate)
      /\ copy.raw_token_spend_usd \in Int /\ copy.billed_overage_usd \in Int
      /\ tenant.raw_token_spend_usd \in Int
  BY <1>5, Shared, ChargeTyped DEF Tenant
<1>8. tenant' = Written(tenant, copy)
  BY <1>2
<1> HIDE DEF copy
<1>9. /\ copy.raw_token_spend_usd - 50 <= tenant'.raw_token_spend_usd
      /\ tenant'.raw_token_spend_usd <= copy.raw_token_spend_usd + 50
      /\ tenant'.raw_token_spend_usd \in Int
  BY <1>7, <1>8, Shared, WrittenTyped
<1>10. ExactFor(s)
  BY <1>5, <1>6, <1>7, <1>9, ExactWithin
<1> QED
  BY <1>3, <1>4, <1>10

\* A session that reads the row under its lock accumulates exactly, up to half
\* of the column's last digit, however many executions overlap with it: what the docstring of
\* check_pilot_compute_cap promises, for its own select.
THEOREM ExactUnderLockHolds == Spec => ExactUnderLock
<1>1. Inv /\ [Next]_vars => [ExactStep]_vars
  <2> SUFFICES ASSUME Inv, Next PROVE ExactStep
    OBVIOUS
  <2>1. ASSUME NEW s \in Sessions, ReadUnderLock(s), charged'[s] # charged[s]
        PROVE  ExactFor(s)
    <3>1. Commit(s) \/ Reconcile(s)
      BY <2>1, WhoPays
    <3> QED
      BY <2>1, <3>1, CommitExact, ReconcileExact
  <2> QED
    BY <2>1 DEF ExactStep
<1> QED
  BY <1>1, BillingInvariant, PTL DEF Spec, ExactUnderLock, ExactStep, ExactFor

\* Nothing is spent for an execution that a gate rejected or that was lost
\* before its commit.
THEOREM OnlyAdmittedPayHolds == Spec => OnlyAdmittedPay
<1>1. Inv /\ [Next]_vars => [OnlyAdmittedStep]_vars
  <2> SUFFICES ASSUME Inv, Next, tenant'.raw_token_spend_usd # tenant.raw_token_spend_usd
               PROVE  OnlyAdmittedStep
    BY DEF OnlyAdmittedStep
  <2>1. PICK s \in Sessions : Commit(s) \/ Reconcile(s)
    BY WhoPays
  <2>2. sess[s].at \in {"checked", "admitted"} /\
        sess'[s].at \in {"admitted", "reconciled"} \ {sess[s].at}
    BY <2>1, CommitExact, ReconcileExact
  <2> QED
    BY <2>2 DEF OnlyAdmittedStep
<1> QED
  BY <1>1, BillingInvariant, PTL DEF Spec, OnlyAdmittedPay, OnlyAdmittedStep
=============================================================================
