---------------------------- MODULE MCMarketplace ----------------------------
(* The two Marketplace components, which share no state: a behaviour is one of *)
(* the usage emission or one of the landing page and the webhook.  Two rows    *)
(* and two emitters; one landing and two concurrent deliveries, one trial plan *)
(* and one paid.                                                               *)
EXTENDS Metering, Fulfillment

VARIABLE which   \* the component whose behaviour this is

TwoRows == 1..2
TwoPlans == {"trial", "paid"}
Trial == {"trial"}

MCInit ==
  /\ which \in {"metering", "fulfillment"}
  /\ MeteringInit
  /\ FulfillmentInit
  /\ which = "metering" => subscription.plan = "paid"

MCNext ==
  \/ which = "metering" /\ MeteringNext /\ UNCHANGED << which, fulfillmentVars >>
  \/ which = "fulfillment" /\ FulfillmentNext /\ UNCHANGED << which, meteringVars >>

MCSpec ==
  /\ MCInit
  /\ [][MCNext]_<< which, meteringVars, fulfillmentVars >>
  /\ MeteringFairness
  /\ FulfillmentFairness
=============================================================================
