----------------------------- MODULE AtLeastOnce -----------------------------
(***************************************************************************)
(* What a poller of core/ that takes items from a source promises: each    *)
(* item is delivered at least once, is settled at the source (so that it   *)
(* is not taken again) only after it was delivered, and is settled at last.*)
(* OutlookSync implements it; an item may be delivered again before it is  *)
(* settled, and not after.                                                 *)
(***************************************************************************)
CONSTANT Items

VARIABLES
  arrived,    \* items at the source
  delivered,  \* items that were handed on
  settled     \* items that the source offers no more

vars == << arrived, delivered, settled >>

Init == arrived = {} /\ delivered = {} /\ settled = {}

Arrive(i) ==
  /\ i \notin arrived
  /\ arrived' = arrived \cup {i}
  /\ UNCHANGED << delivered, settled >>

Deliver(i) ==
  /\ i \in arrived \ delivered
  /\ delivered' = delivered \cup {i}
  /\ UNCHANGED << arrived, settled >>

Settle(i) ==
  /\ i \in delivered
  /\ settled' = settled \cup {i}
  /\ UNCHANGED << arrived, delivered >>

Next == \E i \in Items : Arrive(i) \/ Deliver(i) \/ Settle(i)

Spec == Init /\ [][Next]_vars

FairSpec == Spec /\ \A i \in Items : WF_vars(Deliver(i)) /\ WF_vars(Settle(i))
=============================================================================
