---------------------------- MODULE EventDelivery ----------------------------
(***************************************************************************)
(* What the outbox promises of a domain event, once the transaction that   *)
(* enqueued it has committed: it is delivered at least once before it      *)
(* counts as published, it may be given up, and when it is settled one way *)
(* or the other nothing more happens to it.                                *)
(***************************************************************************)
EXTENDS Naturals

CONSTANT Events

VARIABLES
  stage,      \* stage[e]: absent, open, published or dead
  delivered   \* delivered[e]: how many times e was handed to the publisher

Stages == {"absent", "open", "published", "dead"}

Init ==
  /\ stage = [e \in Events |-> "absent"]
  /\ delivered = [e \in Events |-> 0]

Open(e) ==
  /\ stage[e] = "absent"
  /\ stage' = [stage EXCEPT ![e] = "open"]
  /\ UNCHANGED delivered

Deliver(e) ==
  /\ stage[e] = "open"
  /\ delivered' = [delivered EXCEPT ![e] = @ + 1]
  /\ UNCHANGED stage

Publish(e) ==
  /\ stage[e] = "open"
  /\ delivered[e] > 0
  /\ stage' = [stage EXCEPT ![e] = "published"]
  /\ UNCHANGED delivered

GiveUp(e) ==
  /\ stage[e] = "open"
  /\ stage' = [stage EXCEPT ![e] = "dead"]
  /\ UNCHANGED delivered

Next == \E e \in Events : Open(e) \/ Deliver(e) \/ Publish(e) \/ GiveUp(e)

Spec == Init /\ [][Next]_<<stage, delivered>>
=============================================================================
