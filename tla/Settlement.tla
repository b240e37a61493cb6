----------------------------- MODULE Settlement -----------------------------
(***************************************************************************)
(* What the books promise of money that moves somewhere else, at a payment *)
(* provider: an item (a charge, a transfer, a refund) is entered only      *)
(* after it has been settled there; then once, with all it is worth, and   *)
(* for good.  When it is entered, or that it ever is, is not promised.     *)
(***************************************************************************)
EXTENDS Integers

CONSTANTS Items, Worth      \* Worth[i]: what i moves in the books

VARIABLES
  settled,    \* the items that are settled outside
  booked,     \* the items that are entered in the books
  total       \* what the items have moved there

Init ==
  /\ settled \subseteq Items
  /\ booked = {}
  /\ total = 0

Settle(i) ==
  /\ i \notin settled
  /\ settled' = settled \cup {i}
  /\ UNCHANGED <<booked, total>>

Enter(i) ==
  /\ i \in settled \ booked
  /\ booked' = booked \cup {i}
  /\ total' = total + Worth[i]
  /\ UNCHANGED settled

Next == \E i \in Items : Settle(i) \/ Enter(i)

Spec == Init /\ [][Next]_<<settled, booked, total>>
=============================================================================
