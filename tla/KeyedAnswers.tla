---------------------------- MODULE KeyedAnswers ----------------------------
(***************************************************************************)
(* What an idempotency key promises to those who ask under it.  A request  *)
(* is worked on, or told what work under its key has answered to the same  *)
(* body, or turned away.  Work is done again under a key only after the    *)
(* promise has been given up for that key.                                 *)
(***************************************************************************)
CONSTANTS Keys, Requests, Bodies, Ids, Nothing

VARIABLES
  asked,    \* asked[r]: the key and the body r asks with, or Nothing
  given,    \* given[k]: the answers that work under k has given
  told,     \* told[r]: the key and the answer r was told without work
  waived    \* waived[k]: the promise is given up for k

Init ==
  /\ asked = [r \in Requests |-> Nothing]
  /\ given = [k \in Keys |-> {}]
  /\ told = [r \in Requests |-> Nothing]
  /\ waived = [k \in Keys |-> FALSE]

Leave(r) == asked' = [asked EXCEPT ![r] = Nothing]

Ask(r, k, body) ==
  /\ asked[r] = Nothing
  /\ asked' = [asked EXCEPT ![r] = [key |-> k, body |-> body]]
  /\ told' = [told EXCEPT ![r] = Nothing]
  /\ UNCHANGED <<given, waived>>

(* No two pieces of work answer under the same number.                     *)
IsNew(id) == \A k \in Keys : \A a \in given[k] : a.id # id

Work(r, id) ==
  /\ asked[r] # Nothing
  /\ IsNew(id)
  /\ waived[asked[r].key] \/ given[asked[r].key] = {}
  /\ given' = [given EXCEPT ![asked[r].key] =
                 @ \cup {[id |-> id, body |-> asked[r].body]}]
  /\ Leave(r)
  /\ UNCHANGED <<told, waived>>

Repeat(r, a) ==
  /\ asked[r] # Nothing
  /\ a \in given[asked[r].key]
  /\ a.body = asked[r].body
  /\ told' = [told EXCEPT ![r] = [key |-> asked[r].key, answer |-> a]]
  /\ Leave(r)
  /\ UNCHANGED <<given, waived>>

TurnAway(r) == Leave(r) /\ UNCHANGED <<given, told, waived>>

Waive(k) ==
  /\ waived' = [waived EXCEPT ![k] = TRUE]
  /\ UNCHANGED <<asked, given, told>>

Next ==
  \/ \E r \in Requests :
       \/ \E k \in Keys, body \in Bodies : Ask(r, k, body)
       \/ \E id \in Ids : Work(r, id)
       \/ \E id \in Ids, body \in Bodies : Repeat(r, [id |-> id, body |-> body])
       \/ TurnAway(r)
  \/ \E k \in Keys : Waive(k)

Spec == Init /\ [][Next]_<<asked, given, told, waived>>
=============================================================================
