---------------------------- MODULE OutboxProofs ----------------------------
(***************************************************************************)
(* Proofs about Outbox, for any number of events and overlapping runs and  *)
(* any settings of the service.                                            *)
(***************************************************************************)
EXTENDS Outbox, TLAPS, WellFoundedInduction

(* A run that is not idle has a current row, one of those it listed.       *)
LEMMA MinExists ==
  ASSUME NEW T \in SUBSET Nat, T # {}
  PROVE  \E x \in T : \A y \in T : x <= y
<1> DEFINE R == OpToRel(<, Nat)
<1>1. \A x, y \in Nat : <<y, x>> \in R <=> y < x
  BY DEF OpToRel
<1>2. IsWellFoundedOn(R, Nat)
  BY NatLessThanWellFounded
<1> HIDE DEF R
<1>3. PICK x \in T : \A y \in T : ~ (<<y, x>> \in R)
  BY <1>2, WFMin
<1>4. \A y \in T : ~ (y < x)
  BY <1>1, <1>3
<1>5. \A y \in T : x <= y
  BY <1>4
<1> QED
  BY <1>5

LEMMA CurrentIsListed ==
  ASSUME NEW w \in Workers, todo[w] \in SUBSET Listed, todo[w] # {}
  PROVE  Current(w) \in todo[w]
<1> DEFINE ids == {r.id : r \in todo[w]}
<1>1. ids \in SUBSET Nat /\ ids # {}
  BY DEF Listed, Events
<1>2. PICK i \in ids : \A j \in ids : i <= j
  BY <1>1, MinExists
<1>3. \E r \in todo[w] : \A s \in todo[w] : r.id <= s.id
  BY <1>2
<1> QED
  BY <1>3 DEF Current

LEMMA BusyRun ==
  ASSUME TypeOK, NEW w \in Workers, wpc[w] # "idle"
  PROVE  /\ Current(w) \in todo[w]
         /\ Current(w) \in Listed
         /\ Current(w).id \in Events
         /\ Current(w).status \in RowStatus
         /\ Current(w).attemptCount \in Nat
<1>1. todo[w] \in SUBSET Listed /\ todo[w] # {}
  BY DEF TypeOK
<1>2. Current(w) \in todo[w]
  BY <1>1, CurrentIsListed
<1> QED
  BY <1>1, <1>2 DEF Listed

(* Moving on to the next row keeps the types.                              *)
LEMMA AdvanceType ==
  ASSUME TypeOK, NEW w \in Workers, wpc[w] # "idle", Advance(w)
  PROVE  /\ wpc' \in [Workers ->
                {"idle", "claim", "publish", "published", "failed"}]
         /\ todo' \in [Workers -> SUBSET Listed]
         /\ \A v \in Workers : wpc'[v] = "idle" <=> todo'[v] = {}
         /\ wpc'[w] \in {"idle", "claim"}
         /\ todo'[w] \subseteq todo[w]
         /\ \A v \in Workers \ {w} : wpc'[v] = wpc[v] /\ todo'[v] = todo[v]
<1> DEFINE c == Current(w)
<1>1. c \in todo[w]
  BY BusyRun
<1>2. /\ todo' = [todo EXCEPT ![w] = todo[w] \ {c}]
      /\ wpc' = [wpc EXCEPT ![w] = IF todo[w] = {c} THEN "idle" ELSE "claim"]
  BY DEF Advance
<1> HIDE DEF c
<1>3. todo[w] \ {c} = {} <=> todo[w] = {c}
  BY <1>1
<1>4. /\ todo' \in [Workers -> SUBSET Listed]
      /\ todo'[w] = todo[w] \ {c}
      /\ \A v \in Workers \ {w} : todo'[v] = todo[v]
  BY <1>2 DEF TypeOK
<1>5. /\ wpc' \in [Workers ->
                {"idle", "claim", "publish", "published", "failed"}]
      /\ wpc'[w] = IF todo[w] = {c} THEN "idle" ELSE "claim"
      /\ \A v \in Workers \ {w} : wpc'[v] = wpc[v]
  BY <1>2 DEF TypeOK
<1>6. \A v \in Workers \ {w} : wpc'[v] = "idle" <=> todo'[v] = {}
  BY <1>4, <1>5 DEF TypeOK
<1>7. wpc'[w] = "idle" <=> todo'[w] = {}
  BY <1>3, <1>4, <1>5
<1> QED
  BY <1>4, <1>5, <1>6, <1>7

(* A run that only changes its pc keeps its list and its current row.      *)
LEMMA PcType ==
  ASSUME TypeOK, NEW w \in Workers, wpc[w] # "idle",
         NEW pc \in {"claim", "publish", "published", "failed"},
         wpc' = [wpc EXCEPT ![w] = pc], UNCHANGED todo
  PROVE  /\ wpc' \in [Workers ->
                {"idle", "claim", "publish", "published", "failed"}]
         /\ \A v \in Workers : wpc'[v] = "idle" <=> todo'[v] = {}
         /\ wpc'[w] = pc
         /\ \A v \in Workers \ {w} : wpc'[v] = wpc[v]
  BY DEF TypeOK

LEMMA RowUpdate ==
  ASSUME TypeOK, NEW e \in Events, NEW s \in RowStatus, NEW n \in Nat,
         row' = [row EXCEPT ![e] = [status |-> s, attemptCount |-> n]]
  PROVE  /\ row' \in [Events -> Rows]
         /\ row'[e] = [status |-> s, attemptCount |-> n]
         /\ \A f \in Events \ {e} : row'[f] = row[f]
  BY DEF TypeOK, Rows

LEMMA TypeInit ==
  ASSUME Init PROVE TypeOK
  BY OutboxAssumption DEF Init, TypeOK, Rows, RowStatus

LEMMA TypeTime ==
  ASSUME TypeOK, NEW e \in Events,
         Enqueue(e) \/ BackoffElapses(e) \/ LeaseLapses(e)
  PROVE  TypeOK'
<1>1. CASE Enqueue(e)
  <2>1. row' \in [Events -> Rows]
    BY <1>1 DEF Enqueue, TypeOK, Rows, RowStatus
  <2>2. due' \in [Events -> BOOLEAN]
    BY <1>1 DEF Enqueue, TypeOK
  <2> QED
    BY <1>1, <2>1, <2>2 DEF Enqueue, TypeOK, bounds
<1>2. CASE BackoffElapses(e)
  <2>1. due' \in [Events -> BOOLEAN]
    BY <1>2 DEF BackoffElapses, TypeOK
  <2> QED
    BY <1>2, <2>1 DEF BackoffElapses, TypeOK, bounds
<1>3. CASE LeaseLapses(e)
  <2>1. due' \in [Events -> BOOLEAN]
    BY <1>3 DEF LeaseLapses, TypeOK
  <2>2. overtakes' \in 0..MaxOvertakes
    BY <1>3, OutboxAssumption DEF LeaseLapses, TypeOK
  <2> QED
    BY <1>3, <2>1, <2>2 DEF LeaseLapses, TypeOK
<1> QED
  BY <1>1, <1>2, <1>3

LEMMA TypeRun ==
  ASSUME TypeOK, NEW w \in Workers, RunStep(w)
  PROVE  TypeOK'
<1>1. CASE List(w)
  <2> DEFINE taken == Oldest({e \in Events : Listable(e)})
             now == {[id |-> e, status |-> row[e].status,
                      attemptCount |-> row[e].attemptCount] : e \in taken}
  <2>1. taken \in SUBSET Events /\ taken # {}
    BY <1>1 DEF List, Oldest
  <2>2. /\ wpc[w] = "idle"
        /\ todo' = [todo EXCEPT ![w] = now]
        /\ wpc' = [wpc EXCEPT ![w] = "claim"]
        /\ UNCHANGED <<row, due, delivered, bounds>>
    BY <1>1 DEF List
  <2> HIDE DEF taken
  <2>3. now \in SUBSET Listed /\ now # {}
    <3>1. \A e \in Events : row[e].status \in RowStatus
                            /\ row[e].attemptCount \in Nat
      BY DEF TypeOK, Rows
    <3>2. \A e \in Events : [id |-> e, status |-> row[e].status,
                             attemptCount |-> row[e].attemptCount] \in Listed
      BY <3>1 DEF Listed
    <3> QED
      BY <2>1, <3>2
  <2> HIDE DEF now
  <2>4. /\ todo' \in [Workers -> SUBSET Listed]
        /\ todo'[w] = now
        /\ \A v \in Workers \ {w} : todo'[v] = todo[v]
    BY <2>2, <2>3 DEF TypeOK
  <2>5. /\ wpc' \in [Workers ->
                 {"idle", "claim", "publish", "published", "failed"}]
        /\ wpc'[w] = "claim"
        /\ \A v \in Workers \ {w} : wpc'[v] = wpc[v]
    BY <2>2 DEF TypeOK
  <2>6. \A v \in Workers : wpc'[v] = "idle" <=> todo'[v] = {}
    BY <2>3, <2>4, <2>5 DEF TypeOK
  <2> QED
    BY <2>2, <2>4, <2>5, <2>6 DEF TypeOK, bounds
<1>2. CASE Claim(w)
  <2> DEFINE c == Current(w)
  <2>1. /\ wpc[w] # "idle" /\ c.id \in Events /\ c.attemptCount + 1 \in Nat
        /\ "PROCESSING" \in RowStatus
    BY <1>2, BusyRun DEF Claim, RowStatus
  <2>2. CASE UnchangedSince(w)
    <3>1. row' \in [Events -> Rows]
      BY <1>2, <2>1, <2>2, RowUpdate DEF Claim
    <3>2. due' \in [Events -> BOOLEAN]
      BY <1>2, <2>1, <2>2 DEF Claim, TypeOK
    <3> QED
      BY <1>2, <2>1, <2>2, <3>1, <3>2, PcType DEF Claim, TypeOK, bounds
  <2>3. CASE ~UnchangedSince(w)
    BY <1>2, <2>1, <2>3, AdvanceType DEF Claim, TypeOK, bounds
  <2> QED
    BY <2>2, <2>3
<1>3. CASE PublishSucceeds(w)
  <2>1. Current(w).id \in Events
    BY <1>3, BusyRun DEF PublishSucceeds
  <2>2. delivered' \in [Events -> Nat]
    BY <1>3, <2>1 DEF PublishSucceeds, TypeOK
  <2> QED
    BY <1>3, <2>2, PcType DEF PublishSucceeds, TypeOK, bounds
<1>4. CASE PublishFails(w)
  BY <1>4, PcType DEF PublishFails, TypeOK, bounds
<1>5. CASE MarkPublished(w)
  <2>1. Current(w).id \in Events /\ "PUBLISHED" \in RowStatus
    BY <1>5, BusyRun DEF MarkPublished, RowStatus
  <2>2. row' \in [Events -> Rows]
    BY <1>5, <2>1 DEF MarkPublished, TypeOK, Rows
  <2> QED
    BY <1>5, <2>2, AdvanceType DEF MarkPublished, TypeOK, bounds
<1>6. CASE MarkPublishedThrows(w)
  <2>1. faults' \in 0..MaxFaults
    BY <1>6, OutboxAssumption DEF MarkPublishedThrows, TypeOK
  <2> QED
    BY <1>6, <2>1, PcType DEF MarkPublishedThrows, TypeOK
<1>7. CASE MarkFailed(w)
  <2> DEFINE attempt == Current(w).attemptCount + 1
             status == IF Exhausted(attempt) THEN "DEAD_LETTER" ELSE "FAILED"
  <2>1. /\ wpc[w] # "idle" /\ Current(w).id \in Events
        /\ attempt \in Nat /\ status \in RowStatus
    BY <1>7, BusyRun DEF MarkFailed, RowStatus
  <2>2. row' = [row EXCEPT ![Current(w).id] =
                  [status |-> status, attemptCount |-> attempt]]
    BY <1>7 DEF MarkFailed
  <2> HIDE DEF attempt, status
  <2>3. row' \in [Events -> Rows]
    BY <2>1, <2>2, RowUpdate
  <2>4. due' \in [Events -> BOOLEAN]
    BY <1>7, <2>1 DEF MarkFailed, TypeOK
  <2> QED
    BY <1>7, <2>1, <2>3, <2>4, AdvanceType DEF MarkFailed, TypeOK, bounds
<1>8. CASE RunIsCut(w)
  <2>1. crashes' \in 0..MaxCrashes
    BY <1>8, OutboxAssumption DEF RunIsCut, TypeOK
  <2> QED
    BY <1>8, <2>1 DEF RunIsCut, TypeOK
<1> QED
  BY <1>1, <1>2, <1>3, <1>4, <1>5, <1>6, <1>7, <1>8 DEF RunStep

(* Every row and every run stays within its type; a run is idle exactly    *)
(* when it has nothing left to do.                                         *)
THEOREM TypeInvariant == Spec => []TypeOK
<1>1. TypeOK /\ [Next]_vars => TypeOK'
  BY TypeTime, TypeRun DEF Next, vars, TypeOK
<1> QED
  BY <1>1, TypeInit, PTL DEF Spec
-----------------------------------------------------------------------------
(* Published events have been delivered.                                   *)

Delivered == MarkingIsDelivered /\ PublishedIsDelivered

(* A run whose list does not change keeps its current row.                 *)
LEMMA CurrentKept ==
  ASSUME NEW w \in Workers, todo'[w] = todo[w]
  PROVE  Current(w)' = Current(w)
  BY DEF Current

(* Only a run that has just delivered the event starts to mark it.         *)
LEMMA DeliveredStep ==
  ASSUME TypeOK, Delivered, [Next]_vars
  PROVE  Delivered'
<1> USE DEF Delivered, MarkingIsDelivered, PublishedIsDelivered
<1>1. ASSUME NEW w \in Workers, \A v \in Workers \ {w} :
               wpc'[v] = wpc[v] /\ todo'[v] = todo[v],
             wpc'[w] # "published",
             UNCHANGED delivered
      PROVE  MarkingIsDelivered'
  BY <1>1, CurrentKept
<1>2. CASE UNCHANGED vars
  BY <1>2, CurrentKept DEF vars
<1>3. ASSUME NEW e \in Events,
             Enqueue(e) \/ BackoffElapses(e) \/ LeaseLapses(e)
      PROVE  Delivered'
  <2>1. UNCHANGED <<wpc, todo, delivered>>
    BY <1>3 DEF Enqueue, BackoffElapses, LeaseLapses
  <2>2. \A f \in Events : row'[f].status = "PUBLISHED" => row'[f] = row[f]
    BY <1>3 DEF Enqueue, BackoffElapses, LeaseLapses, TypeOK, Rows
  <2> QED
    BY <2>1, <2>2, CurrentKept
<1>4. ASSUME NEW w \in Workers, List(w) PROVE Delivered'
  BY <1>1, <1>4 DEF List, TypeOK
<1>5. ASSUME NEW w \in Workers, Claim(w) PROVE Delivered'
  <2>1. \A f \in Events : row'[f].status = "PUBLISHED" => row'[f] = row[f]
    BY <1>5, BusyRun DEF Claim, TypeOK, Rows
  <2>2. CASE UnchangedSince(w)
    BY <1>1, <1>5, <2>1, <2>2, PcType DEF Claim
  <2>3. CASE ~UnchangedSince(w)
    BY <1>1, <1>5, <2>1, <2>3, AdvanceType DEF Claim
  <2> QED
    BY <2>2, <2>3
<1>6. ASSUME NEW w \in Workers, PublishSucceeds(w) PROVE Delivered'
  <2>1. /\ Current(w).id \in Events
        /\ \A f \in Events : delivered'[f] >= delivered[f]
        /\ delivered'[Current(w).id] > 0
    BY <1>6, BusyRun DEF PublishSucceeds, TypeOK
  <2>2. \A v \in Workers : Current(v)' = Current(v)
    BY <1>6, CurrentKept DEF PublishSucceeds
  <2>3. \A v \in Workers : wpc[v] = "published" => Current(v).id \in Events
    BY BusyRun
  <2>4. \A v \in Workers \ {w} : wpc'[v] = wpc[v]
    BY <1>6 DEF PublishSucceeds, TypeOK
  <2>5. row' = row
    BY <1>6 DEF PublishSucceeds
  <2>6. \A f \in Events : delivered[f] \in Nat /\ delivered'[f] \in Nat
    BY <1>6, <2>1 DEF PublishSucceeds, TypeOK
  <2>7. MarkingIsDelivered'
    BY <2>1, <2>2, <2>3, <2>4, <2>6
  <2>8. PublishedIsDelivered'
    BY <2>1, <2>5, <2>6
  <2> QED
    BY <2>7, <2>8
<1>7. ASSUME NEW w \in Workers, PublishFails(w) \/ MarkPublishedThrows(w)
      PROVE  Delivered'
  BY <1>1, <1>7, PcType DEF PublishFails, MarkPublishedThrows
<1>8. ASSUME NEW w \in Workers, MarkPublished(w) PROVE Delivered'
  <2>1. /\ delivered[Current(w).id] > 0
        /\ UNCHANGED delivered
        /\ \A f \in Events : f # Current(w).id => row'[f] = row[f]
    BY <1>8 DEF MarkPublished, TypeOK
  <2>2. MarkingIsDelivered'
    BY <1>1, <1>8, AdvanceType DEF MarkPublished
  <2> QED
    BY <2>1, <2>2
<1>9. ASSUME NEW w \in Workers, MarkFailed(w) PROVE Delivered'
  <2>1. \A f \in Events : row'[f].status = "PUBLISHED" => row'[f] = row[f]
    BY <1>9, BusyRun DEF MarkFailed, TypeOK, Rows
  <2>2. MarkingIsDelivered'
    BY <1>1, <1>9, AdvanceType DEF MarkFailed
  <2> QED
    BY <1>9, <2>1, <2>2 DEF MarkFailed
<1>10. ASSUME NEW w \in Workers, RunIsCut(w) PROVE Delivered'
  BY <1>1, <1>10 DEF RunIsCut, TypeOK
<1> QED
  BY <1>2, <1>3, <1>4, <1>5, <1>6, <1>7, <1>8, <1>9, <1>10 DEF Next, RunStep

(* A row is PUBLISHED only when its event has been handed to the publisher *)
(* successfully, even when leases lapse under slow runs.                   *)
THEOREM PublishedWereDelivered == Spec => []PublishedIsDelivered
<1>1. Init => Delivered
  BY DEF Init, Delivered, MarkingIsDelivered, PublishedIsDelivered
<1>2. TypeOK /\ Delivered /\ [Next]_vars => Delivered'
  BY DeliveredStep
<1>3. Delivered => PublishedIsDelivered
  BY DEF Delivered
<1> QED
  BY <1>1, <1>2, <1>3, TypeInvariant, PTL DEF Spec
-----------------------------------------------------------------------------
(* Leases, when none lapses under a run at work.                           *)

Leased == OneRunPerRow /\ WorkIsLeased /\ ListsAreOld

LEMMA ListedIds ==
  ASSUME TypeOK
  PROVE  \A w \in Workers : \A r \in todo[w] :
           r.id \in Events /\ r.attemptCount \in Nat
  BY DEF TypeOK, Listed

(* A step that changes no row, starts no work and lists nothing.           *)
LEMMA LeasedQuiet ==
  ASSUME TypeOK, Leased, UNCHANGED <<row, due>>,
         \A v \in Workers : todo'[v] \subseteq todo[v],
         \A v \in Workers, f \in Events :
           Working(v, f)' => Working(v, f) /\ Current(v)' = Current(v)
  PROVE  Leased'
<1> USE DEF Leased
<1>1. OneRunPerRow'
  BY DEF OneRunPerRow
<1>2. WorkIsLeased'
  BY DEF WorkIsLeased
<1>3. ListsAreOld'
  BY ListedIds DEF ListsAreOld
<1> QED
  BY <1>1, <1>2, <1>3

(* A step that changes one row, on which nobody works afterwards.          *)
LEMMA LeasedReleased ==
  ASSUME TypeOK, Leased, NEW e \in Events,
         \A f \in Events \ {e} : row'[f] = row[f] /\ due'[f] = due[f],
         row[e].attemptCount \in Nat,
         row'[e].attemptCount = row[e].attemptCount,
         \A v \in Workers : todo'[v] \subseteq todo[v],
         \A v \in Workers, f \in Events :
           Working(v, f)' =>
             f # e /\ Working(v, f) /\ Current(v)' = Current(v)
  PROVE  Leased'
<1> USE DEF Leased
<1>1. OneRunPerRow'
  BY DEF OneRunPerRow
<1>2. WorkIsLeased'
  BY DEF WorkIsLeased
<1>3. ListsAreOld'
  BY ListedIds DEF ListsAreOld
<1> QED
  BY <1>1, <1>2, <1>3

(* Runs whose pc and list stay as they are go on working as before.        *)
LEMMA WorkingKept ==
  ASSUME NEW w \in Workers,
         \A v \in Workers \ {w} : wpc'[v] = wpc[v] /\ todo'[v] = todo[v]
  PROVE  \A v \in Workers \ {w}, f \in Events :
           (Working(v, f)' <=> Working(v, f)) /\ Current(v)' = Current(v)
  BY CurrentKept DEF Working

(* Nobody works on a row that is not PROCESSING.                           *)
LEMMA NoWork ==
  ASSUME Leased, NEW e \in Events,
         row[e].status # "PROCESSING" \/ due[e]
  PROVE  \A v \in Workers : ~Working(v, e)
<1> SUFFICES ASSUME NEW v \in Workers, Working(v, e) PROVE FALSE
  OBVIOUS
<1>1. /\ row[e] = [status |-> "PROCESSING",
                  attemptCount |-> Current(v).attemptCount + 1]
      /\ ~due[e]
  BY Zenon DEF Leased, WorkIsLeased
<1>2. row[e].status = "PROCESSING"
  BY <1>1
<1> QED
  BY <1>1, <1>2, Zenon

LEMMA LeasedTime ==
  ASSUME MaxOvertakes = 0, TypeOK, Leased, NEW e \in Events,
         Enqueue(e) \/ BackoffElapses(e) \/ LeaseLapses(e)
  PROVE  Leased'
<1>1. UNCHANGED <<wpc, todo>>
  BY DEF Enqueue, BackoffElapses, LeaseLapses
<1>2. \A v \in Workers, f \in Events :
        (Working(v, f)' <=> Working(v, f)) /\ Current(v)' = Current(v)
  BY <1>1, CurrentKept DEF Working
<1>3. \A f \in Events \ {e} : row'[f] = row[f] /\ due'[f] = due[f]
  BY DEF Enqueue, BackoffElapses, LeaseLapses, TypeOK
<1>4. /\ row[e].attemptCount \in Nat
      /\ row'[e].attemptCount = row[e].attemptCount
  BY DEF Enqueue, BackoffElapses, LeaseLapses, TypeOK, Rows
<1>5. \A v \in Workers : ~Working(v, e)
  <2>1. CASE Enqueue(e)
    BY <2>1, NoWork DEF Enqueue
  <2>2. CASE BackoffElapses(e)
    BY <2>2, NoWork DEF BackoffElapses
  <2>3. CASE LeaseLapses(e)
    BY <2>3 DEF LeaseLapses, TypeOK
  <2> QED
    BY <2>1, <2>2, <2>3
<1> QED
  <2>1. \A v \in Workers : todo'[v] \subseteq todo[v]
    BY <1>1
  <2>2. \A v \in Workers, f \in Events :
          Working(v, f)' =>
            f # e /\ Working(v, f) /\ Current(v)' = Current(v)
    BY <1>2, <1>5
  <2> QED
    BY <1>3, <1>4, <2>1, <2>2, LeasedReleased

(* A run at work holds the only lease on its current row.                  *)
LEMMA HoldsLease ==
  ASSUME TypeOK, Leased, NEW w \in Workers,
         wpc[w] \in {"publish", "published", "failed"}
  PROVE  /\ row[Current(w).id] = [status |-> "PROCESSING",
                                  attemptCount |-> Current(w).attemptCount + 1]
         /\ row[Current(w).id].status = "PROCESSING"
         /\ \A v \in Workers \ {w} : ~Working(v, Current(w).id)
<1>1. Current(w).id \in Events
  BY BusyRun
<1>2. Working(w, Current(w).id)
  BY DEF Working
<1> QED
  BY <1>1, <1>2 DEF Leased, WorkIsLeased, OneRunPerRow

LEMMA LeasedClaim ==
  ASSUME TypeOK, Leased, NEW w \in Workers, Claim(w), UnchangedSince(w)
  PROVE  Leased'
<1> DEFINE c == Current(w)
           e == c.id
<1>1. /\ wpc[w] = "claim" /\ c \in todo[w] /\ e \in Events
      /\ c.attemptCount \in Nat
      /\ row[e] = [status |-> c.status, attemptCount |-> c.attemptCount]
  BY BusyRun DEF Claim, UnchangedSince
<1>2. /\ row' = [row EXCEPT ![e] = [status |-> "PROCESSING",
                                    attemptCount |-> c.attemptCount + 1]]
      /\ due' = [due EXCEPT ![e] = FALSE]
      /\ wpc' = [wpc EXCEPT ![w] = "publish"]
      /\ UNCHANGED todo
  BY DEF Claim
<1>3. /\ row'[e] = [status |-> "PROCESSING",
                    attemptCount |-> c.attemptCount + 1]
      /\ ~due'[e]
      /\ \A f \in Events \ {e} : row'[f] = row[f] /\ due'[f] = due[f]
  BY <1>1, <1>2 DEF TypeOK
<1>4. /\ wpc'[w] = "publish"
      /\ \A v \in Workers \ {w} : wpc'[v] = wpc[v]
  BY <1>2 DEF TypeOK
<1>5. \A v \in Workers : Current(v)' = Current(v)
  BY <1>2, CurrentKept
<1>6. \A v \in Workers \ {w}, f \in Events : Working(v, f)' <=> Working(v, f)
  BY <1>4, <1>5 DEF Working
<1>7. \A f \in Events : ~Working(w, f) /\ (Working(w, f)' <=> f = e)
  BY <1>1, <1>4, <1>5 DEF Working
<1>8. \A v \in Workers : ~Working(v, e)
  <2>1. CASE c.status = "PROCESSING"
    BY <1>1, <2>1 DEF Leased, ListsAreOld
  <2>2. CASE c.status # "PROCESSING"
    BY <1>1, <2>2, NoWork
  <2> QED
    BY <2>1, <2>2
<1>9. OneRunPerRow'
  BY <1>6, <1>7, <1>8 DEF Leased, OneRunPerRow
<1>10. WorkIsLeased'
  <2> SUFFICES ASSUME NEW v \in Workers, NEW f \in Events, Working(v, f)'
               PROVE  /\ row'[f] = [status |-> "PROCESSING", attemptCount |->
                                      Current(v)'.attemptCount + 1]
                      /\ ~due'[f]
    BY DEF WorkIsLeased
  <2>1. CASE v = w
    BY <1>3, <1>5, <1>7, <2>1
  <2>2. CASE v # w
    <3>1. f # e /\ Working(v, f)
      BY <1>6, <1>8, <2>2
    <3>2. /\ row[f] = [status |-> "PROCESSING",
                       attemptCount |-> Current(v).attemptCount + 1]
          /\ ~due[f]
      BY <3>1, Zenon DEF Leased, WorkIsLeased
    <3> QED
      BY <1>3, <1>5, <3>1, <3>2
  <2> QED
    BY <2>1, <2>2
<1> HIDE DEF c, e
<1>11. ListsAreOld'
  <2> SUFFICES ASSUME NEW v \in Workers, NEW r \in todo[v]
               PROVE  /\ r.status \in {"PENDING", "FAILED", "PROCESSING"}
                      /\ r.attemptCount <= row'[r.id].attemptCount
                      /\ (r.status = "PROCESSING"
                          /\ row'[r.id] = [status |-> "PROCESSING",
                                           attemptCount |-> r.attemptCount])
                           => \A u \in Workers : ~Working(u, r.id)'
    BY <1>2 DEF ListsAreOld
  <2>1. r.id \in Events /\ r.attemptCount \in Nat
    BY ListedIds
  <2>2. /\ r.status \in {"PENDING", "FAILED", "PROCESSING"}
        /\ r.attemptCount <= row[r.id].attemptCount
        /\ (r.status = "PROCESSING"
            /\ row[r.id] = [status |-> "PROCESSING",
                            attemptCount |-> r.attemptCount])
             => \A u \in Workers : ~Working(u, r.id)
    BY DEF Leased, ListsAreOld
  <2>3. CASE r.id = e
    <3>1. r.attemptCount <= c.attemptCount
      BY <1>1, <2>2, <2>3
    <3>2. row'[r.id].attemptCount = c.attemptCount + 1
      BY <1>3, <2>3
    <3> QED
      BY <1>1, <2>1, <2>2, <3>1, <3>2
  <2>4. CASE r.id # e
    BY <1>3, <1>6, <1>7, <2>1, <2>2, <2>4
  <2> QED
    BY <2>3, <2>4
<1> QED
  BY <1>9, <1>10, <1>11 DEF Leased

LEMMA LeasedList ==
  ASSUME TypeOK, Leased, NEW w \in Workers, List(w)
  PROVE  Leased'
<1> DEFINE taken == Oldest({e \in Events : Listable(e)})
           now == {[id |-> e, status |-> row[e].status,
                    attemptCount |-> row[e].attemptCount] : e \in taken}
<1>1. /\ wpc[w] = "idle"
      /\ todo' = [todo EXCEPT ![w] = now]
      /\ wpc' = [wpc EXCEPT ![w] = "claim"]
      /\ UNCHANGED <<row, due>>
  BY DEF List
<1>2. \A r \in now : /\ r.id \in Events /\ Listable(r.id)
                     /\ r.status = row[r.id].status
                     /\ r.attemptCount = row[r.id].attemptCount
  <2>1. \A e \in taken : e \in Events /\ Listable(e)
    BY DEF Oldest
  <2> HIDE DEF taken
  <2> QED
    BY <2>1
<1> HIDE DEF taken, now
<1>3. /\ wpc'[w] = "claim" /\ todo'[w] = now
      /\ \A v \in Workers \ {w} : wpc'[v] = wpc[v] /\ todo'[v] = todo[v]
  BY <1>1 DEF TypeOK
<1>4. \A v \in Workers, f \in Events :
        Working(v, f)' =>
          v # w /\ Working(v, f) /\ Current(v)' = Current(v)
  BY <1>3, WorkingKept DEF Working
<1>5. OneRunPerRow'
  BY <1>4 DEF Leased, OneRunPerRow
<1>6. WorkIsLeased'
  <2> SUFFICES ASSUME NEW v \in Workers, NEW f \in Events, Working(v, f)'
               PROVE  /\ row'[f] = [status |-> "PROCESSING", attemptCount |->
                                      Current(v)'.attemptCount + 1]
                      /\ ~due'[f]
    BY DEF WorkIsLeased
  <2>1. Working(v, f) /\ Current(v)' = Current(v)
    BY <1>4
  <2>2. /\ row[f] = [status |-> "PROCESSING",
                     attemptCount |-> Current(v).attemptCount + 1]
        /\ ~due[f]
    BY <2>1, Zenon DEF Leased, WorkIsLeased
  <2> QED
    BY <1>1, <2>1, <2>2
<1>7. \A r \in now :
        /\ r.status \in {"PENDING", "FAILED", "PROCESSING"}
        /\ r.attemptCount <= row[r.id].attemptCount
        /\ \A v \in Workers : ~Working(v, r.id)
  <2> SUFFICES ASSUME NEW r \in now
               PROVE  /\ r.status \in {"PENDING", "FAILED", "PROCESSING"}
                      /\ r.attemptCount <= row[r.id].attemptCount
                      /\ \A v \in Workers : ~Working(v, r.id)
    OBVIOUS
  <2>1. /\ row[r.id].status \in {"PENDING", "FAILED", "PROCESSING"}
        /\ due[r.id]
    BY <1>2 DEF Listable
  <2>2. row[r.id].attemptCount \in Nat
    BY <1>2 DEF TypeOK, Rows
  <2> QED
    BY <1>2, <2>1, <2>2, NoWork
<1>8. ListsAreOld'
  <2> SUFFICES ASSUME NEW v \in Workers, NEW r \in todo'[v]
               PROVE  /\ r.status \in {"PENDING", "FAILED", "PROCESSING"}
                      /\ r.attemptCount <= row[r.id].attemptCount
                      /\ (r.status = "PROCESSING"
                          /\ row[r.id] = [status |-> "PROCESSING",
                                          attemptCount |-> r.attemptCount])
                           => \A u \in Workers : ~Working(u, r.id)'
    BY <1>1 DEF ListsAreOld
  <2>1. CASE v = w
    BY <1>2, <1>3, <1>4, <1>7, <2>1
  <2>2. CASE v # w
    <3>1. r \in todo[v] /\ r.id \in Events
      BY <1>3, <2>2, ListedIds
    <3> QED
      BY <1>4, <3>1 DEF Leased, ListsAreOld
  <2> QED
    BY <2>1, <2>2
<1> QED
  BY <1>5, <1>6, <1>8 DEF Leased

LEMMA LeasedRun ==
  ASSUME TypeOK, Leased, NEW w \in Workers, RunStep(w)
  PROVE  Leased'
<1>1. ASSUME wpc[w] # "idle", Advance(w)
      PROVE  /\ \A v \in Workers : todo'[v] \subseteq todo[v]
             /\ \A v \in Workers, f \in Events :
                  Working(v, f)' =>
                    v # w /\ Working(v, f) /\ Current(v)' = Current(v)
  <2>1. /\ wpc'[w] \in {"idle", "claim"}
        /\ todo'[w] \subseteq todo[w]
        /\ \A v \in Workers \ {w} : wpc'[v] = wpc[v] /\ todo'[v] = todo[v]
    BY <1>1, AdvanceType
  <2> QED
    BY <2>1, WorkingKept DEF Working
<1>2. ASSUME wpc[w] \in {"publish", "published", "failed"},
             NEW pc \in {"published", "failed"},
             wpc' = [wpc EXCEPT ![w] = pc], UNCHANGED <<row, due, todo>>
      PROVE  Leased'
  <2>1. \A v \in Workers, f \in Events :
          Working(v, f)' => Working(v, f) /\ Current(v)' = Current(v)
    BY <1>2, CurrentKept DEF Working, TypeOK
  <2> QED
    BY <1>2, <2>1, LeasedQuiet
<1>3. ASSUME wpc[w] \in {"published", "failed"}, Advance(w),
             \A f \in Events \ {Current(w).id} :
               row'[f] = row[f] /\ due'[f] = due[f],
             row'[Current(w).id].attemptCount = Current(w).attemptCount + 1
      PROVE  Leased'
  <2> DEFINE e == Current(w).id
  <2>1. e \in Events /\ Current(w).attemptCount \in Nat
    BY <1>3, BusyRun
  <2>2. /\ row[e].attemptCount = Current(w).attemptCount + 1
        /\ \A v \in Workers \ {w} : ~Working(v, e)
    <3>1. wpc[w] \in {"publish", "published", "failed"}
      BY <1>3
    <3>2. /\ row[Current(w).id]
               = [status |-> "PROCESSING",
                  attemptCount |-> Current(w).attemptCount + 1]
          /\ \A v \in Workers \ {w} : ~Working(v, Current(w).id)
      BY <3>1, HoldsLease
    <3> QED
      BY <3>2
  <2>3. \A v \in Workers, f \in Events :
          Working(v, f)' =>
            f # e /\ Working(v, f) /\ Current(v)' = Current(v)
    BY <1>1, <1>3, <2>2
  <2>4. \A v \in Workers : todo'[v] \subseteq todo[v]
    BY <1>1, <1>3
  <2>5. /\ row[e].attemptCount \in Nat
        /\ row'[e].attemptCount = row[e].attemptCount
    BY <1>3, <2>1, <2>2
  <2>6. \A f \in Events \ {e} : row'[f] = row[f] /\ due'[f] = due[f]
    BY <1>3
  <2> HIDE DEF e
  <2> QED
    BY <2>1, <2>3, <2>4, <2>5, <2>6, LeasedReleased
<1>4. CASE List(w)
  BY <1>4, LeasedList
<1>5. CASE Claim(w)
  <2>1. CASE UnchangedSince(w)
    BY <1>5, <2>1, LeasedClaim
  <2>2. CASE ~UnchangedSince(w)
    BY <1>1, <1>5, <2>2, LeasedQuiet DEF Claim
  <2> QED
    BY <2>1, <2>2
<1>6. CASE PublishSucceeds(w)
  BY <1>2, <1>6 DEF PublishSucceeds
<1>7. CASE PublishFails(w)
  BY <1>2, <1>7 DEF PublishFails
<1>8. CASE MarkPublished(w)
  <2>1. Current(w).id \in Events /\ Current(w).attemptCount \in Nat
    BY <1>8, BusyRun DEF MarkPublished
  <2>2. row[Current(w).id] = [status |-> "PROCESSING",
                              attemptCount |-> Current(w).attemptCount + 1]
    BY <1>8, HoldsLease DEF MarkPublished
  <2>3. row' = [row EXCEPT ![Current(w).id].status = "PUBLISHED"]
    BY <1>8, <2>2 DEF MarkPublished
  <2>4. /\ \A f \in Events \ {Current(w).id} : row'[f] = row[f]
        /\ row'[Current(w).id].attemptCount = Current(w).attemptCount + 1
    BY <2>1, <2>2, <2>3 DEF TypeOK, Rows
  <2> QED
    BY <1>3, <1>8, <2>4 DEF MarkPublished
<1>9. CASE MarkPublishedThrows(w)
  BY <1>2, <1>9 DEF MarkPublishedThrows
<1>10. CASE MarkFailed(w)
  <2>1. Current(w).id \in Events
    BY <1>10, BusyRun DEF MarkFailed
  <2>2. /\ \A f \in Events \ {Current(w).id} :
             row'[f] = row[f] /\ due'[f] = due[f]
        /\ row'[Current(w).id].attemptCount = Current(w).attemptCount + 1
    BY <1>10, <2>1 DEF MarkFailed, TypeOK
  <2> QED
    BY <1>3, <1>10, <2>2 DEF MarkFailed
<1>11. CASE RunIsCut(w)
  <2>1. /\ wpc'[w] = "idle" /\ todo'[w] = {}
        /\ \A v \in Workers \ {w} : wpc'[v] = wpc[v] /\ todo'[v] = todo[v]
    BY <1>11 DEF RunIsCut, TypeOK
  <2>2. \A v \in Workers, f \in Events :
          Working(v, f)' => Working(v, f) /\ Current(v)' = Current(v)
    BY <2>1, WorkingKept DEF Working
  <2> QED
    BY <1>11, <2>1, <2>2, LeasedQuiet DEF RunIsCut
<1> QED
  BY <1>4, <1>5, <1>6, <1>7, <1>8, <1>9, <1>10, <1>11 DEF RunStep

LEMMA LeasedStep ==
  ASSUME MaxOvertakes = 0, TypeOK, Leased, [Next]_vars
  PROVE  Leased'
<1>1. CASE UNCHANGED vars
  <2>1. \A v \in Workers, f \in Events :
          Working(v, f)' => Working(v, f) /\ Current(v)' = Current(v)
    BY <1>1, CurrentKept DEF vars, Working
  <2> QED
    BY <1>1, <2>1, LeasedQuiet DEF vars
<1> QED
  BY <1>1, LeasedTime, LeasedRun DEF Next

(* As long as no lease lapses under a run at work, no two runs ever work   *)
(* on one event at a time: the claim's comparison of status and attempt    *)
(* count is enough, whatever the lists the runs carry with them.           *)
THEOREM ClaimsAreExclusive ==
  ASSUME MaxOvertakes = 0
  PROVE  Spec => []OneRunPerRow
<1>1. Init => Leased
  BY DEF Init, Leased, OneRunPerRow, WorkIsLeased, ListsAreOld, Working
<1>2. TypeOK /\ Leased /\ [Next]_vars => Leased'
  BY LeasedStep
<1>3. Leased => OneRunPerRow
  BY DEF Leased
<1> QED
  BY <1>1, <1>2, <1>3, TypeInvariant, PTL DEF Spec
-----------------------------------------------------------------------------
(* The outbox keeps the promise of EventDelivery.                          *)

stages == [e \in Events |-> Stage(e)]

LEMMA StageFacts ==
  ASSUME TypeOK, NEW e \in Events
  PROVE  /\ row[e].status = "NONE" <=> stages[e] = "absent"
         /\ row[e].status = "PUBLISHED" <=> stages[e] = "published"
         /\ row[e].status = "DEAD_LETTER" <=> stages[e] = "dead"
         /\ row[e].status \in {"PENDING", "PROCESSING", "FAILED"}
              <=> stages[e] = "open"
<1>1. row[e].status \in RowStatus
  BY DEF TypeOK, Rows
<1>2. stages[e] = Stage(e)
  BY DEF stages
<1> QED
  BY <1>1, <1>2 DEF Stage, RowStatus

LEMMA StageChange ==
  ASSUME TypeOK, NEW e \in Events,
         \A f \in Events \ {e} : row'[f].status = row[f].status
  PROVE  stages' = [stages EXCEPT ![e] = Stage(e)']
  BY DEF stages, Stage

LEMMA StageSame ==
  ASSUME \A f \in Events : row'[f].status = row[f].status
  PROVE  stages' = stages
  BY DEF stages, Stage

LEMMA PromiseStep ==
  ASSUME TypeOK, TypeOK', Leased, Delivered, [Next]_vars
  PROVE  Promise!Next \/ UNCHANGED <<stages, delivered>>
<1>1. CASE UNCHANGED vars
  BY <1>1, StageSame DEF vars
<1>2. ASSUME NEW e \in Events, Enqueue(e)
      PROVE  Promise!Next
  <2>1. /\ row[e].status = "NONE" /\ row'[e].status = "PENDING"
        /\ \A f \in Events \ {e} : row'[f].status = row[f].status
        /\ delivered' = delivered
    BY <1>2 DEF Enqueue, TypeOK, Rows
  <2>2. stages[e] = "absent"
    BY <2>1, StageFacts
  <2>3. stages' = [stages EXCEPT ![e] = "open"]
    BY <2>1, StageChange DEF Stage
  <2>4. Promise!Open(e)
    BY <2>1, <2>2, <2>3 DEF Promise!Open, stages
  <2> QED
    BY <2>4 DEF Promise!Next
<1>3. ASSUME NEW e \in Events, BackoffElapses(e) \/ LeaseLapses(e)
      PROVE  UNCHANGED <<stages, delivered>>
  BY <1>3, StageSame DEF BackoffElapses, LeaseLapses
<1>4. ASSUME NEW w \in Workers,
             List(w) \/ PublishFails(w) \/ MarkPublishedThrows(w) \/ RunIsCut(w)
      PROVE  UNCHANGED <<stages, delivered>>
  BY <1>4, StageSame DEF List, PublishFails, MarkPublishedThrows, RunIsCut
<1>5. ASSUME NEW w \in Workers, Claim(w)
      PROVE  UNCHANGED <<stages, delivered>>
  <2>1. CASE ~UnchangedSince(w)
    BY <1>5, <2>1, StageSame DEF Claim
  <2>2. CASE UnchangedSince(w)
    <3>1. /\ Current(w) \in todo[w] /\ Current(w).id \in Events
          /\ Current(w).attemptCount + 1 \in Nat
          /\ "PROCESSING" \in RowStatus
      BY <1>5, BusyRun DEF Claim, RowStatus
    <3> PICK e \in Events : e = Current(w).id
      BY <3>1
    <3>2. /\ row[e].status \in {"PENDING", "FAILED", "PROCESSING"}
          /\ delivered' = delivered
      <4>1. Current(w).status \in {"PENDING", "FAILED", "PROCESSING"}
        BY <3>1 DEF Leased, ListsAreOld
      <4>2. row[e].status = Current(w).status
        BY <2>2 DEF UnchangedSince
      <4> QED
        BY <1>5, <4>1, <4>2 DEF Claim
    <3>3. /\ row'[e].status = "PROCESSING"
          /\ \A f \in Events \ {e} : row'[f] = row[f]
      BY <1>5, <2>2, <3>1, RowUpdate DEF Claim
    <3>4. stages' = [stages EXCEPT ![e] = "open"]
      BY <3>1, <3>3, StageChange DEF Stage
    <3>5. stages[e] = "open"
      BY <3>1, <3>2, StageFacts
    <3> QED
      BY <3>2, <3>4, <3>5 DEF stages
  <2> QED
    BY <2>1, <2>2
<1>6. ASSUME NEW w \in Workers, PublishSucceeds(w)
      PROVE  Promise!Next
  <2>1. PICK e \in Events : e = Current(w).id
    BY <1>6, BusyRun DEF PublishSucceeds
  <2>2. row[e].status = "PROCESSING"
    BY <1>6, <2>1, HoldsLease DEF PublishSucceeds
  <2>3. stages[e] = "open"
    BY <2>1, <2>2, StageFacts
  <2>4. stages' = stages
    BY <1>6, StageSame DEF PublishSucceeds
  <2>5. Promise!Deliver(e)
    BY <1>6, <2>1, <2>3, <2>4 DEF PublishSucceeds, Promise!Deliver, stages
  <2> QED
    BY <2>1, <2>5 DEF Promise!Next
<1>7. ASSUME NEW w \in Workers, MarkPublished(w)
      PROVE  Promise!Next
  <2>1. PICK e \in Events : e = Current(w).id
    BY <1>7, BusyRun DEF MarkPublished
  <2>2. row[e].status = "PROCESSING" /\ delivered[e] > 0
    BY <1>7, <2>1, HoldsLease DEF MarkPublished, Delivered, MarkingIsDelivered
  <2>3. row' = [row EXCEPT ![e].status = "PUBLISHED"] /\ delivered' = delivered
    BY <1>7, <2>1, <2>2 DEF MarkPublished
  <2>4. /\ row'[e].status = "PUBLISHED"
        /\ \A f \in Events \ {e} : row'[f] = row[f]
    BY <2>1, <2>3 DEF TypeOK, Rows
  <2>5. stages[e] = "open"
    BY <2>1, <2>2, StageFacts
  <2>6. stages' = [stages EXCEPT ![e] = "published"]
    BY <2>1, <2>4, StageChange DEF Stage
  <2>7. Promise!Publish(e)
    BY <2>2, <2>3, <2>5, <2>6 DEF Promise!Publish, stages
  <2> QED
    BY <2>1, <2>7 DEF Promise!Next
<1>8. ASSUME NEW w \in Workers, MarkFailed(w)
      PROVE  Promise!Next \/ UNCHANGED <<stages, delivered>>
  <2> DEFINE attempt == Current(w).attemptCount + 1
             status == IF Exhausted(attempt) THEN "DEAD_LETTER" ELSE "FAILED"
  <2>0. PICK e \in Events : e = Current(w).id
    BY <1>8, BusyRun DEF MarkFailed
  <2>1. e \in Events /\ attempt \in Nat /\ status \in RowStatus
    BY <1>8, BusyRun DEF MarkFailed, RowStatus
  <2>2. row[e].status = "PROCESSING"
    BY <1>8, <2>0, HoldsLease DEF MarkFailed
  <2>3. /\ row' = [row EXCEPT ![e] =
                     [status |-> status, attemptCount |-> attempt]]
        /\ delivered' = delivered
    BY <1>8, <2>0 DEF MarkFailed
  <2>4. status = "FAILED" \/ status = "DEAD_LETTER"
    OBVIOUS
  <2> HIDE DEF attempt, status
  <2>5. /\ row'[e].status = status
        /\ \A f \in Events \ {e} : row'[f] = row[f]
    BY <2>1, <2>3, RowUpdate
  <2>6. stages[e] = "open"
    BY <2>1, <2>2, StageFacts
  <2>7. stages' = [stages EXCEPT ![e] = Stage(e)']
    BY <2>1, <2>5, StageChange
  <2>8. CASE status = "FAILED"
    <3>1. Stage(e)' = "open"
      BY <2>5, <2>8 DEF Stage
    <3> QED
      BY <2>3, <2>6, <2>7, <3>1 DEF stages
  <2>9. CASE status = "DEAD_LETTER"
    <3>1. Stage(e)' = "dead"
      BY <2>5, <2>9 DEF Stage
    <3>2. Promise!GiveUp(e)
      BY <2>3, <2>6, <2>7, <3>1 DEF Promise!GiveUp, stages
    <3> QED
      BY <2>1, <3>2 DEF Promise!Next
  <2> QED
    BY <2>4, <2>8, <2>9
<1> QED
  BY <1>1, <1>2, <1>3, <1>4, <1>5, <1>6, <1>7, <1>8 DEF Next, RunStep

(* With leases that outlast the runs, the outbox implements EventDelivery: *)
(* published only after a delivery, and nothing more once an event is      *)
(* published or given up, whatever the overlaps, failures and cut runs.    *)
THEOREM OutboxKeepsPromise ==
  ASSUME MaxOvertakes = 0
  PROVE  Spec => DeliveryPromise
<1>1. Init => Promise!Init
  BY DEF Init, Promise!Init, Stage
<1>2. Init => Leased /\ Delivered
  BY DEF Init, Leased, OneRunPerRow, WorkIsLeased, ListsAreOld, Working,
         Delivered, MarkingIsDelivered, PublishedIsDelivered
<1>3. TypeOK /\ Leased /\ [Next]_vars => Leased'
  BY LeasedStep
<1>4. TypeOK /\ Delivered /\ [Next]_vars => Delivered'
  BY DeliveredStep
<1>5. TypeOK /\ TypeOK' /\ Leased /\ Delivered /\ [Next]_vars
        => [Promise!Next]_<<[e \in Events |-> Stage(e)], delivered>>
  BY PromiseStep DEF stages
<1> QED
  BY <1>1, <1>2, <1>3, <1>4, <1>5, TypeInvariant, PTL
     DEF Spec, DeliveryPromise, Promise!Spec
-----------------------------------------------------------------------------
(* Deliveries are accounted for.                                           *)

LEMMA Numbers ==
  ASSUME TypeOK
  PROVE  /\ \A e \in Events : delivered[e] \in Nat
         /\ faults \in Nat /\ crashes \in Nat
BY OutboxAssumption DEF TypeOK

(* A step that delivers nothing of e, and opens no new chance for it.      *)
LEMMA AccountKept ==
  ASSUME TypeOK, NEW e \in Events, Accounted(e),
         delivered'[e] = delivered[e], UNCHANGED <<faults, crashes>>,
         MayDeliver(e)' => MayDeliver(e)
  PROVE  Accounted(e)'
<1>1. delivered[e] \in Nat /\ faults \in Nat /\ crashes \in Nat
  BY Numbers
<1>2. CASE MayDeliver(e)'
  BY <1>1, <1>2 DEF Accounted
<1>3. CASE ~MayDeliver(e)' /\ MayDeliver(e)
  BY <1>1, <1>3 DEF Accounted
<1>4. CASE ~MayDeliver(e)' /\ ~MayDeliver(e)
  BY <1>1, <1>4 DEF Accounted
<1> QED
  BY <1>2, <1>3, <1>4

(* A step that delivers nothing and counts a failure or a cut.             *)
LEMMA AccountRaised ==
  ASSUME TypeOK, NEW e \in Events, Accounted(e), delivered' = delivered,
         \/ faults' = faults + 1 /\ crashes' = crashes
         \/ faults' = faults /\ crashes' = crashes + 1
  PROVE  Accounted(e)'
<1>1. delivered[e] \in Nat /\ faults \in Nat /\ crashes \in Nat
  BY Numbers
<1>2. delivered[e] <= 1 + faults + crashes
  BY <1>1 DEF Accounted
<1>3. delivered'[e] + 1 <= 1 + faults' + crashes'
  BY <1>1, <1>2
<1>4. delivered'[e] \in Nat /\ faults' \in Nat /\ crashes' \in Nat
  BY <1>1
<1>5. CASE MayDeliver(e)'
  BY <1>3, <1>4, <1>5 DEF Accounted
<1>6. CASE ~MayDeliver(e)'
  BY <1>3, <1>4, <1>6 DEF Accounted
<1> QED
  BY <1>5, <1>6

(* A run that holds no unmarked delivery opens no chance that was not      *)
(* there, unless it opens the row.                                         *)
LEMMA NoNewChance ==
  ASSUME NEW e \in Events, NEW w \in Workers, wpc[w] # "published",
         \A v \in Workers \ {w} : wpc'[v] = wpc[v] /\ todo'[v] = todo[v],
         row'[e].status \notin {"PUBLISHED", "DEAD_LETTER"}
           => row[e].status \notin {"PUBLISHED", "DEAD_LETTER"}
  PROVE  MayDeliver(e)' => MayDeliver(e)
<1>1. \A v \in Workers \ {w} : Working(v, e)' <=> Working(v, e)
  BY WorkingKept
<1> QED
  BY <1>1 DEF MayDeliver

LEMMA AccountsOfTime ==
  ASSUME TypeOK, DeliveryBudget, NEW g \in Events,
         Enqueue(g) \/ BackoffElapses(g) \/ LeaseLapses(g)
  PROVE  DeliveryBudget'
<1>1. UNCHANGED <<wpc, todo, delivered, faults, crashes>>
  BY DEF Enqueue, BackoffElapses, LeaseLapses, bounds
<1>2. ASSUME NEW e \in Events
      PROVE  row'[e].status \in {"PUBLISHED", "DEAD_LETTER"}
               <=> row[e].status \in {"PUBLISHED", "DEAD_LETTER"}
  BY DEF Enqueue, BackoffElapses, LeaseLapses, TypeOK, Rows
<1>3. ASSUME NEW e \in Events
      PROVE  MayDeliver(e)' => MayDeliver(e)
  <2>1. \A v \in Workers : Working(v, e)' <=> Working(v, e)
    BY <1>1, CurrentKept DEF Working
  <2> QED
    BY <1>1, <1>2, <2>1 DEF MayDeliver
<1> QED
  BY <1>1, <1>3, AccountKept DEF DeliveryBudget

LEMMA AccountsOfRun ==
  ASSUME TypeOK, TypeOK', Leased, DeliveryBudget, NEW w \in Workers, RunStep(w)
  PROVE  DeliveryBudget'
<1> DEFINE Closed == {"PUBLISHED", "DEAD_LETTER"}
<1>1. ASSUME wpc[w] # "published", UNCHANGED <<delivered, faults, crashes>>,
             \A v \in Workers \ {w} : wpc'[v] = wpc[v] /\ todo'[v] = todo[v],
             \A e \in Events : row'[e].status \notin Closed
                                 => row[e].status \notin Closed
      PROVE  DeliveryBudget'
  <2> SUFFICES ASSUME NEW e \in Events PROVE Accounted(e)'
    BY DEF DeliveryBudget
  <2>1. MayDeliver(e)' => MayDeliver(e)
    BY <1>1, NoNewChance
  <2> QED
    BY <1>1, <2>1, AccountKept DEF DeliveryBudget
<1>2. CASE List(w)
  BY <1>1, <1>2 DEF List, bounds, TypeOK
<1>3. CASE Claim(w)
  <2>1. CASE UnchangedSince(w)
    <3>1. PICK e \in Events : e = Current(w).id
      BY <1>3, BusyRun DEF Claim
    <3>2. row[e].status \in {"PENDING", "FAILED", "PROCESSING"}
      <4>1. Current(w).status \in {"PENDING", "FAILED", "PROCESSING"}
        BY <1>3, BusyRun DEF Claim, Leased, ListsAreOld
      <4> QED
        BY <2>1, <3>1, <4>1 DEF UnchangedSince
    <3>3. \A f \in Events \ {e} : row'[f] = row[f]
      BY <1>3, <2>1, <3>1 DEF Claim, TypeOK
    <3>4. /\ wpc[w] # "published" /\ UNCHANGED <<delivered, faults, crashes>>
          /\ \A v \in Workers \ {w} : wpc'[v] = wpc[v] /\ todo'[v] = todo[v]
      BY <1>3, <2>1 DEF Claim, bounds, TypeOK
    <3> QED
      BY <1>1, <3>2, <3>3, <3>4
  <2>2. CASE ~UnchangedSince(w)
    <3>1. /\ wpc[w] # "published"
          /\ UNCHANGED <<row, delivered, faults, crashes>>
          /\ \A v \in Workers \ {w} : wpc'[v] = wpc[v] /\ todo'[v] = todo[v]
      BY <1>3, <2>2, AdvanceType DEF Claim, bounds
    <3> QED
      BY <1>1, <3>1
  <2> QED
    BY <2>1, <2>2
<1>4. CASE PublishSucceeds(w)
  <2>1. PICK e \in Events : e = Current(w).id
    BY <1>4, BusyRun DEF PublishSucceeds
  <2>2. /\ delivered' = [delivered EXCEPT ![e] = @ + 1]
        /\ wpc[w] = "publish" /\ wpc'[w] = "published"
        /\ \A v \in Workers \ {w} : wpc'[v] = wpc[v]
        /\ UNCHANGED <<row, todo, faults, crashes>>
    BY <1>4, <2>1 DEF PublishSucceeds, bounds, TypeOK
  <2>3. row[e].status = "PROCESSING" /\ \A v \in Workers \ {w} : ~Working(v, e)
    BY <2>1, <2>2, HoldsLease
  <2>4. MayDeliver(e)
    BY <2>2, <2>3 DEF MayDeliver
  <2>5. Working(w, e)'
    BY <2>1, <2>2, CurrentKept DEF Working
  <2>6. ~MayDeliver(e)'
    BY <2>2, <2>5 DEF MayDeliver
  <2>7. Accounted(e)'
    <3>1. delivered[e] \in Nat /\ faults \in Nat /\ crashes \in Nat
      BY Numbers
    <3>2. delivered[e] + 1 <= 1 + faults + crashes
      BY <2>4 DEF DeliveryBudget, Accounted
    <3>3. delivered'[e] = delivered[e] + 1
      BY <2>2 DEF TypeOK
    <3>4. delivered'[e] + 0 <= 1 + faults' + crashes'
      BY <2>2, <3>1, <3>2, <3>3
    <3> QED
      BY <2>6, <3>4 DEF Accounted
  <2>8. ASSUME NEW f \in Events, f # e PROVE Accounted(f)'
    <3>1. delivered'[f] = delivered[f]
      BY <2>2, <2>8 DEF TypeOK
    <3>2. MayDeliver(f)' => MayDeliver(f)
      BY <2>2, NoNewChance
    <3> QED
      BY <2>2, <3>1, <3>2, AccountKept DEF DeliveryBudget
  <2> QED
    BY <2>7, <2>8 DEF DeliveryBudget
<1>5. CASE PublishFails(w)
  BY <1>1, <1>5 DEF PublishFails, bounds, TypeOK
<1>6. CASE MarkPublished(w)
  <2>1. PICK e \in Events : e = Current(w).id
    BY <1>6, BusyRun DEF MarkPublished
  <2>2. /\ UNCHANGED <<delivered, faults, crashes>> /\ wpc[w] = "published"
        /\ \A v \in Workers \ {w} : wpc'[v] = wpc[v] /\ todo'[v] = todo[v]
    BY <1>6, AdvanceType DEF MarkPublished, bounds
  <2>3. row[e].status = "PROCESSING"
    BY <2>1, <2>2, HoldsLease
  <2>4. row' = [row EXCEPT ![e].status = "PUBLISHED"]
    BY <1>6, <2>1, <2>3 DEF MarkPublished
  <2>5. row'[e].status = "PUBLISHED" /\ \A f \in Events \ {e} : row'[f] = row[f]
    BY <2>4 DEF TypeOK, Rows
  <2>6. ~MayDeliver(e)'
    BY <2>5 DEF MayDeliver
  <2>7. ASSUME NEW f \in Events, f # e PROVE MayDeliver(f)' => MayDeliver(f)
    <3>1. ~Working(w, f)
      BY <2>1, <2>7 DEF Working
    <3>2. \A v \in Workers \ {w} : Working(v, f)' <=> Working(v, f)
      BY <2>2, WorkingKept
    <3> QED
      BY <2>2, <2>5, <2>7, <3>1, <3>2 DEF MayDeliver
  <2>8. ASSUME NEW f \in Events PROVE Accounted(f)'
    <3>1. MayDeliver(f)' => MayDeliver(f)
      BY <2>6, <2>7
    <3> QED
      BY <2>2, <3>1, AccountKept DEF DeliveryBudget
  <2> QED
    BY <2>8 DEF DeliveryBudget
<1>7. CASE MarkPublishedThrows(w)
  BY <1>7, AccountRaised DEF MarkPublishedThrows, DeliveryBudget
<1>8. CASE MarkFailed(w)
  <2>1. PICK e \in Events : e = Current(w).id
    BY <1>8, BusyRun DEF MarkFailed
  <2>2. /\ UNCHANGED <<delivered, faults, crashes>> /\ wpc[w] = "failed"
        /\ \A v \in Workers \ {w} : wpc'[v] = wpc[v] /\ todo'[v] = todo[v]
    BY <1>8, AdvanceType DEF MarkFailed, bounds
  <2>3. row[e].status = "PROCESSING"
    BY <2>1, <2>2, HoldsLease
  <2>4. \A f \in Events \ {e} : row'[f] = row[f]
    BY <1>8, <2>1 DEF MarkFailed, TypeOK
  <2> QED
    BY <1>1, <2>2, <2>3, <2>4
<1>9. CASE RunIsCut(w)
  BY <1>9, AccountRaised DEF RunIsCut, DeliveryBudget
<1> QED
  BY <1>2, <1>3, <1>4, <1>5, <1>6, <1>7, <1>8, <1>9 DEF RunStep

LEMMA AccountsStep ==
  ASSUME TypeOK, TypeOK', Leased, DeliveryBudget, [Next]_vars
  PROVE  DeliveryBudget'
<1>1. CASE UNCHANGED vars
  <2>1. \A e \in Events, v \in Workers : Working(v, e)' <=> Working(v, e)
    BY <1>1, CurrentKept DEF vars, Working
  <2>2. \A e \in Events : MayDeliver(e)' => MayDeliver(e)
    BY <1>1, <2>1 DEF vars, MayDeliver
  <2> QED
    BY <1>1, <2>2, AccountKept DEF vars, DeliveryBudget
<1> QED
  BY <1>1, AccountsOfTime, AccountsOfRun DEF Next

(* As long as no lease lapses under a run at work, an event is delivered   *)
(* once, and again only for a run that was cut or a mark that failed.      *)
THEOREM RepeatsAreCaused ==
  ASSUME MaxOvertakes = 0
  PROVE  Spec => []RepeatsHaveACause
<1>1. Init => Leased
  BY DEF Init, Leased, OneRunPerRow, WorkIsLeased, ListsAreOld, Working
<1>2. TypeOK /\ Leased /\ [Next]_vars => Leased'
  BY LeasedStep
<1>3. Init => DeliveryBudget
  BY DEF Init, DeliveryBudget, Accounted
<1>4. TypeOK /\ TypeOK' /\ Leased /\ DeliveryBudget /\ [Next]_vars
        => DeliveryBudget'
  BY AccountsStep
<1>5. TypeOK /\ DeliveryBudget => RepeatsHaveACause
  BY Numbers DEF DeliveryBudget, Accounted, RepeatsHaveACause
<1> QED
  BY <1>1, <1>2, <1>3, <1>4, <1>5, TypeInvariant, PTL DEF Spec
=============================================================================
