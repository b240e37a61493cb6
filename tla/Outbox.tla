------------------------------- MODULE Outbox -------------------------------
(***************************************************************************)
(* The transactional outbox: rows written with the state change they       *)
(* announce, and runs of processPendingEvents that list the due rows,      *)
(* claim them one by one and publish them.  Runs overlap: the timer fires  *)
(* every five seconds whether or not the last run has ended, in every      *)
(* process of the service, and outbox:process starts one more.             *)
(*                                                                         *)
(* Events are numbered by their createdAt, the order a run takes them in;  *)
(* the transactions that write them may commit in any order.  Time is      *)
(* abstracted to one fact per row: whether its nextAttemptAt has come.     *)
(***************************************************************************)
EXTENDS Integers, FiniteSets

CONSTANTS
  MaxEvent,      \* the events are 1..MaxEvent
  Workers,       \* overlapping runs
  MaxAttempts,   \* OUTBOX_MAX_ATTEMPTS
  Limit,         \* the most rows one run lists
  MaxFaults,     \* bound: database errors while marking a row PUBLISHED
  MaxCrashes,    \* bound: runs cut short
  MaxOvertakes   \* bound: leases that lapse under a run still at work

VARIABLES
  row,           \* row[e]: the status and attemptCount of the row
  due,           \* due[e]: nextAttemptAt is null or past
  delivered,     \* delivered[e]: how often publishEvent succeeded
  wpc,           \* wpc[w]: what run w does next with the head of its list
  todo,          \* todo[w]: the rows w has listed and not finished, as read
  faults, crashes, overtakes

vars == <<row, due, delivered, wpc, todo, faults, crashes, overtakes>>
bounds == <<faults, crashes, overtakes>>

Events == 1..MaxEvent
RowStatus ==
  {"NONE", "PENDING", "PROCESSING", "PUBLISHED", "FAILED", "DEAD_LETTER"}
Rows == [status : RowStatus, attemptCount : Nat]
Listed == [id : Events, status : RowStatus, attemptCount : Nat]

ASSUME OutboxAssumption ==
  /\ MaxEvent \in Nat
  /\ MaxAttempts \in Nat \ {0}
  /\ Limit \in Nat \ {0}
  /\ MaxFaults \in Nat /\ MaxCrashes \in Nat /\ MaxOvertakes \in Nat

TypeOK ==
  /\ row \in [Events -> Rows]
  /\ due \in [Events -> BOOLEAN]
  /\ delivered \in [Events -> Nat]
  /\ wpc \in [Workers -> {"idle", "claim", "publish", "published", "failed"}]
  /\ todo \in [Workers -> SUBSET Listed]
  /\ \A w \in Workers : wpc[w] = "idle" <=> todo[w] = {}
  /\ faults \in 0..MaxFaults
  /\ crashes \in 0..MaxCrashes
  /\ overtakes \in 0..MaxOvertakes

Init ==
  /\ row = [e \in Events |-> [status |-> "NONE", attemptCount |-> 0]]
  /\ due = [e \in Events |-> FALSE]
  /\ delivered = [e \in Events |-> 0]
  /\ wpc = [w \in Workers |-> "idle"]
  /\ todo = [w \in Workers |-> {}]
  /\ faults = 0 /\ crashes = 0 /\ overtakes = 0
-----------------------------------------------------------------------------
(* enqueue, in the transaction of the caller.                              *)
Enqueue(e) ==
  /\ row[e].status = "NONE"
  /\ row' = [row EXCEPT ![e].status = "PENDING"]
  /\ due' = [due EXCEPT ![e] = TRUE]
  /\ UNCHANGED <<delivered, wpc, todo, bounds>>

(* Bug: a row left PROCESSING by a crash is not listed.                    *)
ListableUnclaimed(e) ==
  row[e].status \in {"PENDING", "FAILED"} /\ due[e]

Listable(e) ==
  row[e].status \in {"PENDING", "FAILED", "PROCESSING"} /\ due[e]

(* listPendingEvents: the oldest Limit due rows, as they are now.          *)
Oldest(ids) == {e \in ids : Cardinality({f \in ids : f < e}) < Limit}

List(w) ==
  LET taken == Oldest({e \in Events : Listable(e)})
  IN  /\ wpc[w] = "idle"
      /\ taken # {}
      /\ todo' = [todo EXCEPT ![w] =
                    {[id |-> e, status |-> row[e].status,
                      attemptCount |-> row[e].attemptCount] : e \in taken}]
      /\ wpc' = [wpc EXCEPT ![w] = "claim"]
      /\ UNCHANGED <<row, due, delivered, bounds>>

(* A run works through its list, the oldest row first.                     *)
Current(w) == CHOOSE r \in todo[w] : \A s \in todo[w] : r.id <= s.id

Advance(w) ==
  /\ todo' = [todo EXCEPT ![w] = @ \ {Current(w)}]
  /\ wpc' = [wpc EXCEPT ![w] = IF todo[w] = {Current(w)} THEN "idle"
                               ELSE "claim"]

(* Bug: the claim does not compare the attempt count.                      *)
UnchangedSinceByStatus(w) ==
  row[Current(w).id].status = Current(w).status

(* Bug: the row is claimed by its id alone.                                *)
UnchangedSinceById(w) == TRUE

UnchangedSince(w) ==
  row[Current(w).id] = [status |-> Current(w).status,
                        attemptCount |-> Current(w).attemptCount]

(* The claim is one conditional update: it takes the row only as it was    *)
(* read, and leases it.                                                    *)
Claim(w) ==
  /\ wpc[w] = "claim"
  /\ \/ /\ UnchangedSince(w)
        /\ row' = [row EXCEPT ![Current(w).id] =
                     [status |-> "PROCESSING",
                      attemptCount |-> Current(w).attemptCount + 1]]
        /\ due' = [due EXCEPT ![Current(w).id] = FALSE]
        /\ wpc' = [wpc EXCEPT ![w] = "publish"]
        /\ UNCHANGED todo
     \/ /\ ~UnchangedSince(w)
        /\ Advance(w)
        /\ UNCHANGED <<row, due>>
  /\ UNCHANGED <<delivered, bounds>>

PublishSucceeds(w) ==
  /\ wpc[w] = "publish"
  /\ delivered' = [delivered EXCEPT ![Current(w).id] = @ + 1]
  /\ wpc' = [wpc EXCEPT ![w] = "published"]
  /\ UNCHANGED <<row, due, todo, bounds>>

(* Bug: the exception of publishEvent is swallowed.                        *)
PublishFailsSilently(w) ==
  /\ wpc[w] = "publish"
  /\ wpc' = [wpc EXCEPT ![w] = "published"]
  /\ UNCHANGED <<row, due, delivered, todo, bounds>>

PublishFails(w) ==
  /\ wpc[w] = "publish"
  /\ wpc' = [wpc EXCEPT ![w] = "failed"]
  /\ UNCHANGED <<row, due, delivered, todo, bounds>>

(* markPublished only finds a row that is PROCESSING; finding none is not  *)
(* an error.                                                               *)
MarkPublished(w) ==
  /\ wpc[w] = "published"
  /\ \/ /\ row[Current(w).id].status = "PROCESSING"
        /\ row' = [row EXCEPT ![Current(w).id].status = "PUBLISHED"]
     \/ /\ row[Current(w).id].status # "PROCESSING"
        /\ UNCHANGED row
  /\ Advance(w)
  /\ UNCHANGED <<due, delivered, bounds>>

(* markPublished throws inside the try block, after the event is out.      *)
MarkPublishedThrows(w) ==
  /\ faults < MaxFaults
  /\ wpc[w] = "published"
  /\ faults' = faults + 1
  /\ wpc' = [wpc EXCEPT ![w] = "failed"]
  /\ UNCHANGED <<row, due, delivered, todo, crashes, overtakes>>

Exhausted(attempt) == attempt >= MaxAttempts

(* markFailed and markDeadLetter update by id, whatever the row holds by   *)
(* now, and write back the attempt count of the run's own claim.           *)
MarkFailed(w) ==
  LET attempt == Current(w).attemptCount + 1
      status == IF Exhausted(attempt) THEN "DEAD_LETTER" ELSE "FAILED"
  IN  /\ wpc[w] = "failed"
      /\ row' = [row EXCEPT ![Current(w).id] =
                   [status |-> status, attemptCount |-> attempt]]
      /\ due' = [due EXCEPT ![Current(w).id] = FALSE]
      /\ Advance(w)
      /\ UNCHANGED <<delivered, bounds>>

(* Bug: the run stops and its list stays.                                  *)
RunIsCutKeepsList(w) ==
  /\ crashes < MaxCrashes
  /\ wpc[w] # "idle"
  /\ crashes' = crashes + 1
  /\ wpc' = [wpc EXCEPT ![w] = "idle"]
  /\ UNCHANGED <<row, due, delivered, todo, faults, overtakes>>

(* The process dies, or markFailed throws and processPendingEvents rejects.*)
RunIsCut(w) ==
  /\ crashes < MaxCrashes
  /\ wpc[w] # "idle"
  /\ crashes' = crashes + 1
  /\ todo' = [todo EXCEPT ![w] = {}]
  /\ wpc' = [wpc EXCEPT ![w] = "idle"]
  /\ UNCHANGED <<row, due, delivered, faults, overtakes>>

Working(w, e) ==
  wpc[w] \in {"publish", "published", "failed"} /\ Current(w).id = e

(* Time passes: the backoff of a FAILED row is over, or the lease of a     *)
(* PROCESSING one, perhaps while the run that holds it is still at work.   *)
BackoffElapses(e) ==
  /\ row[e].status = "FAILED" /\ ~due[e]
  /\ due' = [due EXCEPT ![e] = TRUE]
  /\ UNCHANGED <<row, delivered, wpc, todo, bounds>>

LeaseLapses(e) ==
  /\ row[e].status = "PROCESSING" /\ ~due[e]
  /\ due' = [due EXCEPT ![e] = TRUE]
  /\ \/ /\ \E w \in Workers : Working(w, e)
        /\ overtakes < MaxOvertakes
        /\ overtakes' = overtakes + 1
     \/ /\ \A w \in Workers : ~Working(w, e)
        /\ UNCHANGED overtakes
  /\ UNCHANGED <<row, delivered, wpc, todo, faults, crashes>>
-----------------------------------------------------------------------------
RunStep(w) ==
  \/ List(w)
  \/ Claim(w)
  \/ PublishSucceeds(w)
  \/ PublishFails(w)
  \/ MarkPublished(w)
  \/ MarkPublishedThrows(w)
  \/ MarkFailed(w)
  \/ RunIsCut(w)

Next ==
  \/ \E e \in Events : Enqueue(e) \/ BackoffElapses(e) \/ LeaseLapses(e)
  \/ \E w \in Workers : RunStep(w)

Spec == Init /\ [][Next]_vars

(* The timer keeps starting runs, a run that is not cut goes on, and time  *)
(* passes.  Nothing makes publishing succeed.                              *)
Fairness ==
  /\ \A w \in Workers :
       WF_vars(\/ List(w)
               \/ Claim(w)
               \/ PublishSucceeds(w) \/ PublishFails(w)
               \/ MarkPublished(w)
               \/ MarkFailed(w))
  /\ \A e \in Events : WF_vars(BackoffElapses(e)) /\ WF_vars(LeaseLapses(e))

FairSpec == Spec /\ Fairness
-----------------------------------------------------------------------------
(* Whatever overlaps, lapses or is cut: a row is PUBLISHED only when its   *)
(* event has been delivered.                                               *)
PublishedIsDelivered ==
  \A e \in Events :
    row[e].status = "PUBLISHED" => delivered[e] > 0

(* What makes PublishedIsDelivered inductive.                              *)
MarkingIsDelivered ==
  \A w \in Workers :
    wpc[w] = "published" => delivered[Current(w).id] > 0

(* The next four hold as long as no lease lapses under a run at work.      *)

(* Two runs never work on one row at a time.                               *)
OneRunPerRow ==
  \A e \in Events, v, w \in Workers :
    Working(v, e) /\ Working(w, e) => v = w

(* Why: a run at work holds the lease, so the row is not due and carries   *)
(* the attempt count of that run's claim,                                  *)
WorkIsLeased ==
  \A w \in Workers, e \in Events : Working(w, e) =>
    /\ row[e] = [status |-> "PROCESSING",
                 attemptCount |-> Current(w).attemptCount + 1]
    /\ ~due[e]

(* and a row that was listed as PROCESSING and has not changed since was   *)
(* abandoned by the run that claimed it; attempt counts never go back.     *)
ListsAreOld ==
  \A w \in Workers : \A r \in todo[w] :
    /\ r.status \in {"PENDING", "FAILED", "PROCESSING"}
    /\ r.attemptCount <= row[r.id].attemptCount
    /\ (r.status = "PROCESSING"
        /\ row[r.id] = [status |-> "PROCESSING",
                        attemptCount |-> r.attemptCount])
         => \A v \in Workers : ~Working(v, r.id)

IInv ==
  /\ TypeOK
  /\ MarkingIsDelivered
  /\ OneRunPerRow
  /\ WorkIsLeased
  /\ ListsAreOld

(* Why an event is delivered no more often than RepeatsHaveACause allows:  *)
(* while its row is open and no run holds a delivery that it has not       *)
(* marked, there is one more delivery to come.                             *)
MayDeliver(e) ==
  /\ row[e].status \notin {"PUBLISHED", "DEAD_LETTER"}
  /\ \A w \in Workers : ~(wpc[w] = "published" /\ Working(w, e))

Accounted(e) ==
  delivered[e] + (IF MayDeliver(e) THEN 1 ELSE 0) <= 1 + faults + crashes

DeliveryBudget == \A e \in Events : Accounted(e)

(* An event is delivered once, and once more for each time a run was cut   *)
(* or the database failed it between the delivery and the mark.            *)
RepeatsHaveACause ==
  \A e \in Events : delivered[e] <= 1 + faults + crashes

Stage(e) ==
  CASE row[e].status = "NONE" -> "absent"
    [] row[e].status = "PUBLISHED" -> "published"
    [] row[e].status = "DEAD_LETTER" -> "dead"
    [] OTHER -> "open"

Promise == INSTANCE EventDelivery
             WITH stage <- [e \in Events |-> Stage(e)]

(* The outbox is what EventDelivery promises.                              *)
DeliveryPromise == Promise!Spec

(* Every event that is enqueued is published or given up in the end.       *)
EventsAreSettled ==
  \A e \in Events :
    row[e].status = "PENDING"
      ~> row[e].status \in {"PUBLISHED", "DEAD_LETTER"}
=============================================================================
