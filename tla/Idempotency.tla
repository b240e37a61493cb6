----------------------------- MODULE Idempotency ----------------------------
(***************************************************************************)
(* IdempotencyService.run: the row of an idempotency key is reserved, the  *)
(* handler runs, and its answer is stored for requests with the same key.  *)
(*                                                                         *)
(* The first request creates the row, under a unique index.  Any other     *)
(* reads it, and by what it has read it replays, gives up or takes the row *)
(* over; the take-over is an update by id, with no condition.  The service *)
(* never looks at expiresAt.  A request without a key goes straight to its *)
(* handler and is not modelled.                                            *)
(***************************************************************************)
EXTENDS Integers, FiniteSets

CONSTANTS
  Keys,         \* idempotency keys, each with its scope
  Requests,     \* requests under way at once
  Bodies,       \* what is hashed: actor, body, endpoint, method, scope
  NoRow, NoJob,
  MaxRuns,      \* bound: handler runs that succeed
  MaxFaults     \* bound: processes that die and answers that are not stored

VARIABLES
  row,          \* row[k]: the key's status, body and stored answer (0: none)
  lapsed,       \* lapsed[k]: the row's lockedUntil has passed
  pc, job,      \* where each request is; its key, body and own answer
  answers,      \* answers[k]: what successful runs under k have answered
  replay,       \* replay[r]: the stored answer that r was given last
  excused,      \* excused[k]: a run under k has failed or outlived its lock
  faults

jobVars == <<pc, job>>
vars == <<row, lapsed, jobVars, answers, replay, excused, faults>>

Answers == [id : 1..MaxRuns, body : Bodies]
Rows == [status : {"IN_PROGRESS", "COMPLETED", "FAILED"}, body : Bodies,
         answer : 0..MaxRuns]
Pcs == {"idle", "create", "read", "take", "run", "complete", "fail"}
Jobs == [key : Keys, body : Bodies, answer : 0..MaxRuns]
Replays == [key : Keys, body : Bodies, answer : 0..MaxRuns]
Questions == [key : Keys, body : Bodies]

ASSUME IdempotencyAssumption ==
  /\ NoRow \notin Rows /\ NoJob \notin Jobs \cup Replays \cup Questions
  /\ MaxRuns \in Nat /\ MaxFaults \in Nat

RowsOK ==
  /\ row \in [Keys -> Rows \cup {NoRow}]
  /\ lapsed \in [Keys -> BOOLEAN]
  /\ answers \in [Keys -> SUBSET Answers]
  /\ excused \in [Keys -> BOOLEAN]

JobsOK ==
  /\ pc \in [Requests -> Pcs]
  /\ job \in [Requests -> Jobs \cup {NoJob}]
  /\ \A r \in Requests : pc[r] = "idle" <=> job[r] = NoJob

TypeOK ==
  /\ RowsOK /\ JobsOK
  /\ replay \in [Requests -> Replays \cup {NoJob}]
  /\ faults \in 0..MaxFaults

Init ==
  /\ row = [k \in Keys |-> NoRow]
  /\ lapsed = [k \in Keys |-> FALSE]
  /\ pc = [r \in Requests |-> "idle"]
  /\ job = [r \in Requests |-> NoJob]
  /\ answers = [k \in Keys |-> {}]
  /\ replay = [r \in Requests |-> NoJob]
  /\ excused = [k \in Keys |-> FALSE]
  /\ faults = 0
-----------------------------------------------------------------------------
Goto(r, at) == pc' = [pc EXCEPT ![r] = at]

Finish(r) ==
  /\ Goto(r, "idle")
  /\ job' = [job EXCEPT ![r] = NoJob]

(* Bug: the status word of provider events.                                *)
InProgressPending(body) == [status |-> "PENDING", body |-> body, answer |-> 0]

InProgress(body) == [status |-> "IN_PROGRESS", body |-> body, answer |-> 0]

(* run: a client calls, or calls again.                                    *)
Call(r, k, body) ==
  /\ pc[r] = "idle"
  /\ Goto(r, "create")
  /\ job' = [job EXCEPT ![r] = [key |-> k, body |-> body, answer |-> 0]]
  /\ replay' = [replay EXCEPT ![r] = NoJob]
  /\ UNCHANGED <<row, lapsed, answers, excused, faults>>

(* Bug: an upsert.                                                         *)
CreateOrReplace(r) ==
  /\ pc[r] = "create"
  /\ row' = [row EXCEPT ![job[r].key] = InProgress(job[r].body)]
  /\ lapsed' = [lapsed EXCEPT ![job[r].key] = FALSE]
  /\ Goto(r, "run")
  /\ UNCHANGED <<job, answers, replay, excused, faults>>

(* reserveKey: create the row, unless the key has one.                     *)
Create(r) ==
  /\ pc[r] = "create"
  /\ \/ /\ row[job[r].key] = NoRow
        /\ row' = [row EXCEPT ![job[r].key] = InProgress(job[r].body)]
        /\ lapsed' = [lapsed EXCEPT ![job[r].key] = FALSE]
        /\ Goto(r, "run")
     \/ /\ row[job[r].key] # NoRow
        /\ Goto(r, "read")
        /\ UNCHANGED <<row, lapsed>>
  /\ UNCHANGED <<job, answers, replay, excused, faults>>

(* Bug: the hash of the request is not compared.                           *)
AnyRequest(r) == TRUE

SameRequest(r) == row[job[r].key].body = job[r].body

(* Bug: a lock that has not lapsed does not hold anybody off.              *)
LockedNever(k) == FALSE

Locked(k) == row[k].status = "IN_PROGRESS" /\ ~lapsed[k]

(* What is read decides: replay, conflict, or take the row over.           *)
ReadExisting(r) ==
  /\ pc[r] = "read"
  /\ LET k == job[r].key
     IN  \/ /\ SameRequest(r) /\ row[k].status = "COMPLETED"
            /\ replay' = [replay EXCEPT ![r] =
                 [key |-> k, body |-> job[r].body, answer |-> row[k].answer]]
            /\ Finish(r)
         \/ /\ ~SameRequest(r) \/ Locked(k)
            /\ Finish(r)
            /\ UNCHANGED replay
         \/ /\ SameRequest(r) /\ row[k].status # "COMPLETED" /\ ~Locked(k)
            /\ Goto(r, "take")
            /\ UNCHANGED <<job, replay>>
  /\ UNCHANGED <<row, lapsed, answers, excused, faults>>

TakeOver(r) ==
  /\ pc[r] = "take"
  /\ row' = [row EXCEPT ![job[r].key] =
               [@ EXCEPT !.status = "IN_PROGRESS", !.answer = 0]]
  /\ lapsed' = [lapsed EXCEPT ![job[r].key] = FALSE]
  /\ Goto(r, "run")
  /\ UNCHANGED <<job, answers, replay, excused, faults>>

(* The handler does its work, or throws.                                   *)
Runs == UNION {{a.id : a \in answers[k]} : k \in Keys}
NextRun == Cardinality(Runs) + 1

HandlerAnswers(r) ==
  /\ pc[r] = "run"
  /\ NextRun \in 1..MaxRuns
  /\ answers' = [answers EXCEPT ![job[r].key] =
                   @ \cup {[id |-> NextRun, body |-> job[r].body]}]
  /\ job' = [job EXCEPT ![r] = [@ EXCEPT !.answer = NextRun]]
  /\ Goto(r, "complete")
  /\ UNCHANGED <<row, lapsed, replay, excused, faults>>

HandlerThrows(r) ==
  /\ pc[r] = "run"
  /\ Goto(r, "fail")
  /\ UNCHANGED <<row, lapsed, job, answers, replay, excused, faults>>

(* markCompleted and markFailed: by id, whoever holds the row by now.      *)
MarkCompleted(r) ==
  /\ pc[r] = "complete"
  /\ row' = [row EXCEPT ![job[r].key] =
               [@ EXCEPT !.status = "COMPLETED", !.answer = job[r].answer]]
  /\ Finish(r)
  /\ UNCHANGED <<lapsed, answers, replay, excused, faults>>

MarkCompletedThrows(r) ==
  /\ pc[r] = "complete"
  /\ faults < MaxFaults
  /\ faults' = faults + 1
  /\ Goto(r, "fail")
  /\ UNCHANGED <<row, lapsed, job, answers, replay, excused>>

FailedRow(k) == [row[k] EXCEPT !.status = "FAILED", !.answer = 0]

MarkFailed(r) ==
  /\ pc[r] = "fail"
  /\ row' = [row EXCEPT ![job[r].key] = FailedRow(job[r].key)]
  /\ excused' = [excused EXCEPT ![job[r].key] = TRUE]
  /\ Finish(r)
  /\ UNCHANGED <<lapsed, answers, replay, faults>>

(* The process dies; the row stays as it is.                               *)
Dies(r) ==
  /\ pc[r] # "idle"
  /\ faults < MaxFaults
  /\ faults' = faults + 1
  /\ Finish(r)
  /\ UNCHANGED <<row, lapsed, answers, replay, excused>>

(* A minute passes.                                                        *)
LockLapses(k) ==
  /\ row[k] # NoRow
  /\ row[k].status = "IN_PROGRESS" /\ ~lapsed[k]
  /\ lapsed' = [lapsed EXCEPT ![k] = TRUE]
  /\ excused' = [excused EXCEPT ![k] = TRUE]
  /\ UNCHANGED <<row, jobVars, answers, replay, faults>>
-----------------------------------------------------------------------------
RequestStep(r) ==
  \/ \E k \in Keys, body \in Bodies : Call(r, k, body)
  \/ Create(r)
  \/ ReadExisting(r)
  \/ TakeOver(r)
  \/ HandlerAnswers(r)
  \/ HandlerThrows(r)
  \/ MarkCompleted(r)
  \/ MarkCompletedThrows(r)
  \/ MarkFailed(r)
  \/ Dies(r)

Next ==
  \/ \E r \in Requests : RequestStep(r)
  \/ \E k \in Keys : LockLapses(k)

Spec == Init /\ [][Next]_vars
-----------------------------------------------------------------------------
(* What a request is given without running is the answer of a run that has *)
(* succeeded, under the same key and for the same body, however often the  *)
(* key has failed, lapsed and been taken over before.                      *)
ReplayIsGenuine ==
  \A r \in Requests :
    replay[r] # NoJob =>
      [id |-> replay[r].answer, body |-> replay[r].body]
        \in answers[replay[r].key]

(* As long as no run under a key has failed or outlived its lock, the      *)
(* handler has succeeded at most once, and what it answered is what the    *)
(* key says once it is COMPLETED: requests that come at the same time, in  *)
(* any order, and processes that die, do not repeat it.                    *)
RunsOnceUnlessExcused ==
  \A k \in Keys :
    ~excused[k] =>
      /\ \A a, b \in answers[k] : a = b
      /\ row[k] # NoRow /\ row[k].status = "COMPLETED"
           => answers[k] = {[id |-> row[k].answer, body |-> row[k].body]}

(* An answer that has been stored is not taken back, unless a run failed   *)
(* or outlived its lock: every later request is given the same.            *)
StoredAnswerStands ==
  [][\A k \in Keys :
       ~excused[k] /\ row[k] # NoRow /\ row[k].status = "COMPLETED"
         => row'[k] = row[k]]_vars

(* What a request is still waiting for, and what it was given without work.*)
Asked ==
  [r \in Requests |->
     IF pc[r] \in {"create", "read", "take", "run"}
     THEN [key |-> job[r].key, body |-> job[r].body] ELSE NoJob]

Told ==
  [r \in Requests |->
     IF replay[r] = NoJob THEN NoJob
     ELSE [key |-> replay[r].key,
           answer |-> [id |-> replay[r].answer, body |-> replay[r].body]]]

Promise == INSTANCE KeyedAnswers
             WITH Ids <- 1..MaxRuns, Nothing <- NoJob, asked <- Asked,
                  given <- answers, told <- Told, waived <- excused

(* A key is what KeyedAnswers promises: requests under it that come at the *)
(* same time or again are worked on once, told that work's answer if they  *)
(* are the same request, or turned away, until a run has failed or         *)
(* outlived its lock.                                                      *)
KeyPromise == Promise!Spec
=============================================================================
