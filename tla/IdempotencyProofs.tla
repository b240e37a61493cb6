-------------------------- MODULE IdempotencyProofs -------------------------
(***************************************************************************)
(* Proofs about Idempotency, for any keys, bodies, concurrent requests,    *)
(* runs and faults.                                                        *)
(***************************************************************************)
EXTENDS Idempotency, FiniteSetTheorems, TLAPS

(* How a request goes on, learns something and ends.                       *)
LEMMA GotoType ==
  ASSUME JobsOK, NEW r \in Requests, pc[r] # "idle",
         NEW at \in Pcs \ {"idle"}, Goto(r, at), UNCHANGED job
  PROVE  JobsOK'
BY DEF Goto, JobsOK

LEMMA BeginType ==
  ASSUME JobsOK, NEW r \in Requests, NEW at \in Pcs \ {"idle"}, NEW j \in Jobs,
         Goto(r, at), job' = [job EXCEPT ![r] = j]
  PROVE  JobsOK'
<1>1. j # NoJob
  BY IdempotencyAssumption
<1> QED
  BY <1>1 DEF Goto, JobsOK

LEMMA FinishType ==
  ASSUME JobsOK, NEW r \in Requests, Finish(r)
  PROVE  JobsOK'
BY DEF Finish, Goto, JobsOK, Pcs

LEMMA AtWork ==
  ASSUME JobsOK, NEW r \in Requests, pc[r] # "idle"
  PROVE  /\ job[r] \in Jobs
         /\ job[r].key \in Keys
         /\ job[r].body \in Bodies
         /\ job[r].answer \in 0..MaxRuns
<1>1. job[r] \in Jobs
  BY DEF JobsOK
<1> QED
  BY <1>1 DEF Jobs

LEMMA RowFields ==
  ASSUME RowsOK, NEW k \in Keys, row[k] # NoRow
  PROVE  row[k] \in Rows /\ row[k].body \in Bodies
<1>1. row[k] \in Rows
  BY DEF RowsOK
<1> QED
  BY <1>1 DEF Rows

(* A row that changes its status and answer keeps its body.                *)
LEMMA RowUpdate ==
  ASSUME NEW old \in Rows, NEW s \in {"IN_PROGRESS", "COMPLETED", "FAILED"},
         NEW a \in 0..MaxRuns
  PROVE  LET new == [old EXCEPT !.status = s, !.answer = a]
         IN  /\ new \in Rows
             /\ new.status = s /\ new.answer = a /\ new.body = old.body
BY DEF Rows

LEMMA RowsAreRows ==
  ASSUME NEW k \in Keys, NEW new \in Rows, RowsOK,
         row' = [row EXCEPT ![k] = new],
         lapsed' \in [Keys -> BOOLEAN], excused' \in [Keys -> BOOLEAN],
         UNCHANGED answers
  PROVE  RowsOK'
BY DEF RowsOK

LEMMA NewRow ==
  ASSUME NEW body \in Bodies
  PROVE  /\ InProgress(body) \in Rows
         /\ InProgress(body) # NoRow
         /\ InProgress(body).status = "IN_PROGRESS"
         /\ InProgress(body).body = body
BY IdempotencyAssumption DEF InProgress, Rows

LEMMA TypeInit ==
  ASSUME Init PROVE TypeOK
BY IdempotencyAssumption
   DEF Init, TypeOK, RowsOK, JobsOK, Pcs, Answers

LEMMA TypeCall ==
  ASSUME TypeOK, NEW r \in Requests, NEW k \in Keys, NEW body \in Bodies,
         Call(r, k, body)
  PROVE  TypeOK'
<1> DEFINE j == [key |-> k, body |-> body, answer |-> 0]
<1>1. j \in Jobs
  BY IdempotencyAssumption DEF Jobs
<1>2. JobsOK'
  <2>1. job' = [job EXCEPT ![r] = j] /\ Goto(r, "create")
    BY DEF Call
  <2> HIDE DEF j
  <2> QED
    BY <1>1, <2>1, BeginType DEF TypeOK, Pcs
<1>3. RowsOK'
  BY DEF Call, TypeOK, RowsOK
<1>4. replay' \in [Requests -> Replays \cup {NoJob}] /\ faults' \in 0..MaxFaults
  BY DEF Call, TypeOK
<1> QED
  BY <1>2, <1>3, <1>4 DEF TypeOK

LEMMA TypeCreate ==
  ASSUME TypeOK, NEW r \in Requests, Create(r)
  PROVE  TypeOK'
<1> DEFINE k == job[r].key
<1>1. pc[r] = "create" /\ pc[r] # "idle"
  BY DEF Create
<1>2. k \in Keys /\ job[r].body \in Bodies
  BY <1>1, AtWork DEF TypeOK
<1>3. UNCHANGED <<job, answers, replay, excused, faults>>
  BY DEF Create
<1>4. JobsOK'
  <2>1. Goto(r, "run") \/ Goto(r, "read")
    BY DEF Create
  <2> QED
    BY <1>1, <1>3, <2>1, GotoType DEF TypeOK, Pcs
<1>5. RowsOK'
  <2>1. CASE UNCHANGED <<row, lapsed>>
    BY <1>3, <2>1 DEF TypeOK, RowsOK
  <2>2. CASE /\ row' = [row EXCEPT ![k] = InProgress(job[r].body)]
             /\ lapsed' = [lapsed EXCEPT ![k] = FALSE]
    <3>1. InProgress(job[r].body) \in Rows
      BY <1>2, NewRow
    <3>2. lapsed' \in [Keys -> BOOLEAN] /\ excused' \in [Keys -> BOOLEAN]
      BY <1>3, <2>2 DEF TypeOK, RowsOK
    <3> HIDE DEF k
    <3> QED
      BY <1>2, <1>3, <2>2, <3>1, <3>2, RowsAreRows DEF TypeOK
  <2> QED
    BY <2>1, <2>2 DEF Create
<1> QED
  BY <1>3, <1>4, <1>5 DEF TypeOK

LEMMA TypeReadExisting ==
  ASSUME TypeOK, NEW r \in Requests, ReadExisting(r), row[job[r].key] # NoRow
  PROVE  TypeOK'
<1> DEFINE k == job[r].key
<1>1. pc[r] = "read" /\ pc[r] # "idle"
  BY DEF ReadExisting
<1>2. k \in Keys /\ job[r].body \in Bodies
  BY <1>1, AtWork DEF TypeOK
<1>3. UNCHANGED <<row, lapsed, answers, excused, faults>>
  BY DEF ReadExisting
<1>4. RowsOK' /\ faults' \in 0..MaxFaults
  BY <1>3 DEF TypeOK, RowsOK
<1>5. JobsOK'
  <2>1. Finish(r) \/ (Goto(r, "take") /\ UNCHANGED job)
    BY DEF ReadExisting
  <2> QED
    BY <1>1, <2>1, FinishType, GotoType DEF TypeOK, Pcs
<1>6. replay' \in [Requests -> Replays \cup {NoJob}]
  <2>1. row[k].answer \in 0..MaxRuns
    BY <1>2, RowFields DEF TypeOK, Rows
  <2> DEFINE what == [key |-> k, body |-> job[r].body, answer |-> row[k].answer]
  <2>2. what \in Replays
    BY <1>2, <2>1 DEF Replays
  <2>3. UNCHANGED replay \/ replay' = [replay EXCEPT ![r] = what]
    BY DEF ReadExisting
  <2> HIDE DEF what
  <2> QED
    BY <2>2, <2>3 DEF TypeOK
<1> QED
  BY <1>4, <1>5, <1>6 DEF TypeOK

(* The steps that write the row of a key by id.                            *)
LEMMA TypeWrite ==
  ASSUME TypeOK, NEW r \in Requests, row[job[r].key] # NoRow,
         TakeOver(r) \/ MarkCompleted(r) \/ MarkFailed(r)
  PROVE  TypeOK'
<1> DEFINE k == job[r].key
<1>1. pc[r] # "idle"
  BY DEF TakeOver, MarkCompleted, MarkFailed
<1>2. k \in Keys /\ job[r].answer \in 0..MaxRuns /\ 0 \in 0..MaxRuns
  BY <1>1, AtWork, IdempotencyAssumption DEF TypeOK
<1>3. row[k] \in Rows
  BY <1>2, RowFields DEF TypeOK
<1>4. \E s \in {"IN_PROGRESS", "COMPLETED", "FAILED"}, a \in 0..MaxRuns :
        row' = [row EXCEPT ![k] = [row[k] EXCEPT !.status = s, !.answer = a]]
  BY <1>2 DEF TakeOver, MarkCompleted, MarkFailed, FailedRow
<1>5. PICK new \in Rows : row' = [row EXCEPT ![k] = new]
  BY <1>3, <1>4, RowUpdate
<1>6. UNCHANGED <<answers, replay, faults>>
  BY DEF TakeOver, MarkCompleted, MarkFailed
<1>7. lapsed' \in [Keys -> BOOLEAN] /\ excused' \in [Keys -> BOOLEAN]
  BY DEF TakeOver, MarkCompleted, MarkFailed, TypeOK, RowsOK
<1>8. RowsOK'
  <2> HIDE DEF k
  <2> QED
    BY <1>2, <1>5, <1>6, <1>7, RowsAreRows DEF TypeOK
<1>9. JobsOK'
  <2>1. Finish(r) \/ (Goto(r, "run") /\ UNCHANGED job)
    BY DEF TakeOver, MarkCompleted, MarkFailed
  <2> QED
    BY <1>1, <2>1, FinishType, GotoType DEF TypeOK, Pcs
<1> QED
  BY <1>6, <1>8, <1>9 DEF TypeOK

LEMMA TypeHandlerAnswers ==
  ASSUME TypeOK, NEW r \in Requests, HandlerAnswers(r)
  PROVE  TypeOK'
<1> DEFINE k == job[r].key
           a == [id |-> NextRun, body |-> job[r].body]
           new == [job[r] EXCEPT !.answer = NextRun]
<1>1. pc[r] # "idle" /\ NextRun \in 1..MaxRuns
  BY DEF HandlerAnswers
<1>2. k \in Keys /\ job[r].body \in Bodies /\ job[r] \in Jobs
  BY <1>1, AtWork DEF TypeOK
<1>3. /\ answers' = [answers EXCEPT ![k] = answers[k] \cup {a}]
      /\ job' = [job EXCEPT ![r] = new] /\ Goto(r, "complete")
      /\ UNCHANGED <<row, lapsed, replay, excused, faults>>
  BY DEF HandlerAnswers
<1>4. NextRun \in 0..MaxRuns
  BY <1>1
<1>5. new \in Jobs
  BY <1>2, <1>4 DEF Jobs
<1>6. JobsOK'
  <2> HIDE DEF new
  <2> QED
    BY <1>3, <1>5, BeginType DEF TypeOK, Pcs
<1>7. RowsOK'
  <2>1. a \in Answers
    BY <1>1, <1>2 DEF Answers
  <2> HIDE DEF a, k
  <2> QED
    BY <1>2, <1>3, <2>1 DEF TypeOK, RowsOK
<1> QED
  BY <1>3, <1>6, <1>7 DEF TypeOK

LEMMA TypeOther ==
  ASSUME TypeOK, NEW r \in Requests,
         HandlerThrows(r) \/ MarkCompletedThrows(r) \/ Dies(r)
  PROVE  TypeOK'
<1>1. pc[r] # "idle"
  BY DEF HandlerThrows, MarkCompletedThrows, Dies
<1>2. UNCHANGED <<row, lapsed, answers, replay, excused>>
  BY DEF HandlerThrows, MarkCompletedThrows, Dies
<1>3. RowsOK'
  BY <1>2 DEF TypeOK, RowsOK
<1>4. JobsOK'
  <2>1. Finish(r) \/ (Goto(r, "fail") /\ UNCHANGED job)
    BY DEF HandlerThrows, MarkCompletedThrows, Dies
  <2> QED
    BY <1>1, <2>1, FinishType, GotoType DEF TypeOK, Pcs
<1>5. faults' \in 0..MaxFaults
  BY IdempotencyAssumption DEF HandlerThrows, MarkCompletedThrows, Dies, TypeOK
<1> QED
  BY <1>2, <1>3, <1>4, <1>5 DEF TypeOK
-----------------------------------------------------------------------------
(* A request that goes on from a row of its key was for that row's body.   *)
Reserved ==
  \A r \in Requests :
    /\ pc[r] \notin {"idle", "create"} => row[job[r].key] # NoRow
    /\ pc[r] \in {"take", "run", "complete", "fail"}
         => row[job[r].key].body = job[r].body

(* What a row has stored, and what a request is about to store, has been   *)
(* answered by a run.                                                      *)
StoredWasAnswered ==
  \A k \in Keys :
    row[k] # NoRow /\ row[k].status = "COMPLETED"
      => [id |-> row[k].answer, body |-> row[k].body] \in answers[k]

OwnAnswer(r) == [id |-> job[r].answer, body |-> job[r].body]

CompletionsAreAnswered ==
  \A r \in Requests : pc[r] = "complete" => OwnAnswer(r) \in answers[job[r].key]

(* A key nobody has excused: its lock holds, nobody is about to take it    *)
(* over, and at most one request works under it, on the only answer.       *)
Works(r, k) == pc[r] \in {"run", "complete", "fail"} /\ job[r].key = k

Once(k) ==
  ~excused[k] =>
    /\ ~lapsed[k]
    /\ \A r \in Requests : pc[r] = "take" => job[r].key # k
    /\ \A r, q \in Requests : Works(r, k) /\ Works(q, k) => r = q
    /\ \A r \in Requests : Works(r, k) /\ pc[r] = "run" => answers[k] = {}
    /\ \A a, b \in answers[k] : a = b
    /\ row[k] = NoRow => answers[k] = {}
    /\ row[k] # NoRow => row[k].status # "FAILED"
    /\ row[k] # NoRow /\ row[k].status = "COMPLETED"
         => \A r \in Requests : ~Works(r, k)

RunsOnce == \A k \in Keys : Once(k)

IInv ==
  /\ TypeOK /\ Reserved /\ StoredWasAnswered /\ CompletionsAreAnswered
  /\ ReplayIsGenuine /\ RunsOnce

LEMMA TypeStep ==
  ASSUME TypeOK, Reserved, [Next]_vars
  PROVE  TypeOK'
<1>1. CASE UNCHANGED vars
  BY <1>1 DEF vars, jobVars, TypeOK, RowsOK, JobsOK
<1>2. ASSUME NEW r \in Requests, RequestStep(r)
      PROVE  TypeOK'
  <2>1. pc[r] \notin {"idle", "create"} => row[job[r].key] # NoRow
    BY DEF Reserved
  <2>2. CASE \E k \in Keys, body \in Bodies : Call(r, k, body)
    BY <2>2, TypeCall
  <2>3. CASE Create(r)
    BY <2>3, TypeCreate
  <2>4. CASE ReadExisting(r)
    BY <2>1, <2>4, TypeReadExisting DEF ReadExisting
  <2>5. CASE TakeOver(r) \/ MarkCompleted(r) \/ MarkFailed(r)
    BY <2>1, <2>5, TypeWrite DEF TakeOver, MarkCompleted, MarkFailed
  <2>6. CASE HandlerAnswers(r)
    BY <2>6, TypeHandlerAnswers
  <2>7. CASE HandlerThrows(r) \/ MarkCompletedThrows(r) \/ Dies(r)
    BY <2>7, TypeOther
  <2> QED
    BY <1>2, <2>2, <2>3, <2>4, <2>5, <2>6, <2>7 DEF RequestStep
<1>3. ASSUME NEW k \in Keys, LockLapses(k)
      PROVE  TypeOK'
  <2>1. RowsOK'
    BY <1>3 DEF LockLapses, TypeOK, RowsOK
  <2>2. JobsOK'
    BY <1>3 DEF LockLapses, jobVars, TypeOK, JobsOK
  <2> QED
    BY <1>3, <2>1, <2>2 DEF LockLapses, TypeOK
<1> QED
  BY <1>1, <1>2, <1>3 DEF Next
-----------------------------------------------------------------------------
(* What every step keeps.                                                  *)

(* A request's step is its own.                                            *)
LEMMA OthersKept ==
  ASSUME TypeOK, NEW r \in Requests, RequestStep(r)
  PROVE  \A q \in Requests \ {r} :
           pc'[q] = pc[q] /\ job'[q] = job[q] /\ replay'[q] = replay[q]
<1>1. \E at \in Pcs : Goto(r, at)
  BY DEF RequestStep, Call, Create, ReadExisting, TakeOver, HandlerAnswers,
         HandlerThrows, MarkCompleted, MarkCompletedThrows, MarkFailed, Dies,
         Finish, Pcs
<1>2. UNCHANGED job \/ \E j : job' = [job EXCEPT ![r] = j]
  BY DEF RequestStep, Call, Create, ReadExisting, TakeOver, HandlerAnswers,
         HandlerThrows, MarkCompleted, MarkCompletedThrows, MarkFailed, Dies,
         Finish
<1>3. UNCHANGED replay \/ \E j : replay' = [replay EXCEPT ![r] = j]
  BY DEF RequestStep, Call, Create, ReadExisting, TakeOver, HandlerAnswers,
         HandlerThrows, MarkCompleted, MarkCompletedThrows, MarkFailed, Dies
<1>4. /\ \A q \in Requests \ {r} : pc'[q] = pc[q]
  BY <1>1 DEF Goto, TypeOK, JobsOK
<1>5. \A q \in Requests \ {r} : job'[q] = job[q]
  BY <1>2 DEF TypeOK, JobsOK
<1>6. \A q \in Requests \ {r} : replay'[q] = replay[q]
  BY <1>3 DEF TypeOK
<1> QED
  BY <1>4, <1>5, <1>6

(* How a step of a request changes the row of its key, and no other.       *)
LEMMA RowOfStep ==
  ASSUME TypeOK, Reserved, NEW r \in Requests, RequestStep(r)
  PROVE  \/ UNCHANGED row
         \/ /\ Create(r) /\ row[job[r].key] = NoRow /\ job[r].key \in Keys
            /\ row' = [row EXCEPT ![job[r].key] = InProgress(job[r].body)]
         \/ /\ TakeOver(r) \/ MarkCompleted(r) \/ MarkFailed(r)
            /\ job[r].key \in Keys /\ row[job[r].key] \in Rows
            /\ \E new \in Rows :
                 /\ row' = [row EXCEPT ![job[r].key] = new]
                 /\ new.body = row[job[r].key].body
                 /\ TakeOver(r) => new.status = "IN_PROGRESS"
                 /\ MarkCompleted(r) => /\ new.status = "COMPLETED"
                                        /\ new.answer = job[r].answer
                 /\ MarkFailed(r) => new.status = "FAILED"
<1> DEFINE k == job[r].key
<1>1. CASE TakeOver(r) \/ MarkCompleted(r) \/ MarkFailed(r)
  <2>1. pc[r] \notin {"idle", "create"}
    BY <1>1 DEF TakeOver, MarkCompleted, MarkFailed
  <2>2. k \in Keys /\ job[r].answer \in 0..MaxRuns /\ 0 \in 0..MaxRuns
    BY <2>1, AtWork, IdempotencyAssumption DEF TypeOK
  <2>3. row[k] \in Rows
    BY <2>1, <2>2, RowFields DEF TypeOK, Reserved
  <2>4. CASE TakeOver(r)
    <3> DEFINE new == [row[k] EXCEPT !.status = "IN_PROGRESS", !.answer = 0]
    <3>1. new \in Rows /\ new.status = "IN_PROGRESS" /\ new.body = row[k].body
      BY <2>2, <2>3 DEF Rows
    <3>2. row' = [row EXCEPT ![k] = new]
      BY <2>4 DEF TakeOver
    <3>3. ~MarkCompleted(r) /\ ~MarkFailed(r)
      BY <2>4 DEF TakeOver, MarkCompleted, MarkFailed
    <3> HIDE DEF new
    <3> QED
      BY <2>2, <2>3, <2>4, <3>1, <3>2, <3>3
  <2>5. CASE MarkCompleted(r)
    <3> DEFINE new == [row[k] EXCEPT !.status = "COMPLETED",
                                     !.answer = job[r].answer]
    <3>1. /\ new \in Rows /\ new.status = "COMPLETED"
          /\ new.answer = job[r].answer /\ new.body = row[k].body
      <4>1. \A old \in Rows, a \in 0..MaxRuns :
              LET done == [old EXCEPT !.status = "COMPLETED", !.answer = a]
              IN  /\ done \in Rows /\ done.status = "COMPLETED"
                  /\ done.answer = a /\ done.body = old.body
        BY DEF Rows
      <4> QED
        BY <2>2, <2>3, <4>1
    <3>2. row' = [row EXCEPT ![k] = new]
      BY <2>5 DEF MarkCompleted
    <3>3. ~TakeOver(r) /\ ~MarkFailed(r)
      BY <2>5 DEF TakeOver, MarkCompleted, MarkFailed
    <3> HIDE DEF new
    <3> QED
      BY <2>2, <2>3, <2>5, <3>1, <3>2, <3>3
  <2>6. CASE MarkFailed(r)
    <3> DEFINE new == FailedRow(k)
    <3>1. new \in Rows /\ new.status = "FAILED" /\ new.body = row[k].body
      BY <2>2, <2>3 DEF FailedRow, Rows
    <3>2. row' = [row EXCEPT ![k] = new]
      BY <2>6 DEF MarkFailed
    <3>3. ~TakeOver(r) /\ ~MarkCompleted(r)
      BY <2>6 DEF TakeOver, MarkCompleted, MarkFailed
    <3> HIDE DEF new
    <3> QED
      BY <2>2, <2>3, <2>6, <3>1, <3>2, <3>3
  <2> QED
    BY <1>1, <2>4, <2>5, <2>6
<1>2. CASE Create(r)
  <2>1. k \in Keys
    BY <1>2, AtWork DEF Create, TypeOK
  <2> QED
    BY <1>2, <2>1 DEF Create
<1>3. CASE ~(TakeOver(r) \/ MarkCompleted(r) \/ MarkFailed(r)) /\ ~Create(r)
  BY <1>3 DEF RequestStep, Call, ReadExisting, HandlerAnswers, HandlerThrows,
              MarkCompletedThrows, Dies
<1> QED
  BY <1>1, <1>2, <1>3

(* A row stays, with its body; answers are only added, and excuses too.    *)
LEMMA Kept ==
  ASSUME TypeOK, Reserved, [Next]_vars, NEW k \in Keys
  PROVE  /\ row[k] # NoRow => row'[k] # NoRow /\ row'[k].body = row[k].body
         /\ answers[k] \subseteq answers'[k]
         /\ excused[k] => excused'[k]
<1>1. row[k] # NoRow => row'[k] # NoRow /\ row'[k].body = row[k].body
  <2>1. CASE UNCHANGED row
    BY <2>1
  <2>2. ASSUME NEW r \in Requests, RequestStep(r)
        PROVE  row[k] # NoRow => row'[k] # NoRow /\ row'[k].body = row[k].body
    BY <2>2, RowOfStep, IdempotencyAssumption DEF TypeOK, RowsOK
  <2> QED
    BY <2>1, <2>2 DEF Next, LockLapses, vars
<1>2. answers[k] \subseteq answers'[k]
  <2>1. CASE UNCHANGED answers
    BY <2>1
  <2>2. ASSUME NEW r \in Requests, HandlerAnswers(r)
        PROVE  answers[k] \subseteq answers'[k]
    BY <2>2 DEF HandlerAnswers, TypeOK, RowsOK
  <2> QED
    BY <2>1, <2>2
    DEF Next, LockLapses, vars, RequestStep, Call, Create, ReadExisting,
        TakeOver, HandlerThrows, MarkCompleted, MarkCompletedThrows,
        MarkFailed, Dies
<1>3. excused[k] => excused'[k]
  <2>1. UNCHANGED excused \/ \E l : excused' = [excused EXCEPT ![l] = TRUE]
    BY DEF Next, LockLapses, vars, RequestStep, Call, Create, ReadExisting,
           TakeOver, HandlerAnswers, HandlerThrows, MarkCompleted,
           MarkCompletedThrows, MarkFailed, Dies
  <2> QED
    BY <2>1 DEF TypeOK, RowsOK
<1> QED
  BY <1>1, <1>2, <1>3
-----------------------------------------------------------------------------
(* Preservation, one lemma per part of the invariant.                      *)

LEMMA ReservedStep ==
  ASSUME TypeOK, Reserved, [Next]_vars
  PROVE  Reserved'
<1> DEFINE Of(q) ==
      /\ pc[q] \notin {"idle", "create"} => row[job[q].key] # NoRow
      /\ pc[q] \in {"take", "run", "complete", "fail"}
           => row[job[q].key].body = job[q].body
<1>1. ASSUME NEW q \in Requests, pc'[q] = pc[q], job'[q] = job[q]
      PROVE  Of(q)'
  <2>1. CASE pc[q] \in {"idle", "create"}
    BY <1>1, <2>1
  <2>2. CASE pc[q] \notin {"idle", "create"}
    <3>1. job[q].key \in Keys
      BY <2>2, AtWork DEF TypeOK
    <3>2. Of(q)
      BY DEF Reserved
    <3> QED
      BY <1>1, <2>2, <3>1, <3>2, Kept
  <2> QED
    BY <2>1, <2>2
<1>2. CASE UNCHANGED jobVars
  BY <1>1, <1>2 DEF jobVars, Reserved
<1>3. ASSUME NEW r \in Requests, RequestStep(r)
      PROVE  Of(r)'
  <2> DEFINE k == job[r].key
  <2>1. pc[r] # "idle" => k \in Keys /\ job[r].body \in Bodies
    BY AtWork DEF TypeOK
  <2>2. Of(r)
    BY DEF Reserved
  <2>3. CASE \/ \E l \in Keys, body \in Bodies : Call(r, l, body)
             \/ Finish(r)
    <3>1. pc'[r] \in {"idle", "create"}
      BY <2>3 DEF Call, Finish, Goto, TypeOK, JobsOK
    <3> QED
      BY <3>1
  <2>4. CASE Create(r)
    <3>1. pc'[r] \in {"run", "read"} /\ job'[r] = job[r] /\ k \in Keys
      BY <2>1, <2>4 DEF Create, Goto, TypeOK, JobsOK
    <3>2. CASE row[k] = NoRow
      <4>1. pc[r] = "create" /\ job[r].body \in Bodies
        BY <2>1, <2>4 DEF Create
      <4>2. row' = [row EXCEPT ![k] = InProgress(job[r].body)]
        BY <2>4, <3>2 DEF Create
      <4>3. row'[k] = InProgress(job[r].body)
        BY <3>1, <4>2 DEF TypeOK, RowsOK
      <4> QED
        BY <3>1, <4>1, <4>3, NewRow
    <3>3. CASE row[k] # NoRow
      <4>1. pc'[r] = "read" /\ row' = row
        BY <2>4, <3>3 DEF Create, Goto, TypeOK, JobsOK
      <4> QED
        BY <3>1, <3>3, <4>1
    <3> QED
      BY <3>2, <3>3
  <2>5. CASE ReadExisting(r) /\ ~Finish(r)
    <3>1. /\ pc[r] = "read" /\ row' = row /\ job' = job /\ pc'[r] = "take"
          /\ row[k].body = job[r].body
      BY <2>5 DEF ReadExisting, Goto, SameRequest, TypeOK, JobsOK
    <3> QED
      BY <2>2, <3>1
  <2>6. CASE TakeOver(r) \/ HandlerThrows(r) \/ MarkCompletedThrows(r)
    <3>1. pc[r] \in {"take", "run", "complete"} /\ job' = job /\ k \in Keys
      BY <2>1, <2>6 DEF TakeOver, HandlerThrows, MarkCompletedThrows
    <3> QED
      BY <2>2, <3>1, Kept
  <2>7. CASE HandlerAnswers(r)
    <3>1. pc[r] = "run" /\ row' = row /\ k \in Keys /\ job[r] \in Jobs
      BY <2>7, AtWork DEF HandlerAnswers, TypeOK
    <3>2. job'[r] = [job[r] EXCEPT !.answer = NextRun]
      BY <2>7 DEF HandlerAnswers, TypeOK, JobsOK
    <3>3. job'[r].key = k /\ job'[r].body = job[r].body
      BY <3>1, <3>2 DEF Jobs
    <3> QED
      BY <2>2, <3>1, <3>3
  <2>8. CASE MarkCompleted(r) \/ MarkFailed(r) \/ Dies(r)
    BY <2>3, <2>8 DEF MarkCompleted, MarkFailed, Dies
  <2> QED
    BY <1>3, <2>3, <2>4, <2>5, <2>6, <2>7, <2>8 DEF RequestStep
<1>4. ASSUME NEW r \in Requests, RequestStep(r)
      PROVE  Reserved'
  <2>1. \A q \in Requests \ {r} : Of(q)'
    BY <1>1, <1>4, OthersKept
  <2> QED
    BY <1>3, <1>4, <2>1 DEF Reserved
<1> QED
  BY <1>2, <1>4 DEF Next, LockLapses, vars

LEMMA StoredStep ==
  ASSUME TypeOK, Reserved, StoredWasAnswered, CompletionsAreAnswered,
         [Next]_vars
  PROVE  StoredWasAnswered'
<1> SUFFICES ASSUME NEW k \in Keys, row'[k] # NoRow,
                    row'[k].status = "COMPLETED"
             PROVE  [id |-> row'[k].answer, body |-> row'[k].body] \in answers'[k]
  BY DEF StoredWasAnswered
<1>1. answers[k] \subseteq answers'[k]
  BY Kept
<1>2. CASE row'[k] = row[k]
  BY <1>1, <1>2 DEF StoredWasAnswered
<1>3. ASSUME NEW r \in Requests, RequestStep(r), row'[k] # row[k]
      PROVE  [id |-> row'[k].answer, body |-> row'[k].body] \in answers'[k]
  <2>1. MarkCompleted(r) /\ job[r].key = k
    <3>1. row \in [Keys -> Rows \cup {NoRow}]
      BY DEF TypeOK, RowsOK
    <3>2. CASE /\ Create(r) /\ job[r].key \in Keys
               /\ row' = [row EXCEPT ![job[r].key] = InProgress(job[r].body)]
      <4>1. row'[k] = InProgress(job[r].body)
        BY <1>3, <3>1, <3>2
      <4> QED
        BY <4>1 DEF InProgress
    <3>3. ASSUME TakeOver(r) \/ MarkCompleted(r) \/ MarkFailed(r),
                 job[r].key \in Keys, NEW new \in Rows,
                 row' = [row EXCEPT ![job[r].key] = new],
                 TakeOver(r) => new.status = "IN_PROGRESS",
                 MarkFailed(r) => new.status = "FAILED"
          PROVE  MarkCompleted(r) /\ job[r].key = k
      <4>1. job[r].key = k /\ row'[k] = new
        BY <1>3, <3>1, <3>3
      <4> QED
        BY <3>3, <4>1
    <3> QED
      BY <1>3, <3>2, <3>3, RowOfStep
  <2>2. pc[r] = "complete" /\ row[k].body = job[r].body
    BY <2>1 DEF MarkCompleted, Reserved
  <2>3. row'[k].answer = job[r].answer /\ row'[k].body = row[k].body
    <3>1. PICK new \in Rows : /\ row' = [row EXCEPT ![k] = new]
                              /\ new.body = row[k].body
                              /\ new.answer = job[r].answer
      BY <1>3, <2>1, RowOfStep DEF MarkCompleted, Create
    <3> QED
      BY <3>1 DEF TypeOK, RowsOK
  <2>4. OwnAnswer(r) \in answers[k]
    BY <2>1, <2>2 DEF CompletionsAreAnswered
  <2> QED
    BY <1>1, <2>2, <2>3, <2>4 DEF OwnAnswer
<1> QED
  BY <1>2, <1>3 DEF Next, LockLapses, vars

LEMMA CompletionsStep ==
  ASSUME TypeOK, Reserved, CompletionsAreAnswered, [Next]_vars
  PROVE  CompletionsAreAnswered'
<1> SUFFICES ASSUME NEW q \in Requests, pc'[q] = "complete"
             PROVE  OwnAnswer(q)' \in answers'[job'[q].key]
  BY DEF CompletionsAreAnswered
<1>1. CASE pc'[q] = pc[q] /\ job'[q] = job[q]
  <2>1. job[q].key \in Keys
    BY <1>1, AtWork DEF TypeOK
  <2>2. OwnAnswer(q) \in answers[job[q].key]
    BY <1>1 DEF CompletionsAreAnswered
  <2> QED
    BY <1>1, <2>1, <2>2, Kept DEF OwnAnswer
<1>2. ASSUME RequestStep(q) PROVE OwnAnswer(q)' \in answers'[job'[q].key]
  <2>1. HandlerAnswers(q)
    BY <1>2
    DEF RequestStep, Call, Create, ReadExisting, TakeOver, HandlerThrows,
        MarkCompleted, MarkCompletedThrows, MarkFailed, Dies, Finish, Goto,
        TypeOK, JobsOK
  <2>2. job[q] \in Jobs /\ job[q].key \in Keys
    BY <2>1, AtWork DEF HandlerAnswers, TypeOK
  <2>3. job'[q] = [job[q] EXCEPT !.answer = NextRun]
    BY <2>1 DEF HandlerAnswers, TypeOK, JobsOK
  <2>4. /\ job'[q].key = job[q].key /\ job'[q].body = job[q].body
        /\ job'[q].answer = NextRun
    BY <2>2, <2>3 DEF Jobs
  <2>5. [id |-> NextRun, body |-> job[q].body] \in answers'[job[q].key]
    BY <2>1, <2>2 DEF HandlerAnswers, TypeOK, RowsOK
  <2> QED
    BY <2>4, <2>5 DEF OwnAnswer
<1> QED
  BY <1>1, <1>2, OthersKept DEF Next, LockLapses, vars, jobVars

LEMMA ReplayStep ==
  ASSUME TypeOK, Reserved, StoredWasAnswered, ReplayIsGenuine, [Next]_vars
  PROVE  ReplayIsGenuine'
<1> SUFFICES ASSUME NEW q \in Requests, replay'[q] # NoJob
             PROVE  [id |-> replay'[q].answer, body |-> replay'[q].body]
                      \in answers'[replay'[q].key]
  BY DEF ReplayIsGenuine
<1>1. CASE replay'[q] = replay[q]
  <2>1. replay[q].key \in Keys
    BY <1>1 DEF TypeOK, Replays
  <2> QED
    BY <1>1, <2>1, Kept DEF ReplayIsGenuine
<1>2. ASSUME RequestStep(q), replay'[q] # replay[q]
      PROVE  [id |-> replay'[q].answer, body |-> replay'[q].body]
               \in answers'[replay'[q].key]
  <2> DEFINE k == job[q].key
             what == [key |-> k, body |-> job[q].body, answer |-> row[k].answer]
  <2>1. ReadExisting(q)
    BY <1>2
    DEF RequestStep, Call, Create, TakeOver, HandlerAnswers, HandlerThrows,
        MarkCompleted, MarkCompletedThrows, MarkFailed, Dies, TypeOK
  <2>2. k \in Keys /\ row[k] # NoRow
    BY <2>1, AtWork DEF ReadExisting, TypeOK, Reserved
  <2>3. /\ row[k].status = "COMPLETED" /\ row[k].body = job[q].body
        /\ replay'[q] = what
    BY <1>2, <2>1 DEF ReadExisting, SameRequest, TypeOK
  <2>4. [id |-> row[k].answer, body |-> row[k].body] \in answers'[k]
    BY <2>2, <2>3, Kept DEF StoredWasAnswered
  <2> QED
    BY <2>3, <2>4
<1> QED
  BY <1>1, <1>2, OthersKept DEF Next, LockLapses, vars
-----------------------------------------------------------------------------
(* A step that leaves a key's row alone and gives it no new worker.        *)
LEMMA OnceKept ==
  ASSUME NEW k \in Keys, Once(k),
         row'[k] = row[k], answers'[k] = answers[k],
         lapsed'[k] = lapsed[k], excused'[k] = excused[k],
         \A q \in Requests :
           /\ Works(q, k)' => Works(q, k) /\ (pc'[q] = "run" => pc[q] = "run")
           /\ pc'[q] = "take" /\ job'[q].key = k
                => pc[q] = "take" /\ job[q].key = k
  PROVE  Once(k)'
<1> SUFFICES ASSUME ~excused'[k] PROVE Once(k)'
  BY DEF Once
<1>1. ~excused[k]
  OBVIOUS
<1>2. /\ ~lapsed'[k]
      /\ \A r \in Requests : pc'[r] = "take" => job'[r].key # k
      /\ \A r, q \in Requests : Works(r, k)' /\ Works(q, k)' => r = q
      /\ \A r \in Requests : Works(r, k)' /\ pc'[r] = "run" => answers'[k] = {}
      /\ \A a, b \in answers'[k] : a = b
      /\ row'[k] = NoRow => answers'[k] = {}
      /\ row'[k] # NoRow => row'[k].status # "FAILED"
      /\ row'[k] # NoRow /\ row'[k].status = "COMPLETED"
           => \A r \in Requests : ~Works(r, k)'
  BY <1>1 DEF Once
<1> QED
  BY <1>2 DEF Once

(* A request that goes on without a worker's work.                         *)
LEMMA OnceOfQuietStep ==
  ASSUME TypeOK, NEW r \in Requests, NEW k \in Keys, Once(k), RequestStep(r),
         row'[k] = row[k], answers'[k] = answers[k],
         lapsed'[k] = lapsed[k], excused'[k] = excused[k],
         \/ pc'[r] \in {"idle", "create", "read"}
         \/ pc'[r] = "fail" /\ pc[r] \in {"run", "complete"} /\ job' = job
         \/ job'[r].key # k
  PROVE  Once(k)'
<1>1. \A q \in Requests \ {r} : pc'[q] = pc[q] /\ job'[q] = job[q]
  BY OthersKept
<1>2. /\ Works(r, k)' => Works(r, k) /\ (pc'[r] = "run" => pc[r] = "run")
      /\ ~(pc'[r] = "take" /\ job'[r].key = k)
  BY DEF Works
<1> QED
  BY <1>1, <1>2, OnceKept DEF Works

LEMMA OnceOfCreate ==
  ASSUME TypeOK, Reserved, NEW r \in Requests, Create(r),
         NEW k \in Keys, job[r].key = k, row[k] = NoRow, Once(k)
  PROVE  Once(k)'
<1>1. \A q \in Requests : ~Works(q, k)
  BY DEF Works, Reserved
<1>2. /\ row' = [row EXCEPT ![k] = InProgress(job[r].body)]
      /\ lapsed' = [lapsed EXCEPT ![k] = FALSE] /\ Goto(r, "run")
      /\ UNCHANGED <<job, answers, excused>>
  BY DEF Create
<1>3. ~lapsed'[k]
  BY <1>2 DEF TypeOK, RowsOK
<1>4. row'[k] # NoRow /\ row'[k].status = "IN_PROGRESS"
  <2>1. job[r].body \in Bodies
    BY AtWork DEF Create, TypeOK
  <2>2. row'[k] = InProgress(job[r].body)
    BY <1>2 DEF TypeOK, RowsOK
  <2> QED
    BY <2>1, <2>2, NewRow
<1>5. pc'[r] = "run" /\ \A q \in Requests \ {r} : pc'[q] = pc[q]
  BY <1>2 DEF Goto, TypeOK, JobsOK
<1>6. \A q \in Requests : Works(q, k)' => q = r
  BY <1>1, <1>2, <1>5 DEF Works
<1>7. \A q \in Requests : pc'[q] = "take" => pc[q] = "take" /\ job'[q] = job[q]
  BY <1>2, <1>5
<1> QED
  BY <1>2, <1>3, <1>4, <1>6, <1>7 DEF Once

LEMMA OnceOfAnswer ==
  ASSUME TypeOK, Reserved, NEW r \in Requests, HandlerAnswers(r),
         NEW k \in Keys, job[r].key = k, Once(k)
  PROVE  Once(k)'
<1> SUFFICES ASSUME ~excused[k] PROVE Once(k)'
  BY DEF Once, HandlerAnswers
<1>1. pc[r] = "run" /\ Works(r, k)
  BY DEF HandlerAnswers, Works
<1>2. answers[k] = {} /\ \A q \in Requests : Works(q, k) => q = r
  BY <1>1 DEF Once
<1>3. /\ answers' = [answers EXCEPT ![k] =
                       answers[k] \cup {[id |-> NextRun, body |-> job[r].body]}]
      /\ UNCHANGED <<row, lapsed, excused>>
  BY DEF HandlerAnswers
<1>4. answers'[k] = {[id |-> NextRun, body |-> job[r].body]}
  BY <1>2, <1>3 DEF TypeOK, RowsOK
<1>5. \A q \in Requests \ {r} : pc'[q] = pc[q] /\ job'[q] = job[q]
  BY OthersKept DEF RequestStep
<1>6. pc'[r] = "complete"
  BY DEF HandlerAnswers, Goto, TypeOK, JobsOK
<1>7. \A q \in Requests : Works(q, k)' => q = r
  BY <1>2, <1>5 DEF Works
<1>8. \A q \in Requests : pc'[q] = "take" => pc[q] = "take" /\ job'[q] = job[q]
  BY <1>5, <1>6
<1>9. row[k] # NoRow => row[k].status \notin {"FAILED", "COMPLETED"}
  BY <1>1 DEF Once
<1>10. row[k] # NoRow
  BY <1>1 DEF Reserved
<1> QED
  BY <1>3, <1>4, <1>6, <1>7, <1>8, <1>9, <1>10 DEF Once

LEMMA OnceOfCompletion ==
  ASSUME TypeOK, Reserved, NEW r \in Requests, MarkCompleted(r),
         NEW k \in Keys, job[r].key = k, Once(k)
  PROVE  Once(k)'
<1> SUFFICES ASSUME ~excused[k] PROVE Once(k)'
  BY DEF Once, MarkCompleted
<1>1. pc[r] = "complete" /\ Works(r, k) /\ row[k] # NoRow
  BY DEF MarkCompleted, Works, Reserved
<1>2. \A q \in Requests : Works(q, k) => q = r
  BY <1>1 DEF Once
<1>3. UNCHANGED <<lapsed, answers, excused>> /\ Finish(r)
  BY DEF MarkCompleted
<1>4. row'[k] # NoRow /\ row'[k].status = "COMPLETED"
  <2>1. row[k] \in Rows
    BY <1>1, RowFields DEF TypeOK
  <2>2. row'[k] = [row[k] EXCEPT !.status = "COMPLETED",
                                 !.answer = job[r].answer]
    BY DEF MarkCompleted, TypeOK, RowsOK
  <2>3. row'[k].status = "COMPLETED"
    BY <2>1, <2>2 DEF Rows
  <2> QED
    BY <1>1, <2>3, Kept DEF Next, RequestStep
<1>5. \A q \in Requests \ {r} : pc'[q] = pc[q] /\ job'[q] = job[q]
  BY OthersKept DEF RequestStep
<1>6. pc'[r] = "idle"
  BY <1>3 DEF Finish, Goto, TypeOK, JobsOK
<1>7. \A q \in Requests : ~Works(q, k)'
  BY <1>2, <1>5, <1>6 DEF Works
<1>8. \A q \in Requests : pc'[q] = "take" => pc[q] = "take" /\ job'[q] = job[q]
  BY <1>5, <1>6
<1> QED
  BY <1>3, <1>4, <1>7, <1>8 DEF Once

LEMMA OnceStep ==
  ASSUME TypeOK, Reserved, RunsOnce, NEW r \in Requests, RequestStep(r),
         NEW k \in Keys
  PROVE  Once(k)'
<1>1. Once(k)
  BY DEF RunsOnce
<1>2. \A l \in Keys : excused[l] => excused'[l]
  BY Kept DEF Next
<1>3. CASE excused[k]
  BY <1>2, <1>3 DEF Once
<1> SUFFICES ASSUME ~excused[k] PROVE Once(k)'
  BY <1>3
<1>4. pc[r] # "idle" => job[r].key \in Keys
  BY AtWork DEF TypeOK
<1>5. ASSUME NEW l \in Keys, NEW body \in Bodies, Call(r, l, body)
      PROVE  Once(k)'
  BY <1>1, <1>5, OnceOfQuietStep DEF Call, Goto, TypeOK, JobsOK
<1>6. CASE Create(r)
  <2>1. CASE job[r].key = k /\ row[k] = NoRow
    BY <1>1, <1>6, <2>1, OnceOfCreate
  <2>2. CASE UNCHANGED row /\ Goto(r, "read")
    <3>1. UNCHANGED <<row, lapsed, answers, excused>>
      BY <1>6, <2>2 DEF Create, Goto, TypeOK, JobsOK
    <3>2. pc'[r] = "read"
      BY <2>2 DEF Goto, TypeOK, JobsOK
    <3> QED
      BY <1>1, <3>1, <3>2, OnceOfQuietStep
  <2>3. CASE job[r].key # k
    <3>1. row'[k] = row[k] /\ lapsed'[k] = lapsed[k]
      BY <1>6, <2>3 DEF Create, TypeOK, RowsOK
    <3> QED
      BY <1>1, <1>6, <2>3, <3>1, OnceOfQuietStep DEF Create
  <2> QED
    BY <1>6, <2>1, <2>2, <2>3 DEF Create
<1>7. CASE ReadExisting(r)
  <2>1. UNCHANGED <<row, lapsed, answers, excused>>
    BY <1>7 DEF ReadExisting
  <2>2. CASE Finish(r)
    BY <1>1, <2>1, <2>2, OnceOfQuietStep DEF Finish, Goto, TypeOK, JobsOK
  <2>3. CASE /\ row[job[r].key].status # "COMPLETED" /\ ~Locked(job[r].key)
             /\ job' = job
    <3>1. pc[r] = "read" /\ row[job[r].key] # NoRow
      BY <1>7 DEF ReadExisting, Reserved
    <3>2. job[r].key # k
      <4>1. row[k] # NoRow => row[k].status \in {"IN_PROGRESS", "COMPLETED", "FAILED"}
        BY DEF TypeOK, RowsOK, Rows
      <4> QED
        BY <1>1, <2>3, <3>1, <4>1 DEF Once, Locked
    <3> QED
      BY <1>1, <2>1, <2>3, <3>2, OnceOfQuietStep
  <2> QED
    BY <1>7, <2>2, <2>3 DEF ReadExisting
<1>8. CASE TakeOver(r)
  <2>1. pc[r] = "take" /\ job[r].key # k
    BY <1>1, <1>8 DEF TakeOver, Once
  <2>2. row'[k] = row[k] /\ lapsed'[k] = lapsed[k]
    BY <1>8, <2>1 DEF TakeOver, TypeOK, RowsOK
  <2> QED
    BY <1>1, <1>8, <2>1, <2>2, OnceOfQuietStep DEF TakeOver
<1>9. CASE HandlerAnswers(r)
  <2>1. CASE job[r].key = k
    BY <1>1, <1>9, <2>1, OnceOfAnswer
  <2>2. CASE job[r].key # k
    <3>1. pc[r] = "run" /\ job[r] \in Jobs
      BY <1>9, AtWork DEF HandlerAnswers, TypeOK
    <3>2. job'[r] = [job[r] EXCEPT !.answer = NextRun]
      BY <1>9 DEF HandlerAnswers, TypeOK, JobsOK
    <3>3. job'[r].key # k
      BY <2>2, <3>1, <3>2 DEF Jobs
    <3>4. answers'[k] = answers[k]
      BY <1>9, <2>2 DEF HandlerAnswers, TypeOK, RowsOK
    <3> QED
      BY <1>1, <1>9, <3>3, <3>4, OnceOfQuietStep DEF HandlerAnswers
  <2> QED
    BY <2>1, <2>2
<1>10. CASE HandlerThrows(r) \/ MarkCompletedThrows(r)
  <2>1. /\ UNCHANGED <<row, lapsed, answers, excused, job>>
        /\ Goto(r, "fail") /\ pc[r] \in {"run", "complete"}
    BY <1>10 DEF HandlerThrows, MarkCompletedThrows
  <2>2. pc'[r] = "fail"
    BY <2>1 DEF Goto, TypeOK, JobsOK
  <2> QED
    BY <1>1, <2>1, <2>2, OnceOfQuietStep
<1>11. CASE MarkCompleted(r)
  <2>1. CASE job[r].key = k
    BY <1>1, <1>11, <2>1, OnceOfCompletion
  <2>2. CASE job[r].key # k
    <3>1. row'[k] = row[k]
      BY <1>11, <2>2 DEF MarkCompleted, TypeOK, RowsOK
    <3>2. pc'[r] = "idle"
      BY <1>11 DEF MarkCompleted, Finish, Goto, TypeOK, JobsOK
    <3> QED
      BY <1>1, <1>11, <3>1, <3>2, OnceOfQuietStep DEF MarkCompleted
  <2> QED
    BY <2>1, <2>2
<1>12. CASE MarkFailed(r)
  <2>1. CASE job[r].key = k
    <3>1. excused'[k]
      BY <1>12, <2>1 DEF MarkFailed, TypeOK, RowsOK
    <3> QED
      BY <3>1 DEF Once
  <2>2. CASE job[r].key # k
    <3>1. row'[k] = row[k] /\ excused'[k] = excused[k]
      BY <1>12, <2>2 DEF MarkFailed, TypeOK, RowsOK
    <3>2. pc'[r] = "idle"
      BY <1>12 DEF MarkFailed, Finish, Goto, TypeOK, JobsOK
    <3> QED
      BY <1>1, <1>12, <3>1, <3>2, OnceOfQuietStep DEF MarkFailed
  <2> QED
    BY <2>1, <2>2
<1>13. CASE Dies(r)
  BY <1>1, <1>13, OnceOfQuietStep DEF Dies, Finish, Goto, TypeOK, JobsOK
<1> QED
  BY <1>5, <1>6, <1>7, <1>8, <1>9, <1>10, <1>11, <1>12, <1>13 DEF RequestStep

LEMMA OnceOfLapse ==
  ASSUME TypeOK, RunsOnce, NEW l \in Keys, LockLapses(l), NEW k \in Keys
  PROVE  Once(k)'
<1>1. Once(k) /\ UNCHANGED <<row, pc, job, answers>>
  BY DEF RunsOnce, LockLapses, jobVars
<1>2. CASE k = l
  <2>1. excused'[k]
    BY <1>2 DEF LockLapses, TypeOK, RowsOK
  <2> QED
    BY <2>1 DEF Once
<1>3. CASE k # l
  <2>1. lapsed'[k] = lapsed[k] /\ excused'[k] = excused[k]
    BY <1>3 DEF LockLapses, TypeOK, RowsOK
  <2> QED
    BY <1>1, <2>1, OnceKept DEF Works
<1> QED
  BY <1>2, <1>3

THEOREM Invariance == Spec => []IInv
<1>1. Init => IInv
  BY TypeInit
  DEF Init, IInv, Reserved, StoredWasAnswered, CompletionsAreAnswered,
      ReplayIsGenuine, RunsOnce, Once, Works
<1>2. IInv /\ [Next]_vars => IInv'
  <2> SUFFICES ASSUME IInv, [Next]_vars PROVE IInv'
    OBVIOUS
  <2>1. /\ TypeOK' /\ Reserved' /\ StoredWasAnswered'
        /\ CompletionsAreAnswered' /\ ReplayIsGenuine'
    BY TypeStep, ReservedStep, StoredStep, CompletionsStep, ReplayStep
    DEF IInv
  <2>2. ASSUME NEW k \in Keys PROVE Once(k)'
    <3>1. CASE UNCHANGED vars
      BY <3>1, OnceKept DEF IInv, RunsOnce, vars, jobVars, Works
    <3>2. CASE Next
      BY <3>2, OnceStep, OnceOfLapse DEF IInv, Next
    <3> QED
      BY <3>1, <3>2
  <2> QED
    BY <2>1, <2>2 DEF IInv, RunsOnce
<1> QED
  BY <1>1, <1>2, PTL DEF Spec
-----------------------------------------------------------------------------
(* Rows, requests, answers and replays keep their types: in particular no  *)
(* request of IdempotencyService goes on under a key that has no row.      *)
THEOREM TypeInvariant == Spec => []TypeOK
<1>1. IInv => TypeOK
  BY DEF IInv
<1> QED
  BY <1>1, Invariance, PTL

(* An answer that is replayed has been given by a run that succeeded,      *)
(* under the same key and for the same body.                               *)
THEOREM ReplaysAreGenuine == Spec => []ReplayIsGenuine
<1>1. IInv => ReplayIsGenuine
  BY DEF IInv
<1> QED
  BY <1>1, Invariance, PTL

(* Under a key of which no run has failed or outlived its lock, the        *)
(* handler succeeds at most once, and its answer is the one stored.        *)
THEOREM HandlersRunOnce == Spec => []RunsOnceUnlessExcused
<1>1. ASSUME IInv, NEW k \in Keys, ~excused[k]
      PROVE  /\ \A a, b \in answers[k] : a = b
             /\ row[k] # NoRow /\ row[k].status = "COMPLETED"
                  => answers[k] = {[id |-> row[k].answer, body |-> row[k].body]}
  <2>1. Once(k) /\ StoredWasAnswered
    BY <1>1 DEF IInv, RunsOnce
  <2> QED
    BY <1>1, <2>1 DEF Once, StoredWasAnswered
<1>2. IInv => RunsOnceUnlessExcused
  BY <1>1 DEF RunsOnceUnlessExcused
<1> QED
  BY <1>2, Invariance, PTL

(* As long as that holds of a key, what it has stored stands: neither a    *)
(* late completion nor a take-over writes over it.                         *)
THEOREM AnswersStand == Spec => StoredAnswerStands
<1>1. ASSUME IInv, [Next]_vars, NEW k \in Keys, ~excused[k],
             row[k] # NoRow, row[k].status = "COMPLETED"
      PROVE  row'[k] = row[k]
  <2>1. /\ \A r \in Requests : pc[r] = "take" => job[r].key # k
        /\ \A r \in Requests : ~Works(r, k)
    BY <1>1 DEF IInv, RunsOnce, Once
  <2>2. ASSUME NEW r \in Requests, RequestStep(r)
        PROVE  row'[k] = row[k]
    <3>1. TakeOver(r) \/ MarkCompleted(r) \/ MarkFailed(r) => job[r].key # k
      BY <2>1 DEF Works, TakeOver, MarkCompleted, MarkFailed
    <3>2. row[job[r].key] = NoRow => job[r].key # k
      BY <1>1
    <3>3. UNCHANGED row \/ (/\ job[r].key # k
                            /\ \E new : row' = [row EXCEPT ![job[r].key] = new])
      <4>1. TypeOK /\ Reserved
        BY <1>1 DEF IInv
      <4> QED
        BY <2>2, <3>1, <3>2, <4>1, RowOfStep
    <3> QED
      BY <1>1, <3>3 DEF IInv, TypeOK, RowsOK
  <2> QED
    BY <1>1, <2>2 DEF Next, LockLapses, vars
<1>2. IInv /\ [Next]_vars
        => [\A k \in Keys :
              ~excused[k] /\ row[k] # NoRow /\ row[k].status = "COMPLETED"
                => row'[k] = row[k]]_vars
  BY <1>1
<1> QED
  BY <1>2, Invariance, PTL DEF Spec, StoredAnswerStands
-----------------------------------------------------------------------------
(* Idempotency implements KeyedAnswers.                                    *)

(* Runs are numbered in the order of their success: no number comes twice. *)
RunsAreNumbered == \E n \in Nat : Runs = 1..n

LEMMA NextRunIsNew ==
  ASSUME RunsAreNumbered
  PROVE  NextRun \notin Runs /\ \E n \in Nat : Runs \cup {NextRun} = 1..n
<1>1. PICK n \in Nat : Runs = 1..n
  BY DEF RunsAreNumbered
<1>2. Cardinality(1..n) = n
  BY FS_Interval
<1>3. NextRun = n + 1
  BY <1>1, <1>2 DEF NextRun
<1>4. 1..(n + 1) = 1..n \cup {n + 1}
  OBVIOUS
<1> QED
  BY <1>1, <1>3, <1>4

LEMMA RunsGrow ==
  ASSUME TypeOK, NEW r \in Requests, HandlerAnswers(r)
  PROVE  Runs' = Runs \cup {NextRun}
<1> DEFINE k == job[r].key
           a == [id |-> NextRun, body |-> job[r].body]
<1>1. k \in Keys
  BY AtWork DEF HandlerAnswers, TypeOK
<1>2. answers' = [answers EXCEPT ![k] = answers[k] \cup {a}]
  BY DEF HandlerAnswers
<1>3. a.id = NextRun
  OBVIOUS
<1> HIDE DEF k, a
<1>4. /\ answers'[k] = answers[k] \cup {a}
      /\ \A l \in Keys \ {k} : answers'[l] = answers[l]
  BY <1>1, <1>2 DEF TypeOK, RowsOK
<1>5. \A i : (\E l \in Keys : \E b \in answers'[l] : i = b.id)
               <=> (\E l \in Keys : \E b \in answers[l] : i = b.id)
                     \/ i = NextRun
  BY <1>1, <1>3, <1>4
<1>6. \A i : i \in Runs <=> \E l \in Keys : \E b \in answers[l] : i = b.id
  BY DEF Runs
<1>7. \A i : i \in Runs' <=> \E l \in Keys : \E b \in answers'[l] : i = b.id
  BY DEF Runs
<1> QED
  BY <1>5, <1>6, <1>7

(* Only a run that succeeds answers.                                       *)
LEMMA AnswersOfStep ==
  ASSUME NEW r \in Requests, RequestStep(r), ~HandlerAnswers(r)
  PROVE  UNCHANGED answers
BY DEF RequestStep, Call, Create, ReadExisting, TakeOver, HandlerThrows,
       MarkCompleted, MarkCompletedThrows, MarkFailed, Dies

LEMMA NumberedStep ==
  ASSUME TypeOK, RunsAreNumbered, [Next]_vars
  PROVE  RunsAreNumbered'
<1>1. CASE UNCHANGED answers
  BY <1>1 DEF RunsAreNumbered, Runs
<1>2. ASSUME NEW r \in Requests, HandlerAnswers(r) PROVE RunsAreNumbered'
  BY <1>2, NextRunIsNew, RunsGrow DEF RunsAreNumbered
<1> QED
  BY <1>1, <1>2, AnswersOfStep DEF Next, LockLapses, vars

LEMMA NumberedInit ==
  ASSUME Init PROVE RunsAreNumbered
<1>1. Runs = {}
  BY DEF Init, Runs
<1>2. 1..0 = {}
  OBVIOUS
<1> QED
  BY <1>1, <1>2 DEF RunsAreNumbered

(* A request's step changes what that request asks and is told, only.      *)
LEMMA MappingOfStep ==
  ASSUME TypeOK, NEW r \in Requests, RequestStep(r)
  PROVE  /\ Asked' = [Asked EXCEPT ![r] = Asked'[r]]
         /\ Told' = [Told EXCEPT ![r] = Told'[r]]
<1>1. \A q \in Requests \ {r} :
        pc'[q] = pc[q] /\ job'[q] = job[q] /\ replay'[q] = replay[q]
  BY OthersKept
<1>2. \A q \in Requests \ {r} : Asked'[q] = Asked[q] /\ Told'[q] = Told[q]
  BY <1>1 DEF Asked, Told
<1>3. /\ Asked = [q \in Requests |-> Asked[q]]
      /\ Asked' = [q \in Requests |-> Asked'[q]]
      /\ Told = [q \in Requests |-> Told[q]]
      /\ Told' = [q \in Requests |-> Told'[q]]
  BY DEF Asked, Told
<1> QED
  BY <1>2, <1>3

(* What a request asks as long as it waits, and when it no longer does.    *)
LEMMA AskedOf ==
  ASSUME TypeOK, NEW r \in Requests
  PROVE  /\ pc[r] \in {"create", "read", "take", "run"}
              => /\ Asked[r] = [key |-> job[r].key, body |-> job[r].body]
                 /\ Asked[r] # NoJob
                 /\ Asked[r].key = job[r].key /\ Asked[r].body = job[r].body
         /\ pc[r] \notin {"create", "read", "take", "run"} => Asked[r] = NoJob
<1>1. pc[r] \in {"create", "read", "take", "run"}
        => [key |-> job[r].key, body |-> job[r].body] \in Questions
  BY AtWork DEF TypeOK, Questions
<1> QED
  BY <1>1, IdempotencyAssumption DEF Asked

LEMMA PromiseOfCall ==
  ASSUME TypeOK, TypeOK', NEW r \in Requests, NEW k \in Keys, NEW body \in Bodies,
         Call(r, k, body)
  PROVE  Promise!Ask(r, k, body)
<1>1. Asked[r] = NoJob
  BY AskedOf DEF Call
<1>2. Asked'[r] = [key |-> k, body |-> body]
  <2> DEFINE j == [key |-> k, body |-> body, answer |-> 0]
  <2>1. pc'[r] = "create" /\ job'[r] = j
    BY DEF Call, Goto, TypeOK, JobsOK
  <2> QED
    BY <2>1 DEF Asked
<1>3. Told'[r] = NoJob
  <2>1. replay'[r] = NoJob
    BY DEF Call, TypeOK
  <2> QED
    BY <2>1 DEF Told
<1> QED
  BY <1>1, <1>2, <1>3, MappingOfStep DEF RequestStep, Call, Promise!Ask

LEMMA PromiseOfReplay ==
  ASSUME TypeOK, TypeOK', Reserved, StoredWasAnswered,
         NEW r \in Requests, ReadExisting(r), SameRequest(r),
         row[job[r].key].status = "COMPLETED",
         replay' = [replay EXCEPT ![r] =
                      [key |-> job[r].key, body |-> job[r].body,
                       answer |-> row[job[r].key].answer]],
         Finish(r)
  PROVE  \E id \in 1..MaxRuns, body \in Bodies :
           Promise!Repeat(r, [id |-> id, body |-> body])
<1> DEFINE k == job[r].key
           a == [id |-> row[k].answer, body |-> row[k].body]
           what == [key |-> k, body |-> job[r].body, answer |-> row[k].answer]
<1>1. /\ pc[r] = "read" /\ k \in Keys /\ row[k] # NoRow
      /\ row[k].body = job[r].body
  BY AtWork DEF ReadExisting, SameRequest, TypeOK, Reserved
<1>2. a \in answers[k]
  BY <1>1 DEF StoredWasAnswered
<1>3. row[k].answer \in 1..MaxRuns /\ row[k].body \in Bodies
  <2>1. a \in Answers
    BY <1>1, <1>2 DEF TypeOK, RowsOK
  <2> QED
    BY <2>1 DEF Answers
<1>4. /\ Asked[r] # NoJob /\ Asked[r].key = k /\ Asked[r].body = job[r].body
  BY <1>1, AskedOf
<1>5. Asked'[r] = NoJob
  BY DEF Finish, Goto, TypeOK, JobsOK, Asked
<1>6. Told'[r] = [key |-> k, answer |-> a]
  <2>1. replay'[r] = what
    BY DEF TypeOK
  <2>2. what # NoJob
    <3>1. what \in Replays
      BY <1>1, <1>3, AtWork, IdempotencyAssumption DEF Replays, TypeOK
    <3> QED
      BY <3>1, IdempotencyAssumption
  <2>3. Told'[r] = [key |-> what.key,
                    answer |-> [id |-> what.answer, body |-> what.body]]
    BY <2>1, <2>2 DEF Told
  <2> QED
    BY <1>1, <2>3
<1>7. UNCHANGED <<answers, excused>>
  BY DEF ReadExisting
<1> HIDE DEF k
<1>8. Promise!Repeat(r, a)
  BY <1>1, <1>2, <1>4, <1>5, <1>6, <1>7, MappingOfStep
     DEF RequestStep, Promise!Repeat, Promise!Leave
<1> QED
  BY <1>3, <1>8

LEMMA PromiseOfRun ==
  ASSUME TypeOK, TypeOK', RunsOnce, RunsAreNumbered,
         NEW r \in Requests, HandlerAnswers(r)
  PROVE  \E id \in 1..MaxRuns : Promise!Work(r, id)
<1> DEFINE k == job[r].key
<1>1. pc[r] = "run" /\ k \in Keys /\ NextRun \in 1..MaxRuns
  BY AtWork DEF HandlerAnswers, TypeOK
<1>2. Asked[r] # NoJob /\ Asked[r].key = k /\ Asked[r].body = job[r].body
  BY <1>1, AskedOf
<1>3. Promise!IsNew(NextRun)
  <2>1. \A l \in Keys : \A a \in answers[l] : a.id \in Runs
    BY DEF Runs
  <2> QED
    BY <2>1, NextRunIsNew DEF Promise!IsNew
<1>4. excused[k] \/ answers[k] = {}
  BY <1>1 DEF RunsOnce, Once, Works
<1>5. /\ answers' = [answers EXCEPT ![k] =
                       @ \cup {[id |-> NextRun, body |-> job[r].body]}]
      /\ UNCHANGED <<replay, excused>>
  BY DEF HandlerAnswers
<1>6. Asked'[r] = NoJob
  BY DEF HandlerAnswers, Goto, TypeOK, JobsOK, Asked
<1>7. UNCHANGED Told
  BY <1>5 DEF Told
<1> HIDE DEF k
<1>8. Promise!Work(r, NextRun)
  BY <1>2, <1>3, <1>4, <1>5, <1>6, <1>7, MappingOfStep
     DEF RequestStep, Promise!Work, Promise!Leave
<1> QED
  BY <1>1, <1>8

(* The other steps of a request: it goes on asking the same, or leaves.    *)
LEMMA PromiseOfOther ==
  ASSUME TypeOK, TypeOK', NEW r \in Requests, RequestStep(r),
         UNCHANGED <<answers, replay, excused>>,
         \/ Finish(r)
         \/ /\ UNCHANGED job
            /\ \/ Goto(r, "fail")
               \/ /\ pc[r] \in {"create", "read", "take"}
                  /\ Goto(r, "read") \/ Goto(r, "take") \/ Goto(r, "run")
  PROVE  Promise!TurnAway(r) \/ UNCHANGED <<Asked, answers, Told, excused>>
<1>1. UNCHANGED Told
  BY DEF Told
<1>2. Asked'[r] = NoJob \/ Asked'[r] = Asked[r]
  BY DEF Finish, Goto, TypeOK, JobsOK, Asked
<1>3. Asked' = [Asked EXCEPT ![r] = Asked'[r]]
  BY MappingOfStep
<1>4. CASE Asked'[r] = NoJob
  BY <1>1, <1>3, <1>4 DEF Promise!TurnAway, Promise!Leave
<1>5. CASE Asked'[r] = Asked[r]
  <2>1. Asked' = Asked
    BY <1>3, <1>5 DEF Asked
  <2> QED
    BY <1>1, <2>1
<1> QED
  BY <1>2, <1>4, <1>5

(* A failure and a lapse give the promise up for their key.                *)
LEMMA PromiseOfFailure ==
  ASSUME TypeOK, TypeOK', NEW r \in Requests, MarkFailed(r)
  PROVE  Promise!Waive(job[r].key) /\ job[r].key \in Keys
<1>1. pc[r] = "fail" /\ job[r].key \in Keys
  BY AtWork DEF MarkFailed, TypeOK
<1>2. UNCHANGED Told
  BY DEF MarkFailed, Told
<1>3. Asked'[r] = NoJob /\ Asked[r] = NoJob
  BY <1>1, AskedOf DEF MarkFailed, Finish, Goto, TypeOK, JobsOK, Asked
<1>4. UNCHANGED Asked
  <2>1. Asked' = [Asked EXCEPT ![r] = Asked'[r]]
    BY MappingOfStep DEF RequestStep
  <2> QED
    BY <1>3, <2>1 DEF Asked
<1> QED
  BY <1>1, <1>2, <1>4 DEF MarkFailed, Promise!Waive

LEMMA PromiseOfLapse ==
  ASSUME NEW k \in Keys, LockLapses(k)
  PROVE  Promise!Waive(k)
BY DEF LockLapses, jobVars, Asked, Told, Promise!Waive

LEMMA PromiseStep ==
  ASSUME IInv, IInv', RunsAreNumbered, [Next]_vars
  PROVE  [Promise!Next]_<<Asked, answers, Told, excused>>
<1> USE DEF IInv
<1>1. CASE UNCHANGED vars
  BY <1>1 DEF vars, jobVars, Asked, Told
<1>2. ASSUME NEW k \in Keys, LockLapses(k)
      PROVE  Promise!Next
  BY <1>2, PromiseOfLapse DEF Promise!Next
<1>3. ASSUME NEW r \in Requests, RequestStep(r)
      PROVE  [Promise!Next]_<<Asked, answers, Told, excused>>
  <2>1. CASE \E k \in Keys, body \in Bodies : Call(r, k, body)
    BY <2>1, PromiseOfCall DEF Promise!Next
  <2>2. CASE HandlerAnswers(r)
    BY <2>2, PromiseOfRun DEF Promise!Next
  <2>3. CASE MarkFailed(r)
    BY <2>3, PromiseOfFailure DEF Promise!Next
  <2>4. ASSUME UNCHANGED <<answers, replay, excused>>,
               \/ Finish(r)
               \/ /\ UNCHANGED job
                  /\ \/ Goto(r, "fail")
                     \/ /\ pc[r] \in {"create", "read", "take"}
                        /\ Goto(r, "read") \/ Goto(r, "take") \/ Goto(r, "run")
        PROVE  [Promise!Next]_<<Asked, answers, Told, excused>>
    BY <1>3, <2>4, PromiseOfOther DEF Promise!Next
  <2>5. CASE ReadExisting(r)
    <3>1. CASE UNCHANGED replay
      BY <2>4, <2>5, <3>1 DEF ReadExisting
    <3>2. CASE ~UNCHANGED replay
      BY <2>5, <3>2, PromiseOfReplay DEF ReadExisting, Promise!Next
    <3> QED
      BY <3>1, <3>2
  <2>6. CASE \/ Create(r) \/ TakeOver(r) \/ HandlerThrows(r) \/ MarkCompleted(r)
             \/ MarkCompletedThrows(r) \/ Dies(r)
    BY <2>4, <2>6
       DEF Create, TakeOver, HandlerThrows, MarkCompleted, MarkCompletedThrows,
           Dies
  <2> QED
    BY <1>3, <2>1, <2>2, <2>3, <2>5, <2>6 DEF RequestStep
<1> QED
  BY <1>1, <1>2, <1>3 DEF Next

LEMMA PromiseInit ==
  ASSUME Init PROVE Promise!Init
BY DEF Init, Asked, Told, Promise!Init

(* IdempotencyService implements KeyedAnswers: of the requests that come   *)
(* under a key at the same time or again, at most one is worked on with    *)
(* success, the others are told its answer if they are the same request,   *)
(* and every other is turned away, until a run has failed or outlived its  *)
(* lock.                                                                   *)
THEOREM KeysKeepPromise == Spec => KeyPromise
<1>1. Init => Promise!Init
  BY PromiseInit
<1>2. IInv /\ RunsAreNumbered /\ [Next]_vars => RunsAreNumbered'
  BY NumberedStep DEF IInv
<1>3. IInv /\ IInv' /\ RunsAreNumbered /\ [Next]_vars
        => [Promise!Next]_<<Asked, answers, Told, excused>>
  BY PromiseStep
<1> QED
  BY <1>1, <1>2, <1>3, NumberedInit, Invariance, PTL
     DEF Spec, KeyPromise, Promise!Spec
=============================================================================
