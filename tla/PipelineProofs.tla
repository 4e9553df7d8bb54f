--------------------------- MODULE PipelineProofs ---------------------------
(***************************************************************************)
(* The safety of Pipeline for any documents, workers, attempt and stall    *)
(* limits and any set of faults: one inductive argument per layer of       *)
(* PipelineInvariant.                                                      *)
(***************************************************************************)
EXTENDS PipelineInvariant, TLAPS

USE DEF Reached, Goto, Touch

-----------------------------------------------------------------------------
(* What the statements on a row and the queue operations return.           *)

\* Every statement on a row of the table gives a row.
LEMMA RowTypes ==
  ASSUME NEW r \in Row
  PROVE  /\ NoRow \in Row /\ Created \in Row
         /\ Claimed(r) \in Row /\ RejectedAsPdf(r) \in Row
         /\ Completed(r) \in Row /\ Counted(r) \in Row /\ GivenUp(r) \in Row
<1> USE DEF Row, DocumentStatus
<1>1. NoRow \in Row
  BY DEF NoRow
<1>2. Created \in Row
  BY DEF Created, NoRow
<1>3. Claimed(r) \in Row
  BY DEF Claimed
<1>4. RejectedAsPdf(r) \in Row
  BY DEF RejectedAsPdf
<1>5. Completed(r) \in Row
  BY DEF Completed
<1>6. Counted(r) \in Row
  BY DEF Counted
<1>7. GivenUp(r) \in Row
  BY DEF GivenUp
<1> QED
  BY <1>1, <1>2, <1>3, <1>4, <1>5, <1>6, <1>7

\* Every queue operation leaves a record of well-typed jobs.
LEMMA JobTypes ==
  ASSUME jobs \in [Docs -> Job], NEW d \in Docs, NEW w \in Workers,
         NEW made \in Nat,
         \/ Add(d) \/ Deliver(d, w) \/ Complete(d) \/ Fail(d, made)
         \/ SaveAttempt(d, made) \/ Due(d) \/ Expire(d) \/ Stall(d)
  PROVE  jobs' \in [Docs -> Job]
<1>1. jobs[d].made \in Nat /\ jobs[d].stalls \in Nat
  BY DEF Job
<1> QED
  BY <1>1 DEF Add, Deliver, Complete, Fail, SaveAttempt, Due, Expire, Stall, Job, JobState

-----------------------------------------------------------------------------
(* Types.                                                                  *)

\* A statement of a worker preserves the types.
LEMMA UpdateTypes ==
  ASSUME TypeOK, NEW w \in Workers, run[w] \in Docs, NEW new \in Row,
         NEW next \in WorkerState, NEW thrown \in WorkerState,
         Update(w, new, next, thrown)
  PROVE  TypeOK'
BY DEF TypeOK, Update, WorkerFaults

\* Types and hands are preserved together: a handler step needs a job in hand.
Typed == TypeOK /\ HandsInv

LEMMA TypedInit == Init => Typed
BY QueueAssumption
   DEF Init, Typed, HandsInv, TypeOK, QueueInit, NoJob, Job, JobState, NoRow,
       Row, DocumentStatus, UploadState, WorkerState, InHandler

\* A request, the stall check and the backoff timer preserve them.
LEMMA TypedRequest ==
  ASSUME Typed, NEW d \in Docs, Request(d) \/ UploadFails(d)
  PROVE  Typed'
<1>1. Created \in Row
  BY RowTypes DEF Typed, TypeOK
<1>2. Add(d) => jobs' \in [Docs -> Job]
  BY DEF Add, Typed, TypeOK, Job, JobState
<1>3. CASE RejectUpload(d)
  BY <1>3 DEF RejectUpload, Typed, HandsInv, TypeOK, UploadState
<1>4. CASE SaveFile(d)
  BY <1>4 DEF SaveFile, Typed, HandsInv, TypeOK, UploadState
<1>5. CASE CreateRow(d)
  BY <1>1, <1>5 DEF CreateRow, Typed, HandsInv, TypeOK, UploadState
<1>6. CASE Enqueue(d)
  BY <1>2, <1>6 DEF Enqueue, Typed, HandsInv, TypeOK, UploadState
<1>7. CASE UploadFails(d)
  BY <1>1, <1>2, <1>7 DEF UploadFails, Typed, HandsInv, TypeOK, UploadState
<1> QED
  BY <1>3, <1>4, <1>5, <1>6, <1>7 DEF Request

LEMMA TypedTimer ==
  ASSUME Typed, NEW d \in Docs, MoveStalled(d) \/ Promote(d)
  PROVE  Typed'
<1>1. Stall(d) \/ Due(d) => jobs' \in [Docs -> Job]
  BY QueueAssumption DEF Stall, Due, Typed, TypeOK, Job, JobState
<1> QED
  BY <1>1 DEF MoveStalled, Promote, Typed, HandsInv, TypeOK

\* A worker preserves them, in the handler or out of it.
LEMMA TypedHandler ==
  ASSUME Typed, NEW w \in Workers, Handler(w)
  PROVE  Typed'
<1> DEFINE d == run[w]
<1>1. d \in Docs /\ rows[d] \in Row /\ attempt[w] \in Nat
  BY DEF Handler, Find, Claim, RejectPdf, Extract, ReadFile, RunOcr, Save, Count, GiveUp, Settle,
         Typed, HandsInv, TypeOK
<1>2. ASSUME NEW new \in Row, NEW next \in InHandler, NEW thrown \in InHandler,
             Update(w, new, next, thrown), pc[w] \in InHandler
      PROVE  Typed'
  BY <1>1, <1>2, QueueAssumption
     DEF Update, Typed, HandsInv, TypeOK, WorkerState, InHandler, WorkerFaults
<1>3. CASE Find(w)
  BY <1>1, <1>3
     DEF Find, Typed, HandsInv, TypeOK, WorkerState, InHandler, WorkerFaults
<1>4. CASE Claim(w)
  BY <1>1, <1>2, <1>4, RowTypes DEF Claim, InHandler
<1>5. CASE RejectPdf(w)
  BY <1>1, <1>2, <1>5, RowTypes DEF RejectPdf, InHandler
<1>6. CASE Extract(w)
  BY <1>1, <1>6 DEF Extract, ReadFile, RunOcr, Typed, HandsInv, TypeOK, WorkerState, InHandler
<1>7. CASE Save(w)
  BY <1>1, <1>2, <1>7, RowTypes DEF Save, InHandler
<1>8. CASE Count(w)
  BY <1>1, <1>2, <1>8, RowTypes DEF Count, InHandler
<1>9. CASE GiveUp(w)
  BY <1>1, <1>2, <1>9, RowTypes DEF GiveUp, InHandler
<1>10. CASE Settle(w)
  <2>1. Complete(d) \/ Fail(d, attempt[w]) \/ SaveAttempt(d, attempt[w])
         => jobs' \in [Docs -> Job]
    BY <1>1, JobTypes DEF Typed, TypeOK
  <2>2. jobs' \in [Docs -> Job]
    BY <1>10, <2>1 DEF Settle, Typed, TypeOK
  <2> QED
    BY <1>10, <2>2 DEF Settle, Typed, HandsInv, TypeOK, WorkerState
<1> QED
  BY <1>3, <1>4, <1>5, <1>6, <1>7, <1>8, <1>9, <1>10 DEF Handler

LEMMA TypedProcess ==
  ASSUME Typed, NEW w \in Workers,
         \/ Crash(w) \/ Restart(w) \/ LoseLock(w)
         \/ \E d \in Docs : Take(w, d)
  PROVE  Typed'
<1>1. CASE Crash(w)
  BY <1>1 DEF Crash, Typed, HandsInv, TypeOK, WorkerState, WorkerFaults
<1>2. CASE Restart(w)
  BY <1>2 DEF Restart, Typed, HandsInv, TypeOK, WorkerState
<1>3. CASE LoseLock(w)
  <2>1. jobs' \in [Docs -> Job]
    BY <1>3 DEF LoseLock, Expire, Typed, TypeOK, Job, JobState
  <2> QED
    BY <1>3, <2>1 DEF LoseLock, Typed, HandsInv, TypeOK, WorkerFaults
<1>4. ASSUME NEW d \in Docs, Take(w, d) PROVE Typed'
  <2>1. jobs' \in [Docs -> Job] /\ jobs[d].made \in Nat
    BY <1>4 DEF Take, Deliver, Typed, TypeOK, Job, JobState
  <2> QED
    BY <1>4, <2>1, QueueAssumption
       DEF Take, Typed, HandsInv, TypeOK, WorkerState, InHandler
<1> QED
  BY <1>1, <1>2, <1>3, <1>4

LEMMA TypedStep == Typed /\ [Next]_vars => Typed'
<1> SUFFICES ASSUME Typed, [Next]_vars PROVE Typed'
  OBVIOUS
<1>1. CASE UNCHANGED vars
  BY <1>1 DEF vars, Typed, HandsInv, TypeOK
<1>2. CASE Next
  BY <1>2, TypedRequest, TypedTimer, TypedHandler, TypedProcess DEF Next
<1> QED
  BY <1>1, <1>2

\* The variables of Pipeline keep their types, for every set of faults, and a
\* worker has a job in hand exactly while it is in the handler.
THEOREM TypeCorrect == Spec => [](TypeOK /\ HandsInv)
<1>1. Spec => []Typed
  BY TypedInit, TypedStep, PTL DEF Spec
<1> QED
  BY <1>1, PTL DEF Typed

-----------------------------------------------------------------------------
(* Requests, rows and jobs.                                                *)

\* The status each statement on a row leaves.
LEMMA RowStatus ==
  ASSUME NEW r \in Row
  PROVE  /\ NoRow.status = "NONE" /\ Created.status = "PENDING"
         /\ Claimed(r).status = "PROCESSING"
         /\ RejectedAsPdf(r).status = "FAILED"
         /\ Completed(r).status = "COMPLETED"
         /\ Counted(r).status = r.status
         /\ GivenUp(r).status = "FAILED"
BY DEF Row, NoRow, Created, Claimed, RejectedAsPdf, Completed, Counted, GivenUp

\* Every queue operation is about one job, which is in some queue afterwards.
LEMMA JobStates ==
  ASSUME jobs \in [Docs -> Job], NEW d \in Docs, NEW w \in Workers,
         NEW made \in Nat
  PROVE  /\ Add(d) \/ Deliver(d, w) \/ Complete(d) \/ Fail(d, made)
              \/ SaveAttempt(d, made) \/ Due(d) \/ Expire(d) \/ Stall(d) =>
              \A e \in Docs \ {d} : jobs'[e] = jobs[e]
         /\ Add(d) \/ Due(d) => jobs'[d].state = "wait"
         /\ Deliver(d, w) => /\ jobs'[d].state = "active"
                             /\ jobs'[d].owner = w
                             /\ jobs'[d].made = jobs[d].made
         /\ Complete(d) => jobs'[d].state = "completed"
         /\ Fail(d, made) =>
              jobs'[d].state =
                IF made + 1 < MaxAttempts THEN "delayed" ELSE "failed"
         /\ Expire(d) \/ SaveAttempt(d, made) => jobs'[d].state = jobs[d].state
         /\ Stall(d) =>
              /\ jobs'[d].state =
                   IF jobs[d].stalls < MaxStalls THEN "wait" ELSE "failed"
              /\ jobs'[d].stalls = jobs[d].stalls + 1
<1> USE DEF Job
<1>1. ASSUME Add(d) \/ Deliver(d, w) \/ Complete(d) \/ Fail(d, made)
               \/ SaveAttempt(d, made) \/ Due(d) \/ Expire(d) \/ Stall(d), NEW e \in Docs \ {d}
      PROVE  jobs'[e] = jobs[e]
  BY <1>1 DEF Add, Deliver, Complete, Fail, SaveAttempt, Due, Expire, Stall
<1> QED
  BY <1>1 DEF Add, Deliver, Complete, Fail, SaveAttempt, Due, Expire, Stall

LEMMA ChainInit == Init => ChainInv
BY QueueAssumption
   DEF Init, ChainInv, QueuedInv, RequestInv, UploadChain, QueueInit, NoJob, NoRow

LEMMA ChainRequest ==
  ASSUME Typed, ChainInv, NEW d \in Docs, Request(d) \/ UploadFails(d)
  PROVE  ChainInv'
<1> USE DEF ChainInv, QueuedInv, RequestInv, UploadChain, Typed, TypeOK
<1>1. Created.status = "PENDING"
  BY RowStatus
<1>2. CASE RejectUpload(d)
  BY <1>2 DEF RejectUpload
<1>3. CASE SaveFile(d)
  BY <1>3 DEF SaveFile
<1>4. CASE CreateRow(d)
  BY <1>1, <1>4 DEF CreateRow
<1>5. CASE Enqueue(d)
  BY <1>5 DEF Enqueue, Add, Job
<1>6. CASE UploadFails(d)
  <2>1. CASE UNCHANGED jobs
    BY <1>1, <1>6, <2>1 DEF UploadFails
  <2>2. CASE upload[d] = "add" /\ Add(d) /\ UNCHANGED <<rows, stored>>
    BY <1>6, <2>2 DEF UploadFails, Add, Job
  <2> QED
    BY <1>6, <2>1, <2>2 DEF UploadFails
<1> QED
  BY <1>2, <1>3, <1>4, <1>5, <1>6 DEF Request

\* In the handler the worker holds a document that has a job, a row and a file.
LEMMA InHand ==
  ASSUME Typed, ChainInv, NEW w \in Workers, Handler(w)
  PROVE  /\ run[w] \in Docs /\ rows[run[w]] \in Row /\ attempt[w] \in Nat
         /\ pc[w] \in InHandler
         /\ jobs[run[w]].state # "none"
         /\ rows[run[w]].status # "NONE"
         /\ run[w] \in stored
<1>1. pc[w] \in InHandler
  BY DEF Handler, Find, Claim, RejectPdf, Extract, ReadFile, RunOcr, Save, Count, GiveUp, Settle,
         InHandler
<1>2. run[w] \in Docs
  BY <1>1 DEF Typed, TypeOK, HandsInv, InHandler
<1> QED
  BY <1>1, <1>2 DEF Typed, TypeOK, ChainInv, QueuedInv, UploadChain

\* What a handler step is: a statement on the row in hand, a step that only
\* moves on, or the report to the queue.
LEMMA HandlerCases ==
  ASSUME Typed, ChainInv, NEW w \in Workers, Handler(w)
  PROVE  LET d == run[w] IN
         \/ /\ UNCHANGED <<rows, stored, upload, jobs, run, attempt>>
            /\ pc[w] \in {"find", "read", "ocr"}
         \/ /\ \E new \in Row : /\ new.status # "NONE"
                                /\ rows' = [rows EXCEPT ![d] = new]
            /\ UNCHANGED <<stored, upload, jobs, run, attempt>>
            /\ pc[w] \in {"claim", "reject", "save", "count", "giveUp"}
         \/ Settle(w)
<1> DEFINE d == run[w]
<1>1. rows[d] \in Row /\ rows[d].status # "NONE" /\ d \in Docs
  BY InHand
<1>2. rows = [rows EXCEPT ![d] = rows[d]]
  BY <1>1 DEF Typed, TypeOK
<1>3. ASSUME NEW new \in Row, NEW next, NEW thrown, Update(w, new, next, thrown),
             new.status # "NONE",
             pc[w] \in {"claim", "reject", "save", "count", "giveUp"}
      PROVE  /\ \E r \in Row : r.status # "NONE" /\ rows' = [rows EXCEPT ![d] = r]
             /\ UNCHANGED <<stored, upload, jobs, run, attempt>>
  <2>1. UNCHANGED <<stored, upload, jobs, run, attempt>>
    BY <1>3 DEF Update
  <2>2. rows' = [rows EXCEPT ![d] = new] \/ rows' = [rows EXCEPT ![d] = rows[d]]
    BY <1>2, <1>3 DEF Update
  <2> QED
    BY <1>1, <1>3, <2>1, <2>2
<1>4. CASE Find(w)
  BY <1>4 DEF Find
<1>5. CASE Claim(w)
  <2>1. Claimed(rows[d]) \in Row /\ Claimed(rows[d]).status # "NONE"
    BY <1>1, RowTypes, RowStatus
  <2> QED
    BY <1>3, <1>5, <2>1 DEF Claim
<1>6. CASE RejectPdf(w)
  <2>1. RejectedAsPdf(rows[d]) \in Row /\ RejectedAsPdf(rows[d]).status # "NONE"
    BY <1>1, RowTypes, RowStatus
  <2> QED
    BY <1>3, <1>6, <2>1 DEF RejectPdf
<1>7. CASE Extract(w)
  BY <1>7 DEF Extract, ReadFile, RunOcr
<1>8. CASE Save(w)
  <2>1. Completed(rows[d]) \in Row /\ Completed(rows[d]).status # "NONE"
    BY <1>1, RowTypes, RowStatus
  <2> QED
    BY <1>3, <1>8, <2>1 DEF Save
<1>9. CASE Count(w)
  <2>1. Counted(rows[d]) \in Row /\ Counted(rows[d]).status # "NONE"
    BY <1>1, RowTypes, RowStatus
  <2> QED
    BY <1>3, <1>9, <2>1 DEF Count
<1>10. CASE GiveUp(w)
  <2>1. GivenUp(rows[d]) \in Row /\ GivenUp(rows[d]).status # "NONE"
    BY <1>1, RowTypes, RowStatus
  <2> QED
    BY <1>3, <1>10, <2>1 DEF GiveUp
<1> QED
  BY <1>4, <1>5, <1>6, <1>7, <1>8, <1>9, <1>10 DEF Handler

LEMMA ChainHandler ==
  ASSUME Typed, ChainInv, NEW w \in Workers, Handler(w)
  PROVE  ChainInv'
<1> DEFINE d == run[w]
<1>1. /\ d \in Docs /\ attempt[w] \in Nat /\ rows[d] \in Row
      /\ jobs[d].state # "none" /\ rows[d].status # "NONE" /\ d \in stored
  BY InHand
<1> USE DEF ChainInv, QueuedInv, RequestInv, UploadChain, Typed, TypeOK
<1>2. CASE UNCHANGED <<rows, stored, upload, jobs, run, attempt>>
  BY <1>2
<1>3. ASSUME NEW new \in Row, new.status # "NONE",
             rows' = [rows EXCEPT ![d] = new],
             UNCHANGED <<stored, upload, jobs, run, attempt>>
      PROVE  ChainInv'
  BY <1>1, <1>3
<1>4. CASE Settle(w)
  <2>1. /\ \A e \in Docs \ {d} : jobs'[e] = jobs[e]
        /\ jobs'[d].state # "none"
    BY <1>1, <1>4, JobStates DEF Settle
  <2> QED
    BY <1>1, <1>4, <2>1, QueueAssumption DEF Settle
<1> QED
  BY <1>2, <1>3, <1>4, HandlerCases

LEMMA ChainTimer ==
  ASSUME Typed, ChainInv, NEW d \in Docs, MoveStalled(d) \/ Promote(d)
  PROVE  ChainInv'
<1> USE DEF ChainInv, QueuedInv, RequestInv, UploadChain, Typed, TypeOK
<1>1. /\ \A e \in Docs \ {d} : jobs'[e] = jobs[e]
      /\ jobs[d].state # "none" /\ jobs'[d].state # "none"
      /\ UNCHANGED <<rows, stored, upload, pc, run, attempt, hit>>
  <2>1. CASE MoveStalled(d)
    BY <2>1 DEF MoveStalled, Stall, Job
  <2>2. CASE Promote(d)
    BY <2>2 DEF Promote, Due, Job
  <2> QED
    BY <2>1, <2>2
<1> QED
  BY <1>1

LEMMA ChainProcess ==
  ASSUME Typed, ChainInv, NEW w \in Workers,
         \/ Crash(w) \/ Restart(w) \/ LoseLock(w)
         \/ \E d \in Docs : Take(w, d)
  PROVE  ChainInv'
<1> USE DEF ChainInv, QueuedInv, RequestInv, UploadChain, Typed, TypeOK
<1>1. CASE Crash(w)
  BY <1>1, QueueAssumption DEF Crash
<1>2. CASE Restart(w)
  BY <1>2 DEF Restart
<1>3. CASE LoseLock(w)
  BY <1>3 DEF LoseLock, Expire, Job
<1>4. ASSUME NEW d \in Docs, Take(w, d) PROVE ChainInv'
  BY <1>4 DEF Take, Deliver, Job
<1> QED
  BY <1>1, <1>2, <1>3, <1>4

LEMMA ChainStep == Typed /\ ChainInv /\ [Next]_vars => ChainInv'
<1> SUFFICES ASSUME Typed, ChainInv, [Next]_vars PROVE ChainInv'
  OBVIOUS
<1>1. CASE UNCHANGED vars
  BY <1>1 DEF vars, ChainInv, QueuedInv, RequestInv, UploadChain
<1>2. CASE Next
  BY <1>2, ChainRequest, ChainTimer, ChainHandler, ChainProcess DEF Next
<1> QED
  BY <1>1, <1>2

LEMMA ChainCorrect == Spec => [](Typed /\ ChainInv)
<1>1. Init => Typed /\ ChainInv
  BY TypedInit, ChainInit
<1>2. Typed /\ ChainInv /\ [Next]_vars => (Typed /\ ChainInv)'
  BY TypedStep, ChainStep
<1> QED
  BY <1>1, <1>2, PTL DEF Spec

\* An accepted upload has a job, a job has a row, a row has a file: in every
\* reachable state, wherever requests end and workers die.
THEOREM UploadsAreChained == Spec => []UploadChain
BY ChainCorrect, PTL DEF ChainInv

-----------------------------------------------------------------------------
(* Who owns a job.                                                         *)

\* A statement touches the row and the faults of the document in hand, and
\* the place of its worker: it has its effect, or throws without or with it.
LEMMA UpdateEffect ==
  ASSUME Typed, NEW w \in Workers, run[w] \in Docs, NEW new, NEW next, NEW thrown,
         Update(w, new, next, thrown)
  PROVE  LET d == run[w] IN
         /\ UNCHANGED <<stored, upload, jobs, run, attempt>>
         /\ \A e \in Docs \ {d} : rows'[e] = rows[e] /\ hit'[e] = hit[e]
         /\ \A v \in Workers \ {w} : pc'[v] = pc[v]
         /\ \/ pc'[w] = next /\ rows'[d] = new /\ hit'[d] = hit[d]
            \/ pc'[w] = thrown /\ rows'[d] = rows[d] /\ hit'[d] = hit[d] \cup {"db"}
            \/ pc'[w] = thrown /\ rows'[d] = new /\ hit'[d] = hit[d] \cup {"ack"}
BY DEF Typed, TypeOK, Update

\* Nothing ever takes a fault back.
LEMMA HitGrows ==
  ASSUME Typed, ChainInv, [Next]_vars, NEW d \in Docs
  PROVE  hit[d] \subseteq hit'[d]
<1>1. CASE UNCHANGED vars
  BY <1>1 DEF vars
<1>2. ASSUME NEW e \in Docs,
             Request(e) \/ UploadFails(e) \/ MoveStalled(e) \/ Promote(e)
      PROVE  UNCHANGED hit
  BY <1>2 DEF Request, RejectUpload, SaveFile, CreateRow, Enqueue, UploadFails,
              MoveStalled, Promote
<1>3. ASSUME NEW w \in Workers, Handler(w) PROVE hit[d] \subseteq hit'[d]
  <2>1. run[w] \in Docs
    BY <1>3, InHand
  <2>2. CASE Find(w) \/ Extract(w) \/ Settle(w)
    BY <2>1, <2>2 DEF Find, Extract, ReadFile, RunOcr, Settle, Typed, TypeOK
  <2>3. ASSUME NEW new, NEW next, NEW thrown, Update(w, new, next, thrown)
        PROVE  hit[d] \subseteq hit'[d]
    BY <2>1, <2>3, UpdateEffect
  <2> QED
    BY <1>3, <2>2, <2>3
       DEF Handler, Claim, RejectPdf, Save, Count, GiveUp
<1>4. ASSUME NEW w \in Workers,
             Crash(w) \/ Restart(w) \/ LoseLock(w) \/ \E e \in Docs : Take(w, e)
      PROVE  hit[d] \subseteq hit'[d]
  BY <1>4 DEF Crash, Restart, LoseLock, Take, Typed, TypeOK
<1> QED
  BY <1>1, <1>2, <1>3, <1>4 DEF Next

LEMMA OwnerInit == Init => OwnerInv
BY QueueAssumption DEF Init, OwnerInv

\* Each action leaves the jobs of runners alone, or hands the job over anew.
LEMMA OwnerStep ==
  Typed /\ ChainInv /\ OwnerInv /\ [Next]_vars => OwnerInv'
<1> SUFFICES ASSUME Typed, ChainInv, OwnerInv, [Next]_vars,
                    NEW e \in Docs, "freeze" \notin hit'[e],
                    NEW v \in Workers, run'[v] = e
             PROVE  /\ jobs'[e].state = "active"
                    /\ jobs'[e].owner = v
                    /\ attempt'[v] = jobs'[e].made
  BY DEF OwnerInv
<1>1. "freeze" \notin hit[e]
  BY HitGrows
<1>2. run[v] = e => /\ jobs[e].state = "active"
                    /\ jobs[e].owner = v
                    /\ attempt[v] = jobs[e].made
  BY <1>1 DEF OwnerInv
<1>3. \A u \in Workers \ {v} : run[u] = e => run[v] # e
  BY <1>1, <1>2 DEF OwnerInv
<1>4. CASE UNCHANGED <<jobs, run, attempt>>
  BY <1>2, <1>4
<1>5. ASSUME NEW d \in Docs, Request(d) \/ UploadFails(d)
      PROVE  UNCHANGED <<run, attempt>> /\ jobs'[e] = jobs[e]
  <2>1. upload[d] \in {"new", "create", "add"} => jobs[d].state = "none"
    BY DEF ChainInv, RequestInv
  <2>2. UNCHANGED <<run, attempt>>
    BY <1>5 DEF Request, RejectUpload, SaveFile, CreateRow, Enqueue, UploadFails
  <2>3. d # e
    BY <1>2, <1>5, <2>1, <2>2
       DEF Request, RejectUpload, SaveFile, CreateRow, Enqueue, UploadFails
  <2> QED
    BY <1>5, <2>2, <2>3
       DEF Request, RejectUpload, SaveFile, CreateRow, Enqueue, UploadFails, Add,
           Typed, TypeOK
<1>6. ASSUME NEW d \in Docs, MoveStalled(d) \/ Promote(d)
      PROVE  UNCHANGED <<run, attempt>> /\ jobs'[e] = jobs[e]
  <2>1. UNCHANGED <<run, attempt>> /\ run[v] = e
    BY <1>6 DEF MoveStalled, Promote
  <2>2. d # e
    BY <1>2, <1>6, <2>1, QueueAssumption DEF MoveStalled, Promote, Held, Due
  <2> QED
    BY <1>6, <2>1, <2>2 DEF MoveStalled, Promote, Stall, Due, Typed, TypeOK
<1>7. ASSUME NEW w \in Workers, Settle(w), run[w] \in Docs, attempt[w] \in Nat
      PROVE  /\ run[v] = e /\ attempt'[v] = attempt[v]
             /\ jobs'[e] = jobs[e]
  <2>1. run[v] = e /\ v # w /\ attempt' = attempt
    BY <1>7, QueueAssumption DEF Settle, Typed, TypeOK
  <2>2. run[w] # e
    BY <1>3, <2>1
  <2> QED
    BY <1>7, <2>1, <2>2, JobStates DEF Settle, Typed, TypeOK
<1>8. ASSUME NEW w \in Workers, Handler(w), ~Settle(w)
      PROVE  UNCHANGED <<jobs, run, attempt>>
  BY <1>8, HandlerCases
<1>9. ASSUME NEW w \in Workers, Crash(w) \/ Restart(w) \/ LoseLock(w)
      PROVE  /\ run[v] = e /\ attempt' = attempt /\ jobs'[e] = jobs[e]
  <2>1. CASE Crash(w)
    BY <2>1, QueueAssumption DEF Crash, Typed, TypeOK
  <2>2. CASE Restart(w)
    BY <2>2 DEF Restart
  <2>3. CASE LoseLock(w)
    BY <2>3 DEF LoseLock, Expire, Typed, TypeOK
  <2> QED
    BY <1>9, <2>1, <2>2, <2>3
<1>10. ASSUME NEW w \in Workers, NEW d \in Docs, Take(w, d)
       PROVE  /\ jobs'[e].state = "active" /\ jobs'[e].owner = v
              /\ attempt'[v] = jobs'[e].made
  <2>1. jobs'[d].state = "active" /\ jobs'[d].owner = w
           /\ jobs'[d].made = jobs[d].made
           /\ \A c \in Docs \ {d} : jobs'[c] = jobs[c]
    BY <1>10 DEF Take, Deliver, Typed, TypeOK, Job
  <2>2. CASE v = w
    BY <1>10, <2>1, <2>2 DEF Take, Typed, TypeOK
  <2>3. CASE v # w
    BY <1>2, <1>10, <2>1, <2>3 DEF Take, Deliver, Typed, TypeOK
  <2> QED
    BY <2>2, <2>3
<1>11. CASE UNCHANGED vars
  BY <1>4, <1>11 DEF vars
<1> QED
  BY <1>2, <1>4, <1>5, <1>6, <1>7, <1>8, <1>9, <1>10, <1>11, InHand DEF Next, Handler

-----------------------------------------------------------------------------
(* Documents nobody has reason to suspect.                                 *)

LEMMA CalmInit == Init => CalmInv
BY QueueAssumption DEF Init, CalmInv, Calm, QueueInit, NoJob

\* A step that leaves the row, the job and the runners of e as they are.
Leaves(e) ==
  /\ rows'[e] = rows[e] /\ jobs'[e] = jobs[e]
  /\ \A v \in Workers : /\ run[v] = e <=> run'[v] = e
                        /\ run[v] = e => pc'[v] = pc[v] /\ attempt'[v] = attempt[v]

LEMMA CalmFrame ==
  ASSUME Typed, NEW e \in Docs, Calm(e), Leaves(e)
  PROVE  Calm(e)'
<1>1. \A v \in Workers : run[v] = e => (Final(v) <=> Final(v)')
  BY DEF Leaves, Final
<1>2. Held(e) => Held(e)'
  BY DEF Leaves, Held, Typed, TypeOK, Job
<1>3. ASSUME NEW v \in Workers, run'[v] = e PROVE CalmHandler(v)'
  <2>1. run[v] = e /\ CalmHandler(v) /\ (Final(v) <=> Final(v)')
    BY <1>1, <1>3 DEF Leaves, Calm
  <2> QED
    BY <1>3, <2>1 DEF Leaves, CalmHandler
<1> QED
  BY <1>2, <1>3 DEF Calm, Leaves

\* The steps that leave e alone because they are about something else.
LEMMA OtherSteps ==
  ASSUME Typed, ChainInv, NEW e \in Docs
  PROVE  /\ \A d \in Docs \ {e} :
              Request(d) \/ UploadFails(d) \/ MoveStalled(d) \/ Promote(d)
                => Leaves(e)
         /\ RejectUpload(e) \/ SaveFile(e) => Leaves(e)
         /\ \A w \in Workers :
              /\ run[w] # e /\ (Handler(w) \/ Crash(w) \/ LoseLock(w)) => Leaves(e)
              /\ Restart(w) => Leaves(e)
              /\ \A d \in Docs \ {e} : Take(w, d) => Leaves(e)
<1> USE DEF Leaves, Typed, TypeOK
<1>1. ASSUME NEW d \in Docs \ {e},
             Request(d) \/ UploadFails(d) \/ MoveStalled(d) \/ Promote(d)
      PROVE  Leaves(e)
  <2>1. CASE Request(d) \/ UploadFails(d)
    BY <2>1 DEF Request, RejectUpload, SaveFile, CreateRow, Enqueue, UploadFails, Add
  <2>2. CASE MoveStalled(d) \/ Promote(d)
    BY <2>2 DEF MoveStalled, Promote, Stall, Due
  <2> QED
    BY <1>1, <2>1, <2>2
<1>2. RejectUpload(e) \/ SaveFile(e) => Leaves(e)
  BY DEF RejectUpload, SaveFile
<1>3. ASSUME NEW w \in Workers, run[w] # e, Handler(w) PROVE Leaves(e)
  <2>1. run[w] \in Docs /\ attempt[w] \in Nat
    BY <1>3, InHand
  <2>2. CASE Find(w) \/ Extract(w)
    BY <1>3, <2>2 DEF Find, Extract, ReadFile, RunOcr
  <2>3. ASSUME NEW new, NEW next, NEW thrown, Update(w, new, next, thrown)
        PROVE  Leaves(e)
    BY <1>3, <2>1, <2>3, UpdateEffect
  <2>4. CASE Settle(w)
    <3>1. jobs'[e] = jobs[e]
      BY <1>3, <2>1, <2>4, JobStates DEF Settle
    <3> QED
      BY <1>3, <2>1, <2>4, <3>1, QueueAssumption DEF Settle
  <2> QED
    BY <1>3, <2>2, <2>3, <2>4 DEF Handler, Claim, RejectPdf, Save, Count, GiveUp
<1>4. ASSUME NEW w \in Workers, run[w] # e, Crash(w) \/ LoseLock(w)
      PROVE  Leaves(e)
  <2>1. CASE Crash(w)
    BY <1>4, <2>1, QueueAssumption DEF Crash
  <2>2. CASE LoseLock(w)
    BY <1>4, <2>2 DEF LoseLock, Expire
  <2> QED
    BY <1>4, <2>1, <2>2
<1>5. ASSUME NEW w \in Workers, Restart(w) PROVE Leaves(e)
  <2>1. run[w] # e
    BY <1>5, QueueAssumption DEF Restart, HandsInv
  <2> QED
    BY <1>5, <2>1 DEF Restart
<1>6. ASSUME NEW w \in Workers, NEW d \in Docs \ {e}, Take(w, d) PROVE Leaves(e)
  <2>1. run[w] # e
    BY <1>6, QueueAssumption DEF Take, HandsInv
  <2> QED
    BY <1>6, <2>1 DEF Take, Deliver
<1> QED
  BY <1>1, <1>2, <1>3, <1>4, <1>5, <1>6

\* The handler of worker w on its own, unsuspected document.
LEMMA CalmOwnStep ==
  ASSUME Typed, ChainInv, OwnerInv, NEW w \in Workers, Handler(w),
         NEW e \in Docs, run[w] = e, ~Suspect(e), ~Suspect(e)', Calm(e)
  PROVE  Calm(e)'
<1>1. /\ e \in Docs /\ rows[e] \in Row /\ attempt[w] \in Nat
      /\ rows[e].status # "NONE"
  BY InHand
<1>2. CalmHandler(w) /\ (jobs[e].state = "active" => Held(e))
  BY <1>1 DEF Calm
<1>3. \A v \in Workers : run[v] = e => v = w
  BY <1>1 DEF OwnerInv, Suspect
<1>4. /\ jobs[e].state = "active" /\ jobs[e].owner = w
      /\ attempt[w] = jobs[e].made
  BY <1>1 DEF OwnerInv, Suspect
<1>5. ASSUME UNCHANGED <<jobs, run, attempt>>, CalmHandler(w)'
      PROVE  Calm(e)'
  BY <1>2, <1>3, <1>4, <1>5 DEF Calm, Held
<1>6. rows[e].status \in DocumentStatus
  BY <1>1 DEF Row
<1>7. CASE Find(w)
  <2>1. CalmHandler(w)'
    BY <1>1, <1>2, <1>7 DEF Find, CalmHandler, Typed, TypeOK, Undecided
  <2> QED
    BY <1>5, <1>7, <2>1 DEF Find
<1>8. CASE Extract(w)
  <2>1. CalmHandler(w)'
    BY <1>1, <1>2, <1>8 DEF Extract, ReadFile, RunOcr, CalmHandler, Typed, TypeOK, Undecided
  <2> QED
    BY <1>5, <1>8, <2>1 DEF Extract, ReadFile, RunOcr
\* Without a lost acknowledgement a statement has its effect or none.
<1>9. ASSUME NEW new, NEW next, NEW thrown, Update(w, new, next, thrown)
      PROVE  /\ UNCHANGED <<jobs, run, attempt>>
             /\ \/ pc'[w] = next /\ rows'[e] = new
                \/ pc'[w] = thrown /\ rows'[e] = rows[e]
  <2>1. "ack" \notin hit'[e]
    BY DEF Suspect
  <2> QED
    BY <1>1, <1>9, <2>1, UpdateEffect
<1>10. CASE Claim(w)
  <2>1. CalmHandler(w)'
    BY <1>1, <1>2, <1>9, <1>10, RowStatus DEF Claim, CalmHandler, Undecided
  <2> QED
    BY <1>5, <1>9, <1>10, <2>1 DEF Claim
<1>11. CASE RejectPdf(w)
  <2>1. CalmHandler(w)'
    BY <1>1, <1>2, <1>9, <1>11 DEF RejectPdf, CalmHandler, Undecided
  <2> QED
    BY <1>5, <1>9, <1>11, <2>1 DEF RejectPdf
<1>12. CASE Save(w)
  <2>1. CalmHandler(w)'
    BY <1>1, <1>2, <1>9, <1>12 DEF Save, CalmHandler, Undecided
  <2> QED
    BY <1>5, <1>9, <1>12, <2>1 DEF Save
<1>13. CASE Count(w)
  <2> DEFINE next == IF Final(w) THEN "giveUp" ELSE "settleErr"
  <2>1. /\ UNCHANGED <<jobs, run, attempt>>
        /\ \/ pc'[w] = next /\ rows'[e] = Counted(rows[e])
           \/ pc'[w] = "settleErr" /\ rows'[e] = rows[e]
    BY <1>9, <1>13 DEF Count
  <2>2. /\ rows'[e].status = "PROCESSING"
        /\ pc'[w] = "settleErr" \/ (pc'[w] = "giveUp" /\ Final(w))
    BY <1>1, <1>2, <1>13, <2>1, RowStatus DEF Count, CalmHandler
  <2>3. CalmHandler(w)'
    BY <2>1, <2>2 DEF CalmHandler, Undecided, Final
  <2> QED
    BY <1>5, <1>9, <1>13, <2>3 DEF Count
<1>14. CASE GiveUp(w)
  <2>1. pc'[w] = "settleErr" /\ UNCHANGED <<run, attempt>>
    BY <1>9, <1>14 DEF GiveUp
  <2>2. Final(w)
    BY <1>2, <1>14 DEF GiveUp, CalmHandler
  <2>3. CalmHandler(w)'
    BY <2>1, <2>2 DEF CalmHandler, Final
  <2> QED
    BY <1>5, <1>9, <1>14, <2>3 DEF GiveUp
<1>15. CASE Settle(w)
  <2>1. \A v \in Workers : run'[v] # e
    BY <1>1, <1>3, <1>15, QueueAssumption DEF Settle, Typed, TypeOK
  <2>2. CASE pc[w] = "settleOk" /\ Complete(e)
    BY <1>1, <2>1, <2>2, JobStates DEF Calm, Typed, TypeOK
  <2>3. CASE pc[w] = "settleErr" /\ Fail(e, attempt[w])
    <3>1. jobs'[e].state = IF attempt[w] + 1 < MaxAttempts
                           THEN "delayed" ELSE "failed"
      BY <1>1, <2>3, JobStates DEF Typed, TypeOK
    <3>2. attempt[w] + 1 < MaxAttempts => rows[e].status \in Undecided
      BY <1>1, <1>2, <2>3, QueueAssumption DEF CalmHandler, Final
    <3> QED
      BY <1>15, <2>1, <3>1, <3>2 DEF Settle, Calm
  <2> QED
    BY <1>4, <1>15, <2>2, <2>3 DEF Settle
<1> QED
  BY <1>7, <1>8, <1>10, <1>11, <1>12, <1>13, <1>14, <1>15 DEF Handler

LEMMA CalmStep ==
  Typed /\ ChainInv /\ OwnerInv /\ CalmInv /\ [Next]_vars => CalmInv'
<1> SUFFICES ASSUME Typed, ChainInv, OwnerInv, CalmInv, [Next]_vars,
                    NEW e \in Docs, ~Suspect(e)'
             PROVE  Calm(e)'
  BY DEF CalmInv
<1>1. ~Suspect(e)
  BY HitGrows DEF Suspect
<1>2. Calm(e)
  BY <1>1 DEF CalmInv
<1>3. Leaves(e) => Calm(e)'
  BY <1>2, CalmFrame
<1>4. \A v \in Workers : run[v] = e => jobs[e].state = "active"
  BY <1>1 DEF OwnerInv, Suspect
<1>5. upload[e] \in {"new", "create", "add"} =>
        \A v \in Workers : run[v] # e
  BY DEF ChainInv, RequestInv, QueuedInv
<1>6. CASE UNCHANGED vars
  BY <1>3, <1>6 DEF vars, Leaves
\* The request of e: its job is not queued yet, or is queued for the first time.
<1>7. CASE Request(e) \/ UploadFails(e)
  <2>1. upload[e] \in {"new", "create", "add"} => jobs[e].state = "none"
    BY DEF ChainInv, RequestInv
  <2>2. \A v \in Workers : run'[v] # e
    BY <1>5, <1>7
       DEF Request, RejectUpload, SaveFile, CreateRow, Enqueue, UploadFails
  <2>3. UNCHANGED jobs \/ (upload[e] = "add" /\ Add(e) /\ UNCHANGED rows)
    BY <1>7 DEF Request, RejectUpload, SaveFile, CreateRow, Enqueue, UploadFails
  <2>4. jobs[e].state = "none"
    BY <1>7, <2>1
       DEF Request, RejectUpload, SaveFile, CreateRow, Enqueue, UploadFails
  <2>5. upload[e] = "add" => rows[e].status = "PENDING"
    BY <2>4 DEF ChainInv, RequestInv
  <2>6. Add(e) => jobs'[e].state = "wait"
    BY DEF Add, Typed, TypeOK, Job
  <2> QED
    BY <2>2, <2>3, <2>4, <2>5, <2>6 DEF Calm, Undecided
<1>8. CASE MoveStalled(e)
  BY <1>2, <1>8 DEF MoveStalled, Calm
<1>9. CASE Promote(e)
  <2>1. /\ jobs[e].state = "delayed" /\ jobs'[e].state = "wait"
        /\ UNCHANGED <<rows, run>>
    BY <1>9 DEF Promote, Due, Typed, TypeOK, Job
  <2> QED
    BY <1>2, <1>4, <2>1 DEF Calm
<1>10. ASSUME NEW w \in Workers, run[w] = e, Handler(w) PROVE Calm(e)'
  BY <1>1, <1>2, <1>10, CalmOwnStep
<1>11. ASSUME NEW w \in Workers, run[w] = e PROVE ~Crash(w) /\ ~LoseLock(w)
  BY <1>11 DEF Crash, LoseLock, Suspect, Typed, TypeOK
<1>12. ASSUME NEW w \in Workers, Take(w, e) PROVE Calm(e)'
  <2>1. /\ jobs[e].state = "wait" /\ jobs'[e].state = "active"
        /\ jobs'[e].owner = w /\ run'[w] = e /\ pc'[w] = "find"
        /\ UNCHANGED rows
        /\ \A v \in Workers \ {w} : run'[v] = run[v]
    BY <1>12 DEF Take, Deliver, Typed, TypeOK, Job
  <2>2. rows'[e].status \in Undecided
    BY <1>2, <2>1 DEF Calm
  <2>3. \A v \in Workers : run'[v] = e => v = w
    BY <1>4, <2>1
  <2> QED
    BY <2>1, <2>2, <2>3, QueueAssumption DEF Calm, Held, CalmHandler
<1> QED
  BY <1>3, <1>6, <1>7, <1>8, <1>9, <1>10, <1>11, <1>12, OtherSteps DEF Next

LEMMA CalmCorrect == Spec => [](Typed /\ ChainInv /\ OwnerInv /\ CalmInv)
<1>1. Init => Typed /\ ChainInv /\ OwnerInv /\ CalmInv
  BY TypedInit, ChainInit, OwnerInit, CalmInit
<1>2. Typed /\ ChainInv /\ OwnerInv /\ CalmInv /\ [Next]_vars
        => (Typed /\ ChainInv /\ OwnerInv /\ CalmInv)'
  BY TypedStep, ChainStep, OwnerStep, CalmStep
<1> QED
  BY <1>1, <1>2, PTL DEF Spec

-----------------------------------------------------------------------------
(* Decisions stand, and the pipeline implements the document lifecycle.    *)

\* How a step can change the rows: the request creates one, or a handler
\* makes one of its five writes where CalmHandler says it stands.
LEMMA RowMoves ==
  ASSUME Typed, ChainInv, [Next]_vars, rows' # rows
  PROVE  \E e \in Docs :
           /\ \A d \in Docs \ {e} : rows'[d] = rows[d]
           /\ \/ rows[e].status = "NONE" /\ rows'[e].status = "PENDING"
              \/ \E w \in Workers :
                   /\ run[w] = e
                   /\ rows[e].status # "NONE"
                   /\ \/ pc[w] = "claim" /\ rows'[e].status = "PROCESSING"
                      \/ pc[w] = "reject" /\ rows'[e].status = "FAILED"
                      \/ pc[w] = "save" /\ rows'[e].status = "COMPLETED"
                      \/ pc[w] = "count" /\ rows'[e].status = rows[e].status
                      \/ pc[w] = "giveUp" /\ rows'[e].status = "FAILED"
<1>1. ASSUME NEW e \in Docs, Request(e) \/ UploadFails(e)
      PROVE  /\ rows[e].status = "NONE" /\ rows'[e].status = "PENDING"
             /\ \A d \in Docs \ {e} : rows'[d] = rows[d]
  <2>1. upload[e] = "create" /\ rows' = [rows EXCEPT ![e] = Created]
    BY <1>1 DEF Request, RejectUpload, SaveFile, CreateRow, Enqueue, UploadFails
  <2>2. rows[e].status = "NONE"
    BY <2>1 DEF ChainInv, RequestInv
  <2> QED
    BY <2>1, <2>2, RowStatus DEF Typed, TypeOK
<1>2. ASSUME NEW w \in Workers, Handler(w)
      PROVE  LET e == run[w] IN
             /\ e \in Docs /\ rows[e].status # "NONE"
             /\ \A d \in Docs \ {e} : rows'[d] = rows[d]
             /\ \/ pc[w] = "claim" /\ rows'[e].status = "PROCESSING"
                \/ pc[w] = "reject" /\ rows'[e].status = "FAILED"
                \/ pc[w] = "save" /\ rows'[e].status = "COMPLETED"
                \/ pc[w] = "count" /\ rows'[e].status = rows[e].status
                \/ pc[w] = "giveUp" /\ rows'[e].status = "FAILED"
  <2> DEFINE e == run[w]
  <2>1. e \in Docs /\ rows[e] \in Row /\ rows[e].status # "NONE"
    BY <1>2, InHand
  <2>2. ASSUME NEW new, NEW next, NEW thrown, Update(w, new, next, thrown)
        PROVE  rows' = [rows EXCEPT ![e] = new]
    BY <2>2 DEF Update
  <2>3. ~Find(w) /\ ~Extract(w) /\ ~Settle(w)
    BY DEF Find, Extract, ReadFile, RunOcr, Settle
  <2>4. CASE Claim(w)
    BY <2>1, <2>2, <2>4, RowStatus DEF Claim, Typed, TypeOK
  <2>5. CASE RejectPdf(w)
    BY <2>1, <2>2, <2>5, RowStatus DEF RejectPdf, Typed, TypeOK
  <2>6. CASE Save(w)
    BY <2>1, <2>2, <2>6, RowStatus DEF Save, Typed, TypeOK
  <2>7. CASE Count(w)
    BY <2>1, <2>2, <2>7, RowStatus DEF Count, Typed, TypeOK
  <2>8. CASE GiveUp(w)
    BY <2>1, <2>2, <2>8, RowStatus DEF GiveUp, Typed, TypeOK
  <2> QED
    BY <1>2, <2>1, <2>3, <2>4, <2>5, <2>6, <2>7, <2>8 DEF Handler
<1>3. ~(UNCHANGED vars) /\ (\A d \in Docs : ~MoveStalled(d) /\ ~Promote(d))
  BY DEF vars, MoveStalled, Promote
<1>4. \A w \in Workers : /\ ~Crash(w) /\ ~Restart(w) /\ ~LoseLock(w)
                         /\ \A d \in Docs : ~Take(w, d)
  BY DEF Crash, Restart, LoseLock, Take
<1> QED
  BY <1>1, <1>2, <1>3, <1>4 DEF Next

\* A decided row of a document that no worker died on, lost the lock of or had
\* a lost acknowledgement for is never written again.
THEOREM DecisionsStand == Spec => DecisionStands
<1>1. ASSUME Typed, ChainInv, CalmInv, [Next]_vars
      PROVE  \A d \in Docs :
               rows[d].status \in Terminal /\ ~Suspect(d) => rows'[d] = rows[d]
  <2> SUFFICES ASSUME NEW d \in Docs, rows[d].status \in Terminal, ~Suspect(d),
                      rows'[d] # rows[d]
               PROVE  FALSE
    OBVIOUS
  <2>1. PICK w \in Workers :
           /\ run[w] = d
           /\ pc[w] \in {"claim", "reject", "save", "count", "giveUp"}
    BY <1>1, RowMoves DEF Terminal
  <2>2. CalmHandler(w)
    BY <1>1, <2>1 DEF CalmInv, Calm
  <2> QED
    BY <2>1, <2>2 DEF CalmHandler, Terminal, Undecided
<1> QED
  BY <1>1, CalmCorrect, PTL DEF Spec, DecisionStands

LEMMA LifecycleStep ==
  ASSUME Typed, ChainInv, CalmInv, [Next]_vars
  PROVE  Lifecycle!LifecycleNext
<1> DEFINE status == [d \in Docs |-> rows[d].status]
           suspect == {d \in Docs : Suspect(d)}
<1>1. suspect \subseteq suspect'
  BY HitGrows DEF Suspect
<1>2. CASE rows' = rows
  BY <1>1, <1>2 DEF Lifecycle!LifecycleNext
<1>3. CASE rows' # rows
  <2>1. PICK e \in Docs :
           /\ \A d \in Docs \ {e} : rows'[d] = rows[d]
           /\ \/ rows[e].status = "NONE" /\ rows'[e].status = "PENDING"
              \/ \E w \in Workers :
                   /\ run[w] = e
                   /\ rows[e].status # "NONE"
                   /\ \/ pc[w] = "claim" /\ rows'[e].status = "PROCESSING"
                      \/ pc[w] = "reject" /\ rows'[e].status = "FAILED"
                      \/ pc[w] = "save" /\ rows'[e].status = "COMPLETED"
                      \/ pc[w] = "count" /\ rows'[e].status = rows[e].status
                      \/ pc[w] = "giveUp" /\ rows'[e].status = "FAILED"
    BY <1>3, RowMoves
  <2>2. status' = [status EXCEPT ![e] = rows'[e].status]
    BY <2>1
  <2>3. rows[e].status \in DocumentStatus \cup {"NONE"}
    BY DEF Typed, TypeOK, Row
  <2>4. CASE rows'[e].status = rows[e].status
    <3>1. status' = status
      BY <2>2, <2>4
    <3> QED
      BY <1>1, <3>1 DEF Lifecycle!LifecycleNext
  <2>5. CASE rows[e].status = "NONE" /\ rows'[e].status = "PENDING"
    BY <1>1, <2>2, <2>5
       DEF Lifecycle!LifecycleNext, Lifecycle!Step, Lifecycle!Create,
           Lifecycle!Becomes
  <2>6. CASE /\ e \in suspect /\ rows[e].status # "NONE"
             /\ rows'[e].status \in {"PROCESSING", "COMPLETED", "FAILED"}
    <3>1. Lifecycle!Becomes(e, {"PENDING", "PROCESSING", "COMPLETED", "FAILED"},
                            rows'[e].status)
      BY <2>2, <2>3, <2>6 DEF Lifecycle!Becomes, DocumentStatus
    <3>2. Lifecycle!Rework(e)
      BY <2>6, <3>1 DEF Lifecycle!Rework, Lifecycle!Becomes
    <3> QED
      BY <1>1, <3>2 DEF Lifecycle!LifecycleNext, Lifecycle!Step
  <2>7. ASSUME NEW w \in Workers, run[w] = e, e \notin suspect
        PROVE  CalmHandler(w)
    BY <2>7 DEF CalmInv, Calm
  <2>8. CASE e \notin suspect /\ rows[e].status # "NONE"
    <3>1. \/ rows[e].status \in Undecided /\ rows'[e].status = "PROCESSING"
          \/ rows[e].status = "PROCESSING" /\ rows'[e].status = "COMPLETED"
          \/ rows[e].status = "PROCESSING" /\ rows'[e].status = "FAILED"
          \/ rows'[e].status = rows[e].status
      BY <2>1, <2>7, <2>8 DEF CalmHandler
    <3>2. \/ Lifecycle!Start(e) \/ Lifecycle!Finish(e) \/ Lifecycle!GiveUpOn(e)
          \/ rows'[e].status = rows[e].status
      BY <2>2, <3>1
         DEF Lifecycle!Start, Lifecycle!Finish, Lifecycle!GiveUpOn,
             Lifecycle!Becomes, Undecided
    <3> QED
      BY <1>1, <2>4, <3>2 DEF Lifecycle!LifecycleNext, Lifecycle!Step
  <2> QED
    BY <2>1, <2>4, <2>5, <2>6, <2>8
<1> QED
  BY <1>2, <1>3

\* What a polling client sees is a behaviour of DocumentLifecycle: every step
\* of the pipeline is a step of the lifecycle or leaves it unchanged.
THEOREM ImplementsLifecycle == Spec => LifecycleSpec
<1>1. Init => Lifecycle!LifecycleInit
  BY DEF Init, NoRow, Suspect, Lifecycle!LifecycleInit
<1>2. Typed /\ ChainInv /\ CalmInv /\ [Next]_vars
        => [Lifecycle!LifecycleNext]_(Lifecycle!lifecycleVars)
  BY LifecycleStep
<1> QED
  BY <1>1, <1>2, CalmCorrect, PTL
     DEF Spec, LifecycleSpec, Lifecycle!LifecycleSpec

-----------------------------------------------------------------------------
(* A settled job has a decided row.                                        *)

LEMMA TruthfulInit == Init => TruthfulInv
BY QueueAssumption DEF Init, TruthfulInv, Truthful, QueueInit, NoJob

LEMMA TruthfulFrame ==
  ASSUME Typed, NEW e \in Docs, Truthful(e), Leaves(e)
  PROVE  Truthful(e)'
<1>1. ASSUME NEW v \in Workers, run'[v] = e PROVE TruthfulHandler(v)'
  <2>1. run[v] = e /\ TruthfulHandler(v) /\ (Final(v) <=> Final(v)')
    BY <1>1 DEF Leaves, Truthful, Final
  <2> QED
    BY <1>1, <2>1 DEF Leaves, TruthfulHandler, Verdict
<1> QED
  BY <1>1 DEF Truthful, Leaves, Verdict

\* The handler of worker w on its own document, which only crashes touched.
LEMMA TruthfulOwnStep ==
  ASSUME Typed, ChainInv, OwnerInv, NEW w \in Workers, Handler(w),
         NEW e \in Docs, run[w] = e, hit[e] \subseteq {"crash"},
         hit'[e] \subseteq {"crash"}, Truthful(e)
  PROVE  Truthful(e)'
<1>1. /\ rows[e] \in Row /\ attempt[w] \in Nat /\ rows[e].status # "NONE"
  BY InHand
<1>2. TruthfulHandler(w)
  BY DEF Truthful
<1>3. \A v \in Workers : run[v] = e => v = w
  BY DEF OwnerInv
<1>4. jobs[e].state = "active" /\ jobs[e].owner = w
  BY DEF OwnerInv
<1>5. ASSUME UNCHANGED <<jobs, run, attempt>>, TruthfulHandler(w)'
      PROVE  Truthful(e)'
  BY <1>3, <1>4, <1>5 DEF Truthful
<1>6. CASE Find(w)
  <2>1. TruthfulHandler(w)'
    <3>1. ~Touch(e, "db")
      <4>1. Touch(e, "db") => hit'[e] = hit[e] \cup {"db"}
        BY DEF Typed, TypeOK
      <4>2. "db" \notin hit'[e]
        OBVIOUS
      <4> QED
        BY <4>1, <4>2
    <3>2. Goto(w, "claim") /\ run' = run
      BY <1>1, <1>6, <3>1 DEF Find
    <3>3. pc'[w] = "claim"
      BY <3>2 DEF Typed, TypeOK
    <3> QED
      BY <3>2, <3>3 DEF TruthfulHandler
  <2> QED
    BY <1>5, <1>6, <2>1 DEF Find
<1>7. CASE Extract(w)
  <2>1. pc'[w] \in {"ocr", "save", "count"} /\ UNCHANGED <<jobs, run, attempt>>
    BY <1>7 DEF Extract, ReadFile, RunOcr, Typed, TypeOK
  <2>2. e \notin Pdfs
    BY <1>2, <1>7 DEF Extract, ReadFile, RunOcr, TruthfulHandler
  <2>3. TruthfulHandler(w)'
    BY <2>1, <2>2 DEF TruthfulHandler
  <2> QED
    BY <1>5, <2>1, <2>3
\* No statement throws.
<1>8. ASSUME NEW new, NEW next, NEW thrown, Update(w, new, next, thrown)
      PROVE  /\ UNCHANGED <<jobs, run, attempt>>
             /\ pc'[w] = next /\ rows'[e] = new
  BY <1>8, UpdateEffect
<1>9. CASE Claim(w)
  <2>1. /\ UNCHANGED <<jobs, run, attempt>>
        /\ pc'[w] = IF e \in Pdfs THEN "reject" ELSE "read"
    BY <1>8, <1>9 DEF Claim
  <2>2. TruthfulHandler(w)'
    BY <2>1 DEF TruthfulHandler
  <2> QED
    BY <1>5, <2>1, <2>2
<1>10. CASE RejectPdf(w)
  <2>1. /\ UNCHANGED <<jobs, run, attempt>>
        /\ pc'[w] = "settleOk" /\ rows'[e].status = "FAILED"
    BY <1>1, <1>8, <1>10, RowStatus DEF RejectPdf
  <2>2. TruthfulHandler(w)'
    BY <1>2, <1>10, <2>1 DEF RejectPdf, TruthfulHandler, Verdict
  <2> QED
    BY <1>5, <2>1, <2>2
<1>11. CASE Save(w)
  <2>1. /\ UNCHANGED <<jobs, run, attempt>>
        /\ pc'[w] = "settleOk" /\ rows'[e].status = "COMPLETED"
    BY <1>1, <1>8, <1>11, RowStatus DEF Save
  <2>2. TruthfulHandler(w)'
    BY <1>2, <1>11, <2>1 DEF Save, TruthfulHandler, Verdict
  <2> QED
    BY <1>5, <2>1, <2>2
<1>12. CASE Count(w)
  <2>1. /\ UNCHANGED <<jobs, run, attempt>>
        /\ pc'[w] = IF Final(w) THEN "giveUp" ELSE "settleErr"
    BY <1>8, <1>12 DEF Count
  <2>2. e \notin Pdfs
    BY <1>2, <1>12 DEF Count, TruthfulHandler
  <2>3. TruthfulHandler(w)'
    BY <2>1, <2>2 DEF TruthfulHandler, Final
  <2> QED
    BY <1>5, <2>1, <2>3
<1>13. CASE GiveUp(w)
  <2>1. /\ UNCHANGED <<jobs, run, attempt>>
        /\ pc'[w] = "settleErr" /\ rows'[e].status = "FAILED"
    BY <1>1, <1>8, <1>13, RowStatus DEF GiveUp
  <2>2. TruthfulHandler(w)'
    BY <2>1 DEF TruthfulHandler
  <2> QED
    BY <1>5, <2>1, <2>2
<1>14. CASE Settle(w)
  <2>1. (\A v \in Workers : run'[v] # e) /\ UNCHANGED rows
    BY <1>3, <1>14, QueueAssumption DEF Settle, Typed, TypeOK
  <2>2. CASE pc[w] = "settleOk" /\ Complete(e)
    <3>1. jobs'[e].state = "completed" /\ rows[e].status = Verdict(e)
      BY <1>1, <1>2, <2>2, JobStates DEF TruthfulHandler, Typed, TypeOK
    <3> QED
      BY <2>1, <3>1 DEF Truthful, Verdict
  <2>3. CASE pc[w] = "settleErr" /\ Fail(e, attempt[w])
    <3>1. jobs'[e].state = IF attempt[w] + 1 < MaxAttempts
                           THEN "delayed" ELSE "failed"
      BY <1>1, <2>3, JobStates DEF Typed, TypeOK
    <3>2. ~(attempt[w] + 1 < MaxAttempts) => rows[e].status = "FAILED"
      BY <1>1, <1>2, <2>3, QueueAssumption DEF TruthfulHandler, Final
    <3> QED
      BY <2>1, <3>1, <3>2 DEF Truthful
  <2> QED
    BY <1>4, <1>14, <2>2, <2>3 DEF Settle
<1> QED
  BY <1>6, <1>7, <1>9, <1>10, <1>11, <1>12, <1>13, <1>14 DEF Handler

LEMMA TruthfulStep ==
  Typed /\ ChainInv /\ OwnerInv /\ TruthfulInv /\ [Next]_vars => TruthfulInv'
<1> SUFFICES ASSUME Typed, ChainInv, OwnerInv, TruthfulInv, [Next]_vars,
                    NEW e \in Docs, hit'[e] \subseteq {"crash"}
             PROVE  Truthful(e)'
  BY DEF TruthfulInv
<1>1. hit[e] \subseteq {"crash"}
  BY HitGrows
<1>2. Truthful(e)
  BY <1>1 DEF TruthfulInv
<1>3. Leaves(e) => Truthful(e)'
  BY <1>2, TruthfulFrame
<1>4. \A v \in Workers : run[v] = e => jobs[e].state = "active" /\ jobs[e].owner = v
  BY <1>1 DEF OwnerInv
<1>5. CASE UNCHANGED vars
  BY <1>3, <1>5 DEF vars, Leaves
<1>6. CASE Request(e) \/ UploadFails(e)
  <2>1. jobs[e].state = "none" \/ Leaves(e)
    BY <1>6, OtherSteps
       DEF Request, CreateRow, Enqueue, UploadFails, ChainInv, RequestInv
  <2>2. CASE jobs[e].state = "none"
    <3>1. \A v \in Workers : run'[v] # e
      BY <1>4, <1>6, <2>2
         DEF Request, RejectUpload, SaveFile, CreateRow, Enqueue, UploadFails
    <3>2. jobs'[e].state \in {"none", "wait"}
      BY <1>6, <2>2
         DEF Request, RejectUpload, SaveFile, CreateRow, Enqueue, UploadFails,
             Add, Typed, TypeOK, Job
    <3> QED
      BY <3>1, <3>2 DEF Truthful
  <2> QED
    BY <1>3, <2>1, <2>2
<1>7. CASE MoveStalled(e)
  <2>1. (\A v \in Workers : run'[v] # e) /\ UNCHANGED rows
    BY <1>4, <1>7, QueueAssumption DEF MoveStalled, Held
  <2>2. /\ jobs'[e].state = IF jobs[e].stalls < MaxStalls THEN "wait" ELSE "failed"
        /\ jobs'[e].stalls = jobs[e].stalls + 1 /\ jobs[e].stalls \in Nat
    BY <1>7 DEF MoveStalled, Stall, Typed, TypeOK, Job
  <2>3. jobs'[e].state = "wait" \/ ~(jobs'[e].stalls <= MaxStalls)
    BY <2>2, QueueAssumption
  <2> QED
    BY <2>1, <2>2, <2>3 DEF Truthful
<1>8. CASE Promote(e)
  <2>1. jobs'[e].state = "wait" /\ \A v \in Workers : run'[v] # e
    BY <1>4, <1>8 DEF Promote, Due, Typed, TypeOK, Job
  <2> QED
    BY <2>1 DEF Truthful
<1>9. ASSUME NEW w \in Workers, run[w] = e, Handler(w) PROVE Truthful(e)'
  BY <1>1, <1>2, <1>9, TruthfulOwnStep
<1>10. ASSUME NEW w \in Workers, run[w] = e, Crash(w) PROVE Truthful(e)'
  <2>1. (\A v \in Workers : run'[v] # e) /\ UNCHANGED jobs
    BY <1>4, <1>10, QueueAssumption DEF Crash, Typed, TypeOK
  <2> QED
    BY <1>4, <1>10, <2>1 DEF Truthful
<1>11. ASSUME NEW w \in Workers, run[w] = e PROVE ~LoseLock(w)
  BY <1>11 DEF LoseLock, Typed, TypeOK
<1>12. ASSUME NEW w \in Workers, Take(w, e) PROVE Truthful(e)'
  <2>1. /\ jobs[e].state = "wait" /\ jobs'[e].state = "active"
        /\ run'[w] = e /\ pc'[w] = "find"
        /\ \A v \in Workers \ {w} : run'[v] = run[v]
    BY <1>12 DEF Take, Deliver, Typed, TypeOK, Job
  <2>2. \A v \in Workers : run'[v] = e => v = w
    BY <1>4, <2>1
  <2> QED
    BY <2>1, <2>2 DEF Truthful, TruthfulHandler
<1> QED
  BY <1>3, <1>5, <1>6, <1>7, <1>8, <1>9, <1>10, <1>11, <1>12, OtherSteps DEF Next

\* When the queue is done with a job whose statements did not fail and whose
\* lock was not lost, the row says so, however often workers died on it.
THEOREM SettledJobsAreDecided == Spec => []SettledIsDecided
<1>1. Init => Typed /\ ChainInv /\ OwnerInv /\ TruthfulInv
  BY TypedInit, ChainInit, OwnerInit, TruthfulInit
<1>2. Typed /\ ChainInv /\ OwnerInv /\ TruthfulInv /\ [Next]_vars
        => (Typed /\ ChainInv /\ OwnerInv /\ TruthfulInv)'
  BY TypedStep, ChainStep, OwnerStep, TruthfulStep
<1>3. TruthfulInv => SettledIsDecided
  BY DEF TruthfulInv, Truthful, Verdict, SettledIsDecided
<1> QED
  BY <1>1, <1>2, <1>3, PTL DEF Spec
=============================================================================
