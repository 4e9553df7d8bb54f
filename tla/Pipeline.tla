------------------------------ MODULE Pipeline ------------------------------
(***************************************************************************)
(* From an upload to a decided document: DocumentsService.upload in the    *)
(* API process, the job queue (JobQueue), and ProcessingProcessor in the   *)
(* worker processes, over the `documents` table (Documents) and the file   *)
(* storage.                                                                *)
(*                                                                         *)
(* Every await of the code is a step boundary: one statement on the        *)
(* database, one queue operation or one call of the OCR service per        *)
(* action.  The set Faults says what may go wrong between and inside the   *)
(* steps:                                                                  *)
(*   "upload"  the request ends early: storage, database or Redis throws,  *)
(*             or the API process dies                                     *)
(*   "db"      a statement of the worker throws and had no effect          *)
(*   "ack"     a statement of the worker throws and had its effect         *)
(*   "crash"   a worker process dies with a job in hand                    *)
(*   "freeze"  a worker loses the lock of the job it is running (its event *)
(*             loop or its Redis connection hangs past the lock duration)  *)
(* The variable hit records which of the worker's faults touched which     *)
(* document; nothing in the program corresponds to it and no guard reads   *)
(* it, but the properties say what holds despite which faults.             *)
(***************************************************************************)
EXTENDS Documents, JobQueue, FiniteSets

CONSTANTS
  Pdfs,    \* the documents whose mimeType is application/pdf
  Faults   \* what may go wrong

WorkerFaults == {"db", "ack", "crash", "freeze"}

ASSUME PipelineAssumption ==
  /\ Pdfs \subseteq Docs
  /\ Faults \subseteq {"upload"} \cup WorkerFaults

VARIABLES
  rows,     \* the documents table
  stored,   \* documents whose file is in the storage
  upload,   \* progress of each upload request
  pc,       \* where each worker's handler stands
  run,      \* the job in each worker's hand
  attempt,  \* job.attemptsMade as the worker read it when it took the job
  hit       \* ghost: the faults that touched each document

vars == <<rows, stored, upload, jobs, pc, run, attempt, hit>>

UploadState ==
  {"new", "create", "add", "accepted", "rejected", "failed"}

InHandler == {"find", "claim", "reject", "read", "ocr", "save", "count",
              "giveUp", "settleOk", "settleErr"}
WorkerState == InHandler \cup {"idle", "down"}

TypeOK ==
  /\ rows \in [Docs -> Row]
  /\ stored \subseteq Docs
  /\ upload \in [Docs -> UploadState]
  /\ jobs \in [Docs -> Job]
  /\ pc \in [Workers -> WorkerState]
  /\ run \in [Workers -> Docs \cup {None}]
  /\ attempt \in [Workers -> Nat]
  /\ hit \in [Docs -> SUBSET WorkerFaults]

Init ==
  /\ rows = [d \in Docs |-> NoRow]
  /\ stored = {}
  /\ upload = [d \in Docs |-> "new"]
  /\ QueueInit
  /\ pc = [w \in Workers |-> "idle"]
  /\ run = [w \in Workers |-> None]
  /\ attempt = [w \in Workers |-> 0]
  /\ hit = [d \in Docs |-> {}]

-----------------------------------------------------------------------------
(* DocumentsService.upload: validate, store the file, create the row, queue *)
(* the job.                                                                 *)

Reached(d, phase) == upload' = [upload EXCEPT ![d] = phase]

\* No file, or the first bytes do not match the declared type: 400.
RejectUpload(d) ==
  /\ upload[d] = "new"
  /\ Reached(d, "rejected")
  /\ UNCHANGED <<rows, stored, jobs, pc, run, attempt, hit>>

SaveFile(d) ==
  /\ upload[d] = "new"
  /\ stored' = stored \cup {d}
  /\ Reached(d, "create")
  /\ UNCHANGED <<rows, jobs, pc, run, attempt, hit>>

\* The job is queued before the row is written.
AddBeforeRow(d) ==
  /\ upload[d] = "create"
  /\ Add(d)
  /\ Reached(d, "add")
  /\ UNCHANGED <<rows, stored, pc, run, attempt, hit>>

CreateRow(d) ==
  /\ upload[d] = "create"
  /\ rows' = [rows EXCEPT ![d] = Created]
  /\ Reached(d, "add")
  /\ UNCHANGED <<stored, jobs, pc, run, attempt, hit>>

Enqueue(d) ==
  /\ upload[d] = "add"
  /\ Add(d)
  /\ Reached(d, "accepted")
  /\ UNCHANGED <<rows, stored, pc, run, attempt, hit>>

\* The request ends inside one of its three awaits, with or without the
\* effect of that await.  Nothing undoes the earlier ones.
UploadFails(d) ==
  /\ "upload" \in Faults
  /\ upload[d] \in {"new", "create", "add"}
  /\ Reached(d, "failed")
  /\ \/ UNCHANGED <<rows, stored, jobs>>
     \/ /\ upload[d] = "new"
        /\ stored' = stored \cup {d}
        /\ UNCHANGED <<rows, jobs>>
     \/ /\ upload[d] = "create"
        /\ rows' = [rows EXCEPT ![d] = Created]
        /\ UNCHANGED <<stored, jobs>>
     \/ /\ upload[d] = "add"
        /\ Add(d)
        /\ UNCHANGED <<rows, stored>>
  /\ UNCHANGED <<pc, run, attempt, hit>>

-----------------------------------------------------------------------------
(* ProcessingProcessor.handleProcess on worker w.                          *)

Goto(w, label) == pc' = [pc EXCEPT ![w] = label]

Touch(d, fault) == /\ fault \in Faults
                   /\ hit' = [hit EXCEPT ![d] = @ \cup {fault}]

\* One UPDATE by worker w that makes its document's row `new`: the handler
\* goes on at `next`, or at `thrown` when the statement throws.
Update(w, new, next, thrown) ==
  /\ \/ /\ rows' = [rows EXCEPT ![run[w]] = new]
        /\ Goto(w, next)
        /\ UNCHANGED hit
     \/ /\ Touch(run[w], "db")
        /\ Goto(w, thrown)
        /\ UNCHANGED rows
     \/ /\ Touch(run[w], "ack")
        /\ rows' = [rows EXCEPT ![run[w]] = new]
        /\ Goto(w, thrown)
  /\ UNCHANGED <<stored, upload, jobs, run, attempt>>

\* An idle worker takes a waiting job.
Take(w, d) ==
  /\ pc[w] = "idle"
  /\ Deliver(d, w)
  /\ Goto(w, "find")
  /\ run' = [run EXCEPT ![w] = d]
  /\ attempt' = [attempt EXCEPT ![w] = jobs[d].made]
  /\ UNCHANGED <<rows, stored, upload, hit>>

\* findUnique, and the throw when there is no such row.
Find(w) ==
  /\ pc[w] = "find"
  /\ \/ /\ Goto(w, IF rows[run[w]].status = "NONE" THEN "settleErr"
                                                    ELSE "claim")
        /\ UNCHANGED hit
     \/ /\ Touch(run[w], "db")
        /\ Goto(w, "settleErr")
  /\ UNCHANGED <<rows, stored, upload, jobs, run, attempt>>

\* The row becomes PROCESSING whatever its status is.
Claim(w) ==
  /\ pc[w] = "claim"
  /\ Update(w, Claimed(rows[run[w]]),
            IF run[w] \in Pdfs THEN "reject" ELSE "read", "settleErr")

\* The PDF branch stands before the try: nothing counts its failures.
RejectPdf(w) ==
  /\ pc[w] = "reject"
  /\ Update(w, RejectedAsPdf(rows[run[w]]), "settleOk", "settleErr")

\* storage.read, inside the try from here on.
ReadFile(w) ==
  /\ pc[w] = "read"
  /\ \/ run[w] \in stored /\ Goto(w, "ocr")
     \/ Goto(w, "count")
  /\ UNCHANGED <<rows, stored, upload, jobs, run, attempt, hit>>

\* Without the abort timer a call that is never answered is never over.
RunOcrNoTimeout(w) ==
  /\ pc[w] = "ocr"
  /\ Goto(w, "save") \/ Goto(w, "count") \/ Goto(w, "unanswered")
  /\ UNCHANGED <<rows, stored, upload, jobs, run, attempt, hit>>

\* runOcr: a result, or a throw: an OCR error, a bad status, the timeout.
RunOcr(w) ==
  /\ pc[w] = "ocr"
  /\ Goto(w, "save") \/ Goto(w, "count")
  /\ UNCHANGED <<rows, stored, upload, jobs, run, attempt, hit>>

Extract(w) == ReadFile(w) \/ RunOcr(w)

\* The write of the result is inside the try: its failure is counted too.
Save(w) ==
  /\ pc[w] = "save"
  /\ Update(w, Completed(rows[run[w]]), "settleOk", "count")

\* isFinalAttempt, from the attemptsMade the worker read when it took the job.
FinalEarly(w) == attempt[w] + 2 >= MaxAttempts

FinalLate(w) == attempt[w] >= MaxAttempts

Final(w) == attempt[w] + 1 >= MaxAttempts

\* The catch block returns instead of rethrowing when a retry is left.
CountNoRethrow(w) ==
  /\ pc[w] = "count"
  /\ Update(w, Counted(rows[run[w]]),
            IF Final(w) THEN "giveUp" ELSE "settleOk", "settleErr")

Count(w) ==
  /\ pc[w] = "count"
  /\ Update(w, Counted(rows[run[w]]),
            IF Final(w) THEN "giveUp" ELSE "settleErr", "settleErr")

GiveUp(w) ==
  /\ pc[w] = "giveUp"
  /\ Update(w, GivenUp(rows[run[w]]), "settleErr", "settleErr")

\* The handler has returned or thrown; the queue moves the job only for the
\* holder of the lock.
Settle(w) ==
  /\ pc[w] \in {"settleOk", "settleErr"}
  /\ \/ /\ jobs[run[w]].owner # w
        /\ SaveAttempt(run[w], attempt[w])
     \/ /\ jobs[run[w]].owner = w
        /\ pc[w] = "settleOk"
        /\ Complete(run[w])
     \/ /\ jobs[run[w]].owner = w
        /\ pc[w] = "settleErr"
        /\ Fail(run[w], attempt[w])
  /\ Goto(w, "idle")
  /\ run' = [run EXCEPT ![w] = None]
  /\ UNCHANGED <<rows, stored, upload, attempt, hit>>

-----------------------------------------------------------------------------
(* Processes and timers.                                                   *)

\* The process dies with its job in hand.
Crash(w) ==
  /\ run[w] # None
  /\ Touch(run[w], "crash")
  /\ Goto(w, "down")
  /\ run' = [run EXCEPT ![w] = None]
  /\ UNCHANGED <<rows, stored, upload, jobs, attempt>>

\* restart: unless-stopped
Restart(w) ==
  /\ pc[w] = "down"
  /\ Goto(w, "idle")
  /\ UNCHANGED <<rows, stored, upload, jobs, run, attempt, hit>>

LoseLock(w) ==
  /\ run[w] # None
  /\ jobs[run[w]].owner = w
  /\ Touch(run[w], "freeze")
  /\ Expire(run[w])
  /\ UNCHANGED <<rows, stored, upload, pc, run, attempt>>

\* A worker is renewing the lock of job d.
Held(d) == jobs[d].owner # None /\ run[jobs[d].owner] = d

SomeWorkerUp == \E w \in Workers : pc[w] # "down"

MoveStalled(d) ==
  /\ SomeWorkerUp
  /\ jobs[d].state = "active"
  /\ ~Held(d)
  /\ Stall(d)
  /\ UNCHANGED <<rows, stored, upload, pc, run, attempt, hit>>

Promote(d) ==
  /\ SomeWorkerUp
  /\ Due(d)
  /\ UNCHANGED <<rows, stored, upload, pc, run, attempt, hit>>

-----------------------------------------------------------------------------
Request(d) == \/ RejectUpload(d) \/ SaveFile(d) \/ CreateRow(d) \/ Enqueue(d)

Handler(w) ==
  \/ Find(w) \/ Claim(w) \/ RejectPdf(w) \/ Extract(w) \/ Save(w)
  \/ Count(w) \/ GiveUp(w) \/ Settle(w)

Next ==
  \/ \E d \in Docs : \/ Request(d) \/ UploadFails(d)
                     \/ MoveStalled(d) \/ Promote(d)
  \/ \E w \in Workers : \/ Handler(w) \/ Crash(w) \/ Restart(w) \/ LoseLock(w)
                        \/ \E d \in Docs : Take(w, d)

Spec == Init /\ [][Next]_vars

\* The event loop goes on (every await of the handler ends: the OCR call by
\* its abort timer), Docker restarts a dead worker, and Bull's timers fire.
\* Nothing forces a request to be made, and no fault has to happen.
FairSpec ==
  /\ Spec
  /\ \A w \in Workers : WF_vars(Handler(w)) /\ WF_vars(Restart(w))
  /\ \A d \in Docs : /\ WF_vars(\E w \in Workers : Take(w, d))
                     /\ WF_vars(MoveStalled(d))
                     /\ WF_vars(Promote(d))

-----------------------------------------------------------------------------
(* Properties that hold.                                                    *)

\* The upload leaves nothing dangling: a 202 means there is a job, a job
\* means there is a row for the handler to find, a row means there is a file
\* to read.  It rests on the order file, row, job of DocumentsService.upload
\* (lines 39-67), and on nothing ever deleting any of the three.
UploadChain ==
  \A d \in Docs :
    /\ upload[d] = "accepted" => jobs[d].state # "none"
    /\ jobs[d].state # "none" => rows[d].status # "NONE"
    /\ rows[d].status # "NONE" => d \in stored

Runners(d) == {w \in Workers : run[w] = d}

\* One document is processed by one worker at a time (lines 59-100 of the
\* processor assume it: no statement is conditional), unless a worker lost
\* its lock; then by at most one more for each stall the queue forgives.
BoundedRuns ==
  \A d \in Docs :
    Cardinality(Runners(d)) <=
      1 + (IF "freeze" \in hit[d] THEN MaxStalls ELSE 0)

\* A report without the lock says 1 at least, so of the attempts a job has made
\* it takes back as many as may lie between 1 and the last but one.
GivenBack == IF MaxAttempts > 2 THEN MaxAttempts - 2 ELSE 0

\* retryCount (processor line 110) is bounded, although a stall gives a run
\* that attempts does not count, a worker without its lock still counts, and
\* its report takes attempts of the others back.
RetryBound ==
  \A d \in Docs :
    rows[d].retries <=
      MaxAttempts
        + MaxStalls * (1 + (IF "freeze" \in hit[d] THEN GivenBack ELSE 0))

\* A row that says COMPLETED carries its result and no error message, and one
\* that says FAILED says why, however many runs and workers wrote it.
DecisionIsClean ==
  \A d \in Docs :
    /\ rows[d].status = "COMPLETED" => rows[d].data /\ ~rows[d].error
    /\ rows[d].status = "FAILED" => rows[d].error

\* When the queue is done with a job, the row is decided to match, even
\* though workers died on it: a completed job has a COMPLETED row (FAILED for
\* a PDF), a failed one a FAILED row.  Only the stall limit, which no code of
\* the handler sees, and the other faults can separate the two.
SettledIsDecided ==
  \A d \in Docs : hit[d] \subseteq {"crash"} =>
    /\ jobs[d].state = "completed" =>
          rows[d].status = (IF d \in Pdfs THEN "FAILED" ELSE "COMPLETED")
    /\ jobs[d].state = "failed" /\ jobs[d].stalls <= MaxStalls =>
          rows[d].status = "FAILED"

\* The faults after which a worker may process a decided document again.
Suspect(d) == hit[d] \cap {"ack", "crash", "freeze"} # {}

\* Once decided, the whole row is final: neither a retry, nor a late or
\* second run, nor a failed statement writes it again, unless a worker died
\* on it, lost its lock, or was told of a failure that did not happen.
DecisionStands ==
  [][\A d \in Docs :
       rows[d].status \in Terminal /\ ~Suspect(d) => rows'[d] = rows[d]]_vars

\* The pipeline implements the document lifecycle.
Lifecycle == INSTANCE DocumentLifecycle WITH
  status  <- [d \in Docs |-> rows[d].status],
  suspect <- {d \in Docs : Suspect(d)}

LifecycleSpec == Lifecycle!LifecycleSpec

OneIf(condition) == IF condition THEN 1 ELSE 0

\* The attempts a job has left, and one run at least if it is run at all.  The
\* holder of the lock reports by the number it has read; whoever takes the job
\* after its death goes by the number stored.
AttemptsLeft(d) ==
  LET made == IF Held(d) /\ attempt[jobs[d].owner] < jobs[d].made
                THEN attempt[jobs[d].owner] ELSE jobs[d].made
  IN IF made < MaxAttempts THEN MaxAttempts - made ELSE 1

\* A lock that is gone is as good as a stall.
StallsSpent(d) ==
  jobs[d].stalls + OneIf(jobs[d].state = "active" /\ jobs[d].owner = None)

\* The runs that go on without the lock, each with a late report to come.
Late(d) == {w \in Runners(d) : jobs[d].owner # w}

\* How often the queue may still hand out a document's job, when a late report
\* gives `back` attempts at most.
RunsLeft(d, back) ==
  IF jobs[d].state \in Settled \/ StallsSpent(d) > MaxStalls THEN 0
    ELSE AttemptsLeft(d) + (MaxStalls - StallsSpent(d)) * (1 + back)
           + Cardinality(Late(d)) * back
           - OneIf(jobs[d].state = "active" /\ jobs[d].owner # None)

\* Each run of the handler uses up one of the runs that the attempts
\* (documents.service.ts:62), Bull's forgiven stalls and the late reports of
\* lost locks allow, and nothing gives one back that was not reserved for a
\* late report when the lock was still held: a document goes through the
\* handler at most MaxAttempts + MaxStalls * (1 + GivenBack) times, 5 in this
\* code, and a job that is settled stays so.
RunsRunOut ==
  [][\A d \in Docs :
       /\ RunsLeft(d, GivenBack)' \in 0 .. RunsLeft(d, GivenBack)
       /\ (\E w \in Workers : run[w] # d /\ run'[w] = d) =>
            RunsLeft(d, GivenBack)' < RunsLeft(d, GivenBack)
       /\ jobs[d].state \in Settled => jobs'[d].state = jobs[d].state]_vars

\* Whatever goes wrong, the queue gets rid of every job: no retry, stall or
\* restart goes on for ever.
EveryJobSettles ==
  \A d \in Docs : jobs[d].state \in Live ~> jobs[d].state \in Settled

\* A statement failed or a lock was lost, or the queue gave the job up for
\* its stalls.
Excused(d) == ~(hit[d] \subseteq {"crash"}) \/ jobs[d].stalls > MaxStalls

\* A client that got a 202 and polls sees a decision that stays, even if
\* workers die on the document, as long as the queue forgives their stalls.
EveryAcceptedDecided ==
  \A d \in Docs :
    upload[d] = "accepted" ~> [](rows[d].status \in Terminal \/ Excused(d))

-----------------------------------------------------------------------------
(* Properties the repository's text states and the code does not have.     *)

\* schema.prisma:133, of PENDING: "queued, not yet picked up".  A row that
\* stays PENDING after its request is over has a job that will process it.
PendingIsQueued ==
  \A d \in Docs :
    rows[d].status = "PENDING" /\ upload[d] \in {"accepted", "failed"} =>
      jobs[d].state \in Live

\* processing.processor.ts:30: "Status moves PENDING -> PROCESSING ->
\* COMPLETED|FAILED".
StatusMoves ==
  [][\A d \in Docs :
       \/ rows'[d].status = rows[d].status
       \/ <<rows[d].status, rows'[d].status>> \in
             {<<"NONE", "PENDING">>, <<"PENDING", "PROCESSING">>,
              <<"PROCESSING", "COMPLETED">>, <<"PROCESSING", "FAILED">>}]_vars

\* schema.prisma:136, of FAILED: "exhausted retries".  A job whose attempts
\* are exhausted has a FAILED row.
ExhaustedIsFailed ==
  \A d \in Docs :
    jobs[d].state = "failed" /\ jobs[d].made = MaxAttempts =>
      rows[d].status = "FAILED"

\* documents.controller.ts:48-49: after the 202, "Poll GET /documents/:id
\* (or subscribe to a webhook) to get the result."
PollEnds ==
  \A d \in Docs : upload[d] = "accepted" ~> rows[d].status \in Terminal
=============================================================================
