------------------------- MODULE PipelineInvariant --------------------------
(***************************************************************************)
(* The inductive invariant behind the safety properties of Pipeline, in    *)
(* the layers the proofs establish one on top of the other.                *)
(***************************************************************************)
EXTENDS Pipeline

\* A worker has a job in hand exactly while it is in the handler.
HandsInv == \A w \in Workers : run[w] = None <=> pc[w] \in {"idle", "down"}

\* Only a job that was queued can be in a hand.
QueuedInv ==
  \A w \in Workers, d \in Docs : run[w] = d => jobs[d].state # "none"

\* How far a request has come says which of file, row and job exist; a row
\* without a job is untouched.
RequestInv ==
  \A d \in Docs :
    /\ upload[d] \in {"new", "create", "rejected"} => rows[d].status = "NONE"
    /\ upload[d] = "create" => d \in stored
    /\ upload[d] = "add" => rows[d].status # "NONE"
    /\ upload[d] \in {"new", "create", "add", "rejected"} =>
         jobs[d].state = "none"
    /\ jobs[d].state = "none" => rows[d].status \in {"NONE", "PENDING"}

ChainInv == QueuedInv /\ RequestInv /\ UploadChain

\* Until a lock is lost, whoever runs a job owns it and knows its attempt.
OwnerInv ==
  \A d \in Docs : "freeze" \notin hit[d] =>
    \A w \in Workers : run[w] = d =>
      /\ jobs[d].state = "active"
      /\ jobs[d].owner = w
      /\ attempt[w] = jobs[d].made

\* Where the handler stands says how far the row is, for a row nobody has
\* reason to suspect; such a row is undecided as long as its job may run.
CalmHandler(w) ==
  LET status == rows[run[w]].status IN
    /\ pc[w] \in {"find", "claim"} => status \in Undecided
    /\ pc[w] \in {"reject", "read", "ocr", "save", "count", "giveUp"} =>
         status = "PROCESSING"
    /\ pc[w] = "giveUp" => Final(w)
    /\ pc[w] = "settleErr" => status \in Undecided \/ Final(w)

Calm(d) ==
  /\ jobs[d].state = "active" => Held(d)
  /\ jobs[d].state \in {"wait", "delayed"} => rows[d].status \in Undecided
  /\ \A w \in Workers : run[w] = d => CalmHandler(w)

CalmInv == \A d \in Docs : ~Suspect(d) => Calm(d)

\* What the handler is about to report to the queue is what the row says,
\* when no statement failed and no lock was lost.
Verdict(d) == IF d \in Pdfs THEN "FAILED" ELSE "COMPLETED"

TruthfulHandler(w) ==
  LET d == run[w] IN
    /\ pc[w] = "reject" => d \in Pdfs
    /\ pc[w] \in {"read", "ocr", "save", "count", "giveUp"} => d \notin Pdfs
    /\ pc[w] = "settleOk" => rows[d].status = Verdict(d)
    /\ pc[w] = "settleErr" /\ Final(w) => rows[d].status = "FAILED"

Truthful(d) ==
  /\ \A w \in Workers : run[w] = d => TruthfulHandler(w)
  /\ jobs[d].state = "completed" => rows[d].status = Verdict(d)
  /\ jobs[d].state = "failed" /\ jobs[d].stalls <= MaxStalls =>
       rows[d].status = "FAILED"

TruthfulInv == \A d \in Docs : hit[d] \subseteq {"crash"} => Truthful(d)

\* Only an active job is locked.
Locked(d) == jobs[d].owner # None => jobs[d].state = "active"

\* The stall too many ends the job.
Limited(d) ==
  /\ jobs[d].stalls <= MaxStalls + 1
  /\ jobs[d].state # "failed" => jobs[d].stalls <= MaxStalls

\* A run that goes on without its lock is paid for by a stall.
Paid(d) ==
  /\ IsFiniteSet(Runners(d))
  /\ Cardinality(Runners(d)) <=
       jobs[d].stalls + OneIf(jobs[d].state = "active")

\* The runs that may still count a failure.
Uncounted(d) == {w \in Runners(d) :
  pc[w] \in {"find", "claim", "reject", "read", "ocr", "save", "count"}}

\* The failures counted, and those the runs there are may still count.
Failures(d) == rows[d].retries + Cardinality(Uncounted(d))

\* With one for each run to come they stay within the runs there may be.
Account(d, back) ==
  Failures(d) + RunsLeft(d, back) <= MaxAttempts + MaxStalls * (1 + back)

\* Only a lost lock leads to a late report.
Accounted(d) ==
  /\ Account(d, GivenBack)
  /\ "freeze" \notin hit[d] => Account(d, 0)

Bounded(d) == Locked(d) /\ Limited(d) /\ Paid(d) /\ Accounted(d)

BoundInv == \A d \in Docs : Bounded(d)

\* The layers together, as the run safety checks them.
IInv == /\ TypeOK /\ HandsInv /\ ChainInv /\ OwnerInv /\ CalmInv /\ TruthfulInv
        /\ BoundInv /\ DecisionIsClean
=============================================================================
