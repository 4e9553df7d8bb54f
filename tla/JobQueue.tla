------------------------------ MODULE JobQueue ------------------------------
(***************************************************************************)
(* The `document-processing` queue: what the API and the workers rely on   *)
(* of Bull 4 on Redis (package-lock.json pins bull 4.16.5 behind           *)
(* @nestjs/bull).  The library is not part of the repository; each         *)
(* operation below is one Lua script of it, hence one step.                *)
(*                                                                         *)
(* A worker that takes a job holds a lock that a timer renews.  A job that *)
(* is active without a lock is "stalled": the periodic check of any worker *)
(* puts it back, or fails it once it has stalled more than MaxStalls times.*)
(* The stall counter is never reset, and a stall is not an attempt.  A     *)
(* settled job stays for hours (removeOnComplete, removeOnFail), far       *)
(* longer than anything here looks at it, so no step removes one.          *)
(***************************************************************************)
EXTENDS Naturals

CONSTANTS
  Docs,         \* documents: one per upload request, its id a fresh uuid;
                \* a job is named by the document it carries
  Workers,      \* worker processes; each runs one job at a time
  None,         \* "nobody" / "nothing"
  MaxAttempts,  \* attempts: 3 in DocumentsService.upload
  MaxStalls     \* Bull's default maxStalledCount: 1

ASSUME QueueAssumption ==
  /\ None \notin Docs \cup Workers
  /\ MaxAttempts \in Nat \ {0}
  /\ MaxStalls \in Nat

VARIABLE jobs

JobState == {"none", "wait", "active", "delayed", "completed", "failed"}
Live     == {"wait", "active", "delayed"}
Settled  == {"completed", "failed"}

Job == [state: JobState, made: Nat, stalls: Nat, owner: Workers \cup {None}]

NoJob == [state |-> "none", made |-> 0, stalls |-> 0, owner |-> None]

QueueInit == jobs = [d \in Docs |-> NoJob]

\* queue.add(PROCESS_DOCUMENT_JOB, { documentId, tenantId }, ...)
Add(d) == jobs' = [jobs EXCEPT ![d].state = "wait"]

\* A waiting job is handed to worker w, with the lock.
Deliver(d, w) ==
  /\ jobs[d].state = "wait"
  /\ jobs' = [jobs EXCEPT ![d].state = "active", ![d].owner = w]

\* The handler returned and its worker holds the lock.
Complete(d) ==
  jobs' = [jobs EXCEPT ![d].state = "completed", ![d].owner = None]

\* The handler threw on attempt `made` (counted from 0) and its worker holds
\* the lock: back off, or fail for good after the last attempt.
Fail(d, made) ==
  jobs' = [jobs EXCEPT
             ![d].state = IF made + 1 < MaxAttempts THEN "delayed"
                                                    ELSE "failed",
             ![d].made  = made + 1,
             ![d].owner = None]

\* A late report that writes the number the worker has read, not the next one.
SaveAttemptAgain(d, made) == jobs' = [jobs EXCEPT ![d].made = made]

\* The handler threw, or its completion was refused, and its worker has lost the
\* lock: the job is not moved, but moveToFailed queues the worker's own count
\* (_saveAttempt) in the same transaction, and no lock guards that write.  The
\* number may go up, or back.
SaveAttempt(d, made) == jobs' = [jobs EXCEPT ![d].made = made + 1]

\* The exponential backoff is over.
Due(d) ==
  /\ jobs[d].state = "delayed"
  /\ jobs' = [jobs EXCEPT ![d].state = "wait"]

\* The lock ran out under a worker that is still running the job.
Expire(d) == jobs' = [jobs EXCEPT ![d].owner = None]

\* The stall check finds the job active and its lock gone.
StallUncapped(d) ==
  jobs' = [jobs EXCEPT ![d].state  = "wait",
                       ![d].stalls = @ + 1,
                       ![d].owner  = None]

Stall(d) ==
  jobs' = [jobs EXCEPT
             ![d].state  = IF jobs[d].stalls < MaxStalls THEN "wait"
                                                         ELSE "failed",
             ![d].stalls = @ + 1,
             ![d].owner  = None]
=============================================================================
