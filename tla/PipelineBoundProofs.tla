------------------------ MODULE PipelineBoundProofs ------------------------
(***************************************************************************)
(* How often a document is worked on, for any documents, workers, limits   *)
(* and faults: at most so many runs at a time, and so many counted         *)
(* failures, as the attempts and the stalls of the queue allow.  Also: what *)
(* is decided is complete.                                                 *)
(***************************************************************************)
EXTENDS PipelineProofs, FiniteSetTheorems

USE DEF Reached, Goto, Touch, OneIf

-----------------------------------------------------------------------------
(* Complete decisions.                                                     *)

Clean(r) ==
  /\ r.status = "COMPLETED" => r.data /\ ~r.error
  /\ r.status = "FAILED" => r.error

\* No statement spoils a row.
LEMMA CleanRows ==
  ASSUME NEW r \in Row, Clean(r)
  PROVE  /\ Clean(Created) /\ Clean(Claimed(r)) /\ Clean(RejectedAsPdf(r))
         /\ Clean(Completed(r)) /\ Clean(Counted(r)) /\ Clean(GivenUp(r))
BY DEF Clean, Row, NoRow, Created, Claimed, RejectedAsPdf, Completed, Counted,
       GivenUp

LEMMA CleanStep ==
  ASSUME Typed, ChainInv, [Next]_vars, NEW e \in Docs, Clean(rows[e])
  PROVE  Clean(rows'[e])
<1>1. rows[e] \in Row
  BY DEF Typed, TypeOK
<1>2. ASSUME Leaves(e) PROVE Clean(rows'[e])
  BY <1>2 DEF Leaves
<1>3. ASSUME NEW d \in Docs, Request(d) \/ UploadFails(d) \/ MoveStalled(d) \/ Promote(d)
      PROVE  Clean(rows'[e])
  <2>1. CASE d # e
    BY <1>2, <1>3, <2>1, OtherSteps
  <2>2. CASE d = e
    <3>1. rows'[e] = rows[e] \/ rows'[e] = Created
      BY <1>1, <1>3, <2>2
         DEF Typed, TypeOK, Request, RejectUpload, SaveFile, CreateRow, Enqueue,
             UploadFails, MoveStalled, Promote
    <3> QED
      BY <1>1, <3>1, CleanRows
  <2> QED
    BY <2>1, <2>2
<1>4. ASSUME NEW w \in Workers, Handler(w) PROVE Clean(rows'[e])
  <2>1. CASE run[w] # e
    BY <1>2, <1>4, <2>1, OtherSteps
  <2>2. CASE run[w] = e
    <3>1. ASSUME NEW new, NEW next, NEW thrown, Update(w, new, next, thrown),
                 Clean(new)
          PROVE  Clean(rows'[e])
      BY <2>2, <3>1, UpdateEffect
    <3>2. CASE Find(w) \/ Extract(w) \/ Settle(w)
      BY <3>2 DEF Find, Extract, ReadFile, RunOcr, Settle
    <3> QED
      BY <1>1, <1>4, <2>2, <3>1, <3>2, CleanRows
         DEF Handler, Claim, RejectPdf, Save, Count, GiveUp
  <2> QED
    BY <2>1, <2>2
<1>5. ASSUME NEW w \in Workers,
             Crash(w) \/ Restart(w) \/ LoseLock(w) \/ \E d \in Docs : Take(w, d)
      PROVE  Clean(rows'[e])
  BY <1>5 DEF Crash, Restart, LoseLock, Take
<1> QED
  BY <1>3, <1>4, <1>5 DEF Next, vars

\* A COMPLETED row carries its result and no error message and a FAILED one
\* says why, whichever runs and workers wrote it, in any order.
THEOREM DecisionsAreClean == Spec => []DecisionIsClean
<1>1. Init => DecisionIsClean
  BY DEF Init, NoRow, DecisionIsClean
<1>2. Typed /\ ChainInv /\ DecisionIsClean /\ [Next]_vars => DecisionIsClean'
  BY CleanStep DEF Clean, DecisionIsClean
<1> QED
  BY <1>1, <1>2, ChainCorrect, PTL DEF Spec

-----------------------------------------------------------------------------
(* Runs that are left.                                                     *)

Sound(d) == Locked(d) /\ Limited(d) /\ Paid(d)

\* The run the holder of the lock has begun.
Begun(d) == OneIf(jobs[d].state = "active" /\ jobs[d].owner # None)

LEMMA BegunType ==
  ASSUME NEW e \in Docs
  PROVE  Begun(e) \in {0, 1} /\ Begun(e)' \in {0, 1}
BY DEF Begun

\* What the measure is made of.
LEMMA Parts ==
  ASSUME Typed, NEW e \in Docs, IsFiniteSet(Runners(e))
  PROVE  /\ jobs[e].made \in Nat /\ jobs[e].stalls \in Nat
         /\ jobs[e].owner \in Workers \cup {None}
         /\ AttemptsLeft(e) \in Nat /\ 1 <= AttemptsLeft(e)
         /\ StallsSpent(e) \in Nat /\ jobs[e].stalls <= StallsSpent(e)
         /\ Late(e) \subseteq Runners(e) /\ IsFiniteSet(Late(e))
         /\ Cardinality(Late(e)) \in Nat
<1>1. /\ jobs[e].made \in Nat /\ jobs[e].stalls \in Nat
      /\ jobs[e].owner \in Workers \cup {None}
      /\ \A w \in Workers : attempt[w] \in Nat
  BY DEF Typed, TypeOK, Job
<1>2. AttemptsLeft(e) \in Nat /\ 1 <= AttemptsLeft(e)
  BY <1>1, QueueAssumption DEF AttemptsLeft, Held
<1>3. StallsSpent(e) \in Nat /\ jobs[e].stalls <= StallsSpent(e)
  BY <1>1 DEF StallsSpent
<1>4. Late(e) \subseteq Runners(e)
  BY DEF Late
<1> QED
  BY <1>1, <1>2, <1>3, <1>4, FS_Subset, FS_CardinalityType

\* The products in the measure.
LEMMA Products ==
  ASSUME NEW back \in Nat, NEW l \in Nat, NEW s \in Nat, s <= MaxStalls
  PROVE  /\ (MaxStalls - s) * (1 + back) \in Nat /\ l * back \in Nat
         /\ (MaxStalls - (s + 1)) * (1 + back)
              = (MaxStalls - s) * (1 + back) - 1 - back
         /\ (l + 1) * back = l * back + back
BY QueueAssumption

LEMMA LeftType ==
  ASSUME Typed, NEW e \in Docs, IsFiniteSet(Runners(e)), NEW back \in Nat
  PROVE  RunsLeft(e, back) \in Nat
<1>1. CASE StallsSpent(e) <= MaxStalls
  <2>1. /\ (MaxStalls - StallsSpent(e)) * (1 + back) \in Nat
        /\ Cardinality(Late(e)) * back \in Nat
    BY <1>1, Parts, Products
  <2> QED
    BY <1>1, <2>1, Parts, QueueAssumption DEF RunsLeft
<1>2. CASE ~(StallsSpent(e) <= MaxStalls)
  BY <1>2, Parts, QueueAssumption DEF RunsLeft
<1> QED
  BY <1>1, <1>2

\* The same after a step.
LEMMA PartsAfter ==
  ASSUME Typed', NEW e \in Docs, IsFiniteSet(Runners(e)')
  PROVE  /\ AttemptsLeft(e)' \in Nat /\ 1 <= AttemptsLeft(e)'
         /\ StallsSpent(e)' \in Nat /\ Cardinality(Late(e)') \in Nat
<1>1. /\ jobs'[e].made \in Nat /\ jobs'[e].stalls \in Nat
      /\ jobs'[e].owner \in Workers \cup {None}
      /\ \A w \in Workers : attempt'[w] \in Nat
  BY DEF Typed, TypeOK, Job
<1>2. AttemptsLeft(e)' \in Nat /\ 1 <= AttemptsLeft(e)'
  BY <1>1, QueueAssumption DEF AttemptsLeft, Held
<1>3. StallsSpent(e)' \in Nat
  BY <1>1 DEF StallsSpent
<1>4. Late(e)' \subseteq Runners(e)'
  BY DEF Late
<1> QED
  BY <1>2, <1>3, <1>4, FS_Subset, FS_CardinalityType

LEMMA LeftAfter ==
  ASSUME Typed', NEW e \in Docs, IsFiniteSet(Runners(e)'), NEW back \in Nat
  PROVE  RunsLeft(e, back)' \in Nat
<1> DEFINE t == StallsSpent(e)'  l == Cardinality(Late(e)')  b == AttemptsLeft(e)'
<1>1. b \in Nat /\ 1 <= b /\ t \in Nat /\ l \in Nat
  BY PartsAfter
<1>2. CASE t <= MaxStalls
  <2>1. (MaxStalls - t) * (1 + back) \in Nat /\ l * back \in Nat
    BY <1>1, <1>2, Products
  <2> QED
    BY <1>1, <1>2, <2>1, QueueAssumption DEF RunsLeft
<1>3. CASE ~(t <= MaxStalls)
  BY <1>1, <1>3, QueueAssumption DEF RunsLeft
<1> QED
  BY <1>2, <1>3

\* How a step may change the measure without raising it: attempts, stalls and
\* late runs go down or stay; a lock is lost; a stall follows a death; a late
\* report takes back what was reserved for it.
LEMMA LeftFalls ==
  ASSUME Typed, Typed', NEW e \in Docs, NEW back \in Nat,
         IsFiniteSet(Runners(e)), IsFiniteSet(Runners(e)'),
         jobs[e].state \in Settled => jobs'[e].state \in Settled,
         LET a == AttemptsLeft(e)        b == AttemptsLeft(e)'
             s == StallsSpent(e)         t == StallsSpent(e)'
             k == Cardinality(Late(e))   l == Cardinality(Late(e)')
             o == Begun(e)               p == Begun(e)'
         IN \/ b - p <= a - o /\ t = s /\ l = k
            \/ b <= a /\ p = o /\ t = s /\ k = l + 1
            \/ b <= a + back /\ p = o /\ t = s /\ k = l + 1
            \/ b <= a /\ o = 1 /\ p = 0 /\ t = s + 1 /\ l = k
            \/ b <= a /\ o = 1 /\ p = 0 /\ t = s + 1 /\ l = k + 1
  PROVE  RunsLeft(e, back)' <= RunsLeft(e, back)
<1> DEFINE a == AttemptsLeft(e)        b == AttemptsLeft(e)'
           s == StallsSpent(e)         t == StallsSpent(e)'
           k == Cardinality(Late(e))   l == Cardinality(Late(e)')
           o == Begun(e)               p == Begun(e)'
<1>1. a \in Nat /\ s \in Nat /\ k \in Nat
  BY Parts
<1>2. b \in Nat /\ t \in Nat /\ l \in Nat
  BY PartsAfter
<1>3. RunsLeft(e, back) \in Nat
  BY LeftType
<1>4. CASE jobs'[e].state \in Settled \/ t > MaxStalls
  BY <1>3, <1>4 DEF RunsLeft
<1>5. CASE ~(jobs'[e].state \in Settled \/ t > MaxStalls)
  <2>1. t <= MaxStalls /\ s <= MaxStalls
    BY <1>1, <1>2, <1>5, QueueAssumption
  <2>2. /\ RunsLeft(e, back) = a + (MaxStalls - s) * (1 + back) + k * back - o
        /\ RunsLeft(e, back)' = b + (MaxStalls - t) * (1 + back) + l * back - p
    BY <1>1, <1>2, <1>5, <2>1, QueueAssumption DEF RunsLeft, Begun
  <2>4. o \in {0, 1} /\ p \in {0, 1}
    BY BegunType
  <2>3. /\ (MaxStalls - s) * (1 + back) \in Nat /\ (MaxStalls - t) * (1 + back) \in Nat
        /\ k * back \in Nat /\ l * back \in Nat
        /\ (MaxStalls - (s + 1)) * (1 + back) = (MaxStalls - s) * (1 + back) - 1 - back
        /\ (k + 1) * back = k * back + back /\ (l + 1) * back = l * back + back
    BY <1>1, <1>2, <2>1, Products
  <2> HIDE DEF a, b, s, t, k, l, o, p
  <2> QED
    <3>1. CASE b - p <= a - o /\ t = s /\ l = k
      BY <1>1, <1>2, <2>2, <2>3, <2>4, <3>1
    <3>2. CASE b <= a + back /\ p = o /\ t = s /\ k = l + 1
      BY <1>1, <1>2, <2>2, <2>3, <2>4, <3>2
    <3>3. CASE b <= a /\ o = 1 /\ p = 0 /\ t = s + 1 /\ l \in {k, k + 1}
      BY <1>1, <1>2, <2>2, <2>3, <2>4, <3>3
    <3>4. b <= a /\ p = o /\ t = s /\ k = l + 1 => b <= a + back
      BY <1>1, <1>2
    <3> QED
      BY <3>1, <3>2, <3>3, <3>4 DEF a, b, s, t, k, l, o, p
<1> QED
  BY <1>4, <1>5

LEMMA FrameLeft ==
  ASSUME Typed, NEW e \in Docs, NEW back \in Nat, Leaves(e)
  PROVE  RunsLeft(e, back)' = RunsLeft(e, back)
<1>1. Runners(e)' = Runners(e) /\ jobs'[e] = jobs[e]
  BY DEF Leaves, Runners
<1>2. Late(e)' = Late(e) /\ StallsSpent(e)' = StallsSpent(e)
  BY <1>1 DEF Late, StallsSpent
<1>3. (Held(e)' <=> Held(e)) /\ (Held(e) => attempt'[jobs[e].owner] = attempt[jobs[e].owner])
  BY <1>1 DEF Leaves, Held, Typed, TypeOK, Job
<1>4. AttemptsLeft(e)' = AttemptsLeft(e)
  BY <1>1, <1>3 DEF AttemptsLeft
<1> QED
  BY <1>1, <1>2, <1>4 DEF RunsLeft

\* The measure looks at the jobs, the hands and the numbers in them.
LEMMA HandsOffLeft ==
  ASSUME UNCHANGED <<jobs, run, attempt>>, NEW e \in Docs, NEW back \in Nat
  PROVE  RunsLeft(e, back)' = RunsLeft(e, back)
BY DEF RunsLeft, AttemptsLeft, StallsSpent, Late, Runners, Held

\* A request makes the job, with all its runs to come.
LEMMA LeftRequest ==
  ASSUME Typed, ChainInv, NEW e \in Docs, Locked(e), NEW back \in Nat,
         Request(e) \/ UploadFails(e)
  PROVE  RunsLeft(e, back)' = RunsLeft(e, back)
<1>1. UNCHANGED <<run, attempt>>
  BY DEF Request, RejectUpload, SaveFile, CreateRow, Enqueue, UploadFails
<1>2. \/ jobs'[e] = jobs[e]
      \/ /\ jobs[e].state = "none" /\ jobs'[e].state = "wait"
         /\ jobs'[e].made = jobs[e].made /\ jobs'[e].stalls = jobs[e].stalls
         /\ jobs'[e].owner = jobs[e].owner
  BY DEF Typed, TypeOK, Job, ChainInv, RequestInv, Request, RejectUpload, SaveFile,
         CreateRow, Enqueue, UploadFails, Add
<1>3. /\ AttemptsLeft(e)' = AttemptsLeft(e) /\ StallsSpent(e)' = StallsSpent(e)
      /\ Late(e)' = Late(e)
  BY <1>1, <1>2 DEF AttemptsLeft, Held, StallsSpent, Late, Runners
<1> QED
  BY <1>2, <1>3 DEF RunsLeft, Settled

LEMMA LeftTimer ==
  ASSUME Typed, Typed', NEW e \in Docs, Locked(e), NEW back \in Nat,
         IsFiniteSet(Runners(e)), MoveStalled(e) \/ Promote(e)
  PROVE  RunsLeft(e, back)' <= RunsLeft(e, back)
<1>1. UNCHANGED <<run, attempt>> /\ Runners(e)' = Runners(e)
  BY DEF MoveStalled, Promote, Runners
<1>2. Runners(e) \subseteq Workers
  BY DEF Runners
<1>3. CASE MoveStalled(e)
  <2>1. /\ jobs[e].state = "active" /\ ~Held(e) /\ jobs'[e].made = jobs[e].made
        /\ jobs'[e].stalls = jobs[e].stalls + 1 /\ jobs'[e].owner = None
        /\ jobs'[e].state \in {"wait", "failed"}
    BY <1>3 DEF MoveStalled, Stall, Typed, TypeOK, Job
  <2>2. ~Held(e)' /\ AttemptsLeft(e)' = AttemptsLeft(e)
    BY <2>1 DEF Held, AttemptsLeft
  <2>3. Late(e)' = Late(e)
    BY <1>1, <1>2, <2>1, QueueAssumption DEF Late, Held, Runners
  <2>4. CASE jobs[e].owner = None
    <3>1. StallsSpent(e)' = StallsSpent(e)
      BY <2>1, <2>4, Parts DEF StallsSpent
    <3>2. Begun(e) = 0 /\ Begun(e)' = 0
      BY <2>1, <2>4 DEF Begun
    <3> QED
      BY <1>1, <2>1, <2>2, <2>3, <2>4, <3>1, <3>2, LeftFalls, Parts DEF Settled
  <2>5. CASE jobs[e].owner # None
    <3>1. StallsSpent(e)' = StallsSpent(e) + 1
      BY <2>1, <2>5, Parts DEF StallsSpent
    <3>2. Begun(e) = 1 /\ Begun(e)' = 0
      BY <2>1, <2>5 DEF Begun
    <3> QED
      BY <1>1, <2>1, <2>2, <2>3, <2>5, <3>1, <3>2, LeftFalls, Parts DEF Settled
  <2> QED
    BY <2>4, <2>5
<1>4. CASE Promote(e)
  <2>1. /\ jobs[e].state = "delayed" /\ jobs'[e].made = jobs[e].made
        /\ jobs'[e].stalls = jobs[e].stalls /\ jobs'[e].owner = jobs[e].owner
        /\ jobs'[e].state = "wait"
    BY <1>4 DEF Promote, Due, Typed, TypeOK, Job
  <2>2. /\ AttemptsLeft(e)' = AttemptsLeft(e) /\ StallsSpent(e)' = StallsSpent(e)
        /\ Late(e)' = Late(e)
    BY <1>1, <2>1 DEF AttemptsLeft, Held, StallsSpent, Late
  <2>3. Begun(e) = 0 /\ Begun(e)' = 0
    BY <2>1 DEF Begun
  <2> QED
    BY <1>1, <2>1, <2>2, <2>3, LeftFalls, Parts DEF Settled
<1> QED
  BY <1>3, <1>4

\* The report of the holder uses up its attempt.  That of a worker without the
\* lock takes attempts back, but no more than were reserved for it: nothing, if
\* there is no such worker.
LEMMA LeftSettle ==
  ASSUME Typed, Typed', NEW e \in Docs, Locked(e), NEW back \in Nat,
         IsFiniteSet(Runners(e)), NEW w \in Workers, run[w] = e, Settle(w),
         jobs[e].owner # w => MaxAttempts <= back + 2
  PROVE  RunsLeft(e, back)' <= RunsLeft(e, back)
<1>1. /\ attempt' = attempt /\ run'[w] = None /\ attempt[w] \in Nat
      /\ \A v \in Workers \ {w} : run'[v] = run[v]
  BY DEF Settle, Typed, TypeOK
<1>2. Runners(e)' = Runners(e) \ {w} /\ w \in Runners(e)
  BY <1>1, QueueAssumption DEF Runners
<1>3. IsFiniteSet(Runners(e)')
  BY <1>2, FS_RemoveElement
<1>4. CASE jobs[e].owner # w
  <2>1. /\ jobs'[e].state = jobs[e].state /\ jobs'[e].owner = jobs[e].owner
        /\ jobs'[e].stalls = jobs[e].stalls /\ jobs'[e].made = attempt[w] + 1
    BY <1>4 DEF Settle, SaveAttempt, Typed, TypeOK, Job
  <2>2. Late(e)' = Late(e) \ {w} /\ w \in Late(e) /\ IsFiniteSet(Late(e))
    BY <1>2, <1>4, <2>1, Parts DEF Late
  <2>3. Cardinality(Late(e)) = Cardinality(Late(e)') + 1
    <3>1. Cardinality(Late(e) \ {w}) = Cardinality(Late(e)) - 1
      BY <2>2, FS_RemoveElement
    <3>2. Cardinality(Late(e)) \in Nat
      BY Parts
    <3> QED
      BY <2>2, <3>1, <3>2
  <2>4. StallsSpent(e)' = StallsSpent(e)
    BY <2>1 DEF StallsSpent
  <2>5. AttemptsLeft(e)' <= AttemptsLeft(e) + back
    <3>1. Held(e)' <=> Held(e)
      BY <1>1, <1>4, <2>1, QueueAssumption DEF Held, Typed, TypeOK, Job
    <3>2. Held(e) => attempt[jobs[e].owner] \in Nat
      BY DEF Held, Typed, TypeOK, Job
    <3>3. jobs[e].made \in Nat
      BY Parts
    <3> QED
      BY <1>1, <1>4, <2>1, <3>1, <3>2, <3>3, QueueAssumption DEF AttemptsLeft
  <2>6. Begun(e)' = Begun(e) /\ Begun(e) \in {0, 1}
    BY <2>1 DEF Begun
  <2> QED
    BY <1>3, <2>1, <2>3, <2>4, <2>5, <2>6, LeftFalls DEF Settled
<1>5. CASE jobs[e].owner = w
  <2>1. jobs[e].state = "active" /\ Held(e) /\ jobs[e].owner # None
    BY <1>5, QueueAssumption DEF Locked, Held
  <2>2. \/ jobs'[e].state = "completed"
        \/ /\ jobs'[e].state = IF attempt[w] + 1 < MaxAttempts
                               THEN "delayed" ELSE "failed"
           /\ jobs'[e].made = attempt[w] + 1
           /\ jobs'[e].stalls = jobs[e].stalls /\ jobs'[e].owner = None
    BY <1>5 DEF Settle, Complete, Fail, Typed, TypeOK, Job
  <2>3. CASE jobs'[e].state \in Settled
    <3>1. RunsLeft(e, back)' = 0
      BY <2>3 DEF RunsLeft
    <3> QED
      BY <3>1, LeftType
  <2>4. CASE jobs'[e].state \notin Settled
    <3>1. /\ attempt[w] + 1 < MaxAttempts /\ jobs'[e].state = "delayed"
          /\ jobs'[e].made = attempt[w] + 1
          /\ jobs'[e].stalls = jobs[e].stalls /\ jobs'[e].owner = None
      BY <2>2, <2>4 DEF Settled
    <3>2. Late(e)' = Late(e)
      BY <1>2, <1>5, <3>1, QueueAssumption DEF Late, Runners
    <3>3. StallsSpent(e)' = StallsSpent(e)
      BY <2>1, <3>1, Parts DEF StallsSpent
    <3>4. AttemptsLeft(e)' <= AttemptsLeft(e) - 1
      <4>1. AttemptsLeft(e)' = MaxAttempts - (attempt[w] + 1)
        BY <3>1 DEF AttemptsLeft, Held
      <4>2. AttemptsLeft(e) >= MaxAttempts - attempt[w]
        BY <1>1, <1>5, <2>1, <3>1, Parts, QueueAssumption DEF AttemptsLeft
      <4> QED
        BY <1>1, <4>1, <4>2, Parts, QueueAssumption
    <3>5. Begun(e) = 1 /\ Begun(e)' = 0
      BY <2>1, <3>1 DEF Begun
    <3>6. AttemptsLeft(e) \in Nat
      BY Parts
    <3>7. AttemptsLeft(e)' \in Nat
      BY <1>1, <3>1, QueueAssumption DEF AttemptsLeft, Held
    <3>8. AttemptsLeft(e)' - Begun(e)' <= AttemptsLeft(e) - Begun(e)
      BY <3>4, <3>5, <3>6, <3>7
    <3>9. jobs[e].state \notin Settled
      BY <2>1 DEF Settled
    <3> QED
      BY <1>3, <3>2, <3>3, <3>8, <3>9, LeftFalls
  <2> QED
    BY <2>3, <2>4
<1> QED
  BY <1>4, <1>5

\* A death leaves a stall to come; so does a lost lock, and a late report.
LEMMA LeftLoss ==
  ASSUME Typed, Typed', NEW e \in Docs, Locked(e), NEW back \in Nat,
         IsFiniteSet(Runners(e)), NEW w \in Workers, run[w] = e,
         Crash(w) \/ LoseLock(w)
  PROVE  RunsLeft(e, back)' <= RunsLeft(e, back)
<1>1. attempt' = attempt /\ \A v \in Workers : attempt[v] \in Nat
  BY DEF Crash, LoseLock, Typed, TypeOK
<1>2. CASE Crash(w)
  <2>1. /\ jobs' = jobs /\ run'[w] = None
        /\ \A v \in Workers \ {w} : run'[v] = run[v]
    BY <1>2 DEF Crash, Typed, TypeOK
  <2>2. Runners(e)' = Runners(e) \ {w} /\ IsFiniteSet(Runners(e)')
    BY <2>1, QueueAssumption, FS_RemoveElement DEF Runners
  <2>3. StallsSpent(e)' = StallsSpent(e)
    BY <2>1 DEF StallsSpent
  <2>4. AttemptsLeft(e)' <= AttemptsLeft(e)
    <3>1. Held(e)' => Held(e)
      BY <2>1, QueueAssumption DEF Held, Typed, TypeOK, Job
    <3>2. Held(e) => attempt[jobs[e].owner] \in Nat
      BY <1>1 DEF Held, Typed, TypeOK, Job
    <3> QED
      BY <1>1, <2>1, <3>1, <3>2, Parts, QueueAssumption DEF AttemptsLeft
  <2>5. \/ Late(e)' = Late(e)
        \/ Late(e)' = Late(e) \ {w} /\ w \in Late(e)
    BY <2>1, <2>2 DEF Late
  <2>6. \/ Cardinality(Late(e)') = Cardinality(Late(e))
        \/ Cardinality(Late(e)) = Cardinality(Late(e)') + 1
    <3>1. IsFiniteSet(Late(e)) /\ Cardinality(Late(e)) \in Nat
      BY Parts
    <3>2. w \in Late(e) => Cardinality(Late(e) \ {w}) = Cardinality(Late(e)) - 1
      BY <3>1, FS_RemoveElement
    <3> QED
      BY <2>5, <3>1, <3>2
  <2> QED
    <3>1. Begun(e)' = Begun(e) /\ Begun(e) \in {0, 1}
      BY <2>1 DEF Begun
    <3>2. AttemptsLeft(e) \in Nat
      BY Parts
    <3>3. AttemptsLeft(e)' \in Nat
      BY <1>1, <2>1, Parts, QueueAssumption DEF AttemptsLeft, Held, Typed, TypeOK, Job
    <3>4. AttemptsLeft(e)' - Begun(e)' <= AttemptsLeft(e) - Begun(e)
      BY <2>4, <3>1, <3>2, <3>3
    <3> QED
      BY <2>1, <2>2, <2>3, <2>4, <2>6, <3>1, <3>4, LeftFalls
<1>3. CASE LoseLock(w)
  <2>1. /\ run' = run /\ jobs[e].owner = w /\ jobs'[e].owner = None
        /\ jobs'[e].state = jobs[e].state /\ jobs'[e].made = jobs[e].made
        /\ jobs'[e].stalls = jobs[e].stalls
    BY <1>3 DEF LoseLock, Expire, Typed, TypeOK, Job
  <2>2. jobs[e].state = "active" /\ w \in Runners(e) /\ Runners(e)' = Runners(e)
    BY <2>1, QueueAssumption DEF Locked, Runners
  <2>3. StallsSpent(e)' = StallsSpent(e) + 1
    BY <2>1, <2>2, Parts, QueueAssumption DEF StallsSpent
  <2>4. AttemptsLeft(e)' <= AttemptsLeft(e)
    BY <1>1, <2>1, Parts, QueueAssumption DEF AttemptsLeft, Held
  <2>5. Late(e)' = Late(e) \cup {w} /\ w \notin Late(e)
    BY <2>1, <2>2, QueueAssumption DEF Late, Runners
  <2>6. Cardinality(Late(e)') = Cardinality(Late(e)) + 1
    BY <2>5, FS_AddElement, Parts
  <2> QED
    <3>1. Begun(e) = 1 /\ Begun(e)' = 0
      BY <2>1, <2>2, QueueAssumption DEF Begun
    <3>2. IsFiniteSet(Runners(e)')
      BY <2>2
    <3>3. jobs[e].state \notin Settled
      BY <2>2 DEF Settled
    <3> QED
      BY <2>3, <2>4, <2>6, <3>1, <3>2, <3>3, LeftFalls
<1> QED
  BY <1>2, <1>3

\* A run begins: one less is left.
LEMMA LeftTake ==
  ASSUME Typed, NEW e \in Docs, Locked(e), Limited(e), NEW back \in Nat,
         IsFiniteSet(Runners(e)), NEW w \in Workers, Take(w, e)
  PROVE  RunsLeft(e, back)' = RunsLeft(e, back) - 1
<1>1. /\ jobs[e].state = "wait" /\ jobs'[e].state = "active"
      /\ jobs'[e].made = jobs[e].made /\ jobs'[e].stalls = jobs[e].stalls
      /\ jobs'[e].owner = w /\ jobs[e].owner = None
  BY DEF Take, Deliver, Typed, TypeOK, Job, Locked
<1>2. /\ run'[w] = e /\ attempt'[w] = jobs[e].made /\ w \notin Runners(e)
      /\ \A v \in Workers \ {w} : run'[v] = run[v]
  BY QueueAssumption DEF Take, Runners, Typed, TypeOK, HandsInv
<1>3. AttemptsLeft(e)' = AttemptsLeft(e)
  BY <1>1, <1>2, QueueAssumption DEF AttemptsLeft, Held
<1>4. StallsSpent(e)' = StallsSpent(e) /\ StallsSpent(e) <= MaxStalls
  BY <1>1, Parts, QueueAssumption DEF StallsSpent, Limited
<1>5. Late(e)' = Late(e)
  BY <1>1, <1>2, QueueAssumption DEF Late, Runners
<1>6. /\ (MaxStalls - StallsSpent(e)) * (1 + back) \in Nat
      /\ Cardinality(Late(e)) * back \in Nat
  BY <1>4, Parts, Products
<1>7. /\ RunsLeft(e, back) = AttemptsLeft(e) + (MaxStalls - StallsSpent(e)) * (1 + back)
                                + Cardinality(Late(e)) * back
      /\ RunsLeft(e, back)' = AttemptsLeft(e) + (MaxStalls - StallsSpent(e)) * (1 + back)
                                 + Cardinality(Late(e)) * back - 1
  <2>1. StallsSpent(e) \in Nat /\ ~(StallsSpent(e) > MaxStalls) /\ AttemptsLeft(e) \in Nat
    BY <1>4, Parts, QueueAssumption
  <2> QED
    BY <1>1, <1>3, <1>4, <1>5, <1>6, <2>1, QueueAssumption DEF RunsLeft, Settled
<1> QED
  BY <1>6, <1>7, Parts

\* Whoever comes to have a document in hand has taken its job.
LEMMA NewRunnerTakes ==
  ASSUME Typed, ChainInv, [Next]_vars, NEW e \in Docs, NEW w \in Workers,
         run[w] # e, run'[w] = e
  PROVE  Take(w, e)
<1>1. ASSUME NEW v \in Workers, Handler(v)
      PROVE  run'[w] \in {run[w], None}
  <2>1. CASE Settle(v)
    BY <2>1 DEF Settle, Typed, TypeOK
  <2>2. CASE ~Settle(v)
    BY <1>1, <2>2, HandlerCases
  <2> QED
    BY <2>1, <2>2
<1>2. ASSUME NEW v \in Workers, Crash(v) \/ Restart(v) \/ LoseLock(v)
      PROVE  run'[w] \in {run[w], None}
  BY <1>2 DEF Crash, Restart, LoseLock, Typed, TypeOK
<1>3. ASSUME NEW d \in Docs, Request(d) \/ UploadFails(d) \/ MoveStalled(d) \/ Promote(d)
      PROVE  run' = run
  BY <1>3 DEF Request, RejectUpload, SaveFile, CreateRow, Enqueue, UploadFails,
              MoveStalled, Promote
<1>4. ASSUME NEW v \in Workers, NEW d \in Docs, Take(v, d) PROVE v = w /\ d = e
  BY <1>4 DEF Take, Typed, TypeOK
<1> QED
  BY <1>1, <1>2, <1>3, <1>4, QueueAssumption DEF Next, vars

\* Every step leaves the measure or lowers it, and a run that begins lowers it.
\* What late reports may take back has to be reserved, unless all the runs have
\* their lock.
LEMMA LeftStep ==
  ASSUME Typed, Typed', ChainInv, [Next]_vars, NEW e \in Docs, Sound(e), NEW back \in Nat,
         MaxAttempts <= back + 2 \/ \A w \in Runners(e) : jobs[e].owner = w
  PROVE  /\ RunsLeft(e, back)' <= RunsLeft(e, back)
         /\ \A w \in Workers : Take(w, e) => RunsLeft(e, back)' = RunsLeft(e, back) - 1
<1>1. Locked(e) /\ Limited(e) /\ IsFiniteSet(Runners(e)) /\ RunsLeft(e, back) \in Nat
  BY LeftType DEF Sound, Paid
<1>2. ASSUME Leaves(e) PROVE RunsLeft(e, back)' <= RunsLeft(e, back)
  BY <1>1, <1>2, FrameLeft
<1>3. ASSUME UNCHANGED vars PROVE RunsLeft(e, back)' <= RunsLeft(e, back)
  BY <1>2, <1>3 DEF vars, Leaves
<1>4. ASSUME NEW d \in Docs, Request(d) \/ UploadFails(d) \/ MoveStalled(d) \/ Promote(d)
      PROVE  RunsLeft(e, back)' <= RunsLeft(e, back)
  BY <1>1, <1>2, <1>4, OtherSteps, LeftRequest, LeftTimer
<1>5. ASSUME NEW w \in Workers, Handler(w) \/ Crash(w) \/ Restart(w) \/ LoseLock(w)
      PROVE  RunsLeft(e, back)' <= RunsLeft(e, back)
  <2>1. CASE run[w] # e \/ Restart(w)
    BY <1>2, <1>5, <2>1, OtherSteps
  <2>2. CASE run[w] = e /\ Settle(w)
    BY <1>1, <2>2, LeftSettle DEF Runners
  <2>3. CASE run[w] = e /\ Handler(w) /\ ~Settle(w)
    BY <1>1, <2>3, HandlerCases, HandsOffLeft
  <2>4. CASE run[w] = e /\ (Crash(w) \/ LoseLock(w))
    BY <1>1, <2>4, LeftLoss
  <2> QED
    BY <1>5, <2>1, <2>2, <2>3, <2>4
<1>6. ASSUME NEW w \in Workers, Take(w, e)
      PROVE  RunsLeft(e, back)' = RunsLeft(e, back) - 1
  BY <1>1, <1>6, LeftTake
<1>7. ASSUME NEW w \in Workers, NEW d \in Docs, Take(w, d)
      PROVE  RunsLeft(e, back)' <= RunsLeft(e, back)
  BY <1>1, <1>2, <1>6, <1>7, OtherSteps
<1> QED
  BY <1>3, <1>4, <1>5, <1>6, <1>7 DEF Next

-----------------------------------------------------------------------------
(* Runs and counted failures.                                              *)

\* A step that begins no run counts no failure that was not expected.
Keeps(e) == Sound(e)' /\ Failures(e)' <= Failures(e)

\* What the cardinalities are.
LEMMA Counts ==
  ASSUME Typed, NEW e \in Docs, Paid(e)
  PROVE  /\ rows[e].retries \in Nat /\ jobs[e].made \in Nat /\ jobs[e].stalls \in Nat
         /\ Runners(e) \subseteq Workers /\ Uncounted(e) \subseteq Runners(e)
         /\ IsFiniteSet(Runners(e)) /\ IsFiniteSet(Uncounted(e))
         /\ Cardinality(Runners(e)) \in Nat /\ Cardinality(Uncounted(e)) \in Nat
<1>1. /\ rows[e].retries \in Nat /\ jobs[e].made \in Nat /\ jobs[e].stalls \in Nat
      /\ Runners(e) \subseteq Workers /\ Uncounted(e) \subseteq Runners(e)
      /\ IsFiniteSet(Runners(e))
  BY DEF Typed, TypeOK, Row, Job, Paid, Runners, Uncounted
<1>2. IsFiniteSet(Uncounted(e))
  BY <1>1, FS_Subset
<1> QED
  BY <1>1, <1>2, FS_CardinalityType

\* Fewer runs, and fewer that may still count, keep the account.
LEMMA FewerRuns ==
  ASSUME Typed, NEW e \in Docs, Paid(e),
         Runners(e)' \subseteq Runners(e), Uncounted(e)' \subseteq Uncounted(e)
  PROVE  /\ IsFiniteSet(Runners(e)')
         /\ Cardinality(Runners(e)') \in Nat /\ Cardinality(Uncounted(e)') \in Nat
         /\ Cardinality(Runners(e)') <= Cardinality(Runners(e))
         /\ Cardinality(Uncounted(e)') <= Cardinality(Uncounted(e))
<1>1. /\ IsFiniteSet(Runners(e)') /\ Cardinality(Runners(e)') <= Cardinality(Runners(e))
      /\ IsFiniteSet(Uncounted(e)')
      /\ Cardinality(Uncounted(e)') <= Cardinality(Uncounted(e))
  BY Counts, FS_Subset
<1> QED
  BY <1>1, FS_CardinalityType

LEMMA SoundFrame ==
  ASSUME Typed, NEW e \in Docs, Sound(e), Leaves(e)
  PROVE  Keeps(e)
<1>1. Runners(e)' = Runners(e) /\ Uncounted(e)' = Uncounted(e)
  BY DEF Leaves, Runners, Uncounted
<1>2. Locked(e)'
  BY DEF Leaves, Sound, Locked, Typed, TypeOK, Job
<1> QED
  BY <1>1, <1>2, Counts DEF Leaves, Keeps, Sound, Limited, Paid, Failures

\* A request makes the row and the job, which nobody runs yet.
LEMMA SoundRequest ==
  ASSUME Typed, ChainInv, NEW e \in Docs, Sound(e), Request(e) \/ UploadFails(e)
  PROVE  Keeps(e)
<1>1. UNCHANGED <<pc, run, attempt>>
  BY DEF Request, RejectUpload, SaveFile, CreateRow, Enqueue, UploadFails
<1>2. Runners(e)' = Runners(e) /\ Uncounted(e)' = Uncounted(e)
  BY <1>1 DEF Runners, Uncounted
<1>3. rows'[e] = rows[e] \/ rows'[e] = Created
  BY DEF Typed, TypeOK, Request, RejectUpload, SaveFile, CreateRow, Enqueue,
         UploadFails
<1>4. \/ jobs'[e] = jobs[e]
      \/ /\ jobs[e].state = "none" /\ jobs'[e].state = "wait"
         /\ jobs'[e].made = jobs[e].made /\ jobs'[e].stalls = jobs[e].stalls
         /\ jobs'[e].owner = jobs[e].owner
  BY DEF Typed, TypeOK, Job, ChainInv, RequestInv, Request, RejectUpload, SaveFile,
         CreateRow, Enqueue, UploadFails, Add
<1>5. rows'[e].retries \in Nat /\ rows'[e].retries <= rows[e].retries
  BY <1>3, Counts DEF Created, NoRow, Sound
<1> QED
  BY <1>1, <1>2, <1>4, <1>5, Counts
    DEF Keeps, Sound, Locked, Limited, Paid, Failures

LEMMA SoundTimer ==
  ASSUME Typed, NEW e \in Docs, Sound(e), MoveStalled(e) \/ Promote(e)
  PROVE  Keeps(e)
<1>1. UNCHANGED <<rows, pc, run, attempt>>
  BY DEF MoveStalled, Promote
<1>2. Runners(e)' = Runners(e) /\ Uncounted(e)' = Uncounted(e)
  BY <1>1 DEF Runners, Uncounted
<1>3. CASE MoveStalled(e)
  <2>1. /\ jobs[e].state = "active" /\ jobs'[e].made = jobs[e].made
        /\ jobs'[e].stalls = jobs[e].stalls + 1 /\ jobs'[e].owner = None
        /\ jobs'[e].state = IF jobs[e].stalls < MaxStalls THEN "wait" ELSE "failed"
    BY <1>3 DEF MoveStalled, Stall, Typed, TypeOK, Job
  <2> QED
    BY <1>1, <1>2, <2>1, Counts, QueueAssumption
      DEF Keeps, Sound, Locked, Limited, Paid, Failures
<1>4. CASE Promote(e)
  <2>1. /\ jobs[e].state = "delayed" /\ jobs'[e].made = jobs[e].made
        /\ jobs'[e].stalls = jobs[e].stalls /\ jobs'[e].owner = jobs[e].owner
        /\ jobs'[e].state = "wait"
    BY <1>4 DEF Promote, Due, Typed, TypeOK, Job
  <2> QED
    BY <1>1, <1>2, <2>1, Counts
      DEF Keeps, Sound, Locked, Limited, Paid, Failures
<1> QED
  BY <1>3, <1>4

\* A run either counts its failure, and then no more, or leaves the counter.
LEMMA SoundHandler ==
  ASSUME Typed, ChainInv, NEW e \in Docs, Sound(e),
         NEW w \in Workers, run[w] = e, Handler(w), ~Settle(w)
  PROVE  Keeps(e)
<1> DEFINE early == {"find", "claim", "reject", "read", "ocr", "save", "count"}
<1>1. rows[e] \in Row /\ e \in Docs
  BY DEF Typed, TypeOK
<1>2. UNCHANGED <<jobs, run, attempt>>
  BY HandlerCases
<1>3. \A v \in Workers \ {w} : pc'[v] = pc[v]
  <2>1. ASSUME NEW new, NEW next, NEW thrown, Update(w, new, next, thrown)
        PROVE  \A v \in Workers \ {w} : pc'[v] = pc[v]
    BY <2>1, UpdateEffect
  <2>2. CASE Find(w) \/ Extract(w)
    BY <2>2 DEF Find, Extract, ReadFile, RunOcr, Typed, TypeOK
  <2> QED
    BY <2>1, <2>2 DEF Handler, Claim, RejectPdf, Save, Count, GiveUp
<1>4. /\ rows'[e].retries = rows[e].retries
      /\ pc[w] \notin early => pc'[w] \notin early
   \/ /\ rows'[e].retries \in {rows[e].retries, rows[e].retries + 1}
      /\ pc[w] \in early /\ pc'[w] \notin early
  <2>1. /\ Claimed(rows[e]).retries = rows[e].retries
        /\ RejectedAsPdf(rows[e]).retries = rows[e].retries
        /\ Completed(rows[e]).retries = rows[e].retries
        /\ GivenUp(rows[e]).retries = rows[e].retries
        /\ Counted(rows[e]).retries = rows[e].retries + 1
    BY <1>1 DEF Row, Claimed, RejectedAsPdf, Completed, GivenUp, Counted
  <2>2. CASE Find(w) \/ Extract(w)
    BY <2>2 DEF Find, Extract, ReadFile, RunOcr
  <2>3. ASSUME NEW new, NEW next, NEW thrown, Update(w, new, next, thrown)
        PROVE  rows'[e] \in {rows[e], new} /\ pc'[w] \in {next, thrown}
    BY <2>3, UpdateEffect
  <2>4. CASE Claim(w)
    BY <2>1, <2>3, <2>4 DEF Claim
  <2>5. CASE RejectPdf(w)
    BY <2>1, <2>3, <2>5 DEF RejectPdf
  <2>6. CASE Save(w)
    BY <2>1, <2>3, <2>6 DEF Save
  <2>7. CASE Count(w)
    <3>1. /\ rows'[e] \in {rows[e], Counted(rows[e])}
          /\ pc'[w] \in {"giveUp", "settleErr"} /\ pc[w] = "count"
      BY <2>3, <2>7 DEF Count
    <3> QED
      BY <2>1, <3>1
  <2>8. CASE GiveUp(w)
    BY <2>1, <2>3, <2>8 DEF GiveUp
  <2> QED
    BY <2>2, <2>4, <2>5, <2>6, <2>7, <2>8 DEF Handler
<1>5. Runners(e)' = Runners(e)
  BY <1>2 DEF Runners
<1>6. CASE pc'[w] \in early \/ pc[w] \notin early
  <2>1. Uncounted(e)' \subseteq Uncounted(e)
    BY <1>2, <1>3, <1>4, <1>6 DEF Runners, Uncounted
  <2>2. rows'[e].retries = rows[e].retries
    BY <1>4, <1>6
  <2> QED
    BY <1>2, <1>5, <2>1, <2>2, Counts, FewerRuns
      DEF Keeps, Sound, Locked, Limited, Paid, Failures
<1>7. CASE pc[w] \in early /\ pc'[w] \notin early
  <2>1. Uncounted(e)' = Uncounted(e) \ {w} /\ w \in Uncounted(e)
    BY <1>2, <1>3, <1>7 DEF Runners, Uncounted
  <2>2. Cardinality(Uncounted(e)') = Cardinality(Uncounted(e)) - 1
    BY <2>1, Counts, FS_RemoveElement DEF Sound
  <2>3. rows'[e].retries \in {rows[e].retries, rows[e].retries + 1}
    BY <1>4
  <2> QED
    BY <1>2, <1>5, <2>2, <2>3, Counts
      DEF Keeps, Sound, Locked, Limited, Paid, Failures
<1> QED
  BY <1>6, <1>7

\* The report ends a run.
LEMMA SoundSettle ==
  ASSUME Typed, ChainInv, NEW e \in Docs, Sound(e),
         NEW w \in Workers, run[w] = e, Settle(w)
  PROVE  Keeps(e)
<1>1. /\ UNCHANGED <<rows, attempt>> /\ w \in Runners(e)
      /\ \A v \in Workers \ {w} : run'[v] = run[v] /\ pc'[v] = pc[v]
      /\ run'[w] = None /\ attempt[w] \in Nat
  BY DEF Settle, Runners, Typed, TypeOK
<1>2. Runners(e)' = Runners(e) \ {w} /\ Uncounted(e)' \subseteq Uncounted(e)
  BY <1>1, QueueAssumption DEF Runners, Uncounted
<1>3. Cardinality(Runners(e)') = Cardinality(Runners(e)) - 1
  BY <1>1, <1>2, Counts, FS_RemoveElement DEF Sound
<1>4. /\ IsFiniteSet(Runners(e)') /\ Cardinality(Runners(e)') \in Nat
      /\ Cardinality(Uncounted(e)') \in Nat
      /\ Cardinality(Uncounted(e)') <= Cardinality(Uncounted(e))
  BY <1>2, FewerRuns DEF Sound
<1>5. Failures(e)' <= Failures(e)
  BY <1>1, <1>4, Counts DEF Sound, Failures
<1>6. CASE jobs[e].owner # w
  <2>1. /\ jobs'[e].state = jobs[e].state /\ jobs'[e].owner = jobs[e].owner
        /\ jobs'[e].stalls = jobs[e].stalls
    BY <1>6 DEF Settle, SaveAttempt, Typed, TypeOK, Job
  <2> QED
    BY <1>1, <1>3, <1>4, <1>5, <2>1, Counts, QueueAssumption
       DEF Keeps, Sound, Locked, Limited, Paid
<1>7. CASE jobs[e].owner = w
  <2>1. jobs[e].state = "active"
    BY <1>7, QueueAssumption DEF Sound, Locked
  <2>2. /\ jobs'[e].state \in {"completed", "delayed", "failed"}
        /\ jobs'[e].stalls = jobs[e].stalls /\ jobs'[e].owner = None
    BY <1>7 DEF Settle, Complete, Fail, Typed, TypeOK, Job
  <2>3. Locked(e)' /\ Limited(e)'
    BY <2>1, <2>2, Counts, QueueAssumption DEF Sound, Locked, Limited
  <2>4. Paid(e)'
    BY <1>1, <1>3, <1>4, <2>1, <2>2, Counts, QueueAssumption DEF Sound, Paid
  <2> QED
    BY <1>5, <2>3, <2>4 DEF Keeps, Sound
<1> QED
  BY <1>6, <1>7

\* A worker dies or loses its lock: no new run begins.
LEMMA SoundLoss ==
  ASSUME Typed, NEW e \in Docs, Sound(e),
         NEW w \in Workers, run[w] = e, Crash(w) \/ LoseLock(w)
  PROVE  Keeps(e)
<1>1. /\ UNCHANGED <<rows, attempt>>
      /\ \A v \in Workers : run'[v] = e => run[v] = e /\ pc'[v] = pc[v]
  BY QueueAssumption DEF Crash, LoseLock, Typed, TypeOK
<1>2. Runners(e)' \subseteq Runners(e) /\ Uncounted(e)' \subseteq Uncounted(e)
  BY <1>1 DEF Runners, Uncounted
<1>3. /\ jobs'[e].state = jobs[e].state /\ jobs'[e].made = jobs[e].made
      /\ jobs'[e].stalls = jobs[e].stalls
      /\ jobs'[e].owner \in {jobs[e].owner, None}
  BY DEF Crash, LoseLock, Expire, Typed, TypeOK, Job
<1>4. Locked(e)'
  BY <1>1, <1>3 DEF Sound, Locked, Typed, TypeOK, Job
<1> QED
  BY <1>1, <1>2, <1>3, <1>4, Counts, FewerRuns DEF Keeps, Sound, Limited, Paid, Failures

\* A run begins, for an attempt or after a stall.
LEMMA SoundTake ==
  ASSUME Typed, NEW e \in Docs, Sound(e), NEW w \in Workers, Take(w, e)
  PROVE  Sound(e)' /\ Failures(e)' = Failures(e) + 1
<1>1. /\ UNCHANGED rows /\ w \notin Runners(e)
      /\ \A v \in Workers \ {w} : run'[v] = run[v] /\ pc'[v] = pc[v]
      /\ run'[w] = e /\ pc'[w] = "find" /\ attempt'[w] = jobs[e].made
  BY QueueAssumption DEF Take, Runners, Typed, TypeOK, HandsInv
<1>2. /\ Runners(e)' = Runners(e) \cup {w}
      /\ Uncounted(e)' = Uncounted(e) \cup {w} /\ w \notin Uncounted(e)
  BY <1>1 DEF Runners, Uncounted
<1>3. /\ IsFiniteSet(Runners(e)')
      /\ Cardinality(Runners(e)') = Cardinality(Runners(e)) + 1
      /\ Cardinality(Uncounted(e)') = Cardinality(Uncounted(e)) + 1
  <2>1. IsFiniteSet(Runners(e)) /\ IsFiniteSet(Uncounted(e))
    BY Counts DEF Sound
  <2>2. /\ IsFiniteSet(Runners(e) \cup {w})
        /\ Cardinality(Runners(e) \cup {w}) = Cardinality(Runners(e)) + 1
    BY <1>1, <2>1, FS_AddElement
  <2>3. Cardinality(Uncounted(e) \cup {w}) = Cardinality(Uncounted(e)) + 1
    BY <1>2, <2>1, FS_AddElement
  <2> QED
    BY <1>2, <2>2, <2>3
<1>4. /\ jobs[e].state = "wait" /\ jobs'[e].state = "active"
      /\ jobs'[e].made = jobs[e].made /\ jobs'[e].stalls = jobs[e].stalls
      /\ jobs'[e].owner = w
  BY DEF Take, Deliver, Typed, TypeOK, Job
<1>5. Locked(e)' /\ Limited(e)'
  BY <1>1, <1>4 DEF Sound, Locked, Limited
<1>6. Paid(e)'
  BY <1>1, <1>3, <1>4, Counts DEF Sound, Paid
<1>7. Failures(e)' = Failures(e) + 1
  BY <1>1, <1>3, Counts DEF Sound, Failures
<1> QED
  BY <1>5, <1>6, <1>7 DEF Sound

LEMMA SoundStep ==
  ASSUME Typed, ChainInv, [Next]_vars, NEW e \in Docs, Sound(e)
  PROVE  \/ Keeps(e)
         \/ /\ \E w \in Workers : Take(w, e)
            /\ Sound(e)' /\ Failures(e)' = Failures(e) + 1
<1>1. ASSUME Leaves(e) PROVE Keeps(e)
  BY <1>1, SoundFrame
<1>2. CASE UNCHANGED vars
  BY <1>1, <1>2 DEF vars, Leaves
<1>3. ASSUME NEW d \in Docs, Request(d) \/ UploadFails(d) \/ MoveStalled(d) \/ Promote(d)
      PROVE  Keeps(e)
  BY <1>1, <1>3, OtherSteps, SoundRequest, SoundTimer
<1>4. ASSUME NEW w \in Workers, Handler(w) \/ Crash(w) \/ Restart(w) \/ LoseLock(w)
      PROVE  Keeps(e)
  BY <1>1, <1>4, OtherSteps, SoundHandler, SoundSettle, SoundLoss
<1>5. ASSUME NEW w \in Workers, NEW d \in Docs, Take(w, d), d # e PROVE Keeps(e)
  BY <1>1, <1>5, OtherSteps
<1> QED
  BY <1>2, <1>3, <1>4, <1>5, SoundTake DEF Next

LEMMA BoundInit == Init => BoundInv
<1> SUFFICES ASSUME Init, NEW d \in Docs PROVE Bounded(d)
  BY DEF BoundInv
<1>1. Runners(d) = {} /\ Uncounted(d) = {} /\ Late(d) = {}
  BY QueueAssumption DEF Init, Runners, Uncounted, Late
<1>2. /\ jobs[d] = NoJob /\ rows[d].retries = 0 /\ Cardinality({}) = 0
      /\ IsFiniteSet({})
  BY FS_EmptySet DEF Init, QueueInit, NoRow
<1>3. Failures(d) = 0
  BY <1>1, <1>2 DEF Failures
<1>4. AttemptsLeft(d) = MaxAttempts /\ StallsSpent(d) = 0
  BY <1>2, QueueAssumption DEF AttemptsLeft, StallsSpent, Held, NoJob
<1>5. ASSUME NEW back \in Nat PROVE Account(d, back)
  <2>1. MaxStalls * (1 + back) \in Nat /\ 0 * back = 0 /\ MaxStalls - 0 = MaxStalls
    BY <1>5, QueueAssumption
  <2>2. RunsLeft(d, back) = MaxAttempts + MaxStalls * (1 + back)
    BY <1>1, <1>2, <1>4, <2>1, QueueAssumption DEF RunsLeft, NoJob, Settled
  <2> QED
    BY <1>3, <2>1, <2>2, QueueAssumption DEF Account
<1>6. GivenBack \in Nat
  BY QueueAssumption DEF GivenBack
<1> QED
  BY <1>1, <1>2, <1>5, <1>6, QueueAssumption
     DEF NoJob, Bounded, Locked, Limited, Paid, Accounted

\* The account is kept: what a step adds to the failures it takes from the runs
\* that are left.
LEMMA AccountStep ==
  ASSUME Typed, Typed', ChainInv, [Next]_vars, NEW e \in Docs, Sound(e), NEW back \in Nat,
         MaxAttempts <= back + 2 \/ \A w \in Runners(e) : jobs[e].owner = w,
         Account(e, back)
  PROVE  Account(e, back)'
<1> DEFINE f == Failures(e)          g == Failures(e)'
           r == RunsLeft(e, back)    s == RunsLeft(e, back)'
<1>1. f \in Nat /\ r \in Nat
  BY Counts, LeftType DEF Failures, Sound, Paid
<1>2. Sound(e)'
  BY SoundStep DEF Keeps
<1>3. g \in Nat
  <2>1. rows'[e].retries \in Nat
    BY DEF Typed, TypeOK, Row
  <2>2. Uncounted(e)' \subseteq Runners(e)' /\ IsFiniteSet(Runners(e)')
    BY <1>2 DEF Uncounted, Sound, Paid
  <2> QED
    BY <2>1, <2>2, FS_Subset, FS_CardinalityType DEF Failures
<1>4. s \in Int
  BY <1>2, LeftAfter DEF Sound, Paid
<1>5. g + s <= f + r
  BY <1>1, <1>3, <1>4, SoundStep, LeftStep DEF Keeps
<1>6. MaxStalls * (1 + back) \in Nat
  BY QueueAssumption
<1> HIDE DEF f, g, r, s
<1>7. f + r <= MaxAttempts + MaxStalls * (1 + back)
      => g + s <= MaxAttempts + MaxStalls * (1 + back)
  BY <1>1, <1>3, <1>4, <1>5, <1>6, QueueAssumption
<1> QED
  BY <1>7 DEF Account, f, g, r, s

LEMMA BoundStep == Typed /\ ChainInv /\ OwnerInv /\ BoundInv /\ [Next]_vars => BoundInv'
<1> SUFFICES ASSUME Typed, ChainInv, OwnerInv, BoundInv, [Next]_vars, NEW e \in Docs
             PROVE  Bounded(e)'
  BY DEF BoundInv
<1>1. Typed'
  BY TypedStep
<1>2. Sound(e) /\ Accounted(e)
  BY DEF BoundInv, Bounded, Sound
<1>3. Sound(e)'
  BY <1>2, SoundStep DEF Keeps
<1>4. GivenBack \in Nat /\ MaxAttempts <= GivenBack + 2
  BY QueueAssumption DEF GivenBack
<1>5. Account(e, GivenBack)'
  BY <1>1, <1>2, <1>4, AccountStep DEF Accounted
<1>6. ASSUME "freeze" \notin hit'[e] PROVE Account(e, 0)'
  <2>1. "freeze" \notin hit[e]
    BY <1>6, HitGrows
  <2>2. \A w \in Runners(e) : jobs[e].owner = w
    BY <2>1 DEF OwnerInv, Runners
  <2> QED
    BY <1>1, <1>2, <2>1, <2>2, AccountStep DEF Accounted
<1> QED
  BY <1>3, <1>5, <1>6 DEF Bounded, Sound, Accounted, GivenBack

LEMMA BoundCorrect == Spec => [](Typed /\ ChainInv /\ OwnerInv /\ BoundInv)
<1>1. Init => Typed /\ ChainInv /\ OwnerInv /\ BoundInv
  BY TypedInit, ChainInit, OwnerInit, BoundInit
<1>2. Typed /\ ChainInv /\ OwnerInv /\ BoundInv /\ [Next]_vars
        => (Typed /\ ChainInv /\ OwnerInv /\ BoundInv)'
  BY TypedStep, ChainStep, OwnerStep, BoundStep
<1> QED
  BY <1>1, <1>2, PTL DEF Spec

\* A document is processed by one worker at a time, and after a lost lock by at
\* most one more for each stall the queue forgives.
THEOREM RunsAreBounded == Spec => []BoundedRuns
<1>1. ASSUME Typed, OwnerInv, BoundInv PROVE BoundedRuns
  <2> SUFFICES ASSUME NEW d \in Docs
               PROVE  Cardinality(Runners(d)) <=
                        1 + (IF "freeze" \in hit[d] THEN MaxStalls ELSE 0)
    BY DEF BoundedRuns
  <2>1. Bounded(d)
    BY <1>1 DEF BoundInv
  <2>2. CASE "freeze" \in hit[d]
    BY <1>1, <2>1, <2>2, Counts, QueueAssumption DEF Bounded, Limited, Paid
  <2>3. CASE "freeze" \notin hit[d]
    <3>1. Runners(d) \subseteq {jobs[d].owner}
      BY <1>1, <2>3 DEF OwnerInv, Runners
    <3>2. Cardinality({jobs[d].owner}) = 1 /\ IsFiniteSet({jobs[d].owner})
      BY FS_Singleton
    <3>3. Cardinality(Runners(d)) <= 1
      BY <3>1, <3>2, FS_Subset
    <3> QED
      BY <2>3, <3>3
  <2> QED
    BY <2>2, <2>3
<1> QED
  BY <1>1, BoundCorrect, PTL

\* retryCount stays within the runs that the attempts, the forgiven stalls and,
\* once a lock was lost, the late reports allow.
THEOREM RetriesAreBounded == Spec => []RetryBound
<1>1. ASSUME Typed, BoundInv PROVE RetryBound
  <2> SUFFICES ASSUME NEW d \in Docs
               PROVE  rows[d].retries <=
                        MaxAttempts
                          + MaxStalls * (1 + (IF "freeze" \in hit[d] THEN GivenBack ELSE 0))
    BY DEF RetryBound
  <2>1. Paid(d) /\ Accounted(d) /\ GivenBack \in Nat
    BY <1>1, QueueAssumption DEF BoundInv, Bounded, GivenBack
  <2>2. ASSUME NEW back \in Nat, Account(d, back)
        PROVE  rows[d].retries <= MaxAttempts + MaxStalls * (1 + back)
    <3>1. /\ rows[d].retries \in Nat /\ Cardinality(Uncounted(d)) \in Nat
          /\ RunsLeft(d, back) \in Nat /\ MaxStalls * (1 + back) \in Nat
      BY <1>1, <2>1, Counts, LeftType, QueueAssumption DEF Paid
    <3> QED
      BY <2>2, <3>1, QueueAssumption DEF Account, Failures
  <2>3. CASE "freeze" \in hit[d]
    BY <2>1, <2>2, <2>3 DEF Accounted
  <2>4. CASE "freeze" \notin hit[d]
    BY <2>1, <2>2, <2>4 DEF Accounted
  <2> QED
    BY <2>3, <2>4
<1> QED
  BY <1>1, BoundCorrect, PTL

-----------------------------------------------------------------------------
(* Runs are used up.                                                       *)

\* A settled job has no owner who could move it.
LEMMA SettledStay ==
  ASSUME Typed, ChainInv, BoundInv, [Next]_vars, NEW e \in Docs,
         jobs[e].state \in Settled
  PROVE  jobs'[e].state = jobs[e].state
<1>1. jobs[e].owner = None /\ jobs[e].state \notin {"none", "wait", "active", "delayed"}
  BY DEF BoundInv, Bounded, Locked, Settled
<1>2. ASSUME Leaves(e) PROVE jobs'[e].state = jobs[e].state
  BY <1>2 DEF Leaves
<1>3. CASE UNCHANGED vars
  BY <1>3 DEF vars
<1>4. ASSUME NEW d \in Docs, Request(d) \/ UploadFails(d) \/ MoveStalled(d) \/ Promote(d)
      PROVE  jobs'[e].state = jobs[e].state
  <2>1. CASE d # e
    BY <1>2, <1>4, <2>1, OtherSteps
  <2>2. CASE d = e
    BY <1>1, <1>4, <2>2
       DEF ChainInv, RequestInv, Request, RejectUpload, SaveFile, CreateRow, Enqueue,
           UploadFails, MoveStalled, Promote, Due
  <2> QED
    BY <2>1, <2>2
<1>5. ASSUME NEW w \in Workers, Handler(w) \/ Crash(w) \/ Restart(w) \/ LoseLock(w)
      PROVE  jobs'[e].state = jobs[e].state
  <2>1. CASE run[w] # e \/ Restart(w)
    BY <1>2, <1>5, <2>1, OtherSteps
  <2>2. CASE run[w] = e /\ Handler(w)
    <3>1. CASE Settle(w)
      <4>1. jobs' = [jobs EXCEPT ![e].made = attempt[w] + 1]
        BY <1>1, <2>2, <3>1, QueueAssumption DEF Settle, SaveAttempt
      <4> QED
        BY <4>1 DEF Typed, TypeOK, Job
    <3>2. CASE ~Settle(w)
      BY <2>2, <3>2, HandlerCases
    <3> QED
      BY <3>1, <3>2
  <2>3. CASE run[w] = e /\ (Crash(w) \/ LoseLock(w))
    BY <1>1, <2>3, QueueAssumption DEF Crash, LoseLock
  <2> QED
    BY <1>5, <2>1, <2>2, <2>3
<1>6. ASSUME NEW w \in Workers, NEW d \in Docs, Take(w, d)
      PROVE  jobs'[e].state = jobs[e].state
  <2>1. CASE d # e
    BY <1>2, <1>6, <2>1, OtherSteps
  <2>2. CASE d = e
    BY <1>1, <1>6, <2>2 DEF Take, Deliver
  <2> QED
    BY <2>1, <2>2
<1> QED
  BY <1>3, <1>4, <1>5, <1>6 DEF Next

\* Every run of the handler uses up one of the runs there are, a late report
\* takes back what was reserved for it at most, and a settled job rests: what
\* makes retries end.
THEOREM RunsAreUsedUp == Spec => RunsRunOut
<1> DEFINE UsesUp(d) ==
      /\ RunsLeft(d, GivenBack)' \in 0 .. RunsLeft(d, GivenBack)
      /\ (\E w \in Workers : run[w] # d /\ run'[w] = d) =>
           RunsLeft(d, GivenBack)' < RunsLeft(d, GivenBack)
      /\ jobs[d].state \in Settled => jobs'[d].state = jobs[d].state
<1>1. ASSUME Typed, ChainInv, OwnerInv, BoundInv, [Next]_vars, NEW d \in Docs
      PROVE  UsesUp(d)
  <2>1. Typed' /\ BoundInv'
    BY <1>1, TypedStep, BoundStep
  <2>2. PICK back \in Nat : back = GivenBack /\ MaxAttempts <= back + 2
    BY QueueAssumption DEF GivenBack
  <2>3. GivenBack' = back
    BY <2>2 DEF GivenBack
  <2>4. Sound(d) /\ IsFiniteSet(Runners(d)) /\ IsFiniteSet(Runners(d)')
    BY <1>1, <2>1 DEF BoundInv, Bounded, Sound, Paid
  <2>5. RunsLeft(d, back) \in Nat /\ RunsLeft(d, back)' \in Nat
    BY <1>1, <2>1, <2>4, LeftType, LeftAfter
  <2>6. /\ RunsLeft(d, back)' <= RunsLeft(d, back)
        /\ \A w \in Workers : Take(w, d) => RunsLeft(d, back)' = RunsLeft(d, back) - 1
    BY <1>1, <2>1, <2>2, <2>4, LeftStep
  <2>7. /\ RunsLeft(d, back)' \in 0 .. RunsLeft(d, back)
        /\ (\E w \in Workers : run[w] # d /\ run'[w] = d) =>
             RunsLeft(d, back)' < RunsLeft(d, back)
    BY <1>1, <2>5, <2>6, NewRunnerTakes
  <2> QED
    BY <1>1, <2>2, <2>3, <2>7, SettledStay
<1>2. Typed /\ ChainInv /\ OwnerInv /\ BoundInv /\ [Next]_vars
        => [\A d \in Docs : UsesUp(d)]_vars
  BY <1>1
<1> QED
  BY <1>2, BoundCorrect, PTL DEF Spec, RunsRunOut

-----------------------------------------------------------------------------
(* From jobs that settle to documents that are decided.                    *)

\* An accepted document whose job is over is decided, or excused.
LEMMA RestIsDecided ==
  ASSUME TypeOK, UploadChain, SettledIsDecided, NEW d \in Docs,
         upload[d] = "accepted"
  PROVE  /\ jobs[d].state \in Live \cup Settled
         /\ jobs[d].state \in Settled => rows[d].status \in Terminal \/ Excused(d)
<1>1. /\ jobs[d].state \in JobState /\ jobs[d].state # "none"
      /\ jobs[d].stalls \in Nat
  BY DEF TypeOK, Job, UploadChain
<1>2. jobs[d].state \in Live \cup Settled
  BY <1>1 DEF JobState, Live, Settled
<1>3. ASSUME hit[d] \subseteq {"crash"}, jobs[d].stalls <= MaxStalls,
             jobs[d].state \in Settled
      PROVE  rows[d].status \in Terminal
  BY <1>3 DEF SettledIsDecided, Settled, Terminal
<1> QED
  BY <1>1, <1>2, <1>3, QueueAssumption DEF Excused

\* A request that was accepted is over.
LEMMA AcceptedStays ==
  ASSUME TypeOK, [Next]_vars, NEW d \in Docs, upload[d] = "accepted"
  PROVE  upload'[d] = "accepted"
<1>1. ASSUME NEW w \in Workers,
             \/ Handler(w) \/ Crash(w) \/ Restart(w) \/ LoseLock(w)
             \/ \E e \in Docs : Take(w, e)
      PROVE  UNCHANGED upload
  BY <1>1 DEF Handler, Find, Claim, RejectPdf, Extract, ReadFile, RunOcr, Save, Count,
              GiveUp, Settle, Update, Crash, Restart, LoseLock, Take
<1> QED
  BY <1>1 DEF Next, vars, TypeOK, Request, RejectUpload, SaveFile, CreateRow, Enqueue,
              UploadFails, MoveStalled, Promote

\* Whatever the scheduling that makes jobs settle, it suffices for every
\* accepted document to be decided, or excused, for good.
THEOREM SettlingDecides == Spec /\ EveryJobSettles => EveryAcceptedDecided
<1>1. ASSUME NEW d \in Docs
      PROVE  Spec /\ (jobs[d].state \in Live ~> jobs[d].state \in Settled)
               => (upload[d] = "accepted" ~> [](rows[d].status \in Terminal \/ Excused(d)))
  <2>1. TypeOK /\ UploadChain /\ SettledIsDecided /\ upload[d] = "accepted"
          => /\ jobs[d].state \in Live \/ jobs[d].state \in Settled
             /\ jobs[d].state \in Settled => rows[d].status \in Terminal \/ Excused(d)
    BY RestIsDecided
  <2>2. TypeOK /\ upload[d] = "accepted" /\ [Next]_vars => (upload[d] = "accepted")'
    BY AcceptedStays
  <2>3. Typed /\ ChainInv /\ BoundInv /\ jobs[d].state \in Settled /\ [Next]_vars
          => (jobs[d].state \in Settled)'
    BY SettledStay
  <2> QED
    BY <2>1, <2>2, <2>3, BoundCorrect, TypeCorrect, UploadsAreChained,
       SettledJobsAreDecided, PTL DEF Spec
<1> QED
  BY <1>1 DEF EveryJobSettles, EveryAcceptedDecided

\* The whole invariant, as TLC checks it on a small instance: it holds, and it
\* is inductive, layer by layer.
THEOREM InvariantHolds == Spec => []IInv
<1> DEFINE Layers == /\ Typed /\ ChainInv /\ OwnerInv /\ CalmInv /\ TruthfulInv
                     /\ BoundInv /\ DecisionIsClean
<1>1. Init => Layers
  BY TypedInit, ChainInit, OwnerInit, CalmInit, TruthfulInit, BoundInit
     DEF Init, NoRow, DecisionIsClean
<1>2. Layers /\ [Next]_vars => Layers'
  BY TypedStep, ChainStep, OwnerStep, CalmStep, TruthfulStep, BoundStep, CleanStep
     DEF Clean, DecisionIsClean
<1>3. Layers => IInv
  BY DEF Typed, IInv
<1> QED
  BY <1>1, <1>2, <1>3, PTL DEF Spec
=============================================================================
