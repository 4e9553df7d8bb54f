-------------------------- MODULE OcrServiceProofs --------------------------
(***************************************************************************)
(* For any workers, runs, faults and limits that leave room for the rest   *)
(* of a request, the abort timer of a worker never beats the answer, and   *)
(* the runs of one worker do not pile up.                                  *)
(*                                                                         *)
(* Both rest on one fact: as long as a worker has not died or been told of *)
(* a broken connection, it has waited exactly as long as its run has been  *)
(* worked on.  A run is killed before that time reaches the worker's limit.*)
(***************************************************************************)
EXTENDS OcrService, TLAPS

\* A run whose worker is still there is the one the worker waits for.
Awaited(r) ==
  run[r] # None /\ ~run[r].gone =>
    /\ call[run[r].of] \in {r, "silence"}
    /\ age[run[r].of] = run[r].lag + run[r].ran

\* A worker with a connection has a run at the other end, and one without a
\* call has no timer.
Connected(w) ==
  /\ call[w] = None => age[w] = 0
  /\ call[w] \in Runs =>
       /\ run[call[w]] # None
       /\ run[call[w]].of = w
       /\ ~run[call[w]].gone

OcrInv ==
  /\ TypeOK
  /\ \A r \in Runs : Awaited(r)
  /\ \A w \in Callers : Connected(w)

-----------------------------------------------------------------------------
\* The types hold: no run is in tesseract longer than its limit, no call
\* longer than its own (server.js:32, processor:149).
LEMMA TypeStep == TypeOK /\ [Next]_vars => TypeOK'
<1> SUFFICES ASSUME TypeOK, [Next]_vars PROVE TypeOK'
  OBVIOUS
<1> USE OcrAssumption DEF TypeOK, Run, DirState, In
<1>1. CASE Restart
  BY <1>1 DEF Restart
<1>2. CASE Tick
  <2>1. age' \in [Callers -> 0..CallLimit]
    BY <1>2 DEF Tick
  <2>2. ASSUME NEW r \in Runs, run[r] # None, In(r, {"ocr"})
        PROVE  [run[r] EXCEPT !.ran = @ + 1] \in Run
    <3>1. run[r] \in Run /\ run[r].ran < OcrLimit
      BY <1>2, <2>2 DEF Tick, Killed
    <3> QED
      BY <3>1
  <2>3. ASSUME NEW r \in Runs, run[r] # None, ~In(r, {"ocr"})
        PROVE  [run[r] EXCEPT !.lag = @ + 1] \in Run
    <3>1. run[r] \in Run /\ run[r].lag < Lag
      BY <1>2, <2>3 DEF Tick
    <3> QED
      BY <3>1
  <2>4. run' \in [Runs -> Run \cup {None}]
    BY <1>2, <2>2, <2>3 DEF Tick
  <2> QED
    BY <1>2, <2>1, <2>4 DEF Tick
<1>3. ASSUME NEW w \in Callers, Abort(w) \/ Leaves(w) \/ Silence(w)
      PROVE  TypeOK'
  <2>1. CASE Abort(w)
    BY <2>1 DEF Abort, Over
  <2>2. CASE Leaves(w)
    <3>1. ASSUME NEW r \in Runs, run[r] # None
          PROVE  [run[r] EXCEPT !.gone = TRUE] \in Run
      BY <3>1
    <3>2. run' \in [Runs -> Run \cup {None}]
      BY <2>2, <3>1 DEF Leaves
    <3> QED
      BY <2>2, <3>2 DEF Leaves, Over
  <2>3. CASE Silence(w)
    BY <2>3 DEF Silence
  <2> QED
    BY <1>3, <2>1, <2>2, <2>3
<1>4. ASSUME NEW w \in Callers, NEW r \in Runs, Ask(w, r)
      PROVE  TypeOK'
  BY <1>4 DEF Ask
<1>5. ASSUME NEW r \in Runs,
             Refuse(r) \/ Answer(r) \/ Fail(r)
      PROVE  TypeOK'
  BY <1>5 DEF Refuse, Answer, Fail, Responds, Over, Cleans
<1>6. ASSUME NEW r \in Runs, MakeDir(r) \/ Proceed(r)
      PROVE  TypeOK'
  <2>1. run[r] \in Run
    BY <1>6 DEF MakeDir, Proceed
  <2>2. After[run[r].phase] \in {"ocr", "read", "answer"} \/ MakeDir(r)
    BY <1>6 DEF Proceed, After
  <2>3. ASSUME NEW p \in {"write", "ocr", "read", "answer"}
        PROVE  [run[r] EXCEPT !.phase = p] \in Run
    BY <2>1
  <2>4. run' \in [Runs -> Run \cup {None}]
    BY <1>6, <2>2, <2>3 DEF MakeDir, Proceed, GoesOn
  <2> QED
    BY <1>6, <2>4 DEF MakeDir, Proceed
<1>7. ASSUME NEW r \in Runs, Die(r) \/ Remove(r)
      PROVE  TypeOK'
  <2>1. CASE Die(r)
    <3>1. /\ call' \in [Callers -> Runs \cup {None, "silence"}]
          /\ age' \in [Callers -> 0..CallLimit]
      BY <2>1 DEF Die, Over
    <3>2. up' \in BOOLEAN /\ run' \in [Runs -> Run \cup {None}]
      BY <2>1 DEF Die
    <3>3. dir' \in [Runs -> DirState]
      BY <2>1 DEF Die
    <3> QED
      BY <3>1, <3>2, <3>3
  <2>2. CASE Remove(r)
    BY <2>2 DEF Remove
  <2> QED
    BY <1>7, <2>1, <2>2
<1>8. CASE UNCHANGED vars
  BY <1>8 DEF vars
<1> QED
  BY <1>1, <1>2, <1>3, <1>4, <1>5, <1>6, <1>7, <1>8 DEF Next

\* A run that ends leaves every other run and its worker as they were.
LEMMA EndStep ==
  ASSUME OcrInv, NEW r \in Runs, Responds(r)
  PROVE  (\A s \in Runs : Awaited(s)') /\ (\A w \in Callers : Connected(w)')
<1>1. ASSUME NEW s \in Runs PROVE Awaited(s)'
  <2> SUFFICES ASSUME s # r, run[s] # None, ~run[s].gone
               PROVE  Awaited(s)'
    BY DEF Responds, Awaited, OcrInv, TypeOK
  <2>1. run'[s] = run[s] /\ run[s].of \in Callers
    BY DEF Responds, OcrInv, TypeOK, Run
  <2>2. call[run[s].of] # r
    BY OcrAssumption DEF OcrInv, Awaited
  <2>3. call'[run[s].of] = call[run[s].of] /\ age'[run[s].of] = age[run[s].of]
    BY <2>1, <2>2 DEF Responds, Over
  <2> QED
    BY <2>1, <2>3 DEF OcrInv, Awaited
<1>2. ASSUME NEW w \in Callers PROVE Connected(w)'
  BY OcrAssumption DEF Responds, Over, OcrInv, TypeOK, Connected
<1> QED
  BY <1>1, <1>2

\* The invariant is kept by what a worker does.
LEMMA CallerStep ==
  ASSUME OcrInv, NEW w \in Callers,
         \/ Abort(w) \/ Leaves(w) \/ Silence(w)
         \/ \E r \in Runs : Ask(w, r)
  PROVE  (\A s \in Runs : Awaited(s)') /\ (\A v \in Callers : Connected(v)')
<1> USE OcrAssumption DEF OcrInv, TypeOK, Awaited, Connected
<1>1. CASE Abort(w)
  <2>1. ASSUME NEW s \in Runs, run[s] # None, ~run[s].gone PROVE run[s].of # w
    BY <1>1, <2>1 DEF Abort, TimeIsUp, Run
  <2>2. \A s \in Runs : run[s] # None => run[s].of \in Callers
    BY DEF Run
  <2> QED
    BY <1>1, <2>1, <2>2 DEF Abort, Over
<1>2. CASE Leaves(w)
  <2>1. \A s \in Runs : run[s] # None => run[s] \in Run
    OBVIOUS
  <2>2. ASSUME NEW s \in Runs, run[s] # None, run[s].of = w
        PROVE  run'[s].gone
    BY <1>2, <2>1, <2>2 DEF Leaves, Run
  <2>3. ASSUME NEW s \in Runs, run[s] # None => run[s].of # w
        PROVE  run'[s] = run[s]
    BY <1>2, <2>3 DEF Leaves
  <2>4. ASSUME NEW v \in Callers, v # w
        PROVE  call'[v] = call[v] /\ age'[v] = age[v]
    BY <1>2, <2>4 DEF Leaves, Over
  <2>5. call'[w] = None
    BY <1>2 DEF Leaves, Over
  <2>6. \A s \in Runs : run'[s] # None => run[s] # None
    BY <1>2 DEF Leaves
  <2>7. ASSUME NEW s \in Runs PROVE Awaited(s)'
    BY <2>1, <2>2, <2>3, <2>4, <2>6 DEF Run
  <2>8. ASSUME NEW v \in Callers PROVE Connected(v)'
    <3>1. CASE v = w
      BY <1>2, <2>5, <3>1 DEF Leaves, Over
    <3>2. CASE v # w
      BY <2>3, <2>4, <3>2
    <3> QED
      BY <3>1, <3>2
  <2> QED
    BY <2>7, <2>8
<1>3. CASE Silence(w)
  BY <1>3 DEF Silence, Run
<1>4. ASSUME NEW r \in Runs, Ask(w, r)
      PROVE  (\A s \in Runs : Awaited(s)') /\ (\A v \in Callers : Connected(v)')
  <2> DEFINE new == [of |-> w, phase |-> "mkdtemp", gone |-> FALSE,
                     lag |-> 0, ran |-> 0]
  <2>n. new \in Run
    BY DEF Run
  <2>1. new # None
    BY <2>n, RunAssumption
  <2>2. /\ run'[r] = new /\ call'[w] = r /\ age' = age /\ age[w] = 0
        /\ \A s \in Runs \ {r} : run'[s] = run[s]
        /\ \A v \in Callers \ {w} : call'[v] = call[v]
    BY <1>4 DEF Ask
  <2>3. ASSUME NEW s \in Runs \ {r}, run[s] # None, ~run[s].gone
        PROVE  run[s].of # w /\ run[s].of \in Callers
    BY <1>4, <2>3 DEF Ask, Run
  <2>4. ASSUME NEW s \in Runs PROVE Awaited(s)'
    <3>1. CASE s = r
      BY <2>1, <2>2, <3>1
    <3>2. CASE s # r
      BY <2>2, <2>3, <3>2
    <3> QED
      BY <3>1, <3>2
  <2>5. ASSUME NEW v \in Callers PROVE Connected(v)'
    <3>1. CASE v = w
      BY <2>1, <2>2, <3>1
    <3>2. CASE v # w
      <4>1. call[v] # r
        BY <1>4 DEF Ask
      <4> QED
        BY <2>2, <3>2, <4>1
    <3> QED
      BY <3>1, <3>2
  <2> QED
    BY <2>4, <2>5
<1> QED
  BY <1>1, <1>2, <1>3, <1>4

\* The invariant is kept by a step of the service that ends no run.
LEMMA RunStep ==
  ASSUME OcrInv, NEW r \in Runs, MakeDir(r) \/ Proceed(r) \/ Die(r) \/ Remove(r)
  PROVE  (\A s \in Runs : Awaited(s)') /\ (\A w \in Callers : Connected(w)')
<1> USE OcrAssumption DEF OcrInv, TypeOK, Awaited, Connected
<1>1. CASE MakeDir(r) \/ Proceed(r)
  <2>1. /\ run[r] \in Run /\ run[r] # None
        /\ UNCHANGED <<call, age>>
    BY <1>1 DEF MakeDir, Proceed, In
  <2>p. PICK p \in {"write", "ocr", "read", "answer"} :
               run' = [run EXCEPT ![r] = [run[r] EXCEPT !.phase = p]]
    BY <1>1 DEF MakeDir, Proceed, GoesOn, In, After
  <2>2. ASSUME NEW s \in Runs, run'[s] # None
        PROVE  /\ run[s] # None
               /\ run'[s].of = run[s].of /\ run'[s].gone = run[s].gone
               /\ run'[s].lag = run[s].lag /\ run'[s].ran = run[s].ran
    <3>1. CASE s = r
      BY <2>1, <2>p, <3>1 DEF Run
    <3>2. CASE s # r
      BY <2>2, <2>p, <3>2
    <3> QED
      BY <3>1, <3>2
  <2>3. ASSUME NEW s \in Runs, run[s] # None PROVE run'[s] # None
    <3>1. [run[r] EXCEPT !.phase = p] \in Run
      BY <2>1 DEF Run
    <3>2. [run[r] EXCEPT !.phase = p] # None
      BY <3>1, RunAssumption
    <3> QED
      BY <2>3, <2>p, <3>2
  <2> QED
    BY <2>1, <2>2, <2>3
<1>2. CASE Die(r)
  BY <1>2 DEF Die, Over
<1>3. CASE Remove(r)
  BY <1>3 DEF Remove
<1> QED
  BY <1>1, <1>2, <1>3

\* Time passes for a worker and for its run alike.
LEMMA TickStep ==
  ASSUME OcrInv, Tick
  PROVE  (\A s \in Runs : Awaited(s)') /\ (\A w \in Callers : Connected(w)')
<1> USE OcrAssumption DEF OcrInv, TypeOK
<1>1. ASSUME NEW r \in Runs, run[r] # None
      PROVE  /\ run'[r] # None
             /\ run'[r].of = run[r].of /\ run'[r].gone = run[r].gone
             /\ run'[r].lag + run'[r].ran = run[r].lag + run[r].ran + 1
  <2>1. run[r] \in Run
    BY <1>1
  <2>2. CASE In(r, {"ocr"})
    <3>1. run'[r] = [run[r] EXCEPT !.ran = @ + 1]
      BY <1>1, <2>2 DEF Tick
    <3>2. run'[r] \in Run
      BY <1>1, <2>1, <2>2, <3>1 DEF Tick, Killed, Run
    <3> QED
      BY <2>1, <3>1, <3>2, RunAssumption DEF Run
  <2>3. CASE ~In(r, {"ocr"})
    <3>1. run'[r] = [run[r] EXCEPT !.lag = @ + 1]
      BY <1>1, <2>3 DEF Tick
    <3>2. run'[r] \in Run
      BY <1>1, <2>1, <2>3, <3>1 DEF Tick, Run
    <3>3. run'[r] # None
      BY <3>2, RunAssumption
    <3> QED
      BY <2>1, <3>1, <3>3 DEF Run
  <2> QED
    BY <2>2, <2>3
<1>2. ASSUME NEW w \in Callers, call[w] # None
      PROVE  age'[w] = age[w] + 1
  BY <1>2 DEF Tick, TimeIsUp
<1>3. ASSUME NEW r \in Runs PROVE Awaited(r)'
  <2> SUFFICES ASSUME run[r] # None, ~run[r].gone
               PROVE  Awaited(r)'
    BY <1>1 DEF Awaited, Tick
  <2>1. run[r].of \in Callers /\ run[r].lag \in Nat /\ run[r].ran \in Nat
    BY DEF Run
  <2>2. call[run[r].of] # None
    BY DEF Awaited
  <2> QED
    BY <1>1, <1>2, <2>1, <2>2 DEF Awaited, Tick
<1>4. ASSUME NEW w \in Callers PROVE Connected(w)'
  BY <1>1 DEF Connected, Tick
<1> QED
  BY <1>3, <1>4

\* Who waits, waits for a run, and exactly as long as the run has gone on:
\* over both timers, lost connections, and deaths of workers and service.
THEOREM WaitsMatchRuns == Spec => []OcrInv
<1>1. Init => OcrInv
  BY OcrAssumption, RunAssumption
     DEF Init, OcrInv, TypeOK, DirState, Awaited, Connected
<1>2. OcrInv /\ [Next]_vars => OcrInv'
  <2> SUFFICES ASSUME OcrInv, [Next]_vars PROVE OcrInv'
    OBVIOUS
  <2>1. TypeOK'
    BY TypeStep DEF OcrInv
  <2> DEFINE Kept == /\ \A r \in Runs : Awaited(r)'
                     /\ \A w \in Callers : Connected(w)'
  <2>2. Kept
    <3>1. CASE Restart \/ UNCHANGED vars
      BY <3>1 DEF Restart, vars, OcrInv, Awaited, Connected
    <3>2. CASE Tick
      BY <3>2, TickStep
    <3>3. ASSUME NEW w \in Callers,
                 \/ Abort(w) \/ Leaves(w) \/ Silence(w)
                 \/ \E r \in Runs : Ask(w, r)
          PROVE  Kept
      BY <3>3, CallerStep
    <3>4. ASSUME NEW r \in Runs, Refuse(r) \/ Answer(r) \/ Fail(r)
          PROVE  Kept
      BY <3>4, EndStep DEF Refuse, Answer, Fail
    <3>5. ASSUME NEW r \in Runs,
                 MakeDir(r) \/ Proceed(r) \/ Die(r) \/ Remove(r)
          PROVE  Kept
      BY <3>5, RunStep
    <3> QED
      BY <3>1, <3>2, <3>3, <3>4, <3>5 DEF Next
  <2> QED
    BY <2>1, <2>2 DEF OcrInv
<1> QED
  BY <1>1, <1>2, PTL DEF Spec

\* The types of the service hold, its counters of time included: tesseract
\* never runs beyond its limit (server.js:32).
THEOREM OcrTypes == Spec => []TypeOK
BY WaitsMatchRuns, PTL DEF OcrInv

\* A worker whose connection holds never reaches its own limit, for any
\* limits of which the worker's leaves room for the rest of a request.
THEOREM AnswersComeInTime == Spec => []AnsweredInTime
<1>1. OcrInv => AnsweredInTime
  BY OcrAssumption
     DEF OcrInv, Awaited, Connected, TypeOK, Run, AnsweredInTime
<1> QED
  BY <1>1, WaitsMatchRuns, PTL

\* A worker that is still there has at most the one run it waits for: its
\* retries do not pile up on the service.
THEOREM OneRunPerWorker == Spec => []RunsDoNotPileUp
<1>1. OcrInv => RunsDoNotPileUp
  BY DEF OcrInv, Awaited, RunsDoNotPileUp
<1> QED
  BY <1>1, WaitsMatchRuns, PTL
=============================================================================
