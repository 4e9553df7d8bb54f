----------------------------- MODULE OcrService -----------------------------
(***************************************************************************)
(* The OCR service (ocr/server.js) and the workers that call it            *)
(* (ProcessingProcessor.runOcr), with both timers and the temporary        *)
(* directories.                                                            *)
(*                                                                         *)
(* A request is worked on in a run: mkdtemp, writeFile, tesseract, and two *)
(* reads, each an await.  The run does not look at its connection: it goes *)
(* on when the caller is gone.  mkdtemp stands outside the try, and an     *)
(* async handler of Express 4 has nobody to catch it, so its failure ends  *)
(* the process, and with it every run and every tesseract of the container.*)
(*                                                                         *)
(* Pipeline takes a whole call as one step, RunOcr; this module is what    *)
(* happens inside it.                                                      *)
(***************************************************************************)
EXTENDS Naturals

CONSTANTS
  Callers,    \* the workers, each with one call at a time
  Runs,       \* the requests the service may have at one time; a bound
  None,
  OcrLimit,   \* TESSERACT_TIMEOUT_MS
  CallLimit,  \* OCR_TIMEOUT_MS
  Lag,        \* the time everything but tesseract takes for one request
  Faults      \* "error": a step of a run throws; "mkdtemp": that one does;
              \* "rm": a removal fails; "net": a connection is lost;
              \* "crash": a worker dies

\* 110 s and 120 s by default: ten seconds for the rest.
ASSUME OcrAssumption ==
  /\ None \notin Callers \cup Runs \cup {"silence"}
  /\ "silence" \notin Runs
  /\ OcrLimit \in Nat /\ CallLimit \in Nat /\ Lag \in Nat
  /\ OcrLimit + Lag < CallLimit
  /\ Faults \subseteq {"error", "mkdtemp", "rm", "net", "crash"}

VARIABLES
  up,    \* the service process is alive
  call,  \* the run each worker waits for; "silence" after a lost connection
  age,   \* for how long it has been waiting
  run,   \* each run
  dir    \* the temporary directory of each run

vars == <<up, call, age, run, dir>>

\* `gone` notes that the worker died or was told that the connection is lost;
\* `lag` and `ran` are the times spent outside and in tesseract.
Run == [of: Callers, phase: {"mkdtemp", "write", "ocr", "read", "answer"},
        gone: BOOLEAN, lag: 0..Lag, ran: 0..OcrLimit]

ASSUME RunAssumption == None \notin Run

\* "litter" is what nothing will ever remove.
DirState == {"none", "used", "removing", "litter"}

TypeOK ==
  /\ up \in BOOLEAN
  /\ call \in [Callers -> Runs \cup {None, "silence"}]
  /\ age \in [Callers -> 0..CallLimit]
  /\ run \in [Runs -> Run \cup {None}]
  /\ dir \in [Runs -> DirState]

Init ==
  /\ up = TRUE
  /\ call = [w \in Callers |-> None]
  /\ age = [w \in Callers |-> 0]
  /\ run = [r \in Runs |-> None]
  /\ dir = [r \in Runs |-> "none"]

In(r, phases) == run[r] # None /\ run[r].phase \in phases

-----------------------------------------------------------------------------
(* The worker: runOcr.                                                     *)

\* fetch: the request goes out and the abort timer starts.
Ask(w, r) ==
  /\ up /\ call[w] = None /\ run[r] = None /\ dir[r] = "none"
  /\ call' = [call EXCEPT ![w] = r]
  /\ run' = [run EXCEPT ![r] =
       [of |-> w, phase |-> "mkdtemp", gone |-> FALSE, lag |-> 0, ran |-> 0]]
  /\ UNCHANGED <<up, age, dir>>

\* The calls that end and the timers they clear.
Over(callers) ==
  /\ call' = [w \in Callers |-> IF w \in callers THEN None ELSE call[w]]
  /\ age' = [w \in Callers |-> IF w \in callers THEN 0 ELSE age[w]]

\* The same limit on both sides.
TimeIsUpWithTheRun(w) == age[w] >= OcrLimit

\* No abort timer.
TimeIsNeverUp(w) == FALSE

TimeIsUp(w) == age[w] >= CallLimit

Abort(w) ==
  /\ call[w] # None /\ TimeIsUp(w)
  /\ Over({w})
  /\ UNCHANGED <<up, run, dir>>

\* The worker dies, or is told that its connection is lost.
Leaves(w) ==
  /\ \/ "net" \in Faults /\ call[w] \in Runs
     \/ "crash" \in Faults /\ call[w] # None
  /\ Over({w})
  /\ run' = [r \in Runs |->
       IF run[r] # None /\ run[r].of = w THEN [run[r] EXCEPT !.gone = TRUE]
                                         ELSE run[r]]
  /\ UNCHANGED <<up, dir>>

\* The connection is lost, and the worker hears nothing.
Silence(w) ==
  /\ "net" \in Faults /\ call[w] \in Runs
  /\ call' = [call EXCEPT ![w] = "silence"]
  /\ UNCHANGED <<up, age, run, dir>>

-----------------------------------------------------------------------------
(* The service: POST /ocr.                                                 *)

GoesOn(r, phase) == run' = [run EXCEPT ![r].phase = phase]

\* The run is over: res.json, or res.status, to whoever waits.
Responds(r) ==
  /\ run' = [run EXCEPT ![r] = None]
  /\ Over({w \in Callers : call[w] = r})

\* multer refuses the file: no directory yet.
Refuse(r) ==
  /\ "error" \in Faults /\ In(r, {"mkdtemp"})
  /\ Responds(r)
  /\ UNCHANGED <<up, dir>>

MakeDir(r) ==
  /\ In(r, {"mkdtemp"})
  /\ GoesOn(r, "write")
  /\ dir' = [dir EXCEPT ![r] = "used"]
  /\ UNCHANGED <<up, call, age>>

\* The process dies: connections break, directories stay.
Die(r) ==
  /\ "mkdtemp" \in Faults /\ In(r, {"mkdtemp"})
  /\ up' = FALSE
  /\ run' = [s \in Runs |-> None]
  /\ Over({w \in Callers : call[w] \in Runs})
  /\ dir' = [s \in Runs |-> IF dir[s] = "none" THEN "none" ELSE "litter"]

\* restart: unless-stopped
Restart == ~up /\ up' = TRUE /\ UNCHANGED <<call, age, run, dir>>

\* writeFile, tesseract and the read of out.txt: one goes on to the next.
After == [write |-> "ocr", ocr |-> "read", read |-> "answer"]

Proceed(r) ==
  /\ In(r, {"write", "ocr", "read"})
  /\ GoesOn(r, After[run[r].phase])
  /\ UNCHANGED <<up, call, age, dir>>

\* The finally clause: the removal starts, and nobody waits for it.
Cleans(r) == dir' = [dir EXCEPT ![r] = "removing"]

\* The confidence is read from out.tsv, or is 0.
Answer(r) ==
  /\ In(r, {"answer"})
  /\ Responds(r) /\ Cleans(r)
  /\ UNCHANGED up

\* No timeout for execFile.
NeverKilled(r) == FALSE

\* execFile kills a tesseract that has had its time.
Killed(r) == In(r, {"ocr"}) /\ run[r].ran >= OcrLimit

Fails(r) ==
  Killed(r) \/ ("error" \in Faults /\ In(r, {"write", "ocr", "read"}))

\* The catch clause answers without the finally clause.
FailLeavesDir(r) ==
  /\ Fails(r)
  /\ Responds(r)
  /\ UNCHANGED <<up, dir>>

\* The catch clause: writeFile, tesseract or the read of out.txt failed.
Fail(r) ==
  /\ Fails(r)
  /\ Responds(r) /\ Cleans(r)
  /\ UNCHANGED up

\* A removal ends; its failure is swallowed.
Remove(r) ==
  /\ up /\ dir[r] = "removing"
  /\ \/ dir' = [dir EXCEPT ![r] = "none"]
     \/ "rm" \in Faults /\ dir' = [dir EXCEPT ![r] = "litter"]
  /\ UNCHANGED <<up, call, age, run>>

-----------------------------------------------------------------------------
(* Time does not pass a moment at which a timer fires, and what a run does *)
(* outside tesseract takes Lag at most.                                    *)

Tick ==
  /\ \A w \in Callers : call[w] # None => ~TimeIsUp(w)
  /\ \A r \in Runs : run[r] # None =>
       IF In(r, {"ocr"}) THEN ~Killed(r) ELSE run[r].lag < Lag
  /\ age' = [w \in Callers |->
       IF call[w] = None \/ age[w] = CallLimit THEN age[w] ELSE age[w] + 1]
  /\ run' = [r \in Runs |->
       IF run[r] = None THEN None
       ELSE IF In(r, {"ocr"}) THEN [run[r] EXCEPT !.ran = @ + 1]
                              ELSE [run[r] EXCEPT !.lag = @ + 1]]
  /\ UNCHANGED <<up, call, dir>>

-----------------------------------------------------------------------------
\* What a run does by itself; that tesseract ends is up to its timeout.
Works(r) ==
  \/ MakeDir(r) \/ Answer(r) \/ Remove(r)
  \/ ~In(r, {"ocr"}) /\ Proceed(r)
  \/ Killed(r) /\ Fail(r)

Next ==
  \/ Restart \/ Tick
  \/ \E w \in Callers : \/ Abort(w) \/ Leaves(w) \/ Silence(w)
                        \/ \E r \in Runs : Ask(w, r)
  \/ \E r \in Runs : \/ Refuse(r) \/ MakeDir(r) \/ Die(r) \/ Proceed(r)
                     \/ Answer(r) \/ Fail(r) \/ Remove(r)

Spec == Init /\ [][Next]_vars

\* Timers fire, the awaits of a run end, Docker restarts the service.
FairSpec ==
  /\ Spec
  /\ WF_vars(Tick) /\ WF_vars(Restart)
  /\ \A w \in Callers : WF_vars(Abort(w))
  /\ \A r \in Runs : WF_vars(Works(r))

-----------------------------------------------------------------------------
\* server.js:15, "so a pathological image cannot wedge a worker": a worker
\* whose connection holds is answered before its own timer fires, however
\* long tesseract would run.  The age of a call is what its run spent in and
\* around tesseract, so this rests on both limits together.
AnsweredInTime ==
  \A w \in Callers : call[w] \in Runs => age[w] < CallLimit

\* The retries of a document do not pile up on the service: when a worker
\* calls again, the run of its call before is over, even if that call ended in
\* silence.  Only a worker that died or was told that its connection is lost
\* leaves a run behind (server.js:31-34, processor:149).
RunsDoNotPileUp ==
  \A r \in Runs : run[r] # None /\ ~run[r].gone =>
    call[run[r].of] \in {r, "silence"}

\* Every call ends for its worker, answered, refused, given up or broken off,
\* so the retry logic of the queue gets its turn (processor:132-133).
EveryCallEnds == \A w \in Callers : call[w] # None ~> call[w] = None

\* Every run ends although nobody may listen any more, and its directory goes
\* away (lines 101-105), unless the process died meanwhile or the removal
\* failed, after which nothing ever removes it.
EveryDirectoryGoes ==
  \A r \in Runs : dir[r] = "used" ~> dir[r] \in {"none", "litter"}
=============================================================================
