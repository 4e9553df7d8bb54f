------------------------- MODULE DocumentLifecycle --------------------------
(***************************************************************************)
(* What the pipeline promises a client that polls GET /documents/:id.      *)
(*                                                                         *)
(* A document is created PENDING, may become PROCESSING, and is decided    *)
(* once: COMPLETED or FAILED.  Only a document that has become suspect     *)
(* (a worker died holding it, lost its lock, or had a write reported as    *)
(* failed that was not) may be worked on again after its decision; even    *)
(* then it never goes back to PENDING and never disappears.                *)
(***************************************************************************)
CONSTANT Docs

VARIABLES status, suspect

lifecycleVars == <<status, suspect>>

LifecycleInit ==
  /\ status = [d \in Docs |-> "NONE"]
  /\ suspect = {}

Becomes(d, from, to) ==
  /\ status[d] \in from
  /\ status' = [status EXCEPT ![d] = to]

Create(d) == Becomes(d, {"NONE"}, "PENDING")
Start(d)  == Becomes(d, {"PENDING", "PROCESSING"}, "PROCESSING")
Finish(d) == Becomes(d, {"PROCESSING"}, "COMPLETED")
GiveUpOn(d) == Becomes(d, {"PROCESSING"}, "FAILED")

\* A document that was already suspect is worked on again.
Rework(d) ==
  /\ d \in suspect
  /\ \E to \in {"PROCESSING", "COMPLETED", "FAILED"} :
        Becomes(d, {"PENDING", "PROCESSING", "COMPLETED", "FAILED"}, to)

Step(d) == Create(d) \/ Start(d) \/ Finish(d) \/ GiveUpOn(d) \/ Rework(d)

\* Documents only ever become suspect, with or without a change of status.
LifecycleNext ==
  /\ suspect \subseteq suspect'
  /\ \/ UNCHANGED status
     \/ \E d \in Docs : Step(d)

LifecycleSpec == LifecycleInit /\ [][LifecycleNext]_lifecycleVars
=============================================================================
