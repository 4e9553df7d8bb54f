----------------------------- MODULE MCPipeline ------------------------------
(***************************************************************************)
(* Pipeline on small instances.  Workers are interchangeable, so the runs  *)
(* that check no liveness use WorkerSymmetry.                               *)
(***************************************************************************)
EXTENDS PipelineInvariant, TLC

WorkerSymmetry == Permutations(Workers)

\* A bound: a document that is alone meets every fault; of documents that
\* compete for the workers, one meets one kind of them.
FaultsBounded ==
  (\A d \in Docs : upload[d] # "new") =>
    \E d \in Docs : /\ Cardinality(hit[d]) <= 1
                    /\ \A e \in Docs \ {d} : hit[e] = {}
=============================================================================
