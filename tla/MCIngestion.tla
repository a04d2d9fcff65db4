----------------------------- MODULE MCIngestion -----------------------------
(* The ingestion queue on small instances: workers are interchangeable.    *)
EXTENDS Ingestion, TLC

WorkerSymmetry == Permutations(Workers)
=============================================================================
