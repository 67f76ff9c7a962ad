---------------------------- MODULE MCSourceSwap ----------------------------
(* Model-checking instances of SourceSwap: model-value workers.            *)
EXTENDS SourceSwap, TLC
WorkerSymmetry == Permutations(Worker)
=============================================================================
