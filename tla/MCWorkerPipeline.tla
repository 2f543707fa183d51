-------------------------- MODULE MCWorkerPipeline --------------------------
(* WorkerPipeline for TLC: the deliveries of one event, from the upload.   *)
EXTENDS WorkerPipeline, TLC

OnlyEvent == [m \in Message |-> CHOOSE e \in Event : TRUE]
NoRetries == [e \in Event |-> 0]
Symmetry == Permutations(Attempt)
=============================================================================
