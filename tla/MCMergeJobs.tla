----------------------------- MODULE MCMergeJobs -----------------------------
(* MergeJobs for TLC: a job of one certificate, and another certificate of *)
(* the same period that comes late; together they need two parts.          *)
EXTENDS MergeJobs

CONSTANTS c1, c2

MCByPayor == <<c1, c2>>
MCSize == (c1 :> 1) @@ (c2 :> 2)
MCSource == (c1 :> 1) @@ (c2 :> 1)
=============================================================================
