------------------------- MODULE MCUploadPipeline -------------------------
(* UploadPipeline for TLC: one message per event, and events whose names   *)
(* say which manual retry they are.                                        *)
EXTENDS UploadPipeline, TLC

CONSTANTS e0, r1, s1, r2, m0, m1, n1, m2

MessageEvent == [m \in Message |->
  CASE m = m0 -> e0 [] m = m1 -> r1 [] m = n1 -> s1 [] m = m2 -> r2]
Numbers == [e \in Event |-> CASE e = e0 -> 0 [] e \in {r1, s1} -> 1 [] e = r2 -> 2]
Symmetry == Permutations(Attempt) \union Permutations(Retry)
=============================================================================
