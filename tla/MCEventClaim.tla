---------------------------- MODULE MCEventClaim ----------------------------
(* EventClaim for TLC: the attempts are interchangeable.                   *)
EXTENDS EventClaim, TLC

Symmetry == Permutations(Attempt)
=============================================================================
