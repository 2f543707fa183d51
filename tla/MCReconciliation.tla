-------------------------- MODULE MCReconciliation --------------------------
(* Reconciliation for TLC: a report of two rows and two runs; certificate  *)
(* c0, accepted before, fits no row until it is corrected, c1 and c2 are   *)
(* uploads that say the same and fit one row each. The purge is that of    *)
(* the file of c0 and c1.                                                  *)
EXTENDS Reconciliation, TLC

CONSTANTS p1, w1, w2, c0, c1, c2, x0, x1, q1

Symmetry == Permutations(Run) \cup Permutations(Worker) \cup Permutations(Row)

MCExtracted == (c0 :> x0) @@ (c1 :> x1) @@ (c2 :> x1)
MCCorrection == q1 :> {<<c0, x1, FALSE>>, <<c0, x1, TRUE>>}
MCDeletion == {{c0, c1}}
MCReportOf == (w1 :> p1) @@ (w2 :> p1)
MCDue == (w1 :> 1) @@ (w2 :> 1)
MCAmount == (x0 :> 9) @@ (x1 :> 1)

(* Bound: of runs, clearings, purges and matches that write, two are under *)
(* way at a time; a correction meets one run at most, and that has ended   *)
(* or not begun.                                                           *)
Bound ==
  LET busy == {j \in Job : job[j].at \notin {"new", "ended"}}
      purges == {d \in Deletion : purge[d] # NoPurge}
  IN IF request[q1] = NewRequest
       THEN Cardinality(busy) + Cardinality(purges) + Cardinality(Writing) <= 2
       ELSE busy = {} /\ \E r \in Run : job[r].at = "new"
=============================================================================
