---------------------------- MODULE ExclusiveWork ----------------------------
(***************************************************************************)
(* What the worker's claims on queue events promise, with no table, lease  *)
(* arithmetic or message in sight: every event has at most one worker that *)
(* may settle it, that worker may lose the right at any time, and an event *)
(* is settled once, by the worker that holds it, and never taken up again. *)
(***************************************************************************)
CONSTANTS
  Event,      \* queue events, by eventId
  Attempt,    \* worker attempts, by attemptId
  NoOwner,    \* nobody holds the event
  Outcome,    \* the outcomes an event can be settled with
  NoOutcome   \* the event is not settled

VARIABLES
  holder,     \* holder[e]: the attempt that may settle e, or NoOwner
  settled     \* settled[e]: the outcome of e, or NoOutcome

workVars == <<holder, settled>>

WorkInit ==
  /\ holder = [e \in Event |-> NoOwner]
  /\ settled = [e \in Event |-> NoOutcome]

Acquire(a, e) ==
  /\ holder[e] = NoOwner
  /\ settled[e] = NoOutcome
  /\ holder' = [holder EXCEPT ![e] = a]
  /\ UNCHANGED settled

Lapse(e) ==
  /\ holder[e] # NoOwner
  /\ holder' = [holder EXCEPT ![e] = NoOwner]
  /\ UNCHANGED settled

Settle(a, e, o) ==
  /\ holder[e] = a
  /\ holder' = [holder EXCEPT ![e] = NoOwner]
  /\ settled' = [settled EXCEPT ![e] = o]

WorkNext ==
  \E e \in Event :
    \/ Lapse(e)
    \/ \E a \in Attempt :
         \/ Acquire(a, e)
         \/ \E o \in Outcome : Settle(a, e, o)

WorkSpec == WorkInit /\ [][WorkNext]_workVars
=============================================================================
