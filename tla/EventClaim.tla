----------------------------- MODULE EventClaim -----------------------------
(***************************************************************************)
(* The worker_idempotency table and the four operations on it              *)
(* (backend/worker/src/db/workerIdempotency.ts): claim, renew, complete    *)
(* and fail.  Every operation is one SQL statement, except a refused       *)
(* claim, which reads the row again in a statement of its own.             *)
(*                                                                         *)
(* A lease is "live" until the database clock reaches lease_expires_at     *)
(* and "expired" from then on; renewing sets it "live" again and "none" is *)
(* SQL's NULL.  The step from live to expired may happen at any moment: a  *)
(* heartbeat that is late, that fails, or whose process stopped.           *)
(***************************************************************************)
EXTENDS Naturals

CONSTANTS
  Event,      \* idempotency keys (eventId)
  Attempt,    \* claim owners: one fresh UUID per delivery of a message
  NoOwner,    \* claim_owner before the first claim
  NoEvent     \* the target of an attempt that has not been delivered to

ASSUME NoOwnerAssumption == NoOwner \notin Attempt
ASSUME NoEventAssumption == NoEvent \notin Event

TerminalState == {"success", "error", "duplicate"}
State == {"absent", "pending", "running", "failed"} \union TerminalState

VARIABLES
  row,        \* row[e]: the table's row for e ("absent": no row yet)
  step,       \* step[a]: how far the attempt's claim() call has got
  target,     \* target[a]: the event of the message the attempt handles
  number      \* number[a]: the attemptNumber its claim() returned, or 0

claimVars == <<row, step, target, number>>

Row == [state : State, owner : Attempt \union {NoOwner}, number : Nat,
        lease : {"none", "live", "expired"}]
Step == {"idle", "claiming", "reading", "acquired", "terminal_replay", "busy"}

NoRow == [state |-> "absent", owner |-> NoOwner, number |-> 0, lease |-> "none"]

ClaimInit ==
  /\ row = [e \in Event |-> NoRow]
  /\ step = [a \in Attempt |-> "idle"]
  /\ target = [a \in Attempt |-> NoEvent]
  /\ number = [a \in Attempt |-> 0]

-----------------------------------------------------------------------------
(* The predicates of the SQL statements.                                   *)

(* Mutants: failed documents are worked on again; leases are not looked at. *)
ClaimableErrors(r) ==
  \/ r.state \in {"absent", "pending", "failed", "error"}
  \/ r.state = "running" /\ r.lease # "live"

ClaimableAlways(r) == r.state \notin TerminalState

Claimable(r) ==
  \/ r.state \in {"absent", "pending", "failed"}
  \/ r.state = "running" /\ r.lease # "live"

(* Mutant: a claim is good until somebody else takes it.                   *)
ActiveClaimLapsed(a) ==
  LET r == row[target[a]] IN
  r.owner = a /\ r.number = number[a] /\ r.state = "running"

ActiveClaim(a) ==
  LET r == row[target[a]] IN
  /\ r.owner = a
  /\ r.number = number[a]
  /\ r.state = "running"
  /\ r.lease = "live"

-----------------------------------------------------------------------------
(* Mutant: the claim is made before the event is known.                    *)
DeliverUnparsed(a, e) ==
  /\ step[a] = "idle"
  /\ step' = [step EXCEPT ![a] = "claiming"]
  /\ UNCHANGED <<row, target, number>>

(* A delivery of the message of e reaches attempt a.                       *)
Deliver(a, e) ==
  /\ step[a] = "idle"
  /\ step' = [step EXCEPT ![a] = "claiming"]
  /\ target' = [target EXCEPT ![a] = e]
  /\ UNCHANGED <<row, number>>

(* Mutant: the update forgets attempt_number + 1.                          *)
ClaimRowUnnumbered(a) ==
  LET r == row[target[a]]
      n == IF r.state = "absent" THEN 1 ELSE r.number IN
  /\ step[a] = "claiming"
  /\ Claimable(r)
  /\ row' = [row EXCEPT ![target[a]] =
       [state |-> "running", owner |-> a, number |-> n, lease |-> "live"]]
  /\ number' = [number EXCEPT ![a] = n]
  /\ step' = [step EXCEPT ![a] = "acquired"]
  /\ UNCHANGED target

(* INSERT ... ON CONFLICT DO UPDATE ... WHERE: the row is taken over ...   *)
ClaimRow(a) ==
  LET r == row[target[a]] IN
  /\ step[a] = "claiming"
  /\ Claimable(r)
  /\ row' = [row EXCEPT ![target[a]] =
       [state |-> "running", owner |-> a, number |-> r.number + 1, lease |-> "live"]]
  /\ number' = [number EXCEPT ![a] = r.number + 1]
  /\ step' = [step EXCEPT ![a] = "acquired"]
  /\ UNCHANGED target

(* ... or the statement returns no row.                                    *)
ClaimRefused(a) ==
  /\ step[a] = "claiming"
  /\ ~Claimable(row[target[a]])
  /\ step' = [step EXCEPT ![a] = "reading"]
  /\ UNCHANGED <<row, target, number>>

(* Mutant: what is no longer running is taken for settled.                 *)
ReadRefusedEnded(a) ==
  /\ step[a] = "reading"
  /\ step' = [step EXCEPT ![a] =
       IF row[target[a]].state # "running" THEN "terminal_replay" ELSE "busy"]
  /\ UNCHANGED <<row, target, number>>

(* The SELECT that follows sees the row as it is by then.                  *)
ReadRefused(a) ==
  /\ step[a] = "reading"
  /\ step' = [step EXCEPT ![a] =
       IF row[target[a]].state \in TerminalState THEN "terminal_replay" ELSE "busy"]
  /\ UNCHANGED <<row, target, number>>

Renew(a) ==
  /\ step[a] = "acquired"
  /\ ActiveClaim(a)
  /\ row' = [row EXCEPT ![target[a]].lease = "live"]
  /\ UNCHANGED <<step, target, number>>

(* transitionOwnedClaim: a terminal state, or "failed", with no lease.     *)
Transition(a, s) ==
  /\ step[a] = "acquired"
  /\ ActiveClaim(a)
  /\ row' = [row EXCEPT ![target[a]].state = s, ![target[a]].lease = "none"]
  /\ UNCHANGED <<step, target, number>>

Complete(a, s) == s \in TerminalState /\ Transition(a, s)
Fail(a) == Transition(a, "failed")

LeaseExpires(e) ==
  /\ row[e].lease = "live"
  /\ row' = [row EXCEPT ![e].lease = "expired"]
  /\ UNCHANGED <<step, target, number>>

ClaimNext ==
  \/ \E a \in Attempt :
       \/ \E e \in Event : Deliver(a, e)
       \/ ClaimRow(a) \/ ClaimRefused(a) \/ ReadRefused(a)
       \/ Renew(a) \/ Fail(a)
       \/ \E s \in TerminalState : Complete(a, s)
  \/ \E e \in Event : LeaseExpires(e)

ClaimSpec == ClaimInit /\ [][ClaimNext]_claimVars
-----------------------------------------------------------------------------
ClaimTypeOK ==
  /\ row \in [Event -> Row]
  /\ step \in [Attempt -> Step]
  /\ target \in [Attempt -> Event \union {NoEvent}]
  /\ number \in [Attempt -> Nat]
  /\ \A a \in Attempt : step[a] # "idle" => target[a] \in Event

(* The number fences: among the attempts that were ever granted an event,  *)
(* no two were given the same number, none is ahead of the row, and only   *)
(* the row's owner is level with it.  A worker that lost its lease can     *)
(* therefore never pass ActiveClaim again, however late its query runs.    *)
Fenced ==
  \A a \in Attempt : step[a] = "acquired" =>
    /\ number[a] \in 1 .. row[target[a]].number
    /\ number[a] = row[target[a]].number <=> row[target[a]].owner = a
    /\ \A b \in Attempt :
         step[b] = "acquired" /\ target[b] = target[a] /\ number[b] = number[a]
           => a = b

(* A message may be acknowledged as a replay only if its event is settled, *)
(* although the read that decides it comes after the refused INSERT.       *)
ReplayMeansSettled ==
  \A a \in Attempt :
    step[a] = "terminal_replay" => row[target[a]].state \in TerminalState

(* Nothing reopens or rewrites a settled event: not a redelivery, not the  *)
(* heartbeat or the completion of a worker that was taken over.            *)
TerminalFrozen ==
  [][\A e \in Event : row[e].state \in TerminalState => row'[e] = row[e]]_row

(* A claim whose lease is live is never handed to another worker.          *)
LiveClaimKept ==
  [][\A e \in Event : row[e].lease = "live" =>
       row'[e].owner = row[e].owner /\ row'[e].number = row[e].number]_row

(* The table implements exclusive work: the holder is the owner of a live  *)
(* running row, and the outcome is the terminal state.                     *)
Work == INSTANCE ExclusiveWork WITH
  Outcome <- TerminalState,
  NoOutcome <- "none",
  holder <- [e \in Event |-> IF row[e].state = "running" /\ row[e].lease = "live"
                             THEN row[e].owner ELSE NoOwner],
  settled <- [e \in Event |-> IF row[e].state \in TerminalState
                              THEN row[e].state ELSE "none"]

ImplementsExclusiveWork == Work!WorkSpec
=============================================================================
