-------------------------- MODULE EventClaimProofs --------------------------
(***************************************************************************)
(* EventClaim for every set of events and attempts: its invariants, what   *)
(* no statement does to a row, and that it implements ExclusiveWork.       *)
(***************************************************************************)
EXTENDS EventClaim, TLAPS

LEMMA ClaimInitType == ClaimInit => ClaimTypeOK
  BY DEF ClaimInit, ClaimTypeOK, Row, NoRow, State, TerminalState, Step

(* Every statement of the idempotency repository writes rows and answers   *)
(* of the declared shape.                                                  *)
LEMMA ClaimTypeStep == ClaimTypeOK /\ [ClaimNext]_claimVars => ClaimTypeOK'
<1> SUFFICES ASSUME ClaimTypeOK, [ClaimNext]_claimVars
             PROVE  ClaimTypeOK'
  OBVIOUS
<1> USE DEF ClaimTypeOK
<1>1. ASSUME NEW a \in Attempt, NEW e \in Event, Deliver(a, e)
      PROVE  ClaimTypeOK'
  BY <1>1 DEF Deliver, Step
<1>2. ASSUME NEW a \in Attempt, ClaimRow(a)
      PROVE  ClaimTypeOK'
  BY <1>2 DEF ClaimRow, Claimable, Row, State, Step
<1>3. ASSUME NEW a \in Attempt, ClaimRefused(a) \/ ReadRefused(a)
      PROVE  ClaimTypeOK'
  BY <1>3 DEF ClaimRefused, ReadRefused, Step
<1>4. ASSUME NEW a \in Attempt, Renew(a)
      PROVE  ClaimTypeOK'
  BY <1>4 DEF Renew, Row
<1>5. ASSUME NEW a \in Attempt, NEW s \in TerminalState \union {"failed"}, Transition(a, s)
      PROVE  ClaimTypeOK'
  BY <1>5 DEF Transition, Row, State, TerminalState
<1>6. ASSUME NEW e \in Event, LeaseExpires(e)
      PROVE  ClaimTypeOK'
  BY <1>6 DEF LeaseExpires, Row
<1>7. CASE UNCHANGED claimVars
  BY <1>7 DEF claimVars
<1> QED
  BY <1>1, <1>2, <1>3, <1>4, <1>5, <1>6, <1>7 DEF ClaimNext, Complete, Fail

(* The rows and answers of the repository always have the declared shape.  *)
THEOREM ClaimTypeCorrect == ClaimSpec => []ClaimTypeOK
  BY ClaimInitType, ClaimTypeStep, PTL DEF ClaimSpec

-----------------------------------------------------------------------------
(* Statements that write nothing but an attempt's own answer, or a row's   *)
(* state and lease, leave the fence where it is.                           *)
LEMMA FenceKept ==
  ASSUME ClaimTypeOK, Fenced, UNCHANGED number,
         \A e \in Event : row'[e].owner = row[e].owner /\ row'[e].number = row[e].number,
         \A a \in Attempt : step'[a] = "acquired" =>
           step[a] = "acquired" /\ target'[a] = target[a]
  PROVE  Fenced'
  BY DEF ClaimTypeOK, Fenced

LEMMA FencedStep == ClaimTypeOK /\ Fenced /\ [ClaimNext]_claimVars => Fenced'
<1> SUFFICES ASSUME ClaimTypeOK, Fenced, [ClaimNext]_claimVars
             PROVE  Fenced'
  OBVIOUS
<1>1. ASSUME NEW a \in Attempt, NEW e \in Event, Deliver(a, e)
      PROVE  Fenced'
  BY <1>1, FenceKept DEF Deliver, ClaimTypeOK
<1>2. ASSUME NEW a \in Attempt, ClaimRow(a)
      PROVE  Fenced'
  <2> DEFINE e == target[a]
             n == row[e].number + 1
  <2>1. target[a] = e /\ e \in Event /\ n \in Nat /\ n > row[e].number /\ n >= 1
    BY <1>2 DEF ClaimRow, ClaimTypeOK, Row
  <2>2. /\ row'[e].owner = a /\ row'[e].number = n
        /\ number'[a] = n /\ step'[a] = "acquired" /\ UNCHANGED target
    BY <1>2, <2>1 DEF ClaimRow, ClaimTypeOK
  <2>3. \A f \in Event \ {e} : row'[f] = row[f]
    BY <1>2 DEF ClaimRow, ClaimTypeOK
  <2>4. \A b \in Attempt \ {a} : step'[b] = step[b] /\ number'[b] = number[b]
    BY <1>2 DEF ClaimRow, ClaimTypeOK
  <2>5. ASSUME NEW b \in Attempt \ {a}, step[b] = "acquired", target[b] = e
        PROVE  number[b] \in 1 .. row[e].number
    BY <2>5 DEF Fenced
  <2>6. \A b \in Attempt : step[b] # "idle" => target[b] \in Event
    BY DEF ClaimTypeOK
  <2> HIDE DEF e, n
  <2>7. ASSUME NEW b \in Attempt \ {a}, step'[b] = "acquired"
        PROVE  /\ number'[b] \in 1 .. row'[target'[b]].number
               /\ number'[b] = row'[target'[b]].number <=> row'[target'[b]].owner = b
               /\ target[b] = e => number'[b] < n
    <3>1. CASE target[b] = e
      BY <3>1, <2>7, <2>1, <2>2, <2>4, <2>5 DEF ClaimTypeOK, Row
    <3>2. CASE target[b] # e
      <4>1. target[b] \in Event \ {e}
        BY <3>2, <2>7, <2>4, <2>6
      <4> QED
        BY <3>2, <4>1, <2>7, <2>2, <2>3, <2>4 DEF Fenced
    <3> QED
      BY <3>1, <3>2
  <2>8. ASSUME NEW c \in Attempt, step'[c] = "acquired"
        PROVE  /\ number'[c] \in 1 .. row'[target'[c]].number
               /\ number'[c] = row'[target'[c]].number <=> row'[target'[c]].owner = c
    BY <2>1, <2>2, <2>7, <2>8
  <2>9. ASSUME NEW b \in Attempt, NEW c \in Attempt, b # c,
               step'[b] = "acquired", step'[c] = "acquired", target'[b] = target'[c]
        PROVE  number'[b] # number'[c]
    <3>1. CASE b = a
      BY <3>1, <2>1, <2>2, <2>7, <2>9
    <3>2. CASE c = a
      BY <3>2, <2>1, <2>2, <2>7, <2>9
    <3>3. CASE b # a /\ c # a
      BY <3>3, <2>2, <2>4, <2>9 DEF Fenced
    <3> QED
      BY <3>1, <3>2, <3>3
  <2> QED
    BY <2>8, <2>9 DEF Fenced
<1>3. ASSUME NEW a \in Attempt, ClaimRefused(a) \/ ReadRefused(a)
      PROVE  Fenced'
  BY <1>3, FenceKept DEF ClaimRefused, ReadRefused, ClaimTypeOK
<1>4. ASSUME NEW a \in Attempt, Renew(a)
      PROVE  Fenced'
  BY <1>4, FenceKept DEF Renew, ClaimTypeOK, Row
<1>5. ASSUME NEW a \in Attempt, NEW s \in TerminalState \union {"failed"}, Transition(a, s)
      PROVE  Fenced'
  BY <1>5, FenceKept DEF Transition, ClaimTypeOK, Row
<1>6. ASSUME NEW e \in Event, LeaseExpires(e)
      PROVE  Fenced'
  BY <1>6, FenceKept DEF LeaseExpires, ClaimTypeOK, Row
<1>7. CASE UNCHANGED claimVars
  BY <1>7, FenceKept DEF claimVars
<1> QED
  BY <1>1, <1>2, <1>3, <1>4, <1>5, <1>6, <1>7 DEF ClaimNext, Complete, Fail

(* A worker that lost its claim can never pass activeClaimPredicate again: *)
(* the attempt number it was given belongs to it alone and is behind the   *)
(* row's as soon as another worker has taken the event over.               *)
THEOREM ClaimFenced == ClaimSpec => []Fenced
<1>1. ClaimInit => Fenced
  BY DEF ClaimInit, Fenced
<1> QED
  BY <1>1, ClaimInitType, ClaimTypeStep, FencedStep, PTL DEF ClaimSpec

-----------------------------------------------------------------------------
(* A lease is live only while its row is running.                          *)
LiveMeansRunning == \A e \in Event : row[e].lease = "live" => row[e].state = "running"

LEMMA LiveStep ==
  ClaimTypeOK /\ LiveMeansRunning /\ [ClaimNext]_claimVars => LiveMeansRunning'
<1> SUFFICES ASSUME ClaimTypeOK, LiveMeansRunning, [ClaimNext]_claimVars
             PROVE  LiveMeansRunning'
  OBVIOUS
<1> USE DEF ClaimTypeOK, LiveMeansRunning
<1>1. ASSUME NEW a \in Attempt, ClaimRow(a)
      PROVE  LiveMeansRunning'
  BY <1>1 DEF ClaimRow
<1>2. ASSUME NEW a \in Attempt, Renew(a)
      PROVE  LiveMeansRunning'
  BY <1>2 DEF Renew, ActiveClaim, Row
<1>3. ASSUME NEW a \in Attempt, NEW s \in TerminalState \union {"failed"}, Transition(a, s)
      PROVE  LiveMeansRunning'
  BY <1>3 DEF Transition, Row
<1>4. ASSUME NEW e \in Event, LeaseExpires(e)
      PROVE  LiveMeansRunning'
  BY <1>4 DEF LeaseExpires, Row
<1>5. CASE UNCHANGED row
  BY <1>5
<1> QED
  BY <1>1, <1>2, <1>3, <1>4, <1>5
  DEF ClaimNext, Complete, Fail, Deliver, ClaimRefused, ReadRefused, claimVars

(* What one statement may do to a row.                                     *)
Frozen == \A e \in Event : row[e].state \in TerminalState => row'[e] = row[e]
Kept ==
  \A e \in Event : row[e].lease = "live" =>
    row'[e].owner = row[e].owner /\ row'[e].number = row[e].number

LEMMA RowStep ==
  ClaimTypeOK /\ LiveMeansRunning /\ [ClaimNext]_claimVars => Frozen /\ Kept
<1> SUFFICES ASSUME ClaimTypeOK, LiveMeansRunning, [ClaimNext]_claimVars
             PROVE  Frozen /\ Kept
  OBVIOUS
<1> USE DEF ClaimTypeOK, LiveMeansRunning, Frozen, Kept
<1>1. ASSUME NEW a \in Attempt, ClaimRow(a)
      PROVE  Frozen /\ Kept
  BY <1>1 DEF ClaimRow, Claimable, TerminalState
<1>2. ASSUME NEW a \in Attempt, Renew(a)
      PROVE  Frozen /\ Kept
  BY <1>2 DEF Renew, ActiveClaim, TerminalState, Row
<1>3. ASSUME NEW a \in Attempt, NEW s \in TerminalState \union {"failed"}, Transition(a, s)
      PROVE  Frozen /\ Kept
  BY <1>3 DEF Transition, ActiveClaim, TerminalState, Row
<1>4. ASSUME NEW e \in Event, LeaseExpires(e)
      PROVE  Frozen /\ Kept
  BY <1>4 DEF LeaseExpires, TerminalState, Row
<1>5. CASE UNCHANGED row
  BY <1>5
<1> QED
  BY <1>1, <1>2, <1>3, <1>4, <1>5
  DEF ClaimNext, Complete, Fail, Deliver, ClaimRefused, ReadRefused, claimVars

ClaimInv == ClaimTypeOK /\ LiveMeansRunning

LEMMA ClaimInvariant == ClaimSpec => []ClaimInv
<1>1. ClaimInit => ClaimInv
  BY ClaimInitType DEF ClaimInv, ClaimInit, LiveMeansRunning, NoRow
<1>2. ClaimInv /\ [ClaimNext]_claimVars => ClaimInv'
  BY ClaimTypeStep, LiveStep DEF ClaimInv
<1> QED
  BY <1>1, <1>2, PTL DEF ClaimSpec

(* Whatever statements run, in any order, a settled event stays as it was  *)
(* settled: redeliveries do not reopen it, late owners do not rewrite it.  *)
THEOREM TerminalStaysFrozen == ClaimSpec => TerminalFrozen
<1>1. ClaimInv /\ [ClaimNext]_claimVars =>
        [\A e \in Event : row[e].state \in TerminalState => row'[e] = row[e]]_row
  BY RowStep DEF ClaimInv, Frozen
<1> QED
  BY <1>1, ClaimInvariant, PTL DEF ClaimSpec, TerminalFrozen

(* No statement takes an event from a worker whose lease is live.          *)
THEOREM LiveClaimIsKept == ClaimSpec => LiveClaimKept
<1>1. ClaimInv /\ [ClaimNext]_claimVars =>
        [\A e \in Event : row[e].lease = "live" =>
           row'[e].owner = row[e].owner /\ row'[e].number = row[e].number]_row
  BY RowStep DEF ClaimInv, Kept
<1> QED
  BY <1>1, ClaimInvariant, PTL DEF ClaimSpec, LiveClaimKept

(* An answer "terminal_replay" is given for settled events only, and they  *)
(* stay settled: the message that is acknowledged for it is not needed.    *)
THEOREM ReplayIsSettled == ClaimSpec => []ReplayMeansSettled
<1>1. ClaimInit => ReplayMeansSettled
  BY DEF ClaimInit, ReplayMeansSettled
<1>2. ClaimInv /\ ReplayMeansSettled /\ [ClaimNext]_claimVars => ReplayMeansSettled'
  <2> SUFFICES ASSUME ClaimInv, ReplayMeansSettled, [ClaimNext]_claimVars,
                      NEW a \in Attempt, step'[a] = "terminal_replay"
               PROVE  row'[target'[a]].state \in TerminalState
    BY DEF ReplayMeansSettled
  <2>1. Frozen
    BY RowStep DEF ClaimInv
  <2>2. CASE step[a] = "terminal_replay"
    <3>1. target'[a] = target[a] /\ target[a] \in Event
      BY <2>2 DEF ClaimInv, ClaimTypeOK, ClaimNext, claimVars, Deliver, ClaimRow,
                  ClaimRefused, ReadRefused, Renew, Complete, Fail, Transition, LeaseExpires
    <3> QED
      BY <3>1, <2>1, <2>2 DEF ReplayMeansSettled, Frozen
  <2>3. CASE step[a] # "terminal_replay"
    <3>1. ReadRefused(a)
      BY <2>3 DEF ClaimInv, ClaimTypeOK, ClaimNext, claimVars, Deliver, ClaimRow,
                  ClaimRefused, ReadRefused, Renew, Complete, Fail, Transition, LeaseExpires
    <3> QED
      BY <3>1 DEF ReadRefused, ClaimInv, ClaimTypeOK
  <2> QED
    BY <2>2, <2>3
<1> QED
  BY <1>1, <1>2, ClaimInvariant, PTL DEF ClaimSpec

-----------------------------------------------------------------------------
(* What a row shows of ExclusiveWork, and the step that one row takes.     *)
HolderOf(r) == IF r.state = "running" /\ r.lease = "live" THEN r.owner ELSE NoOwner
SettledAs(r) == IF r.state \in TerminalState THEN r.state ELSE "none"

LEMMA NothingShown ==
  ASSUME \A e \in Event : /\ HolderOf(row'[e]) = HolderOf(row[e])
                          /\ SettledAs(row'[e]) = SettledAs(row[e])
  PROVE  UNCHANGED Work!workVars
  BY DEF Work!workVars, HolderOf, SettledAs

(* Only the row of e is written; what it shows before and after the        *)
(* statement makes the statement a step of ExclusiveWork.                  *)
LEMMA AcquireShown ==
  ASSUME NEW e \in Event, NEW a \in Attempt,
         \A f \in Event \ {e} : row'[f] = row[f],
         HolderOf(row[e]) = NoOwner, HolderOf(row'[e]) = a,
         SettledAs(row[e]) = "none", SettledAs(row'[e]) = "none"
  PROVE  Work!WorkNext
<1>1. Work!Acquire(a, e)
  BY DEF Work!Acquire, HolderOf, SettledAs
<1> QED
  BY <1>1 DEF Work!WorkNext

LEMMA LapseShown ==
  ASSUME NEW e \in Event,
         \A f \in Event \ {e} : row'[f] = row[f],
         HolderOf(row[e]) # NoOwner, HolderOf(row'[e]) = NoOwner,
         SettledAs(row'[e]) = SettledAs(row[e])
  PROVE  Work!WorkNext
<1>1. Work!Lapse(e)
  BY DEF Work!Lapse, HolderOf, SettledAs
<1> QED
  BY <1>1 DEF Work!WorkNext

LEMMA SettleShown ==
  ASSUME NEW e \in Event, NEW a \in Attempt, NEW o \in TerminalState,
         \A f \in Event \ {e} : row'[f] = row[f],
         HolderOf(row[e]) = a, HolderOf(row'[e]) = NoOwner, SettledAs(row'[e]) = o
  PROVE  Work!WorkNext
<1>1. Work!Settle(a, e, o)
  BY DEF Work!Settle, HolderOf, SettledAs
<1> QED
  BY <1>1 DEF Work!WorkNext

LEMMA WorkInitially == ClaimInit => Work!WorkInit
  BY DEF ClaimInit, Work!WorkInit, NoRow, TerminalState

LEMMA WorkSimulation ==
  ClaimInv /\ [ClaimNext]_claimVars => [Work!WorkNext]_(Work!workVars)
<1> SUFFICES ASSUME ClaimInv, [ClaimNext]_claimVars
             PROVE  Work!WorkNext \/ UNCHANGED Work!workVars
  OBVIOUS
<1> USE DEF ClaimInv, ClaimTypeOK, HolderOf, SettledAs
<1>1. ASSUME NEW a \in Attempt, ClaimRow(a)
      PROVE  Work!WorkNext
  <2> DEFINE e == target[a]
  <2>1. e \in Event /\ \A f \in Event \ {e} : row'[f] = row[f]
    BY <1>1 DEF ClaimRow
  <2>2. HolderOf(row[e]) = NoOwner /\ SettledAs(row[e]) = "none"
    BY <1>1, <2>1 DEF ClaimRow, Claimable, TerminalState
  <2>3. HolderOf(row'[e]) = a /\ SettledAs(row'[e]) = "none"
    BY <1>1, <2>1 DEF ClaimRow, TerminalState
  <2> HIDE DEF e, ClaimInv, HolderOf, SettledAs
  <2> QED
    BY <2>1, <2>2, <2>3, AcquireShown
<1>2. ASSUME NEW a \in Attempt, Renew(a)
      PROVE  UNCHANGED Work!workVars
  <2>1. row' = row
    BY <1>2 DEF Renew, ActiveClaim, Row
  <2> QED
    BY <2>1, NothingShown
<1>3. ASSUME NEW a \in Attempt, NEW s \in TerminalState, Transition(a, s)
      PROVE  Work!WorkNext
  <2> DEFINE e == target[a]
  <2>1. e \in Event /\ \A f \in Event \ {e} : row'[f] = row[f]
    BY <1>3 DEF Transition
  <2>2. HolderOf(row[e]) = a
    BY <1>3 DEF Transition, ActiveClaim
  <2>3. HolderOf(row'[e]) = NoOwner /\ SettledAs(row'[e]) = s
    BY <1>3, <2>1 DEF Transition, TerminalState, Row
  <2> HIDE DEF e, ClaimInv, HolderOf, SettledAs
  <2> QED
    BY <2>1, <2>2, <2>3, SettleShown
<1>4. ASSUME NEW a \in Attempt, Fail(a)
      PROVE  Work!WorkNext
  <2> DEFINE e == target[a]
  <2>1. e \in Event /\ \A f \in Event \ {e} : row'[f] = row[f]
    BY <1>4 DEF Fail, Transition
  <2>2. HolderOf(row[e]) # NoOwner /\ SettledAs(row[e]) = "none"
    BY <1>4, NoOwnerAssumption DEF Fail, Transition, ActiveClaim, TerminalState
  <2>3. HolderOf(row'[e]) = NoOwner /\ SettledAs(row'[e]) = "none"
    BY <1>4, <2>1 DEF Fail, Transition, TerminalState, Row
  <2> HIDE DEF e, ClaimInv, HolderOf, SettledAs
  <2> QED
    BY <2>1, <2>2, <2>3, LapseShown
<1>5. ASSUME NEW e \in Event, LeaseExpires(e)
      PROVE  Work!WorkNext \/ UNCHANGED Work!workVars
  <2>1. /\ \A f \in Event \ {e} : row'[f] = row[f]
        /\ row'[e].state = row[e].state /\ row'[e].lease = "expired"
    BY <1>5 DEF LeaseExpires, Row
  <2>2. HolderOf(row'[e]) = NoOwner /\ SettledAs(row'[e]) = SettledAs(row[e])
    BY <2>1
  <2> HIDE DEF ClaimInv, HolderOf, SettledAs
  <2>3. CASE HolderOf(row[e]) = NoOwner
    BY <2>1, <2>2, <2>3, NothingShown
  <2>4. CASE HolderOf(row[e]) # NoOwner
    BY <2>1, <2>2, <2>4, LapseShown
  <2> QED
    BY <2>3, <2>4
<1>6. CASE UNCHANGED row
  BY <1>6, NothingShown
<1> QED
  BY <1>1, <1>2, <1>3, <1>4, <1>5, <1>6
  DEF ClaimNext, Complete, Deliver, ClaimRefused, ReadRefused, claimVars

(* The table and its four operations implement exclusive work: whatever    *)
(* the sets of events and attempts, at most one worker may settle an event *)
(* at any time, only that worker does, and nobody does it twice.           *)
THEOREM TableImplementsWork == ClaimSpec => ImplementsExclusiveWork
<1>1. ClaimSpec => Work!WorkInit /\ [][Work!WorkNext]_(Work!workVars)
  BY WorkInitially, WorkSimulation, ClaimInvariant, PTL DEF ClaimSpec
<1> QED
  BY <1>1 DEF ImplementsExclusiveWork, Work!WorkSpec
=============================================================================
