------------------------ MODULE ReconciliationProofs ------------------------
(***************************************************************************)
(* For every set of reports, rows, certificates, runs and actors: the      *)
(* reconciliation does to certificates only what Corrections says, so what *)
(* is proved there holds here; a report has one active run at most; and    *)
(* archived rows give their certificates back, live rows say what is       *)
(* linked to them, and runs count their rows, whatever happens at a time.  *)
(***************************************************************************)
EXTENDS Reconciliation, CorrectionsProofs, DataInduction

(* What runs, matches and clearings do leaves every certificate alone, and *)
(* a purge deletes its own.                                                *)
LEMMA StepIsCorrection == [ReconNext]_allVars => [CorrectionsNext]_correctionVars
<1> SUFFICES ASSUME [ReconNext]_allVars
             PROVE  [CorrectionsNext]_correctionVars
  OBVIOUS
<1>1. CASE CorrectionStep
  BY <1>1 DEF CorrectionsNext
<1>2. ASSUME NEW a \in Actor, MatchStep(a) \/ ActorStops(a)
      PROVE  [CorrectionsNext]_correctionVars
  <2>1. Leave(a) \/ UNCHANGED correctionVars
    BY <1>2 DEF MatchStep, ActorStops, ChooseRow, SkipMatch, WriteMatch, AbortMatch,
                MatchArchivedRow, CommitMatch
  <2> QED
    BY <2>1 DEF CorrectionsNext
<1>3. ASSUME NEW r \in Run, RunStep(r)
      PROVE  UNCHANGED correctionVars
  BY <1>3 DEF RunStep, CheckRun, InsertRun, PlanRun, UnlinkForRun, Clear, CommitRun, RunFails
<1>4. ASSUME NEW p \in Report, ReportStep(p)
      PROVE  UNCHANGED correctionVars
  BY <1>4 DEF ReportStep, UnlinkForReport, Clear, CommitReport, ReportFails
<1>5. ASSUME NEW d \in Deletion, PurgeStep(d)
      PROVE  DeleteCertificates(d) \/ UNCHANGED correctionVars
  BY <1>5 DEF PurgeStep, ArchiveMatched, CommitPurge, UndoPurge
<1>6. CASE UNCHANGED allVars
  BY <1>6 DEF allVars
<1> QED
  BY <1>1, <1>2, <1>3, <1>4, <1>5, <1>6 DEF ReconNext, CorrectionsNext

(* Matches, runs and clearings leave certificates and corrections alone    *)
(* but for the end of a match, and purges but for what they delete.        *)
THEOREM ReconciliationIsCorrections == ReconSpec => CorrectionsSpec
<1>1. ReconInit => CorrectionsInit
  BY DEF ReconInit
<1> QED
  BY <1>1, StepIsCorrection, PTL DEF ReconSpec, CorrectionsSpec

(* No two accepted certificates that nobody has corrected say the same,    *)
(* unless the worker accepted one without a look at the other.             *)
THEOREM AcceptedOnceAlways == ReconSpec => []AcceptedOnce
<1>1. CInv => AcceptedOnce
  BY DEF CInv
<1> QED
  BY <1>1, ReconciliationIsCorrections, CorrectionsInv, PTL

-----------------------------------------------------------------------------
(* Accepted certificates have contents, and so amounts.                    *)
Contents == \A c \in Certificate : cert[c].status = "accepted" => cert[c].content \in Content

(* Who is matching a certificate is disturbed by nobody else.              *)
LEMMA MatchingStays ==
  ASSUME CInv, NEW a \in Actor, actor[a].at = "matching",
         CorrectionStep \/ \E b \in Actor \ {a} : Leave(b)
  PROVE  /\ actor'[a].at = "matching" /\ actor'[a].cert = actor[a].cert
         /\ actor'[a].content = actor[a].content
<1>1. actor \in [Actor -> Doing]
  BY Types DEF CInv
<1>2. ASSUME NEW b \in Actor \ {a}, NEW new, actor' = [actor EXCEPT ![b] = new]
      PROVE  actor'[a] = actor[a]
  BY <1>1, <1>2
<1>3. ASSUME NEW b \in Actor \ {a}, NEW c, NEW x, NEW status, NEW ids, NEW validated,
             Write(b, c, status, x, ids, validated)
      PROVE  /\ actor'[a].at = "matching" /\ actor'[a].cert = actor[a].cert
             /\ actor'[a].content = actor[a].content
  <2> DEFINE doing == IF validated /\ status = "accepted"
                        THEN [actor[b] EXCEPT !.at = "matching", !.stale = FALSE]
                        ELSE Idle
  <2>1. CASE status = "accepted"
    <3>1. actor' = Outdate(b, c, x, doing)
      BY <1>3, <2>1 DEF Write
    <3>2. actor'[a] = [actor[a] EXCEPT !.stale =
             @ \/ (actor[a].cert # c /\ actor[a].verdict = "accepted" /\ actor[a].content = x)]
      BY <3>1 DEF Outdate
    <3> QED
      BY <1>1, <3>2 DEF Doing
  <2>2. CASE status # "accepted"
    <3>1. actor' = [actor EXCEPT ![b] = doing]
      BY <1>3, <2>2 DEF Write
    <3> HIDE DEF doing
    <3> QED
      BY <1>2, <3>1
  <2> QED
    BY <2>1, <2>2
<1>4. Idle.at = "idle"
  BY DEF Idle
<1>5. CASE \E b \in Actor \ {a} : Leave(b)
  BY <1>2, <1>5 DEF Leave
<1>6. ASSUME NEW q \in Request, NEW c \in Certificate, NEW x \in Content,
             NEW identity \in BOOLEAN, CreateRequest(q, c, x, identity)
      PROVE  actor'[a] = actor[a]
  BY <1>6 DEF CreateRequest
<1>7. ASSUME NEW b \in Worker,
             (\E c \in Certificate : CheckCertificate(b, c)) \/ PersistCertificate(b)
      PROVE  /\ actor'[a].at = "matching" /\ actor'[a].cert = actor[a].cert
             /\ actor'[a].content = actor[a].content
  <2>1. b \in Actor \ {a}
    BY <1>4, <1>7 DEF CheckCertificate, PersistCertificate, Actor
  <2>2. CASE \E c \in Certificate : CheckCertificate(b, c)
    BY <1>2, <2>1, <2>2 DEF CheckCertificate
  <2>3. CASE PersistCertificate(b)
    BY <1>3, <2>1, <2>3 DEF PersistCertificate
  <2> QED
    BY <1>7, <2>2, <2>3
<1>8. ASSUME NEW b \in Server,
             \/ \E q \in Request, step \in {"validating", "rejecting"} : OpenRequest(b, q, step)
             \/ ValidateCorrection(b) \/ Approve(b) \/ ApproveUnvalidated(b) \/ Reject(b)
      PROVE  /\ actor'[a].at = "matching" /\ actor'[a].cert = actor[a].cert
             /\ actor'[a].content = actor[a].content
  <2>1. b \in Actor \ {a}
    BY <1>4, <1>8 DEF OpenRequest, ValidateCorrection, Approve, ApproveUnvalidated, Reject, Actor
  <2>2. CASE \E q \in Request, step \in {"validating", "rejecting"} : OpenRequest(b, q, step)
    BY <1>2, <2>1, <2>2 DEF OpenRequest
  <2>3. CASE ValidateCorrection(b)
    <3>1. actor' = [actor EXCEPT ![b] = actor'[b]]
      BY <1>1, <2>3 DEF ValidateCorrection
    <3> QED
      BY <1>2, <2>1, <3>1
  <2>4. CASE Approve(b) \/ ApproveUnvalidated(b)
    BY <1>3, <2>1, <2>4 DEF Approve, ApproveUnvalidated
  <2>5. CASE Reject(b)
    BY <1>2, <2>1, <2>5 DEF Reject
  <2> QED
    BY <1>8, <2>2, <2>3, <2>4, <2>5
<1> QED
  BY <1>5, <1>6, <1>7, <1>8 DEF CorrectionStep

(* What is written has contents.                                           *)
LEMMA ContentsKeep == CInv /\ Contents /\ [CorrectionsNext]_correctionVars => Contents'
<1> SUFFICES ASSUME CInv, Contents, [CorrectionsNext]_correctionVars
             PROVE  Contents'
  OBVIOUS
<1>1. CASE UNCHANGED cert
  BY <1>1 DEF Contents
<1>2. ASSUME NEW a \in Actor, NEW status, NEW ids, NEW validated, actor[a].at # "idle",
             Write(a, actor[a].cert, status, actor[a].content, ids, validated)
      PROVE  Contents'
  <2>1. actor[a].content \in Content /\ cert' = [cert EXCEPT ![actor[a].cert] =
                       [status |-> status, content |-> actor[a].content, ids |-> ids]]
    BY <1>2 DEF CInv, Busy, Write
  <2>2. cert \in [Certificate -> Written]
    BY Types DEF CInv
  <2> QED
    BY <2>1, <2>2 DEF Contents
<1>3. ASSUME NEW a \in Worker, PersistCertificate(a)
      PROVE  Contents'
  BY <1>2, <1>3 DEF PersistCertificate, Actor
<1>4. ASSUME NEW a \in Server, Approve(a) \/ ApproveUnvalidated(a)
      PROVE  Contents'
  BY <1>2, <1>4 DEF Approve, ApproveUnvalidated, Actor
<1>5. ASSUME NEW d \in Deletion, DeleteCertificates(d)
      PROVE  Contents'
  <2>1. Gone.status = "gone"
    BY DEF Gone, Missing
  <2>2. \A c \in Certificate : cert'[c] = IF c \in d THEN Gone ELSE cert[c]
    BY <1>5 DEF DeleteCertificates
  <2> QED
    BY <2>1, <2>2 DEF Contents
<1> QED
  BY <1>1, <1>3, <1>4, <1>5 DEF CorrectionsNext, CorrectionStep, Leave, correctionVars,
     CreateRequest, CheckCertificate, OpenRequest, ValidateCorrection, Reject

-----------------------------------------------------------------------------
(* Links, and planned links, are to results; those a run plans are to its  *)
(* own results for rows of its report.                                     *)
Target == {Unlinked} \cup [to : Result, amount : Nat]

PlansOf(r) ==
  {plan \in [Certificate -> Target] :
     \A c \in Certificate : plan[c] # Unlinked =>
       plan[c].to[1] = r /\ ReportOf[plan[c].to[2]] = run[r].report}

(* One certificate more in a plan.                                         *)
LEMMA ExtendedFits ==
  ASSUME Contents, NEW r \in Run, NEW plan \in PlansOf(r)
  PROVE  Extended(r, plan) \subseteq PlansOf(r)
<1> DEFINE gain(c, w) == Gain(w, Collected(plan, <<r, w>>), Amount[cert[c].content])
           free == {c \in Candidates(run[r].report) : plan[c] = Unlinked}
           open == {o \in free \X RowsOf(run[r].report) : gain(o[1], o[2]) > 0}
           best == {o \in open : \A k \in open : gain(k[1], k[2]) <= gain(o[1], o[2])}
           with(o) == [plan EXCEPT ![o[1]] = [to |-> <<r, o[2]>>,
                                              amount |-> Amount[cert[o[1]].content]]]
<1>1. Extended(r, plan) = IF open = {} THEN {plan} ELSE {with(o) : o \in best}
  BY DEF Extended
<1>2. ASSUME NEW o \in best
      PROVE  with(o) \in PlansOf(r)
  <2> DEFINE t == [to |-> <<r, o[2]>>, amount |-> Amount[cert[o[1]].content]]
  <2>1. o[1] \in Candidates(run[r].report) /\ o[2] \in RowsOf(run[r].report)
    OBVIOUS
  <2>2. o[1] \in Certificate /\ o[2] \in Row /\ ReportOf[o[2]] = run[r].report
    BY <2>1 DEF Candidates, RowsOf
  <2>3. Amount[cert[o[1]].content] \in Nat
    BY <2>1, ReconciliationAssumption DEF Candidates, Contents
  <2>4. t \in Target /\ t.to[1] = r /\ ReportOf[t.to[2]] = run[r].report
    BY <2>2, <2>3 DEF Target, Result
  <2>5. with(o) = [plan EXCEPT ![o[1]] = t]
    OBVIOUS
  <2> HIDE DEF t, with
  <2> QED
    BY <2>2, <2>4, <2>5 DEF PlansOf
<1> HIDE DEF open, best, with
<1> QED
  BY <1>1, <1>2

(* So every plan of a run is one of these.                                 *)
LEMMA PlansFit ==
  ASSUME Contents, NEW r \in Run
  PROVE  Plans(r) \subseteq PlansOf(r)
<1> DEFINE N == Cardinality(Certificate)
           S == SUBSET PlansOf(r)
           after(plans) == UNION {Extended(r, plan) : plan \in plans}
           next == [n \in 1 .. N |-> [plans \in S |-> after(plans)]]
           Sound(f) == f = [n \in 0 .. N |-> IF n = 0 THEN {NoLinks} ELSE after(f[n - 1])]
<1>1. N \in Nat
  BY ReconciliationAssumption, FS_CardinalityType
<1>2. {NoLinks} \in S /\ \A plans \in S : after(plans) \in S
  <2>1. NoLinks \in PlansOf(r)
    BY DEF PlansOf, NoLinks, Target
  <2> QED
    BY <2>1, ExtendedFits
<1> HIDE DEF after, S, N
<1>3. PICK f \in [0 .. N -> S] :
        f[0] = {NoLinks} /\ \A n \in 1 .. N : f[n] = next[n][f[n - 1]]
  <2>1. next \in [1 .. N -> [S -> S]]
    BY <1>2
  <2> HIDE DEF next
  <2>2. PICK first \in S : first = {NoLinks}
    BY <1>2
  <2>3. \E f : IsSteps(f, N, S, first, next)
    BY <1>1, <2>1, StepsExist
  <2> QED
    BY <2>2, <2>3 DEF IsSteps
<1>4. Sound(f)
  <2>1. ASSUME NEW n \in 1 .. N
        PROVE  f[n] = after(f[n - 1])
    <3>1. n - 1 \in 0 .. N /\ f[n - 1] \in S
      BY <1>1
    <3> QED
      BY <1>3, <3>1
  <2>2. \A n \in 0 .. N : n = 0 \/ n \in 1 .. N
    BY <1>1
  <2> QED
    BY <1>3, <2>1, <2>2
<1>5. PICK h : h = CHOOSE g : Sound(g)
  OBVIOUS
<1>6. Sound(h) /\ Plans(r) = h[N]
  <2>1. Sound(h)
    <3> HIDE DEF Sound
    <3> QED
      BY <1>4, <1>5
  <2>2. Plans(r) = h[N]
    BY <1>5 DEF Plans, N, after
  <2> QED
    BY <2>1, <2>2
<1> DEFINE Good == {n \in 0 .. N : h[n] \in S}
<1>7. 0 \in Good
  BY <1>1, <1>2, <1>6
<1>8. ASSUME NEW k \in 0 .. (N - 1), k \in Good
      PROVE  k + 1 \in Good
  <2>1. k + 1 \in 0 .. N /\ k + 1 # 0 /\ (k + 1) - 1 = k
    BY <1>1
  <2>2. h[k + 1] = after(h[k])
    BY <1>6, <2>1
  <2> QED
    BY <1>2, <1>8, <2>1, <2>2
<1>9. 0 .. N \subseteq Good
  <2> HIDE DEF Good
  <2> QED
    BY <1>1, <1>7, <1>8, IntervalInduction
<1> QED
  BY <1>1, <1>6, <1>9 DEF S

-----------------------------------------------------------------------------
(* Types, with what plans and matches refer to.                            *)
RunRecord == [status : {"none", "started", "completed"}, report : Report \cup {NoReport},
              archived : BOOLEAN, matched : Nat]
ResultRecord == [state : {"none", "live", "archived"}, recorded : Nat]
JobRecord == [at : {"new", "checked", "inserted", "planned", "unlinking", "clearing", "ended"},
              links : SUBSET (Certificate \X Result), results : SUBSET Result,
              runs : SUBSET Run, plan : [Certificate -> Target]]
MatchRecord == [at : {"chosen", "written"}, to : Result, seen : Nat, count : Nat]

RowTypes ==
  /\ deleted \subseteq Report
  /\ run \in [Run -> RunRecord]
  /\ result \in [Result -> ResultRecord]
  /\ link \in [Certificate -> Target]
  /\ purge \in [Deletion -> [at : {"none", "archiving"}, rows : SUBSET Result]]
  /\ overwritten \subseteq Result /\ overlapped \subseteq Run /\ stranded \subseteq Certificate
  /\ purged \subseteq Result /\ orphaned \subseteq Result

JobTypes ==
  /\ job \in [Job -> JobRecord]
  /\ \A r \in Run : job[r].plan \in PlansOf(r) /\ (job[r].at = "new" => job[r].plan = NoLinks)

MatchTypes ==
  /\ match \in [Actor -> {NoMatch} \cup MatchRecord]
  /\ \A a \in Actor : match[a] # NoMatch => actor[a].at = "matching"

TInv == CInv /\ Contents /\ RowTypes /\ JobTypes /\ MatchTypes

(* These are the types that runs check.                                    *)
LEMMA TypesHold == TInv => ReconcileTypeOK
<1> SUFFICES ASSUME TInv
             PROVE  ReconcileTypeOK
  OBVIOUS
<1> DEFINE Any == [to : Result \cup {NoResult}, amount : Nat]
<1>1. Target \subseteq Any
  BY DEF Target, Unlinked
<1>2. link \in [Certificate -> Any]
  BY <1>1 DEF TInv, RowTypes
<1>3. JobRecord \subseteq [at : {"new", "checked", "inserted", "planned", "unlinking",
                                 "clearing", "ended"},
                           links : SUBSET (Certificate \X Result),
                           results : SUBSET Result, runs : SUBSET Run,
                           plan : [Certificate -> Any]]
  BY <1>1 DEF JobRecord
<1>4. {NoMatch} \cup MatchRecord \subseteq
        [at : {"none", "chosen", "written"}, to : Result \cup {NoResult}, seen : Nat, count : Nat]
  BY DEF NoMatch, MatchRecord
<1>5. job \in [Job -> [at : {"new", "checked", "inserted", "planned", "unlinking", "clearing",
                            "ended"},
                      links : SUBSET (Certificate \X Result),
                      results : SUBSET Result, runs : SUBSET Run,
                      plan : [Certificate -> Any]]]
  <2> HIDE DEF Any
  <2> QED
    BY <1>3 DEF TInv, JobTypes
<1>6. match \in [Actor -> [at : {"none", "chosen", "written"}, to : Result \cup {NoResult},
                           seen : Nat, count : Nat]]
  BY <1>4 DEF TInv, MatchTypes
<1> QED
  BY <1>2, <1>5, <1>6 DEF TInv, CInv, RowTypes, MatchTypes, ReconcileTypeOK, RunRecord, ResultRecord

(* Before the first run the types are right.                               *)
LEMMA TypesInitially == ReconInit => TInv
<1> SUFFICES ASSUME ReconInit
             PROVE  TInv
  OBVIOUS
<1>1. CInv
  BY CorrectionsInitially DEF ReconInit
<1>2. Contents
  BY CorrectionsAssumption DEF ReconInit, CorrectionsInit, Contents, Missing
<1>3. RowTypes
  BY DEF ReconInit, RowTypes, NewRun, NewResult, NoLinks, Target, RunRecord, ResultRecord, NoPurge
<1>4. JobTypes
  <2>1. NoLinks \in [Certificate -> Target]
    BY DEF NoLinks, Target
  <2>2. NewJob \in JobRecord /\ NewJob.plan = NoLinks
    BY <2>1 DEF NewJob, JobRecord
  <2>3. \A r \in Run : NoLinks \in PlansOf(r)
    BY <2>1 DEF PlansOf, NoLinks
  <2>4. job = [j \in Job |-> NewJob] /\ Run \subseteq Job
    BY DEF ReconInit, Job
  <2> QED
    BY <2>2, <2>3, <2>4 DEF JobTypes
<1>5. MatchTypes
  BY DEF ReconInit, MatchTypes
<1> QED
  BY <1>1, <1>2, <1>3, <1>4, <1>5 DEF TInv

(* What is collected is a number.                                          *)
LEMMA CollectedNat ==
  ASSUME NEW links \in [Certificate -> Target], NEW i
  PROVE  Collected(links, i) \in Nat
<1> DEFINE f == [c \in Certificate |-> links[c].amount]
           S == {c \in Certificate : links[c].to = i}
<1>1. IsFiniteSet(S) /\ S \subseteq Certificate
  BY ReconciliationAssumption, FS_Subset
<1>2. \A c \in Certificate : links[c].amount \in Nat
  BY DEF Target, Unlinked
<1>3. \A c \in S : f[c] \in Nat
  BY <1>2
<1> HIDE DEF f, S
<1>4. SumFunctionOnSet(f, S) \in Nat
  BY <1>1, <1>3, SumNat
<1> QED
  BY <1>4 DEF Collected, f, S

(* What a run counts is a number.                                          *)
LEMMA MatchedCountNat ==
  ASSUME NEW r, NEW results
  PROVE  MatchedCount(r, results) \in Nat
<1> DEFINE S == {w \in Row : results[<<r, w>>] = [state |-> "live", recorded |-> Due[w]]}
<1>1. IsFiniteSet(S)
  <2>1. S \subseteq Row
    OBVIOUS
  <2> HIDE DEF S
  <2> QED
    BY <2>1, ReconciliationAssumption, FS_Subset
<1>2. Cardinality(S) \in Nat
  <2> HIDE DEF S
  <2> QED
    BY <1>1, FS_CardinalityType
<1> QED
  BY <1>2 DEF MatchedCount

(* Who is at something has a certificate and contents.                     *)
LEMMA MatchingHas ==
  ASSUME TInv, NEW a \in Actor, actor[a].at = "matching"
  PROVE  /\ actor[a].cert \in Certificate /\ actor[a].content \in Content
         /\ Amount[actor[a].content] \in Nat
BY ReconciliationAssumption DEF TInv, CInv, Busy

(* Who matches has a certificate, contents, and what its row will say.     *)
LEMMA WritingHas ==
  ASSUME TInv, NEW a \in Actor, match[a] # NoMatch \/ match[a].at # "none"
  PROVE  /\ match[a] # NoMatch /\ match[a] \in MatchRecord /\ actor[a].at = "matching"
         /\ actor[a].cert \in Certificate /\ actor[a].content \in Content
         /\ Amount[actor[a].content] \in Nat /\ Recorded(a) \in Nat
<1>1. match[a] # NoMatch /\ match[a] \in MatchRecord
  BY DEF TInv, MatchTypes, NoMatch
<1>2. actor[a].at = "matching" /\ match[a].seen \in Nat
  BY <1>1 DEF TInv, MatchTypes, MatchRecord
<1> QED
  BY <1>1, <1>2, MatchingHas DEF Recorded

(* Runs keep their plans while they keep their reports.                    *)
LEMMA PlansOfKept ==
  ASSUME NEW r \in Run, run'[r].report = run[r].report
  PROVE  PlansOf(r)' = PlansOf(r)
BY DEF PlansOf

(* A step that moves at most one job.                                      *)
LEMMA JobMoves ==
  ASSUME TInv, NEW j \in Job, NEW new \in JobRecord,
         job' = [job EXCEPT ![j] = new],
         \A r \in Run : run'[r].report = run[r].report,
         j \in Run => new.plan \in PlansOf(j) /\ new.at # "new"
  PROVE  JobTypes'
<1>1. \A r \in Run : PlansOf(r)' = PlansOf(r)
  BY PlansOfKept
<1>2. /\ job' \in [Job -> JobRecord]
      /\ job'[j] = new /\ \A k \in Job \ {j} : job'[k] = job[k]
  BY DEF TInv, JobTypes
<1> QED
  BY <1>1, <1>2 DEF TInv, JobTypes, Job

(* A step of no job, that leaves what report each run is of.               *)
LEMMA JobTypesStay ==
  ASSUME TInv, UNCHANGED job, \A r \in Run : run'[r].report = run[r].report
  PROVE  JobTypes'
BY PlansOfKept DEF TInv, JobTypes

(* A step of matches that moves at most one of them.                       *)
LEMMA MatchMoves ==
  ASSUME TInv, NEW a \in Actor, NEW new \in {NoMatch} \cup MatchRecord,
         match' = [match EXCEPT ![a] = new],
         \/ UNCHANGED actor /\ actor[a].at = "matching"
         \/ Leave(a) /\ new = NoMatch
  PROVE  MatchTypes'
<1>1. /\ match' \in [Actor -> {NoMatch} \cup MatchRecord]
      /\ match'[a] = new /\ \A b \in Actor \ {a} : match'[b] = match[b]
  BY DEF TInv, MatchTypes
<1>2. ASSUME NEW b \in Actor \ {a}, match'[b] # NoMatch
      PROVE  actor'[b].at = "matching"
  <2>1. actor[b].at = "matching"
    BY <1>1, <1>2 DEF TInv, MatchTypes
  <2> QED
    BY <1>2, <2>1, MatchingStays DEF TInv
<1> QED
  BY <1>1, <1>2 DEF MatchTypes

(* A step of no match: who is matching keeps at it.                        *)
LEMMA MatchTypesStay ==
  ASSUME TInv, UNCHANGED match,
         UNCHANGED actor \/ CorrectionStep \/ \E a \in Actor : match[a] = NoMatch /\ Leave(a)
  PROVE  MatchTypes'
<1>1. ASSUME NEW b \in Actor, match'[b] # NoMatch
      PROVE  actor'[b].at = "matching"
  <2>1. actor[b].at = "matching"
    BY <1>1 DEF TInv, MatchTypes
  <2>2. CASE UNCHANGED actor
    BY <2>1, <2>2
  <2>3. CASE CorrectionStep
    BY <2>1, <2>3, MatchingStays DEF TInv
  <2>4. CASE \E a \in Actor : match[a] = NoMatch /\ Leave(a)
    BY <1>1, <2>1, <2>4, MatchingStays DEF TInv
  <2> QED
    BY <2>2, <2>3, <2>4
<1> QED
  BY <1>1 DEF TInv, MatchTypes

(* The rows and links a match leaves.                                      *)
LEMMA MatchKeepsTypes ==
  ASSUME TInv, NEW a \in Actor, MatchStep(a) \/ ActorStops(a)
  PROVE  RowTypes' /\ JobTypes' /\ MatchTypes'
<1>1. \A r \in Run : run'[r].report = run[r].report
  <2>1. CASE CommitMatch(a)
    BY <2>1 DEF CommitMatch, TInv, RowTypes, RunRecord
  <2> QED
    BY <2>1 DEF MatchStep, ActorStops, ChooseRow, SkipMatch, WriteMatch, AbortMatch,
                MatchArchivedRow, reconVars
<1>2. JobTypes'
  <2>1. UNCHANGED job
    BY DEF MatchStep, ActorStops, ChooseRow, SkipMatch, WriteMatch, AbortMatch,
           MatchArchivedRow, CommitMatch, reconVars
  <2> QED
    BY <1>1, <2>1, JobTypesStay
<1>3. CASE ChooseRow(a)
  <2>1. PICK i \in Best(actor[a].content) :
          match' = [match EXCEPT ![a] = [NoMatch EXCEPT !.at = "chosen", !.to = i,
                                                        !.seen = result[i].recorded]]
    BY <1>3 DEF ChooseRow
  <2> DEFINE new == [NoMatch EXCEPT !.at = "chosen", !.to = i, !.seen = result[i].recorded]
  <2>2. i \in Result /\ result[i].recorded \in Nat
    BY <2>1 DEF Best, TInv, RowTypes, ResultRecord
  <2>3. new \in MatchRecord
    BY <2>2 DEF MatchRecord, NoMatch
  <2>4. match' = [match EXCEPT ![a] = new]
    BY <2>1
  <2>5. UNCHANGED <<actor, deleted, run, result, link, ghostVars>> /\ actor[a].at = "matching"
    BY <1>3 DEF ChooseRow, correctionVars
  <2> HIDE DEF new
  <2>6. MatchTypes'
    BY <2>3, <2>4, <2>5, MatchMoves
  <2> QED
    BY <1>2, <1>3, <2>5, <2>6 DEF ChooseRow, TInv, RowTypes, ghostVars, purgeVars
<1>4. CASE SkipMatch(a)
  <2>1. MatchTypes'
    BY <1>4, MatchTypesStay DEF SkipMatch, reconVars
  <2> QED
    BY <1>2, <1>4, <2>1 DEF SkipMatch, reconVars, ghostVars, purgeVars, TInv, RowTypes
<1>5. CASE WriteMatch(a)
  <2> DEFINE n == MatchedCount(match[a].to[1], AfterMatch(a))
             new == [match[a] EXCEPT !.at = "written", !.count = n]
  <2>1. match[a] \in MatchRecord /\ actor[a].at = "matching"
    <3>1. match[a].at = "chosen"
      BY <1>5 DEF WriteMatch
    <3> QED
      BY <3>1, WritingHas
  <2>2. n \in Nat
    BY MatchedCountNat
  <2>3. new \in MatchRecord
    <3> HIDE DEF n
    <3> QED
      BY <2>1, <2>2 DEF MatchRecord
  <2>4. /\ match' = [match EXCEPT ![a] = new]
        /\ UNCHANGED <<actor, deleted, run, result, link, stranded, purgeVars>>
    BY <1>5 DEF WriteMatch, correctionVars
  <2> HIDE DEF new, n
  <2>5. MatchTypes'
    BY <2>1, <2>3, <2>4, MatchMoves
  <2>6. match[a].to \in Result /\ match[a].to[1] \in Run
    BY <2>1 DEF MatchRecord, Result
  <2>7. overwritten' \subseteq Result /\ overlapped' \subseteq Run
    BY <1>5, <2>6 DEF WriteMatch, TInv, RowTypes
  <2> QED
    BY <1>2, <2>4, <2>5, <2>7 DEF TInv, RowTypes, purgeVars
<1>6. CASE AbortMatch(a) \/ ActorStops(a)
  <2>1. /\ match' = [match EXCEPT ![a] = NoMatch] /\ Leave(a)
        /\ UNCHANGED <<deleted, run, result, link, ghostVars, purgeVars>>
    BY <1>6 DEF AbortMatch, ActorStops
  <2>2. MatchTypes'
    BY <2>1, MatchMoves
  <2> QED
    BY <1>2, <2>1, <2>2 DEF TInv, RowTypes, ghostVars, purgeVars
<1>7. CASE MatchArchivedRow(a) \/ CommitMatch(a)
  <2> DEFINE c == actor[a].cert
             t == [to |-> match[a].to, amount |-> Amount[actor[a].content]]
  <2>1. match[a].at # "none"
    BY <1>7 DEF MatchArchivedRow, CommitMatch
  <2>2. /\ match[a] \in MatchRecord /\ c \in Certificate
        /\ Amount[actor[a].content] \in Nat /\ Recorded(a) \in Nat
    BY <2>1, WritingHas
  <2>3. /\ match[a].to \in Result /\ match[a].to[1] \in Run /\ match[a].count \in Nat
        /\ t \in Target
    BY <2>2 DEF MatchRecord, Target, Result
  <2>4. link' \in [Certificate -> Target] /\ stranded' \subseteq Certificate
    <3>1. link' = [link EXCEPT ![c] = t]
      BY <1>7 DEF MatchArchivedRow, CommitMatch, Linked
    <3>2. stranded' \in {stranded, stranded \cup {c}}
      BY <1>7 DEF MatchArchivedRow, CommitMatch
    <3> HIDE DEF c, t
    <3> QED
      BY <2>2, <2>3, <3>1, <3>2 DEF TInv, RowTypes
  <2>5. run' \in [Run -> RunRecord] /\ result' \in [Result -> ResultRecord]
    <3>1. CASE MatchArchivedRow(a)
      BY <3>1 DEF MatchArchivedRow, TInv, RowTypes
    <3>2. CASE CommitMatch(a)
      <4>1. /\ run' = [run EXCEPT ![match[a].to[1]].matched = match[a].count]
            /\ result' = [result EXCEPT ![match[a].to].recorded = Recorded(a)]
        BY <3>2 DEF CommitMatch, AfterMatch
      <4>2. run \in [Run -> RunRecord] /\ result \in [Result -> ResultRecord]
        BY DEF TInv, RowTypes
      <4>3. run' \in [Run -> RunRecord]
        BY <2>3, <4>1, <4>2 DEF RunRecord
      <4>4. result' \in [Result -> ResultRecord]
        BY <2>2, <2>3, <4>1, <4>2 DEF ResultRecord
      <4> QED
        BY <4>3, <4>4
    <3> QED
      BY <1>7, <3>1, <3>2
  <2>6. /\ match' = [match EXCEPT ![a] = NoMatch] /\ Leave(a)
        /\ UNCHANGED <<deleted, overwritten, overlapped, purgeVars>>
    BY <1>7 DEF MatchArchivedRow, CommitMatch
  <2>7. MatchTypes'
    BY <2>6, MatchMoves
  <2> QED
    BY <1>2, <2>4, <2>5, <2>6, <2>7 DEF TInv, RowTypes, purgeVars
<1> QED
  BY <1>3, <1>4, <1>5, <1>6, <1>7 DEF MatchStep

(* A run, or a clearing, that moves on without a commit.                   *)
LEMMA JobKeepsTypes ==
  ASSUME TInv, NEW j \in Job,
         \/ j \in Run /\ (PlanRun(j) \/ UnlinkForRun(j) \/ RunFails(j))
         \/ j \in Report /\ (UnlinkForReport(j) \/ ReportFails(j))
         \/ Clear(j)
  PROVE  RowTypes' /\ JobTypes' /\ MatchTypes'
<1>1. UNCHANGED <<actor, deleted, run, result, link, match, ghostVars, purgeVars>>
  BY DEF PlanRun, UnlinkForRun, RunFails, UnlinkForReport, ReportFails, Clear, correctionVars
<1>2. RowTypes' /\ MatchTypes'
  BY <1>1, MatchTypesStay DEF TInv, RowTypes, ghostVars, purgeVars
<1>3. job[j] \in JobRecord /\ (j \in Run => job[j].plan \in PlansOf(j))
  BY DEF TInv, JobTypes
<1>4. NoLinks \in [Certificate -> Target] /\ \A r \in Run : NoLinks \in PlansOf(r)
  BY DEF NoLinks, Target, PlansOf
<1>5. /\ \A p : LinksOf(p) \subseteq Certificate \X Result /\ LiveOf(p) \subseteq Result
      /\ Started(j) \subseteq Run
  BY DEF LinksOf, LiveOf, Started
<1>6. CASE j \in Run /\ PlanRun(j)
  <2>1. PICK plan \in Plans(j) : job' = [job EXCEPT ![j].at = "planned", ![j].plan = plan]
    BY <1>6 DEF PlanRun
  <2> DEFINE new == [job[j] EXCEPT !.at = "planned", !.plan = plan]
  <2>2. plan \in PlansOf(j) /\ plan \in [Certificate -> Target]
    BY <1>6, PlansFit DEF PlansOf, TInv
  <2>3. new \in JobRecord /\ new.plan = plan /\ new.at = "planned"
    BY <1>3, <2>2 DEF JobRecord
  <2>4. job' = [job EXCEPT ![j] = new]
    BY <2>1 DEF TInv, JobTypes
  <2> HIDE DEF new
  <2> QED
    BY <1>1, <1>2, <2>2, <2>3, <2>4, JobMoves
<1>7. ASSUME NEW p, NEW links \in {job[j].links, LinksOf(p)},
             NEW rows \in {job[j].results, LiveOf(p)}, NEW runs \in {job[j].runs, Started(j)},
             NEW at \in {"unlinking", "clearing"},
             job' = [job EXCEPT ![j].at = at, ![j].links = links, ![j].results = rows,
                                ![j].runs = runs]
      PROVE  JobTypes'
  <2> DEFINE new == [job[j] EXCEPT !.at = at, !.links = links, !.results = rows, !.runs = runs]
  <2>1. new \in JobRecord /\ new.plan = job[j].plan /\ new.at = at
    BY <1>3, <1>5 DEF JobRecord
  <2>2. job' = [job EXCEPT ![j] = new]
    BY <1>7 DEF TInv, JobTypes
  <2> HIDE DEF new
  <2> QED
    BY <1>1, <1>3, <2>1, <2>2, JobMoves
<1>8. CASE (j \in Run /\ UnlinkForRun(j)) \/ (j \in Report /\ UnlinkForReport(j))
  <2>1. PICK p : job' = [job EXCEPT ![j].at = "unlinking", ![j].links = LinksOf(p)]
    BY <1>8 DEF UnlinkForRun, UnlinkForReport
  <2>2. job' = [job EXCEPT ![j].at = "unlinking", ![j].links = LinksOf(p),
                           ![j].results = job[j].results, ![j].runs = job[j].runs]
    BY <1>3, <2>1 DEF JobRecord, TInv, JobTypes
  <2> QED
    BY <1>2, <1>7, <2>2
<1>9. CASE Clear(j)
  <2>1. PICK p : job' = [job EXCEPT ![j].at = "clearing", ![j].results = LiveOf(p),
                                    ![j].runs = Started(j)]
    BY <1>9 DEF Clear
  <2>2. job' = [job EXCEPT ![j].at = "clearing", ![j].links = job[j].links,
                           ![j].results = LiveOf(p), ![j].runs = Started(j)]
    BY <1>3, <2>1 DEF JobRecord, TInv, JobTypes
  <2> QED
    BY <1>2, <1>7, <2>2
<1>10. CASE (j \in Run /\ RunFails(j)) \/ (j \in Report /\ ReportFails(j))
  <2>1. PICK at \in {"new", "ended"} : /\ job' = [job EXCEPT ![j] = [NewJob EXCEPT !.at = at]]
                                       /\ j \in Run => at = "ended"
    BY <1>10, ReconciliationAssumption DEF RunFails, ReportFails, NewJob
  <2> DEFINE new == [NewJob EXCEPT !.at = at]
  <2>2. new \in JobRecord /\ new.plan = NoLinks /\ new.at = at
    BY <1>4 DEF NewJob, JobRecord
  <2> HIDE DEF new
  <2> QED
    BY <1>1, <1>2, <1>4, <2>1, <2>2, JobMoves DEF new
<1> QED
  BY <1>6, <1>8, <1>9, <1>10

(* The first two steps of a run.                                           *)
LEMMA StartKeepsTypes ==
  ASSUME TInv, NEW r \in Run, (\E p \in Report : CheckRun(r, p)) \/ InsertRun(r)
  PROVE  RowTypes' /\ JobTypes' /\ MatchTypes'
<1>1. UNCHANGED <<actor, deleted, result, link, match, ghostVars, purgeVars>>
  BY DEF CheckRun, InsertRun, correctionVars
<1>2. r \in Job /\ run \in [Run -> RunRecord] /\ job[r] \in JobRecord
      /\ job[r].plan \in PlansOf(r) /\ (job[r].at = "new" => job[r].plan = NoLinks)
  BY DEF TInv, RowTypes, JobTypes, Job
<1>3. MatchTypes'
  BY <1>1, MatchTypesStay
<1>4. CASE \E p \in Report : CheckRun(r, p)
  <2>1. PICK p \in Report : CheckRun(r, p)
    BY <1>4
  <2>2. /\ job[r].at = "new" /\ job' = [job EXCEPT ![r].at = "checked"]
        /\ run' = [run EXCEPT ![r].report = p]
    BY <2>1 DEF CheckRun
  <2>3. RowTypes'
    BY <1>1, <1>2, <2>2 DEF TInv, RowTypes, RunRecord, ghostVars, purgeVars
  <2>4. /\ job' \in [Job -> JobRecord]
        /\ job'[r].plan = NoLinks /\ \A s \in Run \ {r} : job'[s] = job[s]
        /\ job'[r].at = "checked"
    BY <1>2, <2>2 DEF TInv, JobTypes, JobRecord, Job
  <2>5. NoLinks \in PlansOf(r)' /\ \A s \in Run \ {r} : PlansOf(s)' = PlansOf(s)
    <3>1. \A s \in Run \ {r} : run'[s].report = run[s].report
      BY <1>2, <2>2
    <3>2. NoLinks \in PlansOf(r)'
      BY DEF PlansOf, NoLinks, Target
    <3> QED
      BY <3>1, <3>2, PlansOfKept
  <2>6. JobTypes'
    BY <2>4, <2>5 DEF TInv, JobTypes
  <2> QED
    BY <1>3, <2>3, <2>6
<1>5. CASE InsertRun(r)
  <2>1. /\ job[r].at = "checked" /\ job' = [job EXCEPT ![r].at = "inserted"]
        /\ run' = [run EXCEPT ![r].status = "started"]
    BY <1>5 DEF InsertRun
  <2>2. RowTypes' /\ \A s \in Run : run'[s].report = run[s].report
    BY <1>1, <1>2, <2>1 DEF TInv, RowTypes, RunRecord, ghostVars, purgeVars
  <2> DEFINE new == [job[r] EXCEPT !.at = "inserted"]
  <2>3. /\ new \in JobRecord /\ new.plan = job[r].plan /\ new.at = "inserted"
        /\ job' = [job EXCEPT ![r] = new]
    BY <1>2, <2>1 DEF JobRecord, TInv, JobTypes
  <2> HIDE DEF new
  <2>4. JobTypes'
    BY <1>2, <2>2, <2>3, JobMoves
  <2> QED
    BY <1>3, <2>2, <2>4
<1> QED
  BY <1>4, <1>5

(* The rows a commit archives.                                             *)
LEMMA ArchivedTypes ==
  ASSUME TInv, NEW j \in Job
  PROVE  /\ Archived(j) \in [Result -> ResultRecord]
         /\ \A i \in Result :
              /\ Archived(j)[i].recorded = result[i].recorded
              /\ i \in job[j].results => Archived(j)[i].state = "archived"
              /\ i \notin job[j].results => Archived(j)[i] = result[i]
<1>1. ASSUME NEW i \in Result
      PROVE  /\ Archived(j)[i] \in ResultRecord
             /\ Archived(j)[i].recorded = result[i].recorded
             /\ i \in job[j].results => Archived(j)[i].state = "archived"
             /\ i \notin job[j].results => Archived(j)[i] = result[i]
  <2>1. result[i] \in ResultRecord
    BY DEF TInv, RowTypes
  <2>2. Archived(j)[i] = IF i \in job[j].results THEN [result[i] EXCEPT !.state = "archived"]
                                                 ELSE result[i]
    BY DEF Archived
  <2> QED
    BY <2>1, <2>2 DEF ResultRecord
<1>2. Archived(j) \in [Result -> ResultRecord]
  <2>1. Archived(j) = [i \in Result |-> Archived(j)[i]]
    BY DEF Archived
  <2> QED
    BY <1>1, <2>1
<1> QED
  BY <1>1, <1>2

(* The runs a commit archives are those its job has seen, at least; others *)
(* keep what they say, but for the run that commits.                       *)
RunsLeft(j, runs) ==
  /\ runs \in [Run -> RunRecord]
  /\ \A r \in Run :
       /\ runs[r].report = run[r].report
       /\ run[r].archived => runs[r].archived
  /\ \A r \in Run \ {j} :
       /\ runs[r].status = run[r].status
       /\ runs[r].matched = run[r].matched
       /\ r \in job[j].runs => runs[r].archived

LEMMA RunsArchivedAre ==
  ASSUME TInv, NEW j \in Job, NEW runs \in WithRunsArchived(j)
  PROVE  RunsLeft(j, runs)
<1>1. PICK seen \in SUBSET Started(j) :
        runs = [r \in Run |-> IF r \in job[j].runs \cup seen
                                THEN [run[r] EXCEPT !.archived = TRUE] ELSE run[r]]
  BY DEF WithRunsArchived
<1>2. ASSUME NEW r \in Run
      PROVE  /\ runs[r] \in RunRecord
             /\ runs[r].report = run[r].report /\ runs[r].status = run[r].status
             /\ runs[r].matched = run[r].matched
             /\ run[r].archived => runs[r].archived
             /\ r \in job[j].runs => runs[r].archived
  <2>1. run[r] \in RunRecord
    BY DEF TInv, RowTypes
  <2>2. CASE r \in job[j].runs \cup seen
    <3>1. runs[r] = [run[r] EXCEPT !.archived = TRUE]
      BY <1>1, <2>2
    <3> QED
      BY <2>1, <3>1 DEF RunRecord
  <2>3. CASE r \notin job[j].runs \cup seen
    <3>1. runs[r] = run[r]
      BY <1>1, <2>3
    <3> QED
      BY <2>1, <2>3, <3>1
  <2> QED
    BY <2>2, <2>3
<1>3. runs \in [Run -> RunRecord]
  <2>1. runs = [r \in Run |-> runs[r]]
    BY <1>1
  <2> QED
    BY <1>2, <2>1
<1> QED
  BY <1>2, <1>3 DEF RunsLeft

(* What the commit of a run does, spelled out.                             *)
LEMMA RunCommits ==
  ASSUME TInv, NEW r \in Run, CommitRun(r)
  PROVE  LET p == run[r].report
             plan == job[r].plan
             planned == {c \in Certificate : plan[c] # Unlinked}
             released == {c \in Certificate : Released(r, c)}
         IN /\ job[r].at = "clearing" /\ r \in Job /\ ReportOfJob(r) = p
            /\ \A a \in Writing : actor[a].cert \notin planned
            /\ \A c \in planned : c \in released \/ link[c] = Unlinked
            /\ \A c \in Certificate :
                 link'[c] = IF c \in planned THEN plan[c]
                            ELSE IF c \in released THEN Unlinked ELSE link[c]
            /\ \A i \in Result :
                 result'[i] = IF i[1] = r /\ ReportOf[i[2]] = p
                                THEN [state |-> "live", recorded |-> Collected(plan, i)]
                                ELSE Archived(r)[i]
            /\ run'[r].status = "completed" /\ run'[r].report = p
            /\ run'[r].matched = MatchedCount(r, result')
            /\ RunsLeft(r, run')
            /\ stranded' = (stranded \ released)
                              \cup (IF Archiving(p) = {r} THEN {} ELSE planned)
            /\ job' = [job EXCEPT ![r] = [NewJob EXCEPT !.at = "ended"]]
            /\ UNCHANGED <<correctionVars, deleted, match, overwritten, overlapped, purgeVars>>
            /\ plan \in PlansOf(r)
            /\ run' \in [Run -> RunRecord] /\ link' \in [Certificate -> Target]
            /\ result' \in [Result -> ResultRecord]
<1> DEFINE p == run[r].report
           plan == job[r].plan
           planned == {c \in Certificate : plan[c] # Unlinked}
           released == {c \in Certificate : Released(r, c)}
           results == [i \in Result |-> IF i[1] = r /\ ReportOf[i[2]] = p
                                          THEN [state |-> "live", recorded |-> Collected(plan, i)]
                                          ELSE Archived(r)[i]]
<1>1. r \in Job /\ ReportOfJob(r) = p
  BY ReconciliationAssumption DEF Job, ReportOfJob
<1>2. plan \in PlansOf(r) /\ plan \in [Certificate -> Target]
  BY DEF TInv, JobTypes, PlansOf
<1>3. /\ job[r].at = "clearing"
      /\ \A a \in Writing : actor[a].cert \notin planned
      /\ \A c \in planned : c \in released \/ link[c] = Unlinked
      /\ link' = [c \in Certificate |-> IF c \in planned THEN plan[c]
                                        ELSE IF c \in released THEN Unlinked ELSE link[c]]
      /\ result' = results
      /\ \E runs \in WithRunsArchived(r) :
           run' = [runs EXCEPT ![r].status = "completed", ![r].matched = MatchedCount(r, results)]
      /\ stranded' = (stranded \ released)
                        \cup (IF Archiving(p) = {r} THEN {} ELSE planned)
      /\ job' = [job EXCEPT ![r] = [NewJob EXCEPT !.at = "ended"]]
      /\ UNCHANGED <<correctionVars, deleted, match, overwritten, overlapped, purgeVars>>
  BY DEF CommitRun
<1>4. link' \in [Certificate -> Target]
  <2>1. \A c \in Certificate : /\ plan[c] \in Target /\ link[c] \in Target /\ Unlinked \in Target
    BY <1>2 DEF TInv, RowTypes, Target
  <2> HIDE DEF plan, planned, released
  <2> QED
    BY <1>3, <2>1
<1>5. result' \in [Result -> ResultRecord]
  <2>1. ASSUME NEW i \in Result
        PROVE  results[i] \in ResultRecord
    <3>1. Collected(plan, i) \in Nat
      <4> HIDE DEF plan
      <4> QED
        BY <1>2, CollectedNat
    <3>2. [state |-> "live", recorded |-> Collected(plan, i)] \in ResultRecord
      <4> HIDE DEF plan
      <4> QED
        BY <3>1 DEF ResultRecord
    <3>3. Archived(r)[i] \in ResultRecord
      BY <1>1, ArchivedTypes
    <3> HIDE DEF plan, p
    <3> QED
      BY <3>2, <3>3
  <2> HIDE DEF plan, p
  <2> QED
    BY <1>3, <2>1
<1>6. /\ run' \in [Run -> RunRecord]
      /\ run'[r].status = "completed" /\ run'[r].report = p
      /\ run'[r].matched = MatchedCount(r, result')
      /\ RunsLeft(r, run')
  <2> DEFINE n == MatchedCount(r, results)
  <2>1. n \in Nat
    <3> HIDE DEF results
    <3> QED
      BY MatchedCountNat
  <2>2. PICK runs \in WithRunsArchived(r) :
          run' = [runs EXCEPT ![r].status = "completed", ![r].matched = n]
    BY <1>3
  <2>3. RunsLeft(r, runs)
    BY <1>1, RunsArchivedAre
  <2>4. n = MatchedCount(r, result')
    BY <1>3
  <2> HIDE DEF n, results, p
  <2>5. /\ run' \in [Run -> RunRecord] /\ \A s \in Run \ {r} : run'[s] = runs[s]
        /\ run'[r].status = "completed" /\ run'[r].report = runs[r].report
        /\ run'[r].matched = n /\ run'[r].archived = runs[r].archived
    <3>1. runs \in [Run -> RunRecord]
      BY <2>3 DEF RunsLeft
    <3> QED
      BY <2>1, <2>2, <3>1 DEF RunRecord
  <2>6. RunsLeft(r, run')
    BY <2>3, <2>5 DEF RunsLeft
  <2>7. run'[r].report = p
    BY <2>3, <2>5 DEF RunsLeft, p
  <2> QED
    BY <2>4, <2>5, <2>6, <2>7
<1>7. /\ \A c \in Certificate :
           link'[c] = IF c \in planned THEN plan[c]
                      ELSE IF c \in released THEN Unlinked ELSE link[c]
      /\ \A i \in Result :
           result'[i] = IF i[1] = r /\ ReportOf[i[2]] = p
                          THEN [state |-> "live", recorded |-> Collected(plan, i)]
                          ELSE Archived(r)[i]
  BY <1>3
<1> HIDE DEF results
<1> QED
  BY <1>1, <1>2, <1>3, <1>4, <1>5, <1>6, <1>7

(* And that of a clearing.                                                 *)
LEMMA ReportCommits ==
  ASSUME TInv, NEW p \in Report, CommitReport(p)
  PROVE  /\ job[p].at = "clearing" /\ p \in Job /\ p \notin Run /\ ReportOfJob(p) = p
         /\ \A c \in Certificate : link'[c] = IF Released(p, c) THEN Unlinked ELSE link[c]
         /\ result' = Archived(p) /\ RunsLeft(p, run')
         /\ stranded' = stranded \ {c \in Certificate : Released(p, c)}
         /\ job' = [job EXCEPT ![p] = NewJob]
         /\ UNCHANGED <<correctionVars, match, overwritten, overlapped, purgeVars>>
         /\ link' \in [Certificate -> Target] /\ deleted' \subseteq Report
<1>1. p \in Job /\ p \notin Run /\ ReportOfJob(p) = p
  BY ReconciliationAssumption DEF Job, ReportOfJob
<1>2. link' = [c \in Certificate |-> IF Released(p, c) THEN Unlinked ELSE link[c]]
  BY DEF CommitReport
<1>3. \A c \in Certificate : link[c] \in Target /\ Unlinked \in Target
  BY DEF TInv, RowTypes, Target
<1>4. link' \in [Certificate -> Target]
  BY <1>2, <1>3
<1>5. deleted' \subseteq Report
  BY DEF CommitReport, TInv, RowTypes
<1>6. RunsLeft(p, run')
  BY <1>1, RunsArchivedAre DEF CommitReport
<1> QED
  BY <1>1, <1>2, <1>4, <1>5, <1>6 DEF CommitReport

(* A commit leaves runs, rows and links of their types.                    *)
LEMMA CommitKeepsTypes ==
  ASSUME TInv, NEW j \in Job, (j \in Run /\ CommitRun(j)) \/ (j \in Report /\ CommitReport(j))
  PROVE  RowTypes' /\ JobTypes' /\ MatchTypes'
<1>1. NoLinks \in [Certificate -> Target] /\ \A r \in Run : NoLinks \in PlansOf(r)
  BY DEF NoLinks, Target, PlansOf
<1>2. CASE j \in Run /\ CommitRun(j)
  <2> DEFINE new == [NewJob EXCEPT !.at = "ended"]
  <2>1. new \in JobRecord /\ new.plan = NoLinks /\ new.at = "ended"
    BY <1>1 DEF NewJob, JobRecord
  <2>2. job' = [job EXCEPT ![j] = new]
    BY <1>2, RunCommits
  <2>3. \A s \in Run : run'[s].report = run[s].report
    BY <1>2, RunCommits DEF RunsLeft
  <2> HIDE DEF new
  <2>4. JobTypes'
    BY <1>1, <2>1, <2>2, <2>3, JobMoves
  <2>5. MatchTypes'
    BY <1>2, RunCommits, MatchTypesStay DEF correctionVars
  <2>6. RowTypes'
    <3>1. /\ run' \in [Run -> RunRecord] /\ link' \in [Certificate -> Target]
          /\ result' \in [Result -> ResultRecord]
          /\ stranded' \subseteq stranded \cup Certificate
          /\ UNCHANGED <<deleted, overwritten, overlapped, purgeVars>>
      BY <1>2, RunCommits
    <3> QED
      BY <3>1 DEF TInv, RowTypes, purgeVars
  <2> QED
    BY <2>4, <2>5, <2>6
<1>3. CASE j \in Report /\ CommitReport(j)
  <2>1. NewJob \in JobRecord
    BY <1>1 DEF NewJob, JobRecord
  <2>2. job' = [job EXCEPT ![j] = NewJob] /\ j \notin Run
    BY <1>3, ReportCommits
  <2>3. \A s \in Run : run'[s].report = run[s].report
    BY <1>3, ReportCommits DEF RunsLeft
  <2>4. JobTypes'
    BY <2>1, <2>2, <2>3, JobMoves
  <2>5. MatchTypes'
    BY <1>3, ReportCommits, MatchTypesStay DEF correctionVars
  <2>6. RowTypes'
    <3>1. /\ result' = Archived(j) /\ RunsLeft(j, run') /\ stranded' \subseteq stranded
          /\ link' \in [Certificate -> Target] /\ deleted' \subseteq Report
          /\ UNCHANGED <<overwritten, overlapped, purgeVars>>
      BY <1>3, ReportCommits
    <3> QED
      BY <3>1, ArchivedTypes DEF TInv, RowTypes, RunsLeft, purgeVars
  <2> QED
    BY <2>4, <2>5, <2>6
<1> QED
  BY <1>2, <1>3

(* What a purge does to rows and links: it archives rows that it has found *)
(* live, unlinks its certificates, and touches nothing else.               *)
LEMMA PurgeLeaves ==
  ASSUME TInv, NEW d \in Deletion, PurgeStep(d)
  PROVE  /\ UNCHANGED <<actor, deleted, run, job, match, ghostVars>>
         /\ UNCHANGED correctionVars \/ DeleteCertificates(d)
         /\ \A c \in Certificate : link'[c] = link[c] \/ (c \in d /\ link'[c] = Unlinked)
         /\ \A i \in Result :
              /\ result'[i] = result[i]
                   \/ /\ Live(i) /\ i \in purge[d].rows /\ i \in purged'
                      /\ result'[i].state = "archived"
              /\ (result'[i].state = "live" /\ i \notin orphaned') =>
                   \A c \in Certificate : link[c].to = i => link'[c] = link[c]
         /\ purged \subseteq purged' /\ orphaned \subseteq orphaned'
         /\ \A e \in Deletion : \A i \in purge'[e].rows :
              i \in purge[e].rows \/ (i \in Result /\ \A a \in Writing : match[a].to # i)
         /\ RowTypes'
<1>1. /\ d \subseteq Certificate
      /\ link \in [Certificate -> Target] /\ result \in [Result -> ResultRecord]
      /\ purge \in [Deletion -> [at : {"none", "archiving"}, rows : SUBSET Result]]
      /\ purged \subseteq Result /\ orphaned \subseteq Result
  BY CorrectionsAssumption DEF TInv, RowTypes
<1>2. \A c \in Certificate : link[c] # Unlinked => link[c].to \in Result
  BY <1>1 DEF Target
<1>3. NoPurge \in [at : {"none", "archiving"}, rows : SUBSET Result] /\ NoPurge.rows = {}
  BY DEF NoPurge
<1>4. CASE ArchiveMatched(d)
  <2> DEFINE rows == {link[c].to : c \in {e \in d : link[e] # Unlinked}}
             new == [at |-> "archiving", rows |-> rows]
  <2>1. /\ UNCHANGED <<correctionVars, deleted, run, result, link, job, match, ghostVars,
                       purged, orphaned>>
        /\ Unheld(rows) /\ purge' = [purge EXCEPT ![d] = new]
    BY <1>4 DEF ArchiveMatched
  <2>2. rows \subseteq Result
    BY <1>1, <1>2
  <2> HIDE DEF rows
  <2>3. new \in [at : {"none", "archiving"}, rows : SUBSET Result] /\ new.rows = rows
    BY <2>2
  <2>4. \A i \in rows : i \in Result /\ \A a \in Writing : match[a].to # i
    BY <2>1, <2>2 DEF Unheld
  <2> HIDE DEF new
  <2>5. /\ purge' \in [Deletion -> [at : {"none", "archiving"}, rows : SUBSET Result]]
        /\ purge'[d] = new /\ \A e \in Deletion \ {d} : purge'[e] = purge[e]
    BY <1>1, <2>1, <2>3
  <2>6. RowTypes'
    BY <2>1, <2>5 DEF TInv, RowTypes, ghostVars
  <2>7. \A e \in Deletion : \A i \in purge'[e].rows :
          i \in purge[e].rows \/ (i \in Result /\ \A a \in Writing : match[a].to # i)
    BY <2>3, <2>4, <2>5
  <2> QED
    BY <2>1, <2>6, <2>7 DEF correctionVars
<1>5. CASE UndoPurge(d)
  <2>1. /\ UNCHANGED <<correctionVars, deleted, run, result, link, job, match, ghostVars,
                       purged, orphaned>>
        /\ purge' = [purge EXCEPT ![d] = NoPurge]
    BY <1>5 DEF UndoPurge
  <2>2. /\ purge' \in [Deletion -> [at : {"none", "archiving"}, rows : SUBSET Result]]
        /\ purge'[d] = NoPurge /\ \A e \in Deletion \ {d} : purge'[e] = purge[e]
    BY <1>1, <1>3, <2>1
  <2>3. RowTypes'
    BY <2>1, <2>2 DEF TInv, RowTypes, ghostVars
  <2> QED
    BY <1>3, <2>1, <2>2, <2>3 DEF correctionVars
<1>6. CASE CommitPurge(d)
  <2> DEFINE rows == {i \in purge[d].rows : Live(i)}
             unseen == {link[c].to : c \in d} \ purge[d].rows
  <2>1. /\ DeleteCertificates(d)
        /\ link' = [c \in Certificate |-> IF c \in d THEN Unlinked ELSE link[c]]
        /\ result' = [i \in Result |-> IF i \in rows THEN [result[i] EXCEPT !.state = "archived"]
                                                      ELSE result[i]]
        /\ purged' = purged \cup rows
        /\ orphaned' = orphaned \cup {i \in unseen \ {NoResult} : Live(i)}
        /\ purge' = [purge EXCEPT ![d] = NoPurge]
        /\ UNCHANGED <<deleted, run, job, match, ghostVars>>
    BY <1>6 DEF CommitPurge
  <2>2. /\ purge' \in [Deletion -> [at : {"none", "archiving"}, rows : SUBSET Result]]
        /\ purge'[d] = NoPurge /\ \A e \in Deletion \ {d} : purge'[e] = purge[e]
    BY <1>1, <1>3, <2>1
  <2>3. ASSUME NEW i \in Result
        PROVE  /\ i \in rows => result'[i].state = "archived" /\ result'[i] \in ResultRecord
               /\ i \notin rows => result'[i] = result[i]
    <3>1. result[i] \in ResultRecord
      BY <1>1
    <3>2. [result[i] EXCEPT !.state = "archived"] \in ResultRecord
          /\ [result[i] EXCEPT !.state = "archived"].state = "archived"
      BY <3>1 DEF ResultRecord
    <3> HIDE DEF rows
    <3> QED
      BY <2>1, <3>2
  <2>4. result' \in [Result -> ResultRecord]
    <3> HIDE DEF rows
    <3>1. \A i \in Result : result'[i] \in ResultRecord
      BY <1>1, <2>3
    <3>2. result' = [i \in Result |-> result'[i]]
      BY <2>1
    <3> QED
      BY <3>1, <3>2
  <2>5. link' \in [Certificate -> Target]
    <3>1. Unlinked \in Target
      BY DEF Target
    <3> QED
      BY <1>1, <2>1, <3>1
  <2>6. rows \subseteq Result /\ unseen \ {NoResult} \subseteq Result
    BY <1>1, <1>2 DEF Unlinked
  <2>7. purged' \subseteq Result /\ orphaned' \subseteq Result
    <3> HIDE DEF rows, unseen
    <3> QED
      BY <1>1, <2>1, <2>6
  <2>8. RowTypes'
    BY <2>1, <2>2, <2>4, <2>5, <2>7 DEF TInv, RowTypes, ghostVars
  <2>9. ASSUME NEW i \in Result, result'[i].state = "live", i \notin orphaned',
               NEW c \in Certificate, link[c].to = i
        PROVE  link'[c] = link[c]
    <3>1. i \notin rows /\ Live(i)
      BY <2>3, <2>9 DEF Live
    <3>2. i # NoResult
      BY ReconciliationAssumption
    <3>3. i \notin unseen
      BY <2>1, <2>9, <3>1, <3>2
    <3>4. c \notin d
      BY <2>9, <3>1, <3>3
    <3> QED
      BY <2>1, <3>4
  <2>10. \A i \in Result :
          result'[i] = result[i]
            \/ /\ Live(i) /\ i \in purge[d].rows /\ i \in purged'
               /\ result'[i].state = "archived"
    BY <2>1, <2>3
  <2>11. \A c \in Certificate : link'[c] = link[c] \/ (c \in d /\ link'[c] = Unlinked)
    BY <2>1
  <2>12. UNCHANGED actor
    BY <2>1 DEF DeleteCertificates
  <2>13. \A e \in Deletion : \A i \in purge'[e].rows : i \in purge[e].rows
    BY <1>3, <2>2
  <2>14. purged \subseteq purged' /\ orphaned \subseteq orphaned'
    BY <2>1
  <2> HIDE DEF rows, unseen
  <2> QED
    BY <2>1, <2>8, <2>9, <2>10, <2>11, <2>12, <2>13, <2>14
<1> QED
  BY <1>4, <1>5, <1>6 DEF PurgeStep

(* Every step of a match, a run, a clearing or a purge keeps the types.    *)
LEMMA TypesKeep == TInv /\ [ReconNext]_allVars => TInv'
<1> SUFFICES ASSUME TInv, [ReconNext]_allVars
             PROVE  TInv'
  OBVIOUS
<1>1. CInv' /\ Contents'
  BY StepIsCorrection, CorrectionsKeep, ContentsKeep DEF TInv
<1>2. ASSUME UNCHANGED reconVars, CorrectionStep \/ UNCHANGED actor
      PROVE  RowTypes' /\ JobTypes' /\ MatchTypes'
  <2>1. UNCHANGED <<deleted, run, result, link, job, match, overwritten, overlapped, stranded,
                    purgeVars>>
    BY <1>2 DEF reconVars, ghostVars
  <2>2. RowTypes'
    BY <2>1 DEF TInv, RowTypes, purgeVars
  <2>3. JobTypes'
    BY <2>1, JobTypesStay
  <2>4. MatchTypes'
    BY <1>2, <2>1, MatchTypesStay
  <2> QED
    BY <2>2, <2>3, <2>4
<1>3. UNCHANGED allVars => UNCHANGED reconVars /\ UNCHANGED actor
  BY DEF allVars, correctionVars
<1>4. ASSUME NEW a \in Actor, MatchStep(a) \/ ActorStops(a)
      PROVE  RowTypes' /\ JobTypes' /\ MatchTypes'
  BY <1>4, MatchKeepsTypes
<1>5. ASSUME NEW r \in Run, RunStep(r)
      PROVE  RowTypes' /\ JobTypes' /\ MatchTypes'
  <2>1. r \in Job
    BY DEF Job
  <2> QED
    BY <1>5, <2>1, StartKeepsTypes, JobKeepsTypes, CommitKeepsTypes DEF RunStep
<1>6. ASSUME NEW p \in Report, ReportStep(p)
      PROVE  RowTypes' /\ JobTypes' /\ MatchTypes'
  <2>1. p \in Job
    BY DEF Job
  <2> QED
    BY <1>6, <2>1, JobKeepsTypes, CommitKeepsTypes DEF ReportStep
<1>7. ASSUME NEW d \in Deletion, PurgeStep(d)
      PROVE  RowTypes' /\ JobTypes' /\ MatchTypes'
  <2>1. RowTypes' /\ UNCHANGED <<actor, run, job, match>>
    BY <1>7, PurgeLeaves
  <2> QED
    BY <2>1, JobTypesStay, MatchTypesStay
<1>8. RowTypes' /\ JobTypes' /\ MatchTypes'
  BY <1>2, <1>3, <1>4, <1>5, <1>6, <1>7 DEF ReconNext
<1> QED
  BY <1>1, <1>8 DEF TInv

(* Every variable of the reconciliation keeps to its type: runs plan links *)
(* to rows of their own report alone, in amounts that are numbers.         *)
THEOREM ReconcileTypesAlways == ReconSpec => []ReconcileTypeOK
<1> QED
  BY TypesInitially, TypesKeep, TypesHold, PTL DEF ReconSpec

-----------------------------------------------------------------------------
(* Only a run that has committed has results, for rows of its report; and  *)
(* only such results are linked, matched or archived.                      *)
There(i) == result[i].state # "none"

RowsFit ==
  \A i \in Result : There(i) => run[i[1]].status = "completed" /\ run[i[1]].report = ReportOf[i[2]]

ResultsThere ==
  /\ \A c \in Certificate : link[c] # Unlinked => There(link[c].to)
  /\ \A a \in Actor : match[a] # NoMatch => There(match[a].to)
  /\ \A j \in Job : /\ \A l \in job[j].links : There(l[2])
                    /\ \A i \in job[j].results : There(i)

(* A run has a status once it has been inserted, and no other than started *)
(* until it ends; what a transaction archives are rows of its report, of   *)
(* runs that it archives as well.                                          *)
JobsFit ==
  /\ \A r \in Run : job[r].at \in {"new", "checked"} =>
                      run[r].status = "none" /\ job[r].results = {}
  /\ \A r \in Run : job[r].at \in {"inserted", "planned", "unlinking", "clearing"} =>
                      run[r].status = "started"
  /\ \A j \in Job : \A i \in job[j].results :
       ReportOf[i[2]] = ReportOfJob(j) /\ i[1] \in job[j].runs

RowsInv == TInv /\ JobsFit /\ RowsFit /\ ResultsThere

(* What a match leaves alone.                                              *)
LEMMA MatchLeaves ==
  ASSUME TInv, NEW a \in Actor, MatchStep(a) \/ ActorStops(a)
  PROVE  /\ \A i \in Result : /\ result'[i].state = result[i].state
                              /\ ~(CommitMatch(a) /\ i = match[a].to) => result'[i] = result[i]
         /\ \A r \in Run : /\ run'[r].status = run[r].status
                           /\ run'[r].report = run[r].report
                           /\ run'[r].archived = run[r].archived
                           /\ ~(CommitMatch(a) /\ r = match[a].to[1]) => run'[r] = run[r]
         /\ UNCHANGED <<job, purgeVars>>
         /\ \A b \in Actor \ {a} : match'[b] = match[b]
<1>1. CASE CommitMatch(a)
  <2>1. /\ run' = [run EXCEPT ![match[a].to[1]].matched = match[a].count]
        /\ result' = [result EXCEPT ![match[a].to].recorded = Recorded(a)]
        /\ match' = [match EXCEPT ![a] = NoMatch] /\ UNCHANGED <<job, purgeVars>>
    BY <1>1 DEF CommitMatch, AfterMatch
  <2>2. /\ run \in [Run -> RunRecord] /\ result \in [Result -> ResultRecord]
        /\ match \in [Actor -> {NoMatch} \cup MatchRecord]
    BY DEF TInv, RowTypes, MatchTypes
  <2>3. \A i \in Result : /\ result'[i].state = result[i].state
                          /\ i # match[a].to => result'[i] = result[i]
    BY <2>1, <2>2 DEF ResultRecord
  <2>4. \A r \in Run : /\ run'[r].status = run[r].status
                       /\ run'[r].report = run[r].report
                       /\ run'[r].archived = run[r].archived
                       /\ r # match[a].to[1] => run'[r] = run[r]
    BY <2>1, <2>2 DEF RunRecord
  <2> QED
    BY <1>1, <2>1, <2>2, <2>3, <2>4
<1>2. CASE ~CommitMatch(a)
  <2>1. UNCHANGED <<run, result, job, purgeVars>>
    BY <1>2 DEF MatchStep, ActorStops, ChooseRow, SkipMatch, WriteMatch, AbortMatch,
                MatchArchivedRow, reconVars
  <2>2. \A b \in Actor \ {a} : match'[b] = match[b]
    BY <1>2 DEF MatchStep, ActorStops, ChooseRow, SkipMatch, WriteMatch, AbortMatch,
                MatchArchivedRow, reconVars, TInv, MatchTypes
  <2> QED
    BY <1>2, <2>1, <2>2
<1> QED
  BY <1>1, <1>2

(* What a run or a clearing leaves alone until it commits.                 *)
LEMMA JobLeaves ==
  ASSUME TInv, NEW j \in Job,
         \/ j \in Run /\ (PlanRun(j) \/ UnlinkForRun(j) \/ RunFails(j))
         \/ j \in Report /\ (UnlinkForReport(j) \/ ReportFails(j))
         \/ Clear(j)
  PROVE  /\ UNCHANGED <<correctionVars, run, result, link, match,
                        overwritten, overlapped, stranded, purgeVars>>
         /\ \A k \in Job \ {j} : job'[k] = job[k]
BY DEF PlanRun, UnlinkForRun, RunFails, UnlinkForReport, ReportFails, Clear, TInv, JobTypes, ghostVars

(* Starting a run touches nothing but the run, which has no status yet.    *)
LEMMA StartLeaves ==
  ASSUME TInv, JobsFit, NEW r \in Run, (\E p \in Report : CheckRun(r, p)) \/ InsertRun(r)
  PROVE  /\ UNCHANGED <<correctionVars, result, link, match, overwritten, overlapped, stranded,
                        purgeVars>>
         /\ \A s \in Run \ {r} : run'[s] = run[s]
         /\ run[r].status = "none" /\ run'[r].status # "completed"
         /\ \A j \in Job : /\ job'[j].links = job[j].links /\ job'[j].results = job[j].results
                           /\ job'[j].runs = job[j].runs
                           /\ job'[j].at = job[j].at \/ job'[j].at \in {"checked", "inserted"}
<1>1. /\ UNCHANGED <<correctionVars, result, link, match, overwritten, overlapped, stranded,
                     purgeVars>>
      /\ job[r].at \in {"new", "checked"} /\ r \in Job
  BY DEF CheckRun, InsertRun, ghostVars, Job
<1>2. run[r].status = "none"
  BY <1>1 DEF JobsFit
<1>3. /\ run \in [Run -> RunRecord] /\ job \in [Job -> JobRecord]
  BY DEF TInv, RowTypes, JobTypes
<1>4. PICK at \in {"checked", "inserted"} : job' = [job EXCEPT ![r].at = at]
  BY DEF CheckRun, InsertRun
<1>5. \A j \in Job : /\ job'[j].links = job[j].links /\ job'[j].results = job[j].results
                     /\ job'[j].runs = job[j].runs
                     /\ job'[j].at = job[j].at \/ job'[j].at \in {"checked", "inserted"}
  BY <1>3, <1>4 DEF JobRecord
<1>6. \A s \in Run \ {r} : run'[s] = run[s]
  BY <1>3 DEF CheckRun, InsertRun
<1>7. run'[r].status # "completed"
  <2>1. CASE \E p \in Report : CheckRun(r, p)
    BY <1>2, <1>3, <2>1 DEF CheckRun, RunRecord
  <2>2. CASE InsertRun(r)
    BY <1>3, <2>2 DEF InsertRun, RunRecord
  <2> QED
    BY <2>1, <2>2
<1> QED
  BY <1>1, <1>2, <1>5, <1>6, <1>7

Stays(i) == result'[i].state # "none"

(* Results stay, once they are there.                                      *)
LEMMA RowsFitKeep ==
  ASSUME RowsInv, [ReconNext]_allVars
  PROVE  RowsFit' /\ \A i \in Result : There(i) => Stays(i)
<1>1. ASSUME \A i \in Result : result'[i].state = result[i].state,
             \A r \in Run : /\ run[r].status = "completed" =>
                                 run'[r].status = "completed" /\ run'[r].report = run[r].report
      PROVE  RowsFit' /\ \A i \in Result : There(i) => Stays(i)
  BY <1>1 DEF RowsInv, RowsFit, There, Stays, Result
<1>2. CASE UNCHANGED <<run, result>>
  BY <1>1, <1>2
<1>3. ASSUME NEW a \in Actor, MatchStep(a) \/ ActorStops(a)
      PROVE  RowsFit' /\ \A i \in Result : There(i) => Stays(i)
  BY <1>1, <1>3, MatchLeaves DEF RowsInv
<1>4. ASSUME NEW r \in Run, (\E p \in Report : CheckRun(r, p)) \/ InsertRun(r)
      PROVE  RowsFit' /\ \A i \in Result : There(i) => Stays(i)
  BY <1>1, <1>4, StartLeaves DEF RowsInv
<1>5. ASSUME NEW j \in Job, NEW i \in Result
      PROVE  /\ Archived(j)[i].state # "none" => There(i)
             /\ There(i) => Archived(j)[i].state # "none"
  <2>1. i \in job[j].results => There(i)
    BY DEF RowsInv, ResultsThere
  <2> QED
    BY <2>1, ArchivedTypes DEF RowsInv, There
<1>6. ASSUME NEW r \in Run, CommitRun(r)
      PROVE  RowsFit' /\ \A i \in Result : There(i) => Stays(i)
  <2>1. /\ r \in Job
        /\ run'[r].status = "completed" /\ run'[r].report = run[r].report
        /\ RunsLeft(r, run')
        /\ \A i \in Result :
             result'[i] = IF i[1] = r /\ ReportOf[i[2]] = run[r].report
                            THEN [state |-> "live", recorded |-> Collected(job[r].plan, i)]
                            ELSE Archived(r)[i]
    BY <1>6, RunCommits DEF RowsInv
  <2>2. \A s \in Run : run[s].status = "completed" =>
                         run'[s].status = "completed" /\ run'[s].report = run[s].report
    BY <2>1 DEF RunsLeft
  <2>3. ASSUME NEW i \in Result, Stays(i)
        PROVE  run'[i[1]].status = "completed" /\ run'[i[1]].report = ReportOf[i[2]]
    <3>1. CASE i[1] = r /\ ReportOf[i[2]] = run[r].report
      BY <2>1, <3>1
    <3>2. CASE ~(i[1] = r /\ ReportOf[i[2]] = run[r].report)
      <4>1. There(i) /\ i[1] \in Run
        BY <1>5, <2>1, <2>3, <3>2 DEF There, Stays, Result
      <4> QED
        BY <2>2, <4>1 DEF RowsInv, RowsFit
    <3> QED
      BY <3>1, <3>2
  <2>4. ASSUME NEW i \in Result, There(i)
        PROVE  Stays(i)
    <3>1. CASE i[1] = r /\ ReportOf[i[2]] = run[r].report
      <4>1. result'[i] = [state |-> "live", recorded |-> Collected(job[r].plan, i)]
        BY <2>1, <3>1
      <4> QED
        BY <4>1 DEF Stays
    <3>2. CASE ~(i[1] = r /\ ReportOf[i[2]] = run[r].report)
      <4>1. result'[i] = Archived(r)[i]
        BY <2>1, <3>2
      <4> QED
        BY <1>5, <2>1, <2>4, <4>1 DEF Stays
    <3> QED
      BY <3>1, <3>2
  <2> QED
    BY <2>3, <2>4 DEF RowsFit, There, Stays
<1>7. ASSUME NEW p \in Report, CommitReport(p)
      PROVE  RowsFit' /\ \A i \in Result : There(i) => Stays(i)
  <2>1. p \in Job /\ p \notin Run /\ result' = Archived(p) /\ RunsLeft(p, run')
    BY <1>7, ReportCommits DEF RowsInv
  <2>2. \A s \in Run : /\ run'[s].status = run[s].status
                       /\ run'[s].report = run[s].report
    BY <2>1 DEF RunsLeft
  <2>3. \A i \in Result : Stays(i) <=> There(i)
    BY <1>5, <2>1 DEF There, Stays
  <2> QED
    BY <2>2, <2>3 DEF RowsInv, RowsFit, There, Stays, Result
<1>8. ASSUME NEW r \in Run, PlanRun(r) \/ UnlinkForRun(r) \/ Clear(r) \/ RunFails(r)
      PROVE  UNCHANGED <<run, result>>
  BY <1>8 DEF PlanRun, UnlinkForRun, Clear, RunFails
<1>9. ASSUME NEW p \in Report, UnlinkForReport(p) \/ Clear(p) \/ ReportFails(p)
      PROVE  UNCHANGED <<run, result>>
  BY <1>9 DEF UnlinkForReport, Clear, ReportFails
<1>10. ASSUME NEW d \in Deletion, PurgeStep(d)
       PROVE  RowsFit' /\ \A i \in Result : There(i) => Stays(i)
  <2>1. /\ UNCHANGED run
        /\ \A i \in Result : result'[i] = result[i]
             \/ (Live(i) /\ result'[i].state = "archived")
    BY <1>10, PurgeLeaves DEF RowsInv
  <2>2. \A i \in Result : There(i) <=> Stays(i)
    BY <2>1 DEF There, Stays, Live
  <2> QED
    BY <2>1, <2>2 DEF RowsInv, RowsFit, There, Stays
<1> QED
  BY <1>2, <1>3, <1>4, <1>6, <1>7, <1>8, <1>9, <1>10
  DEF ReconNext, RunStep, ReportStep, allVars, reconVars

(* And what refers to one refers to one that is there.                     *)
LEMMA ThereKeep ==
  ASSUME RowsInv, TInv', [ReconNext]_allVars
  PROVE  ResultsThere'
<1>1. \A i \in Result : There(i) => Stays(i)
  BY RowsFitKeep
<1>2. /\ \A c \in Certificate : link[c] # Unlinked => link[c].to \in Result /\ There(link[c].to)
      /\ \A a \in Actor : match[a] # NoMatch => match[a].to \in Result /\ There(match[a].to)
      /\ \A j \in Job : /\ job[j].links \subseteq Certificate \X Result
                        /\ job[j].results \subseteq Result
                        /\ \A l \in job[j].links : There(l[2])
                        /\ \A i \in job[j].results : There(i)
  BY DEF RowsInv, ResultsThere, TInv, RowTypes, JobTypes, MatchTypes, Target, JobRecord, MatchRecord
<1>3. ASSUME \A c \in Certificate : link'[c] # Unlinked =>
               link'[c] = link[c] \/ Stays(link'[c].to)
      PROVE  \A c \in Certificate : link'[c] # Unlinked => Stays(link'[c].to)
  BY <1>1, <1>2, <1>3
<1>4. ASSUME \A a \in Actor : match'[a] # NoMatch =>
               (match'[a].to = match[a].to /\ match[a] # NoMatch) \/ Stays(match'[a].to)
      PROVE  \A a \in Actor : match'[a] # NoMatch => Stays(match'[a].to)
  BY <1>1, <1>2, <1>4
<1>5. ASSUME \A j \in Job : /\ \A l \in job'[j].links : l \in job[j].links \/ Stays(l[2])
                            /\ \A i \in job'[j].results : i \in job[j].results \/ Stays(i)
      PROVE  \A j \in Job : /\ \A l \in job'[j].links : Stays(l[2])
                            /\ \A i \in job'[j].results : Stays(i)
  BY <1>1, <1>2, <1>5
<1>6. ASSUME \A c \in Certificate : link'[c] # Unlinked =>
               link'[c] = link[c] \/ Stays(link'[c].to),
             \A a \in Actor : match'[a] # NoMatch =>
               (match'[a].to = match[a].to /\ match[a] # NoMatch) \/ Stays(match'[a].to),
             \A j \in Job : /\ \A l \in job'[j].links : l \in job[j].links \/ Stays(l[2])
                            /\ \A i \in job'[j].results : i \in job[j].results \/ Stays(i)
      PROVE  ResultsThere'
  BY <1>3, <1>4, <1>5, <1>6 DEF ResultsThere, There, Stays
<1>7. CASE UNCHANGED <<link, match, job>>
  BY <1>6, <1>7
<1>8. ASSUME NEW a \in Actor, MatchStep(a) \/ ActorStops(a)
      PROVE  ResultsThere'
  <2>1. UNCHANGED job /\ \A b \in Actor \ {a} : match'[b] = match[b]
    BY <1>8, MatchLeaves DEF RowsInv
  <2>2. match'[a] # NoMatch =>
          (match'[a].to = match[a].to /\ match[a] # NoMatch) \/ Stays(match'[a].to)
    <3>1. CASE ChooseRow(a)
      <4>1. PICK i \in Best(actor[a].content) : match' =
              [match EXCEPT ![a] = [NoMatch EXCEPT !.at = "chosen", !.to = i,
                                                   !.seen = result[i].recorded]]
        BY <3>1 DEF ChooseRow
      <4>2. match'[a].to = i /\ i \in Result /\ There(i)
        BY <4>1 DEF Best, Live, There, RowsInv, TInv, MatchTypes, NoMatch
      <4> QED
        BY <1>1, <4>2
    <3>2. CASE WriteMatch(a)
      <4>1. match[a] # NoMatch /\ match[a] \in MatchRecord
        BY <3>2, WritingHas DEF WriteMatch, RowsInv
      <4>2. match'[a].to = match[a].to
        BY <3>2, <4>1 DEF WriteMatch, RowsInv, TInv, MatchTypes, MatchRecord
      <4> QED
        BY <4>1, <4>2
    <3>3. CASE SkipMatch(a)
      BY <3>3 DEF SkipMatch, reconVars
    <3>4. CASE match' = [match EXCEPT ![a] = NoMatch]
      BY <3>4 DEF RowsInv, TInv, MatchTypes
    <3> QED
      BY <1>8, <3>1, <3>2, <3>3, <3>4
      DEF MatchStep, ActorStops, AbortMatch, MatchArchivedRow, CommitMatch
  <2>3. \A c \in Certificate : link'[c] # Unlinked => link'[c] = link[c] \/ Stays(link'[c].to)
    <3>1. CASE UNCHANGED link
      BY <3>1
    <3>2. CASE link' = Linked(a) /\ match[a].at # "none"
      <4>1. Stays(match[a].to)
        BY <1>1, <1>2, <3>2, WritingHas DEF RowsInv
      <4>2. \A c \in Certificate : c # actor[a].cert => link'[c] = link[c]
        BY <3>2 DEF Linked, RowsInv, TInv, RowTypes
      <4>3. actor[a].cert \in Certificate => link'[actor[a].cert].to = match[a].to
        BY <3>2 DEF Linked, RowsInv, TInv, RowTypes
      <4> QED
        BY <4>1, <4>2, <4>3
    <3> QED
      BY <1>8, <3>1, <3>2
      DEF MatchStep, ActorStops, ChooseRow, SkipMatch, WriteMatch, AbortMatch, MatchArchivedRow,
          CommitMatch, reconVars
  <2> QED
    BY <1>6, <2>1, <2>2, <2>3
<1>9. ASSUME NEW r \in Run, (\E p \in Report : CheckRun(r, p)) \/ InsertRun(r)
      PROVE  ResultsThere'
  BY <1>6, <1>9, StartLeaves DEF RowsInv
<1>10. ASSUME NEW j \in Job,
              \/ j \in Run /\ (PlanRun(j) \/ UnlinkForRun(j) \/ RunFails(j))
              \/ j \in Report /\ (UnlinkForReport(j) \/ ReportFails(j))
              \/ Clear(j)
       PROVE  ResultsThere'
  <2>1. /\ UNCHANGED <<link, match>> /\ \A k \in Job \ {j} : job'[k] = job[k]
    BY <1>10, JobLeaves DEF RowsInv
  <2>2. job[j] \in JobRecord /\ DOMAIN job = Job
    BY DEF RowsInv, TInv, JobTypes
  <2>3. \A p : /\ \A l \in LinksOf(p) : There(l[2]) /\ l[2] \in Result
               /\ \A i \in LiveOf(p) : There(i) /\ i \in Result
    BY DEF LinksOf, LiveOf, Live, There
  <2>4. /\ \A l \in job'[j].links : l \in job[j].links \/ Stays(l[2])
        /\ \A i \in job'[j].results : i \in job[j].results \/ Stays(i)
    <3>1. CASE j \in Run /\ PlanRun(j)
      BY <2>2, <3>1 DEF PlanRun, JobRecord
    <3>2. CASE (j \in Run /\ UnlinkForRun(j)) \/ (j \in Report /\ UnlinkForReport(j))
      <4>1. PICK p : job' = [job EXCEPT ![j].at = "unlinking", ![j].links = LinksOf(p)]
        BY <3>2 DEF UnlinkForRun, UnlinkForReport
      <4>2. job'[j].links = LinksOf(p) /\ job'[j].results = job[j].results
        BY <2>2, <4>1 DEF JobRecord
      <4> QED
        BY <1>1, <2>3, <4>2
    <3>3. CASE Clear(j)
      <4>1. PICK p : job' = [job EXCEPT ![j].at = "clearing", ![j].results = LiveOf(p),
                                        ![j].runs = Started(j)]
        BY <3>3 DEF Clear
      <4>2. job'[j].links = job[j].links /\ job'[j].results = LiveOf(p)
        BY <2>2, <4>1 DEF JobRecord
      <4> QED
        BY <1>1, <2>3, <4>2
    <3>4. CASE (j \in Run /\ RunFails(j)) \/ (j \in Report /\ ReportFails(j))
      BY <2>2, <3>4 DEF RunFails, ReportFails, NewJob
    <3> QED
      BY <1>10, <3>1, <3>2, <3>3, <3>4
  <2> QED
    BY <1>6, <2>1, <2>4
<1>11. ASSUME NEW j \in Job, NEW new, new \in {NewJob, [NewJob EXCEPT !.at = "ended"]},
              job' = [job EXCEPT ![j] = new]
       PROVE  \A k \in Job : job'[k].links \subseteq job[k].links
                             /\ job'[k].results \subseteq job[k].results
  <2>1. new.links = {} /\ new.results = {}
    BY <1>11 DEF NewJob
  <2>2. job'[j] = new /\ \A k \in Job \ {j} : job'[k] = job[k]
    BY <1>11 DEF RowsInv, TInv, JobTypes
  <2> QED
    BY <2>1, <2>2
<1>12. ASSUME NEW r \in Run, CommitRun(r)
       PROVE  ResultsThere'
  <2> DEFINE plan == job[r].plan
             planned == {c \in Certificate : plan[c] # Unlinked}
  <2>1. /\ r \in Job /\ UNCHANGED match /\ plan \in PlansOf(r)
        /\ job' = [job EXCEPT ![r] = [NewJob EXCEPT !.at = "ended"]]
        /\ \A c \in Certificate : \/ c \in planned /\ link'[c] = plan[c]
                                  \/ link'[c] = Unlinked \/ link'[c] = link[c]
        /\ \A i \in Result : i[1] = r /\ ReportOf[i[2]] = run[r].report =>
             result'[i] = [state |-> "live", recorded |-> Collected(plan, i)]
    BY <1>12, RunCommits DEF RowsInv
  <2>2. \A c \in planned : Stays(plan[c].to)
    <3>1. \A c \in planned : /\ plan[c].to \in Result /\ plan[c].to[1] = r
                             /\ ReportOf[plan[c].to[2]] = run[r].report
      BY <2>1 DEF PlansOf, Target
    <3>2. \A c \in planned : result'[plan[c].to] =
                               [state |-> "live", recorded |-> Collected(plan, plan[c].to)]
      BY <2>1, <3>1
    <3>3. ASSUME NEW i, NEW n, result'[i] = [state |-> "live", recorded |-> n]
          PROVE  Stays(i)
      BY <3>3 DEF Stays
    <3> QED
      BY <3>2, <3>3
  <2> QED
    BY <1>6, <1>11, <2>1, <2>2
<1>13. ASSUME NEW p \in Report, CommitReport(p)
       PROVE  ResultsThere'
  BY <1>6, <1>11, <1>13, ReportCommits DEF RowsInv
<1>14. \A r \in Run : r \in Job
  BY DEF Job
<1>15. \A p \in Report : p \in Job
  BY DEF Job
<1>16. ASSUME NEW d \in Deletion, PurgeStep(d)
       PROVE  ResultsThere'
  <2>1. /\ UNCHANGED <<match, job>>
        /\ \A c \in Certificate : link'[c] = link[c] \/ link'[c] = Unlinked
    BY <1>16, PurgeLeaves DEF RowsInv
  <2> QED
    BY <1>6, <2>1
<1> QED
  BY <1>7, <1>8, <1>9, <1>10, <1>12, <1>13, <1>14, <1>15, <1>16
  DEF ReconNext, RunStep, ReportStep, allVars, reconVars

(* Jobs fit if what they archive and the statuses of runs stay.            *)
LEMMA JobsFitStay ==
  ASSUME RowsInv,
         \A r \in Run : run'[r].status = run[r].status /\ run'[r].report = run[r].report,
         \A r \in Run : job'[r].at \in {"new", "checked"} => job'[r] = job[r],
         \A r \in Run : job'[r].at \in {"inserted", "planned", "unlinking", "clearing"} =>
           job[r].at \in {"inserted", "planned", "unlinking", "clearing"},
         \A j \in Job : \A i \in job'[j].results :
           \/ i \in job[j].results /\ job'[j].runs = job[j].runs
           \/ ReportOf[i[2]] = ReportOfJob(j) /\ i[1] \in job'[j].runs
  PROVE  JobsFit'
<1>1. \A j \in Job : ReportOfJob(j)' = ReportOfJob(j)
  BY DEF ReportOfJob, Job
<1>2. \A r \in Run : job'[r].at \in {"new", "checked"} =>
        run'[r].status = "none" /\ job'[r].results = {}
  BY DEF RowsInv, JobsFit
<1>3. \A r \in Run : job'[r].at \in {"inserted", "planned", "unlinking", "clearing"} =>
        run'[r].status = "started"
  BY DEF RowsInv, JobsFit
<1>4. \A j \in Job : \A i \in job'[j].results :
        ReportOf[i[2]] = ReportOfJob(j)' /\ i[1] \in job'[j].runs
  BY <1>1 DEF RowsInv, JobsFit
<1> QED
  BY <1>2, <1>3, <1>4 DEF JobsFit

(* The steps before a transaction commits move its job alone.              *)
LEMMA JobKeepsFit ==
  ASSUME RowsInv, NEW j \in Job,
         \/ j \in Run /\ (PlanRun(j) \/ UnlinkForRun(j) \/ RunFails(j))
         \/ j \in Report /\ (UnlinkForReport(j) \/ ReportFails(j))
         \/ Clear(j)
  PROVE  JobsFit'
<1>1. /\ UNCHANGED <<run, result>> /\ \A k \in Job \ {j} : job'[k] = job[k]
      /\ job[j] \in JobRecord /\ DOMAIN job = Job /\ Run \subseteq Job
      /\ j \in Run <=> j \notin Report
  BY JobLeaves, ReconciliationAssumption DEF RowsInv, TInv, JobTypes, Job
<1>2. CASE Clear(j)
  <2>1. /\ job[j].at = "unlinking" /\ job'[j].at = "clearing" /\ job'[j].runs = Started(j)
        /\ job'[j].results = LiveOf(ReportOfJob(j))
    BY <1>1, <1>2 DEF Clear, JobRecord
  <2>2. ASSUME NEW i \in LiveOf(ReportOfJob(j))
        PROVE  ReportOf[i[2]] = ReportOfJob(j) /\ i[1] \in Started(j)
    <3>1. i \in Result /\ Live(i) /\ ReportOf[i[2]] = ReportOfJob(j)
      BY DEF LiveOf
    <3>2. i[1] \in Run /\ run[i[1]].status = "completed" /\ run[i[1]].report = ReportOf[i[2]]
      BY <3>1 DEF RowsInv, RowsFit, There, Live, Result
    <3>3. i[1] # j
      BY <2>1, <3>2 DEF RowsInv, JobsFit
    <3> QED
      BY <3>1, <3>2, <3>3 DEF Started
  <2> QED
    BY <1>1, <2>1, <2>2, JobsFitStay
<1>3. CASE \/ j \in Run /\ (PlanRun(j) \/ UnlinkForRun(j))
           \/ j \in Report /\ UnlinkForReport(j)
  <2>1. /\ job'[j].results = job[j].results /\ job'[j].runs = job[j].runs
        /\ job'[j].at \in {"planned", "unlinking"}
        /\ j \in Run => job[j].at \in {"inserted", "planned"}
    BY <1>1, <1>3 DEF PlanRun, UnlinkForRun, UnlinkForReport, JobRecord
  <2> QED
    BY <1>1, <2>1, JobsFitStay
<1>4. CASE (j \in Run /\ RunFails(j)) \/ (j \in Report /\ ReportFails(j))
  <2>1. job'[j].results = {} /\ (j \in Run => job'[j].at = "ended")
    BY <1>1, <1>4 DEF RunFails, ReportFails, NewJob
  <2> QED
    BY <1>1, <2>1, JobsFitStay
<1> QED
  BY <1>2, <1>3, <1>4

(* Every step keeps what jobs archive to what is theirs.                   *)
LEMMA JobsFitKeep ==
  ASSUME RowsInv, [ReconNext]_allVars
  PROVE  JobsFit'
<1>1. ASSUME UNCHANGED job,
             \A r \in Run : run'[r].status = run[r].status /\ run'[r].report = run[r].report
      PROVE  JobsFit'
  BY <1>1, JobsFitStay
<1>2. ASSUME NEW a \in Actor, MatchStep(a) \/ ActorStops(a)
      PROVE  JobsFit'
  BY <1>1, <1>2, MatchLeaves DEF RowsInv
<1>3. ASSUME NEW r \in Run, (\E p \in Report : CheckRun(r, p)) \/ InsertRun(r)
      PROVE  JobsFit'
  <2>1. /\ r \in Job /\ r \in Run /\ job[r] \in JobRecord /\ run[r] \in RunRecord
        /\ DOMAIN job = Job /\ DOMAIN run = Run
        /\ job[r].at \in {"new", "checked"} /\ run[r].status = "none" /\ job[r].results = {}
    BY <1>3 DEF CheckRun, InsertRun, RowsInv, TInv, RowTypes, JobTypes, JobsFit, Job
  <2>2. /\ \A k \in Job \ {r} : job'[k] = job[k]
        /\ \A s \in Run \ {r} : run'[s] = run[s]
        /\ job'[r].results = {}
        /\ \/ job'[r].at = "checked" /\ run'[r].status = "none"
           \/ job'[r].at = "inserted" /\ run'[r].status = "started"
    BY <1>3, <2>1 DEF CheckRun, InsertRun, JobRecord, RunRecord
  <2>3. \A k \in Job \ {r} : ReportOfJob(k)' = ReportOfJob(k)
    BY <2>2 DEF ReportOfJob, Job
  <2>4. \A s \in Run : job'[s].at \in {"new", "checked"} =>
          run'[s].status = "none" /\ job'[s].results = {}
    BY <2>2 DEF RowsInv, JobsFit, Job
  <2>5. \A s \in Run : job'[s].at \in {"inserted", "planned", "unlinking", "clearing"} =>
          run'[s].status = "started"
    BY <2>2 DEF RowsInv, JobsFit, Job
  <2>6. \A j \in Job : \A i \in job'[j].results :
          ReportOf[i[2]] = ReportOfJob(j)' /\ i[1] \in job'[j].runs
    BY <2>2, <2>3 DEF RowsInv, JobsFit
  <2> QED
    BY <2>4, <2>5, <2>6 DEF JobsFit
<1>4. ASSUME NEW r \in Run, CommitRun(r)
      PROVE  JobsFit'
  <2>1. /\ r \in Job /\ RunsLeft(r, run') /\ DOMAIN job = Job
        /\ job' = [job EXCEPT ![r] = [NewJob EXCEPT !.at = "ended"]]
    BY <1>4, RunCommits DEF RowsInv, TInv, JobTypes
  <2>2. /\ job'[r].at = "ended" /\ job'[r].results = {}
        /\ \A k \in Job \ {r} : job'[k] = job[k]
    BY <2>1 DEF NewJob
  <2>3. /\ \A s \in Run : run'[s].report = run[s].report
        /\ \A s \in Run \ {r} : run'[s].status = run[s].status
    BY <2>1 DEF RunsLeft
  <2>4. \A k \in Job : ReportOfJob(k)' = ReportOfJob(k)
    BY <2>3 DEF ReportOfJob, Job
  <2>5. \A s \in Run : job'[s].at \in {"new", "checked"} =>
          run'[s].status = "none" /\ job'[s].results = {}
    BY <2>2, <2>3 DEF RowsInv, JobsFit, Job
  <2>6. \A s \in Run : job'[s].at \in {"inserted", "planned", "unlinking", "clearing"} =>
          run'[s].status = "started"
    BY <2>2, <2>3 DEF RowsInv, JobsFit, Job
  <2>7. \A j \in Job : \A i \in job'[j].results :
          ReportOf[i[2]] = ReportOfJob(j)' /\ i[1] \in job'[j].runs
    BY <2>2, <2>4 DEF RowsInv, JobsFit
  <2> QED
    BY <2>5, <2>6, <2>7 DEF JobsFit
<1>5. ASSUME NEW p \in Report, CommitReport(p)
      PROVE  JobsFit'
  <2>1. /\ p \in Job /\ p \notin Run /\ RunsLeft(p, run') /\ DOMAIN job = Job
        /\ job' = [job EXCEPT ![p] = NewJob]
    BY <1>5, ReportCommits DEF RowsInv, TInv, JobTypes
  <2>2. job'[p].results = {} /\ \A k \in Job \ {p} : job'[k] = job[k]
    BY <2>1 DEF NewJob
  <2>3. \A r \in Run : /\ run'[r].status = run[r].status /\ run'[r].report = run[r].report
                       /\ job'[r] = job[r]
    BY <2>1, <2>2 DEF RunsLeft, Job
  <2> QED
    BY <2>2, <2>3, JobsFitStay
<1>6. ASSUME NEW d \in Deletion, PurgeStep(d)
      PROVE  JobsFit'
  BY <1>1, <1>6, PurgeLeaves DEF RowsInv
<1>7. /\ \A r \in Run : r \in Job
      /\ \A p \in Report : p \in Job
  BY DEF Job
<1>8. UNCHANGED allVars \/ UNCHANGED reconVars => UNCHANGED <<run, job>>
  BY DEF allVars, reconVars
<1> QED
  BY <1>1, <1>2, <1>3, <1>4, <1>5, <1>6, <1>7, <1>8, JobKeepsFit
  DEF ReconNext, RunStep, ReportStep

(* Every step keeps the rows and what points to them.                      *)
LEMMA RowsKeep == RowsInv /\ [ReconNext]_allVars => RowsInv'
BY TypesKeep, JobsFitKeep, RowsFitKeep, ThereKeep DEF RowsInv

(* Before the first run there are no rows.                                 *)
LEMMA RowsInitially == ReconInit => RowsInv
<1> SUFFICES ASSUME ReconInit
             PROVE  RowsInv
  OBVIOUS
<1>1. RowsFit
  BY DEF ReconInit, RowsFit, There, NewResult
<1>2. ResultsThere
  BY DEF ReconInit, ResultsThere, NewJob, NoLinks
<1>3. JobsFit
  BY DEF ReconInit, JobsFit, NewRun, NewJob, Job
<1> QED
  BY <1>1, <1>2, <1>3, TypesInitially DEF RowsInv

-----------------------------------------------------------------------------
(* What the commit of a run or a clearing does to the rows and links that  *)
(* were there, and what it links.                                          *)
Commits(j) == (j \in Run /\ CommitRun(j)) \/ (j \in Report /\ CommitReport(j))
Planned(j, c) == j \in Run /\ job[j].plan[c] # Unlinked

(* A commit archives the rows its job lists and links its plan; other      *)
(* rows, links and jobs stay.                                              *)
LEMMA CommitLeaves ==
  ASSUME RowsInv, NEW j \in Job, Commits(j)
  PROVE  /\ job[j].at = "clearing" /\ job'[j].links = {} /\ job'[j].results = {}
         /\ job'[j].at \in {"new", "ended"}
         /\ \A k \in Job \ {j} : job'[k] = job[k]
         /\ UNCHANGED <<correctionVars, match, overwritten, overlapped, purgeVars>>
         /\ \A i \in Result : There(i) =>
              /\ i \in job[j].results => result'[i].state = "archived"
              /\ i \notin job[j].results => result'[i] = result[i]
         /\ \A i \in Result : ~There(i) =>
              result'[i] = result[i] \/ (i[1] = j /\ ReportOf[i[2]] = ReportOfJob(j))
         /\ \A c \in Certificate :
              IF Planned(j, c) THEN link'[c] = job[j].plan[c] /\ (Released(j, c) \/ link[c] = Unlinked)
              ELSE IF Released(j, c) THEN link'[c] = Unlinked ELSE link'[c] = link[c]
         /\ \A c \in Certificate : Planned(j, c) =>
              /\ job[j].plan[c].to \in Result /\ ~There(job[j].plan[c].to)
              /\ result'[job[j].plan[c].to].state = "live"
              /\ ReportOf[job[j].plan[c].to[2]] = ReportOfJob(j)
              /\ c \in stranded' \/ Archiving(ReportOfJob(j)) = {j}
              /\ \A a \in Writing : actor[a].cert # c
         /\ \A c \in Certificate : c \in stranded /\ c \notin stranded' => Released(j, c)
         /\ RunsLeft(j, run')
<1>1. NewJob.links = {} /\ NewJob.results = {} /\ [NewJob EXCEPT !.at = "ended"].links = {}
      /\ [NewJob EXCEPT !.at = "ended"].results = {} /\ NewJob.at = "new"
      /\ [NewJob EXCEPT !.at = "ended"].at = "ended"
  BY DEF NewJob
<1>2. /\ TInv /\ job[j].results \subseteq Result /\ DOMAIN job = Job
      /\ \A i \in Result : Archived(j)[i].recorded = result[i].recorded
      /\ \A i \in job[j].results : Archived(j)[i].state = "archived"
      /\ \A i \in Result \ job[j].results : Archived(j)[i] = result[i]
      /\ \A i \in job[j].results : There(i)
  BY ArchivedTypes DEF RowsInv, TInv, JobTypes, JobRecord, ResultsThere
<1>3. CASE j \in Run /\ CommitRun(j)
  <2> DEFINE r == j
             p == run[r].report
             plan == job[r].plan
             planned == {c \in Certificate : plan[c] # Unlinked}
             released == {c \in Certificate : Released(r, c)}
  <2>1. /\ job[r].at = "clearing" /\ ReportOfJob(r) = p
        /\ \A a \in Writing : actor[a].cert \notin planned
        /\ \A c \in planned : c \in released \/ link[c] = Unlinked
        /\ \A c \in Certificate :
             link'[c] = IF c \in planned THEN plan[c]
                        ELSE IF c \in released THEN Unlinked ELSE link[c]
        /\ stranded' = (stranded \ released)
                          \cup (IF Archiving(p) = {r} THEN {} ELSE planned)
        /\ job' = [job EXCEPT ![r] = [NewJob EXCEPT !.at = "ended"]]
        /\ UNCHANGED <<correctionVars, match, overwritten, overlapped, purgeVars>>
        /\ plan \in PlansOf(r)
    BY <1>2, <1>3, RunCommits
  <2>2. \A i \in Result :
             result'[i] = IF i[1] = r /\ ReportOf[i[2]] = p
                            THEN [state |-> "live", recorded |-> Collected(plan, i)]
                            ELSE Archived(r)[i]
    BY <1>2, <1>3, RunCommits
  <2>3. RunsLeft(j, run')
    BY <1>2, <1>3, RunCommits
  <2>4. \A i \in Result : i[1] = r => ~There(i)
    BY <1>3, <2>1 DEF RowsInv, RowsFit, JobsFit
  <2>5. \A c \in planned : plan[c].to \in Result /\ plan[c].to[1] = r
                           /\ ReportOf[plan[c].to[2]] = p
    BY <2>1 DEF PlansOf, Target
  <2>6. ASSUME NEW i \in Result, i[1] = r, ReportOf[i[2]] = p
        PROVE  result'[i].state = "live"
    <3>1. PICK n : result'[i] = [state |-> "live", recorded |-> n]
      BY <2>2, <2>6
    <3> QED
      BY <3>1
  <2>7. \A i \in Result : There(i) =>
              /\ i \in job[j].results => result'[i].state = "archived"
              /\ i \notin job[j].results => result'[i] = result[i]
    BY <1>2, <2>2, <2>4
  <2>8. \A i \in Result : ~There(i) =>
              result'[i] = result[i] \/ (i[1] = j /\ ReportOf[i[2]] = ReportOfJob(j))
    BY <1>2, <2>1, <2>2
  <2>9. \A c \in Certificate : Planned(j, c) <=> c \in planned
    BY <1>3 DEF Planned
  <2>10. \A c \in Certificate : Planned(j, c) =>
              /\ job[j].plan[c].to \in Result /\ ~There(job[j].plan[c].to)
              /\ result'[job[j].plan[c].to].state = "live"
              /\ ReportOf[job[j].plan[c].to[2]] = ReportOfJob(j)
              /\ c \in stranded' \/ Archiving(ReportOfJob(j)) = {j}
              /\ \A a \in Writing : actor[a].cert # c
    BY <2>1, <2>4, <2>5, <2>6, <2>9
  <2>11. /\ job'[j].links = {} /\ job'[j].results = {} /\ job'[j].at = "ended"
         /\ \A k \in Job \ {j} : job'[k] = job[k]
    BY <1>1, <1>2, <2>1
  <2>12. \A c \in Certificate :
              IF Planned(j, c) THEN link'[c] = job[j].plan[c] /\ (Released(j, c) \/ link[c] = Unlinked)
              ELSE IF Released(j, c) THEN link'[c] = Unlinked ELSE link'[c] = link[c]
    BY <2>1, <2>9
  <2>13. \A c \in Certificate : c \in stranded /\ c \notin stranded' => Released(j, c)
    BY <2>1
  <2> QED
    BY <2>1, <2>3, <2>7, <2>8, <2>10, <2>11, <2>12, <2>13
<1>4. CASE j \in Report /\ CommitReport(j)
  <2>1. /\ job[j].at = "clearing" /\ j \notin Run
        /\ \A c \in Certificate : link'[c] = IF Released(j, c) THEN Unlinked ELSE link[c]
        /\ result' = Archived(j) /\ RunsLeft(j, run')
        /\ stranded' = stranded \ {c \in Certificate : Released(j, c)}
        /\ job' = [job EXCEPT ![j] = NewJob]
        /\ UNCHANGED <<correctionVars, match, overwritten, overlapped, purgeVars>>
    BY <1>2, <1>4, ReportCommits
  <2>2. \A c \in Certificate : ~Planned(j, c)
    BY <2>1 DEF Planned
  <2>3. /\ job'[j].links = {} /\ job'[j].results = {} /\ job'[j].at = "new"
        /\ \A k \in Job \ {j} : job'[k] = job[k]
    BY <1>1, <1>2, <2>1
  <2>4. \A i \in Result : ~There(i) => i \notin job[j].results /\ result'[i] = result[i]
    BY <1>2, <2>1
  <2>5. \A i \in Result : There(i) =>
              /\ i \in job[j].results => result'[i].state = "archived"
              /\ i \notin job[j].results => result'[i] = result[i]
    BY <1>2, <2>1
  <2> QED
    BY <1>2, <2>1, <2>2, <2>3, <2>4, <2>5
<1> QED
  BY <1>3, <1>4 DEF Commits

(* What a report's one active run rests on: of two transactions that are   *)
(* archiving the same report, one archives the other's run; and a run that *)
(* has committed meanwhile is archived too, or its own commit archived the *)
(* run that is about to.                                                   *)
Rivals ==
  \A r, s \in Run :
    /\ r # s /\ run[s].report = run[r].report
    /\ job[r].at = "clearing" /\ ~run[r].archived /\ ~run[s].archived
    => /\ run[s].status = "completed" => s \in job[r].runs
       /\ job[s].at = "clearing" => s \in job[r].runs \/ r \in job[s].runs

ActiveInv == RowsInv /\ Rivals /\ OneActiveRun

(* A step that archives no run, and no live row but in a purge.            *)
LEMMA ActiveStays ==
  ASSUME ActiveInv,
         \A r \in Run : run'[r].status = "completed" \/ job'[r].at = "clearing" =>
           /\ run'[r].status = run[r].status /\ run'[r].report = run[r].report
           /\ run[r].archived => run'[r].archived,
         \A r \in Run : job'[r].at = "clearing" => job'[r] = job[r],
         \A i \in Result : Live(i) => result'[i].state = "live" \/ i \in purged',
         purged \subseteq purged'
  PROVE  Rivals' /\ OneActiveRun'
<1>1. Rivals'
  BY DEF ActiveInv, Rivals
<1>2. OneActiveRun'
  BY DEF ActiveInv, OneActiveRun, Live, Result
<1> QED
  BY <1>1, <1>2

(* A transaction that starts to archive takes all the runs that are there. *)
LEMMA ClearKeepsActive ==
  ASSUME ActiveInv, NEW j \in Job, Clear(j)
  PROVE  Rivals' /\ OneActiveRun'
<1>1. /\ UNCHANGED <<run, result, purged>> /\ \A k \in Job \ {j} : job'[k] = job[k]
      /\ job'[j].runs = Started(j) /\ Run \subseteq Job
  <2>1. job[j] \in JobRecord /\ TInv
    BY DEF ActiveInv, RowsInv, TInv, JobTypes
  <2>2. UNCHANGED <<run, result, purged>> /\ \A k \in Job \ {j} : job'[k] = job[k]
    BY <2>1, JobLeaves DEF purgeVars
  <2>3. job'[j] = [job[j] EXCEPT !.at = "clearing", !.results = LiveOf(ReportOfJob(j)),
                                 !.runs = Started(j)]
    BY DEF ActiveInv, RowsInv, TInv, JobTypes, Clear
  <2>4. job'[j].runs = Started(j)
    BY <2>1, <2>3 DEF JobRecord
  <2> QED
    BY <2>2, <2>4 DEF Job
<1>2. \A s \in Run \ {j} : run[s].report = ReportOfJob(j) /\ run[s].status # "none" =>
        s \in Started(j)
  BY DEF Started
<1>3. \A s \in Run : job[s].at = "clearing" => run[s].status # "none"
  BY DEF ActiveInv, RowsInv, JobsFit
<1>4. j \in Run => ReportOfJob(j) = run[j].report
  BY ReconciliationAssumption DEF ReportOfJob
<1>5. ASSUME NEW r \in Run, NEW s \in Run, r # s, run[s].report = run[r].report,
             job'[r].at = "clearing", ~run[r].archived, ~run[s].archived
      PROVE  /\ run[s].status = "completed" => s \in job'[r].runs
             /\ job'[s].at = "clearing" => s \in job'[r].runs \/ r \in job'[s].runs
  <2>1. CASE r = j
    <3>1. run[s].status # "none" => s \in job'[r].runs
      BY <1>1, <1>2, <1>4, <1>5, <2>1
    <3>2. job'[s].at = "clearing" => run[s].status # "none"
      BY <1>1, <1>3, <1>5, <2>1
    <3> QED
      BY <3>1, <3>2
  <2>2. CASE s = j
    <3>1. job[r].at = "clearing" /\ job'[r] = job[r]
      BY <1>1, <1>5, <2>2
    <3>2. r \in job'[s].runs
      BY <1>1, <1>2, <1>3, <1>4, <1>5, <2>2, <3>1
    <3>3. run[s].status = "completed" => s \in job'[r].runs
      BY <1>5, <3>1 DEF ActiveInv, Rivals
    <3> QED
      BY <3>2, <3>3
  <2>3. CASE r # j /\ s # j
    BY <1>1, <1>5, <2>3 DEF ActiveInv, Rivals
  <2> QED
    BY <2>1, <2>2, <2>3
<1>6. Rivals'
  BY <1>1, <1>5 DEF Rivals
<1>7. OneActiveRun'
  BY <1>1 DEF ActiveInv, OneActiveRun, Live
<1> QED
  BY <1>6, <1>7

(* A run that commits has all its rows live and is its report's one run; a *)
(* clearing that commits archives the runs of the rows it archives.        *)
LEMMA CommitKeepsActive ==
  ASSUME ActiveInv, NEW j \in Job, Commits(j)
  PROVE  Rivals' /\ OneActiveRun'
<1>1. /\ RowsInv /\ TInv /\ Run \subseteq Job
      /\ j \in Run => CommitRun(j)
  BY ReconciliationAssumption DEF ActiveInv, RowsInv, Commits, Job
<1>2. /\ job[j].at = "clearing" /\ job'[j].at # "clearing"
      /\ \A k \in Job \ {j} : job'[k] = job[k]
      /\ \A i \in Result : There(i) /\ i \notin job[j].results => result'[i] = result[i]
      /\ RunsLeft(j, run') /\ UNCHANGED purged
  BY <1>1, CommitLeaves DEF purgeVars
<1>3. /\ \A s \in Run : /\ run'[s].report = run[s].report
                        /\ run[s].archived => run'[s].archived
      /\ \A s \in Run \ {j} : /\ run'[s].status = run[s].status
                              /\ s \in job[j].runs => run'[s].archived
  BY <1>2 DEF RunsLeft
<1>4. \A i \in job[j].results : i[1] \in job[j].runs
  BY <1>1 DEF RowsInv, JobsFit
<1>5. ASSUME NEW s \in Run \ {j}, run'[s].status = "completed", ~run'[s].archived
      PROVE  /\ run[s].status = "completed" /\ ~run[s].archived /\ run'[s].report = run[s].report
             /\ s \notin job[j].runs
             /\ j \in Run /\ ~run[j].archived => run[s].report # run[j].report
  <2>1. /\ run[s].status = "completed" /\ ~run[s].archived /\ run'[s].report = run[s].report
        /\ s \notin job[j].runs
    BY <1>3, <1>5
  <2> QED
    BY <1>2, <2>1 DEF ActiveInv, Rivals
<1>6. ASSUME NEW s \in Run \ {j}, run'[s].status = "completed", ~run'[s].archived,
             NEW w \in Row, ReportOf[w] = run'[s].report
      PROVE  result'[<<s, w>>].state = "live" \/ <<s, w>> \in purged'
  <2>1. Live(<<s, w>>) \/ <<s, w>> \in purged
    BY <1>5, <1>6 DEF ActiveInv, OneActiveRun
  <2>2. <<s, w>> \in Result /\ <<s, w>> \notin job[j].results
    BY <1>4, <1>5, <1>6 DEF Result
  <2> QED
    BY <1>2, <2>1, <2>2 DEF Live, There
<1>7. ASSUME j \in Run
      PROVE  /\ run'[j].status = "completed"
             /\ \A w \in Row : ReportOf[w] = run'[j].report => result'[<<j, w>>].state = "live"
  <2>1. /\ run'[j].status = "completed" /\ run'[j].report = run[j].report
        /\ \A i \in Result : i[1] = j /\ ReportOf[i[2]] = run[j].report =>
             result'[i] = [state |-> "live", recorded |-> Collected(job[j].plan, i)]
    BY <1>1, <1>7, RunCommits
  <2>2. ASSUME NEW w \in Row, ReportOf[w] = run'[j].report
        PROVE  result'[<<j, w>>].state = "live"
    <3>1. <<j, w>> \in Result /\ <<j, w>>[1] = j /\ <<j, w>>[2] = w
      BY <1>7 DEF Result
    <3>2. PICK n : result'[<<j, w>>] = [state |-> "live", recorded |-> n]
      BY <2>1, <2>2, <3>1
    <3> QED
      BY <3>2
  <2> QED
    BY <2>1, <2>2
<1>8. ASSUME NEW s \in Run, NEW t \in Run \ {s}, run'[t].report = run'[s].report,
             run'[s].status = "completed", ~run'[s].archived,
             run'[t].status = "completed", ~run'[t].archived
      PROVE  FALSE
  <2>1. CASE s # j /\ t # j
    BY <1>5, <1>8, <2>1 DEF ActiveInv, OneActiveRun
  <2>2. ASSUME NEW u \in Run \ {j}, j \in Run, run'[u].report = run'[j].report,
               run'[u].status = "completed", ~run'[u].archived, ~run'[j].archived
        PROVE  FALSE
    BY <1>3, <1>5, <2>2
  <2> QED
    BY <1>8, <2>1, <2>2
<1>9. OneActiveRun'
  <2>1. ASSUME NEW s \in Run, run'[s].status = "completed", ~run'[s].archived,
               NEW w \in Row, ReportOf[w] = run'[s].report
        PROVE  result'[<<s, w>>].state = "live" \/ <<s, w>> \in purged'
    BY <1>6, <1>7, <2>1
  <2> QED
    BY <1>8, <2>1 DEF OneActiveRun, Live
<1>10. ASSUME NEW r \in Run, NEW s \in Run, r # s, run'[s].report = run'[r].report,
              job'[r].at = "clearing", ~run'[r].archived, ~run'[s].archived
       PROVE  /\ run'[s].status = "completed" => s \in job'[r].runs
              /\ job'[s].at = "clearing" => s \in job'[r].runs \/ r \in job'[s].runs
  <2>1. /\ r # j /\ job'[r] = job[r] /\ r \notin job[j].runs
        /\ ~run[r].archived /\ ~run[s].archived /\ run[s].report = run[r].report
    BY <1>1, <1>2, <1>3, <1>10
  <2>2. CASE s = j
    BY <1>2, <1>10, <2>1, <2>2 DEF ActiveInv, Rivals
  <2>3. CASE s # j
    BY <1>1, <1>2, <1>3, <1>10, <2>1, <2>3 DEF ActiveInv, Rivals
  <2> QED
    BY <2>2, <2>3
<1>11. Rivals'
  BY <1>10 DEF Rivals
<1> QED
  BY <1>9, <1>11

(* Every start, commit, match, clearing and purge keeps it.                *)
LEMMA ActiveKeeps == ActiveInv /\ [ReconNext]_allVars => ActiveInv'
<1> SUFFICES ASSUME ActiveInv, [ReconNext]_allVars
             PROVE  ActiveInv'
  OBVIOUS
<1>1. RowsInv' /\ RowsInv /\ TInv /\ JobsFit
  BY RowsKeep DEF ActiveInv, RowsInv
<1>2. ASSUME UNCHANGED <<run, job>>, purged \subseteq purged',
             \A i \in Result : Live(i) => result'[i].state = "live" \/ i \in purged'
      PROVE  Rivals' /\ OneActiveRun'
  BY <1>2, ActiveStays
<1>3. ASSUME NEW a \in Actor, MatchStep(a) \/ ActorStops(a)
      PROVE  Rivals' /\ OneActiveRun'
  BY <1>1, <1>3, MatchLeaves, ActiveStays DEF Live, purgeVars
<1>4. ASSUME NEW r \in Run, (\E p \in Report : CheckRun(r, p)) \/ InsertRun(r)
      PROVE  Rivals' /\ OneActiveRun'
  <2>1. /\ UNCHANGED <<result, purged>> /\ \A s \in Run \ {r} : run'[s] = run[s]
        /\ run'[r].status # "completed" /\ Run \subseteq Job
    BY <1>1, <1>4, StartLeaves DEF purgeVars, Job
  <2>2. job'[r].at # "clearing" /\ \A k \in Job \ {r} : job'[k] = job[k]
    BY <1>1, <1>4, <2>1 DEF CheckRun, InsertRun, TInv, JobTypes, JobRecord
  <2> QED
    BY <2>1, <2>2, ActiveStays DEF Live
<1>5. ASSUME NEW j \in Job,
             \/ j \in Run /\ (PlanRun(j) \/ UnlinkForRun(j) \/ RunFails(j))
             \/ j \in Report /\ (UnlinkForReport(j) \/ ReportFails(j))
      PROVE  Rivals' /\ OneActiveRun'
  <2>1. /\ UNCHANGED <<run, result, purged>> /\ \A k \in Job \ {j} : job'[k] = job[k]
        /\ Run \subseteq Job
    BY <1>1, <1>5, JobLeaves DEF purgeVars, Job
  <2>2. job'[j].at # "clearing"
    BY <1>1, <1>5 DEF PlanRun, UnlinkForRun, RunFails, UnlinkForReport, ReportFails, TInv, JobTypes,
                      JobRecord, NewJob
  <2> QED
    BY <2>1, <2>2, ActiveStays DEF Live
<1>6. ASSUME NEW j \in Job, Clear(j) \/ Commits(j)
      PROVE  Rivals' /\ OneActiveRun'
  BY <1>6, ClearKeepsActive, CommitKeepsActive
<1>7. ASSUME NEW d \in Deletion, PurgeStep(d)
      PROVE  Rivals' /\ OneActiveRun'
  <2>1. /\ UNCHANGED <<run, job>> /\ purged \subseteq purged'
        /\ \A i \in Result : result'[i] = result[i] \/ i \in purged'
    BY <1>1, <1>7, PurgeLeaves
  <2> QED
    BY <1>2, <2>1 DEF Live
<1>8. /\ \A r \in Run : r \in Job
      /\ \A p \in Report : p \in Job
  BY DEF Job
<1>9. UNCHANGED allVars \/ UNCHANGED reconVars => UNCHANGED <<run, job, result, purged>>
  BY DEF allVars, reconVars, purgeVars
<1>10. Rivals' /\ OneActiveRun'
  BY <1>2, <1>3, <1>4, <1>5, <1>6, <1>7, <1>8, <1>9
  DEF ReconNext, RunStep, ReportStep, Commits, Live
<1> QED
  BY <1>1, <1>10 DEF ActiveInv

(* Before the first run there is none.                                     *)
LEMMA ActiveInitially == ReconInit => ActiveInv
<1> SUFFICES ASSUME ReconInit
             PROVE  ActiveInv
  OBVIOUS
<1>1. Rivals /\ OneActiveRun
  BY DEF ReconInit, Rivals, OneActiveRun, NewRun, NewJob, Job
<1> QED
  BY <1>1, RowsInitially DEF ActiveInv

(* A report has at most one completed run that is not archived, and all    *)
(* the rows of that run are live that no purge has archived: whether a run *)
(* archives the others it has seen, or others it has not seen archive it.  *)
THEOREM OneActiveRunAlways == ReconSpec => []OneActiveRun
<1>1. ActiveInv => OneActiveRun
  BY DEF ActiveInv
<1> QED
  BY <1>1, ActiveInitially, ActiveKeeps, PTL DEF ReconSpec

-----------------------------------------------------------------------------
(* Until it commits, a match that has written has its row and its          *)
(* certificate to itself.                                                  *)
WritingAlone ==
  /\ \A a \in Writing :
       /\ Live(match[a].to) /\ \A j \in Job : match[a].to \notin job[j].results
       /\ \A d \in Deletion : match[a].to \notin purge[d].rows
       /\ link[actor[a].cert] = Unlinked
  /\ \A a, b \in Writing : a # b =>
       match[a].to # match[b].to /\ actor[a].cert # actor[b].cert

(* Matches that have written stay alone if no new one writes.              *)
LEMMA WritingStays ==
  ASSUME WritingAlone,
         \A b \in Actor : match'[b].at = "written" =>
           /\ b \in Writing
           /\ match'[b].to = match[b].to /\ actor'[b].cert = actor[b].cert
           /\ result'[match[b].to].state = "live"
           /\ \A j \in Job : match[b].to \notin job'[j].results
           /\ \A d \in Deletion : match[b].to \notin purge'[d].rows
           /\ link'[actor[b].cert] = Unlinked
  PROVE  WritingAlone'
BY DEF WritingAlone, Writing, Live

(* Who matches keeps its certificate and contents unless it leaves.        *)
LEMMA ActorsStay ==
  ASSUME RowsInv, NEW b \in Actor, match[b] # NoMatch,
         \/ UNCHANGED actor \/ CorrectionStep
         \/ \E a \in Actor \ {b} : Leave(a)
  PROVE  actor'[b].cert = actor[b].cert /\ actor'[b].content = actor[b].content
<1>1. actor[b].at = "matching" /\ CInv
  BY DEF RowsInv, TInv, MatchTypes
<1> QED
  BY <1>1, MatchingStays

(* Steps of matches, of runs and of clearings.                             *)
LEMMA MatchKeepsAlone ==
  ASSUME RowsInv, WritingAlone, NEW a \in Actor, MatchStep(a) \/ ActorStops(a)
  PROVE  WritingAlone'
<1>1. /\ \A i \in Result : result'[i].state = result[i].state
      /\ UNCHANGED <<job, purge>> /\ \A b \in Actor \ {a} : match'[b] = match[b]
  BY MatchLeaves DEF RowsInv, purgeVars
<1>2. Leave(a) \/ UNCHANGED correctionVars
  BY DEF MatchStep, ActorStops, ChooseRow, SkipMatch, WriteMatch, AbortMatch,
         MatchArchivedRow, CommitMatch
<1>3. \A b \in Actor : match[b].at = "written" => match[b] # NoMatch /\ match[b].to \in Result
  BY WritingHas DEF RowsInv, MatchRecord
<1>4. ASSUME NEW b \in Actor \ {a}, match'[b].at = "written"
      PROVE  /\ b \in Writing
             /\ match'[b].to = match[b].to /\ actor'[b].cert = actor[b].cert
             /\ result'[match[b].to].state = "live"
             /\ \A j \in Job : match[b].to \notin job'[j].results
             /\ \A d \in Deletion : match[b].to \notin purge'[d].rows
             /\ link'[actor[b].cert] = Unlinked
  <2>1. b \in Writing /\ match'[b].to = match[b].to /\ match[b] # NoMatch /\ match[b].to \in Result
    BY <1>1, <1>3, <1>4 DEF Writing
  <2>2. actor'[b].cert = actor[b].cert
    <3>1. b \in Actor /\ a \in Actor \ {b}
      OBVIOUS
    <3>2. UNCHANGED actor \/ \E e \in Actor \ {b} : Leave(e)
      BY <1>2, <3>1 DEF correctionVars
    <3> QED
      BY <2>1, <3>1, <3>2, ActorsStay
  <2>3. /\ result'[match[b].to].state = "live"
        /\ \A j \in Job : match[b].to \notin job'[j].results
        /\ \A d \in Deletion : match[b].to \notin purge'[d].rows
    BY <1>1, <2>1 DEF WritingAlone, Live
  <2>4. link[actor[b].cert] = Unlinked
    BY <2>1 DEF WritingAlone
  <2>5. link'[actor[b].cert] = link[actor[b].cert]
    <3>1. CASE UNCHANGED link
      BY <3>1
    <3>2. CASE link' = Linked(a) /\ actor[a].cert # actor[b].cert
      BY <3>2 DEF Linked, RowsInv, TInv, RowTypes
    <3>3. MatchArchivedRow(a) \/ CommitMatch(a) => actor[a].cert # actor[b].cert
      BY <2>1 DEF MatchArchivedRow, MayWrite, CommitMatch, WritingAlone, Writing
    <3> QED
      BY <3>1, <3>2, <3>3 DEF MatchStep, ActorStops, ChooseRow, SkipMatch, WriteMatch, AbortMatch,
         MatchArchivedRow, CommitMatch, reconVars
  <2> QED
    BY <2>1, <2>2, <2>3, <2>4, <2>5
<1>5. CASE match'[a].at # "written"
  BY <1>4, <1>5, WritingStays
<1>6. CASE match'[a].at = "written"
  <2>1. match \in [Actor -> {NoMatch} \cup MatchRecord] /\ NoMatch.at = "none"
    BY DEF RowsInv, TInv, MatchTypes, NoMatch
  <2>2. WriteMatch(a)
    <3>1. CASE ChooseRow(a)
      <4>1. PICK i : match' = [match EXCEPT ![a] = [NoMatch EXCEPT !.at = "chosen", !.to = i,
                                                        !.seen = result[i].recorded]]
        BY <3>1 DEF ChooseRow
      <4>2. match'[a].at = "chosen"
        BY <2>1, <4>1 DEF NoMatch
      <4> QED
        BY <1>6, <4>2
    <3>2. CASE match' = [match EXCEPT ![a] = NoMatch]
      BY <1>6, <2>1, <3>2
    <3>3. CASE SkipMatch(a)
      BY <1>6, <2>1, <3>3 DEF SkipMatch, reconVars
    <3> QED
      BY <3>1, <3>2, <3>3 DEF MatchStep, ActorStops, AbortMatch, MatchArchivedRow, CommitMatch
  <2>3. /\ MayWrite(a) /\ link[actor[a].cert] = Unlinked /\ Live(match[a].to)
        /\ match[a].at = "chosen" /\ UNCHANGED <<actor, link, result>>
    BY <2>2 DEF WriteMatch, Linkable, correctionVars
  <2>4. match[a] \in MatchRecord
    BY <2>3, WritingHas DEF RowsInv
  <2>5. match'[a].to = match[a].to
    BY <2>1, <2>2, <2>4 DEF WriteMatch, MatchRecord
  <2>6. \A b \in Writing' : b = a \/ (b \in Writing /\ match'[b] = match[b])
    BY <1>4, <1>1 DEF Writing
  <2>7. \A b \in Writing' :
          /\ Live(match'[b].to) /\ \A j \in Job : match'[b].to \notin job'[j].results
          /\ \A d \in Deletion : match'[b].to \notin purge'[d].rows
          /\ link'[actor'[b].cert] = Unlinked
    BY <1>1, <2>3, <2>5, <2>6 DEF WritingAlone, MayWrite
  <2>8. \A b, d \in Writing' : b # d =>
          match'[b].to # match'[d].to /\ actor'[b].cert # actor'[d].cert
    BY <2>3, <2>5, <2>6 DEF WritingAlone, MayWrite
  <2> QED
    BY <2>3, <2>7, <2>8 DEF WritingAlone, Live
<1> QED
  BY <1>5, <1>6

(* Steps of no match that take no row or certificate from one.             *)
LEMMA OthersKeepAlone ==
  ASSUME RowsInv, WritingAlone, UNCHANGED match,
         UNCHANGED actor \/ CorrectionStep,
         \A i \in Result :
           Live(i) /\ (\A j \in Job : i \notin job[j].results)
                   /\ (\A d \in Deletion : i \notin purge[d].rows) =>
             result'[i].state = "live",
         \A d \in Deletion : \A i \in purge'[d].rows : i \in purge[d].rows
           \/ \A a \in Writing : match[a].to # i,
         \A j \in Job : \A i \in job'[j].results : i \in job[j].results
           \/ \A a \in Writing : match[a].to # i,
         \A a \in Writing : link[actor[a].cert] = Unlinked => link'[actor[a].cert] = Unlinked
  PROVE  WritingAlone'
<1>1. ASSUME NEW b \in Actor, match'[b].at = "written"
      PROVE  /\ b \in Writing
             /\ match'[b].to = match[b].to /\ actor'[b].cert = actor[b].cert
             /\ result'[match[b].to].state = "live"
             /\ \A j \in Job : match[b].to \notin job'[j].results
             /\ \A d \in Deletion : match[b].to \notin purge'[d].rows
             /\ link'[actor[b].cert] = Unlinked
  <2>1. b \in Writing
    BY <1>1 DEF Writing
  <2>2. match[b] # NoMatch /\ match[b].to \in Result
    BY <1>1, WritingHas DEF RowsInv, MatchRecord
  <2>3. actor'[b].cert = actor[b].cert
    BY <2>2, ActorsStay
  <2>4. /\ result'[match[b].to].state = "live"
        /\ \A j \in Job : match[b].to \notin job'[j].results
        /\ \A d \in Deletion : match[b].to \notin purge'[d].rows
        /\ link'[actor[b].cert] = Unlinked
    BY <2>1, <2>2 DEF WritingAlone
  <2> QED
    BY <2>1, <2>3, <2>4
<1> QED
  BY <1>1, WritingStays

(* Every step leaves the matches that have written alone.                  *)
LEMMA AloneKeeps == RowsInv /\ WritingAlone /\ [ReconNext]_allVars => WritingAlone'
<1> SUFFICES ASSUME RowsInv, WritingAlone, [ReconNext]_allVars
             PROVE  WritingAlone'
  OBVIOUS
<1>1. ASSUME UNCHANGED reconVars, CorrectionStep \/ UNCHANGED correctionVars
      PROVE  WritingAlone'
  BY <1>1, OthersKeepAlone DEF reconVars, purgeVars, correctionVars, Live
<1>2. ASSUME NEW a \in Actor, MatchStep(a) \/ ActorStops(a)
      PROVE  WritingAlone'
  BY <1>2, MatchKeepsAlone
<1>3. ASSUME NEW r \in Run, (\E p \in Report : CheckRun(r, p)) \/ InsertRun(r)
      PROVE  WritingAlone'
  BY <1>3, StartLeaves, OthersKeepAlone DEF RowsInv, purgeVars, correctionVars, Live
<1>4. ASSUME NEW j \in Job,
             \/ j \in Run /\ (PlanRun(j) \/ UnlinkForRun(j) \/ RunFails(j))
             \/ j \in Report /\ (UnlinkForReport(j) \/ ReportFails(j))
             \/ Clear(j)
      PROVE  WritingAlone'
  <2>1. /\ UNCHANGED <<actor, run, result, link, match, purge>>
        /\ \A k \in Job \ {j} : job'[k] = job[k]
    BY <1>4, JobLeaves DEF RowsInv, purgeVars, correctionVars
  <2>2. job[j] \in JobRecord /\ DOMAIN job = Job
    BY DEF RowsInv, TInv, JobTypes
  <2>3. \A i \in job'[j].results : i \in job[j].results \/ \A a \in Writing : match[a].to # i
    <3>1. CASE j \in Run /\ PlanRun(j)
      BY <2>2, <3>1 DEF PlanRun, JobRecord
    <3>2. CASE (j \in Run /\ UnlinkForRun(j)) \/ (j \in Report /\ UnlinkForReport(j))
      BY <2>2, <3>2 DEF UnlinkForRun, UnlinkForReport, JobRecord
    <3>3. CASE Clear(j)
      <4>1. job'[j].results = LiveOf(ReportOfJob(j))
        BY <2>2, <3>3 DEF Clear, JobRecord
      <4> QED
        BY <3>3, <4>1 DEF Clear, Unheld
    <3>4. CASE (j \in Run /\ RunFails(j)) \/ (j \in Report /\ ReportFails(j))
      BY <2>2, <3>4 DEF RunFails, ReportFails, NewJob
    <3> QED
      BY <1>4, <3>1, <3>2, <3>3, <3>4
  <2> QED
    BY <2>1, <2>3, OthersKeepAlone DEF Live
<1>5. ASSUME NEW j \in Job, Commits(j)
      PROVE  WritingAlone'
  <2>1. /\ UNCHANGED <<actor, match, purge>> /\ job'[j].results = {}
        /\ \A k \in Job \ {j} : job'[k] = job[k]
        /\ \A i \in Result : There(i) /\ i \notin job[j].results => result'[i] = result[i]
    BY <1>5, CommitLeaves DEF purgeVars, correctionVars
  <2>2. \A a \in Writing : actor[a].cert \in Certificate /\ ~Planned(j, actor[a].cert)
    BY <1>5, CommitLeaves, WritingHas DEF Writing, RowsInv
  <2>3. \A a \in Writing : link[actor[a].cert] = Unlinked => link'[actor[a].cert] = Unlinked
    BY <1>5, <2>2, CommitLeaves
  <2>4. \A i \in Result : Live(i) /\ (\A k \in Job : i \notin job[k].results) =>
           result'[i].state = "live"
    BY <2>1 DEF Live, There
  <2> QED
    BY <2>1, <2>3, <2>4, OthersKeepAlone
<1>6. /\ \A r \in Run : r \in Job
      /\ \A p \in Report : p \in Job
  BY DEF Job
<1>7. ASSUME NEW d \in Deletion, PurgeStep(d)
      PROVE  WritingAlone'
  <2>1. /\ UNCHANGED <<actor, job, match>>
        /\ \A c \in Certificate : link'[c] = link[c] \/ link'[c] = Unlinked
        /\ \A i \in Result : result'[i] = result[i] \/ i \in purge[d].rows
        /\ \A e \in Deletion : \A i \in purge'[e].rows :
             i \in purge[e].rows \/ \A a \in Writing : match[a].to # i
    BY <1>7, PurgeLeaves DEF RowsInv
  <2>2. \A a \in Writing : actor[a].cert \in Certificate
    BY WritingHas DEF Writing, RowsInv
  <2>3. \A a \in Writing : link[actor[a].cert] = Unlinked => link'[actor[a].cert] = Unlinked
    BY <2>1, <2>2
  <2> QED
    BY <1>7, <2>1, <2>3, OthersKeepAlone DEF Live
<1> QED
  BY <1>1, <1>2, <1>3, <1>4, <1>5, <1>6, <1>7
  DEF ReconNext, RunStep, ReportStep, Commits, allVars

-----------------------------------------------------------------------------
(* What a transaction that archives gives back: the links to all live rows *)
(* of its report, but for those made since; and it archives these rows.    *)
GivesBack(j) ==
  /\ job[j].at \in {"unlinking", "clearing"} =>
       /\ \A l \in job[j].links : ReportOf[l[2][2]] = ReportOfJob(j)
       /\ \A c \in Certificate \ stranded : link[c].to \in LiveOf(ReportOfJob(j)) =>
            <<c, link[c].to>> \in job[j].links
  /\ job[j].at = "clearing" => \A l \in job[j].links : l[2] \in job[j].results \/ ~Live(l[2])

GivenBack == \A j \in Job : GivesBack(j)

FreeInv == RowsInv /\ WritingAlone /\ GivenBack /\ ArchivedRowsFree

(* A transaction that does nothing itself still gives back all, unless a   *)
(* new link to its report's rows is not stranded.                          *)
LEMMA GivesBackStays ==
  ASSUME FreeInv, NEW j \in Job,
         job'[j].at \in {"unlinking", "clearing"} =>
           job'[j].links = job[j].links /\ job'[j].results = job[j].results
             /\ job'[j].at = job[j].at /\ ReportOfJob(j)' = ReportOfJob(j),
         \A i \in Result : There(i) /\ result'[i].state = "live" => Live(i),
         \A c \in Certificate \ stranded' : link'[c].to \in LiveOf(ReportOfJob(j))' =>
           link'[c] = link[c] /\ c \notin stranded
  PROVE  GivesBack(j)'
<1> SUFFICES ASSUME job'[j].at \in {"unlinking", "clearing"}
             PROVE  GivesBack(j)'
  BY DEF GivesBack
<1>1. /\ job'[j].links = job[j].links /\ job'[j].results = job[j].results
      /\ job'[j].at = job[j].at /\ ReportOfJob(j)' = ReportOfJob(j)
  OBVIOUS
<1>2. GivesBack(j) /\ job[j].links \subseteq Certificate \X Result
      /\ \A l \in job[j].links : There(l[2])
  BY DEF FreeInv, GivenBack, RowsInv, TInv, JobTypes, JobRecord, ResultsThere
<1>3. \A c \in Certificate : link[c].to \in Result => There(link[c].to)
  BY ReconciliationAssumption DEF FreeInv, RowsInv, ResultsThere, Unlinked
<1>4. \A l \in job'[j].links : ReportOf[l[2][2]] = ReportOfJob(j)'
  BY <1>1, <1>2 DEF GivesBack
<1>5. ASSUME NEW c \in Certificate \ stranded', link'[c].to \in LiveOf(ReportOfJob(j))'
      PROVE  <<c, link'[c].to>> \in job'[j].links
  <2>1. link'[c] = link[c] /\ c \notin stranded
    BY <1>5
  <2>2. link[c].to \in Result /\ ReportOf[link[c].to[2]] = ReportOfJob(j)
        /\ result'[link[c].to].state = "live"
    BY <1>1, <1>5, <2>1 DEF LiveOf, Live
  <2>3. link[c].to \in LiveOf(ReportOfJob(j))
    BY <1>3, <2>2 DEF LiveOf
  <2> QED
    BY <1>1, <1>2, <2>1, <2>3 DEF GivesBack
<1>6. ASSUME job'[j].at = "clearing", NEW l \in job'[j].links, l[2] \notin job'[j].results
      PROVE  result'[l[2]].state # "live"
  BY <1>1, <1>2, <1>6 DEF GivesBack
<1> QED
  BY <1>4, <1>5, <1>6 DEF GivesBack, Live

(* A match gives a row its certificate before or after rows are archived.  *)
LEMMA MatchGivesBack ==
  ASSUME FreeInv, NEW a \in Actor, MatchStep(a) \/ ActorStops(a)
  PROVE  GivenBack' /\ ArchivedRowsFree'
<1>1. /\ \A i \in Result : result'[i].state = result[i].state
      /\ \A r \in Run : run'[r].report = run[r].report
      /\ UNCHANGED <<job, purged>>
  BY MatchLeaves DEF FreeInv, RowsInv, purgeVars
<1>2. \A j \in Job : ReportOfJob(j)' = ReportOfJob(j)
  BY <1>1 DEF ReportOfJob, Job
<1>3. ASSUME NEW c \in Certificate \ stranded', link'[c] # link[c] \/ c \in stranded
      PROVE  /\ link'[c].to \in Result /\ Live(link'[c].to)
             /\ Archiving(ReportOf[link'[c].to[2]]) = {}
  <2>1. CASE UNCHANGED <<link, stranded>>
    BY <1>3, <2>1
  <2>2. CASE MatchArchivedRow(a)
    BY <1>3, <2>2 DEF MatchArchivedRow, Linked, FreeInv, RowsInv, TInv, RowTypes
  <2>3. CASE CommitMatch(a)
    <3>1. c = actor[a].cert /\ Archiving(ReportOf[match[a].to[2]]) = {}
      BY <1>3, <2>3 DEF CommitMatch, Linked, FreeInv, RowsInv, TInv, RowTypes
    <3>2. link'[c].to = match[a].to
      BY <2>3, <3>1 DEF CommitMatch, Linked, FreeInv, RowsInv, TInv, RowTypes
    <3>3. match[a].to \in Result /\ Live(match[a].to)
      BY <2>3, WritingHas DEF CommitMatch, Writing, WritingAlone, FreeInv, RowsInv, MatchRecord
    <3> QED
      BY <3>1, <3>2, <3>3
  <2> QED
    BY <2>1, <2>2, <2>3 DEF MatchStep, ActorStops, ChooseRow, SkipMatch, WriteMatch, AbortMatch,
                            reconVars, ghostVars
<1>4. ASSUME NEW j \in Job
      PROVE  GivesBack(j)'
  <2>1. job[j].at \in {"unlinking", "clearing"} => j \in Archiving(ReportOfJob(j))
    BY DEF Archiving
  <2>2. CASE job'[j].at \in {"unlinking", "clearing"}
    <3>1. \A c \in Certificate \ stranded' : link'[c].to \in LiveOf(ReportOfJob(j))' =>
             link'[c] = link[c] /\ c \notin stranded
      BY <1>1, <1>2, <1>3, <2>1, <2>2 DEF LiveOf
    <3> QED
      BY <1>1, <1>2, <3>1, GivesBackStays DEF Live
  <2>3. CASE job'[j].at \notin {"unlinking", "clearing"}
    BY <2>3 DEF GivesBack
  <2> QED
    BY <2>2, <2>3
<1>5. ASSUME NEW c \in Certificate \ stranded', link'[c] # Unlinked
      PROVE  result'[link'[c].to].state = "live" \/ link'[c].to \in purged'
  <2>1. CASE link'[c] = link[c] /\ c \notin stranded
    <3>1. (Live(link[c].to) \/ link[c].to \in purged) /\ link[c].to \in Result
      BY <1>5, <2>1 DEF FreeInv, ArchivedRowsFree, RowsInv, TInv, RowTypes, Target
    <3> QED
      BY <1>1, <2>1, <3>1 DEF Live
  <2>2. CASE ~(link'[c] = link[c] /\ c \notin stranded)
    BY <1>1, <1>3, <2>2 DEF Live
  <2> QED
    BY <2>1, <2>2
<1> QED
  BY <1>4, <1>5 DEF GivenBack, ArchivedRowsFree, Live

(* A transaction gives back what it has found.                             *)
LEMMA JobGivesBack ==
  ASSUME FreeInv, NEW j \in Job,
         \/ j \in Run /\ (PlanRun(j) \/ UnlinkForRun(j) \/ RunFails(j))
         \/ j \in Report /\ (UnlinkForReport(j) \/ ReportFails(j))
         \/ Clear(j)
  PROVE  GivenBack' /\ ArchivedRowsFree'
<1>1. /\ UNCHANGED <<run, result, link, stranded, purged>>
      /\ \A k \in Job \ {j} : job'[k] = job[k]
  BY JobLeaves DEF FreeInv, RowsInv, purgeVars
<1>2. /\ ArchivedRowsFree'
      /\ \A k \in Job : ReportOfJob(k)' = ReportOfJob(k)
      /\ \A p : LiveOf(p)' = LiveOf(p)
  BY <1>1 DEF FreeInv, ArchivedRowsFree, Live, ReportOfJob, LiveOf
<1>3. ASSUME NEW k \in Job \ {j}
      PROVE  GivesBack(k)'
  BY <1>1, <1>2 DEF FreeInv, GivenBack, GivesBack, Live
<1>4. job[j] \in JobRecord /\ DOMAIN job = Job
  BY DEF FreeInv, RowsInv, TInv, JobTypes
<1>5. GivesBack(j)'
  <2>1. CASE j \in Run /\ PlanRun(j)
    <3>1. job'[j].at = "planned"
      BY <1>4, <2>1 DEF PlanRun, JobRecord
    <3> QED
      BY <3>1 DEF GivesBack
  <2>2. CASE (j \in Run /\ UnlinkForRun(j)) \/ (j \in Report /\ UnlinkForReport(j))
    <3>1. ReportOfJob(j) = IF j \in Run THEN run[j].report ELSE j
      BY ReconciliationAssumption DEF ReportOfJob, Job
    <3>2. job'[j].at = "unlinking" /\ job'[j].links = LinksOf(ReportOfJob(j))
      BY <1>4, <2>2, <3>1, ReconciliationAssumption DEF UnlinkForRun, UnlinkForReport, JobRecord
    <3>3. \A l \in LinksOf(ReportOfJob(j)) : ReportOf[l[2][2]] = ReportOfJob(j)
      BY DEF LinksOf, LiveOf
    <3>4. \A c \in Certificate : link[c].to \in LiveOf(ReportOfJob(j)) =>
            <<c, link[c].to>> \in LinksOf(ReportOfJob(j))
      BY DEF LinksOf
    <3> QED
      BY <1>1, <1>2, <3>2, <3>3, <3>4 DEF GivesBack
  <2>3. CASE Clear(j)
    <3>1. /\ job[j].at = "unlinking" /\ job'[j].at = "clearing"
          /\ job'[j].links = job[j].links /\ job'[j].results = LiveOf(ReportOfJob(j))
      BY <1>4, <2>3 DEF Clear, JobRecord
    <3>2. GivesBack(j) /\ job[j].links \subseteq Certificate \X Result
      BY <1>4 DEF FreeInv, GivenBack, JobRecord
    <3>3. \A l \in job[j].links : l[2] \in LiveOf(ReportOfJob(j)) \/ ~Live(l[2])
      BY <3>1, <3>2 DEF GivesBack, LiveOf
    <3> QED
      BY <1>1, <1>2, <3>1, <3>2, <3>3 DEF GivesBack, Live
  <2>4. CASE (j \in Run /\ RunFails(j)) \/ (j \in Report /\ ReportFails(j))
    <3>1. job'[j].at \in {"new", "ended"}
      BY <1>4, <2>4 DEF RunFails, ReportFails, NewJob
    <3> QED
      BY <3>1 DEF GivesBack
  <2> QED
    BY <2>1, <2>2, <2>3, <2>4
<1> QED
  BY <1>2, <1>3, <1>5 DEF GivenBack

(* A commit gives back what its job listed, and strands what was linked    *)
(* since.                                                                  *)
LEMMA CommitGivesBack ==
  ASSUME FreeInv, NEW j \in Job, Commits(j)
  PROVE  GivenBack' /\ ArchivedRowsFree'
<1>1. RowsInv
  BY DEF FreeInv
<1>2. /\ job'[j].at \in {"new", "ended"}
      /\ \A k \in Job \ {j} : job'[k] = job[k]
      /\ job[j].at = "clearing" /\ \A r \in Run : run'[r].report = run[r].report
      /\ UNCHANGED purged
      /\ \A i \in Result : There(i) =>
              /\ i \in job[j].results => result'[i].state = "archived"
              /\ i \notin job[j].results => result'[i] = result[i]
  BY <1>1, CommitLeaves DEF RunsLeft, purgeVars
<1>3. \A c \in Certificate : Planned(j, c) =>
              /\ link'[c] = job[j].plan[c] /\ result'[link'[c].to].state = "live"
              /\ ReportOf[link'[c].to[2]] = ReportOfJob(j)
              /\ c \in stranded' \/ Archiving(ReportOfJob(j)) = {j}
  BY <1>1, CommitLeaves
<1>4. \A c \in Certificate : ~Planned(j, c) =>
              \/ Released(j, c) /\ link'[c] = Unlinked
              \/ /\ ~Released(j, c) /\ link'[c] = link[c]
                 /\ c \notin stranded' => c \notin stranded
  BY <1>1, CommitLeaves
<1>5. \A k \in Job : ReportOfJob(k)' = ReportOfJob(k)
  BY <1>2 DEF ReportOfJob, Job
<1>6. ASSUME NEW k \in Job
      PROVE  GivesBack(k)'
  <2>1. CASE k = j \/ job[k].at \notin {"unlinking", "clearing"}
    <3>1. job'[k].at \notin {"unlinking", "clearing"}
      BY <1>2, <2>1
    <3> QED
      BY <3>1 DEF GivesBack
  <2>2. CASE k # j /\ job[k].at \in {"unlinking", "clearing"}
    <3>1. job'[k] = job[k] /\ k \in Archiving(ReportOfJob(k))
      BY <1>2, <2>2 DEF Archiving
    <3>2. ASSUME NEW c \in Certificate \ stranded', link'[c].to \in LiveOf(ReportOfJob(k))'
          PROVE  link'[c] = link[c] /\ c \notin stranded
      <4>1. ReportOf[link'[c].to[2]] = ReportOfJob(k) /\ link'[c].to \in Result
        BY <1>5, <3>2 DEF LiveOf
      <4>2. ~Planned(j, c)
        BY <1>3, <2>2, <3>1, <4>1
      <4>3. link'[c] # Unlinked
        BY <4>1, ReconciliationAssumption DEF Unlinked
      <4> QED
        BY <1>4, <4>2, <4>3
    <3>3. \A i \in Result : There(i) /\ result'[i].state = "live" => Live(i)
      BY <1>2 DEF Live
    <3> QED
      BY <1>5, <3>1, <3>2, <3>3, GivesBackStays
  <2> QED
    BY <2>1, <2>2
<1>7. ASSUME NEW c \in Certificate \ stranded', link'[c] # Unlinked
      PROVE  result'[link'[c].to].state = "live" \/ link'[c].to \in purged'
  <2>1. CASE Planned(j, c)
    BY <1>3, <2>1
  <2>2. CASE ~Planned(j, c)
    <3>1. ~Released(j, c) /\ link'[c] = link[c] /\ c \notin stranded
      BY <1>4, <1>7, <2>2
    <3>2. /\ Live(link[c].to) \/ link[c].to \in purged
          /\ link[c].to \in Result
      BY <1>7, <3>1 DEF FreeInv, ArchivedRowsFree, RowsInv, TInv, RowTypes, Target
    <3>3. CASE Live(link[c].to)
      <4>1. link[c].to \notin job[j].results
        <5> SUFFICES ASSUME link[c].to \in job[j].results
                     PROVE  FALSE
          OBVIOUS
        <5>1. link[c].to \in LiveOf(ReportOfJob(j))
          BY <3>2, <3>3 DEF LiveOf, FreeInv, RowsInv, JobsFit
        <5>2. <<c, link[c].to>> \in job[j].links
          BY <1>2, <3>1, <5>1 DEF FreeInv, GivenBack, GivesBack
        <5> QED
          BY <3>1, <5>2 DEF Released
      <4> QED
        BY <1>2, <3>1, <3>2, <3>3, <4>1 DEF Live, There
    <3>4. CASE link[c].to \in purged
      BY <1>2, <3>1, <3>4
    <3> QED
      BY <3>2, <3>3, <3>4
  <2> QED
    BY <2>1, <2>2
<1> QED
  BY <1>6, <1>7 DEF GivenBack, ArchivedRowsFree, Live

(* A purge takes links away, and archives rows that other certificates     *)
(* stay linked to.                                                         *)
LEMMA PurgeGivesBack ==
  ASSUME FreeInv, NEW d \in Deletion, PurgeStep(d)
  PROVE  GivenBack' /\ ArchivedRowsFree'
<1>1. /\ UNCHANGED <<run, job, stranded>>
      /\ \A c \in Certificate : link'[c] = link[c] \/ link'[c] = Unlinked
      /\ \A i \in Result : result'[i] = result[i]
           \/ (Live(i) /\ i \in purged' /\ result'[i].state = "archived")
      /\ purged \subseteq purged'
  BY PurgeLeaves DEF FreeInv, RowsInv, ghostVars
<1>2. \A j \in Job : ReportOfJob(j)' = ReportOfJob(j)
  BY <1>1 DEF ReportOfJob
<1>3. ASSUME NEW j \in Job
      PROVE  GivesBack(j)'
  <2>1. \A i \in Result : There(i) /\ result'[i].state = "live" => Live(i)
    BY <1>1 DEF Live
  <2>2. \A c \in Certificate \ stranded' : link'[c].to \in LiveOf(ReportOfJob(j))' =>
           link'[c] = link[c] /\ c \notin stranded
    BY <1>1, ReconciliationAssumption DEF LiveOf, Unlinked
  <2> QED
    BY <1>1, <1>2, <2>1, <2>2, GivesBackStays
<1>4. ASSUME NEW c \in Certificate \ stranded', link'[c] # Unlinked
      PROVE  result'[link'[c].to].state = "live" \/ link'[c].to \in purged'
  <2>1. link'[c] = link[c] /\ c \notin stranded
    BY <1>1, <1>4
  <2>2. /\ Live(link[c].to) \/ link[c].to \in purged
        /\ link[c].to \in Result
    BY <1>4, <2>1 DEF FreeInv, ArchivedRowsFree, RowsInv, TInv, RowTypes, Target
  <2> QED
    BY <1>1, <2>1, <2>2 DEF Live
<1> QED
  BY <1>3, <1>4 DEF GivenBack, ArchivedRowsFree, Live

(* Every step gives the certificates of archived rows back.                *)
LEMMA FreeKeeps == FreeInv /\ [ReconNext]_allVars => FreeInv'
<1> SUFFICES ASSUME FreeInv, [ReconNext]_allVars
             PROVE  FreeInv'
  OBVIOUS
<1>1. RowsInv' /\ WritingAlone'
  BY RowsKeep, AloneKeeps DEF FreeInv
<1>2. ASSUME UNCHANGED reconVars
      PROVE  GivenBack' /\ ArchivedRowsFree'
  BY <1>2 DEF reconVars, ghostVars, purgeVars, FreeInv, GivenBack, GivesBack, ArchivedRowsFree,
              Live, LiveOf, ReportOfJob
<1>3. ASSUME NEW a \in Actor, MatchStep(a) \/ ActorStops(a)
      PROVE  GivenBack' /\ ArchivedRowsFree'
  BY <1>3, MatchGivesBack
<1>4. ASSUME NEW r \in Run, (\E p \in Report : CheckRun(r, p)) \/ InsertRun(r)
      PROVE  GivenBack' /\ ArchivedRowsFree'
  <2>1. /\ UNCHANGED <<result, link, stranded, purged>>
        /\ \A s \in Run \ {r} : run'[s] = run[s]
        /\ \A j \in Job : /\ job'[j].links = job[j].links /\ job'[j].results = job[j].results
                          /\ job'[j].at = job[j].at \/ job'[j].at \in {"checked", "inserted"}
    BY <1>4, StartLeaves DEF FreeInv, RowsInv, purgeVars
  <2>2. job'[r].at \in {"checked", "inserted"}
    BY <1>4 DEF CheckRun, InsertRun, Job, FreeInv, RowsInv, TInv, JobTypes, JobRecord
  <2>3. \A j \in Job : job'[j].at \in {"unlinking", "clearing"} =>
          job'[j].at = job[j].at /\ ReportOfJob(j)' = ReportOfJob(j)
    BY <2>1, <2>2 DEF ReportOfJob, Job
  <2>4. \A j \in Job : GivesBack(j)'
    BY <2>1, <2>3, GivesBackStays DEF Live
  <2> QED
    BY <2>1, <2>4 DEF GivenBack, ArchivedRowsFree, Live, FreeInv
<1>5. ASSUME NEW j \in Job,
             \/ j \in Run /\ (PlanRun(j) \/ UnlinkForRun(j) \/ RunFails(j))
             \/ j \in Report /\ (UnlinkForReport(j) \/ ReportFails(j))
             \/ Clear(j)
      PROVE  GivenBack' /\ ArchivedRowsFree'
  BY <1>5, JobGivesBack
<1>6. ASSUME NEW j \in Job, Commits(j)
      PROVE  GivenBack' /\ ArchivedRowsFree'
  BY <1>6, CommitGivesBack
<1>7. /\ \A r \in Run : r \in Job
      /\ \A p \in Report : p \in Job
  BY DEF Job
<1>8. ASSUME NEW d \in Deletion, PurgeStep(d)
      PROVE  GivenBack' /\ ArchivedRowsFree'
  BY <1>8, PurgeGivesBack
<1>9. GivenBack' /\ ArchivedRowsFree'
  BY <1>2, <1>3, <1>4, <1>5, <1>6, <1>7, <1>8
  DEF ReconNext, RunStep, ReportStep, Commits, allVars
<1> QED
  BY <1>1, <1>9 DEF FreeInv

(* Before the first run there is nothing to give back.                     *)
LEMMA FreeInitially == ReconInit => FreeInv
<1> SUFFICES ASSUME ReconInit
             PROVE  FreeInv
  OBVIOUS
<1>1. WritingAlone
  BY DEF ReconInit, WritingAlone, Writing, NoMatch
<1>2. GivenBack
  BY DEF ReconInit, GivenBack, GivesBack, NewJob
<1>3. ArchivedRowsFree
  BY DEF ReconInit, ArchivedRowsFree, NoLinks
<1> QED
  BY <1>1, <1>2, <1>3, RowsInitially DEF FreeInv

(* Whatever runs, clearings, matches and purges do to a report at a time:  *)
(* the certificates of its archived rows are free, but for those that were *)
(* linked while the rows were being archived, and for those of rows that   *)
(* the purge of another certificate archived.                              *)
THEOREM ArchivedRowsFreeAlways == ReconSpec => []ArchivedRowsFree
<1>1. FreeInv => ArchivedRowsFree
  BY DEF FreeInv
<1> QED
  BY <1>1, FreeInitially, FreeKeeps, PTL DEF ReconSpec

-----------------------------------------------------------------------------
(* What is collected for a result depends on its links alone.              *)
LEMMA CollectedSame ==
  ASSUME NEW links, NEW new, NEW i,
         \A c \in Certificate : links[c].to = i \/ new[c].to = i => new[c] = links[c]
  PROVE  Collected(new, i) = Collected(links, i)
<1> DEFINE f == [c \in Certificate |-> links[c].amount]
           g == [c \in Certificate |-> new[c].amount]
           S == {c \in Certificate : links[c].to = i}
           T == {c \in Certificate : new[c].to = i}
<1>1. S = T
  OBVIOUS
<1>2. \A c \in S : g[c] = f[c]
  OBVIOUS
<1>3. IsFiniteSet(S)
  <2>1. S \subseteq Certificate
    OBVIOUS
  <2> HIDE DEF S
  <2> QED
    BY <2>1, ReconciliationAssumption, FS_Subset
<1>4. SumFunctionOnSet(g, S) = SumFunctionOnSet(f, S)
  <2> HIDE DEF f, g, S
  <2> QED
    BY <1>2, <1>3, SumSame
<1> QED
  BY <1>1, <1>4 DEF Collected

(* A new link adds its amount to what is collected for its result.         *)
LEMMA CollectedAdd ==
  ASSUME NEW links \in [Certificate -> Target], NEW new \in [Certificate -> Target],
         NEW i, NEW d \in Certificate,
         links[d].to # i, new[d].to = i, \A c \in Certificate \ {d} : new[c] = links[c]
  PROVE  Collected(new, i) = Collected(links, i) + new[d].amount
<1> DEFINE f == [c \in Certificate |-> links[c].amount]
           g == [c \in Certificate |-> new[c].amount]
           S == {c \in Certificate : links[c].to = i}
           T == {c \in Certificate : new[c].to = i}
<1>1. T = S \cup {d} /\ d \notin S
  OBVIOUS
<1>2. \A c \in S : g[c] = f[c]
  OBVIOUS
<1>3. IsFiniteSet(S)
  <2>1. S \subseteq Certificate
    OBVIOUS
  <2> HIDE DEF S
  <2> QED
    BY <2>1, ReconciliationAssumption, FS_Subset
<1>4. SumFunctionOnSet(g, S) = SumFunctionOnSet(f, S)
  <2> HIDE DEF f, g, S
  <2> QED
    BY <1>2, <1>3, SumSame
<1>5. g[d] = new[d].amount /\ \A c \in Certificate : g[c] \in Nat
  BY DEF Target, Unlinked
<1>6. S \subseteq Certificate
  OBVIOUS
<1>7. SumFunctionOnSet(g, S \cup {d}) = SumFunctionOnSet(g, S) + g[d]
  <2> HIDE DEF f, g, S
  <2> QED
    BY <1>1, <1>3, <1>5, <1>6, SumAdd
<1>8. Collected(new, i) = SumFunctionOnSet(g, T) /\ Collected(links, i) = SumFunctionOnSet(f, S)
  BY DEF Collected
<1> HIDE DEF f, g, S, T
<1> QED
  BY <1>1, <1>4, <1>5, <1>7, <1>8

(* What a match has read of a live row is still linked to it, and only     *)
(* another match that wrote it too makes it less than what the row says.   *)
ReadLinked ==
  /\ \A a \in Actor : match[a] # NoMatch /\ Live(match[a].to) /\ match[a].to \notin orphaned =>
       match[a].seen <= Collected(link, match[a].to)
  /\ \A a \in Writing : match[a].to \notin overwritten =>
       match[a].seen = result[match[a].to].recorded

LinkedInv == FreeInv /\ ReadLinked /\ RecordedIsLinked

(* A step that leaves what live rows record and what they collect.         *)
LEMMA ReadLinkedStays ==
  ASSUME LinkedInv, WritingAlone', UNCHANGED <<match, overwritten>>, orphaned \subseteq orphaned',
         \A i \in Result : There(i) /\ result'[i].state = "live" =>
           /\ Live(i) /\ result'[i].recorded = result[i].recorded
           /\ i \notin orphaned' => Collected(link', i) = Collected(link, i)
  PROVE  /\ ReadLinked'
         /\ \A i \in Result \ orphaned' : There(i) /\ result'[i].state = "live" =>
              /\ result'[i].recorded <= Collected(link', i)
              /\ i \notin overwritten => result'[i].recorded = Collected(link', i)
<1>1. \A a \in Actor : match[a] # NoMatch => match[a].to \in Result /\ There(match[a].to)
  BY DEF LinkedInv, FreeInv, RowsInv, TInv, MatchTypes, MatchRecord, ResultsThere
<1>2. \A a \in Writing : match[a] # NoMatch
  BY WritingHas DEF Writing, LinkedInv, FreeInv, RowsInv
<1>3. \A a \in Actor :
        match'[a] # NoMatch /\ result'[match'[a].to].state = "live" /\ match'[a].to \notin orphaned' =>
          match'[a].seen <= Collected(link', match'[a].to)
  BY <1>1 DEF LinkedInv, ReadLinked
<1>4. ASSUME NEW a \in Actor, match'[a].at = "written", match'[a].to \notin overwritten'
      PROVE  match'[a].seen = result'[match'[a].to].recorded
  <2>1. a \in Writing /\ match[a] # NoMatch /\ result'[match[a].to].state = "live"
    BY <1>2, <1>4 DEF Writing, WritingAlone, Live
  <2> QED
    BY <1>1, <1>4, <2>1 DEF LinkedInv, ReadLinked
<1>5. ReadLinked'
  BY <1>3, <1>4 DEF ReadLinked, Writing, Live
<1>6. \A i \in Result \ orphaned' : There(i) /\ result'[i].state = "live" =>
              /\ result'[i].recorded <= Collected(link', i)
              /\ i \notin overwritten => result'[i].recorded = Collected(link', i)
  BY DEF LinkedInv, RecordedIsLinked
<1> QED
  BY <1>5, <1>6

(* A commit takes no link from a row that stays, and links new rows by its *)
(* plan.                                                                   *)
LEMMA CommitKeepsLinked ==
  ASSUME LinkedInv, FreeInv', NEW j \in Job, Commits(j)
  PROVE  ReadLinked' /\ RecordedIsLinked'
<1>1. RowsInv /\ TInv /\ GivesBack(j)
  BY DEF LinkedInv, FreeInv, GivenBack, RowsInv
<1>2. /\ UNCHANGED <<match, overwritten, orphaned>> /\ job[j].at = "clearing"
      /\ \A i \in Result : There(i) =>
              /\ i \in job[j].results => result'[i].state = "archived"
              /\ i \notin job[j].results => result'[i] = result[i]
      /\ \A i \in Result : ~There(i) =>
              result'[i] = result[i] \/ (i[1] = j /\ ReportOf[i[2]] = ReportOfJob(j))
      /\ \A c \in Certificate : Planned(j, c) =>
           /\ link'[c] = job[j].plan[c] /\ (Released(j, c) \/ link[c] = Unlinked)
           /\ ~There(job[j].plan[c].to)
      /\ \A c \in Certificate : ~Planned(j, c) =>
           IF Released(j, c) THEN link'[c] = Unlinked ELSE link'[c] = link[c]
  BY <1>1, CommitLeaves DEF purgeVars
<1>3. \A i \in Result : Unlinked.to # i
  BY ReconciliationAssumption DEF Unlinked
<1>4. \A c \in Certificate : link[c].to \in Result => There(link[c].to)
  BY <1>1, <1>3 DEF RowsInv, ResultsThere
<1>5. ASSUME NEW i \in Result, There(i), result'[i].state = "live"
      PROVE  Live(i) /\ Collected(link', i) = Collected(link, i) /\ result'[i] = result[i]
  <2>1. i \notin job[j].results /\ result'[i] = result[i] /\ Live(i)
    BY <1>2, <1>5 DEF Live
  <2>2. ASSUME NEW c \in Certificate, link[c].to = i
        PROVE  link'[c] = link[c]
    <3>1. ~Released(j, c)
      BY <1>1, <1>2, <2>1, <2>2 DEF GivesBack, Released
    <3>2. link[c] # Unlinked
      BY <1>3, <2>2
    <3> QED
      BY <1>2, <3>1, <3>2
  <2>3. ASSUME NEW c \in Certificate, link'[c].to = i
        PROVE  link'[c] = link[c]
    BY <1>2, <1>3, <1>5, <2>3
  <2>4. Collected(link', i) = Collected(link, i)
    BY <2>2, <2>3, CollectedSame
  <2> QED
    BY <2>1, <2>4
<1>6. ASSUME NEW i \in Result, ~There(i), result'[i].state = "live"
      PROVE  result'[i].recorded = Collected(link', i)
  <2>1. i[1] = j /\ ReportOf[i[2]] = ReportOfJob(j)
    BY <1>2, <1>6 DEF There
  <2>2. j \in Run /\ CommitRun(j)
    BY <2>1, ReconciliationAssumption DEF Commits, Result
  <2>3. result'[i] = [state |-> "live", recorded |-> Collected(job[j].plan, i)]
    BY <1>1, <2>1, <2>2, RunCommits
  <2>4. result'[i].recorded = Collected(job[j].plan, i)
    BY <2>3
  <2>5. ASSUME NEW c \in Certificate, job[j].plan[c].to = i
        PROVE  link'[c] = job[j].plan[c]
    BY <1>2, <1>3, <2>2, <2>5 DEF Planned
  <2>6. ASSUME NEW c \in Certificate, link'[c].to = i
        PROVE  link'[c] = job[j].plan[c]
    <3>1. Planned(j, c)
      BY <1>2, <1>3, <1>4, <1>6, <2>6
    <3> QED
      BY <1>2, <3>1
  <2>7. Collected(link', i) = Collected(job[j].plan, i)
    BY <2>5, <2>6, CollectedSame
  <2> QED
    BY <2>4, <2>7
<1>7. \A i \in Result : There(i) /\ result'[i].state = "live" =>
           /\ Live(i) /\ Collected(link', i) = Collected(link, i)
           /\ result'[i].recorded = result[i].recorded
  BY <1>5
<1>8. /\ ReadLinked'
      /\ \A i \in Result \ orphaned' : There(i) /\ result'[i].state = "live" =>
              /\ result'[i].recorded <= Collected(link', i)
              /\ i \notin overwritten => result'[i].recorded = Collected(link', i)
  BY <1>2, <1>7, ReadLinkedStays DEF FreeInv
<1>9. \A i \in Result : result'[i].state = "live" => result'[i].recorded \in Nat
  BY DEF FreeInv, RowsInv, TInv, RowTypes, ResultRecord
<1>10. ASSUME NEW i \in Result \ orphaned', result'[i].state = "live"
       PROVE  /\ result'[i].recorded <= Collected(link', i)
              /\ i \notin overwritten' => result'[i].recorded = Collected(link', i)
  BY <1>2, <1>6, <1>8, <1>9, <1>10
<1> QED
  BY <1>8, <1>10 DEF RecordedIsLinked, Live

(* A match that commits links what it adds to the row.                     *)
LEMMA MatchKeepsLinked ==
  ASSUME LinkedInv, FreeInv', NEW a \in Actor, MatchStep(a) \/ ActorStops(a)
  PROVE  ReadLinked' /\ RecordedIsLinked'
<1>1. TInv /\ RowsInv /\ WritingAlone
  BY DEF LinkedInv, FreeInv, RowsInv
<1>2. /\ \A i \in Result : /\ result'[i].state = result[i].state
                           /\ ~(CommitMatch(a) /\ i = match[a].to) => result'[i] = result[i]
      /\ \A b \in Actor \ {a} : match'[b] = match[b]
      /\ orphaned' = orphaned
  BY <1>1, MatchLeaves DEF purgeVars
<1>3. /\ match \in [Actor -> {NoMatch} \cup MatchRecord] /\ NoMatch.at = "none"
      /\ \A b \in Actor : match[b].at = "written" => match[b] # NoMatch
      /\ \A b \in Actor : match[b] # NoMatch =>
           match[b].to \in Result /\ match[b].seen \in Nat
  BY <1>1 DEF TInv, MatchTypes, NoMatch, MatchRecord
<1>4. /\ link \in [Certificate -> Target] /\ result \in [Result -> ResultRecord]
      /\ link' \in [Certificate -> Target]
      /\ \A i \in Result : Unlinked.to # i
  BY <1>1, ReconciliationAssumption DEF TInv, RowTypes, Unlinked, FreeInv, RowsInv
<1>5. CASE UNCHANGED <<result, link>> /\ overwritten' = overwritten
           /\ (match'[a] = NoMatch \/ match'[a] = match[a])
  <2>1. \A b \in Actor : match'[b] # NoMatch => match'[b] = match[b]
    BY <1>2, <1>5
  <2> QED
    BY <1>2, <1>3, <1>5, <2>1 DEF LinkedInv, ReadLinked, RecordedIsLinked, Live, Writing
<1>6. CASE ChooseRow(a)
  <2>1. PICK i \in Best(actor[a].content) :
          match' = [match EXCEPT ![a] = [NoMatch EXCEPT !.at = "chosen", !.to = i,
                                                        !.seen = result[i].recorded]]
    BY <1>6 DEF ChooseRow
  <2>2. i \in Result /\ Live(i)
    BY <2>1 DEF Best
  <2>3. match'[a].at = "chosen" /\ match'[a].to = i /\ match'[a].seen = result[i].recorded
    BY <1>3, <2>1 DEF NoMatch
  <2>4. UNCHANGED <<result, link, overwritten>>
    BY <1>6 DEF ChooseRow, ghostVars
  <2>5. i \notin orphaned => result[i].recorded <= Collected(link, i)
    BY <2>2 DEF LinkedInv, RecordedIsLinked
  <2> QED
    BY <1>2, <2>3, <2>4, <2>5 DEF LinkedInv, ReadLinked, RecordedIsLinked, Live, Writing
<1>7. CASE WriteMatch(a)
  <2>1. /\ UNCHANGED <<result, link>> /\ match[a].at = "chosen"
        /\ overwritten' = overwritten \cup
             {k \in {match[a].to} : result[k].recorded # match[a].seen}
    BY <1>7 DEF WriteMatch
  <2>2. match[a] \in MatchRecord /\ match[a] # NoMatch
    BY <1>1, <2>1, WritingHas
  <2>3. match'[a].to = match[a].to /\ match'[a].seen = match[a].seen
    BY <1>3, <1>7, <2>2 DEF WriteMatch, MatchRecord
  <2>4. \A b \in Actor : match'[b] # NoMatch =>
          match[b] # NoMatch /\ match'[b].to = match[b].to /\ match'[b].seen = match[b].seen
    BY <1>2, <2>2, <2>3
  <2>5. \A b \in Actor :
          match'[b] # NoMatch /\ result'[match'[b].to].state = "live"
              /\ match'[b].to \notin orphaned' =>
            match'[b].seen <= Collected(link', match'[b].to)
    BY <1>2, <2>1, <2>4 DEF LinkedInv, ReadLinked, Live
  <2>6. ASSUME NEW b \in Actor, match'[b].at = "written", match'[b].to \notin overwritten'
        PROVE  match'[b].seen = result'[match'[b].to].recorded
    <3>1. CASE b = a
      BY <2>1, <2>3, <2>6, <3>1
    <3>2. CASE b # a
      <4>1. b \in Writing /\ match'[b] = match[b]
        BY <1>2, <2>6, <3>2 DEF Writing
      <4> QED
        BY <2>1, <2>6, <4>1 DEF LinkedInv, ReadLinked
    <3> QED
      BY <3>1, <3>2
  <2>7. RecordedIsLinked'
    BY <1>2, <2>1 DEF LinkedInv, RecordedIsLinked, Live
  <2> QED
    BY <2>5, <2>6, <2>7 DEF ReadLinked, Live, Writing
<1>8. CASE MatchArchivedRow(a) \/ CommitMatch(a)
  <2> DEFINE d == actor[a].cert
             t == match[a].to
             n == Amount[actor[a].content]
  <2>1. /\ link' = Linked(a) /\ match' = [match EXCEPT ![a] = NoMatch]
        /\ match[a].at # "none" /\ UNCHANGED overwritten
    BY <1>8 DEF MatchArchivedRow, CommitMatch
  <2>2. /\ match[a] # NoMatch /\ match[a] \in MatchRecord
        /\ d \in Certificate /\ n \in Nat /\ t \in Result
    BY <1>1, <2>1, WritingHas DEF MatchRecord
  <2>3. link[d] = Unlinked
    BY <1>1, <1>8 DEF MatchArchivedRow, Linkable, CommitMatch, WritingAlone, Writing
  <2>4. link'[d] = [to |-> t, amount |-> n] /\ \A c \in Certificate \ {d} : link'[c] = link[c]
    BY <1>4, <2>1, <2>2 DEF Linked
  <2>5. link'[d].to = t /\ link'[d].amount = n
    BY <2>4
  <2> HIDE DEF d, n
  <2>6. ASSUME NEW i \in Result, i # t
        PROVE  Collected(link', i) = Collected(link, i) /\ result'[i] = result[i]
    <3>1. \A c \in Certificate : link[c].to = i \/ link'[c].to = i => link'[c] = link[c]
      BY <1>4, <2>3, <2>4, <2>5, <2>6
    <3> QED
      BY <1>2, <2>6, <3>1, CollectedSame
  <2>7. Collected(link', t) = Collected(link, t) + n
    <3>1. link[d].to # t
      BY <1>4, <2>2, <2>3
    <3> HIDE DEF t
    <3> QED
      BY <1>4, <2>2, <2>4, <2>5, <3>1, CollectedAdd
  <2>8. \A i \in Result : Collected(link, i) \in Nat /\ Collected(link', i) \in Nat
    BY <1>4, CollectedNat
  <2>9. \A b \in Actor : match'[b] # NoMatch => b # a /\ match'[b] = match[b]
    BY <1>2, <1>3, <2>1
  <2>10. ASSUME NEW b \in Actor, match'[b] # NoMatch, result'[match'[b].to].state = "live",
                match'[b].to \notin orphaned'
         PROVE  match'[b].seen <= Collected(link', match'[b].to)
    <3>1. /\ b # a /\ match'[b] = match[b] /\ match[b].to \in Result /\ match[b].seen \in Nat
          /\ Live(match[b].to)
      BY <1>2, <1>3, <2>9, <2>10 DEF Live
    <3>2. match[b].seen <= Collected(link, match[b].to)
      BY <1>2, <2>9, <2>10, <3>1 DEF LinkedInv, ReadLinked
    <3>3. CASE match[b].to = t
      <4>1. Collected(link, t) <= Collected(link', t)
        BY <2>2, <2>7, <2>8
      <4> QED
        BY <2>2, <2>8, <3>1, <3>2, <3>3, <4>1
    <3>4. CASE match[b].to # t
      BY <2>6, <3>1, <3>2, <3>4
    <3> QED
      BY <3>3, <3>4
  <2>11. ASSUME NEW b \in Actor, match'[b].at = "written", match'[b].to \notin overwritten'
         PROVE  match'[b].seen = result'[match'[b].to].recorded
    <3>1. b # a /\ match'[b] = match[b] /\ b \in Writing /\ match[b].to \in Result
      BY <1>2, <1>3, <2>1, <2>11 DEF Writing
    <3>2. ~(CommitMatch(a) /\ match[b].to = t)
      BY <1>1, <3>1 DEF CommitMatch, WritingAlone, Writing
    <3> QED
      BY <1>2, <2>1, <2>11, <3>1, <3>2 DEF LinkedInv, ReadLinked
  <2>12. ASSUME NEW i \in Result \ orphaned', result'[i].state = "live"
         PROVE  /\ result'[i].recorded <= Collected(link', i)
                /\ i \notin overwritten' => result'[i].recorded = Collected(link', i)
    <3>1. Live(i) /\ result[i].recorded <= Collected(link, i)
          /\ (i \notin overwritten => result[i].recorded = Collected(link, i))
      BY <1>2, <2>12 DEF Live, LinkedInv, RecordedIsLinked
    <3>2. CASE i # t
      BY <2>1, <2>6, <3>1, <3>2
    <3>3. CASE i = t
      <4>1. CommitMatch(a)
        BY <1>8, <3>1, <3>3 DEF MatchArchivedRow
      <4>2. result'[t].recorded = match[a].seen + n
        <5>1. result' = [result EXCEPT ![t].recorded = Recorded(a)]
          BY <4>1 DEF CommitMatch, AfterMatch
        <5>2. result'[t].recorded = Recorded(a)
          BY <1>4, <2>2, <5>1 DEF ResultRecord
        <5> QED
          BY <5>2 DEF Recorded, n
      <4>3. match[a].seen <= Collected(link, t) /\ match[a].seen \in Nat
        <5>1. t \notin orphaned /\ match[a] # NoMatch /\ match[a].seen \in Nat
          BY <1>2, <2>2, <3>3 DEF MatchRecord
        <5> QED
          BY <3>1, <3>3, <5>1 DEF LinkedInv, ReadLinked
      <4>4. t \notin overwritten => match[a].seen = result[t].recorded
        BY <4>1 DEF CommitMatch, Writing, LinkedInv, ReadLinked
      <4> HIDE DEF t
      <4> QED
        BY <2>1, <2>2, <2>7, <2>8, <3>1, <3>3, <4>2, <4>3, <4>4
    <3> QED
      BY <3>2, <3>3
  <2>13. ReadLinked'
    BY <2>10, <2>11 DEF ReadLinked, Live, Writing
  <2>14. RecordedIsLinked'
    BY <2>12 DEF RecordedIsLinked, Live
  <2> QED
    BY <2>13, <2>14
<1>9. SkipMatch(a) \/ AbortMatch(a) \/ ActorStops(a) =>
        /\ UNCHANGED <<result, link>> /\ overwritten' = overwritten
        /\ match'[a] = NoMatch \/ match'[a] = match[a]
  BY <1>3 DEF SkipMatch, AbortMatch, ActorStops, reconVars, ghostVars
<1> QED
  BY <1>5, <1>6, <1>7, <1>8, <1>9 DEF MatchStep

(* Every step keeps what rows record linked to them.                       *)
LEMMA LinkedKeeps == LinkedInv /\ [ReconNext]_allVars => LinkedInv'
<1> SUFFICES ASSUME LinkedInv, [ReconNext]_allVars
             PROVE  LinkedInv'
  OBVIOUS
<1>1. FreeInv'
  BY FreeKeeps DEF LinkedInv
<1>2. ASSUME UNCHANGED <<result, link, match, overwritten, orphaned>>
      PROVE  ReadLinked' /\ RecordedIsLinked'
  BY <1>2 DEF LinkedInv, ReadLinked, RecordedIsLinked, Live, Writing
<1>3. ASSUME NEW a \in Actor, MatchStep(a) \/ ActorStops(a)
      PROVE  ReadLinked' /\ RecordedIsLinked'
  BY <1>1, <1>3, MatchKeepsLinked
<1>4. ASSUME NEW r \in Run, (\E p \in Report : CheckRun(r, p)) \/ InsertRun(r)
      PROVE  UNCHANGED <<result, link, match, overwritten, orphaned>>
  BY <1>4 DEF CheckRun, InsertRun, ghostVars, purgeVars
<1>5. ASSUME NEW j \in Job,
             \/ j \in Run /\ (PlanRun(j) \/ UnlinkForRun(j) \/ RunFails(j))
             \/ j \in Report /\ (UnlinkForReport(j) \/ ReportFails(j))
             \/ Clear(j)
      PROVE  UNCHANGED <<result, link, match, overwritten, orphaned>>
  BY <1>5, JobLeaves DEF LinkedInv, FreeInv, RowsInv, purgeVars
<1>6. ASSUME NEW j \in Job, Commits(j)
      PROVE  ReadLinked' /\ RecordedIsLinked'
  BY <1>1, <1>6, CommitKeepsLinked
<1>7. /\ \A r \in Run : r \in Job
      /\ \A p \in Report : p \in Job
  BY DEF Job
<1>8. ASSUME NEW d \in Deletion, PurgeStep(d)
      PROVE  ReadLinked' /\ RecordedIsLinked'
  <2>1. /\ UNCHANGED <<match, overwritten>> /\ orphaned \subseteq orphaned'
        /\ \A i \in Result : result'[i] = result[i] \/ (Live(i) /\ result'[i].state = "archived")
        /\ \A i \in Result : result'[i].state = "live" /\ i \notin orphaned' =>
             \A c \in Certificate : link[c].to = i => link'[c] = link[c]
        /\ \A c \in Certificate : link'[c] = link[c] \/ link'[c] = Unlinked
    BY <1>8, PurgeLeaves DEF LinkedInv, FreeInv, RowsInv, ghostVars
  <2>2. ASSUME NEW i \in Result, result'[i].state = "live", i \notin orphaned'
        PROVE  Collected(link', i) = Collected(link, i)
    <3>1. Unlinked.to # i
      BY ReconciliationAssumption DEF Unlinked
    <3>2. \A c \in Certificate : link[c].to = i \/ link'[c].to = i => link'[c] = link[c]
      BY <2>1, <2>2, <3>1
    <3> QED
      BY <3>2, CollectedSame
  <2>3. \A i \in Result : result'[i].state = "live" => There(i) /\ result'[i] = result[i] /\ Live(i)
    BY <2>1 DEF There, Live
  <2>4. /\ ReadLinked'
        /\ \A i \in Result \ orphaned' : There(i) /\ result'[i].state = "live" =>
              /\ result'[i].recorded <= Collected(link', i)
              /\ i \notin overwritten => result'[i].recorded = Collected(link', i)
    BY <1>1, <2>1, <2>2, <2>3, ReadLinkedStays DEF FreeInv
  <2> QED
    BY <2>1, <2>3, <2>4 DEF RecordedIsLinked, Live
<1>9. UNCHANGED allVars \/ UNCHANGED reconVars =>
        UNCHANGED <<result, link, match, overwritten, orphaned>>
  BY DEF allVars, reconVars, ghostVars, purgeVars
<1>10. ReadLinked' /\ RecordedIsLinked'
  BY <1>2, <1>3, <1>4, <1>5, <1>6, <1>7, <1>8, <1>9 DEF ReconNext, RunStep, ReportStep, Commits
<1> QED
  BY <1>1, <1>10 DEF LinkedInv

(* Before the first run no row is live.                                    *)
LEMMA LinkedInitially == ReconInit => LinkedInv
<1> SUFFICES ASSUME ReconInit
             PROVE  LinkedInv
  OBVIOUS
<1>1. \A i \in Result : ~Live(i)
  BY DEF ReconInit, Live, NewResult
<1>2. ReadLinked /\ RecordedIsLinked
  BY <1>1 DEF ReconInit, ReadLinked, RecordedIsLinked, Writing, NoMatch
<1> QED
  BY <1>2, FreeInitially DEF LinkedInv

(* A live row says no more than the certificates linked to it certify,     *)
(* unless one was linked while it was being purged, and says less only     *)
(* after two matches have updated it from one read.                        *)
THEOREM RecordedIsLinkedAlways == ReconSpec => []RecordedIsLinked
<1>1. LinkedInv => RecordedIsLinked
  BY DEF LinkedInv
<1> QED
  BY <1>1, LinkedInitially, LinkedKeeps, PTL DEF ReconSpec

-----------------------------------------------------------------------------
(* The count of a run depends on its rows alone.                           *)
LEMMA MatchedCountSame ==
  ASSUME NEW r, NEW results, NEW new, \A w \in Row : new[<<r, w>>] = results[<<r, w>>]
  PROVE  MatchedCount(r, new) = MatchedCount(r, results)
BY DEF MatchedCount

(* What one run's count rests on: one match at most is recounting it, and  *)
(* what that match has counted will be the count once it commits. The      *)
(* count is to be right while no purge has archived a row of the run.      *)
Counted(r) == r \notin overlapped \cup {i[1] : i \in purged} /\ ~run[r].archived

CountsFit(r) ==
  Counted(r) =>
    /\ run[r].status = "completed" => run[r].matched = MatchedCount(r, result)
    /\ \A a \in Writing : match[a].to[1] = r => match[a].count = MatchedCount(r, AfterMatch(a))
    /\ \A a, b \in Writing : match[a].to[1] = r /\ match[b].to[1] = r => a = b

CountInv == FreeInv /\ \A r \in Run : CountsFit(r)

(* A step that leaves the rows of a run, and the matches that write them.  *)
LEMMA CountsStay ==
  ASSUME CountInv, RowTypes', NEW r \in Run,
         Counted(r)' =>
           /\ Counted(r)
           /\ run'[r].status = "completed" =>
                run[r].status = "completed" /\ run'[r].matched = run[r].matched
           /\ \A w \in Row : result'[<<r, w>>] = result[<<r, w>>]
           /\ \A a \in Actor : match'[a].at = "written" /\ match'[a].to[1] = r =>
                match'[a] = match[a] /\ actor'[a].content = actor[a].content
  PROVE  CountsFit(r)'
<1> SUFFICES ASSUME Counted(r)'
             PROVE  /\ run'[r].status = "completed" => run'[r].matched = MatchedCount(r, result')
                    /\ \A a \in Writing' : match'[a].to[1] = r =>
                         match'[a].count = MatchedCount(r, AfterMatch(a)')
                    /\ \A a, b \in Writing' :
                         match'[a].to[1] = r /\ match'[b].to[1] = r => a = b
  BY DEF CountsFit
<1>1. /\ Counted(r)
      /\ run'[r].status = "completed" =>
           run[r].status = "completed" /\ run'[r].matched = run[r].matched
      /\ \A w \in Row : result'[<<r, w>>] = result[<<r, w>>]
      /\ \A a \in Actor : match'[a].at = "written" /\ match'[a].to[1] = r =>
           match'[a] = match[a] /\ actor'[a].content = actor[a].content
  OBVIOUS
<1>2. CountsFit(r)
  BY DEF CountInv
<1>3. MatchedCount(r, result') = MatchedCount(r, result)
  BY <1>1, MatchedCountSame
<1>4. \A a \in Writing' : match'[a].to[1] = r =>
        a \in Writing /\ match'[a] = match[a] /\ actor'[a].content = actor[a].content
  BY <1>1 DEF Writing
<1>5. ASSUME NEW a \in Writing', match'[a].to[1] = r
      PROVE  match'[a].count = MatchedCount(r, AfterMatch(a)')
  <2>1. a \in Writing /\ match'[a] = match[a] /\ Recorded(a)' = Recorded(a)
    BY <1>4, <1>5 DEF Recorded
  <2>2. DOMAIN result = Result /\ DOMAIN result' = Result
    BY DEF CountInv, FreeInv, RowsInv, TInv, RowTypes
  <2>3. \A w \in Row : AfterMatch(a)'[<<r, w>>] = AfterMatch(a)[<<r, w>>]
    <3> TAKE w \in Row
    <3>1. <<r, w>> \in Result
      BY DEF Result
    <3> DEFINE t == match[a].to
               n == Recorded(a)
    <3>2. /\ AfterMatch(a) = [result EXCEPT ![t].recorded = n]
          /\ AfterMatch(a)' = [result' EXCEPT ![t].recorded = n]
      BY <2>1 DEF AfterMatch
    <3>3. result'[<<r, w>>] = result[<<r, w>>]
      BY <1>1
    <3> HIDE DEF t, n
    <3> QED
      BY <2>2, <3>1, <3>2, <3>3
  <2>4. MatchedCount(r, AfterMatch(a)') = MatchedCount(r, AfterMatch(a))
    BY <2>3, MatchedCountSame
  <2> QED
    BY <1>1, <1>2, <1>5, <2>1, <2>4 DEF CountsFit
<1> QED
  BY <1>1, <1>2, <1>3, <1>4, <1>5 DEF CountsFit

(* A run no match is writing rows of, and that has not completed.          *)
LEMMA CountsFitEarly ==
  ASSUME NEW r \in Run, run'[r].status # "completed",
         \A a \in Actor : match'[a].at = "written" => match'[a].to[1] # r
  PROVE  CountsFit(r)'
BY DEF CountsFit, Writing

(* A match that has written is for a row of a completed run.               *)
LEMMA WritesCompleted ==
  ASSUME RowsInv, NEW a \in Writing
  PROVE  /\ match[a] # NoMatch /\ match[a] \in MatchRecord /\ match[a].to \in Result
         /\ match[a].to[1] \in Run /\ run[match[a].to[1]].status = "completed"
<1>1. match[a] # NoMatch /\ match[a] \in MatchRecord
  BY WritingHas DEF RowsInv, Writing
<1>2. match[a].to \in Result /\ There(match[a].to)
  BY <1>1 DEF MatchRecord, RowsInv, ResultsThere, Writing
<1> QED
  BY <1>1, <1>2 DEF RowsInv, RowsFit, Result

(* Matches keep the counts: one that writes counts what it will leave, one *)
(* that commits alone leaves what it has counted.                          *)
LEMMA MatchKeepsCounts ==
  ASSUME CountInv, FreeInv', NEW a \in Actor, MatchStep(a) \/ ActorStops(a), NEW r \in Run
  PROVE  CountsFit(r)'
<1>1. TInv /\ RowsInv /\ RowTypes' /\ CountsFit(r)
  BY DEF CountInv, FreeInv, RowsInv, TInv
<1>2. /\ \A i \in Result : ~(CommitMatch(a) /\ i = match[a].to) => result'[i] = result[i]
      /\ run'[r].status = run[r].status /\ run'[r].archived = run[r].archived
      /\ ~(CommitMatch(a) /\ r = match[a].to[1]) => run'[r] = run[r]
      /\ \A b \in Actor \ {a} : match'[b] = match[b]
  BY <1>1, MatchLeaves
<1>3. /\ match \in [Actor -> {NoMatch} \cup MatchRecord] /\ NoMatch.at = "none"
      /\ \A w \in Row : <<r, w>> \in Result
      /\ overlapped \subseteq overlapped' /\ purged' = purged
  BY <1>1 DEF purgeVars, TInv, MatchTypes, NoMatch, Result, MatchStep, ActorStops, ChooseRow, SkipMatch,
      WriteMatch, AbortMatch, MatchArchivedRow, CommitMatch, reconVars, ghostVars
<1>4. Leave(a) \/ UNCHANGED actor
  BY DEF correctionVars, MatchStep, ActorStops, ChooseRow, SkipMatch, WriteMatch, AbortMatch,
         MatchArchivedRow, CommitMatch
<1>5. ASSUME NEW b \in Actor \ {a}, match'[b].at = "written"
      PROVE  b \in Writing /\ match'[b] = match[b] /\ actor'[b].content = actor[b].content
  <2>1. b \in Writing /\ match'[b] = match[b] /\ match[b] # NoMatch
    BY <1>2, <1>3, <1>5 DEF Writing
  <2> QED
    BY <1>1, <1>4, <2>1, ActorsStay
<1>6. CASE WriteMatch(a)
  <2> DEFINE t == match[a].to
  <2>1. /\ UNCHANGED <<actor, result, run>> /\ match[a].at = "chosen"
        /\ match' = [match EXCEPT ![a].at = "written",
                                  ![a].count = MatchedCount(t[1], AfterMatch(a))]
        /\ overlapped' = overlapped \cup ({match[b].to[1] : b \in Writing} \cap {t[1]})
    BY <1>6 DEF WriteMatch, correctionVars
  <2>2. match[a] \in MatchRecord
    BY <1>1, <2>1, WritingHas
  <2>3. /\ match'[a].to = t /\ match'[a].seen = match[a].seen
        /\ match'[a].count = MatchedCount(t[1], AfterMatch(a))
    <3> DEFINE n == MatchedCount(t[1], AfterMatch(a))
    <3>1. match' = [match EXCEPT ![a].at = "written", ![a].count = n]
      BY <2>1
    <3> HIDE DEF n
    <3>2. match'[a].to = t /\ match'[a].seen = match[a].seen /\ match'[a].count = n
      BY <1>3, <2>2, <3>1 DEF MatchRecord
    <3> QED
      BY <3>2 DEF n
  <2>4. CASE r # t[1]
    <3>1. \A b \in Actor : match'[b].at = "written" /\ match'[b].to[1] = r =>
            match'[b] = match[b] /\ actor'[b].content = actor[b].content
      BY <1>5, <2>3, <2>4
    <3> QED
      BY <1>1, <1>3, <2>1, <3>1, CountsStay DEF Counted
  <2>5. CASE r = t[1]
    <3> SUFFICES ASSUME Counted(r)'
                 PROVE  CountsFit(r)'
      BY DEF CountsFit
    <3>1. (\A b \in Writing : match[b].to[1] # r) /\ Counted(r)
      BY <1>3, <2>1, <2>5 DEF Counted
    <3>2. \A b \in Writing' : match'[b].to[1] = r => b = a
      BY <1>5, <3>1 DEF Writing
    <3>3. AfterMatch(a)' = AfterMatch(a)
      BY <2>1, <2>3 DEF AfterMatch, Recorded
    <3>4. match'[a].count = MatchedCount(r, AfterMatch(a)')
      BY <2>3, <2>5, <3>3
    <3>5. run'[r].status = "completed" => run'[r].matched = MatchedCount(r, result')
      BY <1>1, <2>1, <3>1 DEF CountsFit
    <3> QED
      BY <3>2, <3>4, <3>5 DEF CountsFit
  <2> QED
    BY <2>4, <2>5
<1>7. CASE CommitMatch(a)
  <2> DEFINE t == match[a].to
             n == match[a].count
  <2>1. /\ a \in Writing /\ UNCHANGED overlapped /\ result' = AfterMatch(a)
        /\ run' = [run EXCEPT ![t[1]].matched = n]
        /\ match' = [match EXCEPT ![a] = NoMatch]
    BY <1>7 DEF CommitMatch, Writing
  <2>2. match'[a].at # "written" /\ t \in Result /\ t[1] \in Run
    BY <1>1, <1>3, <2>1, WritesCompleted
  <2>3. CASE r # t[1]
    <3>1. \A w \in Row : result'[<<r, w>>] = result[<<r, w>>]
      BY <1>2, <1>3, <2>3
    <3>2. run'[r] = run[r]
      BY <1>2, <2>3
    <3>3. \A b \in Actor : match'[b].at = "written" /\ match'[b].to[1] = r =>
            match'[b] = match[b] /\ actor'[b].content = actor[b].content
      BY <1>5, <2>2
    <3> QED
      BY <1>1, <1>3, <2>1, <3>1, <3>2, <3>3, CountsStay DEF Counted
  <2>4. CASE r = t[1]
    <3> SUFFICES ASSUME Counted(r)'
                 PROVE  CountsFit(r)'
      BY DEF CountsFit
    <3>1. Counted(r)
      BY <1>2, <1>3, <2>1 DEF Counted
    <3>2. /\ n = MatchedCount(r, result')
          /\ \A b \in Writing : match[b].to[1] = r => b = a
      BY <1>1, <2>1, <2>4, <3>1 DEF CountsFit
    <3>3. run'[r].matched = n
      <4>1. run[r] \in RunRecord /\ DOMAIN run = Run
        BY <1>1 DEF TInv, RowTypes
      <4> HIDE DEF n
      <4> QED
        BY <2>1, <2>4, <4>1 DEF RunRecord
    <3>4. \A b \in Writing' : match'[b].to[1] # r
      BY <1>5, <2>2, <3>2 DEF Writing
    <3> QED
      BY <3>2, <3>3, <3>4 DEF CountsFit
  <2> QED
    BY <2>3, <2>4
<1>8. CASE ~WriteMatch(a) /\ ~CommitMatch(a)
  <2>1. match'[a].at # "written"
    <3>1. CASE ChooseRow(a)
      <4>1. PICK i : match' = [match EXCEPT ![a] = [NoMatch EXCEPT !.at = "chosen", !.to = i,
                                                        !.seen = result[i].recorded]]
        BY <3>1 DEF ChooseRow
      <4> QED
        BY <1>3, <4>1 DEF NoMatch
    <3>2. CASE match' = [match EXCEPT ![a] = NoMatch]
      BY <1>3, <3>2
    <3>3. CASE SkipMatch(a)
      BY <1>3, <3>3 DEF SkipMatch, reconVars
    <3> QED
      BY <1>8, <3>1, <3>2, <3>3 DEF MatchStep, ActorStops, AbortMatch, MatchArchivedRow
  <2>2. \A b \in Actor : match'[b].at = "written" /\ match'[b].to[1] = r =>
            match'[b] = match[b] /\ actor'[b].content = actor[b].content
    BY <1>5, <2>1
  <2> QED
    BY <1>1, <1>2, <1>3, <1>8, <2>2, CountsStay DEF Counted
<1> QED
  BY <1>6, <1>7, <1>8

(* A run counts its rows as it commits; a run whose rows are archived is   *)
(* archived with them.                                                     *)
LEMMA CommitKeepsCounts ==
  ASSUME CountInv, FreeInv', NEW j \in Job, Commits(j), NEW r \in Run
  PROVE  CountsFit(r)'
<1>1. TInv /\ RowsInv /\ RowTypes' /\ JobsFit
  BY DEF CountInv, FreeInv, RowsInv, TInv
<1>2. /\ job[j].at = "clearing" /\ UNCHANGED <<actor, match, overlapped, purged>>
      /\ RunsLeft(j, run')
      /\ \A i \in Result : There(i) /\ i \notin job[j].results => result'[i] = result[i]
      /\ \A i \in Result : ~There(i) => result'[i] = result[i] \/ i[1] = j
  BY <1>1, CommitLeaves DEF correctionVars, purgeVars
<1>3. CASE r = j
  <2>1. CommitRun(r)
    BY <1>3, ReconciliationAssumption DEF Commits
  <2>2. run'[r].matched = MatchedCount(r, result')
    BY <1>1, <2>1, RunCommits
  <2>3. run[r].status # "completed"
    BY <1>1, <1>2, <1>3 DEF JobsFit
  <2>4. \A a \in Writing : match[a].to[1] # r
    BY <1>1, <2>3, WritesCompleted
  <2> QED
    BY <1>2, <2>2, <2>4 DEF CountsFit, Writing
<1>4. CASE r # j
  <2>1. /\ run'[r].status = run[r].status /\ run'[r].matched = run[r].matched
        /\ run[r].archived => run'[r].archived
        /\ r \in job[j].runs => run'[r].archived
    BY <1>2, <1>4 DEF RunsLeft
  <2>2. ASSUME ~run'[r].archived, NEW w \in Row
        PROVE  result'[<<r, w>>] = result[<<r, w>>]
    <3>1. <<r, w>> \in Result
      BY DEF Result
    <3>2. <<r, w>> \notin job[j].results
      BY <1>1, <2>1, <2>2 DEF JobsFit
    <3> QED
      BY <1>2, <1>4, <3>1, <3>2
  <2> QED
    BY <1>1, <1>2, <2>1, <2>2, CountsStay DEF Counted
<1> QED
  BY <1>3, <1>4

(* Every step keeps the counts of every run.                               *)
LEMMA CountsKeep == CountInv /\ [ReconNext]_allVars => CountInv'
<1> SUFFICES ASSUME CountInv, [ReconNext]_allVars
             PROVE  CountInv'
  OBVIOUS
<1>1. FreeInv' /\ RowTypes' /\ FreeInv /\ TInv /\ RowsInv
  BY FreeKeeps DEF CountInv, FreeInv, RowsInv, TInv
<1> SUFFICES ASSUME NEW r \in Run
             PROVE  CountsFit(r)'
  BY <1>1 DEF CountInv
<1>2. ASSUME UNCHANGED <<run, result, match, overlapped, purged>>,
             UNCHANGED actor \/ CorrectionStep
      PROVE  CountsFit(r)'
  <2>1. \A a \in Actor : match'[a].at = "written" => actor'[a].content = actor[a].content
    BY <1>1, <1>2, ActorsStay, WritingHas
  <2> QED
    BY <1>1, <1>2, <2>1, CountsStay DEF Counted
<1>3. ASSUME NEW a \in Actor, MatchStep(a) \/ ActorStops(a)
      PROVE  CountsFit(r)'
  BY <1>1, <1>3, MatchKeepsCounts
<1>4. ASSUME NEW s \in Run, (\E p \in Report : CheckRun(s, p)) \/ InsertRun(s)
      PROVE  CountsFit(r)'
  <2>1. /\ UNCHANGED <<actor, result, match, overlapped, purged>>
        /\ \A q \in Run \ {s} : run'[q] = run[q]
        /\ run[s].status = "none" /\ run'[s].status # "completed"
    BY <1>1, <1>4, StartLeaves DEF RowsInv, correctionVars, purgeVars
  <2>2. CASE r = s
    <3>1. \A a \in Writing : match[a].to[1] # r
      BY <1>1, <2>1, <2>2, WritesCompleted
    <3> QED
      BY <2>1, <2>2, <3>1, CountsFitEarly DEF Writing
  <2>3. CASE r # s
    BY <1>1, <2>1, <2>3, CountsStay DEF Counted
  <2> QED
    BY <2>2, <2>3
<1>5. ASSUME NEW j \in Job,
             \/ j \in Run /\ (PlanRun(j) \/ UnlinkForRun(j) \/ RunFails(j))
             \/ j \in Report /\ (UnlinkForReport(j) \/ ReportFails(j))
             \/ Clear(j)
      PROVE  CountsFit(r)'
  BY <1>1, <1>2, <1>5, JobLeaves DEF correctionVars, purgeVars
<1>6. ASSUME NEW j \in Job, Commits(j)
      PROVE  CountsFit(r)'
  BY <1>1, <1>6, CommitKeepsCounts
<1>7. /\ \A s \in Run : s \in Job
      /\ \A p \in Report : p \in Job
  BY DEF Job
<1>8. ASSUME NEW d \in Deletion, PurgeStep(d)
      PROVE  CountsFit(r)'
  <2>1. /\ UNCHANGED <<actor, run, match, overlapped>> /\ purged \subseteq purged'
        /\ \A i \in Result : result'[i] = result[i] \/ i \in purged'
    BY <1>1, <1>8, PurgeLeaves DEF ghostVars
  <2>2. ASSUME Counted(r)'
        PROVE  Counted(r) /\ \A w \in Row : result'[<<r, w>>] = result[<<r, w>>]
    <3>1. \A i \in purged' : i[1] # r
      BY <2>2 DEF Counted
    <3>2. \A w \in Row : <<r, w>> \in Result /\ <<r, w>>[1] = r
      BY DEF Result
    <3> QED
      BY <2>1, <2>2, <3>1, <3>2 DEF Counted
  <2> QED
    BY <1>1, <2>1, <2>2, CountsStay
<1>9. UNCHANGED allVars \/ UNCHANGED reconVars => UNCHANGED <<run, result, match, overlapped, purged>>
  BY DEF allVars, reconVars, ghostVars, purgeVars
<1>10. UNCHANGED allVars => UNCHANGED actor
  BY DEF allVars, correctionVars
<1> QED
  BY <1>2, <1>3, <1>4, <1>5, <1>6, <1>7, <1>8, <1>9, <1>10
  DEF ReconNext, RunStep, ReportStep, Commits

(* Before the first run there is nothing to count.                         *)
LEMMA CountsInitially == ReconInit => CountInv
<1> SUFFICES ASSUME ReconInit
             PROVE  CountInv
  OBVIOUS
<1>1. ASSUME NEW r \in Run
      PROVE  CountsFit(r)
  BY DEF ReconInit, CountsFit, Writing, NewRun, NoMatch
<1> QED
  BY <1>1, FreeInitially DEF CountInv

(* The count of matched rows that an active run shows is that of its rows, *)
(* unless two matches have recounted the run at a time, or a purge has     *)
(* archived a row of it.                                                   *)
THEOREM SummaryCountsAlways == ReconSpec => []SummaryCounts
<1>1. CountInv => SummaryCounts
  BY DEF CountInv, CountsFit, Counted, SummaryCounts
<1> QED
  BY <1>1, CountsInitially, CountsKeep, PTL DEF ReconSpec
=============================================================================
