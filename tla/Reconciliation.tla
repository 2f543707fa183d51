--------------------------- MODULE Reconciliation ---------------------------
(***************************************************************************)
(* Sales reports are reconciled with the certificates of upload batches:   *)
(* whole runs (webapp/tax-track/src/lib/sales-report-server.ts,            *)
(* reconciliation-progressive-server.ts), and single certificates matched  *)
(* with the rows of active runs when the worker or a correction accepts    *)
(* them (worker/src/db/reconciliationAutoMatch.ts). The purge of a file,   *)
(* or of the batch, archives the rows its certificates are collected for   *)
(* (backend/infra/lambda/batch-retention.ts).                              *)
(*                                                                         *)
(* The database runs at READ COMMITTED: every statement sees what others   *)
(* have committed so far, only writes of the same row wait for each other. *)
(* One batch holds all certificates, and all are of one payor and month.   *)
(***************************************************************************)
EXTENDS Corrections, Integers, Functions

CONSTANTS
  Report,        \* sales reports
  Row,           \* rows of their workbooks
  ReportOf,      \* ReportOf[w]: the report of row w
  Due,           \* Due[w]: the amount the row claims
  Amount,        \* Amount[x]: the amount contents x certify
  Run,           \* reconciliation runs, each started by a request of its own
  NoReport, NoResult

(* A run's result for a row (reconciliation_results).                      *)
Result == Run \X Row
RowsOf(p) == {w \in Row : ReportOf[w] = p}

ASSUME ReconciliationAssumption ==
  /\ IsFiniteSet(Certificate) /\ IsFiniteSet(Row)
  /\ ReportOf \in [Row -> Report] /\ NoReport \notin Report /\ Run \cap Report = {}
  /\ Due \in [Row -> Nat \ {0}] /\ Amount \in [Content -> Nat]
  /\ NoResult \notin Result

VARIABLES
  deleted,       \* reports deleted
  run,           \* run[r]: sales_report_runs
  result,        \* result[i]: reconciliation_results
  link,          \* link[c]: the result c is collected for, if not archived
  job,           \* job[j]: how far a run, or the clearing of a report, is
  match,         \* match[a]: how far the match of actor a is
  purge,         \* purge[d]: how far the purge of d is, and the rows it archives
  overwritten,   \* results two matches have updated from one read (for properties)
  overlapped,    \* runs two matches have recounted at a time (for properties)
  stranded,      \* certificates linked while their report was archived (same)
  purged,        \* live results a purge has archived (same)
  orphaned       \* results whose certificates a purge deleted unseen (same)

purgeVars == <<purge, purged, orphaned>>
ghostVars == <<overwritten, overlapped, stranded>>
reconVars == <<deleted, run, result, link, job, match, ghostVars, purgeVars>>
allVars == <<correctionVars, reconVars>>

Job == Run \cup Report
NewRun == [status |-> "none", report |-> NoReport, archived |-> FALSE, matched |-> 0]
NewResult == [state |-> "none", recorded |-> 0]
Unlinked == [to |-> NoResult, amount |-> 0]
NoLinks == [c \in Certificate |-> Unlinked]
NewJob == [at |-> "new", links |-> {}, results |-> {}, runs |-> {}, plan |-> NoLinks]
NoMatch == [at |-> "none", to |-> NoResult, seen |-> 0, count |-> 0]
NoPurge == [at |-> "none", rows |-> {}]

ReconInit ==
  /\ CorrectionsInit
  /\ deleted = {}
  /\ run = [r \in Run |-> NewRun]
  /\ result = [i \in Result |-> NewResult]
  /\ link = NoLinks
  /\ job = [j \in Job |-> NewJob]
  /\ match = [a \in Actor |-> NoMatch]
  /\ purge = [d \in Deletion |-> NoPurge]
  /\ overwritten = {} /\ overlapped = {} /\ stranded = {} /\ purged = {} /\ orphaned = {}

-----------------------------------------------------------------------------
Live(i) == result[i].state = "live"
LiveOf(p) == {i \in Result : ReportOf[i[2]] = p /\ Live(i)}
Active(r) == run[r].status # "none" /\ ~run[r].archived

(* The amounts that links, or planned links, collect for a result.         *)
Collected(links, i) ==
  SumFunctionOnSet([c \in Certificate |-> links[c].amount],
                   {c \in Certificate : links[c].to = i})

Distance(w, recorded) ==
  IF recorded > Due[w] THEN recorded - Due[w] ELSE Due[w] - recorded

(* How much nearer to its claim an amount brings a row (improvement).      *)
Gain(w, recorded, amount) ==
  Distance(w, recorded) - Distance(w, recorded + amount)

(* Rows that say "matched": they have collections and no difference.       *)
MatchedCount(r, results) ==
  Cardinality({w \in Row : results[<<r, w>>] = [state |-> "live", recorded |-> Due[w]]})

(* The transactions that are archiving the results of report p.            *)
ReportOfJob(j) == IF j \in Report THEN j ELSE run[j].report
Archiving(p) == {j \in Job : ReportOfJob(j) = p /\ job[j].at \in {"unlinking", "clearing"}}

-----------------------------------------------------------------------------
(***************************************************************************)
(* The match of one certificate.                                           *)
(***************************************************************************)
(* Rows of active runs that the certificate brings nearer to their claim,  *)
(* the nearest; exact references and row order only break ties.            *)
Best(x) ==
  LET gain(i) == Gain(i[2], result[i].recorded, Amount[x])
      open == {i \in Result : Live(i) /\ Active(i[1]) /\ gain(i) > 0}
  IN {i \in open : \A k \in open : gain(k) <= gain(i)}

ChooseRow(a) ==
  /\ actor[a].at = "matching" /\ match[a] = NoMatch
  /\ link[actor[a].cert] = Unlinked
  /\ \E i \in Best(actor[a].content) :
       match' = [match EXCEPT ![a] = [NoMatch EXCEPT !.at = "chosen", !.to = i,
                                                     !.seen = result[i].recorded]]
  /\ UNCHANGED <<correctionVars, deleted, run, result, link, job, ghostVars, purgeVars>>

(* The certificate is linked already, or brings no row nearer.             *)
SkipMatch(a) ==
  /\ actor[a].at = "matching" /\ match[a] = NoMatch
  /\ link[actor[a].cert] # Unlinked \/ Best(actor[a].content) = {}
  /\ Leave(a)
  /\ UNCHANGED reconVars

(* Two transactions may not write the same row or link the same            *)
(* certificate at a time: the second waits for the first to end.           *)
Writing == {b \in Actor : match[b].at = "written"}

MayWrite(a) ==
  /\ \A b \in Writing : match[b].to # match[a].to /\ actor[b].cert # actor[a].cert
  /\ \A j \in Job : match[a].to \notin job[j].results
  /\ \A d \in Deletion : match[a].to \notin purge[d].rows

(* Its certificate can be linked: nobody has linked it, and it is there.   *)
Linkable(c) == link[c] = Unlinked /\ cert[c] # Gone

(* What the row says after it: the amount read, plus this certificate's.   *)
Recorded(a) == match[a].seen + Amount[actor[a].content]

AfterMatch(a) ==
  [result EXCEPT ![match[a].to].recorded = Recorded(a)]

(* Mutant: the run is recounted before its row is updated.                 *)
RecountAndWrite(a) ==
  LET i == match[a].to
      r == i[1]
  IN /\ match[a].at = "chosen" /\ MayWrite(a)
     /\ Linkable(actor[a].cert) /\ Live(i)
     /\ match' = [match EXCEPT ![a].at = "written", ![a].count = MatchedCount(r, result)]
     /\ overwritten' = overwritten \cup {k \in {i} : result[k].recorded # match[a].seen}
     /\ overlapped' = overlapped \cup ({match[b].to[1] : b \in Writing} \cap {r})
     /\ UNCHANGED <<correctionVars, deleted, run, result, link, job, stranded, purgeVars>>

(* Links and updates the row, and recounts the run, seeing of the others   *)
(* only what they have committed.                                          *)
WriteMatch(a) ==
  LET i == match[a].to
      r == i[1]
  IN /\ match[a].at = "chosen" /\ MayWrite(a)
     /\ Linkable(actor[a].cert) /\ Live(i)
     /\ match' = [match EXCEPT ![a].at = "written", ![a].count = MatchedCount(r, AfterMatch(a))]
     /\ overwritten' = overwritten \cup {k \in {i} : result[k].recorded # match[a].seen}
     /\ overlapped' = overlapped \cup ({match[b].to[1] : b \in Writing} \cap {r})
     /\ UNCHANGED <<correctionVars, deleted, run, result, link, job, stranded, purgeVars>>

(* Somebody has linked the certificate since, or purged it: the unique     *)
(* index or the foreign key refuses the link and the transaction aborts.   *)
AbortMatch(a) ==
  /\ match[a].at = "chosen" /\ MayWrite(a) /\ ~Linkable(actor[a].cert)
  /\ match' = [match EXCEPT ![a] = NoMatch]
  /\ Leave(a)
  /\ UNCHANGED <<deleted, run, result, link, job, ghostVars, purgeVars>>

Linked(a) ==
  [link EXCEPT ![actor[a].cert] = [to |-> match[a].to, amount |-> Amount[actor[a].content]]]

(* The row has been archived since: it is not updated, and the link stays. *)
MatchArchivedRow(a) ==
  /\ match[a].at = "chosen" /\ MayWrite(a)
  /\ Linkable(actor[a].cert) /\ ~Live(match[a].to)
  /\ link' = Linked(a)
  /\ stranded' = stranded \cup {actor[a].cert}
  /\ match' = [match EXCEPT ![a] = NoMatch]
  /\ Leave(a)
  /\ UNCHANGED <<deleted, run, result, job, overwritten, overlapped, purgeVars>>

CommitMatch(a) ==
  /\ match[a].at = "written"
  /\ link' = Linked(a)
  /\ result' = AfterMatch(a)
  /\ run' = [run EXCEPT ![match[a].to[1]].matched = match[a].count]
  /\ match' = [match EXCEPT ![a] = NoMatch]
  /\ stranded' = IF Archiving(ReportOf[match[a].to[2]]) # {}
                   THEN stranded \cup {actor[a].cert} ELSE stranded
  /\ Leave(a)
  /\ UNCHANGED <<deleted, job, overwritten, overlapped, purgeVars>>

(* Mutant: the transaction of a process that stops is not undone.          *)
ActorStopsOnly(a) == Leave(a) /\ UNCHANGED reconVars

(* The worker, or the web server, stops: what it has not committed is gone. *)
ActorStops(a) ==
  /\ match' = [match EXCEPT ![a] = NoMatch]
  /\ Leave(a)
  /\ UNCHANGED <<deleted, run, result, link, job, ghostVars, purgeVars>>

-----------------------------------------------------------------------------
(***************************************************************************)
(* A run, and the clearing of a report.                                    *)
(***************************************************************************)
(* The report is there, its batch has results and is not reconciled in     *)
(* another report.                                                         *)
CheckRun(r, p) ==
  /\ job[r].at = "new" /\ p \notin deleted
  /\ \E c \in Certificate : cert[c].status = "accepted"
  /\ \A s \in Run : Active(s) => run[s].report = p
  /\ job' = [job EXCEPT ![r].at = "checked"]
  /\ run' = [run EXCEPT ![r].report = p]
  /\ UNCHANGED <<correctionVars, deleted, result, link, match, ghostVars, purgeVars>>

InsertRun(r) ==
  /\ job[r].at = "checked"
  /\ job' = [job EXCEPT ![r].at = "inserted"]
  /\ run' = [run EXCEPT ![r].status = "started"]
  /\ UNCHANGED <<correctionVars, deleted, result, link, match, ghostVars, purgeVars>>

(* Accepted certificates, but for those a live row of another report has.  *)
Candidates(p) ==
  {c \in Certificate : /\ cert[c].status = "accepted"
                       /\ link[c].to \in {i \in Result : Live(i)} => link[c].to \in LiveOf(p)}

(* Adds to a plan the candidate and row that gain the most, if any gains.  *)
Extended(r, plan) ==
  LET gain(c, w) == Gain(w, Collected(plan, <<r, w>>), Amount[cert[c].content])
      free == {c \in Candidates(run[r].report) : plan[c] = Unlinked}
      open == {o \in free \X RowsOf(run[r].report) : gain(o[1], o[2]) > 0}
      best == {o \in open : \A k \in open : gain(k[1], k[2]) <= gain(o[1], o[2])}
  IN IF open = {} THEN {plan}
     ELSE {[plan EXCEPT ![o[1]] = [to |-> <<r, o[2]>>, amount |-> Amount[cert[o[1]].content]]]
             : o \in best}

(* buildProgressiveReconciliationAssignments, ties broken either way.      *)
Plans(r) ==
  LET after[n \in 0..Cardinality(Certificate)] ==
        IF n = 0 THEN {NoLinks} ELSE UNION {Extended(r, plan) : plan \in after[n - 1]}
  IN after[Cardinality(Certificate)]

PlanRun(r) ==
  /\ job[r].at = "inserted"
  /\ \E plan \in Plans(r) : job' = [job EXCEPT ![r].at = "planned", ![r].plan = plan]
  /\ UNCHANGED <<correctionVars, deleted, run, result, link, match, ghostVars, purgeVars>>

(* Mutant: only the links to rows that still differ are archived.          *)
LinksOfDiffering(p) ==
  {<<c, link[c].to>> : c \in {d \in Certificate :
     link[d].to \in {i \in LiveOf(p) : result[i].recorded # Due[i[2]]}}}

(* The first statements of the transaction: the links to the report's live *)
(* results are archived.                                                   *)
LinksOf(p) == {<<c, link[c].to>> : c \in {d \in Certificate : link[d].to \in LiveOf(p)}}

UnlinkForRun(r) ==
  /\ job[r].at = "planned"
  /\ job' = [job EXCEPT ![r].at = "unlinking", ![r].links = LinksOf(run[r].report)]
  /\ UNCHANGED <<correctionVars, deleted, run, result, link, match, ghostVars, purgeVars>>

(* The report is deleted, has a new version of its workbook, or its last   *)
(* batch is removed: all its results and runs are archived.                *)
UnlinkForReport(p) ==
  /\ job[p].at = "new" /\ p \notin deleted
  /\ job' = [job EXCEPT ![p].at = "unlinking", ![p].links = LinksOf(p)]
  /\ UNCHANGED <<correctionVars, deleted, run, result, link, match, ghostVars, purgeVars>>

(* No match is writing one of these rows and no purge has archived one.    *)
Unheld(rows) ==
  /\ \A a \in Writing : match[a].to \notin rows
  /\ \A d \in Deletion : rows \cap purge[d].rows = {}

(* The other runs of the report that are there by now.                     *)
Started(j) ==
  {r \in Run \ {j} : run[r].report = ReportOfJob(j) /\ run[r].status # "none"}

(* Mutant: rows that have no difference left are not archived.             *)
ClearDiffering(j) ==
  LET rows == {i \in LiveOf(ReportOfJob(j)) : result[i].recorded # Due[i[2]]}
  IN /\ job[j].at = "unlinking" /\ Unheld(rows)
     /\ job' = [job EXCEPT ![j].at = "clearing", ![j].results = rows, ![j].runs = Started(j)]
     /\ UNCHANGED <<correctionVars, deleted, run, result, link, match, ghostVars, purgeVars>>

(* The results live by now are archived; that waits for matches that are   *)
(* writing one of them and for purges, and they will wait for it.          *)
Clear(j) ==
  LET rows == LiveOf(ReportOfJob(j))
  IN /\ job[j].at = "unlinking" /\ Unheld(rows)
     /\ job' = [job EXCEPT ![j].at = "clearing", ![j].results = rows, ![j].runs = Started(j)]
     /\ UNCHANGED <<correctionVars, deleted, run, result, link, match, ghostVars, purgeVars>>

Released(j, c) == <<c, link[c].to>> \in job[j].links

(* What the database shows when the transaction of j has committed.        *)
Archived(j) ==
  [i \in Result |-> IF i \in job[j].results THEN [result[i] EXCEPT !.state = "archived"]
                                            ELSE result[i]]

(* Mutant: only runs that have not ended are archived.                     *)
WithStartedArchived(j) ==
  {[r \in Run |-> IF r \in Started(j) /\ run[r].status = "started"
                    THEN [run[r] EXCEPT !.archived = TRUE] ELSE run[r]]}

(* A later statement archives the runs: those there when the results were, *)
(* and of those inserted since the ones it still sees.                     *)
WithRunsArchived(j) ==
  {[r \in Run |-> IF r \in job[j].runs \cup seen
                    THEN [run[r] EXCEPT !.archived = TRUE] ELSE run[r]]
     : seen \in SUBSET Started(j)}

(* The unique index accepts the new links: each certificate is there and   *)
(* free, or released here. A match that is linking one is waited for.      *)
CommitRun(r) ==
  LET p == run[r].report
      plan == job[r].plan
      planned == {c \in Certificate : plan[c] # Unlinked}
      released == {c \in Certificate : Released(r, c)}
      results == [i \in Result |-> IF i[1] = r /\ ReportOf[i[2]] = p
                                     THEN [state |-> "live", recorded |-> Collected(plan, i)]
                                     ELSE Archived(r)[i]]
  IN /\ job[r].at = "clearing"
     /\ \A a \in Writing : actor[a].cert \notin planned
     /\ \A c \in planned : (c \in released \/ link[c] = Unlinked) /\ cert[c] # Gone
     /\ link' = [c \in Certificate |-> IF c \in planned THEN plan[c]
                                        ELSE IF c \in released THEN Unlinked ELSE link[c]]
     /\ result' = results
     /\ \E runs \in WithRunsArchived(r) :
          run' = [runs EXCEPT ![r].status = "completed", ![r].matched = MatchedCount(r, results)]
     /\ stranded' = (stranded \ released)
                       \cup (IF Archiving(p) = {r} THEN {} ELSE planned)
     /\ job' = [job EXCEPT ![r] = [NewJob EXCEPT !.at = "ended"]]
     /\ UNCHANGED <<correctionVars, deleted, match, overwritten, overlapped, purgeVars>>

(* Of what clears a report, only its deletion shows afterwards.            *)
CommitReport(p) ==
  /\ job[p].at = "clearing"
  /\ link' = [c \in Certificate |-> IF Released(p, c) THEN Unlinked ELSE link[c]]
  /\ result' = Archived(p)
  /\ run' \in WithRunsArchived(p)
  /\ deleted' \in {deleted, deleted \cup {p}}
  /\ stranded' = stranded \ {c \in Certificate : Released(p, c)}
  /\ job' = [job EXCEPT ![p] = NewJob]
  /\ UNCHANGED <<correctionVars, match, overwritten, overlapped, purgeVars>>

(* A statement fails, the unique index refuses a link, or the process      *)
(* stops: the transaction is undone. The run is then failed or, if the     *)
(* process has stopped, running for ever, which nothing tells apart here.  *)
RunFails(r) ==
  /\ job[r].at \in {"inserted", "planned", "unlinking", "clearing"}
  /\ job' = [job EXCEPT ![r] = [NewJob EXCEPT !.at = "ended"]]
  /\ UNCHANGED <<correctionVars, deleted, run, result, link, match, ghostVars, purgeVars>>

ReportFails(p) ==
  /\ job[p].at \in {"unlinking", "clearing"}
  /\ job' = [job EXCEPT ![p] = NewJob]
  /\ UNCHANGED <<correctionVars, deleted, run, result, link, match, ghostVars, purgeVars>>

-----------------------------------------------------------------------------
(***************************************************************************)
(* The purge of a file, or of the batch.                                   *)
(***************************************************************************)
(* The rows that certificates of d are collected for are archived, those   *)
(* of an active run too; that waits for whoever writes one of them.        *)
ArchiveMatched(d) ==
  LET rows == {link[c].to : c \in {e \in d : link[e] # Unlinked}}
  IN /\ purge[d] = NoPurge /\ \E c \in d : cert[c] # Gone
     /\ Unheld(rows) /\ \A j \in Job : rows \cap job[j].results = {}
     /\ purge' = [purge EXCEPT ![d] = [at |-> "archiving", rows |-> rows]]
     /\ UNCHANGED <<correctionVars, deleted, run, result, link, job, match, ghostVars,
                    purged, orphaned>>

(* The certificates are deleted and what they are collected for with them, *)
(* when no match or clearing has it in hand. What other certificates are   *)
(* collected for stays, and no run is recounted.                           *)
CommitPurge(d) ==
  LET rows == {i \in purge[d].rows : Live(i)}
      unseen == {link[c].to : c \in d} \ purge[d].rows
  IN /\ purge[d].at = "archiving"
     /\ \A a \in Writing : actor[a].cert \notin d
     /\ \A j \in Job, c \in d : ~Released(j, c)
     /\ DeleteCertificates(d)
     /\ link' = [c \in Certificate |-> IF c \in d THEN Unlinked ELSE link[c]]
     /\ result' = [i \in Result |-> IF i \in rows THEN [result[i] EXCEPT !.state = "archived"]
                                                   ELSE result[i]]
     /\ purged' = purged \cup rows
     /\ orphaned' = orphaned \cup {i \in unseen \ {NoResult} : Live(i)}
     /\ purge' = [purge EXCEPT ![d] = NoPurge]
     /\ UNCHANGED <<deleted, run, job, match, ghostVars>>

(* A statement fails, or it and a run wait for each other: it is undone,   *)
(* and the purge will be tried again.                                      *)
UndoPurge(d) ==
  /\ purge[d].at = "archiving"
  /\ purge' = [purge EXCEPT ![d] = NoPurge]
  /\ UNCHANGED <<correctionVars, deleted, run, result, link, job, match, ghostVars,
                 purged, orphaned>>

-----------------------------------------------------------------------------
MatchStep(a) ==
  \/ ChooseRow(a) \/ SkipMatch(a) \/ WriteMatch(a) \/ AbortMatch(a)
  \/ MatchArchivedRow(a) \/ CommitMatch(a)

RunStep(r) ==
  \/ \E p \in Report : CheckRun(r, p)
  \/ InsertRun(r) \/ PlanRun(r) \/ UnlinkForRun(r) \/ Clear(r) \/ CommitRun(r) \/ RunFails(r)

ReportStep(p) ==
  \/ UnlinkForReport(p) \/ Clear(p) \/ CommitReport(p) \/ ReportFails(p)

PurgeStep(d) == ArchiveMatched(d) \/ CommitPurge(d) \/ UndoPurge(d)

ReconNext ==
  \/ CorrectionStep /\ UNCHANGED reconVars
  \/ \E a \in Actor : MatchStep(a) \/ ActorStops(a)
  \/ \E r \in Run : RunStep(r)
  \/ \E p \in Report : ReportStep(p)
  \/ \E d \in Deletion : PurgeStep(d)

ReconSpec == ReconInit /\ [][ReconNext]_allVars

-----------------------------------------------------------------------------
ReconcileTypeOK ==
  /\ CorrectionsTypeOK
  /\ deleted \subseteq Report
  /\ run \in [Run -> [status : {"none", "started", "completed"},
                      report : Report \cup {NoReport}, archived : BOOLEAN, matched : Nat]]
  /\ result \in [Result -> [state : {"none", "live", "archived"}, recorded : Nat]]
  /\ link \in [Certificate -> [to : Result \cup {NoResult}, amount : Nat]]
  /\ job \in [Job -> [at : {"new", "checked", "inserted", "planned", "unlinking", "clearing",
                            "ended"},
                      links : SUBSET (Certificate \X Result),
                      results : SUBSET Result, runs : SUBSET Run,
                      plan : [Certificate -> [to : Result \cup {NoResult}, amount : Nat]]]]
  /\ match \in [Actor -> [at : {"none", "chosen", "written"}, to : Result \cup {NoResult},
                          seen : Nat, count : Nat]]
  /\ \A a \in Actor : match[a] # NoMatch => actor[a].at = "matching"
  /\ purge \in [Deletion -> [at : {"none", "archiving"}, rows : SUBSET Result]]
  /\ overwritten \subseteq Result /\ overlapped \subseteq Run /\ stranded \subseteq Certificate
  /\ purged \subseteq Result /\ orphaned \subseteq Result

(* However runs, clearings, purges and failures interleave, a report has   *)
(* one completed run that is not archived at most, and of that run every   *)
(* row is live that no purge has archived: the report's page never shows   *)
(* two runs, or a part of one that something else has taken from it.       *)
OneActiveRun ==
  \A r \in Run : run[r].status = "completed" /\ ~run[r].archived =>
    /\ \A w \in Row : ReportOf[w] = run[r].report => Live(<<r, w>>) \/ <<r, w>> \in purged
    /\ \A s \in Run \ {r} : run[s].report = run[r].report =>
         ~(run[s].status = "completed" /\ ~run[s].archived)

(* A live row never shows more than the certificates linked to it certify, *)
(* unless one was linked while it was being purged; it shows less only     *)
(* after two matches have updated it from one read.                        *)
RecordedIsLinked ==
  \A i \in Result \ orphaned : Live(i) =>
    /\ result[i].recorded <= Collected(link, i)
    /\ i \notin overwritten => result[i].recorded = Collected(link, i)

(* Archiving a report's rows gives their certificates back, unless one was *)
(* linked while the rows were being archived, or the purge of another      *)
(* certificate archived the row: that link stays, and no run can link the  *)
(* certificate again.                                                      *)
ArchivedRowsFree ==
  \A c \in Certificate \ stranded :
    link[c] # Unlinked => Live(link[c].to) \/ link[c].to \in purged

(* The count of matched rows that an active run shows is that of its rows, *)
(* unless two matches have recounted it at a time, or a purge has archived *)
(* a row of it.                                                            *)
SummaryCounts ==
  \A r \in Run \ (overlapped \cup {i[1] : i \in purged}) :
    run[r].status = "completed" /\ ~run[r].archived =>
      run[r].matched = MatchedCount(r, result)

=============================================================================
