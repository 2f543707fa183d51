------------------------------ MODULE MergeJobs ------------------------------
(***************************************************************************)
(* The merge packages of one entity, one type (quarterly) and their jobs:  *)
(* the assignment of certificates to periods and the creation of a job     *)
(* (webapp/tax-track/src/lib/certificate-merge-server.ts), the merge       *)
(* worker that AWS Batch runs (backend/merge-worker/src/app.ts), and the   *)
(* synchronisation of a job's status when somebody looks at it.            *)
(*                                                                         *)
(* A request is a process: it reads, computes and writes in steps between  *)
(* which others move.                                                      *)
(***************************************************************************)
EXTENDS Naturals, FiniteSets, SequencesExt

CONSTANTS
  Job,           \* merge jobs, each created by a request of its own
  Viewer,        \* requests that look at a job
  Certificate,
  ByPayor,       \* the certificates, sorted by payor name
  Size,          \* Size[c]: the bytes of the signed PDF
  Source,        \* Source[c]: the period the certificate is for, from 1
  PartLimit,     \* MERGE_PART_SIZE_LIMIT_BYTES
  MaxParts,      \* MERGE_MAX_PARTS
  MinInputs,     \* MERGE_MIN_INPUT_FILES
  FirstJob,      \* bound: the one job AWS Batch finds a container for
  Late,          \* bound: the certificates that are not there from the start
  Movable,       \* bound: the certificates a user assigns
  NoJob

(* Jobs make one period each unavailable: beyond them there is a free one. *)
LastPeriod == Max({Source[c] : c \in Certificate}) + Cardinality(Job)
Period == 1..LastPeriod
NoPeriod == 0

ASSUME MergeAssumption ==
  /\ IsFiniteSet(Job) /\ NoJob \notin Job
  /\ ByPayor \in Seq(Certificate) /\ ToSet(ByPayor) = Certificate
  /\ Len(ByPayor) = Cardinality(Certificate)
  /\ PartLimit \in Nat /\ MaxParts \in Nat /\ MinInputs \in Nat \ {0}
  /\ Size \in [Certificate -> 1..PartLimit]
  /\ Source \in [Certificate -> Nat \ {0}] /\ IsFiniteSet(Certificate)
  /\ FirstJob \in Job /\ Late # Certificate
  /\ \A c, d \in Certificate \ Late : Source[c] = Source[d]
  /\ Movable \subseteq Certificate /\ Late \subseteq Certificate

VARIABLES
  job,           \* job[j]: the row, its inputs in order and the parts they go to
  output,        \* output[j]: status of each output part
  known,         \* jobs whose AWS Batch job id is recorded
  accepted,      \* the certificates that have been accepted so far
  assigned,      \* assigned[c]: certificate_merge_assignments
  overridden,    \* certificates a user has assigned (for properties)
  web,           \* web[j]: the request that creates j: how far, and what it read
  aws,           \* aws[j]: what AWS Batch says of the job
  worker,        \* worker[j]: how far the merge worker is
  view           \* view[v]: the job v is looking at, and what it read

rowVars == <<job, output, known>>
assignVars == <<accepted, assigned, overridden>>
mergeVars == <<rowVars, assignVars, web, aws, worker, view>>

NewJob == [status |-> "absent", period |-> NoPeriod, inputs |-> <<>>, part |-> <<>>]
IdleRequest == [at |-> "idle", period |-> NoPeriod, plan |-> <<>>]
IdleView == [on |-> NoJob, saw |-> "none", next |-> "none"]

(* partitionCertificateMergeInputs: inputs fill a part in their order, and *)
(* the next part is begun by the first that does not fit.                  *)

(* Mutant: the size of a part is not reset when the next one is begun.     *)
PlaceWithoutReset(acc, c) ==
  IF acc.used > 0 /\ acc.used + Size[c] > PartLimit
  THEN [part |-> acc.part + 1, used |-> acc.used, at |-> Append(acc.at, acc.part + 1)]
  ELSE [part |-> acc.part, used |-> acc.used + Size[c], at |-> Append(acc.at, acc.part)]

Place(acc, c) ==
  IF acc.used > 0 /\ acc.used + Size[c] > PartLimit
  THEN [part |-> acc.part + 1, used |-> Size[c], at |-> Append(acc.at, acc.part + 1)]
  ELSE [part |-> acc.part, used |-> acc.used + Size[c], at |-> Append(acc.at, acc.part)]

Partition(inputs) ==
  LET after[n \in 0..Len(inputs)] ==
        IF n = 0 THEN [part |-> 1, used |-> 0, at |-> <<>>]
                 ELSE Place(after[n - 1], inputs[n])
  IN after[Len(inputs)]

PendingJob(p, inputs) == [status |-> "pending", period |-> p, inputs |-> inputs,
                          part |-> Partition(inputs).at]

(* The certificates of S, sorted by payor name.                            *)
InOrder(S) ==
  LET upto[n \in 0..Len(ByPayor)] ==
        IF n = 0 THEN <<>>
        ELSE IF ByPayor[n] \in S THEN Append(upto[n - 1], ByPayor[n]) ELSE upto[n - 1]
  IN upto[Len(ByPayor)]

(* One job has been inserted, for the certificates that were there: as     *)
(* many as a package needs, and no more than its parts hold.               *)
OnTime == InOrder(Certificate \ Late)

ASSUME FirstJobAssumption ==
  Len(OnTime) >= MinInputs /\ Partition(OnTime).part <= MaxParts

MergeInit ==
  /\ job = [j \in Job |-> IF j = FirstJob THEN PendingJob(Source[OnTime[1]], OnTime)
                                         ELSE NewJob]
  /\ output = [j \in Job |->
       IF j = FirstJob THEN [p \in 1..Partition(OnTime).part |-> "pending"] ELSE <<>>]
  /\ known = {}
  /\ accepted = Certificate \ Late
  /\ assigned = [c \in Certificate |-> IF c \in Late THEN NoPeriod ELSE Source[c]]
  /\ overridden = {}
  /\ web = [j \in Job |-> [IdleRequest EXCEPT !.at = IF j = FirstJob THEN "inserted" ELSE @]]
  /\ aws = [j \in Job |-> "none"]
  /\ worker = [j \in Job |-> "off"]
  /\ view = [v \in Viewer |-> IdleView]

-----------------------------------------------------------------------------
Blocking == {"pending", "submitted", "running", "succeeded"}
Ended == {"succeeded", "failed"}

Unavailable == {job[j].period : j \in {k \in Job : job[k].status \in Blocking}}

(* resolveQuarterlyAssignment: the first period from its own that is free. *)
FirstFree(c) ==
  CHOOSE p \in Period : /\ p >= Source[c] /\ p \notin Unavailable
                        /\ \A q \in Source[c]..(p - 1) : q \in Unavailable

Unassigned == {c \in accepted : assigned[c] = NoPeriod}

Step(j, at) == web' = [web EXCEPT ![j].at = at]
Finished(j) == web' = [web EXCEPT ![j] = [IdleRequest EXCEPT !.at = "done"]]

(* assertNoExistingMergeJobForPeriod: looked up before the transaction.    *)
CheckPeriod(j, p) ==
  /\ web[j].at = "idle"
  /\ p \notin Unavailable
  /\ web' = [web EXCEPT ![j].at = "checked", ![j].period = p]
  /\ UNCHANGED <<rowVars, assignVars, aws, worker, view>>

(* ensureMissingMergeAssignments: for a job, or to list the options.       *)
ResolveAssignments(j) ==
  /\ web[j].at \in {"idle", "checked"}
  /\ web' = [web EXCEPT ![j].at = "resolved",
       ![j].plan = [c \in Unassigned |-> FirstFree(c)]]
  /\ UNCHANGED <<rowVars, assignVars, aws, worker, view>>

(* Mutant: what is assigned to a period that became unavailable moves on.  *)
ReassignUnavailable(j) ==
  /\ web[j].at = "resolved"
  /\ assigned' = [c \in Certificate |->
       IF c \in DOMAIN web[j].plan /\ assigned[c] = NoPeriod THEN web[j].plan[c]
       ELSE IF assigned[c] \in Unavailable THEN FirstFree(c) ELSE assigned[c]]
  /\ web' = [web EXCEPT ![j].plan = <<>>,
       ![j].at = IF web[j].period = NoPeriod THEN "idle" ELSE "assigned"]
  /\ UNCHANGED <<rowVars, accepted, overridden, aws, worker, view>>

InsertAssignments(j) ==
  /\ web[j].at = "resolved"
  /\ assigned' = [c \in Certificate |->
       IF c \in DOMAIN web[j].plan /\ assigned[c] = NoPeriod THEN web[j].plan[c]
                                                            ELSE assigned[c]]
  /\ web' = [web EXCEPT ![j].plan = <<>>,
       ![j].at = IF web[j].period = NoPeriod THEN "idle" ELSE "assigned"]
  /\ UNCHANGED <<rowVars, accepted, overridden, aws, worker, view>>

AcceptCertificate(c) ==
  /\ c \notin accepted
  /\ accepted' = accepted \union {c}
  /\ UNCHANGED <<rowVars, assigned, overridden, web, aws, worker, view>>

(* overrideCertificateMergeAssignment: a user moves a certificate to a     *)
(* period that was free when the request looked.                           *)
CheckOverride(j, p) ==
  /\ web[j].at = "idle"
  /\ p \notin Unavailable
  /\ web' = [web EXCEPT ![j].at = "overriding", ![j].period = p]
  /\ UNCHANGED <<rowVars, assignVars, aws, worker, view>>

OverrideAssignment(j, c) ==
  /\ web[j].at = "overriding" /\ c \in accepted
  /\ assigned' = [assigned EXCEPT ![c] = web[j].period]
  /\ overridden' = overridden \union {c}
  /\ web' = [web EXCEPT ![j] = IdleRequest]
  /\ UNCHANGED <<rowVars, accepted, aws, worker, view>>

(* The signed certificates of the batches the user selected, in payor      *)
(* order: as many as a package needs, and no more than its parts hold.     *)
SelectCandidates(j) ==
  /\ web[j].at = "assigned"
  /\ \E S \in SUBSET {c \in Certificate : assigned[c] = web[j].period} :
       LET inputs == InOrder(S) IN
       /\ Len(inputs) >= MinInputs
       /\ Partition(inputs).part <= MaxParts
       /\ web' = [web EXCEPT ![j].at = "selected", ![j].plan = inputs]
  /\ UNCHANGED <<rowVars, assignVars, aws, worker, view>>

InsertJob(j) ==
  /\ web[j].at = "selected"
  /\ job' = [job EXCEPT ![j] = PendingJob(web[j].period, web[j].plan)]
  /\ output' = [output EXCEPT ![j] = [p \in 1..Partition(web[j].plan).part |-> "pending"]]
  /\ web' = [web EXCEPT ![j].at = "inserted", ![j].plan = <<>>]
  /\ UNCHANGED <<known, assignVars, aws, worker, view>>

(* AWS Batch may have accepted a job whose submission is reported failed.  *)
SubmitJob(j) ==
  /\ web[j].at = "inserted"
  /\ aws' = [aws EXCEPT ![j] = "submitted"]
  /\ Step(j, "accepted") \/ Step(j, "failing")
  /\ UNCHANGED <<rowVars, assignVars, worker, view>>

SubmitFails(j) ==
  /\ web[j].at = "inserted"
  /\ Step(j, "failing")
  /\ UNCHANGED <<rowVars, assignVars, aws, worker, view>>

(* Whatever the worker has written by then; and what was committed may be  *)
(* reported as failed.                                                     *)
RecordSubmitted(j) ==
  /\ web[j].at = "accepted"
  /\ job' = [job EXCEPT ![j].status = "submitted"]
  /\ known' = known \union {j}
  /\ Finished(j) \/ Step(j, "failing")
  /\ UNCHANGED <<output, assignVars, aws, worker, view>>

RecordingFails(j) ==
  /\ web[j].at = "accepted"
  /\ Step(j, "failing")
  /\ UNCHANGED <<rowVars, assignVars, aws, worker, view>>

(* Mutant: the failure is recorded with a status the schema does not know. *)
RecordError(j) ==
  /\ web[j].at = "failing"
  /\ job' = [job EXCEPT ![j].status = "error"]
  /\ Finished(j)
  /\ UNCHANGED <<output, known, assignVars, aws, worker, view>>

RecordFailure(j) ==
  /\ web[j].at = "failing"
  /\ job' = [job EXCEPT ![j].status = "failed"]
  /\ Finished(j)
  /\ UNCHANGED <<output, known, assignVars, aws, worker, view>>

(* The request is refused, or its server stops.                            *)
RequestStops(j) ==
  /\ web[j].at \notin {"idle", "done"}
  /\ Finished(j)
  /\ UNCHANGED <<rowVars, assignVars, aws, worker, view>>

-----------------------------------------------------------------------------
(* The merge worker, one container per job.                                *)
Work(j, at) == worker' = [worker EXCEPT ![j] = at]

StartContainer(j) ==
  /\ aws[j] = "submitted" /\ j = FirstJob
  /\ aws' = [aws EXCEPT ![j] = "running"]
  /\ Work(j, "started")
  /\ UNCHANGED <<rowVars, assignVars, web, view>>

MarkRunning(j) ==
  /\ worker[j] = "started"
  /\ job' = [job EXCEPT ![j].status = "running"]
  /\ Work(j, "validating")
  /\ UNCHANGED <<output, known, assignVars, web, aws, view>>

(* The inputs are partitioned again, from the rows, in their order.        *)
PersistPartitions(j) ==
  LET parts == Partition(job[j].inputs) IN
  /\ worker[j] = "validating"
  /\ parts.part = Len(output[j])
  /\ job' = [job EXCEPT ![j].part = parts.at]
  /\ Work(j, "merging")
  /\ UNCHANGED <<output, known, assignVars, web, aws, view>>

(* Parts are merged one after another.                                     *)
Current(j) == SelectInSeq(output[j], LAMBDA s : s # "ready")

BeginPart(j) ==
  /\ worker[j] = "merging"
  /\ Current(j) # 0 /\ output[j][Current(j)] = "pending"
  /\ output' = [output EXCEPT ![j][Current(j)] = "processing"]
  /\ UNCHANGED <<job, known, assignVars, web, aws, worker, view>>

FinishPart(j) ==
  /\ worker[j] = "merging"
  /\ Current(j) # 0 /\ output[j][Current(j)] = "processing"
  /\ output' = [output EXCEPT ![j][Current(j)] = "ready"]
  /\ UNCHANGED <<job, known, assignVars, web, aws, worker, view>>

MarkSucceeded(j) ==
  /\ worker[j] = "merging"
  /\ Current(j) = 0
  /\ job' = [job EXCEPT ![j].status = "succeeded"]
  /\ Work(j, "merged") \/ Work(j, "erring")
  /\ UNCHANGED <<output, known, assignVars, web, aws, view>>

WorkerThrows(j) ==
  /\ worker[j] \in {"started", "validating", "merging"}
  /\ Work(j, "erring")
  /\ UNCHANGED <<rowVars, assignVars, web, aws, view>>

(* Mutant: the outputs that are ready are marked as failed with the rest.  *)
MarkAllOutputsFailed(j) ==
  /\ worker[j] = "erring"
  /\ output' \in {output, [output EXCEPT ![j] = [p \in DOMAIN @ |-> "failed"]]}
  /\ Work(j, "failing")
  /\ UNCHANGED <<job, known, assignVars, web, aws, view>>

(* An error of either update is swallowed.                                 *)
MarkOutputsFailed(j) ==
  /\ worker[j] = "erring"
  /\ output' \in {output, [output EXCEPT ![j] =
                    [p \in DOMAIN @ |-> IF @[p] = "ready" THEN "ready" ELSE "failed"]]}
  /\ Work(j, "failing")
  /\ UNCHANGED <<job, known, assignVars, web, aws, view>>

MarkFailed(j) ==
  /\ worker[j] = "failing"
  /\ job' \in {job, [job EXCEPT ![j].status = "failed"]}
  /\ Work(j, "failed")
  /\ UNCHANGED <<output, known, assignVars, web, aws, view>>

ContainerEnds(j) ==
  /\ worker[j] \in {"merged", "failed"}
  /\ aws' = [aws EXCEPT ![j] = IF worker[j] = "merged" THEN "succeeded" ELSE "failed"]
  /\ Work(j, "off")
  /\ UNCHANGED <<rowVars, assignVars, web, view>>

(* Out of memory, out of time, or it never starts; attempts: 1.            *)
ContainerKilled(j) ==
  /\ aws[j] \in {"submitted", "running"}
  /\ aws' = [aws EXCEPT ![j] = "failed"]
  /\ Work(j, "off")
  /\ UNCHANGED <<rowVars, assignVars, web, view>>

-----------------------------------------------------------------------------
(* A viewer reads the row of a job; syncAwsBatchStatus then asks AWS Batch *)
(* and updates the row, whatever has been written since.                   *)
ViewJob(v, j) ==
  /\ view[v].on = NoJob
  /\ j \in known /\ job[j].status \notin Ended
  /\ view' = [view EXCEPT ![v] = [on |-> j, saw |-> job[j].status, next |-> "none"]]
  /\ UNCHANGED <<rowVars, assignVars, web, aws, worker>>

DescribeJob(v) ==
  /\ view[v].on # NoJob /\ view[v].next = "none"
  /\ view' = [view EXCEPT ![v].next = aws[view[v].on]]
  /\ UNCHANGED <<rowVars, assignVars, web, aws, worker>>

(* Mutant: a job that was seen running is left to the worker to end.       *)
SyncedStatusOfWorker(v) ==
  IF view[v].saw = "running" THEN "running" ELSE view[v].next

SyncedStatus(v) ==
  IF view[v].saw = "running" /\ view[v].next = "submitted" THEN "running"
                                                          ELSE view[v].next

SyncStatus(v) ==
  /\ view[v].next # "none"
  /\ job' = [job EXCEPT ![view[v].on].status = SyncedStatus(v)]
  /\ view' = [view EXCEPT ![v] = IdleView]
  /\ UNCHANGED <<output, known, assignVars, web, aws, worker>>

-----------------------------------------------------------------------------
Create(j) ==
  \/ \E p \in Period : CheckPeriod(j, p) \/ CheckOverride(j, p)
  \/ ResolveAssignments(j) \/ InsertAssignments(j)
  \/ \E c \in Movable : OverrideAssignment(j, c)
  \/ SelectCandidates(j) \/ InsertJob(j)
  \/ SubmitJob(j) \/ SubmitFails(j) \/ RecordSubmitted(j) \/ RecordingFails(j)

Merge(j) ==
  \/ StartContainer(j) \/ MarkRunning(j) \/ PersistPartitions(j)
  \/ BeginPart(j) \/ FinishPart(j) \/ MarkSucceeded(j) \/ WorkerThrows(j)
  \/ MarkOutputsFailed(j) \/ MarkFailed(j) \/ ContainerEnds(j) \/ ContainerKilled(j)

MergeNext ==
  \/ \E j \in Job : Create(j) \/ RecordFailure(j) \/ RequestStops(j) \/ Merge(j)
  \/ \E c \in Certificate : AcceptCertificate(c)
  \/ \E v \in Viewer : (\E j \in Job : ViewJob(v, j)) \/ DescribeJob(v) \/ SyncStatus(v)

MergeSpec == MergeInit /\ [][MergeNext]_mergeVars

(* AWS Batch ends every job it has accepted, after six hours at most; a    *)
(* request answers; jobs are looked at again and again.  A look that fails *)
(* changes nothing, and is left out.                                       *)
FairMergeSpec ==
  /\ MergeSpec
  /\ \A j \in Job : /\ WF_mergeVars(Merge(j))
                    /\ WF_mergeVars(RecordFailure(j) \/ RequestStops(j))
                    /\ SF_mergeVars(\E v \in Viewer : ViewJob(v, j))
  /\ \A v \in Viewer : WF_mergeVars(DescribeJob(v) \/ SyncStatus(v))
-----------------------------------------------------------------------------
MergeTypeOK ==
  /\ job \in [Job -> [status : {"absent", "failed"} \union Blocking,
                      period : Period \union {NoPeriod},
                      inputs : Seq(Certificate), part : Seq(1..MaxParts)]]
  /\ output \in [Job -> Seq({"pending", "processing", "ready", "failed"})]
  /\ known \subseteq Job
  /\ accepted \subseteq Certificate
  /\ assigned \in [Certificate -> Period \union {NoPeriod}]
  /\ overridden \subseteq Certificate
  /\ \A j \in Job :
       /\ web[j].at \in {"idle", "checked", "resolved", "assigned", "overriding",
            "selected", "inserted", "accepted", "failing", "done"}
       /\ web[j].period \in Period \union {NoPeriod}
  /\ aws \in [Job -> {"none", "submitted", "running"} \union Ended]
  /\ worker \in [Job -> {"off", "started", "validating", "merging", "merged",
                         "erring", "failing", "failed"}]
  /\ view \in [Viewer ->
       [on : Job \union {NoJob},
        saw : {"none", "submitted", "running"},
        next : {"none", "submitted", "running"} \union Ended]]

(* A job shown as succeeded has every part ready to download, whoever      *)
(* wrote the status: the worker, or a request that asked AWS Batch.        *)
SucceededIsComplete ==
  \A j \in Job : job[j].status = "succeeded" =>
    output[j] # <<>> /\ \A p \in DOMAIN output[j] : output[j][p] = "ready"

SizeOf(inputs, at, p) ==
  SumFunctionOnSet([i \in DOMAIN inputs |-> Size[inputs[i]]],
                   {i \in DOMAIN inputs : at[i] = p})

(* Parts hold the inputs one after another, none exceeds the limit, and    *)
(* the first input of a part did not fit into the one before.              *)
Fits(inputs, at) ==
  /\ Len(at) = Len(inputs)
  /\ inputs # <<>> => at[1] = 1
  /\ \A p \in ToSet(at) : SizeOf(inputs, at, p) <= PartLimit
  /\ \A i \in 2..Len(at) :
       \/ at[i] = at[i - 1]
       \/ /\ at[i] = at[i - 1] + 1
          /\ SizeOf(inputs, at, at[i - 1]) + Size[inputs[i]] > PartLimit

PartitionFits ==
  \A inputs \in BoundedSeq(Certificate, 4) : Fits(inputs, Partition(inputs).at)

(* Any inputs fit the parts they are given, and there is an output for     *)
(* each part: of those that were promised, as of those the worker makes.   *)
PartsFit ==
  /\ PartitionFits
  /\ \A j \in Job : job[j].status # "absent" =>
       /\ Fits(job[j].inputs, job[j].part)
       /\ ToSet(job[j].part) = DOMAIN output[j]

(* A certificate goes into packages of two periods only if a user moved    *)
(* it, or the first job failed: listing options and creating jobs, which   *)
(* assign certificates as they go, never move one.                         *)
MergedInOnePeriod ==
  \A j, k \in {i \in Job : job[i].status \in Blocking} : \A c \in Certificate \ overridden :
    c \in ToSet(job[j].inputs) \intersect ToSet(job[k].inputs) => job[j].period = job[k].period

(* Once AWS Batch's id is recorded the job ends, and stays so, whatever    *)
(* the order in which worker, creator and viewers write its status.        *)
KnownJobEnds ==
  \A j \in Job : j \in known ~> [](job[j].status \in Ended)
=============================================================================
