--------------------------- MODULE BatchLifecycle ---------------------------
(***************************************************************************)
(* The batches and files of one user, from upload to permanent deletion:   *)
(* the requests of the web application (intake-server.ts, deletion-server, *)
(* signing-server.ts, certificate-merge-server.ts under                    *)
(* webapp/tax-track/src/lib) and the purge lambda                          *)
(* (backend/infra/lambda/batch-retention.ts).                              *)
(*                                                                         *)
(* A transaction that locks the rows it decides on is one action.  A       *)
(* request that reads first and writes later is two: what it read is in    *)
(* web[r] and may be out of date.  Each step of the lambda between two     *)
(* statements is an action of its own, since nothing is locked there.      *)
(***************************************************************************)
CONSTANTS
  Batch,       \* intake_batches, by id
  File,        \* intake_files, by id
  NoTarget,    \* neither a batch nor a file
  Request,     \* requests the web application serves at once
  Lambda,      \* invocations of the purge lambda that run at once
  StaleRestore \* whether a restore may be applied over a purge that has begun

ASSUME LifecycleAssumption ==
  /\ Batch \intersect File = {}
  /\ NoTarget \notin Batch \union File
  /\ StaleRestore \in BOOLEAN

VARIABLES
  batch,       \* batch[b]: the row, "gone" once it is deleted for good
  file,        \* file[f]: the row, what protects it, its upload and S3 objects
  purge,       \* purge[t]: purge_status of a batch or file
  event,       \* batches whose invocation the lambda service has accepted
  dispatching, \* targets a request is invoking the lambda for
  web,         \* web[r]: what request r has read, and is about to write
  lambda,      \* lambda[l]: how far invocation l is, and what it collected
  overtaken    \* batches restored over a purge that had begun (for properties)

rowVars == <<batch, file, purge>>
lifecycleVars == <<batch, file, purge, event, dispatching, web, lambda, overtaken>>

Target == Batch \union File
Terminal == {"read", "unread", "removed"}

NewBatch == [state |-> "absent", deleted |-> FALSE, due |-> FALSE]
NewFile == [batch |-> NoTarget, stage |-> "absent",
            signed |-> FALSE, merged |-> FALSE, put |-> "none", stored |-> FALSE]

(* A batch may have been deleted with signed certificates before those     *)
(* were protected; its purge has no status yet.                            *)
LegacyInit ==
  \E b \in Batch, f \in File :
    /\ batch = [c \in Batch |-> IF c # b THEN NewBatch
                 ELSE [state |-> "closed", deleted |-> TRUE, due |-> FALSE]]
    /\ file = [g \in File |-> IF g # f THEN NewFile
                 ELSE [batch |-> b, stage |-> "read", signed |-> TRUE,
                       merged |-> FALSE, put |-> "done", stored |-> TRUE]]

LifecycleInit ==
  /\ \/ batch = [b \in Batch |-> NewBatch] /\ file = [f \in File |-> NewFile]
     \/ LegacyInit
  /\ purge = [t \in Target |-> "none"]
  /\ event = {} /\ dispatching = {}
  /\ web = [r \in Request |-> [at |-> "idle", on |-> NoTarget]]
  /\ lambda = [l \in Lambda |-> [at |-> "idle", on |-> NoTarget, keys |-> {}]]
  /\ overtaken = {}

-----------------------------------------------------------------------------
FilesOf(b) == {f \in File : file[f].batch = b /\ file[f].stage # "gone"}

Exists(t) == IF t \in Batch THEN batch[t].state \notin {"absent", "gone"}
                            ELSE file[t].stage \notin {"absent", "gone"}

(* A certificate is protected once it is signed or an input of a merge.    *)
Protected(f) == file[f].signed \/ file[f].merged

(* What a transaction that has locked the file and its batch insists on.   *)
Available(f) ==
  /\ file[f].stage \notin {"absent", "removed", "gone"}
  /\ purge[f] = "none"
  /\ ~batch[file[f].batch].deleted

(* getBatchDeletionEligibility, getUploadDeletionEligibilityMap.           *)
BatchDeletable(b) ==
  /\ purge[b] \notin {"queued", "running"}
  /\ \A f \in FilesOf(b) : purge[f] = "none" /\ ~Protected(f)

FileDeletable(f) ==
  /\ ~batch[file[f].batch].deleted
  /\ purge[f] \notin {"queued", "running"}
  /\ ~Protected(f)
  /\ file[f].stage \in Terminal

Become(r, at, t) == web' = [web EXCEPT ![r] = [at |-> at, on |-> t]]
Done(r) == Become(r, "idle", NoTarget)
Idle(r) == web[r].at = "idle"

(* Reopening holds the user's advisory lock from its reads to its update.  *)
UserUnlocked == \A r \in Request : web[r].at # "reopening"

-----------------------------------------------------------------------------
(* Uploading into the open batch, which is created when there is none; at  *)
(* most one batch of a user is open, deleted or not, by a unique index.    *)
NoneOpen == \A b \in Batch : batch[b].state # "open"

StartUpload(r, b) ==
  /\ Idle(r) /\ UserUnlocked
  /\ \/ batch[b].state = "open" /\ ~batch[b].deleted /\ UNCHANGED batch
     \/ /\ batch[b].state = "absent" /\ NoneOpen
        /\ batch' = [batch EXCEPT ![b].state = "open"]
  /\ Become(r, "uploading", b)
  /\ UNCHANGED <<file, purge, event, dispatching, lambda, overtaken>>

(* The rows of the files are inserted later, whatever became of the batch; *)
(* if it is gone, the foreign key refuses them.  The browser is given      *)
(* URLs to PUT the documents to.                                           *)
AddFile(r, f) ==
  /\ web[r].at = "uploading"
  /\ IF Exists(web[r].on)
     THEN /\ file[f].stage = "absent"
          /\ file' = [file EXCEPT ![f].batch = web[r].on, ![f].stage = "waiting",
                                  ![f].put = "awaited"]
     ELSE UNCHANGED file
  /\ Done(r)
  /\ UNCHANGED <<batch, purge, event, dispatching, lambda, overtaken>>

(* An invocation that purges f, or its batch, has collected the objects.   *)
Collected(f) ==
  \E l \in Lambda :
    lambda[l].at \in {"collected", "cleared"} /\ lambda[l].on \in {f, file[f].batch}

(* The browser sends the document to S3, which knows of no batch or row.   *)
(* "late" only notes that the objects of the batch had been collected.     *)
PutObject(f) ==
  /\ file[f].put = "awaited"
  /\ file' = [file EXCEPT ![f].stored = TRUE,
              ![f].put = IF file[f].stage = "gone" \/ Collected(f) THEN "late" ELSE "done"]
  /\ UNCHANGED <<batch, purge, event, dispatching, web, lambda, overtaken>>

(* A URL is good for 15 minutes.                                           *)
UrlExpires(f) ==
  /\ file[f].put = "awaited"
  /\ file' = [file EXCEPT ![f].put = "none"]
  /\ UNCHANGED <<batch, purge, event, dispatching, web, lambda, overtaken>>

(* The upload is completed, and the worker reads the document:             *)
(* certificates, or a duplicate or error.                                  *)
ProcessFile(f) ==
  /\ file[f].stage = "waiting" /\ file[f].put \in {"done", "late"}
  /\ Available(f)
  /\ \E s \in {"read", "unread"} :
       /\ s = "read" => file[f].stored
       /\ file' = [file EXCEPT ![f].stage = s]
  /\ UNCHANGED <<batch, purge, event, dispatching, web, lambda, overtaken>>

RetryFile(f) ==
  /\ file[f].stage = "unread"
  /\ Available(f)
  /\ file' = [file EXCEPT ![f].stage = "waiting"]
  /\ UNCHANGED <<batch, purge, event, dispatching, web, lambda, overtaken>>

CheckRemove(r, f) ==
  /\ Idle(r)
  /\ file[f].stage = "unread"
  /\ ~batch[file[f].batch].deleted
  /\ Become(r, "removing", f)
  /\ UNCHANGED <<rowVars, event, dispatching, lambda, overtaken>>

RemoveFile(r) ==
  /\ web[r].at = "removing"
  /\ file' = [file EXCEPT ![web[r].on].stage = IF @ = "gone" THEN "gone" ELSE "removed"]
  /\ Done(r)
  /\ UNCHANGED <<batch, purge, event, dispatching, lambda, overtaken>>

-----------------------------------------------------------------------------
(* Closing, reopening, deleting and restoring a batch.                     *)
CloseBatch(b) ==
  /\ batch[b].state = "open"
  /\ ~batch[b].deleted
  /\ batch' = [batch EXCEPT ![b].state = "closed"]
  /\ UNCHANGED <<file, purge, event, dispatching, web, lambda, overtaken>>

CheckReopen(r, b) ==
  /\ Idle(r) /\ UserUnlocked
  /\ batch[b].state = "closed" /\ ~batch[b].deleted
  /\ \A c \in Batch : batch[c].state = "open" => batch[c].deleted
  /\ Become(r, "reopening", b)
  /\ UNCHANGED <<rowVars, event, dispatching, lambda, overtaken>>

(* The row was not locked: it may have been deleted, or be gone, by now.   *)
ReopenBatch(r) ==
  /\ web[r].at = "reopening"
  /\ IF Exists(web[r].on) /\ NoneOpen
     THEN batch' = [batch EXCEPT ![web[r].on].state = "open"] ELSE UNCHANGED batch
  /\ Done(r)
  /\ UNCHANGED <<file, purge, event, dispatching, lambda, overtaken>>

(* Mutant: the files' own deletions are not looked at.                     *)
DeleteBatchAlone(b) ==
  /\ batch[b].state = "closed" /\ ~batch[b].deleted
  /\ purge[b] \notin {"queued", "running"}
  /\ \A f \in FilesOf(b) : file[f].stage \in Terminal /\ ~Protected(f)
  /\ batch' = [batch EXCEPT ![b].deleted = TRUE, ![b].due = FALSE]
  /\ purge' = [purge EXCEPT ![b] = "scheduled"]
  /\ UNCHANGED <<file, event, dispatching, web, lambda, overtaken>>

(* The transaction locks the batch and its files and checks again.         *)
DeleteBatch(b) ==
  /\ batch[b].state = "closed" /\ ~batch[b].deleted
  /\ \A f \in FilesOf(b) : file[f].stage \in Terminal
  /\ BatchDeletable(b)
  /\ batch' = [batch EXCEPT ![b].deleted = TRUE, ![b].due = FALSE]
  /\ purge' = [purge EXCEPT ![b] = "scheduled"]
  /\ UNCHANGED <<file, event, dispatching, web, lambda, overtaken>>

(* purge_after_at passes, 30 days after the deletion; an upload that began *)
(* before the deletion has ended, and its URLs have expired.               *)
RetentionEnds(b) ==
  /\ batch[b].deleted /\ ~batch[b].due /\ batch[b].state # "gone"
  /\ \A r \in Request : web[r] # [at |-> "uploading", on |-> b]
  /\ \A f \in FilesOf(b) : file[f].put # "awaited"
  /\ batch' = [batch EXCEPT ![b].due = TRUE]
  /\ UNCHANGED <<file, purge, event, dispatching, web, lambda, overtaken>>

(* Mutant: a purge that failed may be restored, whatever it has removed.   *)
RestorableFailed(b) ==
  /\ purge[b] \notin {"queued", "running"}
  /\ batch[b].due => purge[b] \in {"blocked", "failed"}

Restorable(b) ==
  /\ purge[b] \notin {"queued", "running", "failed"}
  /\ batch[b].due => purge[b] = "blocked"

CheckRestore(r, b) ==
  /\ Idle(r)
  /\ batch[b].deleted /\ Exists(b)
  /\ Restorable(b)
  /\ Become(r, "restoring", b)
  /\ UNCHANGED <<rowVars, event, dispatching, lambda, overtaken>>

(* The update finds the batch by its id, whatever has begun meanwhile;     *)
(* StaleRestore says whether it does come that late.                       *)
RestoreBatch(r) ==
  LET b == web[r].on IN
  /\ web[r].at = "restoring"
  /\ Exists(b) /\ ~Restorable(b) => StaleRestore
  /\ IF Exists(b)
     THEN /\ batch' = [batch EXCEPT ![b].deleted = FALSE, ![b].due = FALSE]
          /\ purge' = [purge EXCEPT ![b] = "none"]
          /\ overtaken' = IF Restorable(b) THEN overtaken ELSE overtaken \union {b}
     ELSE UNCHANGED <<batch, purge, overtaken>>
  /\ Done(r)
  /\ UNCHANGED <<file, event, dispatching, lambda>>

-----------------------------------------------------------------------------
(* Asking for permanent deletion: a transaction, then an asynchronous      *)
(* invocation of the lambda, whose failure is recorded.                    *)
QueueBatchPurge(b) ==
  /\ batch[b].deleted /\ Exists(b)
  /\ BatchDeletable(b)
  /\ batch' = [batch EXCEPT ![b].due = TRUE]
  /\ purge' = [purge EXCEPT ![b] = "queued"]
  /\ dispatching' = dispatching \union {b}
  /\ UNCHANGED <<file, event, web, lambda, overtaken>>

QueueUploadPurge(f) ==
  /\ Exists(f)
  /\ FileDeletable(f)
  /\ purge' = [purge EXCEPT ![f] = "queued"]
  /\ dispatching' = dispatching \union {f}
  /\ UNCHANGED <<batch, file, event, web, lambda, overtaken>>

(* The service may have accepted an invocation that is reported as failed, *)
(* and may run one it has accepted more than once.  A file that is queued  *)
(* is taken up by the daily run as well, and needs no event.  A server     *)
(* that stops leaves t where it is.                                        *)
Dispatch(t) ==
  /\ t \in dispatching
  /\ event' = event \union ({t} \intersect Batch)
  /\ dispatching' \in {dispatching, dispatching \ {t}}
  /\ UNCHANGED <<rowVars, web, lambda, overtaken>>

(* Mutant: the failure is recorded with a status the schema does not know. *)
MarkDispatchLost(t) ==
  /\ t \in dispatching
  /\ purge' = [purge EXCEPT ![t] = IF @ = "queued" THEN "lost" ELSE @]
  /\ dispatching' = dispatching \ {t}
  /\ UNCHANGED <<batch, file, event, web, lambda, overtaken>>

(* Mutant: the failure is recorded over whatever the lambda has recorded.  *)
MarkAnyDispatchFailed(t) ==
  /\ t \in dispatching
  /\ purge' = [purge EXCEPT ![t] = "failed"]
  /\ dispatching' = dispatching \ {t}
  /\ UNCHANGED <<batch, file, event, web, lambda, overtaken>>

MarkDispatchFailed(t) ==
  /\ t \in dispatching
  /\ purge' = [purge EXCEPT ![t] = IF @ = "queued" THEN "failed" ELSE @]
  /\ dispatching' = dispatching \ {t}
  /\ UNCHANGED <<batch, file, event, web, lambda, overtaken>>

-----------------------------------------------------------------------------
(* Signing a certificate of the file, and merging it with others.          *)
CheckSign(r, f) ==
  /\ Idle(r)
  /\ file[f].stage = "read"
  /\ Become(r, "signing", f)
  /\ UNCHANGED <<rowVars, event, dispatching, lambda, overtaken>>

(* Mutant: the file is not locked and looked at before it is signed.       *)
SignUnlocked(r) ==
  /\ web[r].at = "signing"
  /\ file' = [file EXCEPT ![web[r].on].signed = TRUE]
  /\ Done(r)
  /\ UNCHANGED <<batch, purge, event, dispatching, lambda, overtaken>>

Sign(r) ==
  /\ web[r].at = "signing"
  /\ Available(web[r].on)
  /\ file' = [file EXCEPT ![web[r].on].signed = TRUE]
  /\ Done(r)
  /\ UNCHANGED <<batch, purge, event, dispatching, lambda, overtaken>>

(* Reading, stamping or storing the PDF fails: the transaction is undone,  *)
(* and the failure recorded afterwards, over any earlier signature.        *)
SignFails(r) ==
  /\ web[r].at = "signing"
  /\ Available(web[r].on)
  /\ Become(r, "unsigning", web[r].on)
  /\ UNCHANGED <<rowVars, event, dispatching, lambda, overtaken>>

PersistFailedSigning(r) ==
  /\ web[r].at = "unsigning"
  /\ file' = [file EXCEPT ![web[r].on].signed = IF Exists(web[r].on) THEN FALSE ELSE @]
  /\ Done(r)
  /\ UNCHANGED <<batch, purge, event, dispatching, lambda, overtaken>>

CheckMerge(r, f) ==
  /\ Idle(r)
  /\ file[f].stage = "read" /\ file[f].signed
  /\ Available(f)
  /\ Become(r, "merging", f)
  /\ UNCHANGED <<rowVars, event, dispatching, lambda, overtaken>>

CreateMerge(r) ==
  /\ web[r].at = "merging"
  /\ Available(web[r].on)
  /\ file' = [file EXCEPT ![web[r].on].merged = TRUE]
  /\ Done(r)
  /\ UNCHANGED <<batch, purge, event, dispatching, lambda, overtaken>>

(* The request is refused by its transaction, or its server stops.         *)
Abandon(r) ==
  /\ ~Idle(r)
  /\ Done(r)
  /\ UNCHANGED <<rowVars, event, dispatching, lambda, overtaken>>

-----------------------------------------------------------------------------
(* The lambda: invoked for one target, or daily for all that are due.      *)
Advance(l, at) == lambda' = [lambda EXCEPT ![l].at = at]
Finish(l) == lambda' = [lambda EXCEPT ![l] = [at |-> "idle", on |-> NoTarget, keys |-> {}]]

(* Mutant: a purge is claimed as often as somebody asks for it.            *)
ClaimableRunning(t) == purge[t] \in {"none", "scheduled", "queued", "failed", "running"}

(* Mutant: a purge whose invocation stopped is not claimed again.          *)
ClaimableOnce(t) ==
  \/ purge[t] \in {"queued", "failed"}
  \/ t \in Batch /\ purge[t] \in {"none", "scheduled"}

(* A claim is good for 15 minutes, an invocation lasts at most 10.         *)
Claimable(t) ==
  \/ purge[t] \in {"queued", "failed"}
  \/ t \in Batch /\ purge[t] \in {"none", "scheduled"}
  \/ purge[t] = "running" /\ \A l \in Lambda : lambda[l].on # t

Due(t) == t \in Batch => batch[t].deleted /\ (t \in event \/ batch[t].due)

ClaimPurge(l, t) ==
  /\ lambda[l].at = "idle"
  /\ Exists(t)
  /\ Due(t)
  /\ Claimable(t)
  /\ purge' = [purge EXCEPT ![t] = "running"]
  /\ lambda' = [lambda EXCEPT ![l] = [at |-> "claimed", on |-> t, keys |-> {}]]
  /\ UNCHANGED <<batch, file, event, dispatching, web, overtaken>>

PurgeProtected(t) ==
  IF t \in Batch THEN \E f \in FilesOf(t) : Protected(f) \/ purge[f] # "none"
                 ELSE Protected(t) \/ batch[file[t].batch].deleted

CheckProtection(l) ==
  /\ lambda[l].at = "claimed"
  /\ Advance(l, IF PurgeProtected(lambda[l].on) THEN "blocking" ELSE "checked")
  /\ UNCHANGED <<rowVars, event, dispatching, web, overtaken>>

Collect(l) ==
  LET t == lambda[l].on IN
  /\ lambda[l].at = "checked"
  /\ lambda' = [lambda EXCEPT ![l].at = "collected",
                              ![l].keys = IF t \in Batch THEN FilesOf(t) ELSE {t}]
  /\ UNCHANGED <<rowVars, event, dispatching, web, overtaken>>

Unstore(S) == file' = [f \in File |->
                IF f \in S THEN [file[f] EXCEPT !.stored = FALSE] ELSE file[f]]

ClearObjects(l) ==
  /\ lambda[l].at = "collected"
  /\ Unstore(lambda[l].keys)
  /\ Advance(l, "cleared")
  /\ UNCHANGED <<batch, purge, event, dispatching, web, overtaken>>

ClearSome(l) ==
  /\ lambda[l].at = "collected"
  /\ \E S \in SUBSET lambda[l].keys : Unstore(S)
  /\ Advance(l, "failing")
  /\ UNCHANGED <<batch, purge, event, dispatching, web, overtaken>>

(* Mutant: the rows go first, and the objects are left to a later run.     *)
PurgeRowsFirst(l) ==
  LET t == lambda[l].on IN
  /\ lambda[l].at \in {"collected", "cleared"}
  /\ file' = [f \in File |->
       IF f = t \/ f \in FilesOf(t) THEN [file[f] EXCEPT !.stage = "gone"] ELSE file[f]]
  /\ batch' = IF t \in Batch THEN [batch EXCEPT ![t].state = "gone"] ELSE batch
  /\ purge' = [u \in Target |->
       IF u = t \/ u \in FilesOf(t) THEN "none" ELSE purge[u]]
  /\ Finish(l)
  /\ UNCHANGED <<event, dispatching, web, overtaken>>

(* One transaction; the files of a batch go with it, collected or not.     *)
(* What it does to reconciliation results is in module Reconciliation.     *)
PurgeRows(l) ==
  LET t == lambda[l].on IN
  /\ lambda[l].at = "cleared"
  /\ file' = [f \in File |->
       IF f = t \/ f \in FilesOf(t) THEN [file[f] EXCEPT !.stage = "gone"] ELSE file[f]]
  /\ batch' = IF t \in Batch THEN [batch EXCEPT ![t].state = "gone"] ELSE batch
  /\ purge' = [u \in Target |->
       IF u = t \/ u \in FilesOf(t) THEN "none" ELSE purge[u]]
  /\ Finish(l)
  /\ UNCHANGED <<event, dispatching, web, overtaken>>

PurgeFails(l) ==
  /\ lambda[l].at \in {"claimed", "checked", "collected", "cleared"}
  /\ Advance(l, "failing")
  /\ UNCHANGED <<rowVars, event, dispatching, web, overtaken>>

(* The status is written by id: the row is no longer asked whose it is.    *)
MarkPurgeStatus(l) ==
  LET t == lambda[l].on IN
  /\ lambda[l].at \in {"failing", "blocking"}
  /\ purge' = [purge EXCEPT ![t] =
       IF ~Exists(t) THEN @ ELSE IF lambda[l].at = "failing" THEN "failed" ELSE "blocked"]
  /\ Finish(l)
  /\ UNCHANGED <<batch, file, event, dispatching, web, overtaken>>

(* An invocation that stops, or cannot write its status, leaves "running". *)
LambdaStops(l) ==
  /\ lambda[l].at # "idle"
  /\ Finish(l)
  /\ UNCHANGED <<rowVars, event, dispatching, web, overtaken>>

-----------------------------------------------------------------------------
Work(l) ==
  \/ CheckProtection(l) \/ Collect(l)
  \/ ClearObjects(l) \/ ClearSome(l) \/ PurgeRows(l)
  \/ PurgeFails(l) \/ MarkPurgeStatus(l)

ServeRequest(r) ==
  \/ \E b \in Batch : StartUpload(r, b) \/ CheckReopen(r, b)
                      \/ CheckRestore(r, b)
  \/ \E f \in File : AddFile(r, f) \/ CheckRemove(r, f)
                     \/ CheckSign(r, f) \/ CheckMerge(r, f)
  \/ RemoveFile(r) \/ ReopenBatch(r) \/ RestoreBatch(r)
  \/ Sign(r) \/ SignFails(r) \/ PersistFailedSigning(r) \/ CreateMerge(r)
  \/ Abandon(r)

LifecycleNext ==
  \/ \E r \in Request : ServeRequest(r)
  \/ \E b \in Batch : CloseBatch(b) \/ DeleteBatch(b) \/ RetentionEnds(b)
                      \/ QueueBatchPurge(b)
  \/ \E f \in File : PutObject(f) \/ UrlExpires(f) \/ ProcessFile(f) \/ RetryFile(f)
                     \/ QueueUploadPurge(f)
  \/ \E t \in Target : Dispatch(t) \/ MarkDispatchFailed(t)
  \/ \E l \in Lambda :
       \/ \E t \in Target : ClaimPurge(l, t)
       \/ Work(l) \/ LambdaStops(l)

LifecycleSpec == LifecycleInit /\ [][LifecycleNext]_lifecycleVars

(* An invocation runs on, and not every one stops; the daily run takes up  *)
(* every target it may.                                                    *)
FairLifecycleSpec ==
  /\ LifecycleSpec
  /\ \A l \in Lambda :
       WF_lifecycleVars(Work(l)) /\ <>[][~LambdaStops(l)]_lifecycleVars
  /\ \A t \in Target : SF_lifecycleVars(\E l \in Lambda : ClaimPurge(l, t))
-----------------------------------------------------------------------------
LifecycleTypeOK ==
  /\ batch \in [Batch -> [state : {"absent", "open", "closed", "gone"},
                          deleted : BOOLEAN, due : BOOLEAN]]
  /\ file \in [File -> [batch : Batch \union {NoTarget},
                        stage : {"absent", "waiting", "gone"} \union Terminal,
                        signed : BOOLEAN, merged : BOOLEAN,
                        put : {"none", "awaited", "done", "late"}, stored : BOOLEAN]]
  /\ purge \in [Target -> {"none", "scheduled", "queued", "running", "failed", "blocked"}]
  /\ event \subseteq Batch /\ dispatching \subseteq Target
  /\ web \in [Request ->
       [at : {"idle", "uploading", "removing", "reopening", "restoring",
              "signing", "unsigning", "merging"},
        on : Target \union {NoTarget}]]
  /\ lambda \in [Lambda ->
       [at : {"idle", "claimed", "checked", "blocking", "collected", "cleared", "failing"},
        on : Target \union {NoTarget}, keys : SUBSET File]]
  /\ overtaken \subseteq Batch

(* The exception to what follows: a restore that was checked before a      *)
(* purge began, and is applied after.                                      *)
Kept(f) == file[f].batch \notin overtaken

(* "Signed certificates and certificates included in any merge job are     *)
(* protected": whatever requests and invocations race, their rows and      *)
(* objects are not purged.                                                 *)
ProtectedKept ==
  \A f \in File : Protected(f) /\ Kept(f) => file[f].stage # "gone" /\ file[f].stored

(* No two invocations work on one target, whatever was dispatched twice,   *)
(* reported as failed, or left running by an invocation that stopped.      *)
PurgeExclusive ==
  \A l, m \in Lambda :
    lambda[l].on = lambda[m].on /\ lambda[l].on \notin overtaken \union {NoTarget}
      => l = m

(* A batch is purged only while it is deleted, and after its 30 days or    *)
(* because somebody asked; from then on it cannot be restored.             *)
OnlyDeletedPurged ==
  \A l \in Lambda : \A b \in Batch \ overtaken :
    lambda[l].on = b => Exists(b) /\ batch[b].deleted /\ batch[b].due /\ purge[b] = "running"

(* A file is never deleted on its own in a batch that is deleted: "a batch *)
(* cannot move to Recently Deleted when a file deletion is incomplete".    *)
NoMixedPurge ==
  \A f \in File :
    Exists(f) /\ Kept(f) /\ batch[file[f].batch].deleted => purge[f] = "none"

(* What users see, a file that was read in a batch that is not deleted,    *)
(* or was restored, has all its objects, although a purge that failed may  *)
(* have removed some.                                                      *)
LiveFilesIntact ==
  \A f \in File :
    file[f].stage \in {"read", "unread"} /\ Available(f) /\ Kept(f) => file[f].stored

(* "Storage versions are removed before database records": no object is    *)
(* left behind without a row that leads to it, but for a document that was *)
(* sent to S3 after the objects of its batch had been collected.           *)
ObjectsBeforeRows ==
  \A f \in File :
    file[f].stage = "gone" /\ Kept(f) /\ file[f].put # "late" => ~file[f].stored

(* A purge that was asked for ends: done, failed and shown so, or blocked; *)
(* also when its dispatch was lost or its invocation stopped.              *)
RequestedPurgeEnds ==
  \A t \in Target :
    (purge[t] \in {"queued", "running"}) ~> (purge[t] \notin {"queued", "running"})
=============================================================================
