--------------------------- MODULE UploadPipeline ---------------------------
(***************************************************************************)
(* The webapp's side of WorkerPipeline: completing the upload of the file, *)
(* which queues its first event (completeUploadAndQueue of                 *)
(* webapp/tax-track/src/lib/intake-server.ts), and retrying its extraction *)
(* by hand, which queues a new event (extraction-retry-server.ts).  Both   *)
(* write the intake_files row, send a message and write the row again, in  *)
(* steps of their own, while the worker handles the earlier messages.      *)
(*                                                                         *)
(* The 60 seconds between a failure and its retry are left out: here they  *)
(* may have passed at any time.                                            *)
(***************************************************************************)
EXTENDS WorkerPipeline, FiniteSetsExt

CONSTANTS
  Completion,   \* requests to complete the upload
  Retry,        \* requests to retry the extraction
  MaxRetries,   \* MAX_MANUAL_EXTRACTION_RETRIES
  WebFaults     \* the faults that may happen to a request

WebFaultKinds == {"refused",    \* SendMessage fails, and sends nothing
                  "unsure",     \* SendMessage fails, but the message is sent
                  "unrecorded", \* the update after a SendMessage fails
                  "webcrash"}   \* the web server stops

ASSUME UploadAssumption ==
  /\ Completion \intersect Retry = {}
  /\ MaxRetries \in Nat
  /\ WebFaults \subseteq WebFaultKinds

VARIABLE web    \* web[w]: how far request w has got, and what it remembers

uploadVars == <<pipelineVars, web>>

Request == Completion \union Retry
UploadEvent == EventOf[FirstMessage]
NoFile == [event |-> NoEvent, queue |-> "pending", processing |-> "pending"]

UploadInit ==
  /\ PipelineIdle
  /\ queue = [m \in Message |-> [at |-> "unsent", receives |-> 0]]
  /\ file = [event |-> NoEvent, queue |-> "pending", processing |-> "pending",
             removal |-> "none"]
  /\ web = [w \in Request |-> [at |-> "idle", event |-> NoEvent,
                               source |-> NoOwner, previous |-> NoFile]]

Advance(w, l) == web' = [web EXCEPT ![w].at = l]
SetFile(f) ==
  file' = [k \in DOMAIN file |-> IF k \in DOMAIN f THEN f[k] ELSE file[k]]

-----------------------------------------------------------------------------
(* Completing an upload.                                                   *)

(* A file that is on its way, or done, is left alone.                      *)
OnItsWay ==
  /\ file.event # NoEvent
  /\ IF file.processing = "pending" THEN file.queue = "queued"
     ELSE file.processing \in {"processing", "success", "duplicate"}

CheckUpload(w) ==
  /\ w \in Completion
  /\ web[w].at = "idle"
  /\ ~OnItsWay
  /\ Advance(w, "checked")
  /\ UNCHANGED pipelineVars

MarkSending(w) ==
  /\ w \in Completion
  /\ web[w].at = "checked"
  /\ SetFile([event |-> UploadEvent, queue |-> "sending", processing |-> "pending"])
  /\ web' = [web EXCEPT ![w].at = "marked", ![w].event = UploadEvent]
  /\ UNCHANGED <<claimVars, queue, handlerVars, recordVars, result>>

-----------------------------------------------------------------------------
(* Retrying an extraction.                                                 *)

(* Mutant: a document that waits in the queue may be retried.              *)
AlreadyProcessingNow == file.processing = "processing"

AlreadyProcessing ==
  \/ file.processing = "processing"
  \/ file.processing = "pending" /\ file.queue \in {"sending", "queued"}

RetryCount ==
  Max({RetryNumber[file.event]}
      \union {RetryNumber[target[a]] : a \in {b \in Attempt : serial[b] # 0}})

(* Only what failed for a transient reason, and not too often.             *)
CanRetry ==
  /\ file.removal # "done"
  /\ result.outcome = "unread"
  /\ extraction[result.by] = "failed"
  /\ ~AlreadyProcessing
  /\ RetryCount < MaxRetries

CheckRetry(w) ==
  /\ w \in Retry
  /\ web[w].at = "idle"
  /\ CanRetry
  /\ web' = [web EXCEPT ![w].at = "checked", ![w].source = result.by]
  /\ UNCHANGED pipelineVars

(* Mutant: a revision is fresh, but keeps the number of the one before.    *)
FreshRevision(e) ==
  /\ RetryNumber[e] \in 1 .. RetryCount + 1
  /\ \A v \in Request : web[v].event # e

NextRevision(e) ==
  /\ RetryNumber[e] = RetryCount + 1
  /\ \A v \in Request : web[v].event # e

(* The transaction checks again, with the file locked, and takes a fresh   *)
(* revision of the next number.                                            *)
Reserve(w) ==
  /\ w \in Retry
  /\ web[w].at = "checked"
  /\ CanRetry
  /\ web[w].source = result.by
  /\ \E e \in Event :
       /\ NextRevision(e)
       /\ SetFile([event |-> e, queue |-> "sending", processing |-> "pending"])
       /\ web' = [web EXCEPT ![w].at = "marked", ![w].event = e,
            ![w].previous = [event |-> file.event, queue |-> file.queue,
                             processing |-> file.processing]]
  /\ UNCHANGED <<claimVars, queue, handlerVars, recordVars, result>>

ReserveRefused(w) ==
  /\ w \in Retry
  /\ web[w].at = "checked"
  /\ ~(CanRetry /\ web[w].source = result.by)
  /\ Advance(w, "failed")
  /\ UNCHANGED pipelineVars

-----------------------------------------------------------------------------
(* Sending the message, and recording that it was sent or not.             *)

Send(w) ==
  /\ web[w].at = "marked"
  /\ \E m \in Message :
       /\ EventOf[m] = web[w].event
       /\ queue[m].at = "unsent"
       /\ queue' = [queue EXCEPT ![m].at = "visible"]
  /\ \/ Advance(w, "sent")
     \/ "unsure" \in WebFaults /\ Advance(w, "unsent")
  /\ UNCHANGED <<claimVars, handlerVars, recordVars, file, result>>

SendRefused(w) ==
  /\ web[w].at = "marked"
  /\ "refused" \in WebFaults
  /\ Advance(w, "unsent")
  /\ UNCHANGED pipelineVars

(* A completion writes the file whatever has become of it; a retry writes  *)
(* it only while the file still is at its event.                           *)
StillOwn(w) == w \in Completion \/ file.event = web[w].event

(* A completion that cannot record its message, in the file or then in the *)
(* batch, says that the message was not sent.                              *)
AfterFailure(w) == IF w \in Completion THEN "unsent" ELSE "failed"

(* Mutant: the file is marked as pending once more.                        *)
RecordSentPending(w) ==
  /\ web[w].at = "sent"
  /\ IF StillOwn(w)
     THEN SetFile([queue |-> "queued", processing |-> "pending"]) ELSE UNCHANGED file
  /\ Advance(w, "done")
  /\ UNCHANGED <<claimVars, queue, handlerVars, recordVars, result>>

RecordSent(w) ==
  /\ web[w].at = "sent"
  /\ IF StillOwn(w) THEN SetFile([queue |-> "queued"]) ELSE UNCHANGED file
  /\ \/ Advance(w, "done")
     \/ "unrecorded" \in WebFaults /\ Advance(w, AfterFailure(w))
  /\ UNCHANGED <<claimVars, queue, handlerVars, recordVars, result>>

RecordSentFails(w) ==
  /\ web[w].at = "sent"
  /\ "unrecorded" \in WebFaults
  /\ Advance(w, AfterFailure(w))
  /\ UNCHANGED pipelineVars

(* Mutant: nothing is rolled back.                                         *)
RecordUnsentOnly(w) ==
  /\ web[w].at = "unsent"
  /\ Advance(w, "failed")
  /\ UNCHANGED pipelineVars

RecordUnsent(w) ==
  /\ web[w].at = "unsent"
  /\ IF StillOwn(w)
     THEN SetFile(IF w \in Completion THEN [queue |-> "failed"] ELSE web[w].previous)
     ELSE UNCHANGED file
  /\ Advance(w, "failed")
  /\ UNCHANGED <<claimVars, queue, handlerVars, recordVars, result>>

WebCrash(w) ==
  /\ "webcrash" \in WebFaults
  /\ web[w].at \notin {"idle", "failed", "done"}
  /\ Advance(w, "failed")
  /\ UNCHANGED pipelineVars

-----------------------------------------------------------------------------
Serve(w) ==
  \/ CheckUpload(w) \/ MarkSending(w)
  \/ CheckRetry(w) \/ Reserve(w) \/ ReserveRefused(w)
  \/ Send(w) \/ SendRefused(w)
  \/ RecordSent(w) \/ RecordSentFails(w) \/ RecordUnsent(w)

UploadNext ==
  \/ PipelineNext /\ UNCHANGED web
  \/ \E w \in Request : Serve(w) \/ WebCrash(w)

UploadSpec == UploadInit /\ [][UploadNext]_uploadVars
-----------------------------------------------------------------------------
UploadTypeOK ==
  /\ PipelineTypeOK
  /\ web \in [Request ->
       [at : {"idle", "checked", "marked", "sent", "unsent", "failed", "done"},
        event : Event \union {NoEvent},
        source : Attempt \union {NoOwner},
        previous : [event : Event \union {NoEvent},
                    queue : {"pending", "sending", "queued", "failed"},
                    processing : {"pending", "processing"} \union TerminalState]]]

(* A retry is under way from its reservation until its event is settled or *)
(* given up, unless it is rolled back.                                     *)
UnderWay(e) ==
  /\ \E w \in Retry : web[w].event = e /\ web[w].at \in {"marked", "sent", "done"}
  /\ row[e].state \notin TerminalState
  /\ \A m \in Message : EventOf[m] = e => queue[m].at # "dlq"

(* Of the requests to retry an extraction that race with each other, and   *)
(* with late deliveries of earlier events, one gets through: the next is   *)
(* not reserved before the worker is done with it.                         *)
RetriesDoNotOverlap == \A e, f \in Event : UnderWay(e) /\ UnderWay(f) => e = f

(* A result is never replaced by one of an earlier retry, or of the first  *)
(* event, however late the handler that brings it.                         *)
RetryOutranks ==
  [][result # NoResult =>
       RetryNumber[target[result'.by]] >= RetryNumber[target[result.by]]]_result

(* "Queued: upload finished and the file is waiting for processing, no     *)
(* action needed": a file that is shown as queued has a message to be      *)
(* received, a handler, or a request that is about to send a message.      *)
QueuedMeansWaiting ==
  OverallStatus = "queued" =>
    \/ \E w \in Request :
         web[w].event = file.event /\ web[w].at \in {"marked", "sent", "unsent"}
    \/ \E m \in Message :
         EventOf[m] = file.event /\ queue[m].at \in {"visible", "inflight"}
    \/ ~Quiet(file.event)

(* Once its event is settled and nobody is at work on it, the file shows   *)
(* the outcome, whichever request or delivery wrote to it last.            *)
FileShowsOutcome ==
  \A e \in Event :
    file.event = e /\ row[e].state \in TerminalState /\ Quiet(e)
    /\ (\A w \in Request : web[w].event = e => web[w].at = "done")
      => file.processing = row[e].state

(* "The maximum of three extraction retries": no more of them are sent.    *)
RetryLimit ==
  Cardinality({m \in Message : queue[m].at # "unsent" /\ RetryNumber[EventOf[m]] > 0})
    <= MaxRetries
=============================================================================
