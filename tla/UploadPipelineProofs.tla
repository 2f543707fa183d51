------------------------ MODULE UploadPipelineProofs ------------------------
(***************************************************************************)
(* The worker beside the requests of the webapp: what WorkerPipelineProofs *)
(* shows of the handlers holds however many requests complete and retry    *)
(* the upload, and whichever of their steps fail; and no result is         *)
(* replaced by one of an earlier retry.  While claims are kept and sends   *)
(* are certain, moreover, retries take turns, and the file's status and    *)
(* the limit of retries can be relied on.                                  *)
(***************************************************************************)
EXTENDS UploadPipeline, WorkerPipelineProofs, DataInduction

FileTyped(f) ==
  f \in [event : Event \union {NoEvent},
         queue : {"pending", "sending", "queued", "failed"},
         processing : {"pending", "processing"} \union TerminalState,
         removal : {"none", "asked", "done"}]

(* What a request remembers of the file, and how far it is.                *)
Remembered ==
  [event : Event \union {NoEvent},
   queue : {"pending", "sending", "queued", "failed"},
   processing : {"pending", "processing"} \union TerminalState]

WebRow ==
  [at : {"idle", "checked", "marked", "sent", "unsent", "failed", "done"},
   event : Event \union {NoEvent},
   source : Attempt \union {NoOwner},
   previous : Remembered]

WebState == [Request -> WebRow]

(* What a request writes to the file: three columns, or the first of them. *)
LEMMA SetFileType ==
  ASSUME FileTyped(file), NEW f, SetFile(f),
         NEW e \in Event \union {NoEvent},
         NEW q \in {"pending", "sending", "queued", "failed"},
         NEW p \in {"pending", "processing"} \union TerminalState,
         \/ f = [event |-> e, queue |-> q, processing |-> p]
         \/ f = [queue |-> q]
  PROVE  FileTyped(file')
<1>1. DOMAIN file = {"event", "queue", "processing", "removal"}
  BY DEF FileTyped
<1>2. CASE f = [queue |-> q]
  <2>1. DOMAIN f = {"queue"} /\ f["queue"] = q
    BY <1>2
  <2>2. file' = [file EXCEPT !.queue = q]
    BY <1>1, <2>1 DEF SetFile, FileTyped
  <2> QED
    BY <2>2 DEF FileTyped
<1>3. CASE f = [event |-> e, queue |-> q, processing |-> p]
  <2>1. /\ DOMAIN f = {"event", "queue", "processing"}
        /\ f["event"] = e /\ f["queue"] = q /\ f["processing"] = p
    BY <1>3
  <2>2. file' = [event |-> e, queue |-> q, processing |-> p, removal |-> file.removal]
    BY <1>1, <2>1 DEF SetFile, FileTyped
  <2> QED
    BY <2>2 DEF FileTyped
<1> QED
  BY <1>2, <1>3

-----------------------------------------------------------------------------
(* A request writes the file and sends messages, and nothing else.         *)
LEMMA WebStep ==
  ASSUME UploadTypeOK, NEW w \in Request, Serve(w) \/ WebCrash(w)
  PROVE  /\ UNCHANGED <<claimVars, handlerVars, recordVars, result>>
         /\ UploadTypeOK'
         /\ \A m \in Message : queue'[m].at = "deleted" => queue[m].at = "deleted"
<1> DEFINE Ok == /\ UNCHANGED <<claimVars, handlerVars, recordVars, result>>
                 /\ UploadTypeOK'
                 /\ \A m \in Message : queue'[m].at = "deleted" => queue[m].at = "deleted"
<1>1. /\ PipelineTypeOK /\ FileTyped(file)
      /\ web \in WebState /\ DOMAIN web = Request
      /\ web[w] \in WebRow /\ web[w].event \in Event \union {NoEvent}
      /\ web[w].previous \in Remembered
  BY DEF UploadTypeOK, PipelineTypeOK, FileTyped, WebState, WebRow, Remembered
<1>2. ASSUME UNCHANGED <<claimVars, handlerVars, recordVars, result, queue>>,
             FileTyped(file'),
             web' \in WebState
      PROVE  Ok
  <2>1. PipelineTypeOK'
    BY <1>1, <1>2
    DEF PipelineTypeOK, ClaimTypeOK, FileTyped, claimVars, handlerVars, recordVars
  <2> QED
    BY <1>2, <2>1 DEF UploadTypeOK, WebState, WebRow, Remembered
<1>3. ASSUME NEW l \in {"idle", "checked", "marked", "sent", "unsent", "failed", "done"},
             Advance(w, l)
      PROVE  web' \in WebState
  BY <1>1, <1>3 DEF Advance, WebState, WebRow
<1>4. ASSUME \/ CheckUpload(w) \/ ReserveRefused(w) \/ SendRefused(w)
             \/ RecordSentFails(w) \/ WebCrash(w)
      PROVE  Ok
  <2>1. UNCHANGED pipelineVars
    BY <1>4 DEF CheckUpload, ReserveRefused, SendRefused, RecordSentFails, WebCrash
  <2>2. \E l \in {"idle", "checked", "marked", "sent", "unsent", "failed", "done"} :
          Advance(w, l)
    BY <1>4
    DEF CheckUpload, ReserveRefused, SendRefused, RecordSentFails, WebCrash, AfterFailure
  <2> QED
    BY <1>1, <1>2, <1>3, <2>1, <2>2 DEF pipelineVars
<1>5. CASE MarkSending(w)
  <2>1. UploadEvent \in Event
    BY PipelineAssumption DEF UploadEvent
  <2>2. FileTyped(file')
    BY <1>1, <1>5, <2>1, SetFileType DEF MarkSending
  <2>3. web' \in WebState
    <3> DEFINE new == [web[w] EXCEPT !.at = "marked", !.event = UploadEvent]
    <3>1. new \in WebRow
      BY <1>1, <2>1 DEF WebRow
    <3>2. web' = [web EXCEPT ![w] = new]
      BY <1>1, <1>5 DEF MarkSending, WebRow
    <3> HIDE DEF new
    <3> QED
      BY <1>1, <3>1, <3>2 DEF WebState
  <2> QED
    BY <1>2, <1>5, <2>2, <2>3 DEF MarkSending
<1>6. CASE CheckRetry(w)
  <2>1. result.by \in Attempt \union {NoOwner}
    BY <1>1 DEF PipelineTypeOK, NoResult
  <2>2. web' \in WebState
    <3> DEFINE new == [web[w] EXCEPT !.at = "checked", !.source = result.by]
    <3>1. new \in WebRow
      BY <1>1, <2>1 DEF WebRow
    <3>2. web' = [web EXCEPT ![w] = new]
      BY <1>1, <1>6 DEF CheckRetry, WebRow
    <3> HIDE DEF new
    <3> QED
      BY <1>1, <3>1, <3>2 DEF WebState
  <2> QED
    BY <1>1, <1>2, <1>6, <2>2 DEF CheckRetry, pipelineVars
<1>7. CASE Reserve(w)
  <2>1. PICK e \in Event :
          /\ SetFile([event |-> e, queue |-> "sending", processing |-> "pending"])
          /\ web' = [web EXCEPT ![w].at = "marked", ![w].event = e,
               ![w].previous = [event |-> file.event, queue |-> file.queue,
                                processing |-> file.processing]]
    BY <1>7 DEF Reserve
  <2>2. FileTyped(file')
    BY <1>1, <2>1, SetFileType
  <2>3. [event |-> file.event, queue |-> file.queue, processing |-> file.processing]
          \in Remembered
    BY <1>1 DEF FileTyped, Remembered
  <2>4. web' \in WebState
    <3> DEFINE seen == [event |-> file.event, queue |-> file.queue,
                        processing |-> file.processing]
               new == [web[w] EXCEPT !.at = "marked", !.event = e, !.previous = seen]
    <3>1. seen \in Remembered /\ web' = [web EXCEPT ![w].at = "marked", ![w].event = e,
                                                    ![w].previous = seen]
      BY <2>1, <2>3
    <3> HIDE DEF seen
    <3>2. new \in WebRow
      BY <1>1, <3>1 DEF WebRow
    <3>3. web' = [web EXCEPT ![w] = new]
      BY <1>1, <3>1 DEF WebRow
    <3> HIDE DEF new
    <3> QED
      BY <1>1, <3>2, <3>3 DEF WebState
  <2> QED
    BY <1>2, <1>7, <2>2, <2>4 DEF Reserve
<1>8. CASE Send(w)
  <2>1. PICK m \in Message :
          queue[m].at = "unsent" /\ queue' = [queue EXCEPT ![m].at = "visible"]
    BY <1>8 DEF Send
  <2>2. PipelineTypeOK' /\ \A n \in Message : queue'[n].at = "deleted" => queue[n].at = "deleted"
    BY <1>1, <1>8, <2>1
    DEF Send, PipelineTypeOK, ClaimTypeOK, claimVars, handlerVars, recordVars
  <2>3. Advance(w, "sent") \/ Advance(w, "unsent")
    BY <1>8 DEF Send
  <2> QED
    BY <1>3, <1>8, <2>2, <2>3 DEF Send, UploadTypeOK, WebState, WebRow, Remembered
<1>9. CASE RecordSent(w)
  <2>1. FileTyped(file')
    BY <1>1, <1>9, SetFileType DEF RecordSent
  <2>2. \E l \in {"done", "unsent", "failed"} : Advance(w, l)
    BY <1>9 DEF RecordSent, AfterFailure
  <2> QED
    BY <1>2, <1>3, <1>9, <2>1, <2>2 DEF RecordSent
<1>10. CASE RecordUnsent(w)
  <2>1. /\ web[w].previous = [event |-> web[w].previous.event,
                              queue |-> web[w].previous.queue,
                              processing |-> web[w].previous.processing]
        /\ web[w].previous.event \in Event \union {NoEvent}
        /\ web[w].previous.queue \in {"pending", "sending", "queued", "failed"}
        /\ web[w].previous.processing \in {"pending", "processing"} \union TerminalState
    BY <1>1 DEF Remembered
  <2>2. FileTyped(file')
    <3>1. CASE UNCHANGED file
      BY <1>1, <3>1
    <3>2. CASE SetFile([queue |-> "failed"])
      BY <1>1, <3>2, SetFileType
    <3>3. CASE SetFile(web[w].previous)
      BY <1>1, <2>1, <3>3, SetFileType
    <3> QED
      BY <1>10, <3>1, <3>2, <3>3 DEF RecordUnsent
  <2>3. Advance(w, "failed")
    BY <1>10 DEF RecordUnsent
  <2> QED
    BY <1>2, <1>3, <1>10, <2>2, <2>3 DEF RecordUnsent
<1> QED
  BY <1>4, <1>5, <1>6, <1>7, <1>8, <1>9, <1>10 DEF Serve

(* What WorkerPipelineProofs shows inductive of the worker, and that the   *)
(* result has been written by an attempt that had opened its job.          *)
Opened(a) == pc[a] # "idle" /\ serial[a] # 0

WriterOK ==
  /\ \A a \in Attempt : node[a] # "none" => Opened(a)
  /\ result # NoResult => result.by \in Attempt /\ Opened(result.by)

UploadInv ==
  /\ UploadTypeOK /\ LiveMeansRunning /\ NodeOK
  /\ DeliveryOK /\ ResultOK /\ WriterOK
  /\ AcknowledgedMeansSettled /\ SettledByItsResult

LEMMA UploadInitially == UploadInit => UploadInv
<1> SUFFICES ASSUME UploadInit
             PROVE  UploadInv
  OBVIOUS
<1>1. UploadTypeOK
  <2>1. PipelineTypeOK
    BY ClaimInitType, PipelineAssumption
    DEF UploadInit, PipelineIdle, PipelineTypeOK, PC, NoResult
  <2> QED
    BY <2>1 DEF UploadInit, UploadTypeOK, NoFile
<1>2. LiveMeansRunning /\ NodeOK /\ DeliveryOK /\ ResultOK /\ WriterOK
  BY DEF UploadInit, PipelineIdle, ClaimInit, NoRow, LiveMeansRunning, NodeOK, DeliveryOK,
         ResultOK, Persisted, WriterOK
<1>3. AcknowledgedMeansSettled /\ SettledByItsResult
  BY PipelineAssumption
  DEF UploadInit, PipelineIdle, ClaimInit, NoRow, AcknowledgedMeansSettled, SettledByItsResult
<1> QED
  BY <1>1, <1>2, <1>3 DEF UploadInv

LEMMA WebKeeps ==
  ASSUME UploadInv, NEW w \in Request, Serve(w) \/ WebCrash(w)
  PROVE  UploadInv'
<1>1. /\ UNCHANGED <<claimVars, handlerVars, recordVars, result>>
      /\ UploadTypeOK'
      /\ \A m \in Message : queue'[m].at = "deleted" => queue[m].at = "deleted"
  BY WebStep DEF UploadInv
<1>2. LiveMeansRunning' /\ NodeOK' /\ DeliveryOK' /\ ResultOK' /\ WriterOK'
  BY <1>1
  DEF UploadInv, LiveMeansRunning, NodeOK, DeliveryOK, ResultOK, Persisted, WriterOK, Opened,
      claimVars, handlerVars, recordVars
<1>3. AcknowledgedMeansSettled' /\ SettledByItsResult'
  BY <1>1 DEF UploadInv, AcknowledgedMeansSettled, SettledByItsResult, claimVars
<1> QED
  BY <1>1, <1>2, <1>3 DEF UploadInv

(* A handler that has opened its job stays one that has.                   *)
LEMMA OpenedKept ==
  ASSUME PipelineTypeOK, NodeOK, [PipelineNext]_pipelineVars, NEW a \in Attempt, Opened(a)
  PROVE  Opened(a)'
<1>1. pc'[a] # "idle"
  BY DeliveryKept DEF Opened
<1>2. CASE UNCHANGED serial
  BY <1>1, <1>2 DEF Opened
<1>3. ASSUME NEW b \in Attempt, InitJob(b)
      PROVE  serial'[a] # 0
  <2>1. /\ serial' = [serial EXCEPT ![b] = Cardinality({c \in Attempt : serial[c] # 0}) + 1]
        /\ serial \in [Attempt -> Nat]
    BY <1>3 DEF InitJob, PipelineTypeOK
  <2>2. Cardinality({c \in Attempt : serial[c] # 0}) \in Nat
    BY PipelineAssumption, FS_Subset, FS_CardinalityType
  <2> QED
    BY <2>1, <2>2 DEF Opened
<1>4. UNCHANGED serial \/ \E b \in Attempt : InitJob(b)
  BY DEF PipelineNext, Handle, pipelineVars, recordVars, Receive, DeadLetter,
    VisibilityLapses, LeaseLapses, AskRemoval, RemoveUpload, ClaimEvent, ClaimThrows,
    AnswerRefused, RenewForFinish, Finalize, RecordClaimFailure, InitFails,
    SetJobCurrentStep, LoadInput, ExtractDocument, ProcessCertificates, PersistResults,
    FinalizeWorkflow, NodeThrows, FinishFails, RecordingFails, DeleteMessage, NoticeLoss, Crash
<1> QED
  BY <1>1, <1>2, <1>3, <1>4 DEF Opened

(* The workflow of a handler begins when its job is opened.                *)
LEMMA NodeBegins ==
  ASSUME PipelineTypeOK, NodeOK, [PipelineNext]_pipelineVars, NEW a \in Attempt,
         node[a] = "none", node'[a] # "none"
  PROVE  InitJob(a)
<1> USE DEF PipelineTypeOK, Goto, EnterNode
<1>1. ASSUME NEW b \in Attempt, InitJob(b)
      PROVE  b = a
  BY <1>1 DEF InitJob
<1>2. ASSUME NEW b \in Attempt,
             \/ LoadInput(b) \/ ExtractDocument(b) \/ ProcessCertificates(b)
             \/ PersistResults(b) \/ FinalizeWorkflow(b)
      PROVE  FALSE
  BY <1>2 DEF LoadInput, ExtractDocument, ProcessCertificates, PersistResults,
    FinalizeWorkflow, Run
<1>3. ASSUME NEW b \in Attempt, NodeThrows(b) \/ NoticeLoss(b) \/ Crash(b)
      PROVE  FALSE
  BY <1>3 DEF NodeThrows, NoticeLoss, Crash
<1> QED
  BY <1>1, <1>2, <1>3
  DEF PipelineNext, Handle, pipelineVars, handlerVars, recordVars, queueVars, Receive,
    DeadLetter, VisibilityLapses, LeaseLapses, AskRemoval, RemoveUpload, ClaimEvent,
    ClaimThrows, AnswerRefused, RenewForFinish, Finalize, RecordClaimFailure, InitFails,
    SetJobCurrentStep, FinishFails, RecordingFails, DeleteMessage

LEMMA WriterStep ==
  UploadInv /\ [PipelineNext]_pipelineVars => WriterOK'
<1> SUFFICES ASSUME UploadInv, [PipelineNext]_pipelineVars
             PROVE  WriterOK'
  OBVIOUS
<1>1. PipelineTypeOK /\ NodeOK /\ WriterOK
  BY DEF UploadInv, UploadTypeOK
<1>2. ASSUME NEW a \in Attempt, InitJob(a)
      PROVE  Opened(a)'
  <2>1. /\ serial' = [serial EXCEPT ![a] = Cardinality({c \in Attempt : serial[c] # 0}) + 1]
        /\ serial \in [Attempt -> Nat] /\ pc[a] # "idle"
    BY <1>1, <1>2 DEF InitJob, PipelineTypeOK
  <2>2. Cardinality({c \in Attempt : serial[c] # 0}) \in Nat
    BY PipelineAssumption, FS_Subset, FS_CardinalityType
  <2>3. pc'[a] # "idle"
    BY <1>1, <2>1, DeliveryKept
  <2> QED
    BY <2>1, <2>2, <2>3 DEF Opened
<1>3. ASSUME NEW a \in Attempt, node'[a] # "none"
      PROVE  Opened(a)'
  <2>1. CASE node[a] = "none"
    BY <1>1, <1>2, <1>3, <2>1, NodeBegins
  <2>2. CASE node[a] # "none"
    BY <1>1, <2>2, OpenedKept DEF WriterOK
  <2> QED
    BY <2>1, <2>2
<1>4. ASSUME result' # NoResult
      PROVE  \E b \in Attempt : result'.by = b /\ Opened(b)'
  <2>1. CASE result' = result
    <3>1. result.by \in Attempt /\ Opened(result.by)
      BY <1>1, <1>4, <2>1 DEF WriterOK
    <3>2. PICK b \in Attempt : result.by = b /\ Opened(b)
      BY <3>1
    <3> QED
      BY <1>1, <2>1, <3>2, OpenedKept
  <2>2. ASSUME NEW b \in Attempt, PersistResults(b)
        PROVE  result'.by = b /\ Opened(b)'
    <3>1. result'.by = b /\ node[b] # "none"
      BY <2>2 DEF PersistResults, Run
    <3> QED
      BY <1>1, <3>1, OpenedKept DEF WriterOK
  <2> QED
    BY <2>1, <2>2, ResultBegins
<1>5. result' # NoResult =>
        /\ result'.by \in Attempt
        /\ pc'[result'.by] # "idle" /\ serial'[result'.by] # 0
  BY <1>4 DEF Opened
<1> QED
  BY <1>3, <1>5 DEF WriterOK, Opened, NoResult

(* The strengthened invariant is inductive.                                *)
LEMMA UploadKeeps == UploadInv /\ [UploadNext]_uploadVars => UploadInv'
<1>1. ASSUME UploadInv, [PipelineNext]_pipelineVars, web' = web
      PROVE  UploadInv'
  <2>1. PipelineShape
    BY <1>1 DEF UploadInv, UploadTypeOK, PipelineShape
  <2>2. PipelineShape'
    BY <1>1, <2>1, PipelineTypeStep, NodeStep, LiveStep, PipelineSimulation
    DEF PipelineShape, PipelineTypeOK
  <2>3. UploadTypeOK'
    BY <1>1, <2>2 DEF UploadInv, UploadTypeOK, PipelineShape
  <2>4. WriterOK'
    BY <1>1, WriterStep
  <2>5. DeliveryOK' /\ AcknowledgedMeansSettled'
    BY <1>1, <2>1, DeliveryStep, DeletedStep DEF UploadInv
  <2>6. ResultOK' /\ SettledByItsResult'
    BY <1>1, <2>1, ResultStep, SettledStep DEF UploadInv
  <2> QED
    BY <2>2, <2>3, <2>4, <2>5, <2>6 DEF UploadInv, PipelineShape
<1>2. ASSUME UploadInv, NEW w \in Request, Serve(w) \/ WebCrash(w)
      PROVE  UploadInv'
  BY <1>2, WebKeeps
<1> QED
  BY <1>1, <1>2 DEF UploadNext, uploadVars

LEMMA UploadInvariant == UploadSpec => []UploadInv
  BY UploadInitially, UploadKeeps, PTL DEF UploadSpec

-----------------------------------------------------------------------------
(* A request remembers a state of the file that it can be put back to, and *)
(* the file only ever is in such a state.                                  *)
THEOREM UploadTypeCorrect == UploadSpec => []UploadTypeOK
<1>1. UploadInv => UploadTypeOK
  BY DEF UploadInv
<1> QED
  BY <1>1, UploadInvariant, PTL

(* No request makes the worker acknowledge a message whose event is not    *)
(* settled.                                                                *)
THEOREM UploadAcknowledged == UploadSpec => []AcknowledgedMeansSettled
<1>1. UploadInv => AcknowledgedMeansSettled
  BY DEF UploadInv
<1> QED
  BY <1>1, UploadInvariant, PTL

(* Nor does a retry part a settled event from the result it was settled by.*)
THEOREM UploadSettledByResult == UploadSpec => []SettledByItsResult
<1>1. UploadInv => SettledByItsResult
  BY DEF UploadInv
<1> QED
  BY <1>1, UploadInvariant, PTL

(* A step that writes the result is one of the worker's.                   *)
LEMMA UploadResultBegins ==
  ASSUME UploadInv, [UploadNext]_uploadVars, result' # result
  PROVE  [PipelineNext]_pipelineVars /\ \E a \in Attempt : PersistResults(a)
<1>1. ASSUME NEW w \in Request, Serve(w) \/ WebCrash(w)
      PROVE  FALSE
  BY <1>1, WebStep DEF UploadInv
<1>2. [PipelineNext]_pipelineVars
  BY <1>1 DEF UploadNext, uploadVars
<1> QED
  BY <1>2, ResultBegins

(* A document that was read is not read again: whatever is retried, its    *)
(* result stays.                                                           *)
THEOREM RetryKeepsReadResult == UploadSpec => ResultFinal
<1>1. UploadInv /\ [UploadNext]_uploadVars =>
        [result.outcome \notin {"none"} \union Payloadless => result' = result]_result
  BY UploadResultBegins DEF PersistResults, MayPersist, NoResult
<1> QED
  BY <1>1, UploadInvariant, PTL DEF UploadSpec, ResultFinal

(* A handler that is late does not replace the result of a later retry.    *)
THEOREM LaterRetryPrevails == UploadSpec => RetryOutranks
<1>1. ASSUME UploadInv, [UploadNext]_uploadVars, result' # result, result # NoResult
      PROVE  RetryNumber[target[result'.by]] >= RetryNumber[target[result.by]]
  <2>1. PICK a \in Attempt : PersistResults(a)
    BY <1>1, UploadResultBegins
  <2>2. PipelineTypeOK /\ NodeOK /\ WriterOK /\ DeliveryOK
    BY <1>1 DEF UploadInv, UploadTypeOK
  <2>3. PICK b \in Attempt : result.by = b /\ Opened(b)
    BY <1>1, <2>2 DEF WriterOK
  <2>4. Later(a, b)
    BY <1>1, <2>1, <2>3 DEF PersistResults, MayPersist, IsLatest, Opened
  <2>5. result'.by = a /\ pc[a] # "idle"
    BY <2>1, <2>2 DEF PersistResults, Run, WriterOK, Opened
  <2>6. RetryNumber[target[a]] \in Nat /\ RetryNumber[target[b]] \in Nat
    BY <2>2, <2>3, <2>5, PipelineAssumption DEF DeliveryOK, Opened
  <2> QED
    BY <2>3, <2>4, <2>5, <2>6 DEF Later
<1>2. UploadInv /\ [UploadNext]_uploadVars =>
        [result # NoResult =>
           RetryNumber[target[result'.by]] >= RetryNumber[target[result.by]]]_result
  BY <1>1
<1> QED
  BY <1>2, UploadInvariant, PTL DEF UploadSpec, RetryOutranks

-----------------------------------------------------------------------------
(* Retries one after the other.  The rest holds as long as claims are not  *)
(* lost and requests learn what has become of their messages: messages may *)
(* come back early or undeleted, and a send may be refused or its request  *)
(* may end anywhere, but a lease is not outlived, nothing else throws, and *)
(* nobody removes the upload.  Each event has one message, the upload is   *)
(* completed by one request, and its own event is not a retry.             *)
Undisturbed ==
  /\ Faults \subseteq {"hidden", "undeleted", "orphan"}
  /\ WebFaults \subseteq {"refused", "webcrash"}
  /\ \A m, n \in Message : EventOf[m] = EventOf[n] => m = n
  /\ \A v, w \in Completion : v = w
  /\ RetryNumber[UploadEvent] = 0

Sent(m) == queue[m].at # "unsent"
SentEvent(e) == \E m \in Message : EventOf[m] = e /\ Sent(m)
NothingSent == \A m \in Message : ~Sent(m)

(* What has been sent for an event other than e is of earlier retries.     *)
Newest(e) ==
  \A m \in Message :
    Sent(m) /\ EventOf[m] # e => RetryNumber[EventOf[m]] < RetryNumber[e]

(* From its claim to the final transaction, a handler keeps its claim.     *)
Working == {"init", "graph", "finish", "finalize"}

HandlerOK(a) ==
  /\ pc[a] \in {"idle", "claim", "delete", "gone"} \union Working
  /\ pc[a] # "idle" => Sent(receipt[a])
  /\ pc[a] \in Working => step[a] = "acquired" /\ ActiveClaim(a)
  /\ pc[a] # "graph" => node[a] = "none"
  /\ pc[a] \in {"idle", "claim", "init"} => serial[a] = 0
  /\ pc[a] \in Working \ {"init"} => serial[a] # 0
  /\ serial[a] # 0 => row[target[a]].owner = a /\ row[target[a]].state # "absent"
  /\ step[a] = "reading" => row[target[a]].state # "absent"

HandlersOK == \A a \in Attempt : HandlerOK(a)

(* An event is claimed once, and held until it is settled.                 *)
RowOK(e) ==
  /\ row[e].state \in {"absent", "running"} \union TerminalState
  /\ row[e].state # "absent" => SentEvent(e)
  /\ row[e].state = "running" =>
       row[e].owner \in Attempt /\ target[row[e].owner] = e /\ pc[row[e].owner] \in Working

RowsOK == \A e \in Event : RowOK(e)

(* A message that was received is about to be claimed, or has been.        *)
ReceivedOK(m) ==
  /\ queue[m].receives > 0 /\ row[EventOf[m]].state = "absent" =>
       \E a \in Attempt : receipt[a] = m /\ pc[a] = "claim"
  /\ queue[m].at = "dlq" => queue[m].receives > 0

ReceiptsOK == \A m \in Message : ReceivedOK(m)

(* Every event that was sent before the file's own is settled.             *)
CurrentOK ==
  /\ ~NothingSent => file.event \in Event
  /\ \A m \in Message :
       Sent(m) /\ EventOf[m] # file.event => row[EventOf[m]].state \in TerminalState
  /\ Newest(file.event)
  /\ \A m, n \in Message :
       Sent(m) /\ Sent(n) /\ RetryNumber[EventOf[m]] = RetryNumber[EventOf[n]] => m = n

(* The file shows how far its event is: r is that event's row.             *)
ShowsEvent(r) ==
  /\ r.state = "absent" => file.processing = "pending" /\ file.queue # "pending"
  /\ r.state = "running" /\ serial[r.owner] = 0 =>
       file.processing = "pending" /\ file.queue \in {"sending", "queued"}
  /\ r.state = "running" /\ serial[r.owner] # 0 =>
       file.processing = "processing" /\ file.queue = "queued"
  /\ r.state \in TerminalState =>
       file.processing = r.state /\ file.queue = "queued"

FileOK ==
  /\ file.removal = "none"
  /\ file.event = NoEvent => file.processing = "pending" /\ file.queue = "pending"
  /\ file.event \in Event => ShowsEvent(row[file.event])
  /\ file.queue = "failed" => NothingSent

(* The file waits for a request that has not sent its message yet.         *)
Undecided(w) == web[w].at \in {"marked", "unsent"}

RequestOK(w) ==
  /\ web[w].at \in {"idle", "checked"} => web[w].event = NoEvent
  /\ web[w].at \in {"sent", "done"} => SentEvent(web[w].event)
  /\ Undecided(w) =>
       /\ web[w].event = file.event /\ file.event \in Event /\ ~SentEvent(file.event)
       /\ file.processing = "pending" /\ file.queue \in {"sending", "queued"}

RequestsOK ==
  /\ \A w \in Request : RequestOK(w)
  /\ \A v, w \in Request : web[v].event = web[w].event /\ web[v].event # NoEvent => v = w

CompletionsOK ==
  \A w \in Completion :
    /\ web[w].event \in {NoEvent, UploadEvent}
    /\ web[w].at \in {"idle", "checked"} => file.event = NoEvent
    /\ Undecided(w) => NothingSent

(* What a retry may put the file back to: its event was sent and settled,  *)
(* nothing later was sent, and the document still has not been read.       *)
RestoresTo(p) ==
  /\ p.event \in Event /\ SentEvent(p.event) /\ Newest(p.event)
  /\ row[p.event].state = p.processing /\ p.processing \in TerminalState
  /\ p.queue = "queued"
  /\ result.outcome \in Payloadless

RetriesOK ==
  \A w \in Retry :
    /\ web[w].event # NoEvent => RetryNumber[web[w].event] \in 1 .. MaxRetries
    /\ Undecided(w) =>
         /\ RestoresTo(web[w].previous)
         /\ RetryNumber[web[w].previous.event] < RetryNumber[web[w].event]

(* A document that was read was read for the file's event.                 *)
Rested == {"none", "finalize_workflow"}

ReadResultOK ==
  result.outcome \notin Payloadless \union {"none"} =>
    /\ serial[result.by] # 0
    /\ target[result.by] = file.event
    /\ node[result.by] \in Rested

WaitingOK ==
  "webcrash" \notin WebFaults /\ file.event \in Event /\ file.queue # "failed" =>
    SentEvent(file.event) \/ \E w \in Request : Undecided(w) /\ web[w].event = file.event

WorkersOK == HandlersOK /\ RowsOK /\ ReceiptsOK
BooksOK ==
  CurrentOK /\ FileOK /\ RequestsOK /\ CompletionsOK /\ RetriesOK /\ ReadResultOK /\ WaitingOK

TurnsInv == UploadInv /\ WorkersOK /\ BooksOK

LEMMA TurnsInitially == UploadInit => WorkersOK /\ BooksOK
<1> SUFFICES ASSUME UploadInit
             PROVE  WorkersOK /\ BooksOK
  OBVIOUS
<1>1. /\ \A m \in Message : queue[m].at = "unsent" /\ queue[m].receives = 0
      /\ \A e \in Event : row[e].state = "absent"
      /\ \A a \in Attempt : /\ pc[a] = "idle" /\ node[a] = "none" /\ serial[a] = 0
                            /\ step[a] = "idle"
      /\ file.event = NoEvent /\ file.removal = "none"
      /\ file.processing = "pending" /\ file.queue = "pending"
      /\ result.outcome = "none"
      /\ \A w \in Request : web[w].at = "idle" /\ web[w].event = NoEvent
  BY DEF UploadInit, PipelineIdle, ClaimInit, NoRow, NoResult
<1>2. NothingSent /\ \A m \in Message : ~Sent(m)
  BY <1>1 DEF NothingSent, Sent
<1>3. WorkersOK
  <2>1. HandlersOK
    BY <1>1 DEF HandlersOK, HandlerOK, Working
  <2>2. RowsOK
    BY <1>1 DEF RowsOK, RowOK
  <2>3. ReceiptsOK
    BY <1>1 DEF ReceiptsOK, ReceivedOK
  <2> QED
    BY <2>1, <2>2, <2>3 DEF WorkersOK
<1>4. CurrentOK /\ FileOK /\ ReadResultOK /\ WaitingOK
  BY <1>1, <1>2, NoEventAssumption
  DEF CurrentOK, Newest, FileOK, ReadResultOK, WaitingOK
<1>5. RequestsOK /\ CompletionsOK /\ RetriesOK
  BY <1>1 DEF RequestsOK, RequestOK, CompletionsOK, RetriesOK, Undecided, Request
<1> QED
  BY <1>3, <1>4, <1>5 DEF BooksOK

-----------------------------------------------------------------------------
(* A handler at work works on the file's event, which it owns.             *)
LEMMA WorkerHasFile ==
  ASSUME TurnsInv, NEW a \in Attempt, pc[a] \in Working
  PROVE  /\ target[a] \in Event /\ target[a] = file.event
         /\ SentEvent(target[a]) /\ ~NothingSent
         /\ step[a] = "acquired" /\ ActiveClaim(a)
         /\ row[target[a]].state = "running" /\ row[target[a]].owner = a
         /\ row[target[a]].lease = "live"
<1>1. HandlerOK(a) /\ CurrentOK /\ DeliveryOK /\ UploadTypeOK
  BY DEF TurnsInv, WorkersOK, BooksOK, HandlersOK, UploadInv
<1>2. /\ receipt[a] \in Message /\ EventOf[receipt[a]] = target[a]
      /\ Sent(receipt[a]) /\ target[a] \in Event
  BY <1>1, PipelineAssumption DEF DeliveryOK, HandlerOK, Working
<1>3. /\ step[a] = "acquired" /\ ActiveClaim(a)
      /\ row[target[a]].state = "running" /\ row[target[a]].owner = a
      /\ row[target[a]].lease = "live"
  BY <1>1 DEF HandlerOK, ActiveClaim
<1>4. target[a] = file.event
  BY <1>1, <1>2, <1>3 DEF CurrentOK, TerminalState
<1> QED
  BY <1>2, <1>3, <1>4 DEF SentEvent, NothingSent

(* While the file's event has been sent, no request is undecided.          *)
LEMMA SentMeansDecided ==
  ASSUME TurnsInv, SentEvent(file.event), NEW w \in Request
  PROVE  ~Undecided(w)
  BY DEF TurnsInv, BooksOK, RequestsOK, RequestOK

(* What has a message is the upload or a retry of it: the file has an      *)
(* event, is shown as it is, and no completion is still to begin.          *)
LEMMA OpenedWasSent ==
  ASSUME TurnsInv, NEW a \in Attempt, serial[a] # 0
  PROVE  /\ pc[a] # "idle" /\ receipt[a] \in Message /\ Sent(receipt[a])
         /\ EventOf[receipt[a]] = target[a] /\ target[a] \in Event
         /\ row[target[a]].owner = a
<1>1. HandlerOK(a) /\ DeliveryOK
  BY DEF TurnsInv, WorkersOK, HandlersOK, UploadInv
<1> QED
  BY <1>1, PipelineAssumption DEF HandlerOK, DeliveryOK

(* The worker that holds the file's event may always save its result: no   *)
(* other attempt was at this event, and all others were at earlier ones.   *)
LEMMA MayAlwaysPersist ==
  ASSUME TurnsInv, NEW a \in Attempt, Run(a, "persist_results")
  PROVE  MayPersist(a)
<1>1. UploadTypeOK /\ PipelineTypeOK /\ HandlerOK(a) /\ ReadResultOK /\ CurrentOK
      /\ WriterOK
  BY DEF TurnsInv, WorkersOK, HandlersOK, BooksOK, UploadInv, UploadTypeOK
<1>2. pc[a] \in Working /\ serial[a] # 0 /\ node[a] = "persist_results"
  BY <1>1 DEF HandlerOK, Run, Working
<1>3. target[a] = file.event /\ target[a] \in Event
  BY <1>2, WorkerHasFile
<1>4. ASSUME NEW b \in Attempt, serial[b] # 0, b # a
      PROVE  RetryNumber[target[b]] < RetryNumber[target[a]]
  <2>1. /\ receipt[b] \in Message /\ Sent(receipt[b]) /\ EventOf[receipt[b]] = target[b]
        /\ row[target[b]].owner = b
    BY <1>4, OpenedWasSent
  <2>2. row[target[a]].owner = a
    BY <1>2, OpenedWasSent
  <2>3. target[b] # target[a]
    BY <1>4, <2>1, <2>2
  <2> QED
    BY <1>1, <1>3, <2>1, <2>3 DEF CurrentOK, Newest
<1>5. IsLatest(a)
  <2> SUFFICES ASSUME NEW b \in Attempt, serial[b] # 0
               PROVE  Later(a, b)
    BY DEF IsLatest
  <2>1. CASE b = a
    BY <1>1, <2>1 DEF Later, PipelineTypeOK
  <2>2. CASE b # a
    <3>1. target[b] \in Event
      BY OpenedWasSent
    <3>2. RetryNumber[target[a]] \in Nat /\ RetryNumber[target[b]] \in Nat
      BY <1>3, <3>1, PipelineAssumption
    <3> QED
      BY <1>4, <2>2, <3>2 DEF Later
  <2> QED
    BY <2>1, <2>2
<1>6. ASSUME result # NoResult
      PROVE  result.outcome \in Payloadless
  <2>1. result.by \in Attempt /\ result.outcome \in Outcome /\ result.outcome # "none"
    BY <1>1, <1>6 DEF PipelineTypeOK, Outcome, Payloadless
  <2>2. SUFFICES ASSUME result.outcome \notin Payloadless
                 PROVE  FALSE
    OBVIOUS
  <2>3. serial[result.by] # 0 /\ target[result.by] = file.event /\ node[result.by] \in Rested
    BY <1>1, <2>1, <2>2 DEF ReadResultOK
  <2>4. result.by = a
    <3>1. row[target[result.by]].owner = result.by /\ row[target[a]].owner = a
      BY <1>2, <2>1, <2>3, OpenedWasSent
    <3> QED
      BY <1>3, <2>3, <3>1
  <2> QED
    BY <1>2, <2>3, <2>4 DEF Rested
<1> QED
  BY <1>5, <1>6 DEF MayPersist

-----------------------------------------------------------------------------
(* Of the worker's failures, none is left.                                 *)
CalmHandle(a) ==
  \/ ClaimEvent(a) \/ AnswerRefused(a)
  \/ InitJob(a) /\ pc[a] = "init" /\ Goto(a, "graph") /\ node' = [node EXCEPT ![a] = "load_input"]
  \/ SetJobCurrentStep(a) /\ file' = [file EXCEPT !.processing = "processing"]
  \/ LoadInput(a) \/ ExtractDocument(a) \/ ProcessCertificates(a)
  \/ PersistResults(a) \/ FinalizeWorkflow(a)
  \/ RenewForFinish(a)
  \/ Finalize(a) /\ Goto(a, "delete")
  \/ DeleteMessage(a)
  \/ \E m \in Message : Receive(a, m)

LEMMA CalmStep ==
  ASSUME Undisturbed, TurnsInv, PipelineNext
  PROVE  \/ \E a \in Attempt : CalmHandle(a)
         \/ \E m \in Message : DeadLetter(m) \/ VisibilityLapses(m)
<1>1. /\ "throw" \notin Faults /\ "deaf" \notin Faults /\ "crash" \notin Faults
      /\ "stall" \notin Faults /\ "removal" \notin Faults
      /\ file.removal = "none"
  BY DEF Undisturbed, TurnsInv, BooksOK, FileOK
<1>2. ASSUME NEW a \in Attempt
      PROVE  /\ pc[a] \notin {"init_lost", "failing", "abandoning"}
             /\ pc[a] \in Working => ActiveClaim(a)
             /\ node[a] # "none" => pc[a] = "graph"
  BY DEF TurnsInv, WorkersOK, HandlersOK, HandlerOK, Working
<1>3. ASSUME NEW a \in Attempt, Handle(a)
      PROVE  CalmHandle(a)
  <2>1. ~ClaimThrows(a) /\ ~InitFails(a) /\ ~RecordingFails(a)
    BY <1>1 DEF ClaimThrows, InitFails, RecordingFails
  <2>2. ~NodeThrows(a)
    BY <1>1, MayAlwaysPersist DEF NodeThrows
  <2>3. ~FinishFails(a) /\ ~RecordClaimFailure(a)
    BY <1>1, <1>2 DEF FinishFails, RecordClaimFailure, Working
  <2>4. InitJob(a) => /\ pc[a] = "init" /\ Goto(a, "graph")
                      /\ node' = [node EXCEPT ![a] = "load_input"]
    BY <1>1, <1>2 DEF InitJob
  <2>5. SetJobCurrentStep(a) => file' = [file EXCEPT !.processing = "processing"]
    BY <1>1 DEF SetJobCurrentStep
  <2>6. Finalize(a) => Goto(a, "delete")
    BY <1>1 DEF Finalize
  <2> QED
    BY <1>3, <2>1, <2>2, <2>3, <2>4, <2>5, <2>6 DEF Handle, CalmHandle
<1>4. ASSUME NEW a \in Attempt
      PROVE  ~NoticeLoss(a) /\ ~Crash(a)
  BY <1>1, <1>2 DEF NoticeLoss, Crash, Working
<1>5. ASSUME NEW e \in Event
      PROVE  ~LeaseLapses(e)
  <2> SUFFICES ASSUME row[e].lease = "live", pc[row[e].owner] = "gone"
               PROVE  FALSE
    BY <1>1 DEF LeaseLapses, LeaseExpires
  <2>1. row[e].state = "running"
    BY DEF TurnsInv, UploadInv, LiveMeansRunning
  <2> QED
    BY <2>1 DEF TurnsInv, WorkersOK, RowsOK, RowOK, Working
<1>6. ~AskRemoval /\ ~RemoveUpload
  BY <1>1 DEF AskRemoval, RemoveUpload
<1> QED
  BY <1>3, <1>4, <1>5, <1>6 DEF PipelineNext, CalmHandle

-----------------------------------------------------------------------------
(* Most of the worker's steps leave the books as they are.                 *)
SentKept == \A m \in Message : queue'[m].at = "unsent" <=> queue[m].at = "unsent"

LEMMA BooksSame ==
  ASSUME TurnsInv, SentKept, UNCHANGED <<row, file, result, serial, web>>,
         \A a \in Attempt : serial[a] # 0 => target'[a] = target[a],
         \A a \in Attempt : node[a] \in Rested /\ serial[a] # 0 => node'[a] \in Rested
  PROVE  BooksOK'
<1>1. /\ \A m \in Message : Sent(m)' <=> Sent(m)
      /\ \A e : SentEvent(e)' <=> SentEvent(e)
      /\ NothingSent' <=> NothingSent
      /\ \A e : Newest(e)' <=> Newest(e)
  BY DEF SentKept, Sent, SentEvent, NothingSent, Newest
<1>2. BooksOK /\ PipelineTypeOK /\ WriterOK
  BY DEF TurnsInv, UploadInv, UploadTypeOK
<1>3. CurrentOK' /\ FileOK'
  BY <1>1, <1>2 DEF BooksOK, CurrentOK, FileOK, ShowsEvent
<1>4. RequestsOK' /\ CompletionsOK' /\ WaitingOK'
  BY <1>1, <1>2 DEF BooksOK, RequestsOK, RequestOK, CompletionsOK, WaitingOK, Undecided
<1>5. RetriesOK'
  BY <1>1, <1>2 DEF BooksOK, RetriesOK, RestoresTo, Undecided
<1>6. ReadResultOK'
  BY <1>2 DEF BooksOK, ReadResultOK, WriterOK, NoResult
<1> QED
  BY <1>3, <1>4, <1>5, <1>6 DEF BooksOK

(* So does what the worker does inside one handler, to the workers.        *)
LEMMA WorkersSame ==
  ASSUME TurnsInv, SentKept, NEW a \in Attempt, HandlerOK(a)',
         UNCHANGED <<row, serial, number>>,
         \A m \in Message : queue'[m].receives = queue[m].receives,
         \A m \in Message : queue'[m].at = "dlq" => queue[m].at = "dlq",
         \A b \in Attempt : b # a =>
           /\ pc'[b] = pc[b] /\ node'[b] = node[b] /\ step'[b] = step[b]
           /\ target'[b] = target[b] /\ receipt'[b] = receipt[b],
         pc[a] \in Working => target'[a] = target[a] /\ pc'[a] \in Working,
         pc'[a] # pc[a] => pc[a] # "claim" \/ row[target[a]].state # "absent",
         pc[a] = "claim" => receipt'[a] = receipt[a]
  PROVE  WorkersOK'
<1>1. /\ \A m \in Message : Sent(m)' <=> Sent(m)
      /\ \A e : SentEvent(e)' <=> SentEvent(e)
  BY DEF SentKept, Sent, SentEvent
<1>2. WorkersOK /\ DeliveryOK /\ PipelineTypeOK
  BY DEF TurnsInv, UploadInv, UploadTypeOK
<1>3. HandlersOK'
  <2> SUFFICES ASSUME NEW b \in Attempt, b # a
               PROVE  HandlerOK(b)'
    BY DEF HandlersOK
  <2>1. HandlerOK(b) /\ (pc[b] # "idle" => receipt[b] \in Message)
    BY <1>2 DEF WorkersOK, HandlersOK, DeliveryOK
  <2>2. pc[b] # "idle" => (Sent(receipt[b]) => Sent(receipt[b])')
    BY <2>1 DEF Sent, SentKept
  <2> QED
    BY <2>1, <2>2 DEF HandlerOK, ActiveClaim, Working
<1>4. RowsOK'
  <2> SUFFICES ASSUME NEW e \in Event
               PROVE  RowOK(e)'
    BY DEF RowsOK
  <2>1. RowOK(e)
    BY <1>2 DEF WorkersOK, RowsOK
  <2> QED
    BY <1>1, <2>1 DEF RowOK
<1>5. ReceiptsOK'
  <2> SUFFICES ASSUME NEW m \in Message
               PROVE  ReceivedOK(m)'
    BY DEF ReceiptsOK
  <2>1. ReceivedOK(m)
    BY <1>2 DEF WorkersOK, ReceiptsOK
  <2>2. ASSUME row[EventOf[m]].state = "absent", NEW b \in Attempt,
               receipt[b] = m, pc[b] = "claim"
        PROVE  receipt'[b] = m /\ pc'[b] = "claim"
    <3>1. target[b] = EventOf[m]
      BY <1>2, <2>2 DEF DeliveryOK
    <3> QED
      BY <2>2, <3>1
  <2> QED
    BY <2>1, <2>2 DEF ReceivedOK
<1> QED
  BY <1>3, <1>4, <1>5 DEF WorkersOK

LEMMA HandlerOwnSteps ==
  ASSUME Undisturbed, TurnsInv, UploadInv', web' = web, NEW a \in Attempt,
         \/ ClaimEvent(a) /\ ~ClaimRow(a)
         \/ AnswerRefused(a)
         \/ SetJobCurrentStep(a) /\ file' = [file EXCEPT !.processing = "processing"]
         \/ LoadInput(a) \/ ExtractDocument(a) \/ ProcessCertificates(a)
         \/ FinalizeWorkflow(a) \/ RenewForFinish(a) \/ DeleteMessage(a)
  PROVE  WorkersOK' /\ BooksOK'
<1>1. /\ HandlerOK(a) /\ PipelineTypeOK /\ UploadTypeOK /\ DeliveryOK
      /\ row \in [Event -> Row] /\ FileTyped(file)
      /\ pc \in [Attempt -> PC] /\ node \in [Attempt -> Node \union {"none"}]
      /\ step \in [Attempt -> Step] /\ target \in [Attempt -> Event \union {NoEvent}]
      /\ number \in [Attempt -> Nat] /\ serial \in [Attempt -> Nat]
      /\ receipt \in [Attempt -> Message \union {NoMessage}]
  BY DEF TurnsInv, WorkersOK, HandlersOK, UploadInv, UploadTypeOK, PipelineTypeOK,
         ClaimTypeOK, FileTyped
<1> DEFINE Calm ==
      /\ SentKept /\ HandlerOK(a)'
      /\ UNCHANGED <<row, file, result, serial, web, number, target, receipt>>
      /\ \A b \in Attempt : node[b] \in Rested /\ serial[b] # 0 => node'[b] \in Rested
      /\ \A m \in Message : queue'[m].receives = queue[m].receives
      /\ \A m \in Message : queue'[m].at = "dlq" => queue[m].at = "dlq"
      /\ \A b \in Attempt : b # a =>
           pc'[b] = pc[b] /\ node'[b] = node[b] /\ step'[b] = step[b]
      /\ pc[a] \in Working => pc'[a] \in Working
      /\ pc'[a] # pc[a] => pc[a] # "claim" \/ row[target[a]].state # "absent"
<1>2. CASE ClaimEvent(a) /\ ~ClaimRow(a)
  <2>1. /\ step' = [step EXCEPT ![a] = "reading"] /\ pc' = pc /\ pc[a] = "claim"
        /\ UNCHANGED <<row, target, number, queue, receipt, node, serial, file, result>>
        /\ ~Claimable(row[target[a]])
    BY <1>2 DEF ClaimEvent, ClaimRefused, queueVars, recordVars
  <2>2. row[target[a]].state # "absent"
    BY <2>1 DEF Claimable
  <2>3. Sent(receipt[a])' <=> Sent(receipt[a])
    BY <2>1 DEF Sent
  <2>4. HandlerOK(a)'
    BY <1>1, <2>1, <2>2, <2>3 DEF HandlerOK, Working
  <2>5. Calm
    BY <1>1, <2>1, <2>4 DEF SentKept, Working
  <2> QED
    BY <2>5, BooksSame, WorkersSame
<1>3. CASE AnswerRefused(a)
  <2>1. /\ step[a] = "reading" /\ pc[a] = "claim"
        /\ step' = [step EXCEPT ![a] = step'[a]] /\ step'[a] \in {"terminal_replay", "busy"}
        /\ pc' = [pc EXCEPT ![a] = pc'[a]] /\ pc'[a] \in {"delete", "gone"}
        /\ UNCHANGED <<row, target, number, queue, receipt, node, serial, file, result>>
    BY <1>1, <1>3 DEF AnswerRefused, ReadRefused, Goto, queueVars, recordVars
  <2>2. row[target[a]].state # "absent"
    BY <1>1, <2>1 DEF HandlerOK
  <2>3. Sent(receipt[a])' <=> Sent(receipt[a])
    BY <2>1 DEF Sent
  <2>4. HandlerOK(a)'
    BY <1>1, <2>1, <2>2, <2>3 DEF HandlerOK, Working
  <2>5. Calm
    BY <1>1, <2>1, <2>2, <2>4 DEF SentKept, Working
  <2> QED
    BY <2>5, BooksSame, WorkersSame
<1>4. ASSUME pc[a] = "graph",
             /\ node' = [node EXCEPT ![a] = node'[a]]
             /\ \/ node'[a] = node[a]
                \/ node[a] \notin Rested
                \/ node'[a] \in Rested
             /\ \/ pc' = pc
                \/ pc' = [pc EXCEPT ![a] = "finish"] /\ node'[a] = "none"
             /\ UNCHANGED <<claimVars, queue, receipt, serial, file, result>>
      PROVE  Calm
  <2>1. Sent(receipt[a])' <=> Sent(receipt[a])
    BY <1>4 DEF Sent
  <2>2. HandlerOK(a)'
    BY <1>1, <1>4, <2>1 DEF HandlerOK, Working, ActiveClaim, claimVars
  <2> QED
    BY <1>1, <1>4, <2>2 DEF SentKept, Working, claimVars
<1>5. node[a] # "none" => pc[a] = "graph"
  BY <1>1 DEF HandlerOK
<1>6. CASE SetJobCurrentStep(a) /\ file' = [file EXCEPT !.processing = "processing"]
  <2>1. file.processing = "processing"
    <3>1. pc[a] = "graph"
      BY <1>5, <1>6 DEF SetJobCurrentStep
    <3>2. /\ file.event \in Event /\ serial[a] # 0
          /\ row[file.event].state = "running" /\ row[file.event].owner = a
      BY <1>1, <3>1, WorkerHasFile DEF HandlerOK, Working
    <3> QED
      BY <3>2 DEF TurnsInv, BooksOK, FileOK, ShowsEvent
  <2>2. file' = file
    BY <1>1, <1>6, <2>1 DEF FileTyped
  <2>3. Calm
    BY <1>1, <1>4, <1>5, <1>6, <2>2 DEF SetJobCurrentStep, queueVars, recordVars
  <2> QED
    BY <2>3, BooksSame, WorkersSame
<1>7. CASE LoadInput(a) \/ ExtractDocument(a) \/ ProcessCertificates(a) \/ FinalizeWorkflow(a)
  <2>1. /\ pc[a] = "graph"
        /\ UNCHANGED <<claimVars, queue, receipt, serial, file, result>>
    BY <1>5, <1>7
    DEF LoadInput, ExtractDocument, ProcessCertificates, FinalizeWorkflow, Run,
        queueVars, recordVars
  <2>2. /\ node' = [node EXCEPT ![a] = node'[a]]
        /\ node[a] \notin Rested \/ node'[a] \in Rested
        /\ pc' = pc \/ (pc' = [pc EXCEPT ![a] = "finish"] /\ node'[a] = "none")
    BY <1>1, <1>7, <2>1
    DEF LoadInput, ExtractDocument, ProcessCertificates, FinalizeWorkflow, Run, EnterNode,
        Goto, Rested
  <2>3. Calm
    BY <1>4, <2>1, <2>2
  <2> QED
    BY <2>3, BooksSame, WorkersSame
<1>8. CASE RenewForFinish(a)
  <2>1. /\ pc[a] = "finish" /\ pc' = [pc EXCEPT ![a] = "finalize"]
        /\ row' = [row EXCEPT ![target[a]].lease = "live"]
        /\ UNCHANGED <<step, target, number, queue, receipt, node, serial, file, result>>
    BY <1>8 DEF RenewForFinish, Renew, Goto, queueVars, recordVars
  <2>2. row[target[a]].lease = "live" /\ target[a] \in Event
    BY <2>1, WorkerHasFile DEF Working
  <2>3. row' = row
    BY <1>1, <2>1, <2>2 DEF Row
  <2>4. Sent(receipt[a])' <=> Sent(receipt[a])
    BY <2>1 DEF Sent
  <2>5. HandlerOK(a)'
    BY <1>1, <2>1, <2>3, <2>4 DEF HandlerOK, Working, ActiveClaim
  <2>6. Calm
    BY <1>1, <2>1, <2>3, <2>5 DEF SentKept, Working
  <2> QED
    BY <2>6, BooksSame, WorkersSame
<1>9. CASE DeleteMessage(a)
  <2>1. /\ pc[a] = "delete" /\ pc' = [pc EXCEPT ![a] = "gone"]
        /\ UNCHANGED <<claimVars, receipt, node, serial, file, result>>
    BY <1>9 DEF DeleteMessage, Goto, recordVars
  <2>2. /\ SentKept
        /\ \A m \in Message : queue'[m].receives = queue[m].receives
        /\ \A m \in Message : queue'[m].at = "dlq" => queue[m].at = "dlq"
    <3>1. CASE queue' = queue
      BY <3>1 DEF SentKept
    <3>2. CASE /\ queue[receipt[a]].at \in {"visible", "inflight"}
               /\ queue' = [queue EXCEPT ![receipt[a]].at = "deleted"]
      <4>1. \A m \in Message :
              /\ queue'[m].receives = queue[m].receives
              /\ m # receipt[a] => queue'[m].at = queue[m].at
              /\ m = receipt[a] => queue'[m].at = "deleted"
        BY <1>1, <3>2 DEF PipelineTypeOK
      <4> QED
        BY <3>2, <4>1 DEF SentKept
    <3> QED
      BY <1>9, <3>1, <3>2 DEF DeleteMessage
  <2>3. receipt[a] \in Message /\ (Sent(receipt[a])' <=> Sent(receipt[a]))
    BY <1>1, <2>1, <2>2 DEF Sent, SentKept, DeliveryOK
  <2>4. HandlerOK(a)'
    BY <1>1, <2>1, <2>3 DEF HandlerOK, Working, claimVars
  <2>5. Calm
    BY <1>1, <2>1, <2>2, <2>4 DEF Working, claimVars
  <2> QED
    BY <2>5, BooksSame, WorkersSame
<1> QED
  BY <1>2, <1>3, <1>6, <1>7, <1>8, <1>9

(* What happens to a message in the queue disturbs nothing.                *)
LEMMA QueueSteps ==
  ASSUME Undisturbed, TurnsInv, web' = web, NEW m \in Message,
         DeadLetter(m) \/ VisibilityLapses(m)
  PROVE  WorkersOK' /\ BooksOK'
<1>1. /\ UNCHANGED <<row, step, target, number, receipt, pc, node, serial, file, result>>
      /\ queue[m].at \in {"visible", "inflight"}
      /\ \E l \in {"dlq", "visible"} :
           /\ queue' = [queue EXCEPT ![m].at = l]
           /\ l = "dlq" => queue[m].receives = MaxReceive
  BY DEF DeadLetter, VisibilityLapses, claimVars, handlerVars, recordVars
<1>2. PipelineTypeOK /\ WorkersOK /\ DeliveryOK
  BY DEF TurnsInv, UploadInv, UploadTypeOK
<1>3. \A n \in Message :
        /\ queue'[n].receives = queue[n].receives
        /\ queue'[n].at # queue[n].at =>
             queue[n].at # "unsent" /\ queue'[n].at # "unsent" /\ queue[n].receives \in Nat
        /\ queue'[n].at = "dlq" =>
             queue[n].at = "dlq" \/ queue[n].receives = MaxReceive
  BY <1>1, <1>2, PipelineAssumption DEF PipelineTypeOK
<1>4. /\ SentKept
      /\ \A e : SentEvent(e)' <=> SentEvent(e)
      /\ \A n \in Message : Sent(n)' <=> Sent(n)
  BY <1>3 DEF SentKept, SentEvent, Sent
<1>5. BooksOK'
  BY <1>1, <1>4, BooksSame
<1>6. HandlersOK'
  BY <1>1, <1>2, <1>4
  DEF WorkersOK, HandlersOK, HandlerOK, ActiveClaim, DeliveryOK
<1>7. RowsOK'
  BY <1>1, <1>2, <1>4 DEF WorkersOK, RowsOK, RowOK
<1>8. ReceiptsOK'
  BY <1>1, <1>2, <1>3, PipelineAssumption DEF WorkersOK, ReceiptsOK, ReceivedOK
<1> QED
  BY <1>5, <1>6, <1>7, <1>8 DEF WorkersOK

LEMMA ReceiveStep ==
  ASSUME Undisturbed, TurnsInv, web' = web, NEW a \in Attempt, NEW m \in Message,
         Receive(a, m)
  PROVE  WorkersOK' /\ BooksOK'
<1>1. /\ PipelineTypeOK /\ WorkersOK /\ DeliveryOK /\ HandlerOK(a)
      /\ pc \in [Attempt -> PC] /\ receipt \in [Attempt -> Message \union {NoMessage}]
      /\ step \in [Attempt -> Step] /\ target \in [Attempt -> Event \union {NoEvent}]
      /\ EventOf[m] \in Event
  BY PipelineAssumption
  DEF TurnsInv, UploadInv, UploadTypeOK, WorkersOK, HandlersOK, PipelineTypeOK, ClaimTypeOK
<1>2. /\ pc[a] = "idle" /\ pc' = [pc EXCEPT ![a] = "claim"]
      /\ queue[m].at = "visible"
      /\ queue' = [queue EXCEPT ![m] = [at |-> "inflight", receives |-> queue[m].receives + 1]]
      /\ receipt' = [receipt EXCEPT ![a] = m]
      /\ step' = [step EXCEPT ![a] = "claiming"]
      /\ target' = [target EXCEPT ![a] = EventOf[m]]
      /\ UNCHANGED <<row, number, node, serial, file, result>>
  BY DEF Receive, Deliver, Goto, recordVars
<1>3. \A n \in Message :
        /\ n # m => queue'[n] = queue[n]
        /\ queue'[m].at = "inflight"
  BY <1>1, <1>2 DEF PipelineTypeOK
<1>4. /\ SentKept
      /\ \A e : SentEvent(e)' <=> SentEvent(e)
      /\ \A n \in Message : Sent(n)' <=> Sent(n)
      /\ Sent(m)'
  <2>1. SentKept
    BY <1>2, <1>3 DEF SentKept
  <2> QED
    BY <1>3, <2>1 DEF SentKept, SentEvent, Sent
<1>5. serial[a] = 0 /\ node[a] = "none"
  BY <1>1, <1>2 DEF HandlerOK
<1>6. BooksOK'
  <2>1. \A b \in Attempt : serial[b] # 0 => target'[b] = target[b]
    BY <1>1, <1>2, <1>5
  <2> QED
    BY <1>2, <1>4, <2>1, BooksSame
<1>7. HandlersOK'
  <2>1. /\ pc'[a] = "claim" /\ receipt'[a] = m /\ step'[a] = "claiming"
        /\ serial'[a] = 0 /\ node'[a] = "none"
    BY <1>1, <1>2, <1>5
  <2>2. HandlerOK(a)'
    BY <1>4, <2>1 DEF HandlerOK, Working
  <2>3. ASSUME NEW b \in Attempt, b # a
        PROVE  HandlerOK(b)'
    <3>1. /\ HandlerOK(b) /\ (pc[b] # "idle" => receipt[b] \in Message)
          /\ pc'[b] = pc[b] /\ receipt'[b] = receipt[b] /\ step'[b] = step[b]
          /\ target'[b] = target[b]
      BY <1>1, <1>2, <2>3 DEF WorkersOK, HandlersOK, DeliveryOK
    <3>2. pc[b] # "idle" => (Sent(receipt[b])' <=> Sent(receipt[b]))
      BY <1>4, <3>1
    <3> QED
      BY <1>2, <3>1, <3>2 DEF HandlerOK, ActiveClaim
  <2> QED
    BY <2>2, <2>3 DEF HandlersOK
<1>8. RowsOK'
  <2> SUFFICES ASSUME NEW e \in Event
               PROVE  RowOK(e)'
    BY DEF RowsOK
  <2>1. RowOK(e)
    BY <1>1 DEF WorkersOK, RowsOK
  <2> QED
    BY <1>1, <1>2, <1>4, <2>1 DEF RowOK, Working
<1>9. ReceiptsOK'
  <2> SUFFICES ASSUME NEW n \in Message
               PROVE  ReceivedOK(n)'
    BY DEF ReceiptsOK
  <2>1. CASE n = m
    <3>1. receipt'[a] = m /\ pc'[a] = "claim"
      BY <1>1, <1>2
    <3> QED
      BY <1>3, <2>1, <3>1 DEF ReceivedOK
  <2>2. CASE n # m
    <3>1. ReceivedOK(n) /\ queue'[n] = queue[n]
      BY <1>1, <1>3, <2>2 DEF WorkersOK, ReceiptsOK
    <3>2. ASSUME NEW b \in Attempt, receipt[b] = n, pc[b] = "claim"
          PROVE  receipt'[b] = n /\ pc'[b] = "claim"
      BY <1>1, <1>2, <3>2
    <3> QED
      BY <1>2, <3>1, <3>2 DEF ReceivedOK
  <2> QED
    BY <2>1, <2>2
<1> QED
  BY <1>6, <1>7, <1>8, <1>9 DEF WorkersOK

-----------------------------------------------------------------------------
(* A claim is the first of its event, which is the file's.                 *)
LEMMA ClaimStep ==
  ASSUME Undisturbed, TurnsInv, web' = web, NEW a \in Attempt,
         ClaimEvent(a), ClaimRow(a)
  PROVE  WorkersOK' /\ BooksOK'
<1> DEFINE e == target[a]
<1>1. /\ PipelineTypeOK /\ WorkersOK /\ BooksOK /\ DeliveryOK /\ HandlerOK(a)
      /\ pc \in [Attempt -> PC] /\ row \in [Event -> Row]
      /\ step \in [Attempt -> Step] /\ target \in [Attempt -> Event \union {NoEvent}]
      /\ number \in [Attempt -> Nat]
      /\ \A b \in Attempt : step[b] # "idle" => target[b] \in Event
      /\ LiveMeansRunning
  BY DEF TurnsInv, UploadInv, UploadTypeOK, WorkersOK, HandlersOK, PipelineTypeOK, ClaimTypeOK
<1>2. /\ pc[a] = "claim" /\ step[a] = "claiming" /\ Claimable(row[e])
      /\ row' = [row EXCEPT ![e] = [state |-> "running", owner |-> a,
                                    number |-> row[e].number + 1, lease |-> "live"]]
      /\ number' = [number EXCEPT ![a] = row[e].number + 1]
      /\ step' = [step EXCEPT ![a] = "acquired"]
      /\ pc' = [pc EXCEPT ![a] = "init"]
      /\ UNCHANGED <<target, queue, receipt, node, serial, file, result>>
  BY <1>1 DEF ClaimEvent, ClaimRow, ClaimRefused, Goto, queueVars, recordVars
<1>3. /\ receipt[a] \in Message /\ EventOf[receipt[a]] = e /\ e \in Event
      /\ Sent(receipt[a]) /\ serial[a] = 0 /\ node[a] = "none"
  BY <1>1, <1>2, PipelineAssumption DEF DeliveryOK, HandlerOK, Working
<1> HIDE DEF e
<1>4. row[e].state = "absent"
  <2>1. RowOK(e)
    BY <1>1, <1>3 DEF WorkersOK, RowsOK
  <2>2. ASSUME row[e].state = "running"
        PROVE  FALSE
    <3>1. HandlerOK(row[e].owner) /\ pc[row[e].owner] \in Working /\ target[row[e].owner] = e
      BY <1>1, <2>1, <2>2 DEF WorkersOK, HandlersOK, RowOK
    <3>2. row[e].lease = "live"
      BY <3>1 DEF HandlerOK, ActiveClaim
    <3> QED
      BY <1>2, <2>2, <3>2 DEF Claimable
  <2> QED
    BY <1>2, <2>1, <2>2 DEF RowOK, Claimable, TerminalState
<1>5. e = file.event /\ SentEvent(e) /\ ~NothingSent
  BY <1>1, <1>3, <1>4 DEF BooksOK, CurrentOK, SentEvent, NothingSent, TerminalState
<1>6. /\ row'[e].state = "running" /\ row'[e].owner = a /\ row'[e].lease = "live"
      /\ row'[e].number = row[e].number + 1
      /\ \A f \in Event : f # e => row'[f] = row[f]
  BY <1>1, <1>2, <1>3
<1>7. /\ \A m \in Message : Sent(m)' <=> Sent(m)
      /\ \A f : SentEvent(f)' <=> SentEvent(f)
      /\ NothingSent' <=> NothingSent
      /\ \A f : Newest(f)' <=> Newest(f)
  BY <1>2 DEF Sent, SentEvent, NothingSent, Newest
<1>8. HandlersOK'
  <2>1. HandlerOK(a)'
    <3>1. /\ pc'[a] = "init" /\ step'[a] = "acquired" /\ serial'[a] = 0 /\ node'[a] = "none"
          /\ target'[a] = e /\ number'[a] = row[e].number + 1 /\ receipt'[a] = receipt[a]
      BY <1>1, <1>2, <1>3 DEF e
    <3>2. ActiveClaim(a)'
      BY <1>6, <3>1 DEF ActiveClaim
    <3>3. Sent(receipt[a])'
      BY <1>2, <1>3 DEF Sent
    <3> QED
      BY <1>6, <3>1, <3>2, <3>3 DEF HandlerOK, Working
  <2>2. ASSUME NEW b \in Attempt, b # a
        PROVE  HandlerOK(b)'
    <3>1. /\ HandlerOK(b) /\ (pc[b] # "idle" => receipt[b] \in Message /\ target[b] \in Event)
          /\ pc'[b] = pc[b] /\ step'[b] = step[b] /\ number'[b] = number[b]
      BY <1>1, <1>2, <2>2, PipelineAssumption DEF WorkersOK, HandlersOK, DeliveryOK
    <3>2. pc[b] # "idle" => (Sent(receipt[b])' <=> Sent(receipt[b]))
      BY <1>2 DEF Sent
    <3>3. CASE target[b] = e
      BY <1>2, <1>4, <1>6, <3>1, <3>2, <3>3 DEF HandlerOK, ActiveClaim
    <3>4. CASE target[b] # e
      <4>1. pc[b] # "idle" \/ step[b] # "idle" => row'[target[b]] = row[target[b]]
        BY <1>1, <1>6, <3>1, <3>4
      <4> QED
        BY <1>2, <3>1, <3>2, <4>1 DEF HandlerOK, ActiveClaim, Working
    <3> QED
      BY <3>3, <3>4
  <2> QED
    BY <2>1, <2>2 DEF HandlersOK
<1>9. RowsOK'
  <2> SUFFICES ASSUME NEW f \in Event
               PROVE  RowOK(f)'
    BY DEF RowsOK
  <2>1. CASE f = e
    <3>1. target'[a] = e /\ pc'[a] \in Working
      BY <1>1, <1>2 DEF e, Working
    <3> QED
      BY <1>5, <1>6, <1>7, <2>1, <3>1 DEF RowOK
  <2>2. CASE f # e
    <3>1. RowOK(f) /\ row'[f] = row[f]
      BY <1>1, <1>6, <2>2 DEF WorkersOK, RowsOK
    <3>2. pc[a] \notin Working
      BY <1>2 DEF Working
    <3>3. \A b \in Attempt : pc[b] \in Working => pc'[b] \in Working
      BY <1>1, <1>2, <3>2
    <3> QED
      BY <1>2, <1>7, <3>1, <3>3 DEF RowOK
  <2> QED
    BY <2>1, <2>2
<1>10. ReceiptsOK'
  <2> SUFFICES ASSUME NEW m \in Message
               PROVE  ReceivedOK(m)'
    BY DEF ReceiptsOK
  <2>1. ReceivedOK(m)
    BY <1>1 DEF WorkersOK, ReceiptsOK
  <2>2. EventOf[m] # e => EventOf[m] \in Event /\ row'[EventOf[m]] = row[EventOf[m]]
    BY <1>6, PipelineAssumption
  <2>3. ASSUME EventOf[m] # e, NEW b \in Attempt, receipt[b] = m, pc[b] = "claim"
        PROVE  pc'[b] = "claim"
    <3>1. b # a
      BY <1>3, <2>3
    <3> QED
      BY <1>1, <1>2, <2>3, <3>1
  <2> QED
    BY <1>2, <1>6, <2>1, <2>2, <2>3 DEF ReceivedOK
<1>11. CurrentOK'
  <2>1. \A f \in Event : row[f].state \in TerminalState => row'[f].state = row[f].state
    BY <1>4, <1>6 DEF TerminalState
  <2> QED
    BY <1>1, <1>2, <1>7, <2>1, PipelineAssumption DEF BooksOK, CurrentOK
<1>12. FileOK'
  <2>1. ShowsEvent(row[e]) /\ file.queue # "failed" /\ file.queue # "pending"
    BY <1>1, <1>3, <1>4, <1>5 DEF BooksOK, FileOK, ShowsEvent
  <2>2. file.queue \in {"sending", "queued"}
    BY <1>1, <2>1 DEF PipelineTypeOK
  <2>3. ShowsEvent(row[file.event])'
    BY <1>2, <1>3, <1>4, <1>5, <1>6, <2>1, <2>2 DEF ShowsEvent, TerminalState
  <2> QED
    BY <1>1, <1>2, <1>7, <2>3 DEF BooksOK, FileOK
<1>13. RequestsOK' /\ CompletionsOK' /\ WaitingOK' /\ ReadResultOK'
  BY <1>1, <1>2, <1>7
  DEF BooksOK, RequestsOK, RequestOK, CompletionsOK, WaitingOK, Undecided, ReadResultOK
<1>14. RetriesOK'
  <2>1. \A p : RestoresTo(p) => RestoresTo(p)'
    BY <1>2, <1>4, <1>6, <1>7 DEF RestoresTo, TerminalState
  <2> QED
    BY <1>1, <1>2, <2>1 DEF BooksOK, RetriesOK, Undecided
<1> QED
  BY <1>8, <1>9, <1>10, <1>11, <1>12, <1>13, <1>14 DEF WorkersOK, BooksOK

-----------------------------------------------------------------------------
(* Opening the job, saving the result and settling the event are steps of  *)
(* the one handler at work on the file's event.                            *)
LEMMA OwnerStep ==
  ASSUME TurnsInv, NEW a \in Attempt, pc[a] \in Working, HandlerOK(a)',
         UNCHANGED <<queue, receipt, step, target, number>>,
         \A b \in Attempt : b # a =>
           pc'[b] = pc[b] /\ node'[b] = node[b] /\ serial'[b] = serial[b],
         \A e \in Event : e # target[a] => row'[e] = row[e],
         row'[target[a]].owner = a,
         \/ row'[target[a]].state \in TerminalState
         \/ row'[target[a]].state = "running" /\ pc'[a] \in Working
  PROVE  WorkersOK'
<1>1. /\ target[a] \in Event /\ SentEvent(target[a])
      /\ row[target[a]].state = "running" /\ row[target[a]].owner = a
  BY WorkerHasFile
<1>2. WorkersOK /\ DeliveryOK /\ UploadTypeOK /\ PipelineTypeOK
      /\ \A b \in Attempt : step[b] # "idle" => target[b] \in Event
  BY DEF TurnsInv, UploadInv, UploadTypeOK, PipelineTypeOK, ClaimTypeOK
<1>3. /\ \A m \in Message : Sent(m)' <=> Sent(m)
      /\ \A e : SentEvent(e)' <=> SentEvent(e)
  BY DEF Sent, SentEvent
<1>4. row'[target[a]].state # "absent"
  BY DEF TerminalState
<1>5. HandlersOK'
  <2> SUFFICES ASSUME NEW b \in Attempt, b # a
               PROVE  HandlerOK(b)'
    BY DEF HandlersOK
  <2>1. /\ HandlerOK(b)
        /\ pc[b] # "idle" => receipt[b] \in Message /\ target[b] \in Event
    BY <1>2, PipelineAssumption DEF WorkersOK, HandlersOK, DeliveryOK
  <2>2. pc[b] # "idle" => (Sent(receipt[b])' <=> Sent(receipt[b]))
    BY DEF Sent
  <2>3. CASE target[b] = target[a]
    <3>1. serial[b] = 0
      BY <1>1, <2>1, <2>3 DEF HandlerOK
    <3>2. pc[b] \notin Working
      BY <1>1, <2>1, <2>3 DEF HandlerOK, ActiveClaim
    <3> QED
      BY <1>4, <2>1, <2>2, <2>3, <3>1, <3>2 DEF HandlerOK
  <2>4. CASE target[b] # target[a]
    <3>1. pc[b] # "idle" \/ step[b] # "idle" => row'[target[b]] = row[target[b]]
      BY <1>2, <2>1, <2>4
    <3> QED
      BY <2>1, <2>2, <3>1 DEF HandlerOK, ActiveClaim, Working
  <2> QED
    BY <2>3, <2>4
<1>6. RowsOK'
  <2> SUFFICES ASSUME NEW e \in Event
               PROVE  RowOK(e)'
    BY DEF RowsOK
  <2>1. CASE e = target[a]
    BY <1>1, <1>3, <1>4, <2>1 DEF RowOK, TerminalState
  <2>2. CASE e # target[a]
    <3>1. RowOK(e) /\ row'[e] = row[e]
      BY <1>2, <2>2 DEF WorkersOK, RowsOK
    <3>2. row[e].state = "running" => row[e].owner # a
      BY <2>2, <3>1 DEF RowOK
    <3> QED
      BY <1>3, <3>1, <3>2 DEF RowOK
  <2> QED
    BY <2>1, <2>2
<1>7. ReceiptsOK'
  <2> SUFFICES ASSUME NEW m \in Message
               PROVE  ReceivedOK(m)'
    BY DEF ReceiptsOK
  <2>1. ReceivedOK(m)
    BY <1>2 DEF WorkersOK, ReceiptsOK
  <2>2. row'[EventOf[m]].state = "absent" => row[EventOf[m]].state = "absent"
    BY <1>4, PipelineAssumption
  <2>3. ASSUME NEW b \in Attempt, receipt[b] = m, pc[b] = "claim"
        PROVE  pc'[b] = "claim"
    BY <2>3 DEF Working
  <2> QED
    BY <2>1, <2>2, <2>3 DEF ReceivedOK
<1> QED
  BY <1>5, <1>6, <1>7 DEF WorkersOK

(* For the books: the file stays at its event, which was sent and is not   *)
(* settled yet, so no request may touch the file.                          *)
LEMMA OwnerBooks ==
  ASSUME TurnsInv, NEW a \in Attempt, pc[a] \in Working,
         UNCHANGED <<queue, target, web>>,
         \A e \in Event : e # target[a] => row'[e] = row[e],
         file'.event = target[a], file'.removal = "none", file'.queue # "failed",
         ShowsEvent(row[file.event])', ReadResultOK'
  PROVE  BooksOK'
<1>1. /\ target[a] \in Event /\ target[a] = file.event /\ SentEvent(file.event)
      /\ row[target[a]].state = "running"
  BY WorkerHasFile
<1>2. BooksOK
  BY DEF TurnsInv
<1>3. /\ \A m \in Message : Sent(m)' <=> Sent(m)
      /\ \A e : SentEvent(e)' <=> SentEvent(e)
      /\ NothingSent' <=> NothingSent
      /\ \A e : Newest(e)' <=> Newest(e)
  BY DEF Sent, SentEvent, NothingSent, Newest
<1>4. \A w \in Request : ~Undecided(w) /\ ~Undecided(w)'
  BY <1>1, SentMeansDecided DEF Undecided
<1>5. CurrentOK'
  <2>1. Newest(file.event)'
    BY <1>1, <1>2 DEF BooksOK, CurrentOK, Newest, Sent
  <2> QED
    BY <1>1, <1>2, <1>3, <2>1, PipelineAssumption DEF BooksOK, CurrentOK
<1>6. FileOK' /\ WaitingOK'
  BY <1>1, <1>3, NoEventAssumption DEF FileOK, WaitingOK, SentEvent, Sent
<1>7. RequestsOK' /\ CompletionsOK' /\ RetriesOK'
  <2>1. file'.event = file.event
    BY <1>1
  <2> QED
    BY <1>2, <1>3, <1>4, <2>1
    DEF BooksOK, RequestsOK, RequestOK, CompletionsOK, RetriesOK, Request
<1> QED
  BY <1>5, <1>6, <1>7 DEF BooksOK

LEMMA InitStep ==
  ASSUME Undisturbed, TurnsInv, web' = web, NEW a \in Attempt,
         InitJob(a), pc[a] = "init", Goto(a, "graph"),
         node' = [node EXCEPT ![a] = "load_input"]
  PROVE  WorkersOK' /\ BooksOK'
<1>1. /\ PipelineTypeOK /\ HandlerOK(a) /\ BooksOK /\ FileTyped(file) /\ WriterOK
      /\ pc \in [Attempt -> PC] /\ node \in [Attempt -> Node \union {"none"}]
      /\ serial \in [Attempt -> Nat]
  BY DEF TurnsInv, UploadInv, UploadTypeOK, WorkersOK, HandlersOK, PipelineTypeOK, FileTyped
<1>2. /\ pc' = [pc EXCEPT ![a] = "graph"]
      /\ serial' = [serial EXCEPT ![a] = Cardinality({b \in Attempt : serial[b] # 0}) + 1]
      /\ file' = [file EXCEPT !.event = target[a], !.queue = "queued",
                              !.processing = "processing"]
      /\ UNCHANGED <<row, step, target, number, queue, receipt, result>>
  BY DEF InitJob, Goto, claimVars, queueVars
<1>3. serial'[a] # 0
  BY <1>1, <1>2, PipelineAssumption, FS_Subset, FS_CardinalityType
<1>4. /\ target[a] \in Event /\ target[a] = file.event
      /\ row[target[a]].state = "running" /\ row[target[a]].owner = a
      /\ step[a] = "acquired" /\ ActiveClaim(a) /\ pc[a] \in Working
  BY WorkerHasFile DEF Working
<1>5. WorkersOK'
  <2>1. Sent(receipt[a])'
    BY <1>1, <1>2, <1>4 DEF HandlerOK, Sent, Working
  <2>2. HandlerOK(a)'
    BY <1>1, <1>2, <1>3, <1>4, <2>1 DEF HandlerOK, Working, ActiveClaim
  <2>3. pc'[a] \in Working
    BY <1>1, <1>2 DEF Working
  <2> QED
    BY <1>1, <1>2, <1>4, <2>2, <2>3, OwnerStep
<1>6. BooksOK'
  <2>1. /\ file'.event = target[a] /\ file'.queue = "queued"
        /\ file'.processing = "processing" /\ file'.removal = "none"
    BY <1>1, <1>2 DEF FileTyped, BooksOK, FileOK
  <2>2. ShowsEvent(row[file.event])'
    BY <1>2, <1>3, <1>4, <2>1 DEF ShowsEvent, TerminalState
  <2>3. ReadResultOK'
    <3> SUFFICES ASSUME result.outcome \notin Payloadless \union {"none"}
                 PROVE  /\ serial'[result.by] # 0 /\ target[result.by] = file'.event
                        /\ node'[result.by] \in Rested
      BY <1>2 DEF ReadResultOK
    <3>1. /\ serial[result.by] # 0 /\ target[result.by] = file.event
          /\ node[result.by] \in Rested /\ result.by \in Attempt
      BY <1>1 DEF BooksOK, ReadResultOK, WriterOK, NoResult
    <3>2. result.by # a
      BY <1>1, <3>1 DEF HandlerOK
    <3> QED
      BY <1>1, <1>2, <1>4, <2>1, <3>1, <3>2
  <2> QED
    BY <1>2, <1>4, <2>1, <2>2, <2>3, OwnerBooks
<1> QED
  BY <1>5, <1>6

LEMMA PersistStep ==
  ASSUME Undisturbed, TurnsInv, web' = web, NEW a \in Attempt, PersistResults(a)
  PROVE  WorkersOK' /\ BooksOK'
<1>1. /\ PipelineTypeOK /\ HandlerOK(a) /\ BooksOK /\ FileTyped(file)
      /\ node \in [Attempt -> Node \union {"none"}]
  BY DEF TurnsInv, UploadInv, UploadTypeOK, WorkersOK, HandlersOK, PipelineTypeOK, FileTyped
<1>2. /\ pc[a] = "graph" /\ result'.by = a
      /\ node' = [node EXCEPT ![a] = "finalize_workflow"]
      /\ UNCHANGED <<row, step, target, number, queue, receipt, pc, serial, file>>
  BY <1>1 DEF PersistResults, Run, HandlerOK, EnterNode, claimVars, queueVars
<1>3. /\ target[a] \in Event /\ target[a] = file.event
      /\ row[target[a]].state = "running" /\ row[target[a]].owner = a
      /\ step[a] = "acquired" /\ ActiveClaim(a) /\ pc[a] \in Working
      /\ serial[a] # 0
  BY <1>1, <1>2, WorkerHasFile DEF Working, HandlerOK
<1>4. WorkersOK'
  <2>1. Sent(receipt[a])'
    BY <1>1, <1>2, <1>3 DEF HandlerOK, Sent, Working
  <2>2. HandlerOK(a)'
    BY <1>1, <1>2, <1>3, <2>1 DEF HandlerOK, Working, ActiveClaim
  <2> QED
    BY <1>1, <1>2, <1>3, <2>2, OwnerStep
<1>5. BooksOK'
  <2>1. ShowsEvent(row[file.event]) /\ file.removal = "none"
    BY <1>1, <1>3 DEF BooksOK, FileOK
  <2>2. file.queue = "queued"
    BY <1>3, <2>1 DEF ShowsEvent
  <2>3. ShowsEvent(row[file.event])'
    BY <1>2, <2>1 DEF ShowsEvent
  <2>4. ReadResultOK'
    BY <1>1, <1>2, <1>3 DEF ReadResultOK, Rested
  <2> QED
    BY <1>2, <1>3, <2>1, <2>2, <2>3, <2>4, OwnerBooks
<1> QED
  BY <1>4, <1>5

LEMMA FinalizeStep ==
  ASSUME Undisturbed, TurnsInv, web' = web, NEW a \in Attempt,
         Finalize(a), Goto(a, "delete")
  PROVE  WorkersOK' /\ BooksOK'
<1> DEFINE s == TerminalOf(outcome[a])
<1>1. /\ PipelineTypeOK /\ HandlerOK(a) /\ BooksOK /\ FileTyped(file)
      /\ pc \in [Attempt -> PC] /\ row \in [Event -> Row]
  BY DEF TurnsInv, UploadInv, UploadTypeOK, WorkersOK, HandlersOK, PipelineTypeOK,
         ClaimTypeOK, FileTyped
<1>2. /\ pc[a] = "finalize" /\ pc' = [pc EXCEPT ![a] = "delete"]
      /\ s \in TerminalState
      /\ row' = [row EXCEPT ![target[a]].state = s, ![target[a]].lease = "none"]
      /\ file' = [file EXCEPT !.processing = s]
      /\ UNCHANGED <<step, target, number, queue, receipt, node, serial, result>>
  BY DEF Finalize, Complete, Transition, Goto, queueVars
<1> HIDE DEF s
<1>3. /\ target[a] \in Event /\ target[a] = file.event
      /\ row[target[a]].state = "running" /\ row[target[a]].owner = a
      /\ step[a] = "acquired" /\ pc[a] \in Working /\ serial[a] # 0
  BY <1>1, <1>2, WorkerHasFile DEF Working, HandlerOK
<1>4. /\ row'[target[a]].state = s /\ row'[target[a]].owner = a
      /\ \A e \in Event : e # target[a] => row'[e] = row[e]
  BY <1>1, <1>2, <1>3 DEF Row
<1>5. WorkersOK'
  <2>1. Sent(receipt[a])'
    BY <1>1, <1>2, <1>3 DEF HandlerOK, Sent, Working
  <2>2. HandlerOK(a)'
    BY <1>1, <1>2, <1>3, <1>4, <2>1 DEF HandlerOK, Working, TerminalState
  <2> QED
    BY <1>1, <1>2, <1>3, <1>4, <2>2, OwnerStep
<1>6. BooksOK'
  <2>1. ShowsEvent(row[file.event]) /\ file.removal = "none"
    BY <1>1, <1>3 DEF BooksOK, FileOK
  <2>2. file.queue = "queued"
    BY <1>3, <2>1 DEF ShowsEvent
  <2>3. /\ file'.event = target[a] /\ file'.queue = "queued"
        /\ file'.processing = s /\ file'.removal = "none"
    BY <1>1, <1>2, <1>3, <2>1, <2>2 DEF FileTyped
  <2>4. ShowsEvent(row[file.event])'
    BY <1>2, <1>4, <2>3 DEF ShowsEvent, TerminalState
  <2>5. ReadResultOK'
    BY <1>1, <1>2, <1>3, <2>3 DEF BooksOK, ReadResultOK
  <2> QED
    BY <1>2, <1>3, <1>4, <2>3, <2>4, <2>5, OwnerBooks
<1> QED
  BY <1>5, <1>6

LEMMA WorkerTakesTurns ==
  ASSUME Undisturbed, TurnsInv, UploadInv', PipelineNext, web' = web
  PROVE  WorkersOK' /\ BooksOK'
<1>1. ASSUME NEW a \in Attempt, CalmHandle(a)
      PROVE  WorkersOK' /\ BooksOK'
  <2>1. CASE InitJob(a) /\ pc[a] = "init" /\ Goto(a, "graph")
             /\ node' = [node EXCEPT ![a] = "load_input"]
    BY <2>1, InitStep
  <2>2. CASE Finalize(a) /\ Goto(a, "delete")
    BY <2>2, FinalizeStep
  <2>3. CASE ClaimEvent(a) /\ ClaimRow(a)
    BY <2>3, ClaimStep
  <2>4. CASE PersistResults(a)
    BY <2>4, PersistStep
  <2>5. CASE \E m \in Message : Receive(a, m)
    BY <2>5, ReceiveStep
  <2> QED
    BY <1>1, <2>1, <2>2, <2>3, <2>4, <2>5, HandlerOwnSteps DEF CalmHandle
<1>2. ASSUME NEW m \in Message, DeadLetter(m) \/ VisibilityLapses(m)
      PROVE  WorkersOK' /\ BooksOK'
  BY <1>2, QueueSteps
<1> QED
  BY <1>1, <1>2, CalmStep

-----------------------------------------------------------------------------
(* What a request does to itself and to the file, field by field.          *)
LEMMA AdvanceFields ==
  ASSUME UploadTypeOK, NEW w \in Request, NEW l, Advance(w, l)
  PROVE  /\ web'[w].at = l /\ web'[w].event = web[w].event
         /\ web'[w].previous = web[w].previous
         /\ \A v \in Request : v # w => web'[v] = web[v]
<1>1. web \in WebState /\ web[w] \in WebRow
  BY DEF UploadTypeOK, WebState, WebRow, Remembered
<1>2. web' = [web EXCEPT ![w] = [web[w] EXCEPT !.at = l]]
  BY DEF Advance
<1> QED
  BY <1>1, <1>2 DEF WebState, WebRow

LEMMA SetFileAll ==
  ASSUME FileTyped(file), NEW e, NEW q, NEW p,
         SetFile([event |-> e, queue |-> q, processing |-> p])
  PROVE  /\ file'.event = e /\ file'.queue = q /\ file'.processing = p
         /\ file'.removal = file.removal
<1> DEFINE f == [event |-> e, queue |-> q, processing |-> p]
<1>1. /\ DOMAIN file = {"event", "queue", "processing", "removal"}
      /\ DOMAIN f = {"event", "queue", "processing"}
      /\ f["event"] = e /\ f["queue"] = q /\ f["processing"] = p
  BY DEF FileTyped
<1>2. file' = [k \in DOMAIN file |-> IF k \in DOMAIN f THEN f[k] ELSE file[k]]
  BY DEF SetFile
<1> HIDE DEF f
<1> QED
  BY <1>1, <1>2

LEMMA SetFileQueue ==
  ASSUME FileTyped(file), NEW q, SetFile([queue |-> q])
  PROVE  /\ file'.event = file.event /\ file'.queue = q
         /\ file'.processing = file.processing /\ file'.removal = file.removal
<1> DEFINE f == [queue |-> q]
<1>1. /\ DOMAIN file = {"event", "queue", "processing", "removal"}
      /\ DOMAIN f = {"queue"} /\ f["queue"] = q
  BY DEF FileTyped
<1>2. file' = [k \in DOMAIN file |-> IF k \in DOMAIN f THEN f[k] ELSE file[k]]
  BY DEF SetFile
<1> HIDE DEF f
<1> QED
  BY <1>1, <1>2

(* No request changes what a worker relies on.                             *)
LEMMA WorkersUndisturbed ==
  ASSUME TurnsInv, UNCHANGED <<claimVars, handlerVars, recordVars>>,
         \A m \in Message :
           /\ queue'[m].receives = queue[m].receives
           /\ Sent(m) => Sent(m)'
           /\ queue'[m].at = "dlq" => queue[m].at = "dlq"
  PROVE  WorkersOK'
<1>1. WorkersOK /\ DeliveryOK
  BY DEF TurnsInv, UploadInv
<1>2. /\ UNCHANGED <<row, step, target, number, receipt, pc, node, serial>>
      /\ \A e : SentEvent(e) => SentEvent(e)'
      /\ \A a \in Attempt : pc[a] # "idle" /\ Sent(receipt[a]) => Sent(receipt[a])'
  BY <1>1 DEF claimVars, handlerVars, recordVars, SentEvent, Sent, DeliveryOK
<1>3. HandlersOK'
  <2> SUFFICES ASSUME NEW a \in Attempt
               PROVE  HandlerOK(a)'
    BY DEF HandlersOK
  <2>1. HandlerOK(a)
    BY <1>1 DEF WorkersOK, HandlersOK
  <2> QED
    BY <1>2, <2>1 DEF HandlerOK, ActiveClaim
<1>4. RowsOK'
  BY <1>1, <1>2 DEF WorkersOK, RowsOK, RowOK
<1>5. ReceiptsOK'
  BY <1>1, <1>2 DEF WorkersOK, ReceiptsOK, ReceivedOK
<1> QED
  BY <1>3, <1>4, <1>5 DEF WorkersOK

(* A request that only moves on.                                           *)
LEMMA MovingOn ==
  ASSUME TurnsInv, NEW w \in Request, UNCHANGED pipelineVars,
         web'[w].event = web[w].event, web'[w].previous = web[w].previous,
         \A v \in Request : v # w => web'[v] = web[v],
         \/ web[w].at = "idle" /\ web'[w].at = "checked"
         \/ web[w].at = "marked" /\ web'[w].at = "unsent"
         \/ web'[w].at = "failed" /\ (~Undecided(w) \/ "webcrash" \in WebFaults)
  PROVE  BooksOK'
<1>1. BooksOK
  BY DEF TurnsInv
<1>2. UNCHANGED <<row, target, queue, serial, node, file, result>>
  BY DEF pipelineVars, claimVars, handlerVars, recordVars
<1>3. /\ \A m \in Message : Sent(m)' <=> Sent(m)
      /\ \A e : SentEvent(e)' <=> SentEvent(e)
      /\ NothingSent' <=> NothingSent
      /\ \A e : Newest(e)' <=> Newest(e)
  BY <1>2 DEF Sent, SentEvent, NothingSent, Newest
<1>4. \A v \in Request : /\ web'[v].event = web[v].event
                         /\ web'[v].previous = web[v].previous
                         /\ Undecided(v)' => Undecided(v)
                         /\ web'[v].at = "idle" => web[v].at = "idle"
                         /\ web'[v].at = "checked" => web[v].at \in {"idle", "checked"}
                         /\ web'[v].at \in {"sent", "done"} => web'[v].at = web[v].at
                         /\ Undecided(v) => Undecided(v)' \/ "webcrash" \in WebFaults
  BY DEF Undecided
<1>5. CurrentOK' /\ FileOK' /\ ReadResultOK'
  BY <1>1, <1>2, <1>3 DEF BooksOK, CurrentOK, FileOK, ShowsEvent, ReadResultOK
<1>6. RequestsOK'
  BY <1>1, <1>2, <1>3, <1>4 DEF BooksOK, RequestsOK, RequestOK
<1>7. CompletionsOK' /\ RetriesOK'
  BY <1>1, <1>2, <1>3, <1>4
  DEF BooksOK, CompletionsOK, RetriesOK, RestoresTo, Request
<1>8. WaitingOK'
  BY <1>1, <1>2, <1>3, <1>4 DEF BooksOK, WaitingOK
<1> QED
  BY <1>5, <1>6, <1>7, <1>8 DEF BooksOK

LEMMA MovingOnSteps ==
  ASSUME Undisturbed, TurnsInv, NEW w \in Request,
         \/ CheckUpload(w) \/ CheckRetry(w) \/ ReserveRefused(w)
         \/ SendRefused(w) \/ WebCrash(w)
  PROVE  BooksOK'
<1>1. UploadTypeOK /\ web[w] \in WebRow /\ web \in WebState
  BY DEF TurnsInv, UploadInv, UploadTypeOK, WebState, WebRow, Remembered
<1>2. UNCHANGED pipelineVars
  BY DEF CheckUpload, CheckRetry, ReserveRefused, SendRefused, WebCrash
<1>3. CASE CheckRetry(w)
  <2>1. web' = [web EXCEPT ![w] = [web[w] EXCEPT !.at = "checked", !.source = result.by]]
    BY <1>1, <1>3 DEF CheckRetry, WebRow
  <2>2. /\ web[w].at = "idle" /\ web'[w].at = "checked" /\ web'[w].event = web[w].event
        /\ web'[w].previous = web[w].previous
        /\ \A v \in Request : v # w => web'[v] = web[v]
    BY <1>1, <1>3, <2>1 DEF CheckRetry, WebState, WebRow
  <2> QED
    BY <1>2, <2>2, MovingOn
<1>4. CASE CheckUpload(w) \/ ReserveRefused(w) \/ SendRefused(w) \/ WebCrash(w)
  <2>1. \/ web[w].at = "idle" /\ Advance(w, "checked")
        \/ web[w].at = "marked" /\ Advance(w, "unsent")
        \/ Advance(w, "failed") /\ (~Undecided(w) \/ "webcrash" \in WebFaults)
    BY <1>4 DEF CheckUpload, ReserveRefused, SendRefused, WebCrash, Undecided
  <2> QED
    BY <1>1, <1>2, <2>1, AdvanceFields, MovingOn
<1> QED
  BY <1>3, <1>4

-----------------------------------------------------------------------------
(* The upload is marked before anything is sent.                           *)
LEMMA MarkSendingStep ==
  ASSUME Undisturbed, TurnsInv, NEW w \in Request, MarkSending(w)
  PROVE  BooksOK'
<1>1. /\ BooksOK /\ UploadTypeOK /\ FileTyped(file) /\ web \in WebState /\ web[w] \in WebRow
      /\ WriterOK /\ WorkersOK
  BY DEF TurnsInv, UploadInv, UploadTypeOK, PipelineTypeOK, FileTyped, WebState, WebRow,
         Remembered
<1>2. /\ w \in Completion /\ web[w].at = "checked"
      /\ SetFile([event |-> UploadEvent, queue |-> "sending", processing |-> "pending"])
      /\ web' = [web EXCEPT ![w] = [web[w] EXCEPT !.at = "marked", !.event = UploadEvent]]
      /\ UNCHANGED <<row, target, queue, serial, node, result>>
  BY <1>1 DEF MarkSending, WebRow, claimVars, handlerVars, recordVars
<1>3. /\ web'[w].at = "marked" /\ web'[w].event = UploadEvent
      /\ \A v \in Request : v # w => web'[v] = web[v]
  BY <1>1, <1>2 DEF WebState, WebRow
<1>4. /\ file'.event = UploadEvent /\ file'.queue = "sending" /\ file'.processing = "pending"
      /\ file'.removal = file.removal
  BY <1>1, <1>2, SetFileAll
<1>5. file.event = NoEvent /\ file.event \notin Event /\ UploadEvent \in Event
  BY <1>1, <1>2, PipelineAssumption, NoEventAssumption
  DEF BooksOK, CompletionsOK, UploadEvent
<1>6. NothingSent
  BY <1>1, <1>5 DEF BooksOK, CurrentOK
<1>7. \A m \in Message : ~Sent(m) /\ ~Sent(m)'
  BY <1>2, <1>6 DEF NothingSent, Sent
<1>8. NothingSent' /\ ~SentEvent(UploadEvent) /\ ~SentEvent(UploadEvent)'
  BY <1>7 DEF NothingSent, SentEvent
<1>9. row[UploadEvent].state = "absent"
  BY <1>1, <1>5, <1>8 DEF WorkersOK, RowsOK, RowOK, TerminalState
<1>10. \A v \in Request : ~Undecided(v)
  BY <1>1, <1>5 DEF BooksOK, RequestsOK, RequestOK
<1>11. CurrentOK'
  BY <1>4, <1>5, <1>7 DEF CurrentOK, Newest
<1>12. FileOK'
  BY <1>1, <1>2, <1>4, <1>5, <1>8, <1>9, NoEventAssumption
  DEF BooksOK, FileOK, ShowsEvent, TerminalState
<1>13. RequestsOK'
  <2>1. ASSUME NEW v \in Request
        PROVE  RequestOK(v)'
    <3>1. CASE v = w
      BY <1>3, <1>4, <1>5, <1>8, <3>1 DEF RequestOK
    <3>2. CASE v # w
      <4>1. RequestOK(v) /\ ~Undecided(v)'
        BY <1>1, <1>3, <1>10, <3>2 DEF BooksOK, RequestsOK, Undecided
      <4>2. \A e : SentEvent(e)' <=> SentEvent(e)
        BY <1>7 DEF SentEvent
      <4> QED
        BY <1>3, <3>2, <4>1, <4>2 DEF RequestOK
    <3> QED
      BY <3>1, <3>2
  <2>2. ASSUME NEW v \in Request, v # w
        PROVE  web[v].event # UploadEvent
    <3>1. CASE v \in Completion
      BY <1>2, <2>2, <3>1 DEF Undisturbed
    <3>2. CASE v \in Retry
      BY <1>1, <1>5, <3>2, NoEventAssumption, UploadAssumption
      DEF BooksOK, RetriesOK, Undisturbed
    <3> QED
      BY <3>1, <3>2 DEF Request
  <2> QED
    BY <1>1, <1>3, <2>1, <2>2 DEF BooksOK, RequestsOK
<1>14. CompletionsOK'
  <2>1. \A v \in Completion : v = w
    BY <1>2 DEF Undisturbed
  <2> QED
    BY <1>3, <1>8, <2>1 DEF CompletionsOK
<1>15. RetriesOK'
  <2>1. ASSUME NEW v \in Retry
        PROVE  v \in Request /\ web'[v] = web[v] /\ ~Undecided(v)'
    <3>1. v \in Request /\ v # w
      BY <1>2, UploadAssumption DEF Request
    <3> QED
      BY <1>3, <1>10, <3>1 DEF Undecided
  <2> QED
    BY <1>1, <2>1 DEF BooksOK, RetriesOK
<1>16. ReadResultOK'
  <2>1. ASSUME result.outcome \notin Payloadless \union {"none"}
        PROVE  FALSE
    <3>1. /\ result.by \in Attempt /\ serial[result.by] # 0
          /\ target[result.by] = file.event
      BY <1>1, <2>1 DEF BooksOK, ReadResultOK, WriterOK, NoResult
    <3> QED
      BY <1>5, <3>1, OpenedWasSent
  <2> QED
    BY <1>2, <2>1 DEF ReadResultOK
<1>17. WaitingOK'
  BY <1>3, <1>4 DEF WaitingOK, Undecided
<1> QED
  BY <1>11, <1>12, <1>13, <1>14, <1>15, <1>16, <1>17 DEF BooksOK

-----------------------------------------------------------------------------
(* What may be retried is settled: nothing is on its way.                  *)
LEMMA RetryMeansSettled ==
  ASSUME TurnsInv, CanRetry
  PROVE  /\ file.event \in Event /\ file.queue = "queued" /\ SentEvent(file.event)
         /\ file.processing \in TerminalState
         /\ row[file.event].state = file.processing
         /\ result.outcome \in Payloadless /\ RetryCount < MaxRetries
<1>1. /\ BooksOK /\ WorkersOK /\ UploadTypeOK /\ WriterOK /\ FileTyped(file)
      /\ result.outcome = "unread" /\ ~AlreadyProcessing /\ RetryCount < MaxRetries
  BY DEF TurnsInv, UploadInv, UploadTypeOK, PipelineTypeOK, FileTyped, CanRetry
<1>2. ~NothingSent
  <2>1. result.by \in Attempt /\ serial[result.by] # 0
    BY <1>1 DEF WriterOK, NoResult, Opened
  <2> QED
    BY <2>1, OpenedWasSent DEF NothingSent
<1>3. /\ file.event \in Event /\ file.queue # "failed"
      /\ ShowsEvent(row[file.event]) /\ RowOK(file.event)
  BY <1>1, <1>2 DEF BooksOK, CurrentOK, FileOK, WorkersOK, RowsOK
<1>4. row[file.event].state # "absent" /\ row[file.event].state # "running"
  BY <1>1, <1>3 DEF AlreadyProcessing, ShowsEvent, FileTyped
<1>5. row[file.event].state \in TerminalState
  BY <1>3, <1>4 DEF RowOK
<1> QED
  BY <1>1, <1>3, <1>5 DEF ShowsEvent, RowOK, Payloadless, TerminalState

(* The next retry has a number of its own, which is not too high.          *)
LEMMA RetryCountCounts ==
  ASSUME TurnsInv, file.event \in Event
  PROVE  RetryCount \in Nat /\ RetryCount >= RetryNumber[file.event]
<1> DEFINE A == {b \in Attempt : serial[b] # 0}
           T == {RetryNumber[target[a]] : a \in A}
           f == [a \in A |-> RetryNumber[target[a]]]
           N == {RetryNumber[file.event]} \union T
<1>1. \A a \in A : RetryNumber[target[a]] \in Nat
  BY OpenedWasSent, PipelineAssumption
<1>2. RetryNumber[file.event] \in Nat
  BY PipelineAssumption
<1>3. IsFiniteSet(N)
  <2>1. IsFiniteSet(A)
    BY PipelineAssumption, FS_Subset
  <2>2. f \in Surjection(A, T)
    BY DEF Surjection
  <2>3. IsFiniteSet(T)
    BY <2>1, <2>2, FS_Surjection
  <2> QED
    BY <2>3, FS_Union, FS_Singleton
<1>4. N \subseteq Nat /\ RetryNumber[file.event] \in N
  BY <1>1, <1>2
<1>5. RetryCount = Max(N)
  BY DEF RetryCount
<1> HIDE DEF N
<1>6. \E x \in N : \A y \in N : x >= y
  BY <1>3, <1>4, GreatestNumber
<1>7. Max(N) \in N /\ \A y \in N : Max(N) >= y
  BY <1>6 DEF Max
<1> QED
  BY <1>4, <1>5, <1>7

LEMMA ReserveStep ==
  ASSUME Undisturbed, TurnsInv, NEW w \in Request, Reserve(w)
  PROVE  BooksOK'
<1>1. /\ BooksOK /\ UploadTypeOK /\ FileTyped(file) /\ web \in WebState /\ web[w] \in WebRow
      /\ WriterOK /\ WorkersOK
  BY DEF TurnsInv, UploadInv, UploadTypeOK, PipelineTypeOK, FileTyped, WebState, WebRow,
         Remembered
<1> DEFINE seen == [event |-> file.event, queue |-> file.queue,
                    processing |-> file.processing]
<1>2. PICK e \in Event :
        /\ NextRevision(e)
        /\ SetFile([event |-> e, queue |-> "sending", processing |-> "pending"])
        /\ web' = [web EXCEPT ![w].at = "marked", ![w].event = e, ![w].previous = seen]
  BY DEF Reserve
<1>3. /\ w \in Retry /\ web[w].at = "checked" /\ CanRetry
      /\ UNCHANGED <<row, target, queue, serial, node, result>>
  BY DEF Reserve, claimVars, handlerVars, recordVars
<1>4. /\ file.event \in Event /\ file.queue = "queued" /\ SentEvent(file.event)
      /\ file.processing \in TerminalState
      /\ row[file.event].state = file.processing
      /\ result.outcome \in Payloadless /\ RetryCount < MaxRetries
  BY <1>3, RetryMeansSettled
<1>5. /\ web'[w].at = "marked" /\ web'[w].event = e /\ web'[w].previous = seen
      /\ \A v \in Request : v # w => web'[v] = web[v]
  <2> HIDE DEF seen
  <2>1. web' = [web EXCEPT ![w] =
                  [web[w] EXCEPT !.at = "marked", !.event = e, !.previous = seen]]
    BY <1>1, <1>2 DEF WebRow
  <2> QED
    BY <1>1, <2>1 DEF WebState, WebRow
<1>6. /\ seen.event = file.event /\ seen.queue = file.queue
      /\ seen.processing = file.processing
  OBVIOUS
<1> HIDE DEF seen
<1>7. /\ file'.event = e /\ file'.queue = "sending" /\ file'.processing = "pending"
      /\ file'.removal = file.removal
  BY <1>1, <1>2, SetFileAll
<1>8. /\ RetryNumber[e] \in 1 .. MaxRetries
      /\ RetryNumber[file.event] < RetryNumber[e]
      /\ \A v \in Request : web[v].event # e
  <2>1. RetryNumber[e] = RetryCount + 1 /\ \A v \in Request : web[v].event # e
    BY <1>2 DEF NextRevision
  <2> QED
    BY <1>4, <2>1, RetryCountCounts, PipelineAssumption, UploadAssumption
<1>9. /\ \A m \in Message : Sent(m)' <=> Sent(m)
      /\ \A f : SentEvent(f)' <=> SentEvent(f)
      /\ NothingSent' <=> NothingSent
      /\ \A f : Newest(f)' <=> Newest(f)
  BY <1>3 DEF Sent, SentEvent, NothingSent, Newest
<1>10. ~NothingSent
  BY <1>4 DEF SentEvent, NothingSent
<1>11. \A m \in Message : Sent(m) =>
         /\ row[EventOf[m]].state \in TerminalState
         /\ RetryNumber[EventOf[m]] < RetryNumber[e]
  BY <1>1, <1>4, <1>8, PipelineAssumption DEF BooksOK, CurrentOK, Newest
<1>12. Newest(e) /\ ~SentEvent(e)
  BY <1>11, PipelineAssumption DEF Newest, SentEvent
<1>13. row[e].state = "absent"
  <2>1. RowOK(e)
    BY <1>1 DEF WorkersOK, RowsOK
  <2> QED
    BY <1>12, <2>1 DEF RowOK, TerminalState
<1>14. \A v \in Request : ~Undecided(v)
  BY <1>4, SentMeansDecided
<1>15. CurrentOK'
  BY <1>1, <1>3, <1>7, <1>9, <1>11, <1>12 DEF BooksOK, CurrentOK
<1>16. FileOK'
  BY <1>1, <1>3, <1>7, <1>13, NoEventAssumption DEF BooksOK, FileOK, ShowsEvent, TerminalState
<1>17. RequestsOK'
  <2>1. ASSUME NEW v \in Request
        PROVE  RequestOK(v)'
    <3>1. CASE v = w
      BY <1>5, <1>7, <1>9, <1>12, <3>1 DEF RequestOK
    <3>2. CASE v # w
      <4>1. RequestOK(v) /\ ~Undecided(v)'
        BY <1>1, <1>5, <1>14, <3>2 DEF BooksOK, RequestsOK, Undecided
      <4> QED
        BY <1>5, <1>9, <3>2, <4>1 DEF RequestOK
    <3> QED
      BY <3>1, <3>2
  <2> QED
    BY <1>1, <1>5, <1>8, <2>1 DEF BooksOK, RequestsOK
<1>18. CompletionsOK'
  <2>1. ASSUME NEW v \in Completion
        PROVE  v \in Request /\ web'[v] = web[v] /\ ~Undecided(v)'
    <3>1. v \in Request /\ v # w
      BY <1>3, UploadAssumption DEF Request
    <3> QED
      BY <1>5, <1>14, <3>1 DEF Undecided
  <2> QED
    BY <1>1, <1>4, <2>1, NoEventAssumption DEF BooksOK, CompletionsOK
<1>19. RetriesOK'
  <2>1. RestoresTo(web[w].previous)'
    <3>1. /\ web'[w].previous.event = file.event /\ web'[w].previous.queue = file.queue
          /\ web'[w].previous.processing = file.processing
      BY <1>5, <1>6
    <3> QED
      BY <1>1, <1>3, <1>4, <1>9, <3>1 DEF RestoresTo, BooksOK, CurrentOK
  <2>2. ASSUME NEW v \in Retry, v # w
        PROVE  web'[v] = web[v] /\ ~Undecided(v)'
    BY <1>5, <1>14, <2>2 DEF Undecided, Request
  <2> QED
    BY <1>1, <1>5, <1>6, <1>8, <2>1, <2>2 DEF BooksOK, RetriesOK
<1>20. ReadResultOK'
  BY <1>3, <1>4 DEF ReadResultOK
<1>21. WaitingOK'
  BY <1>5, <1>7 DEF WaitingOK, Undecided
<1> QED
  BY <1>15, <1>16, <1>17, <1>18, <1>19, <1>20, <1>21 DEF BooksOK

-----------------------------------------------------------------------------
(* The message that is sent is the newest, and the file's.                 *)
LEMMA SendStep ==
  ASSUME Undisturbed, TurnsInv, NEW w \in Request, Send(w)
  PROVE  WorkersOK' /\ BooksOK'
<1>1. BooksOK /\ WorkersOK /\ UploadTypeOK /\ PipelineTypeOK
  BY DEF TurnsInv, UploadInv, UploadTypeOK
<1>2. PICK m \in Message : /\ EventOf[m] = web[w].event /\ queue[m].at = "unsent"
                           /\ queue' = [queue EXCEPT ![m].at = "visible"]
  BY DEF Send
<1>3. /\ web[w].at = "marked" /\ Advance(w, "sent")
      /\ UNCHANGED <<claimVars, handlerVars, recordVars, file, result>>
  BY DEF Send, Undisturbed
<1>4. UNCHANGED <<row, target, serial, node, file, result>>
  BY <1>3 DEF claimVars, handlerVars, recordVars
<1>5. /\ web'[w].at = "sent" /\ web'[w].event = web[w].event
      /\ \A v \in Request : v # w => web'[v] = web[v]
  BY <1>1, <1>3, AdvanceFields
<1>6. /\ Undecided(w) /\ web[w].event = file.event /\ file.event \in Event
      /\ ~SentEvent(file.event) /\ file.processing = "pending"
      /\ file.queue \in {"sending", "queued"}
  BY <1>1, <1>3 DEF BooksOK, RequestsOK, RequestOK, Undecided
<1>7. /\ \A n \in Message : /\ queue'[n].receives = queue[n].receives
                            /\ n # m => queue'[n].at = queue[n].at
      /\ queue'[m].at = "visible"
  BY <1>1, <1>2 DEF PipelineTypeOK
<1>8. /\ \A n \in Message : Sent(n)' <=> Sent(n) \/ n = m
      /\ EventOf[m] = file.event
      /\ \A n \in Message : EventOf[n] = file.event => n = m
      /\ \A e : SentEvent(e) => SentEvent(e)'
      /\ SentEvent(file.event)' /\ ~NothingSent'
  <2>1. \A n \in Message : Sent(n)' <=> Sent(n) \/ n = m
    BY <1>2, <1>7 DEF Sent
  <2>2. /\ EventOf[m] = file.event
        /\ \A n \in Message : EventOf[n] = file.event => n = m
    BY <1>2, <1>6 DEF Undisturbed
  <2>3. \A e : SentEvent(e) => SentEvent(e)'
    BY <2>1 DEF SentEvent
  <2>4. Sent(m)'
    BY <2>1
  <2> QED
    BY <1>4, <2>1, <2>2, <2>3, <2>4 DEF SentEvent, NothingSent
<1>9. WorkersOK'
  <2>1. \A n \in Message : /\ queue'[n].receives = queue[n].receives
                           /\ Sent(n) => Sent(n)'
                           /\ queue'[n].at = "dlq" => queue[n].at = "dlq"
    BY <1>7, <1>8
  <2> QED
    BY <1>3, <2>1, WorkersUndisturbed
<1>10. \A v \in Request : ~Undecided(v)'
  <2>1. ASSUME NEW v \in Request, v # w
        PROVE  ~Undecided(v)
    BY <1>1, <1>6, <2>1, NoEventAssumption DEF BooksOK, RequestsOK, RequestOK
  <2> QED
    BY <1>5, <2>1 DEF Undecided
<1>11. CurrentOK'
  <2>1. ~Sent(m)
    BY <1>2 DEF Sent
  <2>2. ASSUME NEW n \in Message, Sent(n)
        PROVE  RetryNumber[EventOf[n]] < RetryNumber[file.event]
    <3>1. EventOf[n] # file.event
      BY <1>8, <2>1, <2>2
    <3> QED
      BY <1>1, <2>2, <3>1 DEF BooksOK, CurrentOK, Newest
  <2>3. Newest(file.event)'
    BY <1>4, <1>8, <2>2 DEF Newest
  <2>4. \A n \in Message : RetryNumber[EventOf[n]] \in Nat
    BY PipelineAssumption
  <2>5. \A n \in Message : Sent(n) => RetryNumber[EventOf[n]] # RetryNumber[EventOf[m]]
    BY <1>8, <2>2, <2>4
  <2>6. ASSUME NEW k \in Message, NEW n \in Message, Sent(k)', Sent(n)',
               RetryNumber[EventOf[k]] = RetryNumber[EventOf[n]]
        PROVE  k = n
    <3>1. Sent(k) /\ Sent(n) => k = n
      BY <1>1, <2>6 DEF BooksOK, CurrentOK
    <3> QED
      BY <1>8, <2>5, <2>6, <3>1
  <2>7. \A n \in Message :
          Sent(n)' /\ EventOf[n] # file'.event => row'[EventOf[n]].state \in TerminalState
    BY <1>1, <1>4, <1>8 DEF BooksOK, CurrentOK
  <2> QED
    BY <1>4, <1>6, <2>3, <2>6, <2>7 DEF CurrentOK
<1>12. FileOK'
  BY <1>1, <1>4, <1>6, NoEventAssumption DEF BooksOK, FileOK, ShowsEvent
<1>13. RequestsOK'
  <2>1. ASSUME NEW v \in Request
        PROVE  RequestOK(v)'
    <3>1. CASE v = w
      BY <1>5, <1>6, <1>8, <1>4, <3>1, <1>10 DEF RequestOK
    <3>2. CASE v # w
      <4>1. RequestOK(v)
        BY <1>1 DEF BooksOK, RequestsOK
      <4> QED
        BY <1>5, <1>8, <1>10, <3>2, <4>1 DEF RequestOK
    <3> QED
      BY <3>1, <3>2
  <2>2. \A v \in Request : web'[v].event = web[v].event
    BY <1>5
  <2> QED
    BY <1>1, <2>1, <2>2 DEF BooksOK, RequestsOK
<1>14. CompletionsOK' /\ RetriesOK'
  <2>1. \A v \in Request : /\ web'[v].event = web[v].event
                           /\ web'[v].at \in {"idle", "checked"} => web'[v] = web[v]
    BY <1>5
  <2> QED
    BY <1>1, <1>4, <1>10, <2>1 DEF BooksOK, CompletionsOK, RetriesOK, Request
<1>15. ReadResultOK' /\ WaitingOK'
  BY <1>1, <1>4, <1>8 DEF BooksOK, ReadResultOK, WaitingOK
<1> QED
  BY <1>9, <1>11, <1>12, <1>13, <1>14, <1>15 DEF BooksOK

-----------------------------------------------------------------------------
(* Recording that the message was sent, at whatever event the file is by   *)
(* then, only says what is true of every event that was sent.              *)
LEMMA RecordSentStep ==
  ASSUME Undisturbed, TurnsInv, NEW w \in Request, RecordSent(w)
  PROVE  BooksOK'
<1>1. BooksOK /\ WorkersOK /\ UploadTypeOK /\ PipelineTypeOK /\ FileTyped(file)
  BY DEF TurnsInv, UploadInv, UploadTypeOK, PipelineTypeOK, FileTyped
<1>2. /\ web[w].at = "sent" /\ Advance(w, "done")
      /\ SetFile([queue |-> "queued"]) \/ file' = file
      /\ UNCHANGED <<row, target, queue, serial, node, result>>
  BY DEF RecordSent, Undisturbed, claimVars, handlerVars, recordVars
<1>3. /\ web'[w].at = "done" /\ web'[w].event = web[w].event
      /\ \A v \in Request : v # w => web'[v] = web[v]
  BY <1>1, <1>2, AdvanceFields
<1>4. /\ file'.event = file.event /\ file'.processing = file.processing
      /\ file'.removal = file.removal
      /\ file'.queue \in {file.queue, "queued"}
  BY <1>1, <1>2, SetFileQueue
<1>5. SentEvent(web[w].event) /\ ~NothingSent /\ file.event \in Event
  <2>1. SentEvent(web[w].event)
    BY <1>1, <1>2 DEF BooksOK, RequestsOK, RequestOK
  <2>2. ~NothingSent
    BY <2>1 DEF SentEvent, NothingSent
  <2> QED
    BY <1>1, <2>1, <2>2 DEF BooksOK, CurrentOK
<1>6. /\ \A m \in Message : Sent(m)' <=> Sent(m)
      /\ \A e : SentEvent(e)' <=> SentEvent(e)
      /\ NothingSent' <=> NothingSent
      /\ \A e : Newest(e)' <=> Newest(e)
  BY <1>2 DEF Sent, SentEvent, NothingSent, Newest
<1>7. \A v \in Request : /\ web'[v].event = web[v].event
                         /\ Undecided(v)' <=> Undecided(v)
                         /\ Undecided(v) => web'[v] = web[v]
                         /\ web'[v].at \in {"idle", "checked"} => web'[v] = web[v]
  BY <1>2, <1>3 DEF Undecided
<1>8. CurrentOK'
  BY <1>1, <1>2, <1>4, <1>6 DEF BooksOK, CurrentOK
<1>9. FileOK'
  <2>1. file.queue # "failed" /\ ShowsEvent(row[file.event]) /\ file.removal = "none"
    BY <1>1, <1>5 DEF BooksOK, FileOK
  <2>2. ShowsEvent(row[file.event])'
    BY <1>2, <1>4, <2>1 DEF ShowsEvent
  <2> QED
    BY <1>4, <1>5, <2>1, <2>2, NoEventAssumption DEF FileOK
<1>10. RequestsOK'
  <2>1. ASSUME NEW v \in Request
        PROVE  RequestOK(v)'
    <3>1. RequestOK(v)
      BY <1>1 DEF BooksOK, RequestsOK
    <3>2. CASE v = w
      BY <1>3, <1>5, <1>6, <3>2 DEF RequestOK, Undecided
    <3>3. CASE v # w
      BY <1>3, <1>4, <1>6, <1>7, <3>1, <3>3 DEF RequestOK
    <3> QED
      BY <3>2, <3>3
  <2> QED
    BY <1>1, <1>7, <2>1 DEF BooksOK, RequestsOK
<1>11. CompletionsOK' /\ RetriesOK'
  BY <1>1, <1>2, <1>4, <1>6, <1>7
  DEF BooksOK, CompletionsOK, RetriesOK, RestoresTo, Request
<1>12. ReadResultOK'
  BY <1>1, <1>2, <1>4 DEF BooksOK, ReadResultOK
<1>13. WaitingOK'
  <2>1. file.queue # "failed"
    BY <1>1, <1>5 DEF BooksOK, FileOK
  <2> QED
    BY <1>1, <1>4, <1>6, <1>7, <2>1 DEF BooksOK, WaitingOK
<1> QED
  BY <1>8, <1>9, <1>10, <1>11, <1>12, <1>13 DEF BooksOK

-----------------------------------------------------------------------------
(* A request whose message was refused still has the file to itself.       *)
LEMMA RecordUnsentStep ==
  ASSUME Undisturbed, TurnsInv, NEW w \in Request, RecordUnsent(w)
  PROVE  BooksOK'
<1>1. /\ BooksOK /\ WorkersOK /\ UploadTypeOK /\ PipelineTypeOK /\ FileTyped(file)
      /\ web[w] \in WebRow
  BY DEF TurnsInv, UploadInv, UploadTypeOK, PipelineTypeOK, FileTyped, WebRow, Remembered
<1>2. /\ web[w].at = "unsent" /\ Advance(w, "failed")
      /\ UNCHANGED <<row, target, queue, serial, node, result>>
  BY DEF RecordUnsent, claimVars, handlerVars, recordVars
<1>3. /\ web'[w].at = "failed" /\ web'[w].event = web[w].event
      /\ \A v \in Request : v # w => web'[v] = web[v]
  BY <1>1, <1>2, AdvanceFields
<1>4. /\ Undecided(w) /\ web[w].event = file.event /\ file.event \in Event
      /\ ~SentEvent(file.event) /\ file.processing = "pending"
  BY <1>1, <1>2 DEF BooksOK, RequestsOK, RequestOK, Undecided
<1>5. SetFile(IF w \in Completion THEN [queue |-> "failed"] ELSE web[w].previous)
  BY <1>4 DEF RecordUnsent, StillOwn
<1>6. /\ \A m \in Message : Sent(m)' <=> Sent(m)
      /\ \A e : SentEvent(e)' <=> SentEvent(e)
      /\ NothingSent' <=> NothingSent
      /\ \A e : Newest(e)' <=> Newest(e)
  BY <1>2 DEF Sent, SentEvent, NothingSent, Newest
<1>7. \A v \in Request : ~Undecided(v)'
  <2>1. ASSUME NEW v \in Request, v # w
        PROVE  ~Undecided(v)
    BY <1>1, <1>4, <2>1, NoEventAssumption DEF BooksOK, RequestsOK, RequestOK
  <2> QED
    BY <1>3, <2>1 DEF Undecided
<1>8. RequestsOK'
  BY <1>1, <1>3, <1>6, <1>7 DEF BooksOK, RequestsOK, RequestOK
<1>9. RetriesOK'
  BY <1>1, <1>3, <1>7 DEF BooksOK, RetriesOK, Request
<1>10. CASE w \in Completion
  <2>1. /\ file'.event = file.event /\ file'.processing = file.processing
        /\ file'.removal = file.removal /\ file'.queue = "failed"
    BY <1>1, <1>5, <1>10, SetFileQueue
  <2>2. NothingSent
    BY <1>1, <1>4, <1>10 DEF BooksOK, CompletionsOK
  <2>3. row[file.event].state = "absent"
    BY <1>1, <1>4 DEF WorkersOK, RowsOK, RowOK, TerminalState
  <2>4. CurrentOK' /\ ReadResultOK'
    BY <1>1, <1>2, <1>6, <2>1 DEF BooksOK, CurrentOK, ReadResultOK
  <2>5. FileOK' /\ WaitingOK'
    BY <1>1, <1>2, <1>4, <1>6, <2>1, <2>2, <2>3, NoEventAssumption
    DEF BooksOK, FileOK, ShowsEvent, WaitingOK, TerminalState
  <2>6. CompletionsOK'
    BY <1>1, <1>3, <1>7, <2>1 DEF BooksOK, CompletionsOK, Request
  <2> QED
    BY <1>8, <1>9, <2>4, <2>5, <2>6 DEF BooksOK
<1>11. CASE w \in Retry
  <2> DEFINE p == web[w].previous
  <2>1. RestoresTo(p)
    BY <1>1, <1>4, <1>11 DEF BooksOK, RetriesOK
  <2>2. /\ file'.event = p.event /\ file'.processing = p.processing
        /\ file'.removal = file.removal /\ file'.queue = p.queue
    <3>1. p = [event |-> p.event, queue |-> p.queue, processing |-> p.processing]
      BY <1>1 DEF WebRow, Remembered
    <3>2. SetFile(p)
      BY <1>5, <1>11, UploadAssumption
    <3> HIDE DEF p
    <3>3. SetFile([event |-> p.event, queue |-> p.queue, processing |-> p.processing])
      BY <3>1, <3>2
    <3> QED
      BY <1>1, <3>3, SetFileAll
  <2> HIDE DEF p
  <2>3. /\ p.event \in Event /\ SentEvent(p.event) /\ Newest(p.event)
        /\ row[p.event].state = p.processing /\ p.processing \in TerminalState
        /\ p.queue = "queued" /\ result.outcome \in Payloadless
    BY <2>1 DEF RestoresTo
  <2>4. ~NothingSent
    BY <2>3 DEF SentEvent, NothingSent
  <2>5. \A m \in Message : Sent(m) => row[EventOf[m]].state \in TerminalState
    BY <1>1, <1>4 DEF BooksOK, CurrentOK, SentEvent
  <2>6. CurrentOK'
    BY <1>1, <1>2, <1>6, <2>2, <2>3, <2>5 DEF BooksOK, CurrentOK
  <2>7. FileOK' /\ WaitingOK'
    BY <1>1, <1>2, <1>6, <2>2, <2>3, NoEventAssumption
    DEF BooksOK, FileOK, ShowsEvent, WaitingOK, TerminalState
  <2>8. ReadResultOK'
    BY <1>2, <2>3 DEF ReadResultOK
  <2>9. CompletionsOK'
    <3>1. \A v \in Completion : web'[v] = web[v]
      BY <1>3, <1>11, UploadAssumption DEF Request
    <3>2. file.event # NoEvent
      BY <1>4, NoEventAssumption
    <3> QED
      BY <1>1, <1>7, <3>1, <3>2 DEF BooksOK, CompletionsOK, Request
  <2> QED
    BY <1>8, <1>9, <2>6, <2>7, <2>8, <2>9 DEF BooksOK
<1> QED
  BY <1>10, <1>11 DEF Request

LEMMA RequestsTakeTurns ==
  ASSUME Undisturbed, TurnsInv, NEW w \in Request, Serve(w) \/ WebCrash(w)
  PROVE  WorkersOK' /\ BooksOK'
<1>1. UNCHANGED <<claimVars, handlerVars, recordVars>>
  BY WebStep DEF TurnsInv, UploadInv
<1>2. queue' = queue => WorkersOK'
  BY <1>1, WorkersUndisturbed DEF Sent
<1>3. CASE Send(w)
  BY <1>3, SendStep
<1>4. CASE MarkSending(w)
  BY <1>2, <1>4, MarkSendingStep DEF MarkSending
<1>5. CASE Reserve(w)
  BY <1>2, <1>5, ReserveStep DEF Reserve
<1>6. CASE RecordSent(w)
  BY <1>2, <1>6, RecordSentStep DEF RecordSent
<1>7. CASE RecordUnsent(w)
  BY <1>2, <1>7, RecordUnsentStep DEF RecordUnsent
<1>8. CASE \/ CheckUpload(w) \/ CheckRetry(w) \/ ReserveRefused(w)
           \/ SendRefused(w) \/ WebCrash(w)
  <2>1. queue' = queue
    BY <1>8
    DEF CheckUpload, CheckRetry, ReserveRefused, SendRefused, WebCrash, pipelineVars
  <2> QED
    BY <1>2, <1>8, <2>1, MovingOnSteps
<1>9. ~RecordSentFails(w)
  BY DEF RecordSentFails, Undisturbed
<1> QED
  BY <1>3, <1>4, <1>5, <1>6, <1>7, <1>8, <1>9 DEF Serve

LEMMA TurnsStutter ==
  ASSUME TurnsInv, UNCHANGED uploadVars
  PROVE  WorkersOK' /\ BooksOK'
<1>1. /\ UNCHANGED <<row, step, target, number, queue, receipt, pc, node, serial, file, result>>
      /\ web' = web /\ SentKept
  BY DEF uploadVars, pipelineVars, claimVars, handlerVars, recordVars, SentKept
<1>2. BooksOK'
  BY <1>1, BooksSame
<1>3. WorkersOK'
  BY <1>1, WorkersUndisturbed
  DEF uploadVars, pipelineVars, Sent
<1> QED
  BY <1>2, <1>3

LEMMA TurnsInvariant ==
  ASSUME Undisturbed
  PROVE  UploadSpec => []TurnsInv
<1>1. UploadInit => TurnsInv
  BY UploadInitially, TurnsInitially DEF TurnsInv
<1>2. ASSUME TurnsInv, [UploadNext]_uploadVars
      PROVE  TurnsInv'
  <2>1. UploadInv'
    BY <1>2, UploadKeeps DEF TurnsInv
  <2>2. CASE PipelineNext /\ UNCHANGED web
    BY <1>2, <2>1, <2>2, WorkerTakesTurns DEF TurnsInv
  <2>3. ASSUME NEW w \in Request, Serve(w) \/ WebCrash(w)
        PROVE  TurnsInv'
    BY <1>2, <2>1, <2>3, RequestsTakeTurns DEF TurnsInv
  <2>4. CASE UNCHANGED uploadVars
    BY <1>2, <2>1, <2>4, TurnsStutter DEF TurnsInv
  <2> QED
    BY <1>2, <2>2, <2>3, <2>4 DEF UploadNext
<1> QED
  BY <1>1, <1>2, PTL DEF UploadSpec

-----------------------------------------------------------------------------
(* Of the requests that retry an extraction, one at a time gets through,   *)
(* until the worker is done with its event: for any number of requests,    *)
(* deliveries and retries, while claims are kept and sends are certain.    *)
THEOREM RetriesTakeTurns ==
  ASSUME Undisturbed
  PROVE  UploadSpec => []RetriesDoNotOverlap
<1>1. ASSUME TurnsInv, NEW e \in Event, UnderWay(e)
      PROVE  e = file.event
  <2>1. BooksOK
    BY <1>1 DEF TurnsInv
  <2>2. PICK w \in Retry : web[w].event = e /\ web[w].at \in {"marked", "sent", "done"}
    BY <1>1 DEF UnderWay
  <2>3. w \in Request /\ RequestOK(w)
    BY <2>1 DEF BooksOK, RequestsOK, Request
  <2>4. CASE web[w].at = "marked"
    BY <2>2, <2>3, <2>4 DEF RequestOK, Undecided
  <2>5. CASE web[w].at \in {"sent", "done"}
    <3>1. PICK m \in Message : EventOf[m] = e /\ Sent(m)
      BY <2>2, <2>3, <2>5 DEF RequestOK, SentEvent
    <3> QED
      BY <1>1, <2>1, <3>1 DEF BooksOK, CurrentOK, UnderWay
  <2> QED
    BY <2>2, <2>4, <2>5
<1>2. TurnsInv => RetriesDoNotOverlap
  BY <1>1 DEF RetriesDoNotOverlap
<1> QED
  BY <1>2, TurnsInvariant, PTL

(* Whichever request or delivery wrote to the file last, it shows the      *)
(* outcome of its event once that is settled, under the same conditions.   *)
THEOREM SettledFileShowsOutcome ==
  ASSUME Undisturbed
  PROVE  UploadSpec => []FileShowsOutcome
<1>1. TurnsInv => FileShowsOutcome
  BY DEF TurnsInv, BooksOK, FileOK, ShowsEvent, FileShowsOutcome
<1> QED
  BY <1>1, TurnsInvariant, PTL

(* A file that is shown as queued has a message, a handler or a request    *)
(* about to send one; here no web server may stop between the two.         *)
THEOREM QueuedFileIsWaitedFor ==
  ASSUME Undisturbed, "webcrash" \notin WebFaults
  PROVE  UploadSpec => []QueuedMeansWaiting
<1>1. ASSUME TurnsInv, OverallStatus = "queued",
             ~ \E w \in Request :
                 web[w].event = file.event /\ web[w].at \in {"marked", "sent", "unsent"},
             ~ \E m \in Message :
                 EventOf[m] = file.event /\ queue[m].at \in {"visible", "inflight"}
      PROVE  ~Quiet(file.event)
  <2>1. /\ BooksOK /\ WorkersOK /\ UploadTypeOK /\ PipelineTypeOK /\ DeliveryOK
        /\ AcknowledgedMeansSettled /\ FileTyped(file)
    BY <1>1 DEF TurnsInv, UploadInv, UploadTypeOK, PipelineTypeOK, FileTyped
  <2>2. file.processing = "pending" /\ file.queue \in {"queued", "sending"}
    <3>1. file.processing \in {"pending", "processing"} \union TerminalState
      BY <2>1 DEF FileTyped
    <3> QED
      BY <1>1, <3>1 DEF OverallStatus, TerminalState
  <2>3. file.event \in Event /\ ShowsEvent(row[file.event]) /\ RowOK(file.event)
    BY <2>1, <2>2 DEF BooksOK, FileOK, WorkersOK, RowsOK, FileTyped
  <2>4. CASE row[file.event].state = "running"
    BY <2>3, <2>4 DEF RowOK, Quiet, Working
  <2>5. CASE row[file.event].state = "absent"
    <3>1. SentEvent(file.event)
      BY <1>1, <2>1, <2>2, <2>3 DEF BooksOK, WaitingOK, Undecided
    <3>2. PICK m \in Message : EventOf[m] = file.event /\ Sent(m)
      BY <3>1 DEF SentEvent
    <3>3. queue[m].at = "dlq"
      <4>1. queue[m].at \in {"unsent", "visible", "inflight", "deleted", "dlq"}
        BY <2>1 DEF PipelineTypeOK
      <4>2. queue[m].at # "deleted"
        BY <2>1, <2>5, <3>2 DEF AcknowledgedMeansSettled, TerminalState
      <4> QED
        BY <1>1, <3>2, <4>1, <4>2 DEF Sent
    <3>4. PICK a \in Attempt : receipt[a] = m /\ pc[a] = "claim"
      BY <2>1, <2>5, <3>2, <3>3 DEF WorkersOK, ReceiptsOK, ReceivedOK
    <3>5. target[a] = file.event
      BY <2>1, <3>2, <3>4 DEF DeliveryOK
    <3> QED
      BY <3>4, <3>5 DEF Quiet
  <2>6. row[file.event].state \notin TerminalState
    BY <2>2, <2>3 DEF ShowsEvent, TerminalState
  <2> QED
    BY <2>3, <2>4, <2>5, <2>6 DEF RowOK
<1>2. TurnsInv => QueuedMeansWaiting
  BY <1>1 DEF QueuedMeansWaiting
<1> QED
  BY <1>2, TurnsInvariant, PTL

-----------------------------------------------------------------------------
(* Only requests send messages, and only such as they have reserved.       *)
WithinLimit == \A m \in Message : Sent(m) => RetryNumber[EventOf[m]] <= MaxRetries

LEMMA SentBegins ==
  ASSUME UploadInv, [UploadNext]_uploadVars, NEW m \in Message, ~Sent(m), Sent(m)'
  PROVE  \E w \in Request : Send(w) /\ web[w].event = EventOf[m]
<1>1. PipelineTypeOK /\ DeliveryOK /\ queue[m].at = "unsent" /\ queue'[m].at # "unsent"
  BY DEF UploadInv, UploadTypeOK, Sent
<1>2. ~UNCHANGED queue
  BY <1>1
<1>3. ASSUME NEW n \in Message, NEW q, queue[n].at # "unsent",
             queue' = [queue EXCEPT ![n] = q] \/ queue' = [queue EXCEPT ![n].at = q]
      PROVE  FALSE
  BY <1>1, <1>3 DEF PipelineTypeOK
<1>4. ASSUME NEW a \in Attempt, NEW n \in Message, Receive(a, n)
      PROVE  FALSE
  BY <1>3, <1>4 DEF Receive
<1>5. ASSUME NEW n \in Message, DeadLetter(n) \/ VisibilityLapses(n)
      PROVE  FALSE
  BY <1>3, <1>5 DEF DeadLetter, VisibilityLapses
<1>6. ASSUME NEW a \in Attempt, DeleteMessage(a)
      PROVE  FALSE
  <2>1. receipt[a] \in Message
    BY <1>1, <1>6 DEF DeleteMessage, DeliveryOK
  <2> QED
    BY <1>2, <1>3, <1>6, <2>1 DEF DeleteMessage
<1>7. ~PipelineNext
  BY <1>2, <1>4, <1>5, <1>6
  DEF PipelineNext, Handle, queueVars, pipelineVars, LeaseLapses, AskRemoval, RemoveUpload,
    ClaimEvent, ClaimThrows, AnswerRefused, InitJob, InitFails, SetJobCurrentStep, LoadInput,
    ExtractDocument, ProcessCertificates, PersistResults, FinalizeWorkflow, NodeThrows,
    RenewForFinish, Finalize, FinishFails, RecordClaimFailure, RecordingFails, NoticeLoss,
    Crash
<1>8. PICK w \in Request : Serve(w) \/ WebCrash(w)
  BY <1>2, <1>7 DEF UploadNext, uploadVars, pipelineVars
<1>9. Send(w)
  BY <1>2, <1>8
  DEF Serve, WebCrash, pipelineVars, CheckUpload, MarkSending, CheckRetry, Reserve,
    ReserveRefused, SendRefused, RecordSent, RecordSentFails, RecordUnsent
<1>10. PICK n \in Message : /\ EventOf[n] = web[w].event
                            /\ queue' = [queue EXCEPT ![n].at = "visible"]
  BY <1>9 DEF Send
<1>11. n = m
  BY <1>1, <1>10 DEF PipelineTypeOK
<1> QED
  BY <1>9, <1>10, <1>11

LEMMA WithinLimitInvariant ==
  ASSUME Undisturbed
  PROVE  UploadSpec => []WithinLimit
<1>1. UploadInit => WithinLimit
  BY TurnsInitially DEF UploadInit, WithinLimit, Sent
<1>2. ASSUME TurnsInv, WithinLimit, [UploadNext]_uploadVars
      PROVE  WithinLimit'
  <2> SUFFICES ASSUME NEW m \in Message, Sent(m)'
               PROVE  RetryNumber[EventOf[m]] <= MaxRetries
    BY DEF WithinLimit
  <2>1. CASE Sent(m)
    BY <1>2, <2>1 DEF WithinLimit
  <2>2. CASE ~Sent(m)
    <3>1. PICK w \in Request : Send(w) /\ web[w].event = EventOf[m]
      BY <1>2, <2>2, SentBegins DEF TurnsInv
    <3>2. /\ web[w].event \in Event /\ web[w].event # NoEvent
          /\ RetryNumber[web[w].event] \in Nat
      BY <3>1, PipelineAssumption, NoEventAssumption
    <3>3. CASE w \in Completion
      BY <1>2, <3>1, <3>2, <3>3, UploadAssumption
      DEF TurnsInv, BooksOK, CompletionsOK, Undisturbed
    <3>4. CASE w \in Retry
      BY <1>2, <3>1, <3>2, <3>4, UploadAssumption DEF TurnsInv, BooksOK, RetriesOK
    <3> QED
      BY <3>3, <3>4 DEF Request
  <2> QED
    BY <2>1, <2>2
<1> QED
  BY <1>1, <1>2, TurnsInvariant, PTL DEF UploadSpec

(* No more than MaxRetries manual retries of the extraction are sent,      *)
(* however the requests race, under the same conditions.                   *)
THEOREM RetriesWithinLimit ==
  ASSUME Undisturbed
  PROVE  UploadSpec => []RetryLimit
<1>1. ASSUME TurnsInv, WithinLimit
      PROVE  RetryLimit
  <2> DEFINE S == {m \in Message : queue[m].at # "unsent" /\ RetryNumber[EventOf[m]] > 0}
             f == [m \in S |-> RetryNumber[EventOf[m]]]
  <2>1. \A m \in S : f[m] \in 1 .. MaxRetries
    BY <1>1, PipelineAssumption, UploadAssumption DEF WithinLimit, Sent
  <2>2. \A m, n \in S : f[m] = f[n] => m = n
    BY <1>1 DEF TurnsInv, BooksOK, CurrentOK, Sent
  <2>3. f \in Injection(S, 1 .. MaxRetries)
    BY <2>1, <2>2 DEF Injection, IsInjective
  <2>4. IsFiniteSet(1 .. MaxRetries) /\ Cardinality(1 .. MaxRetries) = MaxRetries
    BY UploadAssumption, FS_Interval
  <2>5. Cardinality(S) <= Cardinality(1 .. MaxRetries)
    <3> HIDE DEF S, f
    <3> QED
      BY <2>3, <2>4, FS_Injection
  <2> QED
    BY <2>4, <2>5 DEF RetryLimit
<1> QED
  BY <1>1, TurnsInvariant, WithinLimitInvariant, PTL
=============================================================================
