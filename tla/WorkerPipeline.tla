--------------------------- MODULE WorkerPipeline ---------------------------
(***************************************************************************)
(* One uploaded PDF on its way through the worker: the SQS messages of its *)
(* revisions, the message handler with its claim on each event, the graph  *)
(* of workflow nodes, and the rows they write (backend/worker/src).        *)
(*                                                                         *)
(* An attempt is one delivery of one message to one handler.  Attempts run *)
(* concurrently, in one worker process or in several.  Every transaction,  *)
(* and every statement outside one, is one step.  The faults named in      *)
(* Faults may strike between any two steps.                                *)
(***************************************************************************)
EXTENDS EventClaim, FiniteSets

CONSTANTS
  Message,      \* messages that are ever sent to the queue
  EventOf,      \* the event each message carries
  FirstMessage, \* the message that is in the queue initially
  NoMessage,    \* what an attempt handles before it has received one
  RetryNumber,  \* the manual-retry number in each event's revision, 0 if none
  MaxReceive,   \* the queue's maxReceiveCount before the dead-letter queue
  Findings,     \* what reading the document may find
  Faults        \* the faults that may happen

FaultKinds == {"stall",    \* a lease runs out under a worker that is alive
               "deaf",     \* the heartbeat gives up a lease that is live
               "crash",    \* the worker process stops
               "throw",    \* S3, the database or a node fails
               "hidden",   \* a message becomes visible under a live handler
               "undeleted",\* DeleteMessage fails
               "orphan",   \* the running node outlives its aborted graph
               "removal"}  \* the user removes the upload from its batch

(* What an attempt has learnt of the document.  "unread" is a transient    *)
(* failure of the provider and "unreadable" any other failure that leaves  *)
(* no payload; "rejected" was read but ends in error.                      *)
Payloadless == {"unread", "unreadable"}
Outcome == Payloadless \union {"accepted", "duplicate", "rejected"}

ASSUME PipelineAssumption ==
  /\ EventOf \in [Message -> Event]
  /\ FirstMessage \in Message
  /\ NoMessage \notin Message
  /\ IsFiniteSet(Attempt)
  /\ RetryNumber \in [Event -> Nat]
  /\ MaxReceive \in Nat \ {0}
  /\ Findings \subseteq Outcome
  /\ Faults \subseteq FaultKinds

Node == {"load_input", "extract_document", "process_certificates",
         "persist_results", "finalize_workflow"}

VARIABLES
  queue,      \* queue[m]: where the message is, and how often received
  receipt,    \* receipt[a]: the message handler a was given
  pc,         \* pc[a]: where handler a is
  node,       \* node[a]: the workflow node whose wrapper runs for a, or none
  marked,     \* marked[a]: that wrapper has reported its progress
  outcome,    \* outcome[a]: what the workflow of a has found, while it matters
  job,        \* job[a]: the status of a's row in worker_jobs
  extraction, \* extraction[a]: of its row in document_extraction_attempts
  serial,     \* serial[a]: the identity of that row, 0 if there is none
  file,       \* the intake_files row
  result      \* the document_results row: who wrote it and what it says

handlerVars == <<receipt, pc, node, marked, outcome>>
recordVars == <<job, extraction, serial>>
queueVars == <<queue, receipt>>
pipelineVars == <<claimVars, queue, handlerVars, recordVars, file, result>>

(* "init_lost" is "init" after the heartbeat has given the claim up;       *)
(* "failing" and "abandoning" are the handler's catch block, after and     *)
(* before it knows that the job was opened.                                *)
PC == {"idle", "claim", "init", "init_lost", "graph", "finish", "finalize",
       "failing", "abandoning", "delete", "gone"}
NoResult == [by |-> NoOwner, outcome |-> "none"]

(* Nothing has been delivered yet.                                         *)
PipelineIdle ==
  /\ ClaimInit
  /\ receipt = [a \in Attempt |-> NoMessage]
  /\ pc = [a \in Attempt |-> "idle"]
  /\ node = [a \in Attempt |-> "none"]
  /\ marked = [a \in Attempt |-> FALSE]
  /\ outcome = [a \in Attempt |-> "none"]
  /\ job = [a \in Attempt |-> "absent"]
  /\ extraction = [a \in Attempt |-> "absent"]
  /\ serial = [a \in Attempt |-> 0]
  /\ result = NoResult

(* The webapp has queued the upload.                                       *)
PipelineInit ==
  /\ PipelineIdle
  /\ queue = [m \in Message |->
       [at |-> IF m = FirstMessage THEN "visible" ELSE "unsent", receives |-> 0]]
  /\ file = [event |-> EventOf[FirstMessage], queue |-> "queued",
             processing |-> "pending", removal |-> "none"]

Goto(a, l) == pc' = [pc EXCEPT ![a] = l]

-----------------------------------------------------------------------------
(* The queue.                                                              *)

Receive(a, m) ==
  /\ pc[a] = "idle"
  /\ queue[m].at = "visible"
  /\ queue[m].receives < MaxReceive
  /\ queue' = [queue EXCEPT ![m] = [at |-> "inflight", receives |-> @.receives + 1]]
  /\ receipt' = [receipt EXCEPT ![a] = m]
  /\ Deliver(a, EventOf[m])
  /\ Goto(a, "claim")
  /\ UNCHANGED <<node, marked, outcome, recordVars, file, result>>

DeadLetter(m) ==
  /\ queue[m].at = "visible"
  /\ queue[m].receives = MaxReceive
  /\ queue' = [queue EXCEPT ![m].at = "dlq"]
  /\ UNCHANGED <<claimVars, handlerVars, recordVars, file, result>>

(* Mutant: the visibility heartbeat of a handler is never stopped.         *)
HandlingEver(m) ==
  \E a \in Attempt : receipt[a] = m /\ pc[a] # "idle"

Handling(m) ==
  \E a \in Attempt : receipt[a] = m /\ pc[a] \notin {"idle", "gone"}

(* The visibility timeout runs out: its heartbeat stops with the handler,  *)
(* and may fail, for as long as it likes, while the handler runs.          *)
VisibilityLapses(m) ==
  /\ queue[m].at = "inflight"
  /\ Handling(m) => "hidden" \in Faults
  /\ queue' = [queue EXCEPT ![m].at = "visible"]
  /\ UNCHANGED <<claimVars, handlerVars, recordVars, file, result>>

(* Deleting a message that was dead-lettered meanwhile has no effect.      *)
DeleteMessage(a) ==
  /\ pc[a] = "delete"
  /\ \/ /\ queue[receipt[a]].at \in {"visible", "inflight"}
        /\ queue' = [queue EXCEPT ![receipt[a]].at = "deleted"]
     \/ /\ queue[receipt[a]].at \in {"deleted", "dlq"} \/ "undeleted" \in Faults
        /\ UNCHANGED queue
  /\ Goto(a, "gone")
  /\ UNCHANGED <<claimVars, receipt, node, marked, outcome, recordVars, file, result>>

-----------------------------------------------------------------------------
(* Claiming the event.                                                     *)

ClaimEvent(a) ==
  /\ pc[a] = "claim"
  /\ \/ ClaimRow(a) /\ Goto(a, "init")
     \/ ClaimRefused(a) /\ UNCHANGED pc
  /\ UNCHANGED <<queueVars, node, marked, outcome, recordVars, file, result>>

(* The database fails, perhaps only in answering a statement it has        *)
(* committed: the handler ends without anything to release.                *)
ClaimThrows(a) ==
  /\ pc[a] = "claim"
  /\ "throw" \in Faults
  /\ ClaimRow(a) \/ UNCHANGED claimVars
  /\ Goto(a, "gone")
  /\ UNCHANGED <<queueVars, node, marked, outcome, recordVars, file, result>>

(* Mutant: a busy event is acknowledged, too.                              *)
AnswerRefusedAlways(a) ==
  /\ pc[a] = "claim"
  /\ ReadRefused(a)
  /\ Goto(a, "delete")
  /\ UNCHANGED <<queueVars, node, marked, outcome, recordVars, file, result>>

(* A settled event is acknowledged, a busy one is left to redelivery.      *)
AnswerRefused(a) ==
  /\ pc[a] = "claim"
  /\ ReadRefused(a)
  /\ Goto(a, IF step'[a] = "terminal_replay" THEN "delete" ELSE "gone")
  /\ UNCHANGED <<queueVars, node, marked, outcome, recordVars, file, result>>

-----------------------------------------------------------------------------
(* The transaction that opens the job.                                     *)

Displaced(a, b) ==
  /\ number[a] > 1
  /\ b # a /\ target[b] = target[a]

InitJob(a) ==
  /\ pc[a] \in {"init", "init_lost"}
  /\ file.removal # "done"
  /\ job' = [b \in Attempt |->
       IF b = a THEN "processing"
       ELSE IF Displaced(a, b) /\ job[b] = "processing" THEN "failed" ELSE job[b]]
  /\ extraction' = [b \in Attempt |->
       IF b = a THEN "processing"
       ELSE IF Displaced(a, b) /\ extraction[b] = "processing" THEN "failed"
       ELSE extraction[b]]
  /\ serial' = [serial EXCEPT ![a] = Cardinality({b \in Attempt : serial[b] # 0}) + 1]
  /\ file' = [file EXCEPT !.event = target[a], !.queue = "queued",
                          !.processing = "processing"]
  /\ \/ pc[a] = "init_lost" /\ Goto(a, "failing") /\ UNCHANGED node
     \/ pc[a] = "init" /\ Goto(a, "graph") /\ node' = [node EXCEPT ![a] = "load_input"]
     \/ "throw" \in Faults /\ Goto(a, "abandoning") /\ UNCHANGED node
  /\ UNCHANGED <<claimVars, queueVars, marked, outcome, result>>

(* It throws when deletion has started, or when the database fails (which  *)
(* the handler may also believe of a transaction that did commit).         *)
InitFails(a) ==
  /\ pc[a] \in {"init", "init_lost"}
  /\ file.removal = "done" \/ "throw" \in Faults
  /\ Goto(a, "abandoning")
  /\ UNCHANGED <<claimVars, queueVars, node, marked, outcome, recordVars, file, result>>

-----------------------------------------------------------------------------
(* The workflow graph.  A node's wrapper first reports progress, then runs *)
(* the node.  Aborting a graph rejects its invocation at once; a wrapper   *)
(* that is running then may go on to its end, with nothing to hand over    *)
(* to (what LangGraph does with it is not in this repository).             *)

EnterNode(a, n, o) ==
  /\ node' = [node EXCEPT ![a] = IF pc[a] = "graph" THEN n ELSE "none"]
  /\ outcome' = [outcome EXCEPT ![a] = IF pc[a] = "graph" THEN o ELSE "none"]
  /\ marked' = [marked EXCEPT ![a] = FALSE]

SetJobCurrentStep(a) ==
  /\ node[a] # "none"
  /\ ~marked[a]
  /\ marked' = [marked EXCEPT ![a] = TRUE]
  /\ \/ file' = [file EXCEPT !.processing = "processing"]
     \/ "throw" \in Faults /\ UNCHANGED file
  /\ UNCHANGED <<claimVars, queueVars, pc, node, outcome, recordVars, result>>

Run(a, n) == node[a] = n /\ marked[a]

LoadInput(a) ==
  /\ Run(a, "load_input")
  /\ \/ EnterNode(a, "extract_document", "none")
     \/ "throw" \in Faults /\ EnterNode(a, "persist_results", "unreadable")
  /\ UNCHANGED <<claimVars, queueVars, pc, recordVars, file, result>>

ExtractDocument(a) ==
  /\ Run(a, "extract_document")
  /\ \/ EnterNode(a, "process_certificates", "none")
     \/ \E o \in Findings \intersect Payloadless : EnterNode(a, "persist_results", o)
  /\ UNCHANGED <<claimVars, queueVars, pc, recordVars, file, result>>

ProcessCertificates(a) ==
  /\ Run(a, "process_certificates")
  /\ \E o \in Findings \ Payloadless : EnterNode(a, "persist_results", o)
  /\ UNCHANGED <<claimVars, queueVars, pc, recordVars, file, result>>

(* Mutant: the order leaves out the manual retries.                        *)
LaterNumber(a, b) ==
  \/ number[a] > number[b]
  \/ number[a] = number[b] /\ serial[a] >= serial[b]

(* The order in which persistResults looks for the newest attempt.         *)
Later(a, b) ==
  LET r == RetryNumber[target[a]]  s == RetryNumber[target[b]] IN
  \/ r > s
  \/ r = s /\ number[a] > number[b]
  \/ r = s /\ number[a] = number[b] /\ serial[a] >= serial[b]

IsLatest(a) == \A b \in Attempt : serial[b] # 0 => Later(a, b)

(* Mutants: the upsert has no setWhere; it looks at the order alone.       *)
MayPersistAlways(a) == TRUE
MayPersistNewest(a) == result = NoResult \/ IsLatest(a)

(* The first result is inserted, and one without a payload is replaced by  *)
(* the newest attempt only.                                                *)
MayPersist(a) ==
  \/ result = NoResult
  \/ result.outcome \in Payloadless /\ IsLatest(a)

PersistResults(a) ==
  /\ Run(a, "persist_results")
  /\ MayPersist(a)
  /\ extraction' = [extraction EXCEPT ![a] =
       IF outcome[a] \in Payloadless THEN "failed" ELSE "succeeded"]
  /\ result' = [by |-> a, outcome |-> outcome[a]]
  /\ EnterNode(a, "finalize_workflow", outcome[a])
  /\ UNCHANGED <<claimVars, queueVars, pc, job, serial, file>>

FinalizeWorkflow(a) ==
  /\ Run(a, "finalize_workflow")
  /\ EnterNode(a, "none", outcome[a])
  /\ IF pc[a] = "graph" THEN Goto(a, "finish") ELSE UNCHANGED pc
  /\ UNCHANGED <<claimVars, queueVars, recordVars, file, result>>

(* A node throws: persist_results because the document has a result that   *)
(* may not be replaced, any node because a service fails.                  *)
NodeThrows(a) ==
  /\ node[a] # "none" /\ marked[a]
  /\ \/ "throw" \in Faults
     \/ Run(a, "persist_results") /\ ~MayPersist(a)
  /\ EnterNode(a, "none", "none")
  /\ IF pc[a] = "graph" THEN Goto(a, "failing") ELSE UNCHANGED pc
  /\ UNCHANGED <<claimVars, queueVars, recordVars, file, result>>

-----------------------------------------------------------------------------
(* The heartbeat on the claim's lease, stopped when the graph has ended.   *)

(* It gives up when its renewal is refused or, after failed renewals, when *)
(* the local clock passes the last expiry it knows of.                     *)
NoticeLoss(a) ==
  /\ \/ /\ pc[a] = "init"
        /\ Goto(a, "init_lost")
        /\ UNCHANGED <<node, marked, outcome>>
     \/ /\ pc[a] = "graph"
        /\ Goto(a, "failing")
        /\ \/ EnterNode(a, "none", "none")
           \/ "orphan" \in Faults /\ UNCHANGED <<node, marked, outcome>>
  /\ ~ActiveClaim(a) \/ "deaf" \in Faults
  /\ UNCHANGED <<claimVars, queueVars, recordVars, file, result>>

(* A lease expires when its owner's process or handler is gone, or stalls. *)
LeaseLapses(e) ==
  /\ LeaseExpires(e)
  /\ pc[row[e].owner] = "gone" \/ "stall" \in Faults
  /\ UNCHANGED <<queue, handlerVars, recordVars, file, result>>

-----------------------------------------------------------------------------
(* Settling the event, or releasing it.                                    *)

RenewForFinish(a) ==
  /\ pc[a] = "finish"
  /\ Renew(a)
  /\ Goto(a, "finalize")
  /\ UNCHANGED <<queueVars, node, marked, outcome, recordVars, file, result>>

TerminalOf(o) ==
  CASE o = "accepted" -> "success"
    [] o = "duplicate" -> "duplicate"
    [] OTHER -> "error"

(* Mutant: the file is given the workflow's outcome as it is.              *)
FinalizeUnmapped(a) ==
  LET s == TerminalOf(outcome[a]) IN
  /\ pc[a] = "finalize"
  /\ Complete(a, s)
  /\ job' = [job EXCEPT ![a] = s]
  /\ file' = [file EXCEPT !.processing = outcome[a]]
  /\ Goto(a, "delete")
  /\ outcome' = [outcome EXCEPT ![a] = "none"]
  /\ UNCHANGED <<queueVars, node, marked, extraction, serial, result>>

Finalize(a) ==
  LET s == TerminalOf(outcome[a]) IN
  /\ pc[a] = "finalize"
  /\ Complete(a, s)
  /\ job' = [job EXCEPT ![a] = s]
  /\ file' = [file EXCEPT !.processing = s]
  /\ \/ Goto(a, "delete")
     \/ "throw" \in Faults /\ Goto(a, "failing")
  /\ outcome' = [outcome EXCEPT ![a] = "none"]
  /\ UNCHANGED <<queueVars, node, marked, extraction, serial, result>>

(* Ownership was lost on the way, or the database fails.                   *)
FinishFails(a) ==
  /\ pc[a] \in {"finish", "finalize"}
  /\ ~ActiveClaim(a) \/ "throw" \in Faults
  /\ Goto(a, "failing")
  /\ outcome' = [outcome EXCEPT ![a] = "none"]
  /\ UNCHANGED <<claimVars, queueVars, node, marked, recordVars, file, result>>

(* Mutant: without its claim, a handler leaves the job as it is.           *)
RecordClaimFailureOwned(a) ==
  /\ pc[a] \in {"failing", "abandoning"}
  /\ \/ /\ pc[a] = "failing"
        /\ Fail(a)
        /\ file' = [file EXCEPT !.processing = "error"]
        /\ job' = [job EXCEPT ![a] = "failed"]
        /\ extraction' = [extraction EXCEPT ![a] = "failed"]
     \/ /\ pc[a] = "abandoning" => Fail(a)
        /\ pc[a] = "failing" => ~ActiveClaim(a) /\ UNCHANGED claimVars
        /\ UNCHANGED <<file, job, extraction>>
  /\ Goto(a, "gone")
  /\ UNCHANGED <<queueVars, node, marked, outcome, serial, result>>

(* One transaction: the claim is released if it still is this attempt's,   *)
(* and an opened job is closed in either case.                             *)
RecordClaimFailure(a) ==
  /\ pc[a] \in {"failing", "abandoning"}
  /\ LET opened == pc[a] = "failing" IN
     /\ \/ /\ Fail(a)
           /\ file' = IF opened THEN [file EXCEPT !.processing = "error"] ELSE file
        \/ ~ActiveClaim(a) /\ UNCHANGED <<claimVars, file>>
     /\ job' = IF opened THEN [job EXCEPT ![a] = "failed"] ELSE job
     /\ extraction' = IF opened /\ extraction[a] = "processing"
                      THEN [extraction EXCEPT ![a] = "failed"] ELSE extraction
  /\ Goto(a, "gone")
  /\ UNCHANGED <<queueVars, node, marked, outcome, serial, result>>

(* Recording the failure fails too, and is only logged.                    *)
RecordingFails(a) ==
  /\ pc[a] \in {"failing", "abandoning"}
  /\ "throw" \in Faults
  /\ Goto(a, "gone")
  /\ UNCHANGED <<claimVars, queueVars, node, marked, outcome, recordVars, file, result>>

-----------------------------------------------------------------------------
(* The world around the handlers.                                          *)

Crash(a) ==
  /\ "crash" \in Faults
  /\ pc[a] \notin {"idle", "gone"} \/ node[a] # "none"
  /\ Goto(a, "gone")
  /\ node' = [node EXCEPT ![a] = "none"]
  /\ outcome' = [outcome EXCEPT ![a] = "none"]
  /\ marked' = [marked EXCEPT ![a] = FALSE]
  /\ UNCHANGED <<claimVars, queueVars, recordVars, file, result>>

(* What the user is shown, and may remove: the file is read first, and     *)
(* updated without another look at it.                                     *)
OverallStatus ==
  CASE file.processing # "pending" -> file.processing
    [] file.processing = "pending" /\ file.queue = "failed" -> "error"
    [] file.processing = "pending" /\ file.queue \in {"queued", "sending"} -> "queued"
    [] OTHER -> "pending"

AskRemoval ==
  /\ "removal" \in Faults
  /\ file.removal = "none"
  /\ OverallStatus \in {"duplicate", "error"}
  /\ file' = [file EXCEPT !.removal = "asked"]
  /\ UNCHANGED <<claimVars, queue, handlerVars, recordVars, result>>

RemoveUpload ==
  /\ file.removal = "asked"
  /\ file' = [file EXCEPT !.removal = "done"]
  /\ UNCHANGED <<claimVars, queue, handlerVars, recordVars, result>>

-----------------------------------------------------------------------------
Handle(a) ==
  \/ ClaimEvent(a) \/ ClaimThrows(a) \/ AnswerRefused(a)
  \/ InitJob(a) \/ InitFails(a)
  \/ SetJobCurrentStep(a)
  \/ LoadInput(a) \/ ExtractDocument(a) \/ ProcessCertificates(a)
  \/ PersistResults(a) \/ FinalizeWorkflow(a) \/ NodeThrows(a)
  \/ RenewForFinish(a) \/ Finalize(a) \/ FinishFails(a)
  \/ RecordClaimFailure(a) \/ RecordingFails(a)
  \/ DeleteMessage(a)

PipelineNext ==
  \/ \E a \in Attempt :
       \/ Handle(a)
       \/ NoticeLoss(a) \/ Crash(a)
       \/ \E m \in Message : Receive(a, m)
  \/ \E m \in Message : DeadLetter(m) \/ VisibilityLapses(m)
  \/ \E e \in Event : LeaseLapses(e)
  \/ AskRemoval \/ RemoveUpload

PipelineSpec == PipelineInit /\ [][PipelineNext]_pipelineVars

(* Fair: a live handler keeps going, its heartbeat notices a lost claim,   *)
(* a visible message is received or dead-lettered, an unattended one       *)
(* becomes visible again, and the lease of a handler that is gone ends.    *)
FairPipelineSpec ==
  /\ PipelineSpec
  /\ \A a \in Attempt :
       /\ WF_pipelineVars(Handle(a))
       /\ WF_pipelineVars(NoticeLoss(a) /\ ~ActiveClaim(a))
  /\ \A m \in Message :
       /\ WF_pipelineVars(\E a \in Attempt : Receive(a, m))
       /\ WF_pipelineVars(DeadLetter(m))
       /\ WF_pipelineVars(VisibilityLapses(m) /\ ~Handling(m))
  /\ \A e \in Event : WF_pipelineVars(LeaseLapses(e) /\ pc[row[e].owner] = "gone")
-----------------------------------------------------------------------------
PipelineTypeOK ==
  /\ ClaimTypeOK
  /\ queue \in [Message -> [at : {"unsent", "visible", "inflight", "deleted", "dlq"},
                           receives : 0 .. MaxReceive]]
  /\ receipt \in [Attempt -> Message \union {NoMessage}]
  /\ pc \in [Attempt -> PC]
  /\ node \in [Attempt -> Node \union {"none"}]
  /\ marked \in [Attempt -> BOOLEAN]
  /\ outcome \in [Attempt -> Outcome \union {"none"}]
  /\ job \in [Attempt -> {"absent", "processing", "failed"} \union TerminalState]
  /\ extraction \in [Attempt -> {"absent", "processing", "succeeded", "failed"}]
  /\ serial \in [Attempt -> Nat]
  /\ file \in [event : Event \union {NoEvent},
              queue : {"pending", "sending", "queued", "failed"},
              processing : {"pending", "processing"} \union TerminalState,
              removal : {"none", "asked", "done"}]
  /\ result \in [by : Attempt, outcome : Outcome] \union {NoResult}

(* A message leaves the queue for good only when its event is settled: no  *)
(* delivery is acknowledged by a worker that lost the event, or because    *)
(* another one was still busy with it.                                     *)
AcknowledgedMeansSettled ==
  \A m \in Message :
    queue[m].at = "deleted" => row[EventOf[m]].state \in TerminalState

(* A settled event's outcome is the outcome of the document result that    *)
(* its own last owner persisted: nobody, in no order of stale and late     *)
(* writers, can have replaced an accepted or duplicate document behind it. *)
SettledByItsResult ==
  \A e \in Event :
    /\ row[e].state \in {"success", "duplicate"} =>
         result.by = row[e].owner /\ TerminalOf(result.outcome) = row[e].state
    /\ row[e].state = "error" => result # NoResult

(* A document that has been read keeps its result: whichever attempt is    *)
(* next, taken over, aborted or retried, may only replace a missing one.   *)
ResultFinal ==
  [][result.outcome \notin {"none"} \union Payloadless => result' = result]_result

(* Every message that is sent ends acknowledged or in the dead-letter      *)
(* queue: lost leases and busy claims never leave it going round for ever. *)
EventuallyDisposed ==
  \A m \in Message :
    queue[m].at = "visible" ~> queue[m].at \in {"deleted", "dlq"}

(* As long as its process lives, a handler closes the job it opened,       *)
(* whether it finishes, is taken over, or loses its claim on the way.      *)
JobsClosed ==
  \A a \in Attempt : job[a] = "processing" ~> job[a] # "processing"

-----------------------------------------------------------------------------
(* What the documents say and the code does not keep.                      *)

Quiet(e) ==
  \A a \in Attempt : target[a] = e => pc[a] \in {"idle", "gone"} /\ node[a] = "none"

(* "Permanent failures remain visible through persisted file and worker    *)
(* status": a file whose message was given up is not shown as in progress. *)
(* A worker that crashes writes no status, and nobody reads the queue of   *)
(* dead letters to do it afterwards.                                       *)
PermanentFailuresVisible ==
  \A m \in Message :
    queue[m].at = "dlq" /\ Quiet(EventOf[m]) /\ file.event = EventOf[m]
      => file.processing # "processing"

(* "Retry-safe through SQS and idempotency records": a document's event is *)
(* not given up as failed when the document's result has been saved.  But  *)
(* the attempt that follows a crash between persistResults and the final   *)
(* transaction reads the document again, and may not save it again.        *)
RetrySafe ==
  \A m \in Message :
    queue[m].at = "dlq" /\ Quiet(EventOf[m]) /\ row[EventOf[m]].state = "failed"
      => result.outcome \in {"none"} \union Payloadless

(* "Processing: the worker is extracting, validating, and saving results": *)
(* a file whose event is settled is not processing.  A worker that was     *)
(* taken over reports its progress without looking at its claim.           *)
ProcessingMeansWork ==
  \A e \in Event :
    row[e].state \in TerminalState /\ Quiet(e) /\ file.event = e
      => file.processing # "processing"
=============================================================================
