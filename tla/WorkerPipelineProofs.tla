------------------------ MODULE WorkerPipelineProofs ------------------------
(***************************************************************************)
(* WorkerPipeline for every set of messages, events and attempts, whatever *)
(* faults happen: what EventClaimProofs shows of the claims holds of the   *)
(* handlers that use them, nothing is acknowledged that is not settled,    *)
(* and what an event is settled with is what its document's result says.   *)
(***************************************************************************)
EXTENDS WorkerPipeline, EventClaimProofs, FiniteSetTheorems

(* Handlers touch the claims by the repository's operations only.          *)
LEMMA PipelineSimulation == [PipelineNext]_pipelineVars => [ClaimNext]_claimVars
<1> SUFFICES ASSUME PipelineNext
             PROVE  ClaimNext \/ UNCHANGED claimVars
  BY DEF pipelineVars
<1>1. ASSUME NEW a \in Attempt, NEW m \in Message, Receive(a, m)
      PROVE  ClaimNext
  BY <1>1, PipelineAssumption DEF Receive, ClaimNext
<1>2. ASSUME NEW a \in Attempt,
             ClaimEvent(a) \/ ClaimThrows(a) \/ AnswerRefused(a) \/ RenewForFinish(a)
      PROVE  ClaimNext \/ UNCHANGED claimVars
  BY <1>2 DEF ClaimEvent, ClaimThrows, AnswerRefused, RenewForFinish, ClaimNext
<1>3. ASSUME NEW a \in Attempt, Finalize(a)
      PROVE  ClaimNext
  <2>1. TerminalOf(outcome[a]) \in TerminalState
    BY DEF TerminalOf, TerminalState
  <2> QED
    BY <1>3, <2>1 DEF Finalize, ClaimNext
<1>4. ASSUME NEW a \in Attempt, RecordClaimFailure(a)
      PROVE  ClaimNext \/ UNCHANGED claimVars
  BY <1>4 DEF RecordClaimFailure, ClaimNext
<1>5. ASSUME NEW e \in Event, LeaseLapses(e)
      PROVE  ClaimNext
  BY <1>5 DEF LeaseLapses, ClaimNext
<1>6. ASSUME NEW a \in Attempt,
             \/ InitJob(a) \/ InitFails(a) \/ SetJobCurrentStep(a)
             \/ LoadInput(a) \/ ExtractDocument(a) \/ ProcessCertificates(a)
             \/ PersistResults(a) \/ FinalizeWorkflow(a) \/ NodeThrows(a)
             \/ FinishFails(a) \/ RecordingFails(a) \/ DeleteMessage(a)
             \/ NoticeLoss(a) \/ Crash(a)
      PROVE  UNCHANGED claimVars
  BY <1>6 DEF InitJob, InitFails, SetJobCurrentStep, LoadInput, ExtractDocument,
    ProcessCertificates, PersistResults, FinalizeWorkflow, NodeThrows, FinishFails,
    RecordingFails, DeleteMessage, NoticeLoss, Crash
<1>7. ASSUME \/ AskRemoval \/ RemoveUpload
             \/ \E m \in Message : DeadLetter(m) \/ VisibilityLapses(m)
      PROVE  UNCHANGED claimVars
  BY <1>7 DEF AskRemoval, RemoveUpload, DeadLetter, VisibilityLapses
<1> QED
  BY <1>1, <1>2, <1>3, <1>4, <1>5, <1>6, <1>7 DEF PipelineNext, Handle

(* Every run of the pipeline is a run of its claims: the claims' theorems  *)
(* hold of it, and through them it implements exclusive work.              *)
THEOREM PipelineImplementsClaims == PipelineSpec => ClaimSpec
<1>1. PipelineInit => ClaimInit
  BY DEF PipelineInit, PipelineIdle
<1> QED
  BY <1>1, PipelineSimulation, PTL DEF PipelineSpec, ClaimSpec

(* Only persistResults writes the document's result.                       *)
LEMMA ResultBegins ==
  ASSUME [PipelineNext]_pipelineVars, result' # result
  PROVE  \E a \in Attempt : PersistResults(a)
<1>1. ASSUME \A a \in Attempt : ~PersistResults(a)
      PROVE  result' = result
  BY <1>1 DEF pipelineVars, PipelineNext, Handle, Receive, ClaimEvent, ClaimThrows,
    AnswerRefused, RenewForFinish, Finalize, RecordClaimFailure, LeaseLapses, InitJob,
    InitFails, SetJobCurrentStep, LoadInput, ExtractDocument, ProcessCertificates,
    FinalizeWorkflow, NodeThrows, FinishFails, RecordingFails, DeleteMessage, NoticeLoss,
    Crash, AskRemoval, RemoveUpload, DeadLetter, VisibilityLapses
<1> QED
  BY <1>1

(* A document that has been read keeps its result.                         *)
THEOREM ReadResultIsFinal == PipelineSpec => ResultFinal
<1>1. [PipelineNext]_pipelineVars =>
        [result.outcome \notin {"none"} \union Payloadless => result' = result]_result
  BY ResultBegins DEF PersistResults, MayPersist, NoResult
<1> QED
  BY <1>1, PTL DEF PipelineSpec, ResultFinal

-----------------------------------------------------------------------------
LEMMA PipelineInitType == PipelineInit => PipelineTypeOK
  BY ClaimInitType, PipelineAssumption
  DEF PipelineInit, PipelineIdle, PipelineTypeOK, PC, NoResult

(* The identity of a new extraction attempt is a number: attempts are      *)
(* finitely many.                                                          *)
LEMMA FreshSerial == Cardinality({b \in Attempt : serial[b] # 0}) + 1 \in Nat
<1>1. IsFiniteSet({b \in Attempt : serial[b] # 0})
  BY PipelineAssumption, FS_Subset
<1> QED
  BY <1>1, FS_CardinalityType

(* The workflow has an outcome when it persists its results, and until the *)
(* handler has used it.                                                    *)
NodeOK ==
  \A a \in Attempt :
    /\ node[a] \in {"persist_results", "finalize_workflow"} => outcome[a] \in Outcome
    /\ pc[a] \in {"finish", "finalize"} => node[a] = "none" /\ outcome[a] \in Outcome
    /\ pc[a] = "idle" => node[a] = "none"

LEMMA PipelineTypeStep ==
  PipelineTypeOK /\ NodeOK /\ [PipelineNext]_pipelineVars => PipelineTypeOK'
<1> SUFFICES ASSUME PipelineTypeOK, NodeOK, [PipelineNext]_pipelineVars
             PROVE  PipelineTypeOK'
  OBVIOUS
<1>0. ClaimTypeOK'
  BY PipelineSimulation, ClaimTypeStep DEF PipelineTypeOK
<1> USE <1>0 DEF PipelineTypeOK, Goto, PC
<1>1. ASSUME NEW a \in Attempt, NEW m \in Message, Receive(a, m)
      PROVE  PipelineTypeOK'
  BY <1>1, PipelineAssumption DEF Receive, recordVars
<1>2. ASSUME NEW m \in Message, DeadLetter(m) \/ VisibilityLapses(m)
      PROVE  PipelineTypeOK'
  BY <1>2 DEF DeadLetter, VisibilityLapses, handlerVars, recordVars
<1>3. ASSUME NEW a \in Attempt, DeleteMessage(a)
      PROVE  PipelineTypeOK'
  BY <1>3 DEF DeleteMessage, recordVars
<1>4. ASSUME NEW a \in Attempt,
             ClaimEvent(a) \/ ClaimThrows(a) \/ AnswerRefused(a) \/ RenewForFinish(a)
      PROVE  PipelineTypeOK'
  BY <1>4 DEF ClaimEvent, ClaimThrows, AnswerRefused, RenewForFinish, queueVars, recordVars
<1>5. ASSUME NEW a \in Attempt, InitJob(a)
      PROVE  PipelineTypeOK'
  <2>1. serial' \in [Attempt -> Nat]
    BY <1>5, FreshSerial DEF InitJob
  <2>2. target[a] \in Event \union {NoEvent}
    BY DEF ClaimTypeOK
  <2> QED
    BY <1>5, <2>1, <2>2 DEF InitJob, queueVars, Node
<1>6. ASSUME NEW a \in Attempt,
             InitFails(a) \/ FinishFails(a) \/ RecordingFails(a) \/ Crash(a)
      PROVE  PipelineTypeOK'
  <2>1. CASE InitFails(a) \/ RecordingFails(a)
    BY <2>1 DEF InitFails, RecordingFails, queueVars, recordVars
  <2>2. CASE FinishFails(a)
    BY <2>2 DEF FinishFails, queueVars, recordVars
  <2>3. CASE Crash(a)
    BY <2>3 DEF Crash, queueVars, recordVars
  <2> QED
    BY <1>6, <2>1, <2>2, <2>3
<1>7. ASSUME NEW a \in Attempt, SetJobCurrentStep(a)
      PROVE  PipelineTypeOK'
  BY <1>7 DEF SetJobCurrentStep, queueVars, recordVars
<1>8. ASSUME NEW a \in Attempt, LoadInput(a) \/ ExtractDocument(a) \/ ProcessCertificates(a)
      PROVE  PipelineTypeOK'
  <2>1. PICK n \in Node, o \in Outcome \union {"none"} : EnterNode(a, n, o)
    BY <1>8, PipelineAssumption
    DEF LoadInput, ExtractDocument, ProcessCertificates, Node, Outcome, Payloadless
  <2>2. UNCHANGED <<queueVars, pc, recordVars, file, result>>
    BY <1>8 DEF LoadInput, ExtractDocument, ProcessCertificates
  <2> QED
    BY <2>1, <2>2 DEF EnterNode, queueVars, recordVars
<1>9. ASSUME NEW a \in Attempt, PersistResults(a)
      PROVE  PipelineTypeOK'
  <2>1. outcome[a] \in Outcome
    BY <1>9 DEF PersistResults, Run, NodeOK
  <2>2. EnterNode(a, "finalize_workflow", outcome[a])
    BY <1>9 DEF PersistResults
  <2>3. /\ node' \in [Attempt -> Node \union {"none"}]
        /\ marked' \in [Attempt -> BOOLEAN]
        /\ outcome' \in [Attempt -> Outcome \union {"none"}]
    BY <2>1, <2>2 DEF EnterNode, Node
  <2> QED
    BY <1>9, <2>1, <2>3 DEF PersistResults, queueVars
<1>10. ASSUME NEW a \in Attempt, FinalizeWorkflow(a) \/ NodeThrows(a)
      PROVE  PipelineTypeOK'
  <2>1. CASE FinalizeWorkflow(a)
    BY <2>1 DEF FinalizeWorkflow, EnterNode, queueVars, recordVars
  <2>2. CASE NodeThrows(a)
    BY <2>2 DEF NodeThrows, EnterNode, queueVars, recordVars
  <2> QED
    BY <1>10, <2>1, <2>2
<1>11. ASSUME NEW a \in Attempt, NoticeLoss(a)
      PROVE  PipelineTypeOK'
  BY <1>11 DEF NoticeLoss, EnterNode, queueVars, recordVars
<1>12. ASSUME NEW a \in Attempt, Finalize(a)
      PROVE  PipelineTypeOK'
  BY <1>12 DEF Finalize, TerminalOf, TerminalState, queueVars
<1>13. ASSUME NEW a \in Attempt, RecordClaimFailure(a)
      PROVE  PipelineTypeOK'
  BY <1>13 DEF RecordClaimFailure, TerminalState, queueVars
<1>14. ASSUME NEW e \in Event, LeaseLapses(e)
      PROVE  PipelineTypeOK'
  BY <1>14 DEF LeaseLapses, handlerVars, recordVars
<1>15. CASE AskRemoval \/ RemoveUpload
  BY <1>15 DEF AskRemoval, RemoveUpload, handlerVars, recordVars
<1>16. CASE UNCHANGED pipelineVars
  BY <1>16 DEF pipelineVars, handlerVars, recordVars
<1> QED
  BY <1>1, <1>2, <1>3, <1>4, <1>5, <1>6, <1>7, <1>8, <1>9, <1>10, <1>11, <1>12, <1>13,
     <1>14, <1>15, <1>16 DEF PipelineNext, Handle

(* Each step keeps the outcome where it is needed.                         *)
LEMMA NodeStep ==
  PipelineTypeOK /\ NodeOK /\ [PipelineNext]_pipelineVars => NodeOK'
<1> SUFFICES ASSUME PipelineTypeOK, NodeOK, [PipelineNext]_pipelineVars
             PROVE  NodeOK'
  OBVIOUS
<1> USE DEF PipelineTypeOK, NodeOK, Goto
<1>1. ASSUME NEW a \in Attempt,
             \/ \E m \in Message : Receive(a, m)
             \/ ClaimEvent(a) \/ ClaimThrows(a) \/ AnswerRefused(a) \/ DeleteMessage(a)
      PROVE  NodeOK'
  BY <1>1 DEF Receive, ClaimEvent, ClaimThrows, AnswerRefused, DeleteMessage
<1>2. ASSUME NEW a \in Attempt, InitJob(a) \/ InitFails(a)
      PROVE  NodeOK'
  BY <1>2 DEF InitJob, InitFails
<1>3. ASSUME NEW a \in Attempt, SetJobCurrentStep(a)
      PROVE  NodeOK'
  BY <1>3 DEF SetJobCurrentStep
<1>4. ASSUME NEW a \in Attempt, LoadInput(a) \/ ExtractDocument(a) \/ ProcessCertificates(a)
      PROVE  NodeOK'
  <2>1. PICK n \in Node, o \in Outcome \union {"none"} :
          EnterNode(a, n, o) /\ (n = "persist_results" => o \in Outcome)
                            /\ n # "finalize_workflow"
    BY <1>4, PipelineAssumption
    DEF LoadInput, ExtractDocument, ProcessCertificates, Node, Outcome, Payloadless
  <2>2. UNCHANGED pc /\ node[a] # "none"
    BY <1>4 DEF LoadInput, ExtractDocument, ProcessCertificates, Run
  <2> QED
    BY <2>1, <2>2 DEF EnterNode
<1>5. ASSUME NEW a \in Attempt, PersistResults(a)
      PROVE  NodeOK'
  BY <1>5 DEF PersistResults, Run, EnterNode
<1>6. ASSUME NEW a \in Attempt, FinalizeWorkflow(a)
      PROVE  NodeOK'
  BY <1>6 DEF FinalizeWorkflow, Run, EnterNode
<1>7. ASSUME NEW a \in Attempt, NodeThrows(a)
      PROVE  NodeOK'
  BY <1>7 DEF NodeThrows, EnterNode
<1>8. ASSUME NEW a \in Attempt, NoticeLoss(a)
      PROVE  NodeOK'
  BY <1>8 DEF NoticeLoss, EnterNode
<1>9. ASSUME NEW a \in Attempt, RenewForFinish(a)
      PROVE  NodeOK'
  BY <1>9 DEF RenewForFinish
<1>10. ASSUME NEW a \in Attempt, Finalize(a) \/ FinishFails(a)
      PROVE  NodeOK'
  BY <1>10 DEF Finalize, FinishFails
<1>11. ASSUME NEW a \in Attempt, RecordClaimFailure(a) \/ RecordingFails(a) \/ Crash(a)
      PROVE  NodeOK'
  BY <1>11 DEF RecordClaimFailure, RecordingFails, Crash
<1>12. CASE UNCHANGED <<pc, node, outcome>>
  BY <1>12
<1> QED
  BY <1>1, <1>2, <1>3, <1>4, <1>5, <1>6, <1>7, <1>8, <1>9, <1>10, <1>11, <1>12
  DEF PipelineNext, Handle, DeadLetter, VisibilityLapses, LeaseLapses, AskRemoval,
      RemoveUpload, pipelineVars, handlerVars

PipelineShape == PipelineTypeOK /\ LiveMeansRunning /\ NodeOK

LEMMA PipelineShapeInvariant == PipelineSpec => []PipelineShape
<1>1. PipelineInit => PipelineShape
  BY PipelineInitType
  DEF PipelineShape, PipelineInit, PipelineIdle, NodeOK, LiveMeansRunning, ClaimInit, NoRow
<1>2. PipelineShape /\ [PipelineNext]_pipelineVars => PipelineShape'
  BY PipelineTypeStep, NodeStep, LiveStep, PipelineSimulation
  DEF PipelineShape, PipelineTypeOK
<1> QED
  BY <1>1, <1>2, PTL DEF PipelineSpec

(* The queue, the handlers and the rows they write keep their shape.       *)
THEOREM PipelineTypeCorrect == PipelineSpec => []PipelineTypeOK
<1>1. PipelineShape => PipelineTypeOK
  BY DEF PipelineShape
<1> QED
  BY <1>1, PipelineShapeInvariant, PTL

-----------------------------------------------------------------------------
(* A handler works on the event of the message it was given, and is about  *)
(* to delete that message only if the event is settled.                    *)
DeliveryOK ==
  \A a \in Attempt :
    /\ pc[a] # "idle" => receipt[a] \in Message /\ EventOf[receipt[a]] = target[a]
    /\ pc[a] = "delete" => row[target[a]].state \in TerminalState

(* A handler that has begun keeps its message and its event.               *)
LEMMA DeliveryKept ==
  ASSUME PipelineTypeOK, NodeOK, [PipelineNext]_pipelineVars,
         NEW a \in Attempt, pc[a] # "idle"
  PROVE  pc'[a] # "idle" /\ receipt'[a] = receipt[a] /\ target'[a] = target[a]
<1> USE DEF PipelineTypeOK, ClaimTypeOK, Goto, queueVars, handlerVars, claimVars
<1>1. ASSUME NEW b \in Attempt, NEW m \in Message, Receive(b, m)
      PROVE  pc'[a] # "idle" /\ receipt'[a] = receipt[a] /\ target'[a] = target[a]
  BY <1>1 DEF Receive, Deliver
<1>2. ASSUME NEW b \in Attempt,
             \/ ClaimEvent(b) \/ ClaimThrows(b) \/ AnswerRefused(b) \/ RenewForFinish(b) \/ Finalize(b)
             \/ RecordClaimFailure(b)
      PROVE  pc'[a] # "idle" /\ receipt'[a] = receipt[a] /\ target'[a] = target[a]
  BY <1>2 DEF ClaimEvent, ClaimThrows, AnswerRefused, RenewForFinish, Finalize, RecordClaimFailure,
    ClaimRow, ClaimRefused, ReadRefused, Renew, Complete, Fail, Transition
<1>3. ASSUME NEW b \in Attempt,
             \/ InitJob(b) \/ InitFails(b) \/ SetJobCurrentStep(b)
             \/ LoadInput(b) \/ ExtractDocument(b) \/ ProcessCertificates(b)
             \/ PersistResults(b) \/ FinalizeWorkflow(b) \/ NodeThrows(b)
             \/ FinishFails(b) \/ RecordingFails(b) \/ DeleteMessage(b)
             \/ NoticeLoss(b) \/ Crash(b)
      PROVE  pc'[a] # "idle" /\ receipt'[a] = receipt[a] /\ target'[a] = target[a]
  BY <1>3 DEF InitJob, InitFails, SetJobCurrentStep, LoadInput, ExtractDocument,
    ProcessCertificates, PersistResults, FinalizeWorkflow, NodeThrows, FinishFails,
    RecordingFails, DeleteMessage, NoticeLoss, Crash
<1>4. ASSUME \/ \E m \in Message : DeadLetter(m) \/ VisibilityLapses(m)
             \/ \E e \in Event : LeaseLapses(e)
             \/ AskRemoval \/ RemoveUpload \/ UNCHANGED pipelineVars
      PROVE  pc'[a] # "idle" /\ receipt'[a] = receipt[a] /\ target'[a] = target[a]
  BY <1>4 DEF DeadLetter, VisibilityLapses, LeaseLapses, LeaseExpires, AskRemoval,
    RemoveUpload, pipelineVars
<1> QED
  BY <1>1, <1>2, <1>3, <1>4 DEF PipelineNext, Handle

(* A handler begins by receiving, and comes to delete its message by       *)
(* finding the event settled or by settling it.                            *)
LEMMA DeliveryBegins ==
  ASSUME PipelineTypeOK, NodeOK, [PipelineNext]_pipelineVars, NEW a \in Attempt
  PROVE  /\ pc[a] = "idle" /\ pc'[a] # "idle" => \E m \in Message : Receive(a, m)
         /\ pc[a] # "delete" /\ pc'[a] = "delete" => AnswerRefused(a) \/ Finalize(a)
<1> DEFINE Begins == /\ pc[a] = "idle" /\ pc'[a] # "idle" => \E m \in Message : Receive(a, m)
                     /\ pc[a] # "delete" /\ pc'[a] = "delete" => AnswerRefused(a) \/ Finalize(a)
<1> USE DEF PipelineTypeOK, ClaimTypeOK, Goto, queueVars, handlerVars, claimVars
<1>1. ASSUME NEW b \in Attempt, NEW m \in Message, Receive(b, m)
      PROVE  Begins
  <2>1. pc' = [pc EXCEPT ![b] = "claim"]
    BY <1>1 DEF Receive
  <2> QED
    BY <1>1, <2>1
<1>2. ASSUME NEW b \in Attempt, AnswerRefused(b) \/ Finalize(b)
      PROVE  Begins
  <2>1. \E l \in PC : pc' = [pc EXCEPT ![b] = l]
    BY <1>2 DEF AnswerRefused, Finalize, PC
  <2>2. pc[b] # "idle"
    BY <1>2 DEF AnswerRefused, ReadRefused, Finalize, Complete, Transition, NodeOK
  <2> QED
    BY <1>2, <2>1, <2>2
<1>3. ASSUME NEW b \in Attempt,
             \/ ClaimEvent(b) \/ ClaimThrows(b) \/ RenewForFinish(b) \/ RecordClaimFailure(b)
             \/ InitJob(b) \/ InitFails(b) \/ SetJobCurrentStep(b)
             \/ LoadInput(b) \/ ExtractDocument(b) \/ ProcessCertificates(b)
             \/ PersistResults(b) \/ FinalizeWorkflow(b) \/ NodeThrows(b)
             \/ FinishFails(b) \/ RecordingFails(b) \/ DeleteMessage(b)
             \/ NoticeLoss(b) \/ Crash(b)
      PROVE  Begins
  <2> DEFINE Goes == pc' = pc \/ \E l \in PC \ {"idle", "delete"} : pc' = [pc EXCEPT ![b] = l]
  <2>1. Goes
    <3>1. CASE ClaimEvent(b) \/ ClaimThrows(b) \/ RenewForFinish(b) \/ InitFails(b)
      BY <3>1 DEF PC, ClaimEvent, ClaimThrows, RenewForFinish, InitFails
    <3>2. CASE \/ RecordClaimFailure(b) \/ FinishFails(b) \/ RecordingFails(b)
               \/ DeleteMessage(b) \/ Crash(b)
      BY <3>2 DEF PC, RecordClaimFailure, FinishFails, RecordingFails, DeleteMessage, Crash
    <3>3. CASE InitJob(b)
      BY <3>3 DEF PC, InitJob
    <3>4. CASE \/ SetJobCurrentStep(b) \/ LoadInput(b) \/ ExtractDocument(b)
               \/ ProcessCertificates(b) \/ PersistResults(b)
      BY <3>4 DEF SetJobCurrentStep, LoadInput, ExtractDocument, ProcessCertificates,
        PersistResults
    <3>5. CASE FinalizeWorkflow(b)
      BY <3>5 DEF PC, FinalizeWorkflow
    <3>6. CASE NodeThrows(b)
      BY <3>6 DEF PC, NodeThrows
    <3>7. CASE NoticeLoss(b)
      BY <3>7 DEF PC, NoticeLoss
    <3> QED
      BY <1>3, <3>1, <3>2, <3>3, <3>4, <3>5, <3>6, <3>7
  <2>2. pc[b] # "idle"
    BY <1>3 DEF NodeOK, ClaimEvent, ClaimThrows, RenewForFinish, RecordClaimFailure, InitJob, InitFails,
      SetJobCurrentStep, LoadInput, ExtractDocument, ProcessCertificates, PersistResults,
      FinalizeWorkflow, NodeThrows, FinishFails, RecordingFails, DeleteMessage,
      NoticeLoss, Crash, Run, ClaimRow, ClaimRefused, Renew
  <2> QED
    BY <2>1, <2>2
<1>4. ASSUME \/ \E m \in Message : DeadLetter(m) \/ VisibilityLapses(m)
             \/ \E e \in Event : LeaseLapses(e)
             \/ AskRemoval \/ RemoveUpload \/ UNCHANGED pipelineVars
      PROVE  Begins
  BY <1>4 DEF DeadLetter, VisibilityLapses, LeaseLapses, AskRemoval, RemoveUpload,
    pipelineVars
<1> QED
  BY <1>1, <1>2, <1>3, <1>4 DEF PipelineNext, Handle

LEMMA DeliveryStep ==
  PipelineShape /\ DeliveryOK /\ [PipelineNext]_pipelineVars => DeliveryOK'
<1> SUFFICES ASSUME PipelineShape, DeliveryOK, [PipelineNext]_pipelineVars, NEW a \in Attempt
             PROVE  /\ pc'[a] # "idle" =>
                         receipt'[a] \in Message /\ EventOf[receipt'[a]] = target'[a]
                    /\ pc'[a] = "delete" => row'[target'[a]].state \in TerminalState
  BY DEF DeliveryOK
<1>1. Frozen
  BY PipelineSimulation, RowStep DEF PipelineShape, PipelineTypeOK
<1>2. pc'[a] # "idle" => receipt'[a] \in Message /\ EventOf[receipt'[a]] = target'[a]
  <2>1. CASE pc[a] # "idle"
    BY <2>1, DeliveryKept DEF PipelineShape, DeliveryOK
  <2>2. ASSUME NEW m \in Message, Receive(a, m)
        PROVE  receipt'[a] \in Message /\ EventOf[receipt'[a]] = target'[a]
    BY <2>2 DEF Receive, Deliver, PipelineShape, PipelineTypeOK, ClaimTypeOK
  <2> QED
    BY <2>1, <2>2, DeliveryBegins DEF PipelineShape
<1>3. ASSUME pc'[a] = "delete"
      PROVE  row'[target'[a]].state \in TerminalState
  <2>1. CASE pc[a] = "delete"
    <3>1. target'[a] = target[a] /\ target[a] \in Event /\ row[target[a]].state \in TerminalState
      BY <2>1, DeliveryKept, PipelineAssumption DEF PipelineShape, DeliveryOK
    <3> QED
      BY <3>1, <1>1 DEF Frozen
  <2>2. CASE AnswerRefused(a)
    BY <2>2, <1>3 DEF AnswerRefused, ReadRefused, Goto, PipelineShape, PipelineTypeOK, ClaimTypeOK
  <2>3. CASE Finalize(a)
    <3>1. TerminalOf(outcome[a]) \in TerminalState
      BY DEF TerminalOf, TerminalState
    <3>2. target[a] \in Event
      BY <2>3 DEF Finalize, Complete, Transition, PipelineShape, PipelineTypeOK, ClaimTypeOK
    <3> QED
      BY <2>3, <3>1, <3>2
      DEF Finalize, Complete, Transition, PipelineShape, PipelineTypeOK, ClaimTypeOK, Row
  <2> QED
    BY <2>1, <2>2, <2>3, <1>3, DeliveryBegins DEF PipelineShape
<1> QED
  BY <1>2, <1>3

(* Only the handler that was given a message deletes it.                   *)
LEMMA DeletedBegins ==
  ASSUME PipelineTypeOK, [PipelineNext]_pipelineVars, NEW m \in Message,
         queue[m].at # "deleted", queue'[m].at = "deleted"
  PROVE  \E a \in Attempt : DeleteMessage(a) /\ receipt[a] = m
<1> USE DEF PipelineTypeOK, queueVars
<1>1. ASSUME NEW b \in Attempt, NEW n \in Message, Receive(b, n)
      PROVE  FALSE
  BY <1>1 DEF Receive
<1>2. ASSUME NEW n \in Message, DeadLetter(n) \/ VisibilityLapses(n)
      PROVE  FALSE
  <2>1. CASE DeadLetter(n)
    BY <2>1 DEF DeadLetter
  <2>2. CASE VisibilityLapses(n)
    BY <2>2 DEF VisibilityLapses
  <2> QED
    BY <1>2, <2>1, <2>2
<1>3. ASSUME NEW b \in Attempt, Handle(b) \/ NoticeLoss(b) \/ Crash(b), ~DeleteMessage(b)
      PROVE  queue' = queue
  BY <1>3 DEF Handle, ClaimEvent, ClaimThrows, AnswerRefused, RenewForFinish, Finalize,
    RecordClaimFailure, InitJob, InitFails, SetJobCurrentStep, LoadInput, ExtractDocument,
    ProcessCertificates, PersistResults, FinalizeWorkflow, NodeThrows, FinishFails,
    RecordingFails, NoticeLoss, Crash
<1>4. ASSUME \/ \E e \in Event : LeaseLapses(e)
             \/ AskRemoval \/ RemoveUpload \/ UNCHANGED pipelineVars
      PROVE  queue' = queue
  BY <1>4 DEF LeaseLapses, AskRemoval, RemoveUpload, pipelineVars
<1>5. ASSUME NEW b \in Attempt, DeleteMessage(b)
      PROVE  receipt[b] = m
  <2>1. queue' = queue \/ queue' = [queue EXCEPT ![receipt[b]].at = "deleted"]
    BY <1>5 DEF DeleteMessage
  <2> QED
    BY <2>1
<1>6. queue' # queue
  OBVIOUS
<1>7. PICK b \in Attempt : Handle(b) \/ NoticeLoss(b) \/ Crash(b)
  BY <1>1, <1>2, <1>4, <1>6 DEF PipelineNext
<1> QED
  BY <1>3, <1>5, <1>6, <1>7

LEMMA DeletedStep ==
  PipelineShape /\ DeliveryOK /\ AcknowledgedMeansSettled /\ [PipelineNext]_pipelineVars
    => AcknowledgedMeansSettled'
<1> SUFFICES ASSUME PipelineShape, DeliveryOK, AcknowledgedMeansSettled,
                    [PipelineNext]_pipelineVars,
                    NEW m \in Message, queue'[m].at = "deleted"
             PROVE  row'[EventOf[m]].state \in TerminalState
  BY DEF AcknowledgedMeansSettled
<1>1. Frozen
  BY PipelineSimulation, RowStep DEF PipelineShape, PipelineTypeOK
<1>2. EventOf[m] \in Event
  BY PipelineAssumption
<1>3. CASE queue[m].at = "deleted"
  BY <1>1, <1>2, <1>3 DEF AcknowledgedMeansSettled, Frozen
<1>4. ASSUME NEW a \in Attempt, DeleteMessage(a), receipt[a] = m
      PROVE  row'[EventOf[m]].state \in TerminalState
  BY <1>4 DEF DeleteMessage, DeliveryOK, claimVars
<1>5. CASE queue[m].at # "deleted"
  <2>1. \E a \in Attempt : DeleteMessage(a) /\ receipt[a] = m
    BY <1>5, DeletedBegins DEF PipelineShape
  <2> QED
    BY <2>1, <1>4
<1> QED
  BY <1>3, <1>5

(* No message is lost: whatever crashes, stalls and redeliveries there     *)
(* are, a message is deleted from the queue only after its event has been  *)
(* settled by a worker that held the claim.                                *)
THEOREM NothingAcknowledgedUnsettled == PipelineSpec => []AcknowledgedMeansSettled
<1>1. PipelineInit => DeliveryOK /\ AcknowledgedMeansSettled
  BY DEF PipelineInit, PipelineIdle, DeliveryOK, AcknowledgedMeansSettled
<1> QED
  BY <1>1, PipelineShapeInvariant, DeliveryStep, DeletedStep, PTL DEF PipelineSpec

-----------------------------------------------------------------------------
(* From persisting its results until it settles its event, an attempt      *)
(* stands behind a result; behind its own one if the document was read.    *)
Persisted(a) ==
  \/ pc[a] = "graph" /\ node[a] = "finalize_workflow"
  \/ pc[a] \in {"finish", "finalize"}

ResultOK ==
  \A a \in Attempt : Persisted(a) =>
    /\ result # NoResult
    /\ outcome[a] \notin Payloadless => result = [by |-> a, outcome |-> outcome[a]]

LEMMA PersistedBegins ==
  ASSUME PipelineTypeOK, NodeOK, [PipelineNext]_pipelineVars,
         NEW a \in Attempt, Persisted(a)', ~PersistResults(a)
  PROVE  Persisted(a) /\ outcome'[a] = outcome[a]
<1> DEFINE Stays == Persisted(a) /\ outcome'[a] = outcome[a]
<1> USE DEF PipelineTypeOK, Goto, Persisted
<1>1. ASSUME NEW b \in Attempt,
             \/ \E m \in Message : Receive(b, m)
             \/ ClaimEvent(b) \/ ClaimThrows(b) \/ AnswerRefused(b) \/ RenewForFinish(b)
             \/ DeleteMessage(b)
      PROVE  Stays
  BY <1>1 DEF Receive, ClaimEvent, ClaimThrows, AnswerRefused, RenewForFinish, DeleteMessage
<1>2. ASSUME NEW b \in Attempt, InitJob(b) \/ InitFails(b)
      PROVE  Stays
  BY <1>2 DEF InitJob, InitFails
<1>3. ASSUME NEW b \in Attempt, SetJobCurrentStep(b)
      PROVE  Stays
  BY <1>3 DEF SetJobCurrentStep
<1>4. ASSUME NEW b \in Attempt, LoadInput(b) \/ ExtractDocument(b) \/ ProcessCertificates(b)
      PROVE  Stays
  <2>1. PICK n \in Node, o \in Outcome \union {"none"} :
          EnterNode(b, n, o) /\ n # "finalize_workflow"
    BY <1>4, PipelineAssumption
    DEF LoadInput, ExtractDocument, ProcessCertificates, Node, Outcome, Payloadless
  <2>2. UNCHANGED pc /\ node[b] # "none"
    BY <1>4 DEF LoadInput, ExtractDocument, ProcessCertificates, Run
  <2> QED
    BY <2>1, <2>2 DEF EnterNode, NodeOK
<1>5. ASSUME NEW b \in Attempt, PersistResults(b), b # a
      PROVE  Stays
  BY <1>5 DEF PersistResults, EnterNode
<1>6. ASSUME NEW b \in Attempt, FinalizeWorkflow(b)
      PROVE  Stays
  BY <1>6 DEF FinalizeWorkflow, Run, EnterNode, NodeOK
<1>7. ASSUME NEW b \in Attempt, NodeThrows(b)
      PROVE  Stays
  BY <1>7 DEF NodeThrows, EnterNode, NodeOK
<1>8. ASSUME NEW b \in Attempt, NoticeLoss(b)
      PROVE  Stays
  BY <1>8 DEF NoticeLoss, EnterNode
<1>9. ASSUME NEW b \in Attempt, Finalize(b) \/ FinishFails(b)
      PROVE  Stays
  BY <1>9 DEF Finalize, FinishFails
<1>10. ASSUME NEW b \in Attempt, RecordClaimFailure(b) \/ RecordingFails(b) \/ Crash(b)
      PROVE  Stays
  BY <1>10 DEF RecordClaimFailure, RecordingFails, Crash
<1>11. CASE UNCHANGED <<pc, node, outcome>>
  BY <1>11
<1> QED
  BY <1>1, <1>2, <1>3, <1>4, <1>5, <1>6, <1>7, <1>8, <1>9, <1>10, <1>11
  DEF PipelineNext, Handle, DeadLetter, VisibilityLapses, LeaseLapses, AskRemoval,
      RemoveUpload, pipelineVars, handlerVars

LEMMA ResultStep ==
  PipelineShape /\ ResultOK /\ [PipelineNext]_pipelineVars => ResultOK'
<1> SUFFICES ASSUME PipelineShape, ResultOK, [PipelineNext]_pipelineVars,
                    NEW a \in Attempt, Persisted(a)'
             PROVE  /\ result' # NoResult
                    /\ outcome'[a] \notin Payloadless
                         => result' = [by |-> a, outcome |-> outcome'[a]]
  BY DEF ResultOK
<1>1. CASE PersistResults(a)
  <2>1. pc[a] = "graph"
    BY <1>1 DEF PersistResults, Run, EnterNode, PipelineShape, PipelineTypeOK, NodeOK, Persisted
  <2>2. result' = [by |-> a, outcome |-> outcome[a]] /\ outcome'[a] = outcome[a]
    BY <1>1, <2>1 DEF PersistResults, EnterNode, PipelineShape, PipelineTypeOK
  <2> QED
    BY <2>2, NoOwnerAssumption DEF NoResult
<1>2. CASE ~PersistResults(a)
  <2>1. Persisted(a) /\ outcome'[a] = outcome[a]
    BY <1>2, PersistedBegins DEF PipelineShape
  <2>2. CASE result' = result
    BY <2>1, <2>2 DEF ResultOK
  <2>3. ASSUME NEW b \in Attempt, PersistResults(b)
        PROVE  result' # NoResult /\ outcome'[a] \in Payloadless
    BY <2>1, <2>3, NoOwnerAssumption DEF PersistResults, MayPersist, ResultOK, NoResult
  <2> QED
    BY <2>2, <2>3, ResultBegins
<1> QED
  BY <1>1, <1>2

(* An event is settled only by a handler's final transaction.              *)
LEMMA SettledBegins ==
  ASSUME PipelineTypeOK, [PipelineNext]_pipelineVars, NEW e \in Event,
         row[e].state \notin TerminalState, row'[e].state \in TerminalState
  PROVE  \E a \in Attempt : Finalize(a) /\ target[a] = e
<1> USE DEF PipelineTypeOK, ClaimTypeOK, Row, State, TerminalState
<1>1. ASSUME NEW a \in Attempt, ClaimRow(a)
      PROVE  FALSE
  BY <1>1 DEF ClaimRow
<1>2. ASSUME NEW a \in Attempt, Renew(a)
      PROVE  FALSE
  BY <1>2 DEF Renew
<1>3. ASSUME NEW a \in Attempt, Fail(a)
      PROVE  FALSE
  BY <1>3 DEF Fail, Transition
<1>4. ASSUME NEW f \in Event, LeaseExpires(f)
      PROVE  FALSE
  BY <1>4 DEF LeaseExpires
<1>5. ASSUME NEW a \in Attempt, Finalize(a)
      PROVE  target[a] = e
  BY <1>5 DEF Finalize, Complete, Transition
<1> QED
  BY <1>1, <1>2, <1>3, <1>4, <1>5
  DEF pipelineVars, claimVars, PipelineNext, Handle, Receive, Deliver, ClaimEvent,
    ClaimThrows, ClaimRefused, AnswerRefused, ReadRefused, RenewForFinish,
    RecordClaimFailure, LeaseLapses, InitJob, InitFails, SetJobCurrentStep, LoadInput,
    ExtractDocument, ProcessCertificates, PersistResults, FinalizeWorkflow, NodeThrows,
    FinishFails, RecordingFails, DeleteMessage, NoticeLoss, Crash, AskRemoval,
    RemoveUpload, DeadLetter, VisibilityLapses

LEMMA SettledStep ==
  PipelineShape /\ ResultOK /\ SettledByItsResult /\ [PipelineNext]_pipelineVars
    => SettledByItsResult'
<1> SUFFICES ASSUME PipelineShape, ResultOK, SettledByItsResult, [PipelineNext]_pipelineVars,
                    NEW e \in Event, row'[e].state \in TerminalState
             PROVE  /\ row'[e].state \in {"success", "duplicate"} =>
                         /\ result'.by = row'[e].owner
                         /\ TerminalOf(result'.outcome) = row'[e].state
                    /\ row'[e].state = "error" => result' # NoResult
  BY DEF SettledByItsResult, TerminalState
<1>1. Frozen
  BY PipelineSimulation, RowStep DEF PipelineShape, PipelineTypeOK
<1>2. CASE row[e].state \in TerminalState
  <2>1. row'[e] = row[e]
    BY <1>1, <1>2 DEF Frozen
  <2>2. CASE result' = result
    BY <2>1, <2>2 DEF SettledByItsResult
  <2>3. ASSUME NEW b \in Attempt, PersistResults(b)
        PROVE  row[e].state = "error" /\ result' # NoResult
    <3>1. result = NoResult \/ TerminalOf(result.outcome) = "error"
      BY <2>3 DEF PersistResults, MayPersist, TerminalOf, Payloadless
    <3>2. row[e].state \notin {"success", "duplicate"}
      BY <3>1 DEF SettledByItsResult, NoResult, TerminalOf
    <3>3. result' # NoResult
      BY <2>3, NoOwnerAssumption DEF PersistResults, NoResult
    <3> QED
      BY <1>2, <3>2, <3>3 DEF TerminalState
  <2> QED
    BY <2>1, <2>2, <2>3, ResultBegins
<1>3. CASE row[e].state \notin TerminalState
  <2>1. PICK a \in Attempt : Finalize(a) /\ target[a] = e
    BY <1>3, SettledBegins DEF PipelineShape
  <2>2. /\ row[e].owner = a
        /\ row'[e].owner = row[e].owner
        /\ row'[e].state = TerminalOf(outcome[a])
        /\ result' = result
    BY <2>1
    DEF Finalize, Complete, Transition, ActiveClaim, PipelineShape, PipelineTypeOK, ClaimTypeOK, Row
  <2>3. /\ result # NoResult
        /\ outcome[a] \notin Payloadless => result = [by |-> a, outcome |-> outcome[a]]
    BY <2>1 DEF Finalize, ResultOK, Persisted
  <2>4. outcome[a] \in Payloadless => TerminalOf(outcome[a]) = "error"
    BY DEF TerminalOf, Payloadless
  <2> QED
    BY <2>2, <2>3, <2>4
<1> QED
  BY <1>2, <1>3

(* What an event was settled with is what its document's result says, and  *)
(* the result is the settling worker's own: no stale, taken-over or        *)
(* retried worker can have replaced an accepted or duplicate document.     *)
THEOREM SettledEventsHaveTheirResult == PipelineSpec => []SettledByItsResult
<1>1. PipelineInit => ResultOK /\ SettledByItsResult
  BY DEF PipelineInit, PipelineIdle, ResultOK, Persisted, SettledByItsResult, ClaimInit, NoRow
<1> QED
  BY <1>1, PipelineShapeInvariant, ResultStep, SettledStep, PTL DEF PipelineSpec
=============================================================================
