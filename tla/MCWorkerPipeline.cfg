CONSTANTS
  Event = {e1}
  Attempt = {a1, a2}
  NoOwner = NoOwner
  NoEvent = NoEvent
  Message = {m1}
  EventOf <- OnlyEvent
  FirstMessage = m1
  NoMessage = NoMessage
  RetryNumber <- NoRetries
  MaxReceive = 2
  Findings = {"unread", "accepted", "duplicate", "rejected"}
  Faults = {"stall", "deaf", "crash", "throw", "hidden", "undeleted", "removal", "orphan"}
SPECIFICATION PipelineSpec
SYMMETRY Symmetry
INVARIANTS PipelineTypeOK AcknowledgedMeansSettled SettledByItsResult
PROPERTIES ResultFinal
CHECK_DEADLOCK FALSE
