CONSTANTS
  Event = {e1}
  Attempt = {a1, a2}
  NoOwner = NoOwner
  NoEvent = NoEvent
  Message = {m1}
  EventOf <- OnlyEvent
  FirstMessage = m1
  NoMessage = NoMessage
  RetryNumber <- NoRetries
  MaxReceive = 2
  Findings = {"unread", "accepted"}
  Faults = {"stall", "deaf", "hidden", "undeleted", "orphan"}
SPECIFICATION FairPipelineSpec
PROPERTIES EventuallyDisposed JobsClosed
CHECK_DEADLOCK FALSE
