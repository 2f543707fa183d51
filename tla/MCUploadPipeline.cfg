CONSTANTS
  e0 = e0
  r1 = r1
  s1 = s1
  r2 = r2
  m0 = m0
  m1 = m1
  n1 = n1
  m2 = m2
  Event = {e0, r1}
  Attempt = {a1, a2, a3}
  NoOwner = NoOwner
  NoEvent = NoEvent
  Message = {m0, m1}
  EventOf <- MessageEvent
  FirstMessage = m0
  NoMessage = NoMessage
  RetryNumber <- Numbers
  MaxReceive = 2
  Findings = {"unread", "accepted"}
  Faults = {"throw"}
  Completion = {c1}
  Retry = {q1}
  MaxRetries = 1
  WebFaults = {"refused", "unsure", "unrecorded", "webcrash"}
SYMMETRY Symmetry
SPECIFICATION UploadSpec
INVARIANTS AcknowledgedMeansSettled SettledByItsResult
PROPERTIES RetryOutranks
CHECK_DEADLOCK FALSE
