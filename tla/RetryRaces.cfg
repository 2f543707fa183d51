CONSTANTS
  e0 = e0
  r1 = r1
  s1 = s1
  r2 = r2
  m0 = m0
  m1 = m1
  n1 = n1
  m2 = m2
  Event = {e0, r1, s1, r2}
  Attempt = {a1, a2, a3}
  NoOwner = NoOwner
  NoEvent = NoEvent
  Message = {m0, m1, n1, m2}
  EventOf <- MessageEvent
  FirstMessage = m0
  NoMessage = NoMessage
  RetryNumber <- Numbers
  MaxReceive = 2
  Findings = {"unread", "accepted"}
  Faults = {"hidden"}
  Completion = {c1}
  Retry = {q1, q2, q3}
  MaxRetries = 2
  WebFaults = {"refused"}
SYMMETRY Symmetry
SPECIFICATION UploadSpec
INVARIANTS UploadTypeOK RetriesDoNotOverlap QueuedMeansWaiting FileShowsOutcome RetryLimit
CHECK_DEADLOCK FALSE
