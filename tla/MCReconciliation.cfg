CONSTANTS
  p1 = p1
  w1 = w1
  w2 = w2
  c0 = c0
  c1 = c1
  c2 = c2
  q1 = q1
  x0 = x0
  x1 = x1
  Certificate = {c0, c1, c2}
  Content = {x0, x1}
  Extracted <- MCExtracted
  Early = {c0}
  Correction <- MCCorrection
  Request = {q1}
  Worker = {a1, a2}
  Server = {a3}
  Deletion <- MCDeletion
  Report = {p1}
  Row = {w1, w2}
  ReportOf <- MCReportOf
  Due <- MCDue
  Amount <- MCAmount
  Run = {r1, r2}
  NoCertificate = NoCertificate
  NoContent = NoContent
  NoRequest = NoRequest
  NoReport = NoReport
  NoResult = NoResult
SYMMETRY Symmetry
CONSTRAINT Bound
SPECIFICATION ReconSpec
INVARIANTS ReconcileTypeOK OneActiveRun  ArchivedRowsFree SummaryCounts AcceptedOnce
CHECK_DEADLOCK FALSE
