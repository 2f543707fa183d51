CONSTANTS
  c1 = c1
  c2 = c2
  Job = {j1, j2}
  Viewer = {v1}
  Certificate = {c1, c2}
  ByPayor <- MCByPayor
  Size <- MCSize
  Source <- MCSource
  PartLimit = 2
  MaxParts = 2
  MinInputs = 1
  FirstJob = j1
  Late = {c2}
  Movable = {c2}
  NoJob = NoJob
SPECIFICATION FairMergeSpec
INVARIANTS MergeTypeOK SucceededIsComplete PartsFit MergedInOnePeriod
PROPERTIES KnownJobEnds
CHECK_DEADLOCK FALSE
