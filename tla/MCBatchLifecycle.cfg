CONSTANTS
  Batch = {b1}
  File = {f1}
  Request = {r1, r2}
  Lambda = {l1, l2}
  NoTarget = NoTarget
  StaleRestore = FALSE
SPECIFICATION FairLifecycleSpec
INVARIANTS LifecycleTypeOK ProtectedKept PurgeExclusive OnlyDeletedPurged NoMixedPurge LiveFilesIntact ObjectsBeforeRows
PROPERTIES RequestedPurgeEnds
CHECK_DEADLOCK FALSE
