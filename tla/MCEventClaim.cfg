CONSTANTS
  Event = {e1, e2}
  Attempt = {a1, a2, a3, a4}
  NoOwner = NoOwner
  NoEvent = NoEvent
SYMMETRY Symmetry
SPECIFICATION ClaimSpec
INVARIANTS ClaimTypeOK Fenced ReplayMeansSettled
PROPERTIES TerminalFrozen LiveClaimKept ImplementsExclusiveWork
CHECK_DEADLOCK FALSE
