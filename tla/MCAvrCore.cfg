CONSTANTS
  Vectors <- MCVectors
  Sticky <- MCSticky
  StackCeil = 24
  InitSP = 23
  MaxNesting = 2
  MaxPush = 2
  WellBehaved = TRUE
CHECK_DEADLOCK FALSE
SPECIFICATION FairSpec
INVARIANTS TypeOK AcknowledgedIsDeferred ActiveHandlerArmed ProgressAfterReti
PROPERTY TakenIsEntered
