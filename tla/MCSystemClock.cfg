SPECIFICATION FairSpec
CONSTANTS
  Members = {m1, m2, m3, m4}
  Delays <- MCDelays
  MaxTime = 2
INVARIANTS HeapOrdered
PROPERTIES BreakEndsLoop LimitEndsLoop ImplementsTimeTable
CHECK_DEADLOCK FALSE
