CONSTANTS
  MaxCount = 3
  LongMax = 7
  Top8 = 1
  Top9 = 2
  Top10 = 3
  Units <- MCUnits
  Capture = TRUE
  Programs <- MCPrograms
SPECIFICATION Spec
INVARIANTS FlaggedIsQueued DutyCycle OverflowInTime
PROPERTIES CaptureIsFiltered
