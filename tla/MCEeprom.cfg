CONSTANTS
  Addrs <- MCAddrs
  Bits <- MCBits
  EraseWriteTime = 6
  SingleTime = 3
  Extended = TRUE
SPECIFICATION FairSpec
INVARIANTS ActiveIsClocked BusyIsVisible
PROPERTIES OnlyAskedCellChanges WriteIsEnabled ReadyIrqComes
