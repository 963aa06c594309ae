CONSTANTS
  Bytes <- MCBytes
  Modes <- MCModes
  MaxWrites = 2
  MaxEvents = 2
SPECIFICATION Spec
INVARIANTS InStep DoneInTime
PROPERTIES Exchange
