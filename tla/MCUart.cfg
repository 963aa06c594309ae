CONSTANTS
  Programs <- MCPrograms
SPECIFICATION Spec
INVARIANTS FlaggedIsQueued ArrivesInTime
PROPERTIES ReceivesWhatWasSent
