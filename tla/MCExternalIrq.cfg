CONSTANTS
  Singles <- MCSingles
  Ports <- MCPorts
  PortPins = {p1}
CHECK_DEADLOCK FALSE
SPECIFICATION Spec
INVARIANTS TypeOK FlaggedIsQueued
PROPERTIES LevelStaysQueued EventNotForgotten
