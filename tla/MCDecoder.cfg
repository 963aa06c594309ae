SPECIFICATION Spec
INVARIANTS WideArithmetic BranchesRight ControlRight PointersRight ProgramsPage
CONSTANTS
  Data <- MCData
  FlashWords = 64
  stackCeil = 512
  Operands <- MCOperands
  Cpus <- MCCpus
  Buffer = 255
  StackTop = 511
  MaxIrqs = 1
  pageSize = 2
  nrww_addr = 12
  isATMega = TRUE
