SPECIFICATION FairSpec
CONSTANTS
  ProgramIds <- AllIds
  Program <- AllProgram
  Names <- MCNames
  Literals <- MCLiterals
  Inputs <- MCInputs
INVARIANTS
  TypeOK
  OperandsPresent
  ResultPresent
  FramesMatchHost
  CatchRestores
  EndsClean
  Inv
PROPERTIES
  CallerOperandsKept
  CapturedFrozen
  ImplementsCalls
  Termination
  ErrorsAreCaught
