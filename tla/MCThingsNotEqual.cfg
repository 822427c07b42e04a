SPECIFICATION InheritanceSpec
CONSTANTS
  Programs <- TwoTuples
  FunctionAnswers <- MCAnswers
  ByteSize = 256
  Data <- MCData
  Plain <- MCPlain
  MaxInstances = 2
INVARIANTS
  DifferentIsNotEqual
