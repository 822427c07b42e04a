SPECIFICATION FairInheritanceSpec
CONSTANTS
  Programs <- All
  FunctionAnswers <- MCAnswers
  ByteSize = 256
  Data <- MCData
  Plain <- MCPlain
  MaxInstances = 2
INVARIANTS
  TypeOK
  ObjectsKnowTheirSymbols
  ClaimsAreKept
  PatternsGetWhatTheyAskFor
  EqualityIsStructural
  MethodsKnowTheirInstance
  InstancesAreOfTheirClass
  FirstComesFirst
PROPERTIES
  CallsAreAnswered
CHECK_DEADLOCK FALSE
