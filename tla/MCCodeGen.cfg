SPECIFICATION Spec
CONSTANTS
  Trees <- Several
  Subtrees <- TokensWithin
  Strings <- AnyString
  SEGMENT_SIZE = 16
  ByteSize = 16
  Garbage = Garbage
  Names <- MCNames
  Literals <- MCLiterals
INVARIANTS
  TypeOK
  ReadsBack
  PlacedOnce
  RunsOnInterpreter
  ErrorsLocated
