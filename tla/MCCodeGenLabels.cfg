SPECIFICATION Spec
CONSTANTS
  Trees <- FiveLabels
  Subtrees <- TokensWithin
  Strings <- AnyString
  SEGMENT_SIZE = 100
  ByteSize = 4
  Garbage = Garbage
  Names <- MCNames
  Literals <- MCLiterals
INVARIANTS
  JumpsArrive
