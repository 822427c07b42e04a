SPECIFICATION Spec
CONSTANTS
  Trees <- FiveNames
  Subtrees <- TokensWithin
  Strings <- AnyString
  SEGMENT_SIZE = 4
  ByteSize = 16
  Garbage = Garbage
  Names <- MCNames
  Literals <- MCLiterals
INVARIANTS
  ConstantsIndexed
