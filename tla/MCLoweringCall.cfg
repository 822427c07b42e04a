SPECIFICATION Spec
CONSTANTS
  ByteSize = 256
  Bodies <- CallFirst
  ValuesOf <- MCValuesOf
  StackBound = 3
INVARIANTS
  FailsOnlyOnMismatch
