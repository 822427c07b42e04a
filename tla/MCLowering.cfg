SPECIFICATION FairSpec
CONSTANTS
  ByteSize = 256
  Bodies <- MCBodies
  ValuesOf <- MCValuesOf
  StackBound = 3
INVARIANTS
  Agree
  LabelsUnique
PROPERTIES
  Progress
