SPECIFICATION Spec
CONSTANTS
  ProgramIds <- StraightIds
  Program <- StraightProgram
  Names <- MCNames
  Literals <- MCLiterals
  Inputs <- MCInputs
PROPERTIES
  CallEffect
