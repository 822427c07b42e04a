CONSTANTS
  Names <- MCNames
  Main = "main"
  Builtins = {"operators"}
  Programs <- MCPrograms
  Compiled <- sourceToModule
  Parsed <- parseModule
  Rank <- MCRank
  MaxDepth = 4
  Words <- MCWords
  Digits = {"1"}
  Literals <- MCLiterals
SPECIFICATION Spec
INVARIANTS NoNullInside
CHECK_DEADLOCK FALSE
