CONSTANTS
  Names <- MCNames
  Main = "main"
  Builtins = {"operators"}
  Programs <- MCPrograms
  Compiled <- sourceToModule
  Parsed <- parseModule
  Rank <- MCRank
  MaxDepth = 4
  Words <- MCWords
  Digits = {"1"}
  Literals <- MCLiterals
SPECIFICATION FairSpec
INVARIANTS TypeOK Inv CachedHaveRun RunsOnce Sound Complete
PROPERTIES ImplementsRegistry Termination
CHECK_DEADLOCK FALSE
