SPECIFICATION MCSpec
CONSTANTS
  Environment = {"root", "copy"}
  Root = "root"
  Text = {"alpha", "beta"}
  Highest = 2
INVARIANT
  SymbolsTranslate
CHECK_DEADLOCK FALSE
