SPECIFICATION Spec
CONSTANTS
  Sources <- MCSources
  MaxInt = 99
  nesting = 6
  lexing = 4
  atoms = 3
INVARIANTS
  TypeOK
  ReadsWhatIsWritten
  PrintsWhatItReads
  RejectsOnlyNonsense
  NothingLostInLexing
PROPERTY
  ReadingEnds
CHECK_DEADLOCK FALSE
