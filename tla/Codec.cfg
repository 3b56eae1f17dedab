SPECIFICATION AskSpec
CONSTANTS
  A = A
  Backslash = Backslash
  Comma = Comma
  Semicolon = Semicolon
  CR = CR
  LF = LF
  Quote = Quote
  Bar = Bar
  Colon = Colon
  R = R
  N = N
  None = None
  EncPrefix = EncPrefix
  Chars <- AllChars
  Cells <- SomeCells
  Widths <- OneOrTwo
  EncCols <- FirstEnc
  MaxRows = 2
  Langs <- Both
  Calls <- SomeCalls
  Atoms <- SomeAtoms
  Lists <- SomeLists
\* The table is full.
CHECK_DEADLOCK FALSE
INVARIANTS TypeOK OneLine RowsReadBack RowlistReadBack GroupsReadBack OnlyTokensStored ExecArgsArrive LinesTellCallsApart ListsReadBack
