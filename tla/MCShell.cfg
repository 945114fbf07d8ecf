SPECIFICATION Spec
CONSTANTS
  MAX_ROW = 2
  MAX_COL = 3
  HistoryRows = 3
  ScrollLines = 1
  Glyphs = {"e", " "}
  EchoName <- MCEcho
  ClearName <- MCClear
  Prompt <- MCPrompt
  Message <- MCMessage
  Files <- MCFiles
  MAX_HISTORY = 2
  MAX_LINE_LENGTH = 4
  MAX_ARGS = 3
  MaxEntered = 3
  MaxRow = 2
  MaxWordsLine = 6
  Nibbles = 2
CHECK_DEADLOCK FALSE
INVARIANTS
  ScreenShowsText
  ShowsLine
  HistoryIsLog
  SplitsWords
  NumbersRoundTrip
