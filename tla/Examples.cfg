SPECIFICATION Spec
CONSTANTS
  WordBits = 8
  Graphs <- CheckedGraphs
  TextRows = 5
  TextCols = 3
  NumColors = 16
  ScrollPasses = 8
  NoByte = NoByte
  GreetingLength = 6
  TextCells = 2
  TypedBytes = {65, 255}
  MaxTyped = 3
INVARIANTS
  TypeOK
  DivisionExact
  ClassesAreComponents
  SearchIsShort
  PalettesExchanged
  ScrollExact
  OutputsAreMerged
\* A program ends in a loop that does nothing, or in a failed assertion.
CHECK_DEADLOCK FALSE
