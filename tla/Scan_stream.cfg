CONSTANTS
  a = a  b = b  c = c
  Node = {a, b, c}
  Root = root
  None = None
  Trees <- MCTrees
  EmitFiles = FALSE
  MaxDirectories = 3
  MaxEntries = 4
  MaxIdentities = 1
  Faults = {"vanish", "cut", "cancel"}
  MaxEvent = 2
  MaxTotal = 10
  MaxWarnings = 1
  BareError = 1
SPECIFICATION FairStreamSpec
INVARIANTS WithinBudget EndsWithOneTerminal ShowsTheWholeWalk CompletedIsShown
PROPERTY Ends
CHECK_DEADLOCK FALSE
