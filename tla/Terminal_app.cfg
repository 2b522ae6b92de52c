CONSTANTS
  N = 3
  None = None
  Trees <- MCTrees
  MaxScans = 2
  MaxEvents = 1
  MaxHeight = 2
SPECIFICATION FairSpec
INVARIANTS OneScanAtATime BrowsesTheNewest CursorOnScreen
PROPERTIES CancelledNeverReplaces SelectionStays QuitEnds ScansEnd
CHECK_DEADLOCK FALSE
