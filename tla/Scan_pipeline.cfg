CONSTANTS
  a = a  b = b  c = c  d = d
  Node = {a, b, c, d}
  Root = root
  None = None
  Trees <- MCTrees
  EmitFiles = TRUE
  MaxDirectories = 3
  MaxEntries = 6
  MaxIdentities = 1
  Faults = {"vanish", "cut", "again", "cancel", "sink"}
SPECIFICATION PipelineSpec
INVARIANTS TypeOK SizesAddUp HardlinksCountOnce IncompleteIsMarked CompleteWalksAccepted OpensWhenComplete
CHECK_DEADLOCK FALSE
