SPECIFICATION Spec
CONSTANTS
  r1 = r1  r2 = r2
  g1 = g1  g2 = g2  g3 = g3  g4 = g4  g5 = g5  g6 = g6
  q1 = q1  q2 = q2  q3 = q3
  None = None
  Root = {r1, r2}
  Gen = {g1, g2, g3, g4, g5, g6}
  Query = {q1}
  Searches = {}
  MaxOutstanding = 2
  Archive <- BothArchived
  Ops = {"scanStart", "snapshotOpen", "activationCommit", "query"}
  Faults = {}
SYMMETRY FreshAfterBoth
INVARIANTS
  RetainedFilesPresent
  RetiredFilesReclaimed
PROPERTIES
  FailsOnlyWhenMoved
CHECK_DEADLOCK FALSE
