SPECIFICATION Spec
CONSTANTS
  r1 = r1  r2 = r2
  g1 = g1  g2 = g2  g3 = g3  g4 = g4  g5 = g5  g6 = g6
  q1 = q1  q2 = q2  q3 = q3
  None = None
  Root = {r1, r2}
  Gen = {g1, g2, g3, g4}
  Query = {q1}
  Searches = {}
  MaxOutstanding = 2
  Archive <- OneArchived
  Ops = {"scanStart", "snapshotOpen", "activationCommit", "activationAbort", "query"}
  Faults = {"store", "crash", "restart"}
SYMMETRY FreshAfterOne
INVARIANTS
  PointersValid
PROPERTIES
  LibraryImplemented
