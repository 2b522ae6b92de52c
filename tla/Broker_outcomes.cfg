SPECIFICATION Spec
CONSTANTS
  r1 = r1  r2 = r2
  g1 = g1  g2 = g2  g3 = g3  g4 = g4  g5 = g5  g6 = g6
  q1 = q1  q2 = q2  q3 = q3
  None = None
  Root = {r1}
  Gen = {g1, g2}
  Query = {q1, q2, q3}
  Searches = {q2, q3}
  MaxOutstanding = 2
  Archive <- NothingArchived
  Ops = {"scanStart", "scanCancel", "query", "shutdown"}
  Faults = {"scan", "timeout", "pipe", "slow"}
SYMMETRY FreshAndSearches
INVARIANTS
  TypeOK
  ReferencesCounted
  AnsweredOnce
  SupersededAnswered
PROPERTIES
  CancelledNeverActivates
CHECK_DEADLOCK FALSE
