SPECIFICATION FairSpec
CONSTANTS
  r1 = r1  r2 = r2
  g1 = g1  g2 = g2  g3 = g3  g4 = g4  g5 = g5  g6 = g6
  q1 = q1  q2 = q2  q3 = q3
  None = None
  Root = {r1}
  Gen = {g1, g2}
  Query = {q1, q2}
  Searches = {q2}
  MaxOutstanding = 2
  Archive <- NothingArchived
  Ops = {"scanStart", "scanCancel", "query", "shutdown"}
  Faults = {"scan", "timeout"}
PROPERTIES
  QueriesAnswered
  ScansSettle
  ShutdownCompletes
CHECK_DEADLOCK FALSE
