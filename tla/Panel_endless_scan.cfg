SPECIFICATION Spec
CONSTANTS
  Root = {1, 2}
  None = None
  Archive = {1}
  MaxOutstanding = 4
  MaxRequests = 4
  Faults = {}
  Hurry = {}
INVARIANTS
  ScanningIsTrue
CHECK_DEADLOCK FALSE
