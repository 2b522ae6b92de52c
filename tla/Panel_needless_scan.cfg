SPECIFICATION Spec
CONSTANTS
  Root = {1, 2}
  None = None
  Archive = {1}
  MaxOutstanding = 4
  MaxRequests = 4
  Faults = {}
  Hurry = {"select"}
PROPERTIES
  ScansOnlyWhatIsMissing
CHECK_DEADLOCK FALSE
