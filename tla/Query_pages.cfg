CONSTANTS
  N = 4
  Databases <- MCDatabases
  Queries <- MCQueries
  MaxRows = 2
  MaxBreadcrumb = 2
  MaxReplaced = 1
  None = None
SPECIFICATION Spec
INVARIANTS PagesAreTheListing RevealListsDirectories PagesAreTheChain TokensGoOn
CHECK_DEADLOCK FALSE
