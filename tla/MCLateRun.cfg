\* Does a run find its entry in a secondary file whenever it asks?
SPECIFICATION SecondarySpec
CONSTANTS
  Catalogs <- MCCatalogs
  Options <- MCOptions
  Store <- MCStore
  Products <- MCProducts
  MaxRequests = 3
INVARIANT
  CursorIsOnTheRun
CHECK_DEADLOCK FALSE
