\* Is an event found in a file that was opened before?
SPECIFICATION AccessSafeSpec
CONSTANTS
  Catalogs <- MCCatalogs
  Options <- MCOptions
  Offsets <- MCOffsets
  Targets <- MCTargets
  MaxSeeks = 2
PROPERTY
  EventsOfOpenedFilesAreFound
CHECK_DEADLOCK FALSE
