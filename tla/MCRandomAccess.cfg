\* Jobs that ask for two events out of turn.
SPECIFICATION AccessSpec
CONSTANTS
  Catalogs <- MCCatalogs
  Options <- MCOptions
  Offsets <- MCOffsets
  Targets <- MCTargets
  MaxSeeks = 2
INVARIANTS
  AccessTypeOK
  IndexesServeSeeks
  SkipCountsEvents
PROPERTIES
  SoughtEventIsRead
  EventsInSubRunOfSameID
  AccessEnds
CHECK_DEADLOCK FALSE
