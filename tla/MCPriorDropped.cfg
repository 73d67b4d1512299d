\* Is the provenance that an invalidated product flags its own?
CONSTANTS
  hist = hist
  geometry = geometry
  made1 = made1
  made2 = made2
  made3 = made3
  Events <- MCEvents
  SubRunOf <- MCSubRunOf
  Stored <- MCStored
  ProducedBy <- MCProducedBy
  Setups <- PriorSetups
  MaxFiles = 2
SPECIFICATION Spec
INVARIANT FlagsItsOwnProduct
CHECK_DEADLOCK FALSE
