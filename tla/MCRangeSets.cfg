\* Run products through three processes: is each part counted once?
CONSTANTS
  hist = hist
  geometry = geometry
  made1 = made1
  made2 = made2
  made3 = made3
  Events <- MCEvents
  SubRunOf <- MCSubRunOf
  Stored <- MCStored
  ProducedBy <- MCProducedBy
  Setups <- MCSetups
  MaxFiles = 2
SPECIFICATION Spec
INVARIANTS TypeOK CountsWhatItCovers StoredWithItsFirstEvent NeverRefused AvailableIfValid
PROPERTY ConservedByAProcess
CHECK_DEADLOCK FALSE
