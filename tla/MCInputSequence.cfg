\* Jobs over two to four input files: what is read, skipped and dropped, and
\* what the files attached to them answer.
SPECIFICATION SecondaryFairSpec
CONSTANTS
  Catalogs <- MCCatalogs
  Options <- MCOptions
  Store <- MCStore
  Products <- MCProducts
  MaxRequests = 3
INVARIANTS
  SecondaryTypeOK
  SkipAccounting
  InOrder
  FastClonableFileReadWhole
  WalkedInPreOrder
  AnswersFromTheFirstFile
PROPERTIES
  EventsInTheirSubRun
  StreamSpec
  JobWithSecondariesEnds
CHECK_DEADLOCK FALSE
