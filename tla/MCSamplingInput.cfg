\* Two datasets are sampled until one is exhausted or the limit is reached.
SPECIFICATION FairSpec
CONSTANTS
  Datasets <- MCDatasets
  Keys <- MCKeys
  BranchType <- MCBranchType
  Children <- MCChildren
  Jobs <- MCJobs
  Schedules = 2
INVARIANTS
  TypeOK
  EventsHoldTheirOwnProducts
  SummaryTellsWhereToGoOn
  SampledOnce
PROPERTIES
  StreamSpec
  JobEnds
CHECK_DEADLOCK FALSE
