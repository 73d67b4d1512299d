\* Two modules fill histograms while files are switched at every boundary.
SPECIFICATION Spec
CONSTANTS
  Modules <- MCModules
  Jobs <- MCJobs
INVARIANTS
  TypeOK
  ObjectsInTheirDirectory
  HeldObjectsAreLive
  RecordedEventsAreFilled
  SwitchesWhenDue
CHECK_DEADLOCK FALSE
