\* Jobs over two or three input files: what is in the files written.
SPECIFICATION FairSpec
CONSTANTS
  hits = hits
  tracks = tracks
  vertices = vertices
  clusters = clusters
  seeds = seeds
  strips = strips
  Products = {hits, tracks, vertices}
  Produced = {clusters}
  Unsaved = {seeds, strips}
  Parents <- MCParents
  Jobs <- MCJobs
INVARIANTS
  TypeOK
  IndexIsRight
  EachEventWrittenOnce
  ClosedFilesAreComplete
  FailsOnlyWhenMixed
PROPERTY
  JobEnds
CHECK_DEADLOCK FALSE
