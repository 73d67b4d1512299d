\* Is a tree that cannot be cloned slow cloned?
SPECIFICATION Spec
CONSTANTS
  hits = hits
  tracks = tracks
  vertices = vertices
  clusters = clusters
  seeds = seeds
  strips = strips
  Products = {hits, tracks, vertices}
  Produced = {clusters}
  Unsaved = {seeds, strips}
  Parents <- MCParents
  Jobs <- MCUnclonedJobs
INVARIANT
  UnclonableTreeIsSlowCloned
CHECK_DEADLOCK FALSE
