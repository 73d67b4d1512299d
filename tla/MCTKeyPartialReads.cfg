\* Does a read across the end of a file give the bytes that are there?
CONSTANTS
  zero = zero
  one = one
  junk = junk
  none = none
  Byte <- bytes
  Data <- data
  Zero = zero
  Junk = junk
  NoKey = none
  mem_page = 2
  Offsets <- offsets
  Amounts <- three
  Sizes <- sizes
  Chunks <- chunks
  PartialReads = TRUE
SPECIFICATION Spec
INVARIANT ReadGivesTheFile
