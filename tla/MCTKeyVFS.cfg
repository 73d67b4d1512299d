\* Are the files of tkeyvfs the files that SQLite relies on?
CONSTANTS
  zero = zero
  one = one
  junk = junk
  none = none
  Byte <- bytes
  Data <- data
  Zero = zero
  Junk = junk
  NoKey = none
  mem_page = 2
  Offsets <- offsets
  Amounts <- amounts
  Sizes <- sizes
  Chunks <- chunks
  PartialReads = FALSE
SPECIFICATION Spec
INVARIANT TypeOK
PROPERTY StoredSpec
