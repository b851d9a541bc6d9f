\* All four readers; members of up to five units are read in portions of up to
\* three, so that an end and the next head come in the same portion, and a head
\* may straddle the end of zstd_lz4's inbuf of five.
CONSTANTS
  BUFFER_SIZE = 3
  INBUF_SIZE = 5
  REFILL_BELOW = 2
  MOVABLE = TRUE
  MAGIC = 2
  Expand = 2
  MaxData = 2
  MaxReadLen = 3
  ParentMayFail = TRUE
SPECIFICATION FairSpec
INVARIANTS NothingSkipped ZeroMeansEnd NoSpuriousError
PROPERTIES ReadReturns
