\* A flush right after a write that filled a slice.
CONSTANTS
  BUFFERS = 2
  BUFFER_SIZE = 2
  MaxStream = 6
  MaxWriteLen = 3
  SpuriousWakeups = FALSE
SPECIFICATION FairSpec
PROPERTY EveryFlushReachesChild
