\* No pool, and pools of one to three compressors; eleven bytes are five blocks
\* and a half, so that every pool comes round.
CONSTANTS
  PoolSizes = {0, 1, 2, 3}
  MAX_BLOCK_SIZE = 2
  MaxStream = 11
  MaxWriteLen = 3
  SpuriousWakeups = TRUE
  CompressMayFail = TRUE
SPECIFICATION FairSpec
INVARIANTS BlocksInOrder EveryBlockWritten NoLostWakeup
PROPERTIES CallsReturn
