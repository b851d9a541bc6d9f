\* Data that ends at a block boundary.
CONSTANTS
  PoolSizes = {2}
  MAX_BLOCK_SIZE = 2
  MaxStream = 6
  MaxWriteLen = 3
  SpuriousWakeups = FALSE
  CompressMayFail = FALSE
SPECIFICATION Spec
INVARIANT InOrderAfterClose
