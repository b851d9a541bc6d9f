\* Three slices of two bytes; nine bytes wrap round the ring, a write of five
\* spans three slices.
CONSTANTS
  BUFFERS = 3
  BUFFER_SIZE = 2
  MaxStream = 9
  MaxWriteLen = 5
  SpuriousWakeups = TRUE
SPECIFICATION FairSpec
INVARIANTS MemorySafe InOrderHandOver NoLostWakeup
PROPERTIES CallsReturn FlushReachesChild ImplementsIOWriter
