\* Three slices of two bytes; seven bytes wrap round the ring, a read of five
\* spans three slices.
CONSTANTS
  max_buffers = 3
  BUFFER_SIZE = 2
  MaxStream = 7
  MaxReadLen = 5
  SpuriousWakeups = TRUE
  ThreadCreateMayFail = TRUE
SPECIFICATION FairSpec
INVARIANTS NoSlotRace InOrderDelivery ShortReadOnlyAtEnd NoLostWakeup
INVARIANTS NoUseAfterFree IInv
PROPERTIES CallsReturn ImplementsIOReader
