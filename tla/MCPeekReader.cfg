\* Reads and peeks below, at and above the refill sizes; seeks; a line that
\* ends at byte 2 and one the file cuts off; a child and allocations that may
\* fail.
CONSTANTS
  MIN_READ_SIZE = 2
  PEEK_SIZE = 3
  FileSize = 4
  MaxLen = 3
  Newlines = {2}
  ChildMayFail = TRUE
  MemoryMayFail = TRUE
  Seekable = TRUE
SPECIFICATION LineSpec
INVARIANTS DeliversAtReadOffset NothingLost FgetsDeliversLine
