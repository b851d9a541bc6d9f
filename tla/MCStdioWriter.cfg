\* System calls do all, part or none of the work; a write spans up to two
\* blocks and a half.
CONSTANTS
  MIN_WRITE_SIZE = 3
  MaxStream = 8
  MaxWriteLen = 7
  ShortWrites = TRUE
  WriteMayFail = TRUE
SPECIFICATION StdioSpec
INVARIANTS NothingLost DirectWritesAligned
