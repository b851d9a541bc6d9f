\* The encoder holds more than outbuff has room for; nothing fails.
CONSTANTS
  Codecs = {"bzip"}
  BUFFER_SIZE = 2
  LZ4_OUTBUF = 6
  LZ4_BLOCK = 2
  MaxStream = 6
  MaxWriteLen = 4
  ChildMayFail = FALSE
  EncoderMayFail = FALSE
SPECIFICATION WriterSpec
INVARIANTS EveryCloseComplete
