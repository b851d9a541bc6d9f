\* An outbuff of two bytes fills several times; the child and the encoder may
\* fail.
CONSTANTS
  Codecs = {"zlib", "bzip", "lzma", "zstd", "lz4"}
  BUFFER_SIZE = 2
  LZ4_OUTBUF = 6
  LZ4_BLOCK = 2
  MaxStream = 6
  MaxWriteLen = 4
  ChildMayFail = TRUE
  EncoderMayFail = TRUE
SPECIFICATION FairWriterSpec
INVARIANTS Accounted CloseComplete
PROPERTIES ResultCountsBytes FlushReachesChild CallsReturn
