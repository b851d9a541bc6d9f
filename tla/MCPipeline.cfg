\* A full and a small build, local files and URLs; opening, setting up and
\* peeking may go wrong, and transfers are restarted.
CONSTANTS
  h1 = h1
  h2 = h2
  Handles = {h1, h2}
  Files = {"plain", "gzip", "skippable"}
  Builds = {{"zlib", "bzip", "lzma", "zstd", "lz4", "lzo"}, {"lz4", "lzo"}}
  Envs <- MCEnvs
  DefaultBuffers = 5
  ShortPeeks = TRUE
  OpenMayFail = TRUE
  CodecMayFail = TRUE
  Remote = TRUE
  MaxUnmatched = 2
SYMMETRY HandleSymmetry
SPECIFICATION Spec
INVARIANTS RingMatchesMaxBuffers OptionsHonoured FormatRecognised CurlUpWhileUsed
