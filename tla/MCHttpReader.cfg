\* HTTP and Swift handles.  Up to two failures of a transfer, a wait or libcurl,
\* with seeks within the buffer, over HTTP_MAX_SKIP and back; catalogs of up to
\* two services.
CONSTANTS
  MAX_WRITE = 2
  FileSize = 5
  MaxLen = 2
  HTTP_MAX_SKIP = 2
  Seekable = TRUE
  MaxFailures = 2
  SelectMayFail = TRUE
  NULL = NULL
  u1 = u1
  u2 = u2
  EnvUrl = EnvUrl
  Catalogs <- MCCatalogs
SPECIFICATION SwiftSpec
INVARIANTS ResumesWhereItStopped EndOnlyAtEnd OpensAtStore
PROPERTIES ReadReturns
