---------------------------- MODULE CodecHandle -----------------------------
(***************************************************************************)
(* What the decompressing readers and the compressing writers have in      *)
(* common: the handle is one of several, has a buffer on the compressed    *)
(* side and remembers that it met an error.                                *)
(***************************************************************************)
EXTENDS Handle

CONSTANT BUFFER_SIZE   \* size of inbuff or outbuff, scaled down

VARIABLES
  codec,   \* the reader or writer that was opened
  err      \* field err of struct zlib_t, struct zlibw_t and the others
=============================================================================
