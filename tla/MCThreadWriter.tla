--------------------------- MODULE MCThreadWriter ---------------------------
(***************************************************************************)
(* The threaded writer for TLC; the .cfg files choose the ring, the slice  *)
(* size and the bounds.                                                    *)
(***************************************************************************)
EXTENDS ThreadWriter
=============================================================================
