--------------------------- MODULE MCCodecReader ----------------------------
(***************************************************************************)
(* The decompressing readers for TLC; the .cfg file chooses the size of    *)
(* inbuff and the bounds on the files.                                     *)
(***************************************************************************)
EXTENDS CodecReader
=============================================================================
