---------------------------- MODULE MCCodecWriter ---------------------------
(***************************************************************************)
(* The compressing writers for TLC: which codecs, the size of outbuff and  *)
(* what may fail are chosen in the .cfg files.                             *)
(***************************************************************************)
EXTENDS CodecWriter
=============================================================================
