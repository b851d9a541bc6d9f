---------------------------- MODULE MCLzoWriter -----------------------------
(***************************************************************************)
(* The LZO writer for TLC; the .cfg files choose the sizes of the pool and *)
(* the bounds.                                                             *)
(***************************************************************************)
EXTENDS LzoWriter
=============================================================================
