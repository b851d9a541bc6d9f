---------------------------- MODULE MCPeekReader ----------------------------
(***************************************************************************)
(* The peeking reader and line reading over it, for TLC; the .cfg file     *)
(* chooses the file and what may fail.                                     *)
(***************************************************************************)
EXTENDS LineReader
=============================================================================
