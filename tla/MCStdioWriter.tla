--------------------------- MODULE MCStdioWriter ----------------------------
(***************************************************************************)
(* The plain file writer for TLC; the .cfg file chooses the block size and *)
(* what the system calls may do.                                           *)
(***************************************************************************)
EXTENDS StdioWriter
=============================================================================
