--------------------------- MODULE MCThreadReader ---------------------------
(***************************************************************************)
(* The instance of the threaded reader for TLC, with the invariant its     *)
(* proofs rest on.                                                         *)
(***************************************************************************)
EXTENDS ThreadReaderProofs
=============================================================================
