---------------------------- MODULE WriteHandle -----------------------------
(***************************************************************************)
(* What the writers without a thread have in common: the program writes    *)
(* bytes 1, 2, 3, ... in calls of any length.                              *)
(***************************************************************************)
EXTENDS Handle

CONSTANTS
  MaxStream,    \* bound: the program writes at most this many bytes
  MaxWriteLen   \* bound: length of one write

VARIABLE accepted   \* history: bytes the program was told are written
=============================================================================
