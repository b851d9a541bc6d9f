------------------------------- MODULE Handle -------------------------------
(***************************************************************************)
(* What every reader and writer without a thread of its own keeps about    *)
(* the program's calls, which come one after the other.                    *)
(***************************************************************************)
VARIABLES
  pc,          \* where in which call it is; "idle" between two calls
  asked, ret   \* length and result of the latest call
=============================================================================
