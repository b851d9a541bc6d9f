------------------------------ MODULE IOWriter ------------------------------
(***************************************************************************)
(* What an iow_t handle promises the program that writes to it             *)
(* (lib/wandio.h, wandio_wwrite and wandio_wdestroy): a write takes all    *)
(* the bytes it is given, in order; they reach the output in that order,   *)
(* at some time before the handle is gone.                                 *)
(***************************************************************************)
EXTENDS ByteStream

VARIABLES
  status,   \* "idle", "writing", "closing" or "closed"
  given,    \* bytes passed to the writes called so far
  taken,    \* bytes of them that the writer has taken a copy of
  out       \* what has reached the output

wvars == <<status, given, taken, out>>

IOInit ==
  /\ status = "idle" /\ given = 0 /\ taken = 0 /\ out = <<>>

Call ==
  /\ status = "idle"
  /\ status' = "writing"
  /\ given' \in Nat /\ given' >= given
  /\ UNCHANGED <<taken, out>>

Take ==
  /\ status = "writing"
  /\ taken' \in taken..given
  /\ \/ status' = "writing"
     \/ taken' = given /\ status' = "idle"
  /\ UNCHANGED <<given, out>>

(* Some of the bytes taken reach the output, in any step of any thread.    *)
Emit ==
  /\ status # "closed"
  /\ \E n \in 1 .. (taken - Len(out)) : out' = out \o Bytes(Len(out), n)
  /\ UNCHANGED <<status, given, taken>>

Close ==
  /\ status = "idle"
  /\ status' = "closing"
  /\ UNCHANGED <<given, taken, out>>

Closed ==
  /\ status = "closing"
  /\ Len(out) = taken
  /\ status' = "closed"
  /\ UNCHANGED <<given, taken, out>>

IONext == Call \/ Take \/ Emit \/ Close \/ Closed

IOSpec == IOInit /\ [][IONext]_wvars
=============================================================================
