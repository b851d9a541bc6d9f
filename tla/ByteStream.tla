----------------------------- MODULE ByteStream -----------------------------
(***************************************************************************)
(* Data abstraction shared by the readers and writers of libwandio.        *)
(*                                                                         *)
(* A byte is identified by its position (1, 2, 3, ...) in the stream it    *)
(* belongs to, so losing, repeating, reordering or inventing a byte is     *)
(* visible as a sequence that is not 1, 2, 3, ...                          *)
(***************************************************************************)
EXTENDS Integers, Sequences

(* What a read of memory outside the valid part of a buffer yields.        *)
Garbage == 0

(* The n bytes of a stream that follow stream offset `from`.               *)
Bytes(from, n) == [i \in 1..n |-> from + i]

(* s is an initial segment of the stream: nothing lost, repeated,          *)
(* reordered or invented.                                                  *)
InOrder(s) == \A i \in 1..Len(s) : s[i] = i

Smaller(a, b) == IF a < b THEN a ELSE b
=============================================================================
