------------------------------ MODULE IOReader ------------------------------
(***************************************************************************)
(* What an io_t handle promises the program that reads from it             *)
(* (lib/wandio.h, wandio_read and io_source_t.read): successive reads      *)
(* return consecutive bytes of the source; a read returns the number of    *)
(* bytes asked for, fewer only because the source has no more, and then 0  *)
(* at end of file or -1 after an error, for ever.                          *)
(*                                                                         *)
(* How far the source has been read ahead of the program is not promised:  *)
(* Supply and End happen at any time.                                      *)
(***************************************************************************)
EXTENDS ByteStream

VARIABLES
  status,    \* "open", "idle", "reading" or "closed"
  asked,     \* length asked for by the latest read
  ret,       \* what the latest completed read returned
  got,       \* every byte returned by the reads completed so far
  supplied,  \* bytes the source has supplied so far
  end        \* 1 while the source goes on, then 0 (end of file) or -1 (error)

ivars == <<status, asked, ret, got, supplied, end>>

IOInit ==
  /\ status = "open" /\ asked = 0 /\ ret = 0
  /\ got = <<>> /\ supplied = 0 /\ end = 1

Remaining == supplied - Len(got)

Open ==
  /\ status = "open"
  /\ status' \in {"idle", "closed"}
  /\ UNCHANGED <<asked, ret, got, supplied, end>>

(* The source is read ahead, by any amount, until it ends.                 *)
Supply ==
  /\ end = 1
  /\ supplied' \in Nat /\ supplied' >= supplied
  /\ end' \in {1, 0, -1}
  /\ UNCHANGED <<status, asked, ret, got>>

Call ==
  /\ status = "idle"
  /\ asked' \in Nat
  /\ IF asked' > 0 THEN status' = "reading" /\ ret' = ret
                   ELSE status' = "idle" /\ ret' = 0
  /\ UNCHANGED <<got, supplied, end>>

(* The read returns n bytes, the n that follow what was returned before.   *)
Return(n) ==
  /\ ret' = n
  /\ got' = got \o Bytes(Len(got), n)

Finish ==
  /\ status = "reading"
  /\ status' = "idle"
  /\ \/ Remaining >= asked /\ Return(asked)
     \/ 0 < Remaining /\ Remaining < asked /\ end < 1 /\ Return(Remaining)
     \/ Remaining = 0 /\ end < 1 /\ ret' = end /\ got' = got
  /\ UNCHANGED <<asked, supplied, end>>

Close ==
  /\ status = "idle"
  /\ status' = "closed"
  /\ UNCHANGED <<asked, ret, got, supplied, end>>

IONext == Open \/ Supply \/ Call \/ Finish \/ Close

IOSpec == IOInit /\ [][IONext]_ivars
=============================================================================
