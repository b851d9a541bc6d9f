---------------------------- MODULE StdioWriter -----------------------------
(***************************************************************************)
(* The plain file writer, lib/iow-stdio.c.  Writes go to the file in       *)
(* multiples of MIN_WRITE_SIZE, because the file may be open with O_DIRECT; *)
(* the rest is kept in a buffer.  Flush turns O_DIRECT off and writes the  *)
(* rest.                                                                   *)
(*                                                                         *)
(* The program's data are bytes 1, 2, 3, ...; after a write that returned  *)
(* -1 it offers the same bytes again.                                      *)
(***************************************************************************)
EXTENDS ByteStream, WriteHandle

CONSTANTS
  MIN_WRITE_SIZE,   \* scaled down
  ShortWrites,      \* may writev and write do part of the work?
  WriteMayFail      \* may writev, write and fcntl return -1?

ASSUME StdioAssumption ==
  /\ MIN_WRITE_SIZE \in Nat \ {0}
  /\ MaxStream \in Nat
  /\ MaxWriteLen \in Nat
  /\ ShortWrites \in BOOLEAN
  /\ WriteMayFail \in BOOLEAN

(* pc: "idle", "write" (in the loop of stdio_wwrite), "closed", "aborted"  *)
(* (an assertion of stdio_wwrite failed).  MaxStream also bounds the file. *)
VARIABLES
  buffer,     \* struct stdiow_t: the offset bytes of buffer in use
  direct,     \* is O_DIRECT set on the file?
  contents,   \* what the file holds
  towrite,    \* local of stdio_wwrite: bytes still to be written
  dropped,    \* history: has a flush dropped bytes it could not write?
  torn        \* history: has a write failed with part of it in the file?

losses == <<dropped, torn>>
stdioVars == <<buffer, direct, contents, pc, towrite, asked, ret, accepted, losses>>
-----------------------------------------------------------------------------
(* Small steps the actions below are made of.  A definition named X_y is a  *)
(* faulty variant of X, used to show that the properties would notice it.  *)

(* The bytes of the current call that are still to be written.             *)
Rest == Bytes(accepted + asked - towrite, towrite)

Pending == Len(buffer) + towrite

(* The loop test of stdio_wwrite.                                          *)
Enough == Pending >= MIN_WRITE_SIZE

(* How much is offered to writev: whole multiples only.                    *)
Amount_all == Pending
Amount == Pending - (Pending % MIN_WRITE_SIZE)

(* What a system call asked to write n bytes may return; with O_DIRECT, if *)
(* d says so, a short write still is one of whole blocks.                  *)
Outcomes(n, d) ==
  {n} \cup {k \in 1 .. n - 1 : ShortWrites /\ (d => k % MIN_WRITE_SIZE = 0)}
      \cup (IF WriteMayFail THEN {-1} ELSE {})

(* After n bytes of buffer and data went out: what stays in the buffer.    *)
Kept(n) == SubSeq(buffer, n + 1, Len(buffer))

(* After the loop: the remainder joins the buffer.                         *)
Remainder_overwrites == Rest
Remainder == buffer \o Rest
-----------------------------------------------------------------------------
(* stdio_wopen: the file is open, with O_DIRECT if that was asked for and  *)
(* works, the buffer is empty.                                             *)
StdioInit ==
  /\ buffer = <<>> /\ direct \in BOOLEAN /\ contents = <<>>
  /\ pc = "idle" /\ towrite = 0 /\ asked = 0 /\ ret = 0
  /\ accepted = 0 /\ dropped = FALSE /\ torn = FALSE

stdio_wwrite(n) ==
  /\ pc = "idle"
  /\ accepted + n <= MaxStream /\ Len(contents) + Len(buffer) + n <= MaxStream
  /\ towrite' = n /\ asked' = n
  /\ pc' = "write"
  /\ UNCHANGED <<buffer, direct, contents, ret, accepted, losses>>

(* One turn of the loop: writev took n bytes, of the buffer first.  The    *)
(* code then asserts that the buffer is empty.                             *)
Writev ==
  /\ pc = "write"
  /\ Enough
  /\ \E n \in Outcomes(Amount, direct) \ {-1} :
       LET fromBuffer == Smaller(Len(buffer), n)
       IN  /\ contents' = contents \o SubSeq(buffer \o Rest, 1, n)
           /\ buffer' = Kept(fromBuffer)
           /\ towrite' = towrite - (n - fromBuffer)
           /\ pc' = IF buffer' = <<>> THEN "write" ELSE "aborted"
  /\ UNCHANGED <<direct, asked, ret, accepted, losses>>

WritevFails ==
  /\ pc = "write"
  /\ Enough
  /\ -1 \in Outcomes(Amount, direct)
  /\ ret' = -1 /\ towrite' = 0
  /\ torn' = (torn \/ towrite < asked)
  /\ pc' = "idle"
  /\ UNCHANGED <<buffer, direct, contents, asked, accepted, dropped>>

WriteTail ==
  /\ pc = "write"
  /\ ~Enough
  /\ buffer' = Remainder
  /\ towrite' = 0
  /\ ret' = asked /\ accepted' = accepted + asked
  /\ pc' = "idle"
  /\ UNCHANGED <<direct, contents, asked, losses>>
-----------------------------------------------------------------------------
(* O_DIRECT after F_SETFL, whose result is not looked at.                  *)
AfterSetfl == {FALSE} \cup (IF WriteMayFail THEN {direct} ELSE {})

(* What the write of a flush may return: with O_DIRECT still there it is   *)
(* refused, as less than a block.                                          *)
FlushOutcomes(d) ==
  IF d /\ buffer # <<>> THEN {-1} ELSE Outcomes(Len(buffer), d)

(* stdio_wflush, also the first thing stdio_wclose does: r is the result   *)
(* of the write; whatever it is, the buffer is considered empty.           *)
Flush(r) ==
  /\ direct' \in AfterSetfl
  /\ r \in FlushOutcomes(direct')
  /\ contents' = contents \o SubSeq(buffer, 1, r)
  /\ dropped' = (dropped \/ (buffer # <<>> /\ r # Len(buffer)))
  /\ buffer' = <<>>

stdio_wflush ==
  /\ pc = "idle"
  /\ \E r \in -1 .. Len(buffer) : Flush(r) /\ ret' = r
  /\ UNCHANGED <<pc, towrite, asked, accepted, torn>>

(* F_GETFL fails: nothing is written and the buffer is kept.               *)
stdio_wflush_fcntl ==
  /\ pc = "idle"
  /\ WriteMayFail
  /\ ret' = -1
  /\ UNCHANGED <<buffer, direct, contents, pc, towrite, asked, accepted, losses>>

stdio_wclose ==
  /\ pc = "idle"
  /\ pc' = "closed"
  /\ \/ \E r \in -1 .. Len(buffer) : Flush(r)
     \/ /\ WriteMayFail      \* F_GETFL fails inside the flush
        /\ dropped' = (dropped \/ buffer # <<>>)
        /\ UNCHANGED <<buffer, direct, contents>>
  /\ UNCHANGED <<towrite, asked, ret, accepted, torn>>

(* The handle, or the process, is gone; nothing happens any more.          *)
Ended == pc \in {"closed", "aborted"} /\ UNCHANGED stdioVars

StdioNext ==
  \/ \E n \in 0..MaxWriteLen : stdio_wwrite(n)
  \/ Writev \/ WritevFails \/ WriteTail
  \/ stdio_wflush \/ stdio_wflush_fcntl \/ stdio_wclose
  \/ Ended

StdioSpec == StdioInit /\ [][StdioNext]_stdioVars
-----------------------------------------------------------------------------
(* Every variable keeps its type; the buffer never outgrows its size.      *)
StdioTypeOK ==
  /\ buffer \in Seq(Nat) /\ Len(buffer) < MIN_WRITE_SIZE
  /\ direct \in BOOLEAN /\ contents \in Seq(Nat)
  /\ pc \in {"idle", "write", "closed", "aborted"}
  /\ towrite \in Nat /\ asked \in Nat /\ ret \in Int
  /\ accepted \in Nat /\ dropped \in BOOLEAN /\ torn \in BOOLEAN

(* The file is the program's data from the beginning, without a gap, a     *)
(* repetition or a byte out of place, through short writes and failed ones *)
(* that are retried; and nothing accepted is lost: between calls it and    *)
(* buffer together are exactly what the program was told is written, after *)
(* the close the file alone is.  Up to a flush that could not write all it *)
(* had, or a write that failed after a short writev had written part of it. *)
(* Less than a block is ever kept back, and every variable has its type.   *)
NothingLost ==
  /\ StdioTypeOK
  /\ ~dropped /\ ~torn =>
       /\ InOrder(contents)
       /\ pc = "idle" => contents \o buffer = Bytes(0, accepted)
       /\ pc = "closed" => Len(contents) = accepted

(* While O_DIRECT is set the file only grows by whole multiples of         *)
(* MIN_WRITE_SIZE, as direct I/O demands.                                  *)
DirectWritesAligned == direct => Len(contents) % MIN_WRITE_SIZE = 0
=============================================================================
