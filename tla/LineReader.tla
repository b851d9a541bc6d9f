----------------------------- MODULE LineReader -----------------------------
(***************************************************************************)
(* Reading lines, wandio_generic_fgets and wandio_fgets of lib/wandio.c,   *)
(* over the peeking reader: one read of one byte after the other, mixed    *)
(* with the program's own reads, peeks and seeks.                          *)
(***************************************************************************)
EXTENDS PeekReader

CONSTANT Newlines  \* the bytes of the file that are '\n'

ASSUME LineAssumption == Newlines \subseteq 1..FileSize

VARIABLES
  fpc,    \* "idle" or "fgets": is the program inside wandio_fgets?
  (* the latest call: its arguments, what is in the program's buffer       *)
  (* before the '\0', its result, and the read offset it began at          *)
  flen, chomp, line, fret, start

fgets == <<fpc, flen, chomp, line, fret, start>>
allVars == <<vars, fgets>>
-----------------------------------------------------------------------------
(* What is stored for byte b; '\0' is Garbage.                             *)
Stored(b) == IF b \in Newlines /\ chomp THEN Garbage ELSE b

(* Is the call done when it has stored line s, the last byte being b?      *)
Done(s, b) == b \in Newlines \/ Len(s) >= flen - 1

(* The result at the end of the file: the i-- before the i++ of the loop.  *)
CountAtEnd_noDecrement == Len(line) + 1
CountAtEnd == Len(line)

FgetsReturns(r) == fpc' = "idle" /\ fret' = r /\ UNCHANGED <<flen, chomp, start>>

(* No call, as far as the properties are concerned.                        *)
NoFgets ==
  /\ fpc' = "idle" /\ flen' = 0 /\ chomp' = FALSE /\ line' = <<>>
  /\ fret' = 0 /\ start' = 0
-----------------------------------------------------------------------------
LineInit ==
  /\ Init
  /\ fpc = "idle" /\ flen = 0 /\ chomp = FALSE /\ line = <<>>
  /\ fret = 0 /\ start = 0

(* The call: with len <= 0 there is nothing to do, with len = 1 no byte is *)
(* read and the result is 0.                                               *)
wandio_fgets(n, c) ==
  /\ fpc = "idle" /\ pc = "open"
  /\ cleanSeeks /\ ~noMemory  \* bound: the property speaks of these only
  /\ fpc' = IF n > 1 THEN "fgets" ELSE "idle"
  /\ flen' = n /\ chomp' = c /\ line' = <<>> /\ fret' = 0 /\ start' = position
  /\ op' = "read" /\ asked' = 0 /\ ret' = 0 /\ got' = <<>> /\ from' = position
  /\ UNCHANGED <<buf, child, pc, position, history>>

(* One turn of the loop: a byte is read and stored, the file has ended, or *)
(* the error is returned and the line begun is left behind.                *)
FgetsByte ==
  /\ fpc = "fgets"
  /\ peek_read(1)
  /\ CASE pc' = "aborted" -> UNCHANGED fgets
       [] pc' # "aborted" /\ ret' < 0 -> FgetsReturns(ret') /\ UNCHANGED line
       [] pc' # "aborted" /\ ret' = 0 -> FgetsReturns(CountAtEnd) /\ UNCHANGED line
       [] OTHER ->
            /\ line' = Append(line, Stored(got'[1]))
            /\ IF Done(line', got'[1]) THEN FgetsReturns(Len(line'))
               ELSE UNCHANGED <<fpc, flen, chomp, fret, start>>

(* The program's other calls.                                              *)
OtherCall == fpc = "idle" /\ Next /\ NoFgets

LineNext ==
  \/ \E n \in 0 .. MaxLen + 1, c \in BOOLEAN : wandio_fgets(n, c)
  \/ FgetsByte
  \/ OtherCall
  \/ Ended /\ UNCHANGED fgets

LineSpec == LineInit /\ [][LineNext]_allVars
-----------------------------------------------------------------------------
(* The bytes of the file from offset o, as wandio_fgets stores them.       *)
Expected(o, n) == [i \in 1..n |-> Stored(o + i)]

(* wandio_fgets: a result of 0 or more counts the bytes stored, which are  *)
(* those at the program's read offset up to and with the first newline, or *)
(* len - 1 of them, or all that the file has left; and nothing behind them *)
(* is consumed, so that reads, peeks and lines can be mixed.  The result   *)
(* is negative only if the reader below has failed.  As long as memory is  *)
(* there and no seek was made over buffered bytes (lib/wandio.c:498).      *)
FgetsDeliversLine ==
  (fpc = "idle" /\ flen > 0 /\ cleanSeeks /\ ~noMemory) =>
    IF fret < 0 THEN childFailed
    ELSE /\ fret = Len(line) /\ fret < flen
         /\ line = Expected(start, fret)
         /\ position = start + fret
         /\ \A i \in 1 .. fret - 1 : start + i \notin Newlines
         /\ \/ start + fret \in Newlines
            \/ fret = flen - 1
            \/ position = FileSize
=============================================================================
