----------------------------- MODULE PeekReader -----------------------------
(***************************************************************************)
(* The peeking reader, lib/ior-peek.c: reads and peeks served from a       *)
(* managed buffer that is filled from a child reader; tell and seek are    *)
(* passed on to the child.                                                 *)
(*                                                                         *)
(* The child is the plain file reader, lib/ior-stdio.c, on a file, pipe or *)
(* terminal with FileSize bytes (byte k is the k-th): it may return fewer  *)
(* bytes than asked for, or fail, once or for good.                        *)
(***************************************************************************)
EXTENDS ByteStream

CONSTANTS
  MIN_READ_SIZE, PEEK_SIZE,  \* scaled down
  FileSize,                  \* bound: size of the file
  MaxLen,                    \* bound: length of one read or peek
  ChildMayFail,              \* may the child's read return -1?
  MemoryMayFail,             \* may posix_memalign fail?
  Seekable                   \* does the program call seek?

ASSUME PeekAssumption ==
  /\ MIN_READ_SIZE \in Nat \ {0}
  /\ PEEK_SIZE \in Nat \ {0}
  /\ FileSize \in Nat
  /\ MaxLen \in Nat
  /\ {ChildMayFail, MemoryMayFail, Seekable} \subseteq BOOLEAN

VARIABLES
  (* struct peek_t: `buffer` is "null", "ok" or "freed" (it points to      *)
  (* memory that was given back), `data` what the memory holds             *)
  buffer, data, length, offset,
  (* the child: its read offset, and whether it has ever failed            *)
  childPos, childFailed,
  (* "open", "closed", or "aborted" by an assertion                        *)
  pc,
  (* the latest read or peek: which, what it asked for and returned, the   *)
  (* bytes it delivered and where in the file they should come from        *)
  op, asked, ret, got, from,
  (* history: read offset as the program knows it; were all seeks made     *)
  (* with nothing buffered?  has posix_memalign failed?                    *)
  position, cleanSeeks, noMemory

buf   == <<buffer, data, length, offset>>
child == <<childPos, childFailed>>
call  == <<op, asked, ret, got, from>>
history == <<cleanSeeks, noMemory>>
vars  == <<buf, child, pc, call, position, history>>
-----------------------------------------------------------------------------
(* Small steps the actions below are made of.  A definition named X_y is a  *)
(* faulty variant of X, used to show that the properties would notice it.  *)

Larger(a, b) == IF a < b THEN b ELSE a

Buffered == length - offset

(* Is the memory there that length says is there?                          *)
Sound == buffer = "ok" \/ length = 0

(* What a read of n bytes from the child may return: read(2) gives what is *)
(* there, 0 at the end, or -1 (EINTR, EAGAIN, EIO).                        *)
stdio_read(n) ==
  (IF childPos = FileSize THEN {0}
   ELSE 1 .. Smaller(n, FileSize - childPos))
  \cup (IF ChildMayFail THEN {-1} ELSE {})

ChildAfter(r) ==
  /\ childPos' = IF r > 0 THEN childPos + r ELSE childPos
  /\ childFailed' = (childFailed \/ r < 0)

(* lseek fails on a pipe or terminal; for a seek also if it would end in   *)
(* front of the file.                                                      *)
stdio_tell == {childPos, -1}

stdio_seek(o) == childPos' = o /\ UNCHANGED childFailed

(* n bytes from offset o of memory that holds d; of the buffer's memory.   *)
Copy(d, o, n) == [i \in 1..n |-> IF o + i <= Len(d) THEN d[o + i] ELSE Garbage]
Memory(o, n) == Copy(IF buffer = "ok" THEN data ELSE <<>>, o, n)

(* How much of a read of n bytes the buffer can serve.                     *)
FromBuffer_fromStart(n) == IF buffer # "null" /\ length > 0
                           THEN Smaller(n, length) ELSE 0
FromBuffer(n) == IF buffer # "null" /\ length > 0
                 THEN Smaller(n, Buffered) ELSE 0

(* refill_buffer: how much is read for a request of n bytes.               *)
RefillSize(n) ==
  LET s == Larger(Larger(n, PEEK_SIZE), length)
  IN  s + MIN_READ_SIZE - (s % MIN_READ_SIZE)

(* peek_peek: how much is read for a request of n bytes.                   *)
ExtendSize(n) ==
  LET s == n - Buffered
  IN  s + PEEK_SIZE - ((length + s) % PEEK_SIZE)

(* The end of peek_read: a buffer that was read to its end is freed.       *)
ReleaseIfDrained(b, d, o) ==
  IF b # "null" /\ o >= Len(d)
  THEN buffer' = "null" /\ data' = <<>> /\ length' = 0 /\ offset' = 0
  ELSE /\ buffer' = b /\ data' = d /\ offset' = o
       /\ length' = IF b = "null" THEN length ELSE Len(d)

(* A read of n bytes ends with result r, having delivered bytes s.         *)
Returns(n, r, s) ==
  /\ op' = "read" /\ asked' = n /\ ret' = r /\ got' = s /\ from' = position
  /\ position' = position + Len(s)

(* What the caller is told when the child gave r < 1 after k bytes came    *)
(* from the buffer.                                                        *)
EndResult_child(k, r) == r
EndResult(k, r) == IF k > 0 THEN k ELSE r

(* Does a peek of n bytes need more than what is buffered?                 *)
MustExtend(n) == Buffered < n

(* Where peek_peek reads the child's bytes to: behind what is there.       *)
Extended(r) == data \o Bytes(childPos, r)
-----------------------------------------------------------------------------
stdio_open == childPos = 0 /\ childFailed = FALSE

(* peek_open *)
Init ==
  /\ stdio_open
  /\ buffer = "null" /\ data = <<>> /\ length = 0 /\ offset = 0
  /\ pc = "open"
  /\ op = "read" /\ asked = 0 /\ ret = 0 /\ got = <<>> /\ from = 0
  /\ position = 0 /\ cleanSeeks = TRUE /\ noMemory = FALSE
-----------------------------------------------------------------------------
(* peek_read *)

(* The error of an earlier read is reported again.                         *)
ReadError(n) ==
  /\ pc = "open" /\ length < 0
  /\ Returns(n, length, <<>>)
  /\ UNCHANGED <<buf, child, pc, history>>

(* All of it is in the buffer.                                             *)
ReadBuffered(n) ==
  /\ pc = "open" /\ length >= 0
  /\ FromBuffer(n) = n
  /\ Sound \/ n = 0
  /\ Returns(n, n, Memory(offset, n))
  /\ IF Sound THEN ReleaseIfDrained(buffer, data, offset + n)
              ELSE UNCHANGED buf
  /\ UNCHANGED <<child, pc, history>>

(* The buffer does not have it all; k bytes come from the buffer first.    *)
NeedsChild(n) ==
  /\ pc = "open" /\ length >= 0 /\ buffer # "freed"
  /\ FromBuffer(n) < n

(* "To get here, the buffer must be empty": checked by an assertion; and   *)
(* copying out of freed memory may do anything, a crash is taken here.     *)
ReadFaults(n) ==
  /\ pc = "open" /\ length >= 0
  /\ \/ buffer = "freed" /\ n > 0
     \/ NeedsChild(n) /\ length # offset + FromBuffer(n)
  /\ pc' = "aborted"
  /\ UNCHANGED <<buf, child, call, position, history>>

(* The rest is a multiple of MIN_READ_SIZE and the caller's buffer is      *)
(* aligned: read straight into that.                                       *)
ReadDirect(n) ==
  /\ NeedsChild(n)
  /\ length = offset + FromBuffer(n)
  /\ LET k == FromBuffer(n)
     IN  /\ (n - k) % MIN_READ_SIZE = 0
         /\ \E r \in stdio_read(n - k) :
              /\ ChildAfter(r)
              /\ IF r < 1
                 THEN /\ Returns(n, EndResult(k, r), Memory(offset, k))
                      /\ offset' = offset + k
                      /\ UNCHANGED <<buffer, data, length>>
                 ELSE /\ Returns(n, k + r, Memory(offset, k) \o Bytes(childPos, r))
                      /\ ReleaseIfDrained(buffer, data, offset + k)
  /\ UNCHANGED <<pc, history>>

(* Otherwise through refill_buffer.                                        *)
ReadRefill(n) ==
  /\ NeedsChild(n)
  /\ length = offset + FromBuffer(n)
  /\ LET k == FromBuffer(n)
     IN  \E r \in stdio_read(RefillSize(n - k)) :
           /\ ChildAfter(r)
           /\ IF r < 1
              THEN /\ Returns(n, EndResult(k, r), Memory(offset, k))
                   /\ buffer' = "ok" /\ data' = <<>> /\ length' = r /\ offset' = 0
              ELSE LET m == Smaller(n - k, r)
                   IN  /\ Returns(n, k + m, Memory(offset, k) \o Bytes(childPos, m))
                       /\ ReleaseIfDrained("ok", Bytes(childPos, r), m)
  /\ UNCHANGED <<pc, history>>

(* refill_buffer without memory: the old buffer has been freed, but stays  *)
(* in place, with a length.                                                *)
ReadRefillNoMemory(n) ==
  /\ MemoryMayFail
  /\ NeedsChild(n)
  /\ length = offset + FromBuffer(n)
  /\ LET k == FromBuffer(n)
     IN  /\ Returns(n, EndResult(k, -1), Memory(offset, k))
         /\ length' = RefillSize(n - k) /\ offset' = 0
         /\ buffer' = IF buffer = "null" THEN "null" ELSE "freed"
         /\ data' = <<>>
  /\ noMemory' = TRUE
  /\ UNCHANGED <<child, pc, cleanSeeks>>

peek_read(n) ==
  \/ ReadError(n) \/ ReadBuffered(n) \/ ReadFaults(n) \/ ReadDirect(n)
  \/ ReadRefill(n) \/ ReadRefillNoMemory(n)
-----------------------------------------------------------------------------
(* peek_peek *)

Peeks(n, r, s) ==
  /\ op' = "peek" /\ asked' = n /\ ret' = r /\ got' = s /\ from' = position
  /\ position' = position

PeekBuffered(n) ==
  /\ pc = "open"
  /\ ~MustExtend(n)
  /\ Sound \/ n = 0
  /\ Peeks(n, n, Memory(offset, n))
  /\ UNCHANGED <<buf, child, pc, history>>

(* One read of the child extends the buffer; an error is passed up and     *)
(* leaves the buffer as it was, larger.                                    *)
PeekExtend(n) ==
  /\ pc = "open"
  /\ MustExtend(n) /\ Sound
  /\ buffer' = "ok"
  /\ \E r \in stdio_read(ExtendSize(n)) :
       /\ ChildAfter(r)
       /\ r < 0 \/ length >= 0
       /\ IF r < 0
          THEN Peeks(n, r, <<>>) /\ UNCHANGED <<data, length>>
          ELSE LET m == Smaller(n, Buffered + r)
               IN  /\ data' = Extended(r)
                   /\ length' = length + r
                   /\ Peeks(n, m, Copy(Extended(r), offset, m))
  /\ UNCHANGED <<offset, pc, history>>

(* No memory: the buffer is forgotten and the (positive) error number      *)
(* returned.                                                               *)
PeekNoMemory(n) ==
  /\ MemoryMayFail
  /\ pc = "open" /\ length >= 0
  /\ MustExtend(n) /\ Sound
  /\ buffer' = "null" /\ data' = <<>>
  /\ Peeks(n, 12, <<>>)
  /\ noMemory' = TRUE
  /\ UNCHANGED <<length, offset, child, pc, cleanSeeks>>

(* Copying out of memory that is not there; or length is -1, from a failed *)
(* read, and the child now reads to one byte in front of the buffer.       *)
PeekFaults(n) ==
  /\ pc = "open"
  /\ \/ n > 0 /\ ~Sound
     \/ length < 0 /\ \E r \in stdio_read(ExtendSize(n)) : r >= 0
  /\ pc' = "aborted"
  /\ UNCHANGED <<buf, child, call, position, history>>

peek_peek(n) ==
  \/ PeekBuffered(n) \/ PeekExtend(n) \/ PeekNoMemory(n) \/ PeekFaults(n)
-----------------------------------------------------------------------------
(* peek_tell: the child's read offset, or its error.                       *)
peek_tell ==
  /\ pc = "open"
  /\ op' = "tell" /\ ret' \in stdio_tell /\ asked' = 0 /\ got' = <<>>
  /\ from' = position
  /\ UNCHANGED <<buf, child, pc, position, history>>

(* peek_seek: the child's seek, the buffer is kept.  The child ends at     *)
(* offset o and returns it, from wherever `whence` had it counted.         *)
peek_seek(o) ==
  /\ pc = "open" /\ Seekable
  /\ cleanSeeks         \* bound: no seek follows one with bytes buffered
  /\ length <= FileSize \* bound: seeks do not grow the buffer on
  /\ stdio_seek(o)
  /\ position' = o
  /\ cleanSeeks' = (cleanSeeks /\ Buffered = 0)
  /\ op' = "seek" /\ ret' = o /\ asked' = 0 /\ got' = <<>> /\ from' = o
  /\ UNCHANGED <<buf, pc, noMemory>>

(* The child cannot be sought: nothing has moved.                          *)
SeekFails ==
  /\ pc = "open" /\ Seekable
  /\ op' = "seek" /\ ret' = -1 /\ asked' = 0 /\ got' = <<>> /\ from' = position
  /\ UNCHANGED <<buf, child, pc, position, history>>

stdio_close == pc' = "closed"

peek_close ==
  /\ pc = "open"
  /\ stdio_close
  /\ UNCHANGED <<buf, child, call, position, history>>

Ended == pc # "open" /\ UNCHANGED vars

Next ==
  \/ \E n \in 0..MaxLen : peek_read(n) \/ peek_peek(n)
  \/ peek_tell
  \/ SeekFails \/ \E o \in 0..FileSize : peek_seek(o)
  \/ peek_close
  \/ Ended

Spec == Init /\ [][Next]_vars
-----------------------------------------------------------------------------
(* Every variable keeps its type; the offset stays inside the buffer and   *)
(* length is the number of bytes in it.                                    *)
TypeOK ==
  /\ buffer \in {"null", "ok", "freed"} /\ data \in Seq(Nat)
  /\ buffer = "ok" /\ length >= 0 => Len(data) = length
  /\ length \in Int /\ length >= -1 /\ offset \in 0..Larger(length, 0)
  /\ childPos \in 0..FileSize /\ childFailed \in BOOLEAN
  /\ pc \in {"open", "closed", "aborted"}
  /\ op \in {"read", "peek", "tell", "seek"}
  /\ asked \in Nat /\ ret \in Int /\ got \in Seq(Nat)
  /\ from \in Nat /\ position \in Nat /\ cleanSeeks \in BOOLEAN
  /\ noMemory \in BOOLEAN

(* lib/ior-peek.c:168, the assertion under "To get here, the buffer must   *)
(* be empty", holds, and memory outside the buffer or freed is not used,   *)
(* whatever is sought; until an allocation fails, which leaves a length    *)
(* without memory, or a refill fails, which leaves length at -1.           *)
BufferEmptyBeforeRefill ==
  ~noMemory /\ length >= 0 => pc # "aborted" /\ buffer # "freed"

(* A read or a peek returns as many bytes as it delivers; 0 only when the  *)
(* file is exhausted, and a negative result only after the child failed.   *)
(* As long as memory is there: peek_peek returns the number of the error   *)
(* of posix_memalign as if it were a count of bytes.                       *)
ResultTellsTheTruth ==
  op \in {"read", "peek"} /\ asked > 0 /\ cleanSeeks /\ ~noMemory =>
    /\ ret >= 0 => ret = Len(got)
    /\ ret = 0 => childPos = FileSize /\ Buffered <= 0
    /\ ret < 0 => childFailed

(* Whatever mixture of reads, peeks, short child reads, errors and failed  *)
(* allocations came before, a read or a peek delivers the bytes at the     *)
(* program's read offset; so a peek shows what the next read will deliver. *)
(* Seeks keep this if nothing is buffered when they are made: peek_seek    *)
(* leaves what is buffered in place.  And the result says how many bytes   *)
(* there are.                                                              *)
DeliversAtReadOffset ==
  /\ cleanSeeks => got = Bytes(from, Len(got))
  /\ ResultTellsTheTruth

(* The bytes taken from the child and not yet read are in the buffer, and  *)
(* as many as length says.  So tell, which asks the child, returns the     *)
(* offset of the read pointer (lib/wandio.h:282) when nothing has been     *)
(* read ahead; when something has, it does not.  The buffer is empty when  *)
(* it is refilled, and every variable has its type.                        *)
NothingLost ==
  /\ TypeOK
  /\ BufferEmptyBeforeRefill
  /\ cleanSeeks /\ ~noMemory /\ length >= 0 =>
       /\ childPos = position + Buffered
       /\ op = "tell" /\ ret >= 0 /\ Buffered = 0 => ret = position
=============================================================================
