-------------------------- MODULE LineReaderProofs --------------------------
(***************************************************************************)
(* Proofs, for every file, every refill size and every mixture of reads,   *)
(* peeks, seeks and lines, of what MCPeekReader checks on a small instance *)
(* of PeekReader and LineReader.                                           *)
(***************************************************************************)
EXTENDS LineReader, ByteStreamProofs

(* What can be known of the memory: there is none behind a freed pointer,  *)
(* and a length without memory only after an allocation failed.            *)
MemoryInv ==
  /\ buffer # "ok" => data = <<>>
  /\ buffer = "freed" => length > 0 /\ noMemory
  /\ buffer = "null" /\ ~noMemory => length = 0
  /\ length < 0 => childFailed /\ buffer = "ok"

(* The buffer ends where the child is, and what is left in it are the      *)
(* bytes at the program's read offset.                                     *)
ContentInv ==
  cleanSeeks /\ length >= 0 =>
    /\ buffer = "ok" \/ (buffer = "null" /\ length = offset)
         => childPos = position + Buffered
    /\ buffer = "ok" =>
         \A i \in offset + 1 .. length : data[i] = position + (i - offset)

(* The latest call: what it delivered, and what its result says.           *)
CallInv ==
  /\ cleanSeeks => got = Bytes(from, Len(got))
  /\ op \in {"read", "peek"} => Len(got) <= asked
  /\ ResultTellsTheTruth
  /\ op \in {"read", "peek"} /\ asked > 0 /\ cleanSeeks /\ ~noMemory /\ ret = 0
       => length >= 0
  /\ op = "tell" /\ ret >= 0 /\ cleanSeeks /\ ~noMemory /\ length >= 0
       => ret = position + Buffered

(* The inductive invariant of the peeking reader.                          *)
PeekInv == TypeOK /\ MemoryInv /\ ContentInv /\ CallInv /\ BufferEmptyBeforeRefill

(* A line in progress: what is stored is the file from where it began, it  *)
(* has no newline so far, and there is room for a byte.                    *)
LineInv ==
  fpc = "fgets" =>
    /\ cleanSeeks /\ ~noMemory
    /\ Len(line) < flen - 1
    /\ line = Expected(start, Len(line))
    /\ position = start + Len(line)
    /\ \A i \in 1 .. Len(line) : start + i \notin Newlines

LineTypeOK ==
  /\ fpc \in {"idle", "fgets"} /\ flen \in Nat /\ chomp \in BOOLEAN
  /\ line \in Seq(Nat) /\ fret \in Int /\ start \in Nat

(* The inductive invariant of reading lines over it.                       *)
IInv == PeekInv /\ LineTypeOK /\ LineInv /\ FgetsDeliversLine
-----------------------------------------------------------------------------
(* The types of what the steps of the peeking reader compute with.         *)
LEMMA Types ==
  ASSUME TypeOK
  PROVE  /\ length \in Int /\ length >= -1 /\ offset \in Nat /\ Buffered \in Int
         /\ length >= 0 => offset <= length /\ Buffered \in Nat
         /\ length < 0 => length = -1 /\ offset = 0
         /\ childPos \in Nat /\ childPos <= FileSize /\ FileSize \in Nat
         /\ position \in Nat /\ data \in Seq(Nat)
         /\ MIN_READ_SIZE \in Nat \ {0} /\ PEEK_SIZE \in Nat \ {0}
BY PeekAssumption DEF TypeOK, Buffered, Larger

(* A remainder is smaller than what was divided by.                        *)
LEMMA Remainder ==
  ASSUME NEW a \in Int, NEW m \in Nat \ {0}
  PROVE  a % m \in 0..(m - 1)
OBVIOUS

(* A refill reads at least one byte.                                       *)
LEMMA RefillReads ==
  ASSUME TypeOK, NEW n \in Nat
  PROVE  RefillSize(n) \in Nat \ {0}
<1> DEFINE s == Larger(Larger(n, PEEK_SIZE), length)
<1>1. s \in Nat
  BY Types DEF Larger
<1> HIDE DEF s
<1>2. s % MIN_READ_SIZE \in 0..(MIN_READ_SIZE - 1)
  <2>1. s \in Int
    BY <1>1
  <2> QED BY <2>1, PeekAssumption, Remainder, Zenon
<1>3. RefillSize(n) = s + MIN_READ_SIZE - (s % MIN_READ_SIZE)
  BY DEF RefillSize, s
<1> DEFINE q == s % MIN_READ_SIZE
<1> HIDE DEF q
<1>4. q \in 0..(MIN_READ_SIZE - 1) /\ RefillSize(n) = s + MIN_READ_SIZE - q
  BY <1>2, <1>3 DEF q
<1> QED BY <1>1, <1>4, Types

(* What peek_peek asks of the child is a number.                           *)
LEMMA ExtendReads ==
  ASSUME TypeOK, NEW n \in Nat
  PROVE  ExtendSize(n) \in Int
<1> DEFINE s == n - Buffered
           q == (length + s) % PEEK_SIZE
<1>1. s \in Int /\ length + s \in Int
  BY Types
<1>2. q \in Int
  <2>1. q \in 0..(PEEK_SIZE - 1)
    BY <1>1, PeekAssumption, Remainder, Zenon
  <2> HIDE DEF q
  <2> QED BY <2>1, PeekAssumption
<1>3. ExtendSize(n) = s + PEEK_SIZE - q
  BY DEF ExtendSize
<1> HIDE DEF s, q
<1> QED BY <1>1, <1>2, <1>3, Types

(* The child delivers no more than it has; 0 only at the end of the file.  *)
LEMMA ChildRead ==
  ASSUME TypeOK, NEW n \in Int, NEW r \in stdio_read(n), ChildAfter(r)
  PROVE  /\ r \in Int /\ r >= -1 /\ r <= FileSize
         /\ r > 0 => r <= n /\ childPos' = childPos + r
         /\ r < 1 => childPos' = childPos
         /\ r = 0 => childPos = FileSize
         /\ childPos' \in 0..FileSize
         /\ childFailed' \in BOOLEAN
         /\ childFailed => childFailed'
         /\ r < 0 => childFailed'
<1>1. /\ r \in Int /\ r >= -1 /\ r <= FileSize /\ (r > 0 => r <= n)
      /\ r > 0 => childPos + r <= FileSize
      /\ r = 0 => childPos = FileSize
  BY Types DEF stdio_read, Smaller
<1>2. childFailed' \in BOOLEAN /\ (childFailed => childFailed') /\ (r < 0 => childFailed')
  BY Zenon DEF ChildAfter
<1>3. childPos' = IF r > 0 THEN childPos + r ELSE childPos
  BY DEF ChildAfter
<1> QED BY <1>1, <1>2, <1>3, Types

(* What a copy out of memory is.                                           *)
LEMMA CopyFacts ==
  ASSUME NEW d \in Seq(Nat), NEW o \in Nat, NEW n \in Nat
  PROVE  /\ Copy(d, o, n) \in Seq(Nat) /\ Len(Copy(d, o, n)) = n
         /\ o + n <= Len(d) => \A i \in 1..n : Copy(d, o, n)[i] = d[o + i]
BY DEF Copy, Garbage

(* A copy of memory that holds the bytes behind k.                         *)
LEMMA CopyIsBytes ==
  ASSUME NEW d \in Seq(Nat), NEW o \in Nat, NEW n \in Nat, NEW k \in Nat,
         o + n <= Len(d), \A i \in 1..n : d[o + i] = k + i
  PROVE  Copy(d, o, n) = Bytes(k, n)
<1> DEFINE s == Copy(d, o, n)
<1>1. s \in Seq(Nat) /\ Len(s) = n /\ \A i \in 1..n : s[i] = k + i
  BY CopyFacts
<1> HIDE DEF s
<1>2. s = Bytes(k, n)
  BY <1>1, IsBytes, Zenon
<1> QED BY <1>2 DEF s

(* What is copied out of the buffer are the bytes at the read offset.      *)
LEMMA MemoryPart ==
  ASSUME PeekInv, NEW k \in Nat,
         k > 0 => buffer = "ok" /\ length >= 0 /\ k <= Buffered
  PROVE  /\ Memory(offset, k) \in Seq(Nat) /\ Len(Memory(offset, k)) = k
         /\ cleanSeeks => Memory(offset, k) = Bytes(position, k)
<1> DEFINE d == IF buffer = "ok" THEN data ELSE <<>>
<1>1. d \in Seq(Nat) /\ offset \in Nat /\ position \in Nat
  BY Types DEF PeekInv
<1>2. k > 0 => d = data /\ offset + k <= Len(d) /\ length = Len(d)
  BY Types DEF PeekInv, TypeOK, Buffered
<1>3. k > 0 /\ cleanSeeks => \A i \in 1..k : d[offset + i] = position + i
  <2> SUFFICES ASSUME k > 0, cleanSeeks, NEW i \in 1..k
               PROVE  d[offset + i] = position + i
    OBVIOUS
  <2>1. offset + i \in offset + 1 .. length /\ (offset + i) - offset = i
    BY <1>1, Types DEF PeekInv, Buffered
  <2>2. data[offset + i] = position + ((offset + i) - offset)
    BY <2>1 DEF PeekInv, ContentInv
  <2> QED BY <1>2, <2>1, <2>2
<1>4. Memory(offset, k) = Copy(d, offset, k)
  BY DEF Memory
<1> HIDE DEF d
<1>5. Memory(offset, k) \in Seq(Nat) /\ Len(Memory(offset, k)) = k
  <2>1. Copy(d, offset, k) \in Seq(Nat) /\ Len(Copy(d, offset, k)) = k
    BY <1>1, CopyFacts
  <2> QED BY <1>4, <2>1, Zenon
<1>6. k > 0 /\ cleanSeeks => Memory(offset, k) = Bytes(position, k)
  BY <1>1, <1>2, <1>3, <1>4, CopyIsBytes, Zenon
<1>7. k = 0 => Memory(offset, k) = Bytes(position, k)
  <2> SUFFICES ASSUME k = 0 PROVE Memory(offset, k) = Bytes(position, k)
    OBVIOUS
  <2>1. \A i \in 1..k : Memory(offset, k)[i] = position + i
    OBVIOUS
  <2> QED BY <1>1, <1>5, <2>1, IsBytes, Zenon
<1>8. k > 0 \/ k = 0
  OBVIOUS
<1> QED BY <1>5, <1>6, <1>7, <1>8, Zenon

(* A buffer that serves k bytes of a read has them.                        *)
LEMMA BufferPart ==
  ASSUME PeekInv, NEW n \in Nat, length >= 0
  PROVE  /\ FromBuffer(n) \in 0..n
         /\ buffer = "null" => FromBuffer(n) = 0
         /\ FromBuffer(n) > 0 => FromBuffer(n) <= Buffered
BY Types DEF PeekInv, FromBuffer, Smaller

(* A call that delivers bytes at the read offset, with a true result.      *)
LEMMA CallStep ==
  ASSUME asked' \in Nat, got' \in Seq(Nat), Len(got') <= asked',
         op' \in {"read", "peek"},
         cleanSeeks' => got' = Bytes(from', Len(got')),
         asked' > 0 /\ cleanSeeks' /\ ~noMemory' =>
           /\ ret' >= 0 => ret' = Len(got')
           /\ ret' = 0 => childPos' = FileSize /\ length' - offset' <= 0 /\ length' >= 0
           /\ ret' < 0 => childFailed'
  PROVE  CallInv'
BY DEF CallInv, ResultTellsTheTruth, Buffered

(* The types, by the part of the state they are about.                     *)
BufferTypes ==
  /\ buffer \in {"null", "ok", "freed"} /\ data \in Seq(Nat)
  /\ buffer = "ok" /\ length >= 0 => Len(data) = length
  /\ length \in Int /\ length >= -1 /\ offset \in Nat
  /\ offset <= length \/ offset = 0

ChildTypes == childPos \in 0..FileSize /\ childFailed \in BOOLEAN

CallTypes ==
  /\ op \in {"read", "peek", "tell", "seek"}
  /\ asked \in Nat /\ ret \in Int /\ got \in Seq(Nat) /\ from \in Nat

HistoryTypes == position \in Nat /\ cleanSeeks \in BOOLEAN /\ noMemory \in BOOLEAN

(* Together they are the type invariant.                                   *)
LEMMA Parts ==
  TypeOK <=> /\ BufferTypes /\ ChildTypes /\ CallTypes /\ HistoryTypes
             /\ pc \in {"open", "closed", "aborted"}
<1>1. length \in Int => (offset \in 0..Larger(length, 0) <=>
                         offset \in Nat /\ (offset <= length \/ offset = 0))
  BY DEF Larger
<1> QED BY <1>1, Zenon DEF TypeOK, BufferTypes, ChildTypes, CallTypes, HistoryTypes

(* The invariant, from what a step that does not fault does to its parts.  *)
LEMMA Assemble ==
  ASSUME BufferTypes', ChildTypes', CallTypes', HistoryTypes',
         pc' \in {"open", "closed"}, MemoryInv', ContentInv', CallInv'
  PROVE  PeekInv'
<1>1. offset' \in 0..Larger(length', 0)
  BY DEF BufferTypes, Larger
<1>2. TypeOK'
  BY <1>1, Zenon
  DEF TypeOK, BufferTypes, ChildTypes, CallTypes, HistoryTypes
<1>3. BufferEmptyBeforeRefill'
  BY Zenon DEF BufferEmptyBeforeRefill, MemoryInv
<1> QED BY <1>2, <1>3, Zenon DEF PeekInv

(* What the end of peek_read leaves of a buffer that is there.             *)
LEMMA ReleaseFacts ==
  ASSUME NEW d \in Seq(Nat), NEW o \in 0..Len(d), ReleaseIfDrained("ok", d, o)
  PROVE  /\ buffer' \in {"null", "ok"} /\ data' \in Seq(Nat)
         /\ length' \in Nat /\ offset' \in Nat /\ offset' <= length'
         /\ length' - offset' = Len(d) - o
         /\ buffer' = "ok" => data' = d /\ length' = Len(d) /\ offset' = o
         /\ buffer' = "null" => data' = <<>> /\ length' = 0 /\ offset' = 0
<1>1. "ok" # "null" /\ <<>> \in Seq(Nat)
  OBVIOUS
<1>2. CASE o >= Len(d)
  <2>1. buffer' = "null" /\ data' = <<>> /\ length' = 0 /\ offset' = 0
    BY <1>1, <1>2 DEF ReleaseIfDrained
  <2>2. Len(d) - o = 0
    BY <1>2
  <2> QED BY <1>1, <2>1, <2>2
<1>3. CASE ~(o >= Len(d))
  <2>1. buffer' = "ok" /\ data' = d /\ length' = Len(d) /\ offset' = o
    BY <1>1, <1>3, Zenon DEF ReleaseIfDrained
  <2> QED BY <1>1, <1>3, <2>1
<1> QED BY <1>2, <1>3

(* If the buffer held the bytes at the read offset, it still does.         *)
LEMMA ReleaseContent ==
  ASSUME NEW d \in Seq(Nat), NEW o \in 0..Len(d), ReleaseIfDrained("ok", d, o),
         cleanSeeks' =>
           /\ childPos' = position' + (Len(d) - o)
           /\ \A i \in o + 1 .. Len(d) : d[i] = position' + (i - o)
  PROVE  MemoryInv' /\ ContentInv'
<1>1. MemoryInv'
  BY ReleaseFacts DEF MemoryInv
<1>2. ContentInv'
  BY ReleaseFacts DEF ContentInv, Buffered
<1> QED BY <1>1, <1>2

(* Of a call that leaves the buffer and the child alone.                   *)
LEMMA SameBuffer ==
  ASSUME PeekInv, UNCHANGED <<buf, child, history>>, position' = position
  PROVE  BufferTypes' /\ ChildTypes' /\ HistoryTypes' /\ MemoryInv' /\ ContentInv'
<1>1. /\ buffer' = buffer /\ data' = data /\ length' = length /\ offset' = offset
      /\ childPos' = childPos /\ childFailed' = childFailed
      /\ cleanSeeks' = cleanSeeks /\ noMemory' = noMemory
  BY Zenon DEF buf, child, history
<1>2. BufferTypes /\ ChildTypes /\ HistoryTypes /\ MemoryInv /\ ContentInv
  BY Parts DEF PeekInv
<1>3. BufferTypes' /\ ChildTypes' /\ HistoryTypes'
  BY <1>1, <1>2, Zenon DEF BufferTypes, ChildTypes, HistoryTypes
<1>4. MemoryInv' /\ ContentInv'
  BY <1>1, <1>2, Zenon DEF MemoryInv, ContentInv, Buffered
<1> QED BY <1>3, <1>4
-----------------------------------------------------------------------------
(* peek_read *)

(* The error of an earlier read is reported again.                         *)
LEMMA ReadErrorInv ==
  ASSUME PeekInv, NEW n \in Nat, ReadError(n)
  PROVE  PeekInv'
<1>1. <<>> \in Seq(Nat) /\ Len(<<>>) = 0 /\ TypeOK
  BY DEF PeekInv
<1>2. /\ length = -1 /\ pc = "open" /\ pc' = pc
      /\ op' = "read" /\ asked' = n /\ ret' = -1 /\ got' = <<>> /\ from' = position
      /\ position' = position
  BY <1>1, Types DEF ReadError, Returns
<1>3. BufferTypes' /\ ChildTypes' /\ HistoryTypes' /\ MemoryInv' /\ ContentInv'
  BY <1>2, SameBuffer DEF ReadError
<1>4. CallInv'
  <2>1. <<>> = Bytes(from', 0)
    BY DEF Bytes
  <2>2. childFailed'
    BY <1>2 DEF PeekInv, MemoryInv, child, ReadError
  <2> QED BY <1>1, <1>2, <2>1, <2>2, CallStep
<1>5. CallTypes'
  BY <1>1, <1>2, Types DEF CallTypes
<1> QED BY <1>2, <1>3, <1>4, <1>5, Assemble

(* A read that the buffer serves.                                          *)
LEMMA ReadBufferedInv ==
  ASSUME PeekInv, NEW n \in Nat, ReadBuffered(n)
  PROVE  PeekInv'
<1>1. TypeOK /\ length >= 0 /\ FromBuffer(n) = n /\ pc = "open" /\ pc' = pc
  BY DEF PeekInv, ReadBuffered
<1>2. n > 0 => buffer = "ok" /\ n <= Buffered
  <2>1. n > 0 => n <= Buffered /\ buffer # "null" /\ length > 0
    BY <1>1, BufferPart, Types DEF FromBuffer
  <2> QED BY <2>1, Types DEF ReadBuffered, Sound
<1> DEFINE s == Memory(offset, n)
<1>3. s \in Seq(Nat) /\ Len(s) = n /\ (cleanSeeks => s = Bytes(position, n))
  BY <1>1, <1>2, MemoryPart
<1> HIDE DEF s
<1>4. /\ op' = "read" /\ asked' = n /\ ret' = n /\ got' = s /\ from' = position
      /\ position' = position + n
      /\ UNCHANGED <<child, history>>
  BY <1>3 DEF ReadBuffered, Returns, s
<1>5. CallInv'
  BY <1>3, <1>4, CallStep DEF history
<1>6. CallTypes'
  BY <1>1, <1>3, <1>4, Types DEF CallTypes
<1>7. BufferTypes' /\ ChildTypes' /\ HistoryTypes' /\ MemoryInv' /\ ContentInv'
  <2>1. CASE buffer = "ok"
    <3>1. ReleaseIfDrained("ok", data, offset + n)
      BY <2>1 DEF ReadBuffered, Sound
    <3>2. data \in Seq(Nat) /\ Len(data) = length /\ offset + n \in 0..Len(data)
      BY <1>1, <1>2, <2>1, Types DEF TypeOK, Buffered
    <3>3. cleanSeeks' =>
            /\ childPos' = position' + (Len(data) - (offset + n))
            /\ \A i \in (offset + n) + 1 .. Len(data) :
                 data[i] = position' + (i - (offset + n))
      <4> SUFFICES ASSUME cleanSeeks'
                   PROVE  /\ childPos' = position' + (Len(data) - (offset + n))
                          /\ \A i \in (offset + n) + 1 .. Len(data) :
                               data[i] = position' + (i - (offset + n))
        OBVIOUS
      <4>1. childPos = position + (length - offset)
        BY <1>1, <1>4, <2>1 DEF PeekInv, ContentInv, Buffered, history
      <4>2. \A i \in offset + 1 .. length : data[i] = position + (i - offset)
        BY <1>1, <1>4, <2>1 DEF PeekInv, ContentInv, history
      <4>3. childPos' = position' + (Len(data) - (offset + n))
        <5>1. length \in Int /\ offset \in Nat /\ position \in Nat
          BY <1>1, Types
        <5>2. childPos' = childPos /\ Len(data) = length
          BY <1>4, <3>2 DEF child
        <5>3. (position + n) + (length - (offset + n)) = position + (length - offset)
          BY <5>1
        <5> QED BY <1>4, <4>1, <5>2, <5>3, Zenon
      <4>4. ASSUME NEW i \in (offset + n) + 1 .. Len(data)
            PROVE  data[i] = position' + (i - (offset + n))
        <5>1. i \in offset + 1 .. length /\ i \in Int
          BY <1>1, <3>2, Types
        <5>2. position' + (i - (offset + n)) = position + (i - offset)
          BY <1>1, <1>4, <5>1, Types
        <5> QED BY <4>2, <5>1, <5>2
      <4> QED BY <4>3, <4>4
    <3>4. MemoryInv' /\ ContentInv'
      BY <3>1, <3>2, <3>3, ReleaseContent, Zenon
    <3>5. BufferTypes'
      BY <3>1, <3>2, ReleaseFacts DEF BufferTypes
    <3>6. ChildTypes' /\ HistoryTypes'
      <4>1. position' \in Nat
        BY <1>1, <1>4, Types
      <4>2. ChildTypes /\ HistoryTypes
        BY <1>1, Parts
      <4> QED BY <1>4, <4>1, <4>2, Zenon DEF ChildTypes, HistoryTypes, child, history
    <3> QED BY <3>4, <3>5, <3>6
  <2>2. CASE buffer # "ok"
    <3>1. n = 0 /\ position' = position
      BY <1>1, <1>2, <1>4, <2>2, Types
    <3>2. UNCHANGED buf
      <4>1. CASE Sound
        <5>1. length = 0 /\ buffer = "null" /\ offset = 0
          BY <1>1, <2>2, <4>1, Types DEF Sound, PeekInv, MemoryInv, TypeOK
        <5>2. ReleaseIfDrained("null", data, offset + n) /\ offset + n = offset
          BY <3>1, <4>1, <5>1 DEF ReadBuffered
        <5> QED BY <5>1, <5>2, Zenon DEF ReleaseIfDrained, buf
      <4>2. CASE ~Sound
        BY <4>2 DEF ReadBuffered
      <4> QED BY <4>1, <4>2
    <3> QED BY <1>4, <3>1, <3>2, SameBuffer
  <2> QED BY <2>1, <2>2
<1> QED BY <1>1, <1>5, <1>6, <1>7, Assemble

(* A fault changes nothing else, and comes after a failed allocation or a  *)
(* failed refill.                                                          *)
LEMMA Fault ==
  ASSUME PeekInv, UNCHANGED <<buf, child, call, position, history>>,
         pc' = "aborted", length >= 0 => noMemory
  PROVE  PeekInv'
<1>1. /\ buffer' = buffer /\ data' = data /\ length' = length /\ offset' = offset
      /\ childPos' = childPos /\ childFailed' = childFailed
      /\ op' = op /\ asked' = asked /\ ret' = ret /\ got' = got /\ from' = from
      /\ position' = position /\ cleanSeeks' = cleanSeeks /\ noMemory' = noMemory
  BY Zenon DEF buf, child, call, history
<1>2. TypeOK'
  BY <1>1, Zenon DEF PeekInv, TypeOK, Larger
<1>3. MemoryInv' /\ ContentInv' /\ CallInv'
  BY <1>1, Zenon
  DEF PeekInv, MemoryInv, ContentInv, CallInv, ResultTellsTheTruth, Buffered
<1>4. BufferEmptyBeforeRefill'
  BY <1>1, Zenon DEF BufferEmptyBeforeRefill
<1> QED BY <1>2, <1>3, <1>4, Zenon DEF PeekInv

(* Neither the assertion fails nor is freed memory used before an          *)
(* allocation has failed.                                                  *)
LEMMA ReadFaultsInv ==
  ASSUME PeekInv, NEW n \in Nat, ReadFaults(n)
  PROVE  PeekInv'
<1>1. TypeOK /\ length >= 0
  BY DEF ReadFaults, PeekInv
<1>2. noMemory
  <2>1. CASE buffer = "freed"
    BY <2>1 DEF PeekInv, MemoryInv
  <2>2. CASE buffer # "freed"
    <3>1. FromBuffer(n) < n /\ length # offset + FromBuffer(n)
      BY <2>2 DEF ReadFaults, NeedsChild
    <3>2. buffer # "ok"
      BY <1>1, <3>1, Types DEF FromBuffer, Smaller, Buffered
    <3>3. length # 0
      BY <1>1, <3>1, Types DEF FromBuffer
    <3> QED BY <1>1, <2>2, <3>2, <3>3 DEF PeekInv, MemoryInv, TypeOK
  <2> QED BY <2>1, <2>2
<1> QED BY <1>2, Fault DEF ReadFaults

(* A read that goes on to the child has taken what the buffer had, and the *)
(* child is where that ends.                                               *)
LEMMA Drained ==
  ASSUME PeekInv, NEW n \in Nat, NeedsChild(n), length = offset + FromBuffer(n)
  PROVE  /\ FromBuffer(n) \in Nat /\ FromBuffer(n) < n /\ TypeOK /\ pc = "open"
         /\ buffer \in {"null", "ok"} /\ length >= 0 /\ Buffered = FromBuffer(n)
         /\ Memory(offset, FromBuffer(n)) \in Seq(Nat)
         /\ Len(Memory(offset, FromBuffer(n))) = FromBuffer(n)
         /\ cleanSeeks => /\ Memory(offset, FromBuffer(n)) = Bytes(position, FromBuffer(n))
                          /\ childPos = position + FromBuffer(n)
<1> DEFINE k == FromBuffer(n)
<1>1. TypeOK /\ pc = "open" /\ length >= 0 /\ buffer \in {"null", "ok"} /\ k < n
  BY DEF PeekInv, NeedsChild, TypeOK
<1>2. k \in Nat /\ (k > 0 => buffer = "ok" /\ k <= Buffered) /\ Buffered = k
  <2>1. k \in 0..n /\ (buffer = "null" => k = 0) /\ (k > 0 => k <= Buffered)
    BY <1>1, BufferPart, Zenon
  <2> HIDE DEF k
  <2>2. length = offset + k /\ length \in Int /\ offset \in Nat
    BY <1>1, Types DEF k
  <2>3. k \in Nat /\ length - offset = k
    BY <2>1, <2>2
  <2> QED BY <1>1, <2>1, <2>3 DEF Buffered
<1>3. cleanSeeks => childPos = position + k
  <2>1. buffer = "ok" \/ (buffer = "null" /\ length = offset)
    BY <1>1, BufferPart, Types
  <2> QED BY <1>1, <1>2, <2>1 DEF PeekInv, ContentInv
<1> HIDE DEF k
<1>4. /\ Memory(offset, k) \in Seq(Nat) /\ Len(Memory(offset, k)) = k
      /\ cleanSeeks => Memory(offset, k) = Bytes(position, k)
  BY <1>1, <1>2, MemoryPart
<1> QED BY <1>1, <1>2, <1>3, <1>4 DEF k

(* What was buffered and what the child gave, one after the other.         *)
LEMMA BufferedAndRead ==
  ASSUME NEW s \in Seq(Nat), NEW c \in Nat, NEW m \in Nat
  PROVE  s \o Bytes(c, m) \in Seq(Nat) /\ Len(s \o Bytes(c, m)) = Len(s) + m
<1> DEFINE t == Bytes(c, m)
<1>1. t \in Seq(Nat) /\ Len(t) = m
  BY BytesFacts
<1> HIDE DEF t
<1>2. s \o t \in Seq(Nat) /\ Len(s \o t) = Len(s) + m
  BY <1>1, ConcatFacts
<1> QED BY <1>2 DEF t

(* The types of the history after a read of k bytes.                       *)
LEMMA ReadHistory ==
  ASSUME TypeOK, NEW k \in Nat, position' = position + k, UNCHANGED history
  PROVE  HistoryTypes'
<1>1. position' \in Nat
  BY Types
<1>2. HistoryTypes
  BY Parts
<1> QED BY <1>1, <1>2, Zenon DEF HistoryTypes, history

(* The child's answer is a read of its own; the buffer was only drained.   *)
LEMMA ReadDirectInv ==
  ASSUME PeekInv, NEW n \in Nat, ReadDirect(n)
  PROVE  PeekInv'
<1> DEFINE k == FromBuffer(n)
           s == Memory(offset, k)
<1>1. /\ k \in Nat /\ k < n /\ TypeOK /\ pc = "open" /\ pc' = "open"
      /\ buffer \in {"null", "ok"} /\ length >= 0 /\ length = offset + k
  BY Drained DEF ReadDirect
<1>2. s \in Seq(Nat) /\ Len(s) = k
  BY Drained DEF ReadDirect
<1>3. cleanSeeks => s = Bytes(position, k) /\ childPos = position + k
  BY Drained DEF ReadDirect
<1>4. PICK r \in stdio_read(n - k) :
        /\ ChildAfter(r)
        /\ IF r < 1
           THEN /\ Returns(n, EndResult(k, r), s)
                /\ offset' = offset + k
                /\ UNCHANGED <<buffer, data, length>>
           ELSE /\ Returns(n, k + r, s \o Bytes(childPos, r))
                /\ ReleaseIfDrained(buffer, data, offset + k)
  BY DEF ReadDirect
<1>5. UNCHANGED history
  BY DEF ReadDirect
<1> HIDE DEF k, s
<1>6. n - k \in Int
  BY <1>1
<1>7. /\ r \in Int /\ r >= -1
      /\ r > 0 => childPos' = childPos + r
      /\ r < 1 => childPos' = childPos
      /\ r = 0 => childPos = FileSize
      /\ r > 0 => r <= n - k
      /\ r < 0 => childFailed'
      /\ ChildTypes'
  BY <1>1, <1>4, <1>6, ChildRead DEF ChildTypes
<1>8. CASE r < 1
  <2>1. /\ op' = "read" /\ asked' = n /\ ret' = EndResult(k, r) /\ got' = s
        /\ from' = position /\ position' = position + k
        /\ offset' = length /\ buffer' = buffer /\ data' = data /\ length' = length
    BY <1>1, <1>2, <1>4, <1>8 DEF Returns
  <2>2. HistoryTypes'
    BY <1>1, <1>5, <2>1, ReadHistory
  <2>3. BufferTypes'
    BY <1>1, <2>1, Types DEF BufferTypes, TypeOK
  <2>4. CallTypes'
    <3>1. EndResult(k, r) \in Int
      BY <1>1, <1>7 DEF EndResult
    <3> QED BY <1>1, <1>2, <2>1, <3>1, Types DEF CallTypes
  <2>5. MemoryInv'
    <3>1. ~(length' < 0)
      BY <1>1, <2>1, Types
    <3> QED BY <1>5, <2>1, <3>1, Zenon DEF PeekInv, MemoryInv, history
  <2>6. ContentInv'
    <3>1. cleanSeeks' => childPos' = position' + (length' - offset')
      BY <1>1, <1>3, <1>5, <1>7, <1>8, <2>1, Types DEF history
    <3>2. \A i \in offset' + 1 .. length' : FALSE
      BY <1>1, <2>1, Types
    <3> QED BY <3>1, <3>2 DEF ContentInv, Buffered
  <2>7. CallInv'
    <3>1. /\ EndResult(k, r) >= 0 => EndResult(k, r) = k
          /\ EndResult(k, r) = 0 => r = 0
          /\ EndResult(k, r) < 0 => r < 0
      BY <1>1, <1>7, <1>8 DEF EndResult
    <3>2. length' - offset' <= 0 /\ length' >= 0
      BY <1>1, <2>1, Types
    <3> QED BY <1>1, <1>2, <1>3, <1>5, <1>7, <1>8, <2>1, <3>1, <3>2, CallStep DEF history
  <2> QED BY <1>1, <1>7, <2>2, <2>3, <2>4, <2>5, <2>6, <2>7, Assemble
<1>9. CASE r >= 1
  <2> DEFINE t == s \o Bytes(childPos, r)
  <2>1. /\ t \in Seq(Nat) /\ Len(t) = k + r
        /\ cleanSeeks => t = Bytes(position, k + r)
    <3>1. r \in Nat /\ childPos \in Nat /\ position \in Nat
      BY <1>1, <1>7, <1>9, Types
    <3>2. t \in Seq(Nat) /\ Len(t) = k + r
      BY <1>2, <3>1, BufferedAndRead, Zenon
    <3>3. Bytes(position, k) \o Bytes(position + k, r) = Bytes(position, k + r)
      BY <1>1, <3>1, BytesAppend, Zenon
    <3> QED BY <1>3, <3>2, <3>3, Zenon
  <2> HIDE DEF t
  <2>2. /\ op' = "read" /\ asked' = n /\ ret' = k + r /\ got' = t
        /\ from' = position /\ position' = position + (k + r)
        /\ ReleaseIfDrained(buffer, data, offset + k)
    <3>1. ~(r < 1)
      BY <1>7, <1>9
    <3>2. Returns(n, k + r, t) /\ ReleaseIfDrained(buffer, data, offset + k)
      BY <1>4, <3>1, Zenon DEF t
    <3> QED BY <2>1, <3>2, Zenon DEF Returns
  <2>3. k + r \in Nat /\ k + r <= n /\ k + r > 0
    BY <1>1, <1>7, <1>9
  <2>4. HistoryTypes'
    BY <1>1, <1>5, <2>2, <2>3, ReadHistory
  <2>5. CallTypes'
    BY <1>1, <2>1, <2>2, <2>3, Types DEF CallTypes
  <2>6. CallInv'
    BY <1>1, <1>5, <2>1, <2>2, <2>3, CallStep DEF history
  <2>7. cleanSeeks' => childPos' = position' + 0
    <3>1. childPos' = childPos + r /\ childPos \in Nat /\ position \in Nat
      BY <1>1, <1>7, <1>9, Types
    <3>2. (position + k) + r = (position + (k + r)) + 0
      BY <1>1, <1>7, <3>1
    <3> QED BY <1>3, <1>5, <2>2, <3>1, <3>2, Zenon DEF history
  <2>8. BufferTypes' /\ MemoryInv' /\ ContentInv'
    <3>1. CASE buffer = "ok"
      <4>1. data \in Seq(Nat) /\ offset + k = Len(data) /\ offset + k \in 0..Len(data)
        BY <1>1, <3>1, Types DEF TypeOK
      <4>2. Len(data) - (offset + k) = 0 /\ \A i \in (offset + k) + 1 .. Len(data) : FALSE
        BY <1>1, <4>1, Types
      <4>3. MemoryInv' /\ ContentInv'
        BY <2>2, <2>7, <3>1, <4>1, <4>2, ReleaseContent, Zenon
      <4>4. BufferTypes'
        BY <2>2, <3>1, <4>1, ReleaseFacts DEF BufferTypes
      <4> QED BY <4>3, <4>4
    <3>2. CASE buffer = "null"
      <4>1. k = 0 /\ offset + k = length /\ offset = length
        BY <1>1, <3>2, BufferPart, Types DEF k
      <4>2. buffer' = buffer /\ data' = data /\ length' = length /\ offset' = offset
        BY <3>2, <2>2, <4>1, Zenon DEF ReleaseIfDrained
      <4>3. BufferTypes'
        BY <1>1, <4>2, Parts, Zenon DEF BufferTypes
      <4>4. MemoryInv'
        BY <1>1, <1>5, <3>2, <4>2, Types DEF PeekInv, MemoryInv, history
      <4>5. ContentInv'
        BY <2>7, <3>2, <4>1, <4>2, <1>1, Types DEF ContentInv, Buffered
      <4> QED BY <4>3, <4>4, <4>5
    <3> QED BY <1>1, <3>1, <3>2
  <2> QED BY <1>1, <1>7, <2>4, <2>5, <2>6, <2>8, Assemble
<1> QED BY <1>7, <1>8, <1>9

(* A refill replaces the buffer by what the child gave.                    *)
LEMMA ReadRefillInv ==
  ASSUME PeekInv, NEW n \in Nat, ReadRefill(n)
  PROVE  PeekInv'
<1> DEFINE k == FromBuffer(n)
           s == Memory(offset, k)
<1>1. k \in Nat /\ k < n /\ TypeOK /\ pc = "open" /\ pc' = "open"
  BY Drained DEF ReadRefill
<1>2. s \in Seq(Nat) /\ Len(s) = k
  BY Drained DEF ReadRefill
<1>3. cleanSeeks => s = Bytes(position, k) /\ childPos = position + k
  BY Drained DEF ReadRefill
<1>4. PICK r \in stdio_read(RefillSize(n - k)) :
        /\ ChildAfter(r)
        /\ IF r < 1
           THEN /\ Returns(n, EndResult(k, r), s)
                /\ buffer' = "ok" /\ data' = <<>> /\ length' = r /\ offset' = 0
           ELSE LET m == Smaller(n - k, r)
                IN  /\ Returns(n, k + m, s \o Bytes(childPos, m))
                    /\ ReleaseIfDrained("ok", Bytes(childPos, r), m)
  BY DEF ReadRefill
<1>5. UNCHANGED history
  BY DEF ReadRefill
<1> HIDE DEF k, s
<1>6. RefillSize(n - k) \in Int
  <2>1. n - k \in Nat
    BY <1>1
  <2> QED BY <1>1, <2>1, RefillReads
<1>7. /\ r \in Int /\ r >= -1
      /\ r > 0 => childPos' = childPos + r
      /\ r < 1 => childPos' = childPos
      /\ r = 0 => childPos = FileSize
      /\ r < 0 => childFailed'
      /\ ChildTypes'
  BY <1>1, <1>4, <1>6, ChildRead DEF ChildTypes
<1>8. CASE r < 1
  <2>1. /\ op' = "read" /\ asked' = n /\ ret' = EndResult(k, r) /\ got' = s
        /\ from' = position /\ position' = position + k
        /\ buffer' = "ok" /\ data' = <<>> /\ length' = r /\ offset' = 0
    BY <1>2, <1>4, <1>8 DEF Returns
  <2>2. HistoryTypes'
    BY <1>1, <1>5, <2>1, ReadHistory
  <2>3. BufferTypes'
    BY <1>7, <1>8, <2>1 DEF BufferTypes
  <2>4. CallTypes'
    <3>1. EndResult(k, r) \in Int
      BY <1>1, <1>7 DEF EndResult
    <3> QED BY <1>1, <1>2, <2>1, <3>1, Types DEF CallTypes
  <2>5. MemoryInv'
    BY <1>7, <2>1 DEF MemoryInv
  <2>6. ContentInv'
    <3>1. cleanSeeks' /\ length' >= 0 => childPos' = position' + (length' - offset')
      BY <1>1, <1>3, <1>5, <1>7, <1>8, <2>1, Types DEF history
    <3>2. \A i \in offset' + 1 .. length' : FALSE
      BY <1>7, <1>8, <2>1
    <3> QED BY <3>1, <3>2 DEF ContentInv, Buffered
  <2>7. CallInv'
    <3>1. /\ EndResult(k, r) >= 0 => EndResult(k, r) = k
          /\ EndResult(k, r) = 0 => r = 0
          /\ EndResult(k, r) < 0 => r < 0
      BY <1>1, <1>7, <1>8 DEF EndResult
    <3>2. length' - offset' <= 0
      BY <1>7, <1>8, <2>1
    <3> QED BY <1>1, <1>2, <1>3, <1>5, <1>7, <1>8, <2>1, <3>1, <3>2, CallStep DEF history
  <2> QED BY <1>1, <1>7, <2>2, <2>3, <2>4, <2>5, <2>6, <2>7, Assemble
<1>9. CASE r >= 1
  <2> DEFINE m == Smaller(n - k, r)
             t == s \o Bytes(childPos, m)
             d == Bytes(childPos, r)
  <2>1. r \in Nat /\ childPos \in Nat /\ position \in Nat /\ ~(r < 1)
    BY <1>1, <1>7, <1>9, Types
  <2>2. m \in 1..r /\ m \in Nat /\ k + m \in Nat /\ k + m <= n /\ k + m > 0
    BY <1>1, <2>1 DEF Smaller
  <2>3. Returns(n, k + m, t) /\ ReleaseIfDrained("ok", d, m)
    BY <1>4, <2>1, Zenon
  <2> HIDE DEF m
  <2>4. /\ t \in Seq(Nat) /\ Len(t) = k + m
        /\ cleanSeeks => t = Bytes(position, k + m)
    <3>1. t \in Seq(Nat) /\ Len(t) = k + m
      BY <1>2, <2>1, <2>2, BufferedAndRead, Zenon
    <3>2. Bytes(position, k) \o Bytes(position + k, m) = Bytes(position, k + m)
      BY <1>1, <2>1, <2>2, BytesAppend, Zenon
    <3> QED BY <1>3, <3>1, <3>2, Zenon
  <2>5. d \in Seq(Nat) /\ Len(d) = r /\ \A i \in 1..r : d[i] = childPos + i
    BY <2>1, BytesFacts, Zenon
  <2> HIDE DEF t, d
  <2>6. m \in 0..Len(d)
    BY <2>2, <2>5
  <2>7. /\ op' = "read" /\ asked' = n /\ ret' = k + m /\ got' = t
        /\ from' = position /\ position' = position + (k + m)
    BY <2>3, <2>4, Zenon DEF Returns
  <2>8. HistoryTypes'
    BY <1>1, <1>5, <2>2, <2>7, ReadHistory
  <2>9. CallTypes'
    BY <2>1, <2>2, <2>4, <2>7 DEF CallTypes
  <2>10. CallInv'
    BY <1>5, <2>2, <2>4, <2>7, CallStep DEF history
  <2>11. BufferTypes'
    BY <2>3, <2>5, <2>6, ReleaseFacts DEF BufferTypes
  <2>12. cleanSeeks' =>
           /\ childPos' = position' + (Len(d) - m)
           /\ \A i \in m + 1 .. Len(d) : d[i] = position' + (i - m)
    <3> SUFFICES ASSUME cleanSeeks
                 PROVE  /\ childPos' = position' + (Len(d) - m)
                        /\ \A i \in m + 1 .. Len(d) : d[i] = position' + (i - m)
      BY <1>5 DEF history
    <3>1. childPos' = childPos + r /\ childPos = position + k
      BY <1>3, <1>7, <1>9
    <3>2. childPos' = position' + (Len(d) - m)
      <4>1. (position + k) + r = (position + (k + m)) + (r - m)
        BY <1>1, <2>1, <2>2
      <4> QED BY <2>5, <2>7, <3>1, <4>1, Zenon
    <3>3. ASSUME NEW i \in m + 1 .. Len(d)
          PROVE  d[i] = position' + (i - m)
      <4>1. i \in 1..r /\ i \in Int
        BY <2>1, <2>2, <2>5
      <4>2. (position + k) + i = (position + (k + m)) + (i - m)
        BY <1>1, <2>1, <2>2, <4>1
      <4> QED BY <2>5, <2>7, <3>1, <4>1, <4>2, Zenon
    <3> QED BY <3>2, <3>3
  <2>13. MemoryInv' /\ ContentInv'
    BY <2>3, <2>5, <2>6, <2>12, ReleaseContent, Zenon
  <2> QED BY <1>1, <1>7, <2>8, <2>9, <2>10, <2>11, <2>13, Assemble
<1> QED BY <1>7, <1>8, <1>9

(* A refill without memory still hands out what was buffered.              *)
LEMMA ReadRefillNoMemoryInv ==
  ASSUME PeekInv, NEW n \in Nat, ReadRefillNoMemory(n)
  PROVE  PeekInv'
<1> DEFINE k == FromBuffer(n)
           s == Memory(offset, k)
           z == RefillSize(n - k)
<1>1. k \in Nat /\ k < n /\ TypeOK /\ pc = "open" /\ pc' = "open"
  BY Drained DEF ReadRefillNoMemory
<1>2. s \in Seq(Nat) /\ Len(s) = k /\ (cleanSeeks => s = Bytes(position, k))
  BY Drained DEF ReadRefillNoMemory
<1>3. /\ Returns(n, EndResult(k, -1), s)
      /\ length' = z /\ offset' = 0
      /\ buffer' = IF buffer = "null" THEN "null" ELSE "freed"
      /\ data' = <<>> /\ noMemory' = TRUE /\ cleanSeeks' = cleanSeeks
      /\ childPos' = childPos /\ childFailed' = childFailed
  BY DEF ReadRefillNoMemory, child
<1> HIDE DEF k, s
<1>4. z \in Nat \ {0}
  <2>1. n - k \in Nat
    BY <1>1
  <2> QED BY <1>1, <2>1, RefillReads, Zenon
<1> HIDE DEF z
<1>5. /\ op' = "read" /\ asked' = n /\ ret' = EndResult(k, -1) /\ got' = s
      /\ from' = position /\ position' = position + k
  BY <1>2, <1>3 DEF Returns
<1>6. BufferTypes'
  BY <1>3, <1>4 DEF BufferTypes
<1>7. ChildTypes'
  BY <1>1, <1>3, Parts, Zenon DEF ChildTypes
<1>8. HistoryTypes'
  <2>1. position' \in Nat
    BY <1>1, <1>5, Types
  <2> QED BY <1>1, <1>3, <2>1, Parts, Zenon DEF HistoryTypes
<1>9. CallTypes'
  <2>1. EndResult(k, -1) \in Int
    BY <1>1 DEF EndResult
  <2> QED BY <1>1, <1>2, <1>5, <2>1, Types DEF CallTypes
<1>10. MemoryInv' /\ ContentInv'
  BY <1>3, <1>4 DEF MemoryInv, ContentInv
<1>11. CallInv'
  BY <1>1, <1>2, <1>3, <1>5, CallStep
<1> QED BY <1>1, <1>6, <1>7, <1>8, <1>9, <1>10, <1>11, Assemble
-----------------------------------------------------------------------------
(* peek_peek *)

(* A peek at what is buffered.                                             *)
LEMMA PeekBufferedInv ==
  ASSUME PeekInv, NEW n \in Nat, PeekBuffered(n)
  PROVE  PeekInv'
<1>1. TypeOK /\ pc = "open" /\ pc' = "open" /\ n <= Buffered
  BY Types DEF PeekInv, PeekBuffered, MustExtend
<1>2. n > 0 => buffer = "ok" /\ length >= 0 /\ n <= Buffered
  BY <1>1, Types DEF PeekBuffered, Sound, Buffered
<1> DEFINE s == Memory(offset, n)
<1>3. s \in Seq(Nat) /\ Len(s) = n /\ (cleanSeeks => s = Bytes(position, n))
  BY <1>2, MemoryPart
<1> HIDE DEF s
<1>4. /\ op' = "peek" /\ asked' = n /\ ret' = n /\ got' = s /\ from' = position
      /\ position' = position
      /\ UNCHANGED <<buf, child, history>>
  BY DEF PeekBuffered, Peeks, s
<1>5. BufferTypes' /\ ChildTypes' /\ HistoryTypes' /\ MemoryInv' /\ ContentInv'
  BY <1>4, SameBuffer
<1>6. CallInv'
  BY <1>3, <1>4, CallStep DEF history
<1>7. CallTypes'
  BY <1>1, <1>3, <1>4, Types DEF CallTypes
<1> QED BY <1>1, <1>5, <1>6, <1>7, Assemble

(* What the buffer holds when there is memory for what it says.            *)
LEMMA SoundBuffer ==
  ASSUME PeekInv, Sound
  PROVE  /\ buffer \in {"null", "ok"} /\ (buffer = "null" => length = 0 /\ offset = 0)
         /\ length >= 0 =>
              /\ Len(data) = length
              /\ cleanSeeks =>
                   /\ childPos = position + Buffered
                   /\ \A i \in offset + 1 .. length : data[i] = position + (i - offset)
<1>1. TypeOK
  BY DEF PeekInv
<1>2. /\ buffer \in {"null", "ok"}
      /\ buffer = "null" => length = 0 /\ offset = 0 /\ data = <<>>
  BY <1>1, Types DEF Sound, PeekInv, MemoryInv, TypeOK
<1>3. length >= 0 => Len(data) = length
  BY <1>1, <1>2 DEF TypeOK
<1>4. length >= 0 /\ cleanSeeks => childPos = position + Buffered
  BY <1>2 DEF PeekInv, ContentInv
<1>5. length >= 0 /\ cleanSeeks =>
        \A i \in offset + 1 .. length : data[i] = position + (i - offset)
  BY <1>2 DEF PeekInv, ContentInv
<1> QED BY <1>2, <1>3, <1>4, <1>5

(* What the child gave, behind what is there, continues it.                *)
LEMMA ExtendedContent ==
  ASSUME NEW d \in Seq(Nat), NEW o \in 0..Len(d), NEW r \in Nat, NEW p \in Nat,
         \A i \in o + 1 .. Len(d) : d[i] = p + (i - o)
  PROVE  \A i \in o + 1 .. Len(d) + r :
           (d \o Bytes(p + (Len(d) - o), r))[i] = p + (i - o)
<1> DEFINE c == p + (Len(d) - o)
           t == Bytes(c, r)
<1>1. t \in Seq(Nat) /\ Len(t) = r /\ \A i \in 1..r : t[i] = c + i
  <2>1. c \in Nat
    OBVIOUS
  <2> HIDE DEF c
  <2> QED BY <2>1, BytesFacts
<1> HIDE DEF t
<1>2. ASSUME NEW i \in o + 1 .. Len(d) + r
      PROVE  (d \o t)[i] = p + (i - o)
  <2>1. CASE i <= Len(d)
    <3>1. (d \o t)[i] = d[i] /\ i \in o + 1 .. Len(d)
      BY <1>1, <2>1
    <3> QED BY <3>1
  <2>2. CASE i > Len(d)
    <3>1. (d \o t)[i] = t[i - Len(d)] /\ i - Len(d) \in 1..r
      BY <1>1, <2>2
    <3>2. c + (i - Len(d)) = p + (i - o)
      OBVIOUS
    <3>3. t[i - Len(d)] = c + (i - Len(d))
      BY <1>1, <3>1, Zenon
    <3> QED BY <3>1, <3>2, <3>3, Zenon
  <2>3. i <= Len(d) \/ i > Len(d)
    OBVIOUS
  <2> QED BY <2>1, <2>2, <2>3, Zenon
<1> QED BY <1>2 DEF t

(* A peek that extends the buffer: what was there stays, what the child    *)
(* gave is behind it.                                                      *)
LEMMA PeekExtendInv ==
  ASSUME PeekInv, NEW n \in Nat, PeekExtend(n)
  PROVE  PeekInv'
<1>1. /\ TypeOK /\ pc = "open" /\ pc' = "open" /\ buffer' = "ok" /\ offset' = offset
      /\ Sound /\ Buffered < n
  BY DEF PeekInv, PeekExtend, MustExtend
<1>2. PICK r \in stdio_read(ExtendSize(n)) :
        /\ ChildAfter(r)
        /\ r < 0 \/ length >= 0
        /\ IF r < 0
           THEN Peeks(n, r, <<>>) /\ UNCHANGED <<data, length>>
           ELSE LET m == Smaller(n, Buffered + r)
                IN  /\ data' = Extended(r)
                    /\ length' = length + r
                    /\ Peeks(n, m, Copy(Extended(r), offset, m))
  BY DEF PeekExtend
<1>3. UNCHANGED history
  BY DEF PeekExtend
<1>4. ExtendSize(n) \in Int
  BY <1>1, ExtendReads
<1>5. /\ r \in Int /\ r >= -1
      /\ r > 0 => childPos' = childPos + r
      /\ r < 1 => childPos' = childPos
      /\ r = 0 => childPos = FileSize
      /\ r < 0 => childFailed'
      /\ ChildTypes'
  BY <1>1, <1>2, <1>4, ChildRead DEF ChildTypes
<1>6. position' = position /\ op' = "peek" /\ asked' = n /\ from' = position
  BY <1>2 DEF Peeks
<1>7. HistoryTypes'
  BY <1>1, <1>3, <1>6, Parts, Zenon DEF HistoryTypes, history
<1>8. CASE r < 0
  <2>1. ret' = r /\ got' = <<>> /\ data' = data /\ length' = length
    BY <1>2, <1>8 DEF Peeks
  <2>2. BufferTypes'
    <3>1. length >= 0 => Len(data) = length
      BY <1>1, SoundBuffer
    <3> QED BY <1>1, <2>1, <3>1, Parts DEF BufferTypes
  <2>3. CallTypes'
    BY <1>1, <1>5, <1>6, <2>1, Types DEF CallTypes
  <2>4. MemoryInv'
    BY <1>1, <1>5, <1>8, <2>1 DEF MemoryInv
  <2>5. ContentInv'
    <3>1. childPos' = childPos
      BY <1>5, <1>8
    <3> QED BY <1>1, <1>3, <1>6, <2>1, <3>1, SoundBuffer DEF ContentInv, Buffered, history
  <2>6. CallInv'
    <3>1. <<>> = Bytes(from', 0) /\ <<>> \in Seq(Nat) /\ Len(<<>>) = 0
      BY DEF Bytes
    <3> QED BY <1>5, <1>6, <1>8, <2>1, <3>1, CallStep
  <2> QED BY <1>1, <1>5, <1>7, <2>2, <2>3, <2>4, <2>5, <2>6, Assemble
<1>9. CASE r >= 0
  <2> DEFINE m == Smaller(n, Buffered + r)
             e == Extended(r)
             t == Copy(e, offset, m)
  <2>1. ~(r < 0) /\ length >= 0 /\ r \in Nat /\ childPos' = childPos + r
    <3>1. ~(r < 0) /\ r \in Nat
      BY <1>5, <1>9
    <3>2. childPos \in Nat
      BY <1>1, Types
    <3> QED BY <1>2, <1>5, <3>1, <3>2
  <2>2. data' = e /\ length' = length + r /\ ret' = m /\ got' = t
    BY <1>2, <2>1, Zenon DEF Peeks
  <2>3. /\ data \in Seq(Nat) /\ Len(data) = length /\ offset \in 0..Len(data)
        /\ childPos \in Nat /\ position \in Nat /\ length \in Nat /\ offset \in Nat
    BY <1>1, <2>1, Types, SoundBuffer
  <2>4. /\ e \in Seq(Nat) /\ Len(e) = length + r
        /\ cleanSeeks =>
             \A i \in offset + 1 .. length + r : e[i] = position + (i - offset)
    <3>1. /\ data \o Bytes(childPos, r) \in Seq(Nat)
          /\ Len(data \o Bytes(childPos, r)) = Len(data) + r
      BY <2>1, <2>3, BufferedAndRead, Zenon
    <3>2. cleanSeeks =>
            /\ childPos = position + (Len(data) - offset)
            /\ \A i \in offset + 1 .. Len(data) : data[i] = position + (i - offset)
      BY <1>1, <2>1, <2>3, SoundBuffer DEF Buffered
    <3>3. cleanSeeks => \A i \in offset + 1 .. Len(data) + r :
                          (data \o Bytes(childPos, r))[i] = position + (i - offset)
      <4>1. data \in Seq(Nat) /\ offset \in 0..Len(data)
        BY <2>3, Zenon
      <4>2. childPos \in Nat /\ r \in Nat /\ position \in Nat
        BY <2>1, <2>3, Zenon
      <4>3. ASSUME cleanSeeks
            PROVE  \A i \in offset + 1 .. Len(data) + r :
                     (data \o Bytes(childPos, r))[i] = position + (i - offset)
        <5>1. childPos = position + (Len(data) - offset)
          BY <3>2, <4>3, Zenon
        <5>2. \A i \in offset + 1 .. Len(data) : data[i] = position + (i - offset)
          BY <3>2, <4>3, Zenon
        <5>3. \A i \in offset + 1 .. Len(data) + r :
                (data \o Bytes(position + (Len(data) - offset), r))[i]
                  = position + (i - offset)
          BY <4>1, <4>2, <5>2, ExtendedContent, ZenonT(60)
        <5> QED BY <5>1, <5>3, Zenon
      <4> QED BY <4>3
    <3> QED BY <2>3, <3>1, <3>3, Zenon DEF Extended
  <2> HIDE DEF e
  <2>5. Buffered = length - offset /\ Buffered \in Nat
    BY <2>3 DEF Buffered
  <2>6. /\ m \in Nat /\ m <= n /\ offset + m <= length + r
        /\ m = 0 /\ n > 0 => r = 0 /\ length - offset = 0
    BY <2>1, <2>3, <2>5 DEF Smaller
  <2> HIDE DEF m
  <2>7. t \in Seq(Nat) /\ Len(t) = m
    <3>1. e \in Seq(Nat) /\ offset \in Nat /\ m \in Nat
      BY <2>3, <2>4, <2>6
    <3> HIDE DEF Copy
    <3> QED BY <3>1, CopyFacts
  <2>8. cleanSeeks => t = Bytes(position, m)
    <3> SUFFICES ASSUME cleanSeeks PROVE t = Bytes(position, m)
      OBVIOUS
    <3>1. ASSUME NEW i \in 1..m PROVE e[offset + i] = position + i
      <4>1. offset + i \in offset + 1 .. length + r /\ (offset + i) - offset = i
        BY <2>1, <2>3, <2>6
      <4>2. e[offset + i] = position + ((offset + i) - offset)
        BY <2>4, <4>1, Zenon
      <4> QED BY <4>1, <4>2, Zenon
    <3>2. offset + m <= Len(e)
      BY <2>4, <2>6, Zenon
    <3>3. e \in Seq(Nat) /\ offset \in Nat /\ m \in Nat /\ position \in Nat
      BY <2>3, <2>4, <2>6, Zenon
    <3> QED BY <3>1, <3>2, <3>3, CopyIsBytes, ZenonT(60)
  <2> HIDE DEF t
  <2>9. BufferTypes'
    BY <1>1, <2>1, <2>2, <2>3, <2>4 DEF BufferTypes
  <2>10. CallTypes'
    BY <1>6, <2>2, <2>3, <2>6, <2>7 DEF CallTypes
  <2>11. MemoryInv'
    BY <1>1, <2>1, <2>2, <2>3 DEF MemoryInv
  <2>12. ContentInv'
    <3>1. cleanSeeks' => childPos' = position' + (length' - offset')
      <4>1. cleanSeeks => childPos = position + (length - offset)
        BY <1>1, <2>1, SoundBuffer DEF Buffered
      <4>2. (position + (length - offset)) + r = position + ((length + r) - offset)
        BY <2>1, <2>3
      <4> QED BY <1>1, <1>3, <1>6, <2>1, <2>2, <4>1, <4>2, Zenon DEF history
    <3>2. cleanSeeks' => \A i \in offset' + 1 .. length' :
                           data'[i] = position' + (i - offset')
      BY <1>1, <1>3, <1>6, <2>2, <2>4, Zenon DEF history
    <3> QED BY <3>1, <3>2, Zenon DEF ContentInv, Buffered
  <2>13. CallInv'
    <3>1. m = 0 /\ n > 0 => /\ childPos' = FileSize
                            /\ length' - offset' <= 0 /\ length' >= 0
      BY <1>1, <1>5, <2>1, <2>2, <2>3, <2>6
    <3> QED BY <1>3, <1>6, <2>2, <2>6, <2>7, <2>8, <3>1, CallStep DEF history
  <2> QED BY <1>1, <1>5, <1>7, <2>9, <2>10, <2>11, <2>12, <2>13, Assemble
<1> QED BY <1>5, <1>8, <1>9

(* A peek without memory forgets the buffer.                               *)
LEMMA PeekNoMemoryInv ==
  ASSUME PeekInv, NEW n \in Nat, PeekNoMemory(n)
  PROVE  PeekInv'
<1>1. /\ TypeOK /\ pc = "open" /\ pc' = "open" /\ Sound /\ length >= 0
      /\ buffer' = "null" /\ data' = <<>> /\ length' = length /\ offset' = offset
      /\ childPos' = childPos /\ childFailed' = childFailed
      /\ noMemory' = TRUE /\ cleanSeeks' = cleanSeeks
      /\ op' = "peek" /\ asked' = n /\ ret' = 12 /\ got' = <<>> /\ from' = position
      /\ position' = position
  BY DEF PeekInv, PeekNoMemory, Peeks, child
<1>2. BufferTypes'
  BY <1>1, Types DEF BufferTypes
<1>3. ChildTypes' /\ HistoryTypes'
  BY <1>1, Parts, Zenon DEF ChildTypes, HistoryTypes
<1>4. CallTypes'
  BY <1>1, Types DEF CallTypes
<1>5. MemoryInv'
  <2>1. ~(length < 0)
    BY <1>1, Types
  <2> QED BY <1>1, <2>1 DEF MemoryInv
<1>6. ContentInv'
  BY <1>1, SoundBuffer DEF ContentInv, Buffered
<1>7. CallInv'
  <2>1. <<>> = Bytes(from', 0) /\ <<>> \in Seq(Nat) /\ Len(<<>>) = 0
    BY DEF Bytes
  <2> QED BY <1>1, <2>1, CallStep
<1> QED BY <1>1, <1>2, <1>3, <1>4, <1>5, <1>6, <1>7, Assemble

(* Nor does a peek use memory that is not there before an allocation or a  *)
(* refill has failed.                                                      *)
LEMMA PeekFaultsInv ==
  ASSUME PeekInv, NEW n \in Nat, PeekFaults(n)
  PROVE  PeekInv'
<1>1. length >= 0 => noMemory
  <2>1. TypeOK
    BY DEF PeekInv
  <2>2. length < 0 \/ ~Sound
    BY DEF PeekFaults
  <2> QED BY <2>1, <2>2, Types DEF PeekInv, MemoryInv, Sound, TypeOK
<1> QED BY <1>1, Fault DEF PeekFaults
-----------------------------------------------------------------------------
(* peek_tell, where it does not fail, returns where the child is.          *)
LEMMA PeekTellInv ==
  ASSUME PeekInv, peek_tell
  PROVE  PeekInv'
<1>1. /\ TypeOK /\ pc = "open" /\ pc' = "open" /\ position' = position
      /\ op' = "tell" /\ ret' \in {childPos, -1} /\ asked' = 0 /\ got' = <<>>
      /\ from' = position
      /\ UNCHANGED <<buf, child, history>>
  BY DEF PeekInv, peek_tell, stdio_tell
<1>2. BufferTypes' /\ ChildTypes' /\ HistoryTypes' /\ MemoryInv' /\ ContentInv'
  BY <1>1, SameBuffer
<1>3. CallTypes'
  BY <1>1, Types DEF CallTypes
<1>4. CallInv'
  <2>1. <<>> = Bytes(from', 0) /\ Len(<<>>) = 0
    BY DEF Bytes
  <2>2. cleanSeeks /\ ~noMemory /\ length >= 0 => childPos = position + Buffered
    <3>1. cleanSeeks /\ ~noMemory /\ length >= 0 =>
            buffer = "ok" \/ (buffer = "null" /\ length = offset)
      BY <1>1, Types DEF PeekInv, MemoryInv, TypeOK
    <3> QED BY <3>1 DEF PeekInv, ContentInv
  <2>3. /\ cleanSeeks' = cleanSeeks /\ noMemory' = noMemory
        /\ length' = length /\ Buffered' = Buffered
    BY <1>1, Zenon DEF buf, history, Buffered
  <2> QED BY <1>1, <2>1, <2>2, <2>3 DEF CallInv, ResultTellsTheTruth
<1> QED BY <1>1, <1>2, <1>3, <1>4, Assemble

(* A seek over nothing buffered keeps the child where the program is.      *)
LEMMA PeekSeekInv ==
  ASSUME PeekInv, NEW o \in 0..FileSize, peek_seek(o)
  PROVE  PeekInv'
<1>1. /\ TypeOK /\ pc = "open" /\ pc' = "open" /\ position' = o
      /\ childPos' = o /\ childFailed' = childFailed /\ noMemory' = noMemory
      /\ op' = "seek" /\ ret' = o /\ asked' = 0 /\ got' = <<>> /\ from' = o
      /\ buffer' = buffer /\ data' = data /\ length' = length /\ offset' = offset
  BY Zenon DEF PeekInv, peek_seek, stdio_seek, buf
<1>2. cleanSeeks' \in BOOLEAN /\ (cleanSeeks' => Buffered = 0)
  BY Zenon DEF peek_seek
<1>3. o \in Nat /\ o \in 0..FileSize
  BY PeekAssumption
<1>4. BufferTypes'
  BY <1>1, Parts, Zenon DEF BufferTypes
<1>5. ChildTypes' /\ HistoryTypes'
  BY <1>1, <1>2, <1>3, Parts, Zenon DEF ChildTypes, HistoryTypes
<1>6. CallTypes'
  BY <1>1, <1>3 DEF CallTypes
<1>7. MemoryInv'
  BY <1>1, Zenon DEF PeekInv, MemoryInv
<1>8. ContentInv'
  <2>1. cleanSeeks' => length - offset = 0 /\ childPos' = position' + (length - offset)
    BY <1>1, <1>2, <1>3 DEF Buffered
  <2>2. cleanSeeks' => \A i \in offset + 1 .. length : FALSE
    BY <1>1, <2>1, Types
  <2> QED BY <1>1, <2>1, <2>2, Zenon DEF ContentInv, Buffered
<1>9. CallInv'
  <2>1. <<>> = Bytes(from', 0) /\ Len(<<>>) = 0
    BY DEF Bytes
  <2> QED BY <1>1, <2>1 DEF CallInv, ResultTellsTheTruth
<1> QED BY <1>1, <1>4, <1>5, <1>6, <1>7, <1>8, <1>9, Assemble

(* A seek that fails moves neither the child nor the program.              *)
LEMMA SeekFailsInv ==
  ASSUME PeekInv, SeekFails
  PROVE  PeekInv'
<1>1. /\ TypeOK /\ pc = "open" /\ pc' = "open" /\ position' = position
      /\ op' = "seek" /\ ret' = -1 /\ asked' = 0 /\ got' = <<>>
      /\ from' = position
      /\ UNCHANGED <<buf, child, history>>
  BY DEF PeekInv, SeekFails
<1>2. BufferTypes' /\ ChildTypes' /\ HistoryTypes' /\ MemoryInv' /\ ContentInv'
  BY <1>1, SameBuffer
<1>3. CallTypes'
  BY <1>1, Types DEF CallTypes
<1>4. CallInv'
  <2>1. <<>> = Bytes(from', 0) /\ Len(<<>>) = 0
    BY DEF Bytes
  <2> QED BY <1>1, <2>1 DEF CallInv, ResultTellsTheTruth
<1> QED BY <1>1, <1>2, <1>3, <1>4, Assemble

(* Nothing but pc changes: a close, or the end.                            *)
LEMMA PeekSame ==
  ASSUME PeekInv, UNCHANGED <<buf, child, call, position, history>>,
         pc' \in {pc, "closed"}
  PROVE  PeekInv'
<1>1. /\ buffer' = buffer /\ data' = data /\ length' = length /\ offset' = offset
      /\ childPos' = childPos /\ childFailed' = childFailed
      /\ op' = op /\ asked' = asked /\ ret' = ret /\ got' = got /\ from' = from
      /\ position' = position /\ cleanSeeks' = cleanSeeks /\ noMemory' = noMemory
  BY Zenon DEF buf, child, call, history
<1>2. TypeOK'
  <2>1. pc' \in {"open", "closed", "aborted"}
    BY DEF PeekInv, TypeOK
  <2> QED BY <1>1, <2>1, Zenon DEF PeekInv, TypeOK, Larger
<1>3. MemoryInv' /\ ContentInv' /\ CallInv'
  BY <1>1, Zenon
  DEF PeekInv, MemoryInv, ContentInv, CallInv, ResultTellsTheTruth, Buffered
<1>4. BufferEmptyBeforeRefill'
  <2>1. pc' = "aborted" => pc = "aborted"
    OBVIOUS
  <2> QED BY <1>1, <2>1, Zenon DEF PeekInv, BufferEmptyBeforeRefill
<1> QED BY <1>2, <1>3, <1>4, Zenon DEF PeekInv

(* A read, whichever way it goes.                                          *)
LEMMA PeekReadInv ==
  ASSUME PeekInv, NEW n \in Nat, peek_read(n)
  PROVE  PeekInv'
BY ReadErrorInv, ReadBufferedInv, ReadFaultsInv, ReadDirectInv, ReadRefillInv,
   ReadRefillNoMemoryInv DEF peek_read

(* Every step of the peeking reader keeps its invariant.                   *)
LEMMA PeekNextInv ==
  ASSUME PeekInv, Next
  PROVE  PeekInv'
<1>1. ASSUME NEW n \in 0..MaxLen, peek_read(n) \/ peek_peek(n) PROVE PeekInv'
  <2>1. n \in Nat
    BY PeekAssumption
  <2> QED BY <1>1, <2>1, PeekReadInv, PeekBufferedInv, PeekExtendInv,
             PeekNoMemoryInv, PeekFaultsInv DEF peek_peek
<1>2. CASE peek_tell
  BY <1>2, PeekTellInv
<1>3. ASSUME NEW o \in 0..FileSize, peek_seek(o) PROVE PeekInv'
  BY <1>3, PeekSeekInv
<1>4. CASE peek_close
  BY <1>4, PeekSame DEF peek_close, stdio_close
<1>5. CASE Ended
  BY <1>5, PeekSame DEF Ended, vars
<1>6. CASE SeekFails
  BY <1>6, SeekFailsInv
<1> QED BY <1>1, <1>2, <1>3, <1>4, <1>5, <1>6 DEF Next

(* It holds when the reader is opened.                                     *)
LEMMA PeekInitInv ==
  ASSUME Init
  PROVE  PeekInv
<1>1. BufferTypes /\ ContentInv
  BY DEF Init, stdio_open, BufferTypes, ContentInv, Buffered
<1>2. ChildTypes /\ CallTypes
  <2>1. 0 \in 0..FileSize
    BY PeekAssumption
  <2>2. ChildTypes
    BY <2>1, Zenon DEF Init, stdio_open, ChildTypes
  <2>3. CallTypes
    BY DEF Init, CallTypes
  <2> QED BY <2>2, <2>3
<1>3. HistoryTypes /\ BufferEmptyBeforeRefill /\ MemoryInv
  <2>1. 0 \in Nat /\ ~(0 < 0)
    OBVIOUS
  <2>2. HistoryTypes
    BY <2>1, Zenon DEF Init, HistoryTypes
  <2>3. BufferEmptyBeforeRefill /\ MemoryInv
    BY <2>1 DEF Init, BufferEmptyBeforeRefill, MemoryInv
  <2> QED BY <2>2, <2>3
<1>4. CallInv
  <2>1. <<>> = Bytes(0, 0) /\ Len(<<>>) = 0
    BY DEF Bytes
  <2> QED BY <2>1 DEF Init, CallInv, ResultTellsTheTruth
<1>5. TypeOK
  BY <1>1, <1>2, <1>3, Parts DEF Init
<1> QED BY <1>1, <1>3, <1>4, <1>5, Zenon DEF PeekInv
-----------------------------------------------------------------------------
(* wandio_fgets *)

(* What the loop sees of a read of one byte.                               *)
LEMMA ReadByte ==
  ASSUME PeekInv, peek_read(1)
  PROVE  /\ cleanSeeks' = cleanSeeks
         /\ pc' = "aborted" => position' = position /\ noMemory' = noMemory
         /\ pc' # "aborted" =>
              /\ op' = "read" /\ asked' = 1 /\ from' = position
              /\ position' = position + Len(got')
              /\ ret' >= 0 => noMemory' = noMemory
<1>1. CASE ReadError(1)
  BY <1>1 DEF ReadError, Returns, history
<1>2. CASE ReadBuffered(1)
  BY <1>2 DEF ReadBuffered, Returns, history
<1>3. CASE ReadFaults(1)
  BY <1>3 DEF ReadFaults, history
<1>4. CASE ReadDirect(1)
  BY <1>4, Zenon DEF ReadDirect, NeedsChild, Returns, history
<1>5. CASE ReadRefill(1)
  BY <1>5, Zenon DEF ReadRefill, NeedsChild, Returns, history
<1>6. CASE ReadRefillNoMemory(1)
  <2>1. FromBuffer(1) \in Nat /\ FromBuffer(1) < 1 /\ pc = "open"
    BY <1>6, Drained DEF ReadRefillNoMemory
  <2>2. ~(EndResult(FromBuffer(1), -1) >= 0)
    BY <2>1 DEF EndResult
  <2> QED BY <1>6, <2>1, <2>2, Zenon DEF ReadRefillNoMemory, Returns
<1> QED BY <1>1, <1>2, <1>3, <1>4, <1>5, <1>6 DEF peek_read

(* A buffer that holds no byte ends where it begins.                       *)
LEMMA NothingLeft ==
  ASSUME NEW l \in Int, NEW o \in Nat, o <= l, l - o <= 0,
         NEW p \in Nat, NEW f, f = p + (l - o)
  PROVE  p = f
OBVIOUS

(* When a read says the file has ended, the program is at its end.         *)
LEMMA AtEnd ==
  ASSUME PeekInv', op' = "read", asked' = 1, ret' = 0, cleanSeeks', ~noMemory'
  PROVE  position' = FileSize
<1>1. length' >= 0 /\ childPos' = FileSize /\ Buffered' <= 0
  BY DEF PeekInv, CallInv, ResultTellsTheTruth
<1>2. /\ length' \in Int /\ offset' \in Nat /\ offset' <= length'
      /\ position' \in Nat
  BY <1>1 DEF PeekInv, TypeOK, Larger
<1>3. buffer' = "ok" \/ (buffer' = "null" /\ length' = offset')
  BY <1>2 DEF PeekInv, MemoryInv, TypeOK
<1>4. childPos' = position' + Buffered'
  BY <1>1, <1>3 DEF PeekInv, ContentInv
<1>5. /\ length' - offset' <= 0
      /\ FileSize = position' + (length' - offset')
  BY <1>1, <1>4, Zenon DEF Buffered
<1> QED BY <1>2, <1>5, NothingLeft, Zenon

(* What wandio_fgets stores for byte b, and the bytes behind offset o.     *)
StoredFor(c, b) == IF b \in Newlines /\ c THEN Garbage ELSE b
ExpectedFor(c, o, n) == [i \in 1..n |-> StoredFor(c, o + i)]

(* The line grows by the byte that follows it.                             *)
LEMMA LineGrows ==
  ASSUME NEW c, NEW o \in Nat, NEW n \in Nat
  PROVE  /\ ExpectedFor(c, o, n) \in Seq(Nat) /\ Len(ExpectedFor(c, o, n)) = n
         /\ Append(ExpectedFor(c, o, n), StoredFor(c, o + (n + 1)))
              = ExpectedFor(c, o, n + 1)
<1>1. \A i \in Nat : StoredFor(c, i) \in Nat
  BY DEF StoredFor, Garbage
<1> HIDE DEF StoredFor
<1> DEFINE s == ExpectedFor(c, o, n)
           t == ExpectedFor(c, o, n + 1)
           x == StoredFor(c, o + (n + 1))
<1>2. s \in Seq(Nat) /\ Len(s) = n /\ \A i \in 1..n : s[i] = StoredFor(c, o + i)
  BY <1>1 DEF ExpectedFor
<1>3. /\ t \in Seq(Nat) /\ Len(t) = n + 1
      /\ \A i \in 1..(n + 1) : t[i] = StoredFor(c, o + i)
  BY <1>1 DEF ExpectedFor
<1>4. x \in Nat
  BY <1>1
<1>5. t[n + 1] = x
  BY <1>3
<1>6. \A i \in 1..n : t[i] = s[i]
  BY <1>2, <1>3
<1> HIDE DEF s, t, x
<1>7. Append(s, x) = t
  <2>1. /\ Append(s, x) \in Seq(Nat) /\ Len(Append(s, x)) = n + 1
        /\ \A i \in 1..(n + 1) : Append(s, x)[i] = t[i]
    BY <1>2, <1>4, <1>5, <1>6
  <2> QED BY <1>3, <2>1
<1> QED BY <1>2, <1>7 DEF s, t, x

(* The call.                                                               *)
LEMMA FgetsCallInv ==
  ASSUME IInv, NEW n \in 0 .. MaxLen + 1, NEW c \in BOOLEAN, wandio_fgets(n, c)
  PROVE  IInv'
<1>1. /\ PeekInv /\ TypeOK /\ cleanSeeks /\ ~noMemory /\ n \in Nat
      /\ pc = "open" /\ pc' = "open"
      /\ op' = "read" /\ asked' = 0 /\ ret' = 0 /\ got' = <<>> /\ from' = position
      /\ position' = position /\ UNCHANGED <<buf, child, history>>
  BY PeekAssumption DEF IInv, PeekInv, wandio_fgets
<1>2. /\ fpc' = (IF n > 1 THEN "fgets" ELSE "idle")
      /\ flen' = n /\ chomp' = c /\ line' = <<>> /\ fret' = 0 /\ start' = position
  BY DEF wandio_fgets
<1>3. PeekInv'
  <2>1. BufferTypes' /\ ChildTypes' /\ HistoryTypes' /\ MemoryInv' /\ ContentInv'
    BY <1>1, SameBuffer
  <2>2. CallTypes'
    BY <1>1, Types DEF CallTypes
  <2>3. CallInv'
    <3>1. <<>> = Bytes(from', 0) /\ <<>> \in Seq(Nat) /\ Len(<<>>) = 0
      BY DEF Bytes
    <3> QED BY <1>1, <3>1, CallStep
  <2> QED BY <1>1, <2>1, <2>2, <2>3, Assemble
<1>4. LineTypeOK'
  <2>1. /\ fpc' \in {"idle", "fgets"} /\ flen' \in Nat /\ line' \in Seq(Nat)
        /\ fret' \in Int /\ start' \in Nat
    BY <1>1, <1>2, Types
  <2> QED BY <1>2, <2>1, Zenon DEF LineTypeOK
<1>5. line' = ExpectedFor(chomp', start', 0) /\ Len(line') = 0
  BY <1>2 DEF ExpectedFor
<1>6. position' = start' + 0 /\ 1..0 = {} /\ 1..(0 - 1) = {}
  BY <1>1, <1>2, Types
<1>7. LineInv'
  BY <1>1, <1>2, <1>5, <1>6
  DEF LineInv, Expected, Stored, ExpectedFor, StoredFor, history
<1>8. FgetsDeliversLine'
  BY <1>1, <1>2, <1>5, <1>6
  DEF FgetsDeliversLine, Expected, Stored, ExpectedFor, StoredFor
<1> QED BY <1>3, <1>4, <1>7, <1>8, Zenon DEF IInv

(* What is known of a line in progress.                                    *)
LEMMA LineSoFar ==
  ASSUME IInv, fpc = "fgets"
  PROVE  /\ PeekInv /\ TypeOK /\ cleanSeeks /\ ~noMemory
         /\ line \in Seq(Nat) /\ Len(line) \in Nat /\ Len(line) < flen - 1
         /\ flen \in Nat /\ start \in Nat
         /\ line = ExpectedFor(chomp, start, Len(line))
         /\ position = start + Len(line)
         /\ \A i \in 1 .. Len(line) : start + i \notin Newlines
<1>1. line \in Seq(Nat) /\ Len(line) \in Nat /\ flen \in Nat /\ start \in Nat
  BY DEF IInv, LineTypeOK
<1> QED BY <1>1, Zenon
        DEF IInv, PeekInv, LineInv, Expected, Stored, ExpectedFor, StoredFor

(* One turn of the loop.                                                   *)
LEMMA FgetsByteInv ==
  ASSUME IInv, FgetsByte
  PROVE  IInv'
<1>1. fpc = "fgets" /\ peek_read(1)
  BY DEF FgetsByte
<1>2. /\ PeekInv /\ TypeOK /\ cleanSeeks /\ ~noMemory
      /\ line \in Seq(Nat) /\ Len(line) \in Nat /\ Len(line) < flen - 1
      /\ flen \in Nat /\ start \in Nat
      /\ line = ExpectedFor(chomp, start, Len(line))
      /\ position = start + Len(line)
      /\ \A i \in 1 .. Len(line) : start + i \notin Newlines
  BY <1>1, LineSoFar
<1>3. PeekInv'
  BY <1>1, <1>2, PeekReadInv
<1>4. /\ cleanSeeks' = cleanSeeks
      /\ pc' = "aborted" => position' = position /\ noMemory' = noMemory
      /\ pc' # "aborted" =>
           /\ op' = "read" /\ asked' = 1 /\ from' = position
           /\ position' = position + Len(got')
           /\ ret' >= 0 => noMemory' = noMemory
  BY <1>1, <1>2, ReadByte
<1>5. LineTypeOK
  BY DEF IInv
<1>6. CASE pc' = "aborted"
  <2>1. /\ fpc' = fpc /\ flen' = flen /\ chomp' = chomp /\ line' = line
        /\ fret' = fret /\ start' = start
    BY <1>6, Zenon DEF FgetsByte, fgets
  <2>2. LineTypeOK'
    BY <1>5, <2>1, Zenon DEF LineTypeOK
  <2>3. LineInv'
    BY <1>2, <1>4, <1>6, <2>1, Zenon
    DEF LineInv, Expected, Stored, ExpectedFor, StoredFor
  <2>4. FgetsDeliversLine'
    BY <1>1, <2>1 DEF FgetsDeliversLine
  <2> QED BY <1>3, <2>2, <2>3, <2>4, Zenon DEF IInv
<1>7. CASE pc' # "aborted" /\ ret' < 0
  <2>1. /\ fpc' = "idle" /\ fret' = ret' /\ line' = line
        /\ flen' = flen /\ chomp' = chomp /\ start' = start
    <3>1. ret' # 0
      BY <1>7
    <3> QED BY <1>7, <3>1, Zenon DEF FgetsByte, FgetsReturns
  <2>2. LineTypeOK'
    <3>1. ret' \in Int
      BY <1>3 DEF PeekInv, TypeOK
    <3> QED BY <1>5, <2>1, <3>1, Zenon DEF LineTypeOK
  <2>3. LineInv'
    BY <2>1 DEF LineInv
  <2>4. FgetsDeliversLine'
    <3>1. cleanSeeks' /\ ~noMemory' => childFailed'
      BY <1>3, <1>4, <1>7 DEF PeekInv, CallInv, ResultTellsTheTruth
    <3> QED BY <1>7, <2>1, <3>1, Zenon DEF FgetsDeliversLine
  <2> QED BY <1>3, <2>2, <2>3, <2>4, Zenon DEF IInv
<1>8. CASE pc' # "aborted" /\ ret' = 0
  <2>1. /\ fpc' = "idle" /\ fret' = Len(line) /\ line' = line
        /\ flen' = flen /\ chomp' = chomp /\ start' = start
    <3>1. ~(ret' < 0)
      BY <1>8
    <3> QED BY <1>8, <3>1, Zenon DEF FgetsByte, FgetsReturns, CountAtEnd
  <2>2. LineTypeOK'
    <3>1. Len(line) \in Int
      BY <1>2
    <3> QED BY <1>5, <2>1, <3>1, Zenon DEF LineTypeOK
  <2>3. LineInv'
    BY <2>1 DEF LineInv
  <2>4. cleanSeeks' /\ ~noMemory'
    BY <1>2, <1>4, <1>8
  <2>5. Len(got') = 0
    BY <1>3, <1>4, <1>8, <2>4 DEF PeekInv, CallInv, ResultTellsTheTruth
  <2>6. position' = start + Len(line)
    BY <1>2, <1>4, <1>8, <2>5
  <2>7. position' = FileSize
    BY <1>3, <1>4, <1>8, <2>4, AtEnd
  <2>8. FgetsDeliversLine'
    <3>1. ~(Len(line) < 0) /\ Len(line) < flen
      BY <1>2
    <3>2. \A i \in 1 .. Len(line) - 1 : start + i \notin Newlines
      <4>1. \A i \in 1 .. Len(line) - 1 : i \in 1 .. Len(line)
        BY <1>2
      <4> QED BY <1>2, <4>1, Zenon
    <3> QED BY <1>2, <2>1, <2>6, <2>7, <3>1, <3>2, Zenon
            DEF FgetsDeliversLine, Expected, Stored, ExpectedFor, StoredFor
  <2> QED BY <1>3, <2>2, <2>3, <2>8, Zenon DEF IInv
<1>9. CASE pc' # "aborted" /\ ~(ret' < 0) /\ ret' # 0
  <2> DEFINE b == got'[1]
             k == Len(line)
  <2>1. /\ line' = Append(line, Stored(b))
        /\ IF Done(line', b) THEN FgetsReturns(Len(line'))
           ELSE UNCHANGED <<fpc, flen, chomp, fret, start>>
    BY <1>9, Zenon DEF FgetsByte
  <2>2. flen' = flen /\ chomp' = chomp /\ start' = start
    BY <2>1, Zenon DEF FgetsReturns
  <2>3. ret' \in Int /\ ret' > 0 /\ cleanSeeks' /\ ~noMemory'
    BY <1>2, <1>3, <1>4, <1>9 DEF PeekInv, TypeOK
  <2>4. Len(got') = 1 /\ got' = Bytes(position, 1)
    <3>1. Len(got') = ret' /\ Len(got') <= 1 /\ got' = Bytes(position, Len(got'))
      BY <1>3, <1>4, <1>9, <2>3 DEF PeekInv, CallInv, ResultTellsTheTruth
    <3> QED BY <2>3, <3>1
  <2>5. b = start + (k + 1) /\ position' = start + (k + 1) /\ k \in Nat
    <3>1. got'[1] = position + 1
      BY <1>2, <2>4, Types DEF Bytes
    <3> QED BY <1>2, <1>4, <1>9, <2>4, <3>1
  <2>6. line' = ExpectedFor(chomp, start, k + 1) /\ line' \in Seq(Nat) /\ Len(line') = k + 1
    <3>1. Stored(b) = StoredFor(chomp, start + (k + 1))
      BY <2>5 DEF Stored, StoredFor
    <3>2. Append(ExpectedFor(chomp, start, k), StoredFor(chomp, start + (k + 1)))
            = ExpectedFor(chomp, start, k + 1)
      BY <1>2, LineGrows
    <3>3. line' = ExpectedFor(chomp, start, k + 1)
      BY <1>2, <2>1, <3>1, <3>2, Zenon
    <3>4. /\ ExpectedFor(chomp, start, k + 1) \in Seq(Nat)
          /\ Len(ExpectedFor(chomp, start, k + 1)) = k + 1
      <4>1. k + 1 \in Nat
        BY <2>5
      <4> QED BY <1>2, <4>1, LineGrows, Zenon
    <3> QED BY <3>3, <3>4, Zenon
  <2> HIDE DEF b
  <2>7. CASE Done(line', b)
    <3>1. fpc' = "idle" /\ fret' = k + 1
      BY <2>1, <2>6, <2>7, Zenon DEF FgetsReturns
    <3>2. LineTypeOK'
      <4>1. k + 1 \in Int
        BY <2>5
      <4> QED BY <1>5, <2>2, <2>6, <3>1, <4>1, Zenon DEF LineTypeOK
    <3>3. LineInv'
      BY <3>1 DEF LineInv
    <3>4. FgetsDeliversLine'
      <4>1. ~(k + 1 < 0) /\ k + 1 < flen /\ (k + 1) - 1 = k
        BY <1>2
      <4>2. b \in Newlines \/ k + 1 = flen - 1
        BY <1>2, <2>6, <2>7 DEF Done
      <4>3. \A i \in 1 .. (k + 1) - 1 : start + i \notin Newlines
        BY <1>2, <4>1
      <4> QED BY <2>2, <2>5, <2>6, <3>1, <4>1, <4>2, <4>3, Zenon
              DEF FgetsDeliversLine, Expected, Stored, ExpectedFor, StoredFor
    <3> QED BY <1>3, <3>2, <3>3, <3>4, Zenon DEF IInv
  <2>8. CASE ~Done(line', b)
    <3>1. fpc' = fpc /\ fret' = fret
      BY <2>1, <2>8, Zenon
    <3>2. LineTypeOK'
      BY <1>5, <2>2, <2>6, <3>1, Zenon DEF LineTypeOK
    <3>3. LineInv'
      <4>1. k + 1 < flen - 1
        BY <1>2, <2>6, <2>8 DEF Done
      <4>2. ASSUME NEW i \in 1 .. k + 1 PROVE start + i \notin Newlines
        <5>1. CASE i = k + 1
          BY <2>5, <2>8, <5>1, Zenon DEF Done
        <5>2. CASE i # k + 1
          BY <1>2, <5>2
        <5> QED BY <5>1, <5>2
      <4> QED BY <2>2, <2>3, <2>5, <2>6, <4>1, <4>2, Zenon
              DEF LineInv, Expected, Stored, ExpectedFor, StoredFor
    <3>4. FgetsDeliversLine'
      BY <1>1, <3>1 DEF FgetsDeliversLine
    <3> QED BY <1>3, <3>2, <3>3, <3>4, Zenon DEF IInv
  <2> QED BY <2>7, <2>8
<1> QED BY <1>6, <1>7, <1>8, <1>9
-----------------------------------------------------------------------------
(* Any other call of the program leaves no line behind.                    *)
LEMMA OtherCallInv ==
  ASSUME IInv, OtherCall
  PROVE  IInv'
<1>1. PeekInv'
  BY PeekNextInv DEF IInv, OtherCall
<1>2. /\ fpc' = "idle" /\ flen' = 0 /\ chomp' = FALSE /\ line' = <<>>
      /\ fret' = 0 /\ start' = 0
  BY DEF OtherCall, NoFgets
<1>3. LineTypeOK'
  <2>1. <<>> \in Seq(Nat) /\ 0 \in Nat /\ 0 \in Int
    OBVIOUS
  <2> QED BY <1>2, <2>1, Zenon DEF LineTypeOK
<1>4. LineInv' /\ FgetsDeliversLine'
  BY <1>2 DEF LineInv, FgetsDeliversLine
<1> QED BY <1>1, <1>3, <1>4, Zenon DEF IInv

(* Nothing changes.                                                        *)
LEMMA SameInv ==
  ASSUME IInv, UNCHANGED allVars
  PROVE  IInv'
<1>1. PeekInv'
  BY PeekSame DEF IInv, allVars, vars
<1>2. /\ fpc' = fpc /\ flen' = flen /\ chomp' = chomp /\ line' = line
      /\ fret' = fret /\ start' = start /\ position' = position
      /\ cleanSeeks' = cleanSeeks /\ noMemory' = noMemory
      /\ childFailed' = childFailed
  BY Zenon DEF allVars, fgets, vars, child, history
<1> QED BY <1>1, <1>2, Zenon
        DEF IInv, LineTypeOK, LineInv, FgetsDeliversLine, Expected, Stored

(* The invariant holds at first and is kept by every step.                 *)
LEMMA LineInductive ==
  /\ LineInit => IInv
  /\ IInv /\ [LineNext]_allVars => IInv'
<1>1. ASSUME LineInit PROVE IInv
  <2>1. PeekInv
    BY <1>1, PeekInitInv DEF LineInit
  <2>2. LineTypeOK
    <3>1. <<>> \in Seq(Nat) /\ 0 \in Nat /\ 0 \in Int
      OBVIOUS
    <3> QED BY <1>1, <3>1, Zenon DEF LineInit, LineTypeOK
  <2>3. LineInv /\ FgetsDeliversLine
    BY <1>1 DEF LineInit, LineInv, FgetsDeliversLine
  <2> QED BY <2>1, <2>2, <2>3, Zenon DEF IInv
<1>2. ASSUME IInv, [LineNext]_allVars PROVE IInv'
  <2>1. CASE UNCHANGED allVars
    BY <1>2, <2>1, SameInv
  <2>2. ASSUME NEW n \in 0 .. MaxLen + 1, NEW c \in BOOLEAN, wandio_fgets(n, c)
        PROVE  IInv'
    BY <1>2, <2>2, FgetsCallInv
  <2>3. CASE FgetsByte
    BY <1>2, <2>3, FgetsByteInv
  <2>4. CASE OtherCall
    BY <1>2, <2>4, OtherCallInv
  <2>5. CASE Ended /\ UNCHANGED fgets
    BY <1>2, <2>5, SameInv DEF Ended, allVars
  <2> QED BY <1>2, <2>1, <2>2, <2>3, <2>4, <2>5, Zenon DEF LineNext
<1> QED BY <1>1, <1>2

(* The peeking reader with lines read over it keeps its invariant, for     *)
(* every file and every size of its refills.                               *)
THEOREM Invariance == LineSpec => []IInv
BY LineInductive, PTL DEF LineSpec

(* Whatever mixture of reads, peeks, lines, short child reads and errors   *)
(* came before, peek_read and peek_peek deliver the bytes at the program's *)
(* read offset, and their result counts them (lib/ior-peek.c).             *)
THEOREM DeliveryAtReadOffset == LineSpec => []DeliversAtReadOffset
<1>1. IInv => DeliversAtReadOffset
  BY DEF IInv, PeekInv, CallInv, DeliversAtReadOffset
<1> QED BY <1>1, Invariance, PTL

(* What was taken from the child and not yet read is in the buffer; the    *)
(* buffer is empty when it is refilled, as the assertion in peek_read      *)
(* says; tell returns the read offset when nothing is read ahead.          *)
THEOREM NothingLostInBuffer == LineSpec => []NothingLost
<1>1. ASSUME IInv PROVE NothingLost
  <2>1. PeekInv /\ TypeOK /\ BufferEmptyBeforeRefill
    BY <1>1 DEF IInv, PeekInv
  <2>2. cleanSeeks /\ ~noMemory /\ length >= 0 =>
          buffer = "ok" \/ (buffer = "null" /\ length = offset)
    BY <2>1, Types DEF PeekInv, MemoryInv, TypeOK
  <2>3. cleanSeeks /\ ~noMemory /\ length >= 0 =>
          /\ childPos = position + Buffered
          /\ op = "tell" /\ ret >= 0 /\ Buffered = 0 => ret = position
    BY <2>1, <2>2, Types DEF PeekInv, ContentInv, CallInv
  <2> QED BY <2>1, <2>3, Zenon DEF NothingLost
<1> QED BY <1>1, Invariance, PTL

(* wandio_fgets delivers the line at the read offset and consumes nothing  *)
(* behind it (lib/wandio.c:498).                                           *)
THEOREM LinesDelivered == LineSpec => []FgetsDeliversLine
<1>1. IInv => FgetsDeliversLine
  BY DEF IInv
<1> QED BY <1>1, Invariance, PTL
=============================================================================
