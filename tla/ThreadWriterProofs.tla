------------------------- MODULE ThreadWriterProofs -------------------------
(***************************************************************************)
(* Proofs, for every number and size of slices and every stream, of what   *)
(* MCThreadWriter checks on small instances of ThreadWriter.               *)
(***************************************************************************)
EXTENDS ThreadWriter, ByteStreamProofs

(* The stream offset in front of the first byte of slice b.                *)
Base(b) == space[b][1] - 1

(* Slice b lies in the arc of the ring from the consumer's `buffer` up to  *)
(* out_buffer; when they meet the ring is either empty or full.            *)
Occupied(b) ==
  IF buffer < out_buffer THEN buffer <= b /\ b < out_buffer
  ELSE IF out_buffer < buffer THEN buffer <= b \/ b < out_buffer
  ELSE state[out_buffer] = "FULL"

(* The full slices are exactly those of the arc; of the others only the    *)
(* one being filled holds anything.                                        *)
RingInv ==
  \A b \in Slots : /\ (state[b] = "FULL") <=> Occupied(b)
                   /\ state[b] = "FULL" => len[b] > 0
                   /\ state[b] = "EMPTY" => len[b] = IF b = out_buffer THEN offset ELSE 0

(* A full slice holds consecutive bytes, and each continues where the one  *)
(* before it ends, up to the one being filled; none lies behind that.      *)
ChainInv ==
  \A b \in Slots : state[b] = "FULL" =>
    /\ \A i \in 1..len[b] : space[b][i] = Base(b) + i
    /\ Base(b) + len[b] <= accepted - offset
    /\ Base(b) + len[b] = IF NextBuffer(b) = out_buffer THEN accepted - offset
                          ELSE Base(NextBuffer(b))

(* The slice being filled.                                                 *)
TailInv ==
  /\ offset < BUFFER_SIZE
  /\ state[out_buffer] = "FULL" => offset = 0
  /\ \A i \in 1..offset : space[out_buffer][i] = accepted - offset + i
  /\ wpc = "advance" =>
       \A i \in 1..slice : space[out_buffer][offset + i] = accepted + i

(* What the child has been given ends where the consumer's slice begins,   *)
(* or where it ends once that has been written.                            *)
FrontInv ==
  LET done == IF kpc \in {"flush", "reset"} THEN len[buffer] ELSE 0
  IN  Len(written) = done + IF state[buffer] = "FULL" THEN Base(buffer)
                            ELSE accepted - offset

(* The close has been seen and nothing is left in the ring, whose indices  *)
(* do not matter any more.                                                 *)
Drained ==
  /\ closing
  /\ \A b \in Slots : state[b] = "EMPTY" /\ len[b] = 0
  /\ Len(written) = accepted

Writing == {"lock", "check", "waiting", "woken", "copy", "advance"}

(* What is known at each place of the two threads.                         *)
ControlInv ==
  /\ kpc \in {"write", "flush", "reset"} => state[buffer] = "FULL" \/ closing
  /\ kpc \in {"destroy", "done"} => Drained
  /\ childOpen <=> kpc # "done"
  /\ closing <=> wpc \in {"join", "closed"}
  /\ wpc = "closed" => kpc = "done"
  /\ wpc \in {"check", "copy", "waiting"} => want > 0
  /\ wpc \notin Writing => want = 0
  /\ wpc \in {"copy", "advance"} =>
       /\ state[out_buffer] = "EMPTY"
       /\ slice > 0 /\ slice <= want /\ offset + slice <= BUFFER_SIZE

(* The ring holds what was accepted and is not with the child.             *)
Live == RingInv /\ ChainInv /\ TailInv /\ FrontInv

(* The inductive invariant.                                                *)
IInv ==
  /\ TypeOK /\ ControlInv /\ NoLostWakeup /\ InOrder(written)
  /\ Drained \/ Live
-----------------------------------------------------------------------------
(* The successor of a slice in the ring, without the remainder operation.  *)
LEMMA NextBufferFacts ==
  \A b \in Slots : /\ NextBuffer(b) \in Slots
                   /\ NextBuffer(b) = IF b = BUFFERS - 1 THEN 0 ELSE b + 1
BY WriterAssumption, SMT DEF Slots, NextBuffer

(* When the consumer finds its slice empty, all are; it is then at the     *)
(* slice being filled.                                                     *)
LEMMA EmptyRing ==
  ASSUME TypeOK, RingInv, state[buffer] = "EMPTY"
  PROVE  buffer = out_buffer /\ \A b \in Slots : state[b] = "EMPTY"
<1>1. buffer \in Slots /\ out_buffer \in Slots
  BY DEF TypeOK
<1>2. buffer \in Int /\ out_buffer \in Int /\ ~Occupied(buffer)
  BY <1>1, WriterAssumption DEF RingInv, Slots
<1>3. buffer = out_buffer
  BY <1>2 DEF Occupied
<1>4. \A b \in Slots : ~Occupied(b)
  BY <1>2, <1>3 DEF Occupied
<1>5. \A b \in Slots : state[b] \in {"EMPTY", "FULL"}
  BY DEF TypeOK
<1> QED BY <1>3, <1>4, <1>5 DEF RingInv

(* The initial state satisfies the invariant.                              *)
LEMMA InitIInv == Init => IInv
<1> SUFFICES ASSUME Init PROVE IInv
  OBVIOUS
<1> USE WriterAssumption
<1>1. TypeOK
  <2>1. /\ state \in [Slots -> {"EMPTY", "FULL"}]
        /\ len \in [Slots -> 0..BUFFER_SIZE]
        /\ flush \in [Slots -> BOOLEAN]
        /\ space \in [Slots -> [1..BUFFER_SIZE -> Nat]]
    BY DEF Init, Garbage
  <2>2. /\ out_buffer \in Slots /\ buffer \in Slots
        /\ offset \in Nat /\ want \in Nat /\ slice \in Nat
        /\ written \in Seq(Nat) /\ childFlushed \in Nat
        /\ accepted \in Nat /\ flushAsked \in Nat /\ flushWanted \in Nat
    BY DEF Init, Slots
  <2>3. /\ mutex \in {"none", "consumer", "client"}
        /\ kpc \in ConsumerPCs /\ wpc \in ClientPCs
        /\ closing \in BOOLEAN /\ childOpen \in BOOLEAN
    BY Zenon DEF Init, ConsumerPCs, ClientPCs
  <2> QED BY <2>1, <2>2, <2>3 DEF TypeOK
<1>2. RingInv /\ ChainInv
  BY DEF Init, RingInv, ChainInv, Occupied, Slots
<1>3. TailInv /\ FrontInv
  BY DEF Init, TailInv, FrontInv, Slots
<1>4. ControlInv
  BY DEF Init, ControlInv, Writing
<1>5. NoLostWakeup /\ InOrder(written)
  BY DEF Init, NoLostWakeup, InOrder
<1> QED BY <1>1, <1>2, <1>3, <1>4, <1>5 DEF IInv, Live

(* A step that moves no data and does not pass one of the points where the *)
(* bytes with the child or in the slice being filled are counted           *)
(* differently keeps the description of the ring.                          *)
LEMMA QuietStep ==
  ASSUME Drained \/ Live,
         UNCHANGED <<ring, handle, buffer, written, accepted>>,
         closing => closing',
         wpc' = "advance" <=> wpc = "advance",
         wpc = "advance" => slice' = slice,
         kpc' \in {"flush", "reset"} <=> kpc \in {"flush", "reset"}
  PROVE  (Drained \/ Live)' /\ (Drained => Drained')
<1> USE DEF ring, handle
<1>1. Drained => Drained'
  BY DEF Drained
<1>2. Live => Live'
  <2> SUFFICES ASSUME Live PROVE Live'
    OBVIOUS
  <2>1. RingInv'
    BY DEF Live, RingInv, Occupied
  <2>2. ChainInv'
    BY DEF Live, ChainInv, Base, NextBuffer
  <2>3. TailInv'
    BY DEF Live, TailInv
  <2>4. FrontInv'
    BY DEF Live, FrontInv, Base
  <2> QED BY <2>1, <2>2, <2>3, <2>4 DEF Live
<1> QED BY <1>1, <1>2

-----------------------------------------------------------------------------
(* Before the close is seen the ring is described by Live.                 *)
LEMMA LiveUnlessClosing == IInv /\ ~closing => Live
BY DEF IInv, Drained

(* The steps of the consumer that move no data.                            *)
LEMMA ConsumerQuiet ==
  ASSUME IInv,
         \/ ConsumerLock \/ ConsumerCheck \/ ConsumerSpuriousWakeup
         \/ ConsumerFlush \/ ConsumerDestroy
  PROVE  IInv'
<1> USE DEF ring, handle, locals, child, history
<1>1. TypeOK'
  <2>1. kpc' \in ConsumerPCs /\ mutex' \in {"none", "consumer", "client"}
        /\ childOpen' \in BOOLEAN
    BY DEF IInv, TypeOK, ConsumerLock, ConsumerCheck, ConsumerSpuriousWakeup,
           ConsumerFlush, ConsumerDestroy, ConsumerPCs
  <2>2. childFlushed' \in Nat
    BY DEF IInv, TypeOK, ConsumerLock, ConsumerCheck, ConsumerSpuriousWakeup,
           ConsumerFlush, ConsumerDestroy, FlushChild
  <2>3. UNCHANGED <<ring, handle, closing, buffer, wpc, locals, written, history>>
    BY DEF ConsumerLock, ConsumerCheck, ConsumerSpuriousWakeup, ConsumerFlush,
           ConsumerDestroy
  <2> QED BY <2>1, <2>2, <2>3 DEF IInv, TypeOK
<1>2. UNCHANGED <<ring, handle, closing, buffer, wpc, locals, written, accepted>>
  BY DEF ConsumerLock, ConsumerCheck, ConsumerSpuriousWakeup, ConsumerFlush,
         ConsumerDestroy
<1>3. (Drained \/ Live)' /\ (Drained => Drained')
  <2>1. kpc' \in {"flush", "reset"} <=> kpc \in {"flush", "reset"}
    BY DEF ConsumerLock, ConsumerCheck, ConsumerSpuriousWakeup, ConsumerFlush,
           ConsumerDestroy
  <2> QED BY <1>2, <2>1, QuietStep DEF IInv
<1>4. ControlInv'
  <2>1. kpc' \in {"write", "flush", "reset"} => state[buffer] = "FULL" \/ closing
    <3>1. state[buffer] \in {"EMPTY", "FULL"}
      BY DEF IInv, TypeOK
    <3> QED BY <3>1 DEF IInv, ControlInv, ConsumerLock, ConsumerCheck, NothingToDo,
                 ConsumerSpuriousWakeup, ConsumerFlush, ConsumerDestroy
  <2>2. kpc' \in {"destroy", "done"} => Drained
    BY DEF IInv, ControlInv, ConsumerLock, ConsumerCheck, ConsumerSpuriousWakeup,
           ConsumerFlush, ConsumerDestroy
  <2>3. childOpen' <=> kpc' # "done"
    BY DEF IInv, ControlInv, ConsumerLock, ConsumerCheck, ConsumerSpuriousWakeup,
           ConsumerFlush, ConsumerDestroy
  <2>4. wpc = "closed" => kpc' = "done"
    BY DEF IInv, ControlInv, ConsumerLock, ConsumerCheck, ConsumerSpuriousWakeup,
           ConsumerFlush, ConsumerDestroy
  <2> QED BY <1>2, <1>3, <2>1, <2>2, <2>3, <2>4 DEF IInv, ControlInv
<1>5. NoLostWakeup'
  <2>1. wpc = "waiting" => kpc' # "done"
    BY DEF IInv, ControlInv, NoLostWakeup, Drained, ConsumerLock, ConsumerCheck,
           ConsumerSpuriousWakeup, ConsumerFlush, ConsumerDestroy
  <2>2. kpc' = "waiting" => state[buffer] = "EMPTY" /\ ~closing
    BY DEF IInv, NoLostWakeup, NothingToDo, ConsumerLock, ConsumerCheck,
           ConsumerSpuriousWakeup, ConsumerFlush, ConsumerDestroy
  <2>3. wpc = "waiting" => kpc' # "waiting"
    <3>1. SUFFICES ASSUME wpc = "waiting", kpc' = "waiting" PROVE FALSE
      OBVIOUS
    <3>2. Live
      BY <2>2, <3>1, LiveUnlessClosing
    <3>3. buffer = out_buffer
      BY <2>2, <3>1, <3>2, EmptyRing DEF IInv, Live
    <3> QED BY <2>2, <3>1, <3>3 DEF IInv, NoLostWakeup
  <2> QED BY <1>2, <2>1, <2>2, <2>3 DEF IInv, NoLostWakeup
<1>6. InOrder(written)'
  BY <1>2 DEF IInv
<1> QED BY <1>1, <1>3, <1>4, <1>5, <1>6 DEF IInv

(* The steps of the program's thread that move no data.                    *)
LEMMA ClientQuiet ==
  ASSUME IInv,
         \/ \E n \in 0..MaxWriteLen : thread_wwrite(n)
         \/ WriteLock \/ WriteWait \/ WriteSpuriousWakeup \/ WriteSlice
         \/ thread_wflush_nothing \/ thread_wclose \/ CloseJoin
  PROVE  IInv'
<1> USE DEF ring, handle, locals, child, history, consumer
<1>1. /\ UNCHANGED <<ring, handle, closing, buffer, kpc, child, accepted, flushWanted>>
      /\ flushAsked' \in {flushAsked, accepted}
  BY DEF thread_wwrite, WriteLock, WriteWait, WriteSpuriousWakeup, WriteSlice,
         thread_wflush_nothing, thread_wclose, CloseJoin
<1>2. (Live /\ ~closing) \/ CloseJoin
  BY LiveUnlessClosing DEF IInv, ControlInv, thread_wwrite, WriteLock, WriteWait,
     WriteSpuriousWakeup, WriteSlice, thread_wflush_nothing, thread_wclose
<1>3. TypeOK'
  <2>1. wpc' \in ClientPCs /\ mutex' \in {"none", "consumer", "client"}
    BY DEF IInv, TypeOK, ClientPCs, thread_wwrite, WriteLock, WriteWait,
       WriteSpuriousWakeup, WriteSlice, thread_wflush_nothing, thread_wclose, CloseJoin
  <2>2. want' \in Nat
    BY WriterAssumption DEF IInv, TypeOK, thread_wwrite, WriteLock, WriteWait,
       WriteSpuriousWakeup, WriteSlice, thread_wflush_nothing, thread_wclose, CloseJoin
  <2>3. slice' \in Nat
    <3>1. CASE WriteSlice
      <4>1. offset < BUFFER_SIZE
        BY <1>2, <3>1 DEF Live, TailInv, WriteSlice, CloseJoin
      <4> QED BY <3>1, <4>1, WriterAssumption DEF WriteSlice, Slice, Smaller, IInv, TypeOK
    <3>2. CASE ~WriteSlice
      BY <3>2 DEF IInv, TypeOK, thread_wwrite, WriteLock, WriteWait,
         WriteSpuriousWakeup, thread_wflush_nothing, thread_wclose, CloseJoin
    <3> QED BY <3>1, <3>2
  <2> QED BY <1>1, <2>1, <2>2, <2>3 DEF IInv, TypeOK
<1>4. (Drained \/ Live)' /\ (Drained => Drained')
  <2>1. (wpc' = "advance" <=> wpc = "advance") /\ (wpc = "advance" => slice' = slice)
    BY DEF thread_wwrite, WriteLock, WriteWait, WriteSpuriousWakeup, WriteSlice,
           thread_wflush_nothing, thread_wclose, CloseJoin
  <2> QED BY <1>1, <2>1, QuietStep DEF IInv
<1>5. ControlInv'
  <2>1. closing <=> wpc' \in {"join", "closed"}
    BY DEF IInv, ControlInv, thread_wwrite, WriteLock, WriteWait,
       WriteSpuriousWakeup, WriteSlice, thread_wflush_nothing, thread_wclose, CloseJoin
  <2>2. wpc' = "closed" => kpc = "done"
    BY DEF IInv, ControlInv, Joined, thread_wwrite, WriteLock, WriteWait,
       WriteSpuriousWakeup, WriteSlice, thread_wflush_nothing, thread_wclose, CloseJoin
  <2>3. /\ wpc' \in {"check", "copy", "waiting"} => want' > 0
        /\ wpc' \notin Writing => want' = 0
    BY DEF IInv, TypeOK, ControlInv, Writing, thread_wwrite, WriteLock, WriteWait,
       WriteSpuriousWakeup, WriteSlice, thread_wflush_nothing, thread_wclose, CloseJoin
  <2>4. wpc' \in {"copy", "advance"} =>
          /\ state[out_buffer] = "EMPTY"
          /\ slice' > 0 /\ slice' <= want' /\ offset + slice' <= BUFFER_SIZE
    <3>1. CASE WriteSlice
      <4>1. state[out_buffer] = "EMPTY"
        BY <3>1 DEF WriteSlice, NoSpace, IInv, TypeOK
      <4>2. offset < BUFFER_SIZE /\ want > 0
        BY <1>2, <3>1 DEF Live, TailInv, WriteSlice, CloseJoin, IInv, ControlInv
      <4> QED BY <3>1, <4>1, <4>2, WriterAssumption
              DEF WriteSlice, Slice, Smaller, IInv, TypeOK
    <3>2. CASE ~WriteSlice
      BY <3>2 DEF IInv, ControlInv, thread_wwrite, WriteLock, WriteWait,
         WriteSpuriousWakeup, thread_wflush_nothing, thread_wclose, CloseJoin
    <3> QED BY <3>1, <3>2
  <2> QED BY <1>1, <1>4, <2>1, <2>2, <2>3, <2>4 DEF IInv, ControlInv
<1>6. NoLostWakeup'
  <2>1. wpc' = "waiting" => state[out_buffer] = "FULL" /\ kpc \notin {"waiting", "done"}
    <3>1. CASE WriteWait
      <4>1. state[out_buffer] = "FULL" /\ Live /\ ~closing
        BY <1>2, <3>1 DEF WriteWait, NoSpace, CloseJoin
      <4>2. kpc # "done"
        BY <4>1 DEF IInv, ControlInv, Drained
      <4>3. state[buffer] # "EMPTY"
        BY <4>1, EmptyRing DEF IInv, Live
      <4> QED BY <4>1, <4>2, <4>3 DEF IInv, NoLostWakeup
    <3>2. CASE ~WriteWait
      BY <3>2 DEF IInv, NoLostWakeup, thread_wwrite, WriteLock, WriteSlice,
         WriteSpuriousWakeup, thread_wflush_nothing, thread_wclose, CloseJoin
    <3> QED BY <3>1, <3>2
  <2> QED BY <1>1, <2>1 DEF IInv, NoLostWakeup
<1>7. InOrder(written)'
  BY <1>1 DEF IInv
<1> QED BY <1>3, <1>4, <1>5, <1>6, <1>7 DEF IInv

(* The close wakes the consumer.                                           *)
LEMMA CloseSignalStep ==
  ASSUME IInv, CloseSignal
  PROVE  IInv'
<1> USE DEF ring, handle, locals, child, history, CloseSignal
<1>1. UNCHANGED <<ring, handle, mutex, buffer, locals, child, history>>
  OBVIOUS
<1>2. kpc' = Signal(kpc) /\ closing' = TRUE /\ wpc = "close" /\ wpc' = "join"
  OBVIOUS
<1>3. TypeOK'
  <2>1. kpc' \in ConsumerPCs /\ wpc' \in ClientPCs /\ closing' \in BOOLEAN
    BY <1>2 DEF IInv, TypeOK, ConsumerPCs, ClientPCs, Signal
  <2> QED BY <1>1, <2>1 DEF IInv, TypeOK
<1>4. (Drained \/ Live)' /\ (Drained => Drained')
  <2>1. kpc' \in {"flush", "reset"} <=> kpc \in {"flush", "reset"}
    BY <1>2 DEF Signal
  <2> QED BY <1>1, <1>2, <2>1, QuietStep DEF IInv
<1>5. ControlInv'
  <2>1. \A pc \in {"write", "flush", "reset", "destroy", "done"} :
          kpc' = pc <=> kpc = pc
    BY <1>2 DEF Signal
  <2> QED BY <1>1, <1>2, <1>4, <2>1 DEF IInv, ControlInv, Writing
<1>6. NoLostWakeup' /\ InOrder(written)'
  BY <1>1, <1>2 DEF IInv, NoLostWakeup, Signal
<1> QED BY <1>3, <1>4, <1>5, <1>6 DEF IInv

(* What the consumer finds in its slice when it hands it over: the bytes   *)
(* that follow those the child has.                                        *)
LEMMA ConsumerSliceFollows ==
  ASSUME IInv, kpc = "write"
  PROVE  \A i \in 1..len[buffer] : space[buffer][i] = Len(written) + i
<1>1. buffer \in Slots /\ state[buffer] \in {"EMPTY", "FULL"}
  BY DEF IInv, TypeOK
<1>2. CASE Drained
  BY <1>1, <1>2 DEF Drained
<1>3. CASE Live /\ state[buffer] = "FULL"
  <2>1. Len(written) = 0 + Base(buffer)
    BY <1>3 DEF Live, FrontInv
  <2>2. \A i \in 1..len[buffer] : space[buffer][i] = Base(buffer) + i
    BY <1>1, <1>3 DEF Live, ChainInv
  <2>3. 1 \in 1..BUFFER_SIZE /\ Base(buffer) \in Int
    BY <1>1, WriterAssumption DEF IInv, TypeOK, Base
  <2> QED BY <2>1, <2>2, <2>3
<1>4. CASE Live /\ state[buffer] = "EMPTY"
  <2>1. buffer = out_buffer
    BY <1>4, EmptyRing DEF IInv, Live
  <2>2. len[buffer] = offset /\ Len(written) = 0 + (accepted - offset)
    BY <1>1, <1>4, <2>1 DEF Live, RingInv, FrontInv
  <2>3. \A i \in 1..offset : space[buffer][i] = accepted - offset + i
    BY <1>4, <2>1 DEF Live, TailInv
  <2>4. accepted \in Nat /\ offset \in Nat
    BY DEF IInv, TypeOK
  <2> QED BY <2>2, <2>3, <2>4
<1> QED BY <1>1, <1>2, <1>3, <1>4 DEF IInv

(* So the child receives the next bytes of the stream.                     *)
LEMMA ConsumerWriteBytes ==
  ASSUME IInv, ConsumerWrite
  PROVE  /\ written' = written \o Bytes(Len(written), len[buffer])
         /\ written' \in Seq(Nat) /\ InOrder(written')
         /\ Len(written') = Len(written) + len[buffer]
<1>1. /\ written \in Seq(Nat) /\ Len(written) \in Nat /\ len[buffer] \in 0..BUFFER_SIZE
      /\ space[buffer] \in [1..BUFFER_SIZE -> Nat]
  BY DEF IInv, TypeOK
<1>2. BUFFER_SIZE \in Nat /\ len[buffer] \in Nat
  BY <1>1, WriterAssumption
<1>3. \A i \in 1..len[buffer] : space[buffer][i] = Len(written) + i
  BY ConsumerSliceFollows DEF ConsumerWrite
<1>4. SubSeq(space[buffer], 1, len[buffer]) = Bytes(Len(written), len[buffer])
  BY <1>1, <1>2, <1>3, SliceIsBytes, Zenon
<1>5. written' = written \o Bytes(Len(written), len[buffer])
  BY <1>4 DEF ConsumerWrite
<1>6. InOrder(written)
  BY DEF IInv
<1> QED BY <1>1, <1>2, <1>5, <1>6, AppendInOrder, Zenon

(* The child's write.                                                      *)
LEMMA ConsumerWriteStep ==
  ASSUME IInv, ConsumerWrite
  PROVE  IInv'
<1> USE DEF ring, handle, locals, child, history
<1>1. /\ kpc = "write" /\ kpc' = "flush"
      /\ UNCHANGED <<ring, handle, closing, mutex, buffer, wpc, locals,
                     childFlushed, childOpen, history>>
  BY DEF ConsumerWrite
<1>2. written' \in Seq(Nat) /\ InOrder(written') /\ Len(written') = Len(written) + len[buffer]
  BY ConsumerWriteBytes
<1>3. TypeOK'
  BY <1>1, <1>2 DEF IInv, TypeOK, ConsumerPCs
<1>4. Drained => Drained'
  <2>1. Drained => len[buffer] = 0 /\ Len(written) = accepted /\ accepted \in Nat
    BY DEF Drained, IInv, TypeOK
  <2> QED BY <1>1, <1>2, <2>1 DEF Drained
<1>5. Live => Live'
  <2> SUFFICES ASSUME Live PROVE Live'
    OBVIOUS
  <2>1. RingInv' /\ ChainInv' /\ TailInv'
    BY <1>1 DEF Live, RingInv, Occupied, ChainInv, TailInv, Base, NextBuffer
  <2>2. Len(written) = 0 + IF state[buffer] = "FULL" THEN Base(buffer) ELSE accepted - offset
    BY <1>1 DEF Live, FrontInv
  <2>3. 1 \in 1..BUFFER_SIZE /\ Base(buffer) \in Int /\ accepted - offset \in Int
        /\ len[buffer] \in Int
    BY WriterAssumption DEF IInv, TypeOK, Base
  <2>4. Base(buffer)' = Base(buffer)
    BY <1>1 DEF Base
  <2>5. FrontInv'
    BY <1>1, <1>2, <2>2, <2>3, <2>4 DEF FrontInv
  <2> QED BY <2>1, <2>5 DEF Live
<1>6. ControlInv'
  BY <1>1, <1>4 DEF IInv, ControlInv
<1>7. NoLostWakeup'
  BY <1>1 DEF IInv, NoLostWakeup
<1> QED BY <1>2, <1>3, <1>4, <1>5, <1>6, <1>7 DEF IInv

(* The types of what the description of the ring is made of.               *)
LEMMA RingTypes ==
  ASSUME TypeOK
  PROVE  /\ buffer \in Slots /\ out_buffer \in Slots /\ Slots \subseteq Int
         /\ len \in [Slots -> 0..BUFFER_SIZE] /\ state \in [Slots -> {"EMPTY", "FULL"}]
         /\ accepted \in Nat /\ offset \in Nat /\ accepted - offset \in Int
         /\ \A b \in Slots : Base(b) \in Int /\ len[b] \in Nat
<1>1. 1 \in 1..BUFFER_SIZE
  BY WriterAssumption
<1>2. \A b \in Slots : space[b][1] \in Nat
  BY <1>1 DEF TypeOK
<1>3. \A b \in Slots : Base(b) \in Int
  BY <1>2 DEF Base
<1>4. /\ len \in [Slots -> 0..BUFFER_SIZE] /\ state \in [Slots -> {"EMPTY", "FULL"}]
      /\ buffer \in Slots /\ out_buffer \in Slots /\ accepted \in Nat /\ offset \in Nat
  BY DEF TypeOK
<1>5. Slots \subseteq Int /\ accepted - offset \in Int
  BY <1>4 DEF Slots
<1>6. \A b \in Slots : len[b] \in Nat
  BY <1>4, WriterAssumption
<1> QED BY <1>3, <1>4, <1>5, <1>6

(* A full slice that has been handed over is released: the arc of the full *)
(* slices loses its first one.                                             *)
LEMMA ReleaseStep ==
  ASSUME TypeOK, Live, ConsumerReset, state[buffer] = "FULL"
  PROVE  Live'
<1> USE DEF ring, handle, locals, child, history
<1>1. /\ buffer \in Slots /\ out_buffer \in Slots /\ Slots \subseteq Int
      /\ len \in [Slots -> 0..BUFFER_SIZE] /\ state \in [Slots -> {"EMPTY", "FULL"}]
      /\ accepted \in Nat /\ offset \in Nat /\ accepted - offset \in Int
      /\ \A b \in Slots : Base(b) \in Int /\ len[b] \in Nat
  BY RingTypes
<1>2. /\ buffer' = NextBuffer(buffer) /\ NextBuffer(buffer) \in Slots
      /\ NextBuffer(buffer) = IF buffer = BUFFERS - 1 THEN 0 ELSE buffer + 1
  BY <1>1, NextBufferFacts DEF ConsumerReset
<1>3. /\ UNCHANGED <<space, handle, written, accepted, slice>>
      /\ wpc' = "advance" => wpc = "advance"
      /\ kpc = "reset"
  BY DEF ConsumerReset, Signal
<1>4. kpc' = "check"
  BY <1>1 DEF Live, RingInv, ConsumerReset, AfterWrite
<1>5. \A b \in Slots : /\ state'[b] = IF b = buffer THEN "EMPTY" ELSE state[b]
                       /\ len'[b] = IF b = buffer THEN 0 ELSE len[b]
  BY <1>1 DEF ConsumerReset
<1>6. state[out_buffer] = "FULL" => offset = 0
  BY DEF Live, TailInv
<1>7. /\ buffer # out_buffer => state[out_buffer] = "EMPTY"
      /\ NextBuffer(buffer) # out_buffer => state[NextBuffer(buffer)] = "FULL" /\ NextBuffer(buffer) # buffer
  BY <1>1, <1>2, WriterAssumption DEF Live, RingInv, Occupied, Slots
<1>8. RingInv'
  <2> SUFFICES ASSUME NEW b \in Slots
               PROVE  /\ (state'[b] = "FULL") <=> Occupied(b)'
                      /\ state'[b] = "FULL" => len'[b] > 0
                      /\ state'[b] = "EMPTY" => len'[b] = IF b = out_buffer THEN offset ELSE 0
    BY <1>3 DEF RingInv
  <2>1. (state'[b] = "FULL") <=> Occupied(b)'
    <3>1. (state[b] = "FULL") <=> Occupied(b)
      BY DEF Live, RingInv
    <3>2. state'[out_buffer] = "EMPTY"
      BY <1>1, <1>5, <1>7
    <3>3. Occupied(b)' <=> IF NextBuffer(buffer) < out_buffer
                           THEN NextBuffer(buffer) <= b /\ b < out_buffer
                           ELSE out_buffer < NextBuffer(buffer)
                                /\ (NextBuffer(buffer) <= b \/ b < out_buffer)
      BY <1>2, <1>3, <3>2 DEF Occupied
    <3>4. CASE b = buffer
      BY <1>1, <1>2, <1>5, <3>3, <3>4, WriterAssumption DEF Slots
    <3>5. CASE b # buffer
      <4>1. Occupied(b) <=> Occupied(b)'
        BY <1>1, <1>2, <1>7, <3>1, <3>3, <3>5, WriterAssumption DEF Occupied, Slots
      <4> QED BY <1>5, <3>1, <3>5, <4>1
    <3> QED BY <3>4, <3>5
  <2>2. state'[b] = "FULL" => len'[b] > 0
    BY <1>5 DEF Live, RingInv
  <2>3. state'[b] = "EMPTY" => len'[b] = IF b = out_buffer THEN offset ELSE 0
    BY <1>5, <1>6 DEF Live, RingInv
  <2> QED BY <2>1, <2>2, <2>3
<1>9. ChainInv'
  BY <1>3, <1>5 DEF Live, ChainInv, Base, NextBuffer
<1>10. TailInv'
  BY <1>1, <1>3, <1>5 DEF Live, TailInv
<1>11. FrontInv'
  <2>1. Len(written) = len[buffer] + Base(buffer)
    BY <1>3 DEF Live, FrontInv
  <2>2. Len(written) = IF NextBuffer(buffer) = out_buffer THEN accepted - offset
                       ELSE Base(NextBuffer(buffer))
    <3>1. Base(buffer) + len[buffer] = len[buffer] + Base(buffer)
      BY <1>1
    <3> QED BY <1>1, <2>1, <3>1 DEF Live, ChainInv
  <2>3. state'[buffer'] = IF NextBuffer(buffer) = out_buffer THEN "EMPTY" ELSE "FULL"
    BY <1>1, <1>2, <1>5, <1>7
  <2>4. Base(buffer)' = Base(NextBuffer(buffer)) /\ (accepted - offset)' = accepted - offset
    BY <1>2, <1>3 DEF Base
  <2>5. Len(written') = IF state'[buffer'] = "FULL" THEN Base(buffer)' ELSE (accepted - offset)'
    BY <1>3, <2>2, <2>3, <2>4
  <2>6. Base(buffer)' \in Int /\ (accepted - offset)' \in Int
    BY <1>1, <1>2, <2>4
  <2> QED BY <1>4, <2>5, <2>6 DEF FrontInv
<1> QED BY <1>8, <1>9, <1>10, <1>11 DEF Live

(* The consumer releases its slice and wakes the writer; when it finds it  *)
(* empty or partly filled, at the close, nothing is left in the ring.      *)
LEMMA ConsumerResetStep ==
  ASSUME IInv, ConsumerReset
  PROVE  IInv'
<1> USE DEF ring, handle, locals, child, history
<1>1. /\ kpc = "reset" /\ kpc' = AfterWrite(len[buffer]) /\ wpc' = Signal(wpc)
      /\ UNCHANGED <<space, handle, closing, locals, child, history>>
  BY DEF ConsumerReset
<1>2. /\ buffer \in Slots /\ out_buffer \in Slots
      /\ len \in [Slots -> 0..BUFFER_SIZE] /\ state \in [Slots -> {"EMPTY", "FULL"}]
      /\ flush \in [Slots -> BOOLEAN]
      /\ accepted \in Nat /\ offset \in Nat
  BY DEF IInv, TypeOK
<1>3. \A b \in Slots : /\ state'[b] = IF b = buffer THEN "EMPTY" ELSE state[b]
                       /\ len'[b] = IF b = buffer THEN 0 ELSE len[b]
  BY <1>2 DEF ConsumerReset
<1>4. TypeOK'
  <2>1. /\ state' \in [Slots -> {"EMPTY", "FULL"}] /\ flush' \in [Slots -> BOOLEAN]
        /\ len' \in [Slots -> 0..BUFFER_SIZE]
    BY <1>2, WriterAssumption DEF ConsumerReset
  <2>2. kpc' \in ConsumerPCs /\ wpc' \in ClientPCs /\ mutex' \in {"none", "consumer", "client"}
    BY <1>1 DEF IInv, TypeOK, ConsumerReset, AfterWrite, Signal, ConsumerPCs, ClientPCs
  <2>3. buffer' \in Slots
    BY <1>2, NextBufferFacts DEF ConsumerReset
  <2> QED BY <1>1, <2>1, <2>2, <2>3 DEF IInv, TypeOK
<1>5. Drained \/ state[buffer] = "EMPTY" => Drained'
  <2>1. CASE Drained
    BY <1>1, <1>3, <2>1 DEF Drained
  <2>2. CASE Live /\ state[buffer] = "EMPTY"
    <3>1. buffer = out_buffer /\ \A b \in Slots : state[b] = "EMPTY"
      BY <2>2, EmptyRing DEF IInv, Live
    <3>2. \A b \in Slots : len[b] = IF b = out_buffer THEN offset ELSE 0
      BY <2>2, <3>1 DEF Live, RingInv
    <3>3. Len(written) = offset + (accepted - offset)
      BY <1>1, <1>2, <2>2, <3>1, <3>2 DEF Live, FrontInv
    <3>4. Len(written) = accepted
      BY <1>2, <3>3
    <3>5. closing
      BY <1>1, <2>2 DEF IInv, ControlInv
    <3> QED BY <1>1, <1>3, <3>1, <3>2, <3>4, <3>5 DEF Drained
  <2> QED BY <2>1, <2>2 DEF IInv
<1>6. (Drained \/ Live)'
  BY <1>2, <1>5, ReleaseStep DEF IInv
<1>7. kpc' \in {"check", "destroy"} /\ (kpc' = "destroy" => Drained')
  <2>1. Live /\ state[buffer] = "FULL" => len[buffer] > 0
    BY <1>2 DEF Live, RingInv
  <2> QED BY <1>1, <1>2, <1>5, <2>1 DEF AfterWrite, IInv
<1>8. ControlInv'
  <2>2. \/ wpc \notin {"waiting", "closed"} /\ wpc' = wpc
        \/ wpc = "waiting" /\ wpc' = "woken"
    BY <1>1 DEF Signal, IInv, ControlInv
  <2>3. /\ wpc' \in {"check", "copy", "waiting"} => want > 0
        /\ wpc' \notin Writing => want = 0
        /\ closing <=> wpc' \in {"join", "closed"}
    BY <2>2 DEF IInv, ControlInv, Writing
  <2>4. wpc' \in {"copy", "advance"} =>
          /\ state'[out_buffer] = "EMPTY"
          /\ slice > 0 /\ slice <= want /\ offset + slice <= BUFFER_SIZE
    BY <1>2, <1>3, <2>2 DEF IInv, ControlInv
  <2> QED BY <1>1, <1>7, <2>2, <2>3, <2>4 DEF IInv, ControlInv
<1>9. NoLostWakeup'
  BY <1>1, <1>7 DEF NoLostWakeup, Signal
<1>10. InOrder(written)'
  BY <1>1 DEF IInv
<1> QED BY <1>4, <1>6, <1>8, <1>9, <1>10 DEF IInv

(* The memcpy fills the part of the slice behind offset.                   *)
LEMMA WriteCopyStep ==
  ASSUME IInv, WriteCopy
  PROVE  IInv'
<1> USE DEF ring, handle, locals, child, history, consumer
<1>1. /\ wpc = "copy" /\ wpc' = "advance"
      /\ UNCHANGED <<state, len, flush, handle, closing, mutex, consumer, locals,
                     child, history>>
  BY DEF WriteCopy
<1>2. ~closing /\ Live
  BY <1>1, LiveUnlessClosing DEF IInv, ControlInv
<1>3. /\ state[out_buffer] = "EMPTY" /\ slice > 0 /\ slice <= want
      /\ offset + slice <= BUFFER_SIZE
  BY <1>1 DEF IInv, ControlInv
<1>4. /\ out_buffer \in Slots /\ accepted \in Nat /\ offset \in Nat /\ slice \in Nat
      /\ space \in [Slots -> [1..BUFFER_SIZE -> Nat]]
  BY DEF IInv, TypeOK
<1> DEFINE filled == [i \in 1..BUFFER_SIZE |->
                        IF i \in offset + 1 .. offset + slice
                        THEN accepted + i - offset ELSE space[out_buffer][i]]
<1>5. space' = [space EXCEPT ![out_buffer] = filled]
  BY DEF WriteCopy
<1>6. filled \in [1..BUFFER_SIZE -> Nat]
  <2> SUFFICES ASSUME NEW i \in 1..BUFFER_SIZE
               PROVE  (IF i \in offset + 1 .. offset + slice
                       THEN accepted + i - offset ELSE space[out_buffer][i]) \in Nat
    OBVIOUS
  <2> QED BY <1>4, WriterAssumption
<1>7. /\ \A i \in 1..offset : filled[i] = space[out_buffer][i]
      /\ \A i \in 1..slice : filled[offset + i] = accepted + i
  BY <1>3, <1>4, WriterAssumption
<1> HIDE DEF filled
<1>8. /\ space' \in [Slots -> [1..BUFFER_SIZE -> Nat]]
      /\ space'[out_buffer] = filled
      /\ \A b \in Slots : b # out_buffer => space'[b] = space[b]
  BY <1>4, <1>5, <1>6
<1>9. TypeOK'
  BY <1>1, <1>8 DEF IInv, TypeOK, ClientPCs
<1>10. Live'
  <2>1. RingInv'
    BY <1>1, <1>2 DEF Live, RingInv, Occupied
  <2>2. ChainInv'
    <3> SUFFICES ASSUME NEW b \in Slots, state[b] = "FULL"
                 PROVE  /\ \A i \in 1..len[b] : space'[b][i] = Base(b)' + i
                        /\ Base(b)' + len[b] <= accepted - offset
                        /\ Base(b)' + len[b] = IF NextBuffer(b) = out_buffer
                                               THEN accepted - offset
                                               ELSE Base(NextBuffer(b))'
      BY <1>1 DEF ChainInv, NextBuffer
    <3>1. b # out_buffer /\ Base(b)' = Base(b) /\ space'[b] = space[b]
      BY <1>3, <1>8 DEF Base
    <3>2. NextBuffer(b) # out_buffer => Base(NextBuffer(b))' = Base(NextBuffer(b))
      <4>1. NextBuffer(b) \in Slots
        BY NextBufferFacts
      <4>2. NextBuffer(b)' = NextBuffer(b)
        BY DEF NextBuffer
      <4> QED BY <1>8, <4>1, <4>2 DEF Base
    <3> QED BY <1>2, <3>1, <3>2 DEF Live, ChainInv
  <2>3. TailInv'
    BY <1>1, <1>2, <1>3, <1>7, <1>8 DEF Live, TailInv
  <2>4. FrontInv'
    <3>1. state[buffer] = "FULL" => Base(buffer)' = Base(buffer)
      <4>1. buffer \in Slots
        BY DEF IInv, TypeOK
      <4> QED BY <1>1, <1>3, <1>8, <4>1 DEF Base
    <3> QED BY <1>1, <1>2, <3>1 DEF Live, FrontInv
  <2> QED BY <2>1, <2>2, <2>3, <2>4 DEF Live
<1>11. ControlInv'
  <2>1. kpc \notin {"destroy", "done"}
    BY <1>2 DEF IInv, ControlInv, Drained
  <2> QED BY <1>1, <1>2, <1>3, <2>1 DEF IInv, ControlInv, Writing
<1>12. NoLostWakeup' /\ InOrder(written)'
  BY <1>1 DEF IInv, NoLostWakeup
<1> QED BY <1>9, <1>10, <1>11, <1>12 DEF IInv

(* A slice with n bytes in it is handed over: the arc of the full slices   *)
(* gains its last one.                                                     *)
LEMMA PublishStep ==
  ASSUME TypeOK, Live, state[out_buffer] = "EMPTY",
         kpc \in {"flush", "reset"} => state[buffer] = "FULL",
         NEW n \in 1..BUFFER_SIZE,
         \A i \in 1..n : space[out_buffer][i] = accepted - offset + i,
         accepted' = accepted - offset + n,
         \A b \in Slots : /\ state'[b] = IF b = out_buffer THEN "FULL" ELSE state[b]
                          /\ len'[b] = IF b = out_buffer THEN n ELSE len[b],
         offset' = 0, out_buffer' = NextBuffer(out_buffer),
         UNCHANGED <<space, buffer, written>>,
         wpc' # "advance",
         kpc' \in {"flush", "reset"} <=> kpc \in {"flush", "reset"}
  PROVE  Live'
<1>1. /\ buffer \in Slots /\ out_buffer \in Slots /\ Slots \subseteq Int
      /\ len \in [Slots -> 0..BUFFER_SIZE] /\ state \in [Slots -> {"EMPTY", "FULL"}]
      /\ accepted \in Nat /\ offset \in Nat /\ accepted - offset \in Int
      /\ \A b \in Slots : Base(b) \in Int /\ len[b] \in Nat
  BY RingTypes
<1>2. n \in Nat /\ n > 0
  BY WriterAssumption
<1>3. /\ NextBuffer(out_buffer) \in Slots
      /\ NextBuffer(out_buffer) = IF out_buffer = BUFFERS - 1 THEN 0 ELSE out_buffer + 1
  BY <1>1, NextBufferFacts
<1>4. Base(out_buffer) = accepted - offset
  <2>1. space[out_buffer][1] = accepted - offset + 1
    BY <1>2
  <2> QED BY <1>1, <2>1 DEF Base
<1>5. \A b \in Slots : Base(b)' = Base(b) /\ NextBuffer(b)' = NextBuffer(b)
  BY DEF Base, NextBuffer
<1>6. state[buffer] = "EMPTY" => buffer = out_buffer
  BY EmptyRing DEF Live
<1>7. RingInv'
  <2> SUFFICES ASSUME NEW b \in Slots
               PROVE  /\ (state'[b] = "FULL") <=> Occupied(b)'
                      /\ state'[b] = "FULL" => len'[b] > 0
                      /\ state'[b] = "EMPTY" => len'[b] = IF b = out_buffer' THEN offset' ELSE 0
    BY DEF RingInv
  <2>1. (state'[b] = "FULL") <=> Occupied(b)'
    <3>1. (state[b] = "FULL") <=> Occupied(b)
      BY DEF Live, RingInv
    <3>2. state'[buffer] = "FULL"
      BY <1>1, <1>6
    <3>3. Occupied(b)' <=>
            IF buffer < NextBuffer(out_buffer) THEN buffer <= b /\ b < NextBuffer(out_buffer)
            ELSE IF NextBuffer(out_buffer) < buffer
                 THEN buffer <= b \/ b < NextBuffer(out_buffer)
                 ELSE TRUE
      BY <1>1, <1>3, <3>2 DEF Occupied
    <3>4. CASE b = out_buffer
      BY <1>1, <1>3, <3>3, <3>4, WriterAssumption DEF Slots
    <3>5. CASE b # out_buffer
      <4>1. Occupied(b) <=> Occupied(b)'
        BY <1>1, <1>3, <3>1, <3>3, <3>5, WriterAssumption DEF Occupied, Slots
      <4> QED BY <3>1, <3>5, <4>1
    <3> QED BY <3>4, <3>5
  <2>2. state'[b] = "FULL" => len'[b] > 0
    BY <1>2 DEF Live, RingInv
  <2>3. state'[b] = "EMPTY" => len'[b] = IF b = out_buffer' THEN offset' ELSE 0
    BY DEF Live, RingInv
  <2> QED BY <2>1, <2>2, <2>3
<1>8. ChainInv'
  <2> SUFFICES ASSUME NEW b \in Slots, state'[b] = "FULL"
               PROVE  /\ \A i \in 1..len'[b] : space[b][i] = Base(b) + i
                      /\ Base(b) + len'[b] <= accepted' - 0
                      /\ Base(b) + len'[b] = IF NextBuffer(b) = NextBuffer(out_buffer)
                                             THEN accepted' - 0 ELSE Base(NextBuffer(b))
    BY <1>5, NextBufferFacts DEF ChainInv
  <2>1. CASE b = out_buffer
    BY <1>1, <1>2, <1>4, <2>1
  <2>2. CASE b # out_buffer
    <3>1. NextBuffer(b) # NextBuffer(out_buffer)
      <4>1. NextBuffer(b) = IF b = BUFFERS - 1 THEN 0 ELSE b + 1
        BY NextBufferFacts
      <4> QED BY <1>1, <1>3, <2>2, <4>1, WriterAssumption DEF Slots
    <3>2. /\ \A i \in 1..len[b] : space[b][i] = Base(b) + i
          /\ Base(b) + len[b] <= accepted - offset
          /\ Base(b) + len[b] = IF NextBuffer(b) = out_buffer THEN accepted - offset
                                ELSE Base(NextBuffer(b))
      BY <2>2 DEF Live, ChainInv
    <3>3. Base(b) + len[b] <= accepted'
      BY <1>1, <1>2, <3>2
    <3> QED BY <1>1, <1>2, <1>4, <2>2, <3>1, <3>2, <3>3
  <2> QED BY <2>1, <2>2
<1>9. TailInv'
  BY <1>3, WriterAssumption DEF TailInv
<1>10. FrontInv'
  <2>1. Base(buffer)' = Base(buffer) /\ state'[buffer] = "FULL"
    BY <1>1, <1>5, <1>6
  <2>2. CASE buffer = out_buffer
    BY <1>1, <1>4, <2>1, <2>2 DEF Live, FrontInv
  <2>3. CASE buffer # out_buffer
    BY <1>1, <1>6, <2>1, <2>3 DEF Live, FrontInv
  <2> QED BY <2>2, <2>3
<1> QED BY <1>7, <1>8, <1>9, <1>10 DEF Live

(* thread_wwrite counts the bytes it has copied, and hands the slice over  *)
(* when that filled it.                                                    *)
LEMMA WriteAdvanceStep ==
  ASSUME IInv, WriteAdvance
  PROVE  IInv'
<1> USE DEF ring, handle, locals, child, history, consumer
<1>1. /\ wpc = "advance" /\ want' = want - slice /\ accepted' = accepted + slice
      /\ UNCHANGED <<space, closing, buffer, slice, child, flushAsked, flushWanted>>
  BY DEF WriteAdvance
<1>2. ~closing /\ Live
  BY <1>1, LiveUnlessClosing DEF IInv, ControlInv
<1>3. /\ state[out_buffer] = "EMPTY" /\ slice > 0 /\ slice <= want
      /\ offset + slice <= BUFFER_SIZE
  BY <1>1 DEF IInv, ControlInv
<1>4. /\ buffer \in Slots /\ out_buffer \in Slots /\ Slots \subseteq Int
      /\ len \in [Slots -> 0..BUFFER_SIZE] /\ state \in [Slots -> {"EMPTY", "FULL"}]
      /\ accepted \in Nat /\ offset \in Nat /\ accepted - offset \in Int
      /\ \A b \in Slots : Base(b) \in Int /\ len[b] \in Nat
  BY RingTypes DEF IInv
<1>5. slice \in Nat /\ want \in Nat /\ flush \in [Slots -> BOOLEAN]
  BY DEF IInv, TypeOK
<1>6. len[out_buffer] = offset
  BY <1>2, <1>3, <1>4 DEF Live, RingInv
<1>7. /\ len' \in [Slots -> 0..BUFFER_SIZE]
      /\ \A b \in Slots : len'[b] = IF b = out_buffer THEN offset + slice ELSE len[b]
  <2>1. len' = [len EXCEPT ![out_buffer] = offset + slice]
    BY <1>4, <1>6 DEF WriteAdvance
  <2>2. offset + slice \in 0..BUFFER_SIZE
    BY <1>3, <1>4, <1>5, WriterAssumption
  <2> QED BY <1>4, <2>1, <2>2
<1>8. \/ wpc' = "check" /\ want' > 0 /\ mutex' = "client"
      \/ wpc' = "idle" /\ want' = 0 /\ mutex' = "none"
  BY <1>1, <1>3, <1>5 DEF WriteAdvance
<1>9. \A i \in 1..(offset + slice) : space[out_buffer][i] = accepted - offset + i
  <2>1. \A i \in 1..offset : space[out_buffer][i] = accepted - offset + i
    BY <1>2 DEF Live, TailInv
  <2>2. \A i \in 1..slice : space[out_buffer][offset + i] = accepted + i
    BY <1>1, <1>2 DEF Live, TailInv
  <2> SUFFICES ASSUME NEW i \in 1..(offset + slice), i > offset
               PROVE  space[out_buffer][i] = accepted - offset + i
    BY <1>4, <1>5, <2>1
  <2>3. i - offset \in 1..slice /\ offset + (i - offset) = i
    BY <1>4, <1>5
  <2>4. space[out_buffer][i] = accepted + (i - offset)
    BY <2>2, <2>3
  <2> QED BY <1>4, <1>5, <2>4
<1>10. kpc \in {"write", "flush", "reset"} => state[buffer] = "FULL" /\ buffer # out_buffer
  BY <1>2, <1>3 DEF IInv, ControlInv
<1>11. kpc \notin {"destroy", "done"}
  BY <1>2 DEF IInv, ControlInv, Drained
<1>12. CASE offset + slice >= BUFFER_SIZE
  <2>1. /\ state' = [state EXCEPT ![out_buffer] = "FULL"]
        /\ flush' = [flush EXCEPT ![out_buffer] = FALSE]
        /\ kpc' = Signal(kpc) /\ offset' = 0 /\ out_buffer' = NextBuffer(out_buffer)
    BY <1>12 DEF WriteAdvance
  <2>2. \A b \in Slots : state'[b] = IF b = out_buffer THEN "FULL" ELSE state[b]
    BY <1>4, <2>1
  <2>3. out_buffer' \in Slots
    BY <1>4, <2>1, NextBufferFacts
  <2>4. TypeOK'
    <3>1. state' \in [Slots -> {"EMPTY", "FULL"}] /\ flush' \in [Slots -> BOOLEAN]
      BY <1>4, <1>5, <2>1
    <3>2. offset' \in Nat /\ want' \in Nat /\ accepted' \in Nat
      BY <1>1, <1>3, <1>4, <1>5, <2>1
    <3>3. kpc' \in ConsumerPCs /\ wpc' \in ClientPCs /\ mutex' \in {"none", "consumer", "client"}
      BY <1>8, <2>1 DEF IInv, TypeOK, ConsumerPCs, ClientPCs, Signal
    <3> QED BY <1>1, <1>7, <2>3, <3>1, <3>2, <3>3 DEF IInv, TypeOK
  <2>5. Live'
    <3>1. offset + slice \in 1..BUFFER_SIZE /\ accepted' = accepted - offset + (offset + slice)
      BY <1>1, <1>3, <1>4, <1>5, WriterAssumption
    <3>2. kpc' \in {"flush", "reset"} <=> kpc \in {"flush", "reset"}
      BY <2>1 DEF Signal
    <3>3. wpc' # "advance"
      BY <1>8
    <3>4. TypeOK
      BY DEF IInv
    <3>5. \A b \in Slots :
            /\ state'[b] = IF b = out_buffer THEN "FULL" ELSE state[b]
            /\ len'[b] = IF b = out_buffer THEN offset + slice ELSE len[b]
      BY <1>7, <2>2
    <3> QED BY <1>1, <1>2, <1>3, <1>9, <1>10, <2>1, <3>1, <3>2, <3>3, <3>4, <3>5,
               PublishStep
  <2>6. ControlInv'
    <3>1. \A pc \in {"write", "flush", "reset", "destroy", "done"} : kpc' = pc <=> kpc = pc
      BY <2>1 DEF Signal
    <3>2. kpc' \in {"write", "flush", "reset"} => state'[buffer] = "FULL"
      BY <1>4, <1>10, <2>2, <3>1
    <3> QED BY <1>1, <1>2, <1>8, <1>11, <3>1, <3>2 DEF IInv, ControlInv, Writing
  <2>7. NoLostWakeup'
    BY <1>8, <2>1 DEF NoLostWakeup, Signal
  <2> QED BY <1>1, <2>4, <2>5, <2>6, <2>7 DEF IInv
<1>13. CASE ~(offset + slice >= BUFFER_SIZE)
  <2>1. offset' = offset + slice /\ UNCHANGED <<state, flush, kpc, out_buffer>>
    BY <1>13 DEF WriteAdvance
  <2>2. TypeOK'
    <3>1. offset' \in Nat /\ want' \in Nat /\ accepted' \in Nat
      BY <1>1, <1>3, <1>4, <1>5, <2>1
    <3>2. wpc' \in ClientPCs /\ mutex' \in {"none", "consumer", "client"}
      BY <1>8 DEF ClientPCs
    <3> QED BY <1>1, <1>7, <2>1, <3>1, <3>2 DEF IInv, TypeOK
  <2>3. accepted' - offset' = accepted - offset
    BY <1>1, <1>4, <1>5, <2>1
  <2>4. \A b \in Slots : Base(b)' = Base(b) /\ NextBuffer(b)' = NextBuffer(b)
    BY <1>1 DEF Base, NextBuffer
  <2>5. RingInv'
    BY <1>1, <1>2, <1>3, <1>7, <2>1 DEF Live, RingInv, Occupied
  <2>6. ChainInv'
    <3> SUFFICES ASSUME NEW b \in Slots, state[b] = "FULL"
                 PROVE  /\ \A i \in 1..len'[b] : space[b][i] = Base(b) + i
                        /\ Base(b) + len'[b] <= accepted - offset
                        /\ Base(b) + len'[b] = IF NextBuffer(b) = out_buffer
                                               THEN accepted - offset ELSE Base(NextBuffer(b))
      BY <1>1, <2>1, <2>3, <2>4, NextBufferFacts DEF ChainInv
    <3>1. len'[b] = len[b]
      BY <1>3, <1>7
    <3> QED BY <1>2, <3>1 DEF Live, ChainInv
  <2>7. TailInv'
    <3>1. offset' < BUFFER_SIZE
      BY <1>4, <1>5, <1>13, <2>1, WriterAssumption
    <3> QED BY <1>1, <1>3, <1>8, <1>9, <2>1, <2>3, <3>1 DEF TailInv
  <2>8. FrontInv'
    <3>1. kpc \in {"flush", "reset"} => len'[buffer] = len[buffer]
      BY <1>4, <1>7, <1>10
    <3>2. Base(buffer)' = Base(buffer)
      BY <1>1 DEF Base
    <3> QED BY <1>1, <1>2, <2>1, <2>3, <3>1, <3>2 DEF Live, FrontInv
  <2>9. ControlInv'
    BY <1>1, <1>2, <1>8, <1>10, <1>11, <2>1 DEF IInv, ControlInv, Writing
  <2>10. NoLostWakeup'
    BY <1>1, <1>8, <2>1 DEF IInv, NoLostWakeup
  <2> QED BY <1>1, <2>2, <2>5, <2>6, <2>7, <2>8, <2>9, <2>10 DEF IInv, Live
<1> QED BY <1>12, <1>13

(* thread_wflush hands a partly filled slice over.                         *)
LEMMA FlushStep ==
  ASSUME IInv, thread_wflush
  PROVE  IInv'
<1> USE DEF ring, handle, locals, child, history, consumer
<1>1. /\ wpc = "idle" /\ offset > 0
      /\ state' = [state EXCEPT ![out_buffer] = "FULL"]
      /\ flush' = [flush EXCEPT ![out_buffer] = TRUE]
      /\ kpc' = Signal(kpc) /\ offset' = 0 /\ out_buffer' = NextBuffer(out_buffer)
      /\ flushAsked' = accepted /\ flushWanted' = accepted
      /\ UNCHANGED <<len, space, closing, mutex, buffer, wpc, locals, child, accepted>>
  BY DEF thread_wflush, HasPending
<1>2. ~closing /\ Live
  BY <1>1, LiveUnlessClosing DEF IInv, ControlInv
<1>3. /\ buffer \in Slots /\ out_buffer \in Slots /\ Slots \subseteq Int
      /\ len \in [Slots -> 0..BUFFER_SIZE] /\ state \in [Slots -> {"EMPTY", "FULL"}]
      /\ accepted \in Nat /\ offset \in Nat /\ accepted - offset \in Int
      /\ \A b \in Slots : Base(b) \in Int /\ len[b] \in Nat
  BY RingTypes DEF IInv
<1>4. state[out_buffer] = "EMPTY" /\ offset < BUFFER_SIZE
  BY <1>1, <1>2, <1>3 DEF Live, TailInv
<1>5. len[out_buffer] = offset
  BY <1>2, <1>3, <1>4 DEF Live, RingInv
<1>6. \A b \in Slots : /\ state'[b] = IF b = out_buffer THEN "FULL" ELSE state[b]
                       /\ len'[b] = IF b = out_buffer THEN offset ELSE len[b]
  BY <1>1, <1>3, <1>5
<1>7. kpc \in {"write", "flush", "reset"} => state[buffer] = "FULL" /\ buffer # out_buffer
  BY <1>2, <1>4 DEF IInv, ControlInv
<1>8. TypeOK'
  <2>1. state' \in [Slots -> {"EMPTY", "FULL"}]
    BY <1>1, <1>3
  <2>2. flush' \in [Slots -> BOOLEAN]
    BY <1>1, <1>3 DEF IInv, TypeOK
  <2>3. out_buffer' \in Slots
    BY <1>1, <1>3, NextBufferFacts
  <2>4. kpc' \in ConsumerPCs
    BY <1>1 DEF IInv, TypeOK, ConsumerPCs, Signal
  <2> QED BY <1>1, <2>1, <2>2, <2>3, <2>4 DEF IInv, TypeOK
<1>9. Live'
  <2>1. offset \in 1..BUFFER_SIZE /\ accepted' = accepted - offset + offset
    BY <1>1, <1>3, <1>4, WriterAssumption
  <2>2. kpc' \in {"flush", "reset"} <=> kpc \in {"flush", "reset"}
    BY <1>1 DEF Signal
  <2>3. wpc' # "advance" /\ TypeOK
    BY <1>1 DEF IInv
  <2>4. \A i \in 1..offset : space[out_buffer][i] = accepted - offset + i
    BY <1>2 DEF Live, TailInv
  <2> QED BY <1>1, <1>2, <1>4, <1>6, <1>7, <2>1, <2>2, <2>3, <2>4, PublishStep
<1>10. ControlInv'
  <2>1. \A pc \in {"write", "flush", "reset", "destroy", "done"} : kpc' = pc <=> kpc = pc
    BY <1>1 DEF Signal
  <2>2. kpc' \in {"write", "flush", "reset"} => state'[buffer] = "FULL"
    BY <1>3, <1>6, <1>7, <2>1
  <2>3. kpc \notin {"destroy", "done"}
    BY <1>2 DEF IInv, ControlInv, Drained
  <2> QED BY <1>1, <1>2, <2>1, <2>2, <2>3 DEF IInv, ControlInv, Writing
<1>11. NoLostWakeup' /\ InOrder(written)'
  BY <1>1 DEF IInv, NoLostWakeup, Signal
<1> QED BY <1>8, <1>9, <1>10, <1>11 DEF IInv

(* Stuttering steps change nothing the invariant mentions.                 *)
LEMMA StutterStep ==
  ASSUME IInv, UNCHANGED vars
  PROVE  IInv'
<1> USE DEF vars, ring, handle, consumer, locals, child, history
<1>1. (Drained \/ Live)' /\ (Drained => Drained')
  BY QuietStep DEF IInv
<1>2. TypeOK'
  BY DEF IInv, TypeOK
<1>3. ControlInv'
  BY <1>1 DEF IInv, ControlInv
<1>4. NoLostWakeup' /\ InOrder(written)'
  BY DEF IInv, NoLostWakeup
<1> QED BY <1>1, <1>2, <1>3, <1>4 DEF IInv

(* Every step of either thread preserves the invariant.                    *)
LEMMA NextIInv == IInv /\ [Next]_vars => IInv'
<1> SUFFICES ASSUME IInv, [Next]_vars PROVE IInv'
  OBVIOUS
<1>1. CASE ConsumerLock \/ ConsumerCheck \/ ConsumerSpuriousWakeup
           \/ ConsumerFlush \/ ConsumerDestroy
  BY <1>1, ConsumerQuiet
<1>2. CASE ConsumerWrite
  BY <1>2, ConsumerWriteStep
<1>3. CASE ConsumerReset
  BY <1>3, ConsumerResetStep
<1>4. CASE \/ \E n \in 0..MaxWriteLen : thread_wwrite(n)
           \/ WriteLock \/ WriteWait \/ WriteSpuriousWakeup \/ WriteSlice
           \/ thread_wflush_nothing \/ thread_wclose \/ CloseJoin
  BY <1>4, ClientQuiet
<1>5. CASE WriteCopy
  BY <1>5, WriteCopyStep
<1>6. CASE WriteAdvance
  BY <1>6, WriteAdvanceStep
<1>7. CASE thread_wflush
  BY <1>7, FlushStep
<1>8. CASE CloseSignal
  BY <1>8, CloseSignalStep
<1>9. CASE UNCHANGED vars
  BY <1>9, StutterStep
<1> QED BY <1>1, <1>2, <1>3, <1>4, <1>5, <1>6, <1>7, <1>8, <1>9
        DEF Next, Consumer, Writer, Closer, Closed

(* The child has been given no more than the program has written.          *)
LEMMA HandedOver ==
  ASSUME IInv
  PROVE  Len(written) <= accepted
<1>1. /\ buffer \in Slots /\ out_buffer \in Slots /\ Slots \subseteq Int
      /\ len \in [Slots -> 0..BUFFER_SIZE] /\ state \in [Slots -> {"EMPTY", "FULL"}]
      /\ accepted \in Nat /\ offset \in Nat /\ accepted - offset \in Int
      /\ \A b \in Slots : Base(b) \in Int /\ len[b] \in Nat
  BY RingTypes DEF IInv
<1>2. CASE Drained
  BY <1>1, <1>2 DEF Drained
<1>3. CASE Live /\ state[buffer] = "FULL"
  <2>1. Base(buffer) + len[buffer] <= accepted - offset
    BY <1>1, <1>3 DEF Live, ChainInv
  <2>2. Len(written) = len[buffer] + Base(buffer) \/ Len(written) = 0 + Base(buffer)
    BY <1>3 DEF Live, FrontInv
  <2>3. len[buffer] \in Nat /\ Base(buffer) \in Int
    BY <1>1
  <2> QED BY <1>1, <2>1, <2>2, <2>3
<1>4. CASE Live /\ state[buffer] = "EMPTY"
  <2>1. len[buffer] = offset
    <3>1. buffer = out_buffer
      BY <1>4, EmptyRing DEF IInv, Live
    <3> QED BY <1>1, <1>4, <3>1 DEF Live, RingInv
  <2>2. Len(written) = offset + (accepted - offset) \/ Len(written) = 0 + (accepted - offset)
    BY <1>4, <2>1 DEF Live, FrontInv
  <2> QED BY <1>1, <2>2
<1> QED BY <1>1, <1>2, <1>3, <1>4 DEF IInv

(* The invariant holds in every reachable state.                           *)
THEOREM Invariance == Spec => []IInv
<1>1. Init => IInv
  BY InitIInv
<1>2. IInv /\ [Next]_vars => IInv'
  BY NextIInv
<1> QED BY <1>1, <1>2, PTL DEF Spec

(* iow-thread.c: the memcpy of thread_wwrite and the child's write and     *)
(* flush, all of which run without the mutex, never touch the same slice,  *)
(* the child is not used after its wandio_wdestroy, and the ring is freed  *)
(* only when thread_consumer has returned.                                 *)
THEOREM MemorySafety == Spec => []MemorySafe
<1>1. IInv => MemorySafe
  <2> SUFFICES ASSUME IInv PROVE NoSlotRace /\ NoUseAfterFree
    BY DEF IInv, MemorySafe
  <2>1. NoSlotRace
    BY DEF IInv, ControlInv, NoSlotRace
  <2>2. NoUseAfterFree
    BY DEF IInv, ControlInv, NoUseAfterFree
  <2> QED BY <2>1, <2>2
<1> QED BY <1>1, Invariance, PTL

(* iow-thread.c: thread_consumer hands the child exactly the bytes of      *)
(* thread_wwrite, in order, and all of them before thread_wclose returns,  *)
(* with the slice that the last write left partly filled.                  *)
THEOREM HandOver == Spec => []InOrderHandOver
<1>1. IInv => InOrderHandOver
  <2> SUFFICES ASSUME IInv PROVE InOrderHandOver
    OBVIOUS
  <2>1. InOrder(written) /\ Len(written) <= accepted
    BY HandedOver DEF IInv
  <2>2. wpc = "closed" => Len(written) = accepted /\ ~childOpen
    BY DEF IInv, ControlInv, Drained
  <2> QED BY <2>1, <2>2 DEF InOrderHandOver
<1> QED BY <1>1, Invariance, PTL

(* iow-thread.c: a thread that sleeps on a condition variable has nothing  *)
(* to do, and the two never sleep at the same time during a write.         *)
THEOREM NoLostWakeups == Spec => []NoLostWakeup
<1>1. IInv => NoLostWakeup
  BY DEF IInv
<1> QED BY <1>1, Invariance, PTL
-----------------------------------------------------------------------------
(* The refinement: how far the program is in its call, seen from outside.  *)
Status == CASE wpc = "idle" -> "idle"
            [] wpc \in {"close", "join"} -> "closing"
            [] wpc = "closed" -> "closed"
            [] OTHER -> "writing"

(* A step that writes nothing to the child, accepts no byte and does not   *)
(* enter or leave a call is a stuttering step of the contract.             *)
LEMMA RefineStutter ==
  ASSUME UNCHANGED <<accepted, want, written>>,
         \/ wpc' = wpc
         \/ wpc \in Writing /\ wpc' \in Writing
         \/ wpc = "close" /\ wpc' = "join"
  PROVE  UNCHANGED Contract!wvars
<1>1. Status' = Status
  BY DEF Status, Writing
<1> QED BY <1>1 DEF Contract!wvars, Status

(* What the child is about to be given has been accepted.                  *)
LEMMA SliceWithinAccepted ==
  ASSUME IInv, kpc = "write"
  PROVE  Len(written) + len[buffer] <= accepted
<1>1. /\ buffer \in Slots /\ out_buffer \in Slots /\ Slots \subseteq Int
      /\ len \in [Slots -> 0..BUFFER_SIZE] /\ state \in [Slots -> {"EMPTY", "FULL"}]
      /\ accepted \in Nat /\ offset \in Nat /\ accepted - offset \in Int
      /\ \A b \in Slots : Base(b) \in Int /\ len[b] \in Nat
  BY RingTypes DEF IInv
<1>2. CASE Drained
  BY <1>1, <1>2 DEF Drained
<1>3. CASE Live /\ state[buffer] = "FULL"
  <2>1. Base(buffer) + len[buffer] <= accepted - offset /\ Len(written) = 0 + Base(buffer)
    BY <1>1, <1>3 DEF Live, ChainInv, FrontInv
  <2>2. len[buffer] \in Nat /\ Base(buffer) \in Int
    BY <1>1
  <2> QED BY <1>1, <2>1, <2>2
<1>4. CASE Live /\ state[buffer] = "EMPTY"
  <2>1. buffer = out_buffer
    BY <1>4, EmptyRing DEF IInv, Live
  <2>2. len[buffer] = offset /\ Len(written) = 0 + (accepted - offset)
    BY <1>1, <1>4, <2>1 DEF Live, RingInv, FrontInv
  <2> QED BY <1>1, <2>2
<1> QED BY <1>1, <1>2, <1>3, <1>4 DEF IInv

(* The child's write is the contract's Emit, or nothing when the consumer  *)
(* finds its slice empty at the close.                                     *)
LEMMA RefineWrite ==
  ASSUME IInv, ConsumerWrite
  PROVE  Contract!Emit \/ UNCHANGED Contract!wvars
<1> USE DEF locals, history
<1>1. written' = written \o Bytes(Len(written), len[buffer])
  BY ConsumerWriteBytes
<1>2. UNCHANGED <<accepted, want, wpc>> /\ kpc = "write"
  BY DEF ConsumerWrite
<1>3. /\ len[buffer] \in Nat /\ accepted \in Nat /\ written \in Seq(Nat)
      /\ Len(written) \in Nat
  BY RingTypes DEF IInv, TypeOK
<1>4. CASE len[buffer] = 0
  <2>1. written' = written
    BY <1>1, <1>3, <1>4 DEF Bytes
  <2> QED BY <1>2, <2>1, RefineStutter
<1>5. CASE len[buffer] > 0
  <2>1. len[buffer] \in 1 .. (accepted - Len(written))
    BY <1>2, <1>3, <1>5, SliceWithinAccepted
  <2>2. \E n \in 1 .. (accepted - Len(written)) :
          written' = written \o Contract!Bytes(Len(written), n)
    BY <1>1, <2>1 DEF Contract!Bytes, Bytes
  <2>3. Status # "closed" /\ Status' = Status
    <3>1. wpc # "closed"
      BY <1>2 DEF IInv, ControlInv
    <3> QED BY <1>2, <3>1, Zenon DEF Status
  <2>4. (accepted + want)' = accepted + want
    BY <1>2
  <2>5. Contract!Emit
    BY <1>2, <2>2, <2>3, <2>4, Zenon DEF Contract!Emit, Status
  <2> QED BY <2>5
<1> QED BY <1>3, <1>4, <1>5

(* thread_wwrite takes the bytes of a call in one or more steps, the last  *)
(* of which returns.                                                       *)
LEMMA RefineTake ==
  ASSUME IInv, WriteAdvance \/ (WriteLock /\ want = 0)
  PROVE  Contract!Take
<1> USE DEF locals, child, history
<1>1. accepted \in Nat /\ want \in Nat /\ slice \in Nat
  BY DEF IInv, TypeOK
<1>2. wpc \in Writing /\ written' = written
  BY DEF WriteAdvance, WriteLock, Writing
<1>3. /\ accepted' \in accepted .. (accepted + want)
      /\ (accepted + want)' = accepted + want
      /\ \/ wpc' \in Writing
         \/ accepted' = accepted + want /\ wpc' = "idle"
  <2>1. CASE WriteAdvance
    <3>1. slice <= want
      BY <2>1 DEF WriteAdvance, IInv, ControlInv
    <3>2. accepted' = accepted + slice /\ want' = want - slice
      BY <2>1 DEF WriteAdvance
    <3>3. (want' > 0 /\ wpc' = "check") \/ (want' <= 0 /\ wpc' = "idle")
      BY <1>1, <2>1, <3>1, <3>2 DEF WriteAdvance
    <3> QED BY <1>1, <3>1, <3>2, <3>3 DEF Writing
  <2>2. CASE WriteLock /\ want = 0
    BY <1>1, <2>2 DEF WriteLock
  <2> QED BY <2>1, <2>2
<1>4. Status = "writing" /\ (wpc' \in Writing => Status' = "writing")
      /\ (wpc' = "idle" => Status' = "idle")
  BY <1>2, Zenon DEF Status, Writing
<1> QED BY <1>2, <1>3, <1>4, Zenon DEF Contract!Take, Status

(* The calls that start a write or a close, and the return of the close.   *)
LEMMA RefineCalls ==
  ASSUME IInv,
         (\E n \in 0..MaxWriteLen : thread_wwrite(n)) \/ thread_wclose \/ CloseJoin
  PROVE  Contract!Call \/ Contract!Close \/ Contract!Closed
<1> USE DEF locals, child, history, consumer
<1>1. accepted \in Nat /\ want \in Nat
  BY DEF IInv, TypeOK
<1>2. UNCHANGED <<accepted, written>>
  BY DEF thread_wwrite, thread_wclose, CloseJoin
<1>3. CASE \E n \in 0..MaxWriteLen : thread_wwrite(n)
  <2>1. wpc = "idle" /\ wpc' = "lock" /\ want' \in Nat /\ want = 0
    <3>1. wpc = "idle" /\ wpc' = "lock" /\ want' \in 0..MaxWriteLen
      BY <1>3 DEF thread_wwrite
    <3>2. want = 0
      BY <3>1 DEF IInv, ControlInv, Writing
    <3> QED BY <3>1, <3>2, WriterAssumption
  <2>2. (accepted + want)' \in Nat /\ (accepted + want)' >= accepted + want
    <3>1. \A a, m \in Nat : a + m \in Nat /\ a + m >= a + 0
      OBVIOUS
    <3> QED BY <1>1, <1>2, <2>1, <3>1, Zenon
  <2>3. Status = "idle" /\ Status' = "writing"
    BY <2>1, Zenon DEF Status
  <2> QED BY <1>2, <2>2, <2>3, Zenon DEF Contract!Call, Status
<1>4. CASE thread_wclose
  <2>1. wpc = "idle" /\ wpc' = "close" /\ want' = want
    BY <1>4 DEF thread_wclose
  <2>2. Status = "idle" /\ Status' = "closing"
    BY <2>1, Zenon DEF Status
  <2>3. (accepted + want)' = accepted + want
    BY <1>2, <2>1
  <2> QED BY <1>2, <2>2, <2>3, Zenon DEF Contract!Close, Status
<1>5. CASE CloseJoin
  <2>1. wpc = "join" /\ wpc' = "closed" /\ want' = want /\ kpc = "done"
    BY <1>5 DEF CloseJoin, Joined
  <2>4. Len(written) = accepted
    BY <2>1 DEF IInv, ControlInv, Drained
  <2>2. Status = "closing" /\ Status' = "closed"
    BY <2>1, Zenon DEF Status
  <2>3. (accepted + want)' = accepted + want
    BY <1>2, <2>1
  <2> QED BY <1>2, <2>2, <2>3, <2>4, Zenon DEF Contract!Closed, Status
<1> QED BY <1>3, <1>4, <1>5

(* Everything else happens inside a call or in the consumer, out of sight. *)
LEMMA RefineInternal ==
  ASSUME \/ ConsumerLock \/ ConsumerCheck \/ ConsumerSpuriousWakeup
         \/ ConsumerFlush \/ ConsumerReset \/ ConsumerDestroy
         \/ (WriteLock /\ want # 0) \/ WriteWait \/ WriteSpuriousWakeup
         \/ WriteSlice \/ WriteCopy \/ thread_wflush \/ thread_wflush_nothing
         \/ CloseSignal \/ UNCHANGED vars,
         IInv
  PROVE  UNCHANGED Contract!wvars
<1> USE DEF ring, handle, locals, child, history, consumer
<1>1. want \in Nat
  BY DEF IInv, TypeOK
<1>2. UNCHANGED <<accepted, want, written>>
  BY DEF ConsumerLock, ConsumerCheck, ConsumerSpuriousWakeup, ConsumerFlush,
         ConsumerReset, ConsumerDestroy, WriteLock, WriteWait, WriteSpuriousWakeup,
         WriteSlice, WriteCopy, thread_wflush, thread_wflush_nothing, CloseSignal, vars
<1>3. \/ wpc' = wpc
      \/ wpc \in Writing /\ wpc' \in Writing
      \/ wpc = "close" /\ wpc' = "join"
  BY <1>1 DEF ConsumerLock, ConsumerCheck, ConsumerSpuriousWakeup, ConsumerFlush,
         ConsumerReset, ConsumerDestroy, WriteLock, WriteWait, WriteSpuriousWakeup,
         WriteSlice, WriteCopy, thread_wflush, thread_wflush_nothing, CloseSignal, vars,
         Signal, Writing
<1> QED BY <1>2, <1>3, RefineStutter

(* iow-thread.c behind iow_t: every behaviour of the two threads, seen     *)
(* through the bytes taken from the program and given to the child, is one *)
(* the contract of a writer handle allows.                                 *)
THEOREM Refinement == Spec => ImplementsIOWriter
<1>1. Init => Contract!IOInit
  <2> SUFFICES ASSUME Init PROVE Contract!IOInit
    OBVIOUS
  <2>1. Status = "idle"
    BY Zenon DEF Init, Status
  <2>2. accepted + want = 0
    BY DEF Init
  <2> QED BY <2>1, <2>2, Zenon DEF Contract!IOInit, Status, Init
<1>2. IInv /\ [Next]_vars => [Contract!IONext]_(Contract!wvars)
  <2> SUFFICES ASSUME IInv, [Next]_vars PROVE Contract!IONext \/ UNCHANGED Contract!wvars
    OBVIOUS
  <2>1. CASE ConsumerWrite
    BY <2>1, RefineWrite DEF Contract!IONext
  <2>2. CASE WriteAdvance \/ (WriteLock /\ want = 0)
    BY <2>2, RefineTake DEF Contract!IONext
  <2>3. CASE (\E n \in 0..MaxWriteLen : thread_wwrite(n)) \/ thread_wclose \/ CloseJoin
    BY <2>3, RefineCalls DEF Contract!IONext
  <2>4. CASE \/ ConsumerLock \/ ConsumerCheck \/ ConsumerSpuriousWakeup
             \/ ConsumerFlush \/ ConsumerReset \/ ConsumerDestroy
             \/ (WriteLock /\ want # 0) \/ WriteWait \/ WriteSpuriousWakeup
             \/ WriteSlice \/ WriteCopy \/ thread_wflush \/ thread_wflush_nothing
             \/ CloseSignal \/ UNCHANGED vars
    BY <2>4, RefineInternal
  <2> QED BY <2>1, <2>2, <2>3, <2>4
          DEF Next, Consumer, Writer, Closer, Closed
<1> QED BY <1>1, <1>2, Invariance, PTL DEF Spec, ImplementsIOWriter, Contract!IOSpec
=============================================================================
