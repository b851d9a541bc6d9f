------------------------- MODULE ThreadReaderProofs -------------------------
(***************************************************************************)
(* Proofs, for every size of the ring, every slice size and every stream,  *)
(* of what MCThreadReader checks on small instances of ThreadReader.       *)
(***************************************************************************)
EXTENDS ThreadReader, ByteStreamProofs

(* The slice the caller is at: in_buffer is assigned late.                 *)
Front == IF cpc = "assign" THEN newbuffer ELSE in_buffer

(* How much of that slice the caller has copied.                           *)
Taken == IF cpc = "advance" THEN offset + slice ELSE offset

Amount(b) == IF len[b] > 0 THEN len[b] ELSE 0

(* The stream offset up to which slices have been published.               *)
FilledEnd == IF ppc = "publish" THEN space[buffer] ELSE parentPos

(* Slice b lies in the arc of the ring from Front up to the producer's      *)
(* `buffer`; when they meet the ring is either empty or full.              *)
Occupied(b) ==
  IF Front < buffer THEN Front <= b /\ b < buffer
  ELSE IF buffer < Front THEN Front <= b \/ b < buffer
  ELSE state[buffer] = "FULL"

(* The full slices are exactly those of the arc.                           *)
RingInv == \A b \in Slots : (state[b] = "FULL") <=> Occupied(b)

(* Each full slice continues where the one before it ends; the last one    *)
(* ends where the parent has been read to; only the last may hold the end. *)
ChainInv ==
  \A b \in Slots : state[b] = "FULL" =>
    IF NextBuffer(b) = buffer
    THEN space[b] + Amount(b) = FilledEnd
    ELSE len[b] > 0 /\ space[NextBuffer(b)] = space[b] + len[b]

(* The caller's place in the stream is what has been delivered to it.      *)
FrontInv ==
  IF state[Front] = "FULL"
  THEN /\ space[Front] + Taken = Len(delivered)
       /\ IF len[Front] > 0 THEN cpc # "advance" => offset < len[Front]
                           ELSE offset = 0
  ELSE Len(delivered) = FilledEnd /\ offset = 0

(* What the producer has done so far, by where it is.                      *)
FillInv ==
  /\ ppc \in {"fill", "publish"} => state[buffer] = "EMPTY"
  /\ ppc = "publish" => /\ space[buffer] + Amount(buffer) = parentPos
                        /\ parentEnd = IF len[buffer] > 0 THEN 1 ELSE len[buffer]
  /\ ppc \notin {"publish", "destroy", "done"} => parentEnd = 1
  /\ ppc \in {"destroy", "done"} => closing \/ parentEnd < 1
  /\ ppc \in {"destroy", "done"} /\ parentEnd < 1 =>
       \E b \in Slots : NextBuffer(b) = buffer /\ state[b] = "FULL" /\ len[b] = parentEnd
  /\ ppc \notin {"destroy", "done"} =>
       \A b \in Slots : state[b] = "FULL" => len[b] > 0
  /\ \A b \in Slots : state[b] = "FULL" /\ len[b] < 1 => parentEnd = len[b]
  /\ parentOpen <=> ppc # "done"

Reading == {"lock", "check", "waiting", "woken", "copy", "advance", "assign"}

(* What a call in progress has done so far, by where it is.                *)
ReadInv ==
  /\ cpc \in Reading => want + copied = asked /\ asked > 0
  /\ cpc \notin Reading => copied = 0
  /\ cpc \in Reading \ {"advance", "assign"} => want > 0
  /\ cpc \in {"copy", "advance"} =>
       /\ state[in_buffer] = "FULL" /\ len[in_buffer] > 0
       /\ slice > 0 /\ offset + slice <= len[in_buffer]
  /\ cpc = "copy" => slice <= want
  /\ closing => cpc \in {"join", "free", "closed", "crashed"}
  /\ cpc = "open" => ppc = "none" /\ asked = 0
  /\ cpc \in {"free", "closed"} => ppc \in {"none", "done"}

(* The inductive invariant.                                                *)
IInv ==
  /\ TypeOK /\ RingInv /\ ChainInv /\ FrontInv /\ FillInv /\ ReadInv
  /\ InOrderDelivery /\ NoLostWakeup /\ ShortReadOnlyAtEnd
-----------------------------------------------------------------------------
(* The successor of a slice in the ring, without the remainder operation.  *)
LEMMA NextBufferFacts ==
  \A b \in Slots : /\ NextBuffer(b) \in Slots
                   /\ NextBuffer(b) = IF b = max_buffers - 1 THEN 0 ELSE b + 1
BY ReaderAssumption, SMT DEF Slots, NextBuffer

(* The initial state satisfies the invariant.                              *)
LEMMA InitIInv == Init => IInv
<1> SUFFICES ASSUME Init PROVE IInv
  OBVIOUS
<1> USE ReaderAssumption
<1>1. TypeOK
  <2>1. /\ state \in [Slots -> {"EMPTY", "FULL"}]
        /\ len \in [Slots -> -1..BUFFER_SIZE]
        /\ space \in [Slots -> Nat]
    BY DEF Init
  <2>2. /\ {in_buffer, buffer, newbuffer} \subseteq Slots
        /\ {offset, want, copied, slice, asked, parentPos} \subseteq Nat
        /\ ret \in Int /\ parentEnd \in {-1, 0, 1}
        /\ delivered \in Seq(Nat)
    BY DEF Init, Slots
  <2>3. /\ mutex \in {"none", "producer", "client"}
        /\ ppc \in ProducerPCs /\ cpc \in ClientPCs
        /\ closing \in BOOLEAN /\ parentOpen \in BOOLEAN
    BY Zenon DEF Init, ProducerPCs, ClientPCs
  <2> QED BY <2>1, <2>2, <2>3 DEF TypeOK
<1>2. RingInv /\ ChainInv
  BY DEF Init, RingInv, ChainInv, Occupied, Front, Slots
<1>3. FrontInv
  BY DEF Init, FrontInv, Front, FilledEnd, Slots
<1>4. FillInv /\ ReadInv
  BY DEF Init, FillInv, ReadInv, Reading, Slots
<1>5. InOrderDelivery
  BY DEF Init, InOrderDelivery, InOrder
<1>6. NoLostWakeup /\ ShortReadOnlyAtEnd
  BY DEF Init, NoLostWakeup, ShortReadOnlyAtEnd
<1> QED BY <1>1, <1>2, <1>3, <1>4, <1>5, <1>6 DEF IInv

(* When the caller finds its slice empty, the whole ring is.               *)
LEMMA EmptyFront ==
  ASSUME TypeOK, RingInv, state[Front] = "EMPTY"
  PROVE  Front = buffer /\ \A b \in Slots : state[b] = "EMPTY"
<1>1. Front \in Slots /\ buffer \in Slots
  BY DEF TypeOK, Front
<1>2. Front \in Int /\ buffer \in Int /\ ~Occupied(Front)
  BY <1>1, ReaderAssumption DEF RingInv, Slots
<1>3. Front = buffer
  BY <1>2 DEF Occupied
<1>4. \A b \in Slots : ~Occupied(b)
  BY <1>2, <1>3 DEF Occupied
<1>5. \A b \in Slots : state[b] \in {"EMPTY", "FULL"}
  BY DEF TypeOK
<1> QED BY <1>3, <1>4, <1>5 DEF RingInv

(* A step that moves no data and does not pass one of the points where the *)
(* caller's place or the published end is counted differently keeps the    *)
(* description of the ring.                                                *)
LEMMA QuietStep ==
  ASSUME RingInv, ChainInv, FrontInv, InOrderDelivery,
         UNCHANGED <<ring, handle, buffer, newbuffer, parentPos, delivered>>,
         cpc' = "assign" <=> cpc = "assign",
         cpc' = "advance" <=> cpc = "advance",
         cpc = "advance" => slice' = slice,
         ppc' = "publish" <=> ppc = "publish"
  PROVE  RingInv' /\ ChainInv' /\ FrontInv' /\ InOrderDelivery'
<1> USE DEF ring, handle
<1>1. Front' = Front /\ FilledEnd' = FilledEnd /\ Taken' = Taken
  BY DEF Front, FilledEnd, Taken
<1>2. RingInv'
  BY <1>1 DEF RingInv, Occupied
<1>3. ChainInv'
  BY <1>1 DEF ChainInv, Amount, NextBuffer
<1>4. FrontInv'
  BY <1>1 DEF FrontInv
<1>5. InOrderDelivery'
  BY DEF InOrderDelivery
<1> QED BY <1>2, <1>3, <1>4, <1>5

(* thread_producer reads its parent into a slice that is not published.    *)
LEMMA FillStep == IInv /\ ProducerFill => IInv'
<1> SUFFICES ASSUME IInv, ProducerFill PROVE IInv'
  OBVIOUS
<1> USE ReaderAssumption DEF IInv, ProducerFill, handle, locals
<1>1. /\ TypeOK /\ state[buffer] = "EMPTY" /\ parentEnd = 1
      /\ cpc \in {"copy", "advance"} => buffer # in_buffer
  BY DEF FillInv, ReadInv
<1>2. TypeOK'
  BY DEF TypeOK, ProducerPCs
<1>3. RingInv'
  BY DEF RingInv, Occupied, Front
<1>4. FilledEnd' = FilledEnd
  BY DEF FilledEnd, TypeOK
<1>5. \A b \in Slots : state[b] = "FULL" => len'[b] = len[b] /\ space'[b] = space[b]
  BY <1>1 DEF TypeOK
<1>6. ChainInv'
  BY <1>1, <1>4, <1>5, NextBufferFacts DEF ChainInv, Amount, RingInv, Occupied, Front, TypeOK, NextBuffer, Slots
<1>7. FrontInv'
  BY <1>1, <1>4, <1>5 DEF FrontInv, Front, Taken, TypeOK
<1>8. FillInv'
  BY <1>1, <1>5 DEF FillInv, TypeOK, Amount
<1>9. ReadInv' /\ InOrderDelivery'
  BY <1>5 DEF ReadInv, Reading, InOrderDelivery, TypeOK
<1>10. NoLostWakeup' /\ ShortReadOnlyAtEnd'
  BY <1>1 DEF NoLostWakeup, ShortReadOnlyAtEnd
<1> QED BY <1>2, <1>3, <1>6, <1>7, <1>8, <1>9, <1>10

(* thread_producer publishes the slice it filled and moves to the next.    *)
LEMMA PublishStep == IInv /\ ProducerPublish => IInv'
<1> SUFFICES ASSUME IInv, ProducerPublish PROVE IInv'
  OBVIOUS
<1> USE ReaderAssumption DEF IInv, ProducerPublish, handle, locals, parent
<1>1. /\ TypeOK /\ state[buffer] = "EMPTY" /\ buffer \in Slots /\ Front \in Slots
      /\ space[buffer] + Amount(buffer) = parentPos
      /\ parentEnd = IF len[buffer] > 0 THEN 1 ELSE len[buffer]
      /\ \A b \in Slots : state[b] = "FULL" => len[b] > 0
      /\ FilledEnd = space[buffer] /\ FilledEnd' = parentPos
      /\ Front' = Front /\ Taken' = Taken
      /\ cpc' # "waiting" /\ (cpc' = cpc \/ (cpc' = "woken" /\ cpc = "waiting"))
      /\ ppc' \in {"check", "destroy"} /\ (ppc' = "check" <=> len[buffer] > 0)
  <2>1. /\ TypeOK /\ buffer \in Slots /\ Front \in Slots
        /\ state[buffer] = "EMPTY"
        /\ space[buffer] + Amount(buffer) = parentPos
        /\ parentEnd = IF len[buffer] > 0 THEN 1 ELSE len[buffer]
    <3>1. TypeOK /\ buffer \in Slots /\ Front \in Slots
      BY DEF TypeOK, Front
    <3> QED BY <3>1 DEF FillInv
  <2>2. \A b \in Slots : state[b] = "FULL" => len[b] > 0
    BY DEF FillInv
  <2>3. cpc' # "waiting" /\ (cpc' = cpc \/ (cpc' = "woken" /\ cpc = "waiting"))
    BY DEF Signal
  <2>4. ppc' \in {"check", "destroy"} /\ (ppc' = "check" <=> len[buffer] > 0)
    BY DEF AfterPublish
  <2>5. Front' = Front /\ Taken' = Taken
    BY <2>3 DEF Front, Taken
  <2>6. FilledEnd = space[buffer] /\ FilledEnd' = parentPos
    BY <2>4 DEF FilledEnd
  <2> QED BY <2>1, <2>2, <2>3, <2>4, <2>5, <2>6
<1>2. /\ buffer' \in Slots
      /\ buffer' = IF buffer = max_buffers - 1 THEN 0 ELSE buffer + 1
      /\ \A b \in Slots : NextBuffer(b) = buffer' <=> b = buffer
  BY <1>1, NextBufferFacts DEF Slots
<1>3. TypeOK'
  BY <1>1, <1>2 DEF TypeOK, ProducerPCs, ClientPCs
<1>4. RingInv'
  <2>1. ASSUME NEW b \in Slots PROVE (state'[b] = "FULL") <=> Occupied(b)'
    <3>1. CASE b = buffer
      BY <1>1, <1>2, <2>1, <3>1 DEF Occupied, TypeOK, Slots, RingInv
    <3>2. CASE b # buffer
      <4>1. state'[b] = state[b] /\ (state[b] = "FULL" <=> Occupied(b))
        BY <2>1, <3>2 DEF RingInv, TypeOK
      <4>2. (~Occupied(buffer)) /\ (state'[buffer'] = "FULL" <=> buffer' = buffer \/ Occupied(buffer'))
        BY <1>1, <1>2 DEF RingInv, TypeOK
      <4>3. Occupied(b)' <=> Occupied(b)
        BY <1>1, <1>2, <3>2, <4>2, <2>1 DEF Occupied, Slots
      <4> QED BY <4>1, <4>3
    <3> QED BY <3>1, <3>2
  <2> QED BY <2>1 DEF RingInv
<1>5. ChainInv'
  BY <1>1, <1>2 DEF ChainInv, Amount, NextBuffer, TypeOK
<1>6. FrontInv'
  <2>1. CASE Front = buffer
    <3>1. Len(delivered) = space[buffer] /\ offset = 0
      BY <1>1, <2>1 DEF FrontInv
    <3>2. cpc # "advance" /\ Taken = 0
      BY <1>1, <2>1, <3>1 DEF ReadInv, Front, Taken
    <3>3. state'[Front] = "FULL"
      BY <1>1, <2>1 DEF TypeOK
    <3> QED BY <1>1, <2>1, <3>1, <3>2, <3>3 DEF FrontInv, TypeOK
  <2>2. CASE Front # buffer
    <3>1. state[Front] = "FULL"
      BY <2>2, EmptyFront, <1>1 DEF TypeOK
    <3> QED BY <1>1, <2>2, <3>1 DEF FrontInv, TypeOK
  <2> QED BY <2>1, <2>2
<1>7. FillInv'
  <2>1. /\ ppc' \notin {"fill", "publish", "done"} /\ ppc # "done"
        /\ state'[buffer] = "FULL" /\ len' = len
        /\ parentEnd' = parentEnd /\ parentOpen' = parentOpen
    BY <1>1 DEF TypeOK
  <2>2. ppc' = "destroy" => parentEnd < 1 /\ len[buffer] = parentEnd
    BY <1>1 DEF TypeOK
  <2>3. ppc' = "check" => parentEnd = 1 /\ len[buffer] > 0
    BY <1>1
  <2>4. NextBuffer(buffer) = buffer'
    OBVIOUS
  <2>5. \A b \in Slots : state'[b] = "FULL" /\ len[b] < 1 => b = buffer
    BY <1>1 DEF TypeOK
  <2>6. parentOpen' <=> ppc' # "done"
    <3>1. parentOpen
      BY <2>1, Zenon DEF FillInv
    <3> QED BY <2>1, <3>1
  <2>7. ppc' = "destroy" => \E b \in Slots :
          NextBuffer(b) = buffer' /\ state'[b] = "FULL" /\ len[b] = parentEnd
    BY <1>1, <2>1, <2>2, <2>4
  <2>8. \A b \in Slots : state'[b] = "FULL" /\ len[b] < 1 => parentEnd = len[b]
    BY <1>1, <2>5 DEF TypeOK
  <2>9. ppc' # "destroy" => \A b \in Slots : state'[b] = "FULL" => len[b] > 0
    BY <1>1, <2>5, <2>3 DEF TypeOK
  <2> QED BY <1>1, <2>1, <2>2, <2>3, <2>6, <2>7, <2>8, <2>9 DEF FillInv, NextBuffer
<1>8. ReadInv' /\ InOrderDelivery'
  BY <1>1 DEF ReadInv, Reading, InOrderDelivery, TypeOK
<1>9. NoLostWakeup' /\ ShortReadOnlyAtEnd'
  BY <1>1 DEF NoLostWakeup, ShortReadOnlyAtEnd
<1> QED BY <1>3, <1>4, <1>5, <1>6, <1>7, <1>8, <1>9

(* thread_read copies out of its slice exactly the bytes that follow.      *)
LEMMA CopyStep == IInv /\ ReadCopy => IInv'
<1> SUFFICES ASSUME IInv, ReadCopy PROVE IInv'
  OBVIOUS
<1> USE ReaderAssumption DEF IInv, ReadCopy, ring, handle, producer, parent
<1>1. /\ TypeOK /\ in_buffer \in Slots /\ slice \in Nat /\ offset \in Nat
      /\ len[in_buffer] \in Int /\ space[in_buffer] \in Nat
      /\ Len(delivered) \in Nat /\ want \in Nat /\ copied \in Nat
  BY DEF TypeOK
<1>2. /\ Front = in_buffer /\ Front' = in_buffer
      /\ Taken = offset /\ Taken' = offset + slice
      /\ FilledEnd' = FilledEnd
  BY DEF Front, Taken, FilledEnd
<1>3. /\ state[in_buffer] = "FULL" /\ len[in_buffer] > 0 /\ slice > 0
      /\ offset + slice <= len[in_buffer] /\ slice <= want
      /\ want + copied = asked /\ asked > 0 /\ ~closing
  BY DEF ReadInv, Reading
<1>4. space[in_buffer] + offset = Len(delivered)
  BY <1>2, <1>3 DEF FrontInv
<1>5. [i \in 1..slice |-> ByteAt(in_buffer, offset + i)]
        = Bytes(Len(delivered), slice)
  <2>1. ASSUME NEW i \in 1..slice
        PROVE  ByteAt(in_buffer, offset + i) = Len(delivered) + i
    <3> HIDE DEF IInv, ReadCopy
    <3>1. offset + i \in Int /\ offset + i <= len[in_buffer]
      BY <1>1, <1>3
    <3> QED BY <1>1, <1>4, <3>1 DEF ByteAt
  <2> QED BY <2>1 DEF Bytes
<1>6. /\ delivered' \in Seq(Nat) /\ InOrder(delivered')
      /\ Len(delivered') = Len(delivered) + slice
  BY <1>1, <1>5, AppendInOrder DEF TypeOK, InOrderDelivery
<1>7. TypeOK'
  BY <1>1, <1>3, <1>6 DEF TypeOK, ClientPCs
<1>8. RingInv'
  BY <1>2 DEF RingInv, Occupied
<1>9. ChainInv'
  BY <1>2 DEF ChainInv, Amount, NextBuffer
<1>10. FrontInv'
  <2>1. UNCHANGED <<state, len, space, offset>> /\ cpc' = "advance"
    OBVIOUS
  <2> HIDE DEF IInv, ReadCopy
  <2>2. space[in_buffer] + (offset + slice) = Len(delivered')
    <3>1. \A a, b, c \in Int : a + (b + c) = (a + b) + c
      OBVIOUS
    <3>2. space[in_buffer] + (offset + slice) = Len(delivered) + slice
      BY <3>1, <1>1, <1>4
    <3> QED BY <3>2, <1>6
  <2>3. space'[Front'] + Taken' = Len(delivered')
    BY <1>2, <2>1, <2>2
  <2>4. len'[Front'] > 0 /\ state'[Front'] = "FULL"
    BY <1>2, <1>3, <2>1
  <2> QED BY <2>1, <2>3, <2>4 DEF FrontInv
<1>11. FillInv'
  BY DEF FillInv, Amount, NextBuffer
<1>12. ReadInv'
  BY <1>1, <1>3 DEF ReadInv, Reading
<1>13. InOrderDelivery'
  BY <1>6 DEF InOrderDelivery
<1>14. NoLostWakeup' /\ ShortReadOnlyAtEnd'
  BY DEF NoLostWakeup, ShortReadOnlyAtEnd
<1> QED BY <1>7, <1>8, <1>9, <1>10, <1>11, <1>12, <1>13, <1>14

(* thread_read moves on within its slice.                                  *)
LEMMA AdvanceWithin == IInv /\ ReadAdvance /\ ~Drained(offset + slice) => IInv'
<1> SUFFICES ASSUME IInv, ReadAdvance, ~Drained(offset + slice) PROVE IInv'
  OBVIOUS
<1> USE ReaderAssumption DEF IInv, ReadAdvance, parent
<1>1. /\ TypeOK /\ in_buffer \in Slots /\ slice \in Nat /\ offset \in Nat
      /\ len[in_buffer] \in Int /\ space[in_buffer] \in Nat
  BY DEF TypeOK
<1>2. /\ state[in_buffer] = "FULL" /\ len[in_buffer] > 0 /\ slice > 0
      /\ offset + slice <= len[in_buffer]
      /\ want + copied = asked /\ asked > 0 /\ ~closing
  BY DEF ReadInv, Reading
<1>3. /\ newbuffer' = in_buffer /\ offset' = offset + slice
      /\ offset' < len[in_buffer] /\ offset' \in Nat
      /\ UNCHANGED <<state, len, space, ppc, buffer, parentPos, delivered>>
      /\ cpc = "advance" /\ cpc' = "assign"
  BY <1>1 DEF Drained
<1>4. /\ Front = in_buffer /\ Front' = in_buffer /\ Taken' = Taken
      /\ FilledEnd' = FilledEnd
  BY <1>3 DEF Front, Taken, FilledEnd
<1>5. TypeOK'
  BY <1>1, <1>3 DEF TypeOK, ClientPCs
<1>6. RingInv' /\ ChainInv'
  BY <1>3, <1>4 DEF RingInv, Occupied, ChainInv, Amount, NextBuffer
<1>7. FrontInv'
  BY <1>2, <1>3, <1>4 DEF FrontInv
<1>8. FillInv'
  BY <1>3 DEF FillInv, Amount, NextBuffer
<1>9. ReadInv' /\ InOrderDelivery'
  BY <1>2, <1>3 DEF ReadInv, Reading, InOrderDelivery
<1>10. NoLostWakeup' /\ ShortReadOnlyAtEnd'
  BY <1>3 DEF NoLostWakeup, ShortReadOnlyAtEnd
<1> QED BY <1>5, <1>6, <1>7, <1>8, <1>9, <1>10

(* thread_read gives a drained slice back and moves to the next one.       *)
LEMMA AdvanceNext == IInv /\ ReadAdvance /\ Drained(offset + slice) => IInv'
<1> SUFFICES ASSUME IInv, ReadAdvance, Drained(offset + slice) PROVE IInv'
  OBVIOUS
<1> USE ReaderAssumption DEF IInv, ReadAdvance, parent
<1>1. /\ TypeOK /\ in_buffer \in Slots /\ slice \in Nat /\ offset \in Nat
      /\ len[in_buffer] \in Int /\ space[in_buffer] \in Nat /\ buffer \in Slots
  BY DEF TypeOK
<1>2. /\ state[in_buffer] = "FULL" /\ len[in_buffer] > 0
      /\ offset + slice = len[in_buffer]
      /\ want + copied = asked /\ asked > 0 /\ ~closing
  BY <1>1 DEF ReadInv, Reading, Drained
<1>3. /\ newbuffer' = NextBuffer(in_buffer) /\ offset' = 0
      /\ state' = [state EXCEPT ![in_buffer] = "EMPTY"]
      /\ UNCHANGED <<len, space, buffer, parentPos, delivered>>
      /\ cpc = "advance" /\ cpc' = "assign"
  OBVIOUS
<1>4. /\ newbuffer' \in Slots
      /\ newbuffer' = IF in_buffer = max_buffers - 1 THEN 0 ELSE in_buffer + 1
  BY <1>1, <1>3, NextBufferFacts
<1>5. ppc' # "waiting" /\ (ppc' = ppc \/ (ppc' = "woken" /\ ppc = "waiting"))
  BY <1>3 DEF Signal
<1>6. /\ Front = in_buffer /\ Front' = newbuffer' /\ FilledEnd' = FilledEnd
      /\ Len(delivered) = space[in_buffer] + len[in_buffer]
      /\ Taken' = 0
  BY <1>2, <1>3, <1>5 DEF Front, Taken, FilledEnd, FrontInv
<1>7. /\ state'[in_buffer] = "EMPTY"
      /\ \A b \in Slots : b # in_buffer => state'[b] = state[b]
  BY <1>1, <1>3 DEF TypeOK
<1>8. TypeOK'
  BY <1>1, <1>3, <1>4, <1>5 DEF TypeOK, ClientPCs, ProducerPCs
<1>9. RingInv'
  <2>1. ASSUME NEW b \in Slots PROVE (state'[b] = "FULL") <=> Occupied(b)'
    <3>1. Occupied(in_buffer) /\ (state[b] = "FULL" <=> Occupied(b))
      BY <1>1, <1>2 DEF RingInv
    <3>2. buffer = in_buffer => Occupied(b)
      BY <1>1, <1>2, <1>6 DEF Occupied, Slots
    <3>3. state'[buffer] = "FULL" <=> buffer # in_buffer /\ Occupied(buffer)
      BY <1>1, <1>7 DEF RingInv
    <3>4. CASE b = in_buffer
      BY <1>1, <1>2, <1>3, <1>4, <1>6, <1>7, <3>1, <3>3, <3>4 DEF Occupied, Slots
    <3>5. CASE b # in_buffer
      BY <1>1, <1>2, <1>3, <1>4, <1>6, <1>7, <3>1, <3>2, <3>3, <3>5 DEF Occupied, Slots
    <3> QED BY <3>4, <3>5
  <2> QED BY <2>1 DEF RingInv
<1>10. ChainInv'
  BY <1>3, <1>6, <1>7 DEF ChainInv, Amount, NextBuffer
<1>11. FrontInv'
  <2>1. CASE newbuffer' = buffer
    <3>1. Len(delivered) = FilledEnd
      BY <1>1, <1>2, <1>3, <1>6, <2>1 DEF ChainInv, Amount
    <3>2. state'[newbuffer'] # "FULL"
      BY <1>1, <1>3, <1>6, <1>7, <1>9, <2>1 DEF RingInv, Occupied, Slots
    <3> QED BY <1>3, <1>6, <3>1, <3>2 DEF FrontInv
  <2>2. CASE newbuffer' # buffer
    <3>1. len[in_buffer] > 0 /\ space[newbuffer'] = Len(delivered)
      BY <1>1, <1>2, <1>3, <1>6, <2>2 DEF ChainInv
    <3>2. state'[newbuffer'] = "FULL"
      BY <1>4, <1>8, <1>9, <1>6, <1>3, <2>2 DEF RingInv, Occupied, TypeOK, Slots
    <3> QED BY <1>1, <1>3, <1>4, <1>6, <3>1, <3>2 DEF FrontInv, TypeOK
  <2> QED BY <2>1, <2>2
<1>12. FillInv'
  BY <1>1, <1>2, <1>3, <1>5, <1>7 DEF FillInv, Amount, NextBuffer, TypeOK
<1>13. ReadInv' /\ InOrderDelivery'
  BY <1>2, <1>3, <1>5 DEF ReadInv, Reading, InOrderDelivery
<1>14. NoLostWakeup' /\ ShortReadOnlyAtEnd'
  BY <1>3, <1>5 DEF NoLostWakeup, ShortReadOnlyAtEnd
<1> QED BY <1>8, <1>9, <1>10, <1>11, <1>12, <1>13, <1>14

(* thread_read takes up the slice it moved to, and returns or goes on.     *)
LEMMA AssignStep == IInv /\ ReadAssign => IInv'
<1> SUFFICES ASSUME IInv, ReadAssign PROVE IInv'
  OBVIOUS
<1> USE ReaderAssumption DEF IInv, ReadAssign, ring, producer, parent
<1>1. TypeOK'
  BY DEF TypeOK, ClientPCs
<1>2. Front' = Front /\ Taken' = Taken /\ FilledEnd' = FilledEnd
  BY DEF Front, Taken, FilledEnd
<1>3. RingInv' /\ ChainInv'
  BY <1>2 DEF RingInv, Occupied, ChainInv, Amount, NextBuffer
<1>4. FrontInv'
  BY <1>2 DEF FrontInv
<1>5. FillInv'
  BY DEF FillInv, Amount, NextBuffer
<1>6. ReadInv' /\ InOrderDelivery'
  BY DEF ReadInv, Reading, Unsatisfied, TypeOK, InOrderDelivery
<1>7. ShortReadOnlyAtEnd'
  BY DEF ReadInv, Reading, Unsatisfied, TypeOK, ShortReadOnlyAtEnd
<1>8. NoLostWakeup'
  BY DEF NoLostWakeup
<1> QED BY <1>1, <1>3, <1>4, <1>5, <1>6, <1>7, <1>8

(* Every step of the program keeps the invariant.                          *)
LEMMA NextIInv == IInv /\ [Next]_vars => IInv'
<1> SUFFICES ASSUME IInv, [Next]_vars PROVE IInv'
  OBVIOUS
<1> USE ReaderAssumption DEF IInv
<1>1. CASE thread_open
  <2> USE <1>1 DEF thread_open, ring, handle, producer, locals, parent
  <2>1. RingInv' /\ ChainInv' /\ FrontInv' /\ InOrderDelivery'
    BY QuietStep DEF ReadInv
  <2>2. TypeOK'
    BY DEF TypeOK, ProducerPCs, ClientPCs
  <2>3. FillInv'
    BY DEF FillInv, Amount, NextBuffer, ReadInv
  <2>4. ReadInv'
    BY DEF ReadInv, Reading
  <2>5. NoLostWakeup' /\ ShortReadOnlyAtEnd'
    BY DEF NoLostWakeup, ShortReadOnlyAtEnd, ReadInv
  <2> QED BY <2>1, <2>2, <2>3, <2>4, <2>5
<1>2. CASE thread_open_nomem
  <2> USE <1>2 DEF thread_open_nomem, ring, handle, producer, locals, parent
  <2>1. RingInv' /\ ChainInv' /\ FrontInv' /\ InOrderDelivery'
    BY QuietStep
  <2>2. TypeOK'
    BY DEF TypeOK, ProducerPCs, ClientPCs
  <2>3. FillInv'
    BY DEF FillInv, Amount, NextBuffer
  <2>4. ReadInv'
    BY DEF ReadInv, Reading
  <2>5. NoLostWakeup' /\ ShortReadOnlyAtEnd'
    BY DEF NoLostWakeup, ShortReadOnlyAtEnd, ReadInv
  <2> QED BY <2>1, <2>2, <2>3, <2>4, <2>5
<1>3. CASE ProducerLock
  <2> USE <1>3 DEF ProducerLock, ring, handle, producer, locals, parent
  <2>1. RingInv' /\ ChainInv' /\ FrontInv' /\ InOrderDelivery'
    BY QuietStep
  <2>2. TypeOK'
    BY DEF TypeOK, ProducerPCs, ClientPCs
  <2>3. FillInv'
    BY DEF FillInv, Amount, NextBuffer
  <2>4. ReadInv'
    BY DEF ReadInv, Reading
  <2>5. NoLostWakeup' /\ ShortReadOnlyAtEnd'
    BY DEF NoLostWakeup, ShortReadOnlyAtEnd
  <2> QED BY <2>1, <2>2, <2>3, <2>4, <2>5
<1>4. CASE ProducerCheck
  <2> USE <1>4 DEF ProducerCheck, MustWait, ring, handle, producer, locals, parent
  <2>1. RingInv' /\ ChainInv' /\ FrontInv' /\ InOrderDelivery'
    BY QuietStep
  <2>2. TypeOK'
    BY DEF TypeOK, ProducerPCs, ClientPCs
  <2>3. FillInv'
    <3>1. CASE MustWait /\ ppc' = "waiting"
      BY <3>1 DEF FillInv, Amount, NextBuffer
    <3>2. CASE closing /\ ppc' = "destroy"
      BY <3>2 DEF FillInv, Amount, NextBuffer
    <3>3. CASE state[buffer] # "FULL" /\ ppc' = "fill"
      BY <3>3 DEF FillInv, Amount, NextBuffer, TypeOK
    <3> QED BY <3>1, <3>2, <3>3
  <2>4. ReadInv'
    BY DEF ReadInv, Reading
  <2>5. NoLostWakeup' /\ ShortReadOnlyAtEnd'
    <3>1. ppc' = "waiting" => state[buffer] = "FULL" /\ ~closing
      OBVIOUS
    <3>2. state[buffer] = "FULL" /\ cpc = "waiting" => state[in_buffer] # "EMPTY"
      BY EmptyFront DEF TypeOK, Front
    <3> QED BY <3>1, <3>2 DEF NoLostWakeup, ShortReadOnlyAtEnd
  <2> QED BY <2>1, <2>2, <2>3, <2>4, <2>5
<1>5. CASE ProducerSpuriousWakeup
  <2> USE <1>5 DEF ProducerSpuriousWakeup, ring, handle, producer, locals, parent
  <2>1. RingInv' /\ ChainInv' /\ FrontInv' /\ InOrderDelivery'
    BY QuietStep
  <2>2. TypeOK'
    BY DEF TypeOK, ProducerPCs, ClientPCs
  <2>3. FillInv'
    BY DEF FillInv, Amount, NextBuffer
  <2>4. ReadInv'
    BY DEF ReadInv, Reading
  <2>5. NoLostWakeup' /\ ShortReadOnlyAtEnd'
    BY DEF NoLostWakeup, ShortReadOnlyAtEnd
  <2> QED BY <2>1, <2>2, <2>3, <2>4, <2>5
<1>6. CASE ProducerDestroy
  <2> USE <1>6 DEF ProducerDestroy, Signal, ring, handle, producer, locals, parent
  <2>1. RingInv' /\ ChainInv' /\ FrontInv' /\ InOrderDelivery'
    BY QuietStep
  <2>2. TypeOK'
    BY DEF TypeOK, ProducerPCs, ClientPCs
  <2>3. FillInv'
    BY DEF FillInv, Amount, NextBuffer
  <2>4. ReadInv'
    BY DEF ReadInv, Reading
  <2>5. NoLostWakeup' /\ ShortReadOnlyAtEnd'
    BY DEF NoLostWakeup, ShortReadOnlyAtEnd
  <2> QED BY <2>1, <2>2, <2>3, <2>4, <2>5
<1>7. CASE ReadLock
  <2> USE <1>7 DEF ReadLock, ring, handle, producer, locals, parent
  <2>1. RingInv' /\ ChainInv' /\ FrontInv' /\ InOrderDelivery'
    BY QuietStep
  <2>2. TypeOK'
    BY DEF TypeOK, ProducerPCs, ClientPCs
  <2>3. FillInv'
    BY DEF FillInv, Amount, NextBuffer
  <2>4. ReadInv'
    BY DEF ReadInv, Reading
  <2>5. NoLostWakeup' /\ ShortReadOnlyAtEnd'
    BY DEF NoLostWakeup, ShortReadOnlyAtEnd
  <2> QED BY <2>1, <2>2, <2>3, <2>4, <2>5
<1>8. CASE ReadWait
  <2> USE <1>8 DEF ReadWait, ring, handle, producer, locals, parent
  <2>1. RingInv' /\ ChainInv' /\ FrontInv' /\ InOrderDelivery'
    BY QuietStep
  <2>2. TypeOK'
    BY DEF TypeOK, ProducerPCs, ClientPCs
  <2>3. FillInv'
    BY DEF FillInv, Amount, NextBuffer
  <2>4. ReadInv'
    BY DEF ReadInv, Reading
  <2>5. NoLostWakeup' /\ ShortReadOnlyAtEnd'
    <3>1. \A b \in Slots : state[b] = "EMPTY"
      BY EmptyFront DEF Front
    <3>2. ppc # "waiting"
      BY <3>1 DEF NoLostWakeup, TypeOK
    <3>3. ppc # "done"
      BY <3>1 DEF FillInv, ReadInv
    <3> QED BY <3>2, <3>3 DEF NoLostWakeup, ShortReadOnlyAtEnd
  <2> QED BY <2>1, <2>2, <2>3, <2>4, <2>5
<1>9. CASE ReadSpuriousWakeup
  <2> USE <1>9 DEF ReadSpuriousWakeup, ring, handle, producer, locals, parent
  <2>1. RingInv' /\ ChainInv' /\ FrontInv' /\ InOrderDelivery'
    BY QuietStep
  <2>2. TypeOK'
    BY DEF TypeOK, ProducerPCs, ClientPCs
  <2>3. FillInv'
    BY DEF FillInv, Amount, NextBuffer
  <2>4. ReadInv'
    BY DEF ReadInv, Reading
  <2>5. NoLostWakeup' /\ ShortReadOnlyAtEnd'
    BY DEF NoLostWakeup, ShortReadOnlyAtEnd
  <2> QED BY <2>1, <2>2, <2>3, <2>4, <2>5
<1>10. CASE ReadEnd
  <2> USE <1>10 DEF ReadEnd, EndResult, ring, handle, producer, locals, parent
  <2>1. RingInv' /\ ChainInv' /\ FrontInv' /\ InOrderDelivery'
    BY QuietStep
  <2>2. TypeOK'
    BY DEF TypeOK, ProducerPCs, ClientPCs
  <2>3. FillInv'
    BY DEF FillInv, Amount, NextBuffer
  <2>4. ReadInv'
    BY DEF ReadInv, Reading
  <2>5. NoLostWakeup' /\ ShortReadOnlyAtEnd'
    <3>1. in_buffer \in Slots /\ len[in_buffer] \in Int /\ copied \in Nat
      BY DEF TypeOK
    <3>2. parentEnd = len[in_buffer] /\ ppc \in {"destroy", "done"}
      BY <3>1 DEF FillInv
    <3>3. NextBuffer(in_buffer) = buffer
      BY <3>1 DEF ChainInv
    <3>4. space[in_buffer] + 0 = parentPos
      BY <3>1, <3>2, <3>3 DEF ChainInv, Amount, FilledEnd
    <3>5. space[in_buffer] + 0 = Len(delivered)
      BY <3>1 DEF FrontInv, Front, Taken
    <3>6. ShortReadOnlyAtEnd'
      BY <3>1, <3>2, <3>4, <3>5 DEF ShortReadOnlyAtEnd
    <3> QED BY <3>6 DEF NoLostWakeup
  <2> QED BY <2>1, <2>2, <2>3, <2>4, <2>5
<1>11. CASE ReadSlice
  <2> USE <1>11 DEF ReadSlice, ring, handle, producer, locals, parent
  <2>0. /\ slice' \in Nat /\ slice' > 0 /\ slice' <= want
        /\ len[in_buffer] > 0 /\ offset + slice' <= len[in_buffer]
    <3>1. /\ in_buffer \in Slots /\ len[in_buffer] \in Int
          /\ offset \in Nat /\ want \in Nat
      BY DEF TypeOK
    <3>2. offset < len[in_buffer] /\ want > 0
      BY <3>1 DEF FrontInv, Front, ReadInv, Reading
    <3> QED BY <3>1, <3>2 DEF Slice, Smaller
  <2>1. RingInv' /\ ChainInv' /\ FrontInv' /\ InOrderDelivery'
    BY QuietStep
  <2>2. TypeOK'
    BY <2>0 DEF TypeOK, ClientPCs
  <2>3. FillInv'
    BY DEF FillInv, Amount, NextBuffer
  <2>4. ReadInv'
    BY <2>0 DEF ReadInv, Reading
  <2>5. NoLostWakeup' /\ ShortReadOnlyAtEnd'
    BY DEF NoLostWakeup, ShortReadOnlyAtEnd
  <2> QED BY <2>1, <2>2, <2>3, <2>4, <2>5
<1>12. CASE thread_close
  <2> USE <1>12 DEF thread_close, ring, handle, producer, locals, parent
  <2>1. RingInv' /\ ChainInv' /\ FrontInv' /\ InOrderDelivery'
    BY QuietStep
  <2>2. TypeOK'
    BY DEF TypeOK, ProducerPCs, ClientPCs
  <2>3. FillInv'
    BY DEF FillInv, Amount, NextBuffer
  <2>4. ReadInv'
    BY DEF ReadInv, Reading
  <2>5. NoLostWakeup' /\ ShortReadOnlyAtEnd'
    BY DEF NoLostWakeup, ShortReadOnlyAtEnd
  <2> QED BY <2>1, <2>2, <2>3, <2>4, <2>5
<1>13. CASE CloseSignal
  <2> USE <1>13 DEF CloseSignal, Signal, ring, handle, producer, locals, parent
  <2>1. RingInv' /\ ChainInv' /\ FrontInv' /\ InOrderDelivery'
    BY QuietStep
  <2>2. TypeOK'
    BY DEF TypeOK, ProducerPCs, ClientPCs
  <2>3. FillInv'
    BY DEF FillInv, Amount, NextBuffer
  <2>4. ReadInv'
    BY DEF ReadInv, Reading
  <2>5. NoLostWakeup' /\ ShortReadOnlyAtEnd'
    BY DEF NoLostWakeup, ShortReadOnlyAtEnd
  <2> QED BY <2>1, <2>2, <2>3, <2>4, <2>5
<1>14. CASE CloseJoin
  <2> USE <1>14 DEF CloseJoin, Joined, ring, handle, producer, locals, parent
  <2>1. RingInv' /\ ChainInv' /\ FrontInv' /\ InOrderDelivery'
    BY QuietStep
  <2>2. TypeOK'
    BY DEF TypeOK, ProducerPCs, ClientPCs
  <2>3. FillInv'
    BY DEF FillInv, Amount, NextBuffer
  <2>4. ReadInv'
    BY DEF ReadInv, Reading
  <2>5. NoLostWakeup' /\ ShortReadOnlyAtEnd'
    BY DEF NoLostWakeup, ShortReadOnlyAtEnd
  <2> QED BY <2>1, <2>2, <2>3, <2>4, <2>5
<1>15. CASE CloseFree
  <2> USE <1>15 DEF CloseFree, ring, handle, producer, locals, parent
  <2>1. RingInv' /\ ChainInv' /\ FrontInv' /\ InOrderDelivery'
    BY QuietStep
  <2>2. TypeOK'
    BY DEF TypeOK, ProducerPCs, ClientPCs
  <2>3. FillInv'
    BY DEF FillInv, Amount, NextBuffer
  <2>4. ReadInv'
    BY DEF ReadInv, Reading
  <2>5. NoLostWakeup' /\ ShortReadOnlyAtEnd'
    BY DEF NoLostWakeup, ShortReadOnlyAtEnd
  <2> QED BY <2>1, <2>2, <2>3, <2>4, <2>5
<1>16. ASSUME NEW n \in 0..MaxReadLen, thread_read(n) PROVE IInv'
  <2> USE <1>16 DEF thread_read, ring, handle, producer, locals, parent
  <2>1. RingInv' /\ ChainInv' /\ FrontInv' /\ InOrderDelivery'
    BY QuietStep
  <2>2. TypeOK'
    BY DEF TypeOK, ClientPCs
  <2>3. FillInv'
    BY DEF FillInv, Amount, NextBuffer
  <2>4. ReadInv'
    BY DEF ReadInv, Reading
  <2>5. NoLostWakeup' /\ ShortReadOnlyAtEnd'
    BY DEF NoLostWakeup, ShortReadOnlyAtEnd
  <2> QED BY <2>1, <2>2, <2>3, <2>4, <2>5
<1>17. CASE UNCHANGED vars
  <2> USE <1>17 DEF vars, ring, handle, producer, locals, parent
  <2>1. TypeOK'
    BY DEF TypeOK
  <2>2. RingInv' /\ ChainInv'
    BY DEF RingInv, Occupied, Front, ChainInv, FilledEnd, Amount, NextBuffer
  <2>3. FrontInv'
    BY DEF FrontInv, Front, Taken, FilledEnd
  <2>4. FillInv' /\ ReadInv'
    BY DEF FillInv, Amount, NextBuffer, ReadInv
  <2>5. InOrderDelivery' /\ NoLostWakeup' /\ ShortReadOnlyAtEnd'
    BY DEF InOrderDelivery, NoLostWakeup, ShortReadOnlyAtEnd
  <2> QED BY <2>1, <2>2, <2>3, <2>4, <2>5
<1>18. CASE CloseJoinUndefined
  <2> USE <1>18 DEF CloseJoinUndefined, ring, handle, producer, locals, parent
  <2>1. RingInv' /\ ChainInv' /\ FrontInv' /\ InOrderDelivery'
    BY QuietStep
  <2>2. TypeOK'
    BY DEF TypeOK, ProducerPCs, ClientPCs
  <2>3. FillInv'
    BY DEF FillInv, Amount, NextBuffer
  <2>4. ReadInv'
    BY DEF ReadInv, Reading
  <2>5. NoLostWakeup' /\ ShortReadOnlyAtEnd'
    BY DEF NoLostWakeup, ShortReadOnlyAtEnd
  <2> QED BY <2>1, <2>2, <2>3, <2>4, <2>5
<1> HIDE DEF IInv
<1> QED
  BY <1>1, <1>2, <1>3, <1>4, <1>5, <1>6, <1>7, <1>8, <1>9, <1>10, <1>11, <1>12, <1>13, <1>14, <1>15,
     <1>16, <1>17, <1>18, FillStep, PublishStep, CopyStep, AdvanceWithin, AdvanceNext, AssignStep
  DEF Next, Producer, Reader, Closer, Closed

(* The invariant holds throughout every behaviour.                         *)
THEOREM InvariantHolds == Spec => []IInv
<1> QED BY InitIInv, NextIInv, PTL DEF Spec

(* Every variable keeps its type and every slice index stays in the ring,  *)
(* whatever max_buffers is.                                                *)
THEOREM TypeCorrect == Spec => []TypeOK
<1>1. IInv => TypeOK
  BY DEF IInv
<1> QED BY InvariantHolds, <1>1, PTL

(* The parent's read and the caller's memcpy, both done with the mutex     *)
(* released, never meet in a slice.                                        *)
THEOREM SlotsAreNotShared == Spec => []NoSlotRace
<1>1. IInv => NoSlotRace
  BY DEF IInv, NoSlotRace, FillInv, ReadInv
<1> QED BY InvariantHolds, <1>1, PTL

(* thread_read hands the caller the parent's bytes, complete and in order. *)
THEOREM DeliveryInOrder == Spec => []InOrderDelivery
<1>1. IInv => InOrderDelivery
  BY DEF IInv
<1> QED BY InvariantHolds, <1>1, PTL

(* A short or failed read means that the stream ended and that everything  *)
(* before its end has been delivered.                                      *)
THEOREM ShortOnlyAtEnd == Spec => []ShortReadOnlyAtEnd
<1>1. IInv => ShortReadOnlyAtEnd
  BY DEF IInv
<1> QED BY InvariantHolds, <1>1, PTL

(* No signal on space_avail or data_ready comes too early to be noticed.   *)
THEOREM WakeupsArrive == Spec => []NoLostWakeup
<1>1. IInv => NoLostWakeup
  BY DEF IInv
<1> QED BY InvariantHolds, <1>1, PTL

(* thread_close frees nothing the producer may still use.                  *)
THEOREM FreedAfterJoin == Spec => []NoUseAfterFree
<1>1. IInv => NoUseAfterFree
  BY DEF IInv, NoUseAfterFree, FillInv, ReadInv, TypeOK
<1> QED BY InvariantHolds, <1>1, PTL
-----------------------------------------------------------------------------
(* The refinement of IOReader.                                             *)

(* How far the caller is in its call, and what it has been given by the    *)
(* reads that returned: the refinement mapping.                            *)
Status == CASE cpc = "open" -> "open"
            [] cpc = "idle" -> "idle"
            [] cpc \in {"close", "join", "free", "closed", "crashed"} -> "closed"
            [] OTHER -> "reading"

Got == SubSeq(delivered, 1, Len(delivered) - copied)

(* The number of bytes returned so far.                                    *)
Returned == Len(delivered) - copied

(* No full slice reaches beyond the bytes published, and what a call in    *)
(* progress has copied is part of what was delivered.                      *)
AheadInv ==
  /\ copied <= Len(delivered)
  /\ \A b \in Slots : state[b] = "FULL" => space[b] + Amount(b) <= FilledEnd

(* The bytes returned are an initial segment of the stream.                *)
LEMMA PrefixInOrder ==
  ASSUME NEW d \in Seq(Nat), InOrder(d), NEW c \in Nat, c <= Len(d)
  PROVE  SubSeq(d, 1, Len(d) - c) = Bytes(0, Len(d) - c)
<1>1. Len(d) \in Nat /\ d \in [1..Len(d) -> Nat] /\ Len(d) - c \in 0..Len(d)
  OBVIOUS
<1>2. \A i \in 1..(Len(d) - c) : d[i] = 0 + i
  BY <1>1 DEF InOrder
<1>3. 0 \in Nat
  OBVIOUS
<1> QED BY <1>1, <1>2, <1>3, SliceIsBytes, Zenon

(* A memcpy of slice bytes adds that many.                                 *)
LEMMA CopyLength ==
  ASSUME TypeOK, ReadCopy
  PROVE  Len(delivered') = Len(delivered) + slice /\ copied' = copied + slice
<1>1. /\ len \in [Slots -> -1..BUFFER_SIZE] /\ space \in [Slots -> Nat]
      /\ in_buffer \in Slots /\ offset \in Nat /\ slice \in Nat
      /\ delivered \in Seq(Nat)
  BY DEF TypeOK
<1>2. \A i \in 1..slice : ByteAt(in_buffer, offset + i) \in Int
  <2> SUFFICES ASSUME NEW i \in 1..slice PROVE ByteAt(in_buffer, offset + i) \in Int
    OBVIOUS
  <2>1. space[in_buffer] + (offset + i) \in Int
    BY <1>1
  <2> QED BY <2>1 DEF ByteAt, Garbage
<1>3. /\ [i \in 1..slice |-> ByteAt(in_buffer, offset + i)] \in Seq(Int)
      /\ Len([i \in 1..slice |-> ByteAt(in_buffer, offset + i)]) = slice
  BY <1>1, <1>2
<1>4. /\ delivered' = delivered \o [i \in 1..slice |-> ByteAt(in_buffer, offset + i)]
      /\ copied' = copied + slice
  BY DEF ReadCopy
<1>5. Len(delivered') = Len(delivered) + slice
  BY <1>1, <1>3, <1>4
<1> QED BY <1>4, <1>5

(* AheadInv is preserved: only a publish adds a full slice, and only the   *)
(* memcpy adds to what a call has copied.                                  *)
LEMMA NextAhead == IInv /\ AheadInv /\ [Next]_vars => AheadInv'
<1> SUFFICES ASSUME IInv, AheadInv, [Next]_vars PROVE AheadInv'
  OBVIOUS
<1> USE DEF ring, handle, producer, locals, parent
<1>1. /\ len \in [Slots -> -1..BUFFER_SIZE] /\ space \in [Slots -> Nat]
      /\ state \in [Slots -> {"EMPTY", "FULL"}] /\ buffer \in Slots
      /\ copied \in Nat /\ slice \in Nat /\ parentPos \in Nat
      /\ delivered \in Seq(Nat) /\ Len(delivered) \in Nat
  BY DEF IInv, TypeOK
<1>2. \A b \in Slots : Amount(b) \in Nat /\ space[b] \in Nat
  BY <1>1, ReaderAssumption DEF Amount
<1>3. CASE ProducerFill
  <2>1. state[buffer] = "EMPTY" /\ UNCHANGED <<state, copied, delivered>>
    BY <1>3 DEF ProducerFill, IInv, FillInv
  <2>2. \A b \in Slots : state[b] = "FULL" => Amount(b)' = Amount(b) /\ space'[b] = space[b]
    BY <1>1, <1>3, <2>1 DEF ProducerFill, Amount
  <2>3. FilledEnd' = FilledEnd
    BY <1>1, <1>3 DEF ProducerFill, FilledEnd
  <2> QED BY <2>1, <2>2, <2>3 DEF AheadInv
<1>4. CASE ProducerPublish
  <2>1. /\ UNCHANGED <<len, space, copied, delivered, parentPos>>
        /\ \A b \in Slots : state'[b] = "FULL" => b = buffer \/ state[b] = "FULL"
    BY <1>1, <1>4 DEF ProducerPublish
  <2>2. FilledEnd = space[buffer] /\ FilledEnd' = parentPos
    BY <1>4 DEF ProducerPublish, FilledEnd, AfterPublish
  <2>3. space[buffer] + Amount(buffer) = parentPos
    BY <1>4 DEF ProducerPublish, IInv, FillInv
  <2>4. \A b \in Slots : state'[b] = "FULL" => space[b] + Amount(b) <= parentPos
    <3> SUFFICES ASSUME NEW b \in Slots, state'[b] = "FULL"
                 PROVE  space[b] + Amount(b) <= parentPos
      OBVIOUS
    <3>1. CASE b = buffer
      BY <1>1, <2>3, <3>1
    <3>2. CASE state[b] = "FULL"
      <4>1. space[b] + Amount(b) <= space[buffer]
        BY <2>2, <3>2 DEF AheadInv
      <4>2. Amount(b) \in Nat /\ space[b] \in Nat /\ Amount(buffer) \in Nat
            /\ space[buffer] \in Nat
        BY <1>1, <1>2
      <4> QED BY <2>3, <4>1, <4>2
    <3> QED BY <2>1, <3>1, <3>2
  <2>5. \A b \in Slots : Amount(b)' = Amount(b)
    BY <2>1 DEF Amount
  <2> QED BY <2>1, <2>2, <2>4, <2>5 DEF AheadInv
<1>5. CASE ~ProducerFill /\ ~ProducerPublish
  <2>1. UNCHANGED <<len, space, parentPos>> /\ (ppc' = "publish" <=> ppc = "publish")
        /\ (ppc = "publish" => buffer' = buffer)
    BY <1>5 DEF Next, thread_open, thread_open_nomem, Producer, ProducerLock,
       ProducerCheck, ProducerDestroy, ProducerSpuriousWakeup, thread_read, Reader,
       ReadLock, ReadWait, ReadEnd, ReadSlice, ReadCopy, ReadAdvance, ReadAssign,
       ReadSpuriousWakeup, thread_close, Closer, CloseSignal, CloseJoin,
         CloseJoinUndefined, CloseFree,
       Closed, vars, Signal, IInv, ReadInv
  <2>2. \A b \in Slots : state'[b] = "FULL" => state[b] = "FULL"
    <3>1. CASE ReadAdvance
      BY <1>1, <3>1 DEF ReadAdvance
    <3>2. CASE ~ReadAdvance
      BY <1>5, <3>2 DEF Next, thread_open, thread_open_nomem, Producer, ProducerLock,
         ProducerCheck, ProducerDestroy, ProducerSpuriousWakeup, thread_read, Reader,
         ReadLock, ReadWait, ReadEnd, ReadSlice, ReadCopy, ReadAssign,
         ReadSpuriousWakeup, thread_close, Closer, CloseSignal, CloseJoin,
         CloseJoinUndefined, CloseFree,
         Closed, vars
    <3> QED BY <3>1, <3>2
  <2>3. copied' <= Len(delivered')
    <3>1. CASE ReadCopy
      <4>1. Len(delivered') = Len(delivered) + slice /\ copied' = copied + slice
        BY <3>1, CopyLength DEF IInv
      <4> QED BY <1>1, <4>1 DEF AheadInv
    <3>2. CASE ~ReadCopy
      <4>1. delivered' = delivered /\ (copied' = copied \/ copied' = 0)
        BY <1>5, <3>2 DEF Next, thread_open, thread_open_nomem, Producer, ProducerLock,
           ProducerCheck, ProducerDestroy, ProducerSpuriousWakeup, thread_read, Reader,
           ReadLock, ReadWait, ReadEnd, ReadSlice, ReadAdvance, ReadAssign,
           ReadSpuriousWakeup, thread_close, Closer, CloseSignal, CloseJoin,
         CloseJoinUndefined, CloseFree,
           Closed, vars
      <4> QED BY <1>1, <4>1 DEF AheadInv
    <3> QED BY <3>1, <3>2
  <2>4. FilledEnd' = FilledEnd
    BY <2>1 DEF FilledEnd
  <2>5. \A b \in Slots : Amount(b)' = Amount(b)
    BY <2>1 DEF Amount
  <2> QED BY <2>1, <2>2, <2>3, <2>4, <2>5 DEF AheadInv
<1> QED BY <1>3, <1>4, <1>5

(* What has been delivered had been read from the parent.                  *)
LEMMA DeliveredWithinParent ==
  ASSUME IInv, AheadInv
  PROVE  Len(delivered) <= parentPos
<1>1. /\ len \in [Slots -> -1..BUFFER_SIZE] /\ space \in [Slots -> Nat]
      /\ state \in [Slots -> {"EMPTY", "FULL"}] /\ buffer \in Slots
      /\ slice \in Nat /\ offset \in Nat /\ parentPos \in Nat /\ Front \in Slots
      /\ Len(delivered) \in Nat
  BY DEF IInv, TypeOK, Front
<1>2. \A b \in Slots : Amount(b) \in Nat /\ space[b] \in Nat /\ len[b] \in Int
  BY <1>1, ReaderAssumption DEF Amount
<1>3. FilledEnd \in Nat /\ FilledEnd <= parentPos
  <2>1. CASE ppc = "publish"
    <3>1. space[buffer] + Amount(buffer) = parentPos /\ FilledEnd = space[buffer]
      BY <2>1 DEF IInv, FillInv, FilledEnd
    <3>2. space[buffer] \in Nat /\ Amount(buffer) \in Nat
      BY <1>1, <1>2
    <3> QED BY <3>1, <3>2
  <2>2. CASE ppc # "publish"
    BY <1>1, <2>2 DEF FilledEnd
  <2> QED BY <2>1, <2>2
<1>4. CASE state[Front] = "EMPTY"
  BY <1>1, <1>3, <1>4 DEF IInv, FrontInv
<1>5. CASE state[Front] = "FULL"
  <2>1. space[Front] + Taken = Len(delivered)
    BY <1>5 DEF IInv, FrontInv
  <2>2. Taken \in Nat /\ Taken <= Amount(Front)
    <3>1. CASE cpc = "advance"
      <4>1. Front = in_buffer /\ len[in_buffer] > 0 /\ offset + slice <= len[in_buffer]
            /\ Taken = offset + slice
        BY <3>1 DEF Front, Taken, IInv, ReadInv
      <4> QED BY <1>1, <4>1 DEF Amount
    <3>2. CASE cpc # "advance"
      <4>1. Taken = offset /\ IF len[Front] > 0 THEN offset < len[Front] ELSE offset = 0
        BY <1>5, <3>2 DEF Taken, IInv, FrontInv
      <4>2. len[Front] \in Int
        BY <1>1, <1>2
      <4> QED BY <1>1, <4>1, <4>2 DEF Amount
    <3> QED BY <3>1, <3>2
  <2>3. space[Front] + Amount(Front) <= FilledEnd
    BY <1>1, <1>5 DEF AheadInv
  <2>4. space[Front] \in Nat /\ Amount(Front) \in Nat
    BY <1>1, <1>2
  <2> QED BY <1>1, <1>3, <2>1, <2>2, <2>3, <2>4
<1> QED BY <1>1, <1>4, <1>5

(* The bytes the program has been given, before and after a step.          *)
LEMMA GotBytes ==
  ASSUME IInv, AheadInv, IInv', AheadInv'
  PROVE  /\ Returned \in Nat /\ Got = Bytes(0, Returned) /\ Len(Got) = Returned
         /\ Returned' \in Nat /\ Got' = Bytes(0, Returned')
<1>1. /\ delivered \in Seq(Nat) /\ InOrder(delivered) /\ copied \in Nat
      /\ copied <= Len(delivered)
  BY DEF IInv, TypeOK, InOrderDelivery, AheadInv
<1>2. /\ delivered' \in Seq(Nat) /\ InOrder(delivered') /\ copied' \in Nat
      /\ copied' <= Len(delivered')
  BY DEF IInv, TypeOK, InOrderDelivery, AheadInv
<1>3. Returned \in Nat /\ Returned' \in Nat
  BY <1>1, <1>2 DEF Returned
<1>4. Got = Bytes(0, Returned)
  BY <1>1, PrefixInOrder, Zenon DEF Got, Returned
<1>5. Got' = Bytes(0, Returned')
  BY <1>2, PrefixInOrder, Zenon DEF Got, Returned
<1>6. Len(Bytes(0, Returned)) = Returned
  <2>1. 0 \in Nat
    OBVIOUS
  <2> QED BY <1>3, <2>1, BytesFacts, Zenon
<1> QED BY <1>3, <1>4, <1>5, <1>6

(* A read that returns n bytes more.                                       *)
LEMMA GotGrows ==
  ASSUME IInv, AheadInv, IInv', AheadInv', NEW n \in Nat, Returned' = Returned + n
  PROVE  Got' = Got \o Contract!Bytes(Len(Got), n)
<1>1. /\ Returned \in Nat /\ Got = Bytes(0, Returned) /\ Len(Got) = Returned
      /\ Got' = Bytes(0, Returned')
  BY GotBytes
<1>2. 0 \in Nat /\ 0 + Returned = Returned
  BY <1>1
<1>3. Bytes(0, Returned) \o Bytes(0 + Returned, n) = Bytes(0, Returned + n)
  BY <1>1, <1>2, BytesAppend, Zenon
<1>4. Contract!Bytes(Returned, n) = Bytes(Returned, n)
  BY DEF Contract!Bytes, Bytes
<1> QED BY <1>1, <1>2, <1>3, <1>4, Zenon

(* A step that does not enter or leave a call and returns no bytes is a    *)
(* stuttering step of the contract.                                        *)
LEMMA RefineStutter ==
  ASSUME IInv, AheadInv, IInv', AheadInv',
         UNCHANGED <<asked, ret, parentPos, parentEnd>>, Returned' = Returned,
         Status' = Status
  PROVE  UNCHANGED Contract!ivars
<1>1. Got' = Got
  BY GotBytes
<1> QED BY <1>1, Zenon DEF Contract!ivars, Status, Got

(* The two ways a read in progress returns: it has all it asked for, or it *)
(* met the end of the stream.                                              *)
LEMMA RefineFinish ==
  ASSUME IInv, AheadInv, IInv', AheadInv', ReadEnd \/ (ReadAssign /\ ~Unsatisfied)
  PROVE  Contract!Finish
<1> USE DEF ring, handle, producer, locals, parent
<1>1. /\ copied \in Nat /\ want \in Nat /\ asked \in Nat /\ parentPos \in Nat
      /\ Len(delivered) \in Nat /\ parentEnd \in {-1, 0, 1}
  BY DEF IInv, TypeOK
<1>2. /\ cpc \in Reading /\ cpc' = "idle" /\ copied' = 0
      /\ UNCHANGED <<asked, parentPos, parentEnd, delivered>>
  BY DEF ReadEnd, ReadAssign, Reading
<1>3. Status = "reading" /\ Status' = "idle"
  BY <1>2, Zenon DEF Status, Reading
<1>4. want + copied = asked /\ asked > 0 /\ Len(delivered) <= parentPos
  BY <1>2, DeliveredWithinParent DEF IInv, ReadInv
<1>5. Returned' = Returned + copied /\ Returned' = Len(delivered)
  BY <1>1, <1>2 DEF Returned
<1>6. Got' = Got \o Contract!Bytes(Len(Got), copied) /\ Len(Got) = Returned
  BY <1>1, <1>5, GotGrows, GotBytes
<1> DEFINE remaining == parentPos - Len(Got)
<1>7. remaining = parentPos - (Len(delivered) - copied)
  BY <1>6 DEF Returned
<1>8. \/ remaining >= asked /\ ret' = asked /\ copied = asked
      \/ 0 < remaining /\ remaining < asked /\ parentEnd < 1 /\ ret' = remaining
         /\ copied = remaining
      \/ remaining = 0 /\ parentEnd < 1 /\ ret' = parentEnd /\ Got' = Got
  <2>1. CASE ReadAssign /\ ~Unsatisfied
    <3>1. want = 0 /\ ret' = copied
      BY <1>1, <2>1 DEF ReadAssign, Unsatisfied
    <3>2. copied = asked
      BY <1>1, <1>4, <3>1
    <3>3. remaining >= asked
      BY <1>1, <1>4, <1>7, <3>2
    <3> QED BY <3>1, <3>2, <3>3
  <2>2. CASE ReadEnd
    <3>1. /\ cpc = "check" /\ state[in_buffer] = "FULL" /\ len[in_buffer] < 1
          /\ ret' = EndResult /\ in_buffer \in Slots /\ len[in_buffer] \in Int
          /\ space[in_buffer] \in Nat
      BY <2>2 DEF ReadEnd, IInv, TypeOK
    <3>2. parentEnd = len[in_buffer] /\ ppc \in {"destroy", "done"}
      BY <3>1 DEF IInv, FillInv
    <3>3. Front = in_buffer /\ Taken = offset /\ FilledEnd = parentPos
      BY <3>1, <3>2 DEF Front, Taken, FilledEnd
    <3>4. space[in_buffer] + 0 = Len(delivered)
      BY <3>1, <3>3 DEF IInv, FrontInv
    <3>5. space[in_buffer] + 0 = parentPos
      BY <3>1, <3>3 DEF IInv, ChainInv, Amount
    <3>6. remaining = copied
      BY <1>1, <1>7, <3>4, <3>5
    <3>7. copied < asked
      <4>1. want > 0
        BY <3>1 DEF IInv, ReadInv, Reading
      <4> QED BY <1>1, <1>4, <4>1
    <3>8. CASE copied < 1
      <4>1. copied = 0 /\ ret' = parentEnd
        BY <1>1, <3>1, <3>2, <3>8 DEF EndResult
      <4>2. Returned' = Returned
        BY <1>1, <1>5, <4>1, GotBytes
      <4>3. Got' = Got
        BY <4>2, GotBytes
      <4> QED BY <3>1, <3>2, <3>6, <4>1, <4>3
    <3>9. CASE copied >= 1
      <4>1. ret' = copied
        BY <1>1, <3>1, <3>9 DEF EndResult
      <4> QED BY <1>1, <3>1, <3>2, <3>6, <3>7, <3>9, <4>1
    <3> QED BY <1>1, <3>8, <3>9
  <2> QED BY <2>1, <2>2
<1>9. remaining = Contract!Remaining
  BY Zenon DEF Contract!Remaining, Got
<1> HIDE DEF remaining
<1>10. \/ remaining >= asked /\ Contract!Return(asked)
       \/ 0 < remaining /\ remaining < asked /\ parentEnd < 1
          /\ Contract!Return(remaining)
       \/ remaining = 0 /\ parentEnd < 1 /\ ret' = parentEnd /\ Got' = Got
  BY <1>6, <1>8, Zenon DEF Contract!Return, Got
<1> QED BY <1>2, <1>3, <1>9, <1>10, Zenon DEF Contract!Finish, Status, Got

(* thread_open, the start of a read, a read of nothing and the close.      *)
LEMMA RefineCalls ==
  ASSUME IInv, AheadInv, IInv', AheadInv',
         \/ thread_open \/ thread_open_nomem \/ thread_close
         \/ \E n \in 0..MaxReadLen : thread_read(n)
  PROVE  Contract!Open \/ Contract!Call \/ Contract!Close
<1> USE DEF ring, handle, producer, locals, parent
<1>1. copied = 0 /\ copied' = 0
  BY DEF thread_open, thread_open_nomem, thread_close, thread_read, IInv, ReadInv, Reading
<1>2. UNCHANGED <<parentPos, parentEnd, delivered>>
  BY DEF thread_open, thread_open_nomem, thread_close, thread_read
<1>3. Got' = Got
  <2>1. Returned' = Returned
    BY <1>1, <1>2 DEF Returned
  <2> QED BY <2>1, GotBytes
<1>4. CASE thread_open \/ thread_open_nomem
  <2>1. cpc = "open" /\ cpc' \in {"idle", "free"} /\ UNCHANGED <<asked, ret>>
    BY <1>4 DEF thread_open, thread_open_nomem
  <2>2. Status = "open" /\ Status' \in {"idle", "closed"}
    BY <2>1, Zenon DEF Status
  <2>3. Contract!Open
    BY <1>2, <1>3, <2>1, <2>2, Zenon DEF Contract!Open, Status, Got
  <2> QED BY <2>3
<1>5. CASE thread_close
  <2>1. cpc = "idle" /\ cpc' = "close" /\ UNCHANGED <<asked, ret>>
    BY <1>5 DEF thread_close
  <2>2. Status = "idle" /\ Status' = "closed"
    BY <2>1, Zenon DEF Status
  <2>3. Contract!Close
    BY <1>2, <1>3, <2>1, <2>2, Zenon DEF Contract!Close, Status, Got
  <2> QED BY <2>3
<1>6. CASE \E n \in 0..MaxReadLen : thread_read(n)
  <2>1. PICK n \in 0..MaxReadLen : thread_read(n)
    BY <1>6
  <2>2. cpc = "idle" /\ asked' = n /\ n \in Nat
    BY <2>1, ReaderAssumption DEF thread_read
  <2>3. IF asked' > 0 THEN cpc' = "lock" /\ ret' = ret ELSE cpc' = "idle" /\ ret' = 0
    BY <2>1, <2>2 DEF thread_read
  <2>4. Status = "idle" /\ (cpc' = "lock" => Status' = "reading")
        /\ (cpc' = "idle" => Status' = "idle")
    BY <2>2, Zenon DEF Status
  <2>5. IF asked' > 0 THEN Status' = "reading" /\ ret' = ret
                      ELSE Status' = "idle" /\ ret' = 0
    BY <2>3, <2>4
  <2>6. asked' \in Nat
    BY <2>2
  <2>7. Contract!Call
    BY <1>2, <1>3, <2>4, <2>5, <2>6, Zenon DEF Contract!Call, Status, Got
  <2> QED BY <2>7
<1> QED BY <1>4, <1>5, <1>6

(* The producer's read of its parent.                                      *)
LEMMA RefineSupply ==
  ASSUME IInv, AheadInv, IInv', AheadInv', ProducerFill
  PROVE  Contract!Supply
<1> USE DEF handle, locals
<1>1. parentEnd = 1 /\ parentPos \in Nat
  BY DEF ProducerFill, IInv, FillInv, TypeOK
<1>2. UNCHANGED <<cpc, asked, ret, copied, delivered>>
  BY DEF ProducerFill
<1>3. parentPos' \in Nat /\ parentPos' >= parentPos /\ parentEnd' \in {1, 0, -1}
  <2>1. PICK r \in -1 .. BUFFER_SIZE :
          /\ parentPos' = IF r > 0 THEN parentPos + r ELSE parentPos
          /\ parentEnd' = IF r > 0 THEN 1 ELSE r
    BY DEF ProducerFill
  <2> QED BY <1>1, <2>1, ReaderAssumption
<1>4. Got' = Got /\ Status' = Status
  BY <1>2 DEF Got, Status
<1> QED BY <1>1, <1>2, <1>3, <1>4, Zenon DEF Contract!Supply, Status, Got

(* Everything else happens out of sight: the wakeups, the waits, the       *)
(* publishing, and the copying of a call that has not returned.            *)
LEMMA RefineInternal ==
  ASSUME IInv, AheadInv, IInv', AheadInv',
         \/ ProducerLock \/ ProducerCheck \/ ProducerSpuriousWakeup
         \/ ProducerPublish \/ ProducerDestroy
         \/ ReadLock \/ ReadWait \/ ReadSpuriousWakeup \/ ReadSlice \/ ReadCopy
         \/ ReadAdvance \/ (ReadAssign /\ Unsatisfied)
         \/ CloseSignal \/ CloseJoin \/ CloseJoinUndefined \/ CloseFree
         \/ UNCHANGED vars
  PROVE  UNCHANGED Contract!ivars
<1> USE DEF ring, handle, producer, locals, parent
<1>1. UNCHANGED <<asked, ret, parentPos, parentEnd>>
  BY DEF ProducerLock, ProducerCheck, ProducerSpuriousWakeup, ProducerPublish,
         ProducerDestroy, ReadLock, ReadWait, ReadSpuriousWakeup, ReadSlice, ReadCopy,
         ReadAdvance, ReadAssign, CloseSignal, CloseJoin,
         CloseJoinUndefined, CloseFree, vars
<1>2. \/ cpc' = cpc
      \/ cpc \in Reading /\ cpc' \in Reading
      \/ cpc \in {"close", "join", "free"}
         /\ cpc' \in {"join", "free", "closed", "crashed"}
  BY DEF ProducerLock, ProducerCheck, ProducerSpuriousWakeup, ProducerPublish,
         ProducerDestroy, ReadLock, ReadWait, ReadSpuriousWakeup, ReadSlice, ReadCopy,
         ReadAdvance, ReadAssign, CloseSignal, CloseJoin,
         CloseJoinUndefined, CloseFree, vars, Signal, Reading
<1>3. Status' = Status
  BY <1>2, Zenon DEF Status, Reading
<1>4. Returned' = Returned
  <2>1. CASE ReadCopy
    <3>1. Len(delivered) \in Nat /\ slice \in Nat /\ copied \in Nat
      BY DEF IInv, TypeOK
    <3>2. Len(delivered') = Len(delivered) + slice /\ copied' = copied + slice
      BY <2>1, CopyLength DEF IInv
    <3> QED BY <3>1, <3>2 DEF Returned
  <2>2. CASE ~ReadCopy
    <3>1. UNCHANGED <<delivered, copied>>
      BY <2>2 DEF ProducerLock, ProducerCheck, ProducerSpuriousWakeup, ProducerPublish,
         ProducerDestroy, ReadLock, ReadWait, ReadSpuriousWakeup, ReadSlice,
         ReadAdvance, ReadAssign, CloseSignal, CloseJoin,
         CloseJoinUndefined, CloseFree, vars
    <3> QED BY <3>1 DEF Returned
  <2> QED BY <2>1, <2>2
<1> QED BY <1>1, <1>3, <1>4, RefineStutter

(* ior-thread.c behind io_t: every behaviour of the two threads, seen      *)
(* through the reads that return, is one the contract of a reader handle   *)
(* allows: consecutive bytes, as many as asked for until the source ends.  *)
THEOREM Refinement == Spec => ImplementsIOReader
<1>1. Init => Contract!IOInit
  <2> SUFFICES ASSUME Init PROVE Contract!IOInit
    OBVIOUS
  <2>1. Status = "open"
    BY Zenon DEF Init, Status
  <2>2. Got = <<>>
    BY DEF Init, Got
  <2> QED BY <2>1, <2>2, Zenon DEF Contract!IOInit, Status, Got, Init
<1>2. Init => AheadInv
  BY DEF Init, AheadInv
<1>3. IInv /\ AheadInv /\ IInv' /\ AheadInv' /\ [Next]_vars
        => [Contract!IONext]_(Contract!ivars)
  <2> SUFFICES ASSUME IInv, AheadInv, IInv', AheadInv', [Next]_vars
               PROVE  Contract!IONext \/ UNCHANGED Contract!ivars
    OBVIOUS
  <2>1. CASE \/ thread_open \/ thread_open_nomem \/ thread_close
             \/ \E n \in 0..MaxReadLen : thread_read(n)
    BY <2>1, RefineCalls DEF Contract!IONext
  <2>2. CASE ProducerFill
    BY <2>2, RefineSupply DEF Contract!IONext
  <2>3. CASE ReadEnd \/ (ReadAssign /\ ~Unsatisfied)
    BY <2>3, RefineFinish DEF Contract!IONext
  <2>4. CASE \/ ProducerLock \/ ProducerCheck \/ ProducerSpuriousWakeup
             \/ ProducerPublish \/ ProducerDestroy
             \/ ReadLock \/ ReadWait \/ ReadSpuriousWakeup \/ ReadSlice \/ ReadCopy
             \/ ReadAdvance \/ (ReadAssign /\ Unsatisfied)
             \/ CloseSignal \/ CloseJoin \/ CloseJoinUndefined \/ CloseFree
         \/ UNCHANGED vars
    BY <2>4, RefineInternal
  <2> QED BY <2>1, <2>2, <2>3, <2>4 DEF Next, Producer, Reader, Closer, Closed
<1> QED BY <1>1, <1>2, <1>3, InvariantHolds, NextAhead, PTL
        DEF Spec, ImplementsIOReader, Contract!IOSpec
=============================================================================
