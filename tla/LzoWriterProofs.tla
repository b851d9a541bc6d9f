-------------------------- MODULE LzoWriterProofs ---------------------------
(***************************************************************************)
(* Proofs, for every size of the pool and of a block, of what MCLzoWriter  *)
(* checks on small instances of LzoWriter.                                 *)
(***************************************************************************)
EXTENDS LzoWriter, ByteStreamProofs

(* Types that TypeOK leaves open.                                          *)
PoolTypes ==
  /\ threads \in Nat
  /\ inbuf \in [Threads -> Seq(Nat)] /\ outbuf \in [Threads -> Seq(Nat)]
  /\ out \in Seq(Nat)
  /\ threads = 0 => next_thread = 9
  /\ threads > 0 => next_thread \in Threads

(* How long ago thread t was the one being filled: 1 for the latest, up to *)
(* the size of the pool for the one whose turn it is; with the size and    *)
(* the thread whose turn it is as parameters.                              *)
AgeAt(n, x, t) == IF t >= x THEN n - (t - x) ELSE x - t
Age(t) == AgeAt(threads, next_thread, t)

Held(t) == state[t] # "EMPTY"

(* What is in the block being filled.                                      *)
Begun == IF state[next_thread] = "EMPTY" THEN Len(inbuf[next_thread]) ELSE 0

(* While the program writes, the k threads filled last hold the last k     *)
(* blocks, the output ends where the oldest of them begins, and the block  *)
(* being filled begins where the latest ends.                              *)
Filling(k) ==
  /\ accepted = (Len(out) + MAX_BLOCK_SIZE * k) + Begun
  /\ Begun < MAX_BLOCK_SIZE
  /\ \A t \in Threads :
       /\ Held(t) <=> Age(t) <= k
       /\ Age(t) <= k => inbuf[t] = Bytes((accepted - Begun) - MAX_BLOCK_SIZE * Age(t),
                                          MAX_BLOCK_SIZE)
       /\ Age(t) > k /\ t # next_thread => inbuf[t] = <<>>
       /\ Age(t) > k /\ t = next_thread => inbuf[t] = Bytes(accepted - Begun, Begun)

FillInv ==
  wpc \in {"idle", "write"} =>
    /\ shut = 0 /\ ~marked
    /\ InOrder(out)
    /\ threads = 0 => Len(out) = accepted
    /\ threads > 0 => \E k \in 0..threads : Filling(k)
    /\ \A t \in Threads : ~closing[t]

Elements(s) == {s[i] : i \in 1..Len(s)}

(* The threads told to stop.                                               *)
Stopped == IF wpc = "join" THEN shut + 1 ELSE shut

(* When the pool is shut down, k whole blocks, up to stream offset e, are  *)
(* in the threads filled before the latest, which has the l bytes behind   *)
(* offset y; with the output they make up the data.                        *)
Draining(k, e, y, l) ==
  /\ (Len(out) + MAX_BLOCK_SIZE * k) + l = accepted
  /\ MAX_BLOCK_SIZE * k <= e
  /\ Elements(out) \cup ((e - MAX_BLOCK_SIZE * k) + 1 .. e) \cup (y + 1 .. y + l)
       = 1..accepted
  /\ tidyClose => y = e /\ Len(out) + MAX_BLOCK_SIZE * k = e /\ InOrder(out)
  /\ \A t \in Threads :
       /\ Age(t) = 1 => (Held(t) <=> l > 0) /\ inbuf[t] = Bytes(y, l)
       /\ Age(t) > 1 => (Held(t) <=> Age(t) - 1 <= k)
       /\ Age(t) > 1 /\ Age(t) - 1 <= k =>
            inbuf[t] = Bytes(e - MAX_BLOCK_SIZE * (Age(t) - 1), MAX_BLOCK_SIZE)
       /\ Age(t) > 1 /\ Age(t) - 1 > k => inbuf[t] = <<>>

(* When they have all stopped.                                             *)
AllOut ==
  /\ Len(out) = accepted /\ Elements(out) = 1..accepted
  /\ tidyClose => InOrder(out)
  /\ \A t \in Threads : ~Held(t) /\ inbuf[t] = <<>>

DrainInv ==
  wpc \notin {"idle", "write"} =>
    /\ wpc \in {"shutdown", "join"} => shut < threads
    /\ wpc \in {"finish", "closed"} => shut = threads
    /\ wpc = "closed" => marked
    /\ Stopped < threads =>
         \E k \in 0 .. (threads - 1) - Stopped, e \in 0..accepted, y \in 0..accepted,
            l \in 0..MAX_BLOCK_SIZE : Draining(k, e, y, l)
    /\ Stopped = threads => AllOut
    /\ \A t \in Threads : closing[t] <=> Age(t) > threads - Stopped

(* A compressed block is the one handed over; a thread sleeps only if it   *)
(* has nothing to do; the caller only if it waits for a block.             *)
ThreadInv ==
  /\ \A t \in Threads : state[t] = "FULL" => outbuf[t] = inbuf[t]
  /\ asleep => (wpc = "write" /\ want > 0 /\ threads > 0) \/ wpc = "shutdown"

(* The inductive invariant.                                                *)
IInv == TypeOK /\ PoolTypes /\ ThreadInv /\ NoLostWakeup /\ FillInv /\ DrainInv
-----------------------------------------------------------------------------
(* Numbers that go round.                                                  *)
LEMMA Wrap ==
  ASSUME NEW n \in Nat \ {0}, NEW a \in 0 .. (n + n) - 1
  PROVE  a % n = IF a < n THEN a ELSE a - n
<1> DEFINE r == a % n
           q == a \div n
<1>1. r \in 0..(n - 1) /\ q \in Int /\ a = n * q + r
  OBVIOUS
<1> HIDE DEF r, q
<1>2. CASE q <= -1
  <2>1. n * q <= -n
    BY <1>1, <1>2
  <2> QED BY <1>1, <2>1
<1>3. CASE q = 0
  <2>1. a = r
    BY <1>1, <1>3
  <2> QED BY <1>1, <2>1 DEF r
<1>4. CASE q = 1
  <2>1. a = n + r
    BY <1>1, <1>4
  <2> QED BY <1>1, <2>1 DEF r
<1>5. CASE q >= 2
  <2>1. n * q >= n + n
    BY <1>1, <1>5
  <2> QED BY <1>1, <2>1
<1> QED BY <1>1, <1>2, <1>3, <1>4, <1>5

(* The thread whose turn it is was filled longest ago.                     *)
LEMMA AgeFacts ==
  ASSUME NEW n \in Nat \ {0}, NEW x \in 0..(n - 1), NEW t \in 0..(n - 1)
  PROVE  AgeAt(n, x, t) \in 1..n /\ (AgeAt(n, x, t) = n <=> t = x)
BY DEF AgeAt

(* When the turn passes on, every other thread ages.                       *)
LEMMA AgeStep ==
  ASSUME NEW n \in Nat \ {0}, NEW x \in 0..(n - 1)
  PROVE  /\ (x + 1) % n \in 0..(n - 1)
         /\ \A t \in 0..(n - 1) :
              AgeAt(n, (x + 1) % n, t) = IF t = x THEN 1 ELSE AgeAt(n, x, t) + 1
<1> DEFINE z == (x + 1) % n
<1>1. z = IF x + 1 < n THEN x + 1 ELSE (x + 1) - n
  <2>1. x + 1 \in 0 .. (n + n) - 1
    OBVIOUS
  <2> QED BY <2>1, Wrap, Zenon
<1> HIDE DEF z
<1>2. z \in 0..(n - 1) /\ \A t \in 0..(n - 1) :
        AgeAt(n, z, t) = IF t = x THEN 1 ELSE AgeAt(n, x, t) + 1
  BY <1>1 DEF AgeAt
<1> QED BY <1>2 DEF z

(* The threads are shut down from the oldest to the latest.                *)
LEMMA AgeCurrent ==
  ASSUME NEW n \in Nat \ {0}, NEW x \in 0..(n - 1), NEW s \in 0..(n - 1)
  PROVE  /\ (x + s) % n \in 0..(n - 1)
         /\ \A t \in 0..(n - 1) : AgeAt(n, x, t) = n - s <=> t = (x + s) % n
<1> DEFINE z == (x + s) % n
<1>1. z = IF x + s < n THEN x + s ELSE (x + s) - n
  <2>1. x + s \in 0 .. (n + n) - 1
    OBVIOUS
  <2> QED BY <2>1, Wrap, Zenon
<1> HIDE DEF z
<1>2. /\ z \in 0..(n - 1)
      /\ \A t \in 0..(n - 1) : AgeAt(n, x, t) = n - s <=> t = z
  BY <1>1 DEF AgeAt
<1> QED BY <1>2 DEF z

(* The length of k blocks.                                                 *)
LEMMA Times ==
  ASSUME NEW m \in Nat, NEW k \in Nat
  PROVE  /\ m * k \in Nat /\ m * 0 = 0 /\ m * 1 = m
         /\ m * (k + 1) = m * k + m
         /\ k > 0 => m * (k - 1) = m * k - m /\ m <= m * k
OBVIOUS

(* More blocks are longer.                                                 *)
LEMMA TimesMonotone ==
  ASSUME NEW m \in Nat, NEW k \in Nat, NEW j \in 0..k
  PROVE  m * j <= m * k
<1>1. PICK d \in Nat : k = j + d
  OBVIOUS
<1>2. m * k = m * j + m * d
  BY <1>1
<1>3. m * d \in Nat /\ m * j \in Nat
  BY <1>1
<1> QED BY <1>2, <1>3

(* What is in a sequence when the bytes behind c are appended to it.       *)
LEMMA ElementsAppend ==
  ASSUME NEW s \in Seq(Nat), NEW c \in Nat, NEW m \in Nat
  PROVE  Elements(s \o Bytes(c, m)) = Elements(s) \cup (c + 1 .. c + m)
<1> DEFINE b == Bytes(c, m)
           u == s \o b
<1>1. b \in Seq(Nat) /\ Len(b) = m /\ \A i \in 1..m : b[i] = c + i
  BY BytesFacts
<1> HIDE DEF b
<1>2. /\ u \in Seq(Nat) /\ Len(u) = Len(s) + m /\ Len(s) \in Nat
      /\ \A i \in 1..Len(s) : u[i] = s[i]
      /\ \A i \in 1..m : u[Len(s) + i] = b[i]
  BY <1>1
<1> HIDE DEF u
<1>3. ASSUME NEW x \in Elements(u) PROVE x \in Elements(s) \cup (c + 1 .. c + m)
  <2>1. PICK i \in 1..Len(u) : x = u[i]
    BY DEF Elements
  <2>2. CASE i <= Len(s)
    <3>1. i \in 1..Len(s) /\ x = s[i]
      BY <1>2, <2>1, <2>2
    <3> QED BY <3>1 DEF Elements
  <2>3. CASE i > Len(s)
    <3>1. i - Len(s) \in 1..m /\ i = Len(s) + (i - Len(s))
      BY <1>2, <2>3
    <3>2. x = c + (i - Len(s))
      BY <1>1, <1>2, <2>1, <3>1, Zenon
    <3>3. c + (i - Len(s)) \in c + 1 .. c + m
      BY <3>1
    <3> QED BY <3>2, <3>3
  <2> QED BY <1>2, <2>2, <2>3
<1>4. ASSUME NEW x \in Elements(s) PROVE x \in Elements(u)
  <2>1. PICK i \in 1..Len(s) : x = s[i]
    BY DEF Elements
  <2>2. i \in 1..Len(u) /\ x = u[i]
    BY <1>2, <2>1
  <2> QED BY <2>2 DEF Elements
<1>5. ASSUME NEW x \in c + 1 .. c + m PROVE x \in Elements(u)
  <2>1. x - c \in 1..m /\ x = c + (x - c)
    OBVIOUS
  <2>2. u[Len(s) + (x - c)] = x
    BY <1>1, <1>2, <2>1, Zenon
  <2>3. Len(s) + (x - c) \in 1..Len(u)
    BY <1>2, <2>1
  <2> QED BY <2>2, <2>3 DEF Elements
<1>6. Elements(u) = Elements(s) \cup (c + 1 .. c + m)
  BY <1>3, <1>4, <1>5
<1> QED BY <1>6 DEF u, b

(* What is in an initial segment of the stream.                            *)
LEMMA ElementsInOrder ==
  ASSUME NEW s \in Seq(Nat), InOrder(s)
  PROVE  Elements(s) = 1..Len(s)
<1>1. \A i \in 1..Len(s) : s[i] = i
  BY DEF InOrder
<1>2. \A x \in Elements(s) : x \in 1..Len(s)
  BY <1>1 DEF Elements
<1>3. \A x \in 1..Len(s) : x \in Elements(s)
  BY <1>1 DEF Elements
<1> QED BY <1>2, <1>3
-----------------------------------------------------------------------------
(* The types of what the steps compute with.                               *)
LEMMA Types ==
  ASSUME IInv
  PROVE  /\ threads \in Nat /\ MAX_BLOCK_SIZE \in Nat \ {0}
         /\ out \in Seq(Nat) /\ Len(out) \in Nat /\ accepted \in Nat /\ want \in Nat
         /\ shut \in Nat
         /\ threads > 0 => next_thread \in Threads /\ threads \in Nat \ {0}
         /\ \A t \in Threads : /\ inbuf[t] \in Seq(Nat) /\ outbuf[t] \in Seq(Nat)
                               /\ Len(inbuf[t]) \in 0..MAX_BLOCK_SIZE
BY LzoAssumption DEF IInv, TypeOK, PoolTypes

(* The ages of the threads.                                                *)
LEMMA Ages ==
  ASSUME IInv, threads > 0
  PROVE  \A t \in Threads : Age(t) \in 1..threads /\ (Age(t) = threads <=> t = next_thread)
<1>1. threads \in Nat \ {0} /\ next_thread \in 0 .. threads - 1
  BY Types DEF Threads
<1> QED BY <1>1, AgeFacts, Zenon DEF Age, Threads

(* A step that moves no data and empties or fills no thread.               *)
LEMMA SameData ==
  ASSUME IInv, inbuf' = inbuf, out' = out, accepted' = accepted, lzow' = lzow,
         shut' = shut, closing' = closing, tidyClose' = tidyClose, marked' = marked,
         wpc' = wpc \/ {wpc, wpc'} \subseteq {"idle", "write"},
         \A t \in Threads : state'[t] = "EMPTY" <=> state[t] = "EMPTY"
  PROVE  FillInv' /\ DrainInv'
<1>1. threads' = threads /\ next_thread' = next_thread /\ Threads' = Threads
  BY Zenon DEF lzow, Threads
<1>2. /\ \A t \in Threads : (Held(t))' <=> Held(t)
      /\ \A t : (Age(t))' = Age(t)
  BY <1>1, Zenon DEF Held, Age
<1>3. FillInv'
  <2> SUFFICES ASSUME wpc' \in {"idle", "write"}
               PROVE  /\ shut' = 0 /\ ~marked'
                      /\ InOrder(out)'
                      /\ threads' = 0 => Len(out') = accepted'
                      /\ threads' > 0 => \E k \in 0..threads' : Filling(k)'
                      /\ \A t \in Threads' : ~closing'[t]
    BY DEF FillInv
  <2>1. wpc \in {"idle", "write"}
    OBVIOUS
  <2>2. /\ shut = 0 /\ ~marked /\ InOrder(out)
        /\ threads = 0 => Len(out) = accepted
        /\ \A t \in Threads : ~closing[t]
    BY <2>1 DEF IInv, FillInv
  <2>3. ASSUME threads > 0 PROVE \E k \in 0..threads : Filling(k)'
    <3>1. PICK k \in 0..threads : Filling(k)
      BY <2>1, <2>3 DEF IInv, FillInv
    <3>2. next_thread \in Threads
      BY <2>3, Types
    <3>3. Begun' = Begun
      BY <1>1, <3>2, Zenon DEF Begun
    <3>4. Filling(k)'
      BY <1>1, <1>2, <3>1, <3>3, Zenon DEF Filling
    <3> QED BY <3>4
  <2> QED BY <1>1, <2>2, <2>3, Zenon DEF InOrder
<1>4. DrainInv'
  <2> SUFFICES ASSUME wpc' \notin {"idle", "write"} PROVE DrainInv'
    BY DEF DrainInv
  <2>1. wpc' = wpc
    OBVIOUS
  <2>2. Stopped' = Stopped
    BY <2>1, Zenon DEF Stopped
  <2>3. ASSUME NEW k, NEW e, NEW y, NEW l, Draining(k, e, y, l)
        PROVE  Draining(k, e, y, l)'
    BY <1>1, <1>2, <2>3, Zenon DEF Draining, Elements, InOrder
  <2>4. AllOut => AllOut'
    BY <1>1, <1>2, Zenon DEF AllOut, Elements, InOrder
  <2>5. Stopped < threads => \E k \in 0 .. (threads - 1) - Stopped, e \in 0..accepted,
                                y \in 0..accepted, l \in 0..MAX_BLOCK_SIZE :
                                  Draining(k, e, y, l)'
    BY <2>1, <2>3, Zenon DEF IInv, DrainInv
  <2>6. /\ wpc \in {"shutdown", "join"} => shut < threads
        /\ wpc \in {"finish", "closed"} => shut = threads
        /\ wpc = "closed" => marked
        /\ Stopped = threads => AllOut
        /\ \A t \in Threads : closing[t] <=> Age(t) > threads - Stopped
    BY <2>1, Zenon DEF IInv, DrainInv
  <2> QED BY <1>1, <1>2, <2>1, <2>2, <2>4, <2>5, <2>6, Zenon DEF DrainInv
<1> QED BY <1>3, <1>4
-----------------------------------------------------------------------------
(* lzo_compress_thread *)

(* What a step of a compressor may touch.                                  *)
LEMMA ThreadFrame ==
  ASSUME IInv, NEW t \in Threads, NEW p \in {"run", "waiting", "done"},
         tpc' = [tpc EXCEPT ![t] = p],
         UNCHANGED <<inbuf, closing, lzow, wpc, want, shut, asked, ret, child, history>>,
         asleep' \in BOOLEAN, asleep' => asleep,
         state' \in [Threads -> {"EMPTY", "WAITING", "FULL"}],
         outbuf' \in [Threads -> Seq(Nat)],
         \A u \in Threads : /\ state'[u] = "EMPTY" <=> state[u] = "EMPTY"
                            /\ state'[u] = "FULL" => outbuf'[u] = inbuf[u]
                            /\ Len(outbuf'[u]) \in 0..MAX_BLOCK_SIZE,
         NoLostWakeup'
  PROVE  IInv'
<1>1. /\ inbuf' = inbuf /\ closing' = closing /\ threads' = threads
      /\ next_thread' = next_thread /\ wpc' = wpc /\ want' = want /\ shut' = shut
      /\ asked' = asked /\ ret' = ret /\ out' = out /\ marked' = marked
      /\ accepted' = accepted /\ tidyClose' = tidyClose /\ Threads' = Threads
  BY Zenon DEF lzow, child, history, Threads
<1>2. tpc' \in [Threads -> {"run", "waiting", "done"}]
  BY DEF IInv, TypeOK
<1>3. TypeOK'
  BY <1>1, <1>2, Zenon DEF IInv, TypeOK
<1>4. PoolTypes'
  BY <1>1, Zenon DEF IInv, PoolTypes
<1>5. ThreadInv'
  BY <1>1, Zenon DEF IInv, ThreadInv
<1>6. FillInv' /\ DrainInv'
  BY <1>1, SameData
<1> QED BY <1>3, <1>4, <1>5, <1>6, Zenon DEF IInv

(* What the frame needs if only the control state changes.                 *)
LEMMA ThreadSame ==
  ASSUME IInv, NEW t \in Threads, NEW p \in {"run", "waiting", "done"},
         tpc' = [tpc EXCEPT ![t] = p],
         p = "waiting" => state[t] # "WAITING" /\ ~closing[t],
         UNCHANGED <<state, inbuf, outbuf, closing, lzow, caller, child, history>>
  PROVE  IInv'
<1>1. /\ state' = state /\ outbuf' = outbuf /\ asleep' = asleep /\ closing' = closing
      /\ Threads' = Threads /\ wpc' = wpc /\ shut' = shut
      /\ next_thread' = next_thread /\ threads' = threads
  BY Zenon DEF caller, lzow, Threads
<1>2. NoLostWakeup'
  <2>1. Current' = Current
    BY <1>1, Zenon DEF Current
  <2>2. ASSUME NEW u \in Threads, tpc'[u] = "waiting"
        PROVE  state[u] # "WAITING" /\ ~closing[u]
    <3>1. tpc \in [Threads -> {"run", "waiting", "done"}]
      BY DEF IInv, TypeOK
    <3>2. CASE u = t
      BY <2>2, <3>1, <3>2
    <3>3. CASE u # t
      BY <2>2, <3>1, <3>3 DEF IInv, NoLostWakeup
    <3> QED BY <3>2, <3>3
  <2>3. asleep => state[Current] = "WAITING"
    BY DEF IInv, NoLostWakeup
  <2> QED BY <1>1, <2>1, <2>2, <2>3, Zenon DEF NoLostWakeup
<1>3. asleep' \in BOOLEAN /\ (asleep' => asleep)
  BY <1>1, Zenon DEF IInv, TypeOK
<1>4. /\ state' \in [Threads -> {"EMPTY", "WAITING", "FULL"}]
      /\ outbuf' \in [Threads -> Seq(Nat)]
      /\ \A u \in Threads : /\ state'[u] = "EMPTY" <=> state[u] = "EMPTY"
                            /\ state'[u] = "FULL" => outbuf'[u] = inbuf[u]
                            /\ Len(outbuf'[u]) \in 0..MAX_BLOCK_SIZE
  BY <1>1, Zenon DEF IInv, TypeOK, PoolTypes, ThreadInv
<1>5. UNCHANGED <<inbuf, closing, lzow, wpc, want, shut, asked, ret, child, history>>
  BY Zenon DEF caller
<1> QED BY <1>2, <1>3, <1>4, <1>5, ThreadFrame

(* A thread waits, stops, or is woken for no reason.                       *)
LEMMA ThreadWaitInv ==
  ASSUME IInv, NEW t \in Threads, ThreadWait(t) \/ ThreadExit(t) \/ ThreadSpuriousWakeup(t)
  PROVE  IInv'
<1>1. CASE ThreadWait(t)
  BY <1>1, ThreadSame DEF ThreadWait
<1>2. CASE ThreadExit(t)
  BY <1>2, ThreadSame DEF ThreadExit
<1>3. CASE ThreadSpuriousWakeup(t)
  BY <1>3, ThreadSame DEF ThreadSpuriousWakeup
<1> QED BY <1>1, <1>2, <1>3

(* A block is compressed, and the caller woken if it waits for this one.   *)
LEMMA ThreadCompressInv ==
  ASSUME IInv, NEW t \in Threads, ThreadCompress(t)
  PROVE  IInv'
<1>1. /\ state[t] = "WAITING" /\ ~closing[t]
      /\ outbuf' = [outbuf EXCEPT ![t] = inbuf[t]]
      /\ state' = [state EXCEPT ![t] = "FULL"]
      /\ tpc' = [tpc EXCEPT ![t] = "waiting"]
      /\ UNCHANGED <<inbuf, closing, lzow, wpc, want, shut, asked, ret, child, history>>
  BY DEF ThreadCompress
<1>2. asleep' \in BOOLEAN /\ (asleep' => asleep /\ Current # t)
  BY Zenon DEF ThreadCompress
<1>3. /\ state \in [Threads -> {"EMPTY", "WAITING", "FULL"}]
      /\ outbuf \in [Threads -> Seq(Nat)] /\ inbuf \in [Threads -> Seq(Nat)]
      /\ tpc \in [Threads -> {"run", "waiting", "done"}]
      /\ \A u \in Threads : /\ Len(outbuf[u]) \in 0..MAX_BLOCK_SIZE
                            /\ Len(inbuf[u]) \in 0..MAX_BLOCK_SIZE
  BY DEF IInv, TypeOK, PoolTypes
<1>4. /\ state' \in [Threads -> {"EMPTY", "WAITING", "FULL"}]
      /\ outbuf' \in [Threads -> Seq(Nat)]
  BY <1>1, <1>3
<1>5. ASSUME NEW u \in Threads
      PROVE  /\ state'[u] = "EMPTY" <=> state[u] = "EMPTY"
             /\ state'[u] = "FULL" => outbuf'[u] = inbuf[u]
             /\ Len(outbuf'[u]) \in 0..MAX_BLOCK_SIZE
  <2>1. CASE u = t
    <3>1. state'[u] = "FULL" /\ outbuf'[u] = inbuf[u]
      BY <1>1, <1>3, <2>1
    <3> QED BY <1>1, <1>3, <2>1, <3>1
  <2>2. CASE u # t
    <3>1. state'[u] = state[u] /\ outbuf'[u] = outbuf[u]
      BY <1>1, <1>3, <2>2
    <3> QED BY <1>3, <3>1, Zenon DEF IInv, ThreadInv
  <2> QED BY <2>1, <2>2
<1>6. NoLostWakeup'
  <2>1. /\ wpc' = wpc /\ shut' = shut /\ next_thread' = next_thread
        /\ threads' = threads /\ closing' = closing /\ Threads' = Threads
    BY <1>1, Zenon DEF lzow, Threads
  <2>2. Current' = Current
    BY <2>1, Zenon DEF Current
  <2>3. ASSUME NEW u \in Threads, tpc'[u] = "waiting"
        PROVE  state'[u] # "WAITING" /\ ~closing[u]
    <3>1. CASE u = t
      BY <1>1, <1>3, <3>1
    <3>2. CASE u # t
      <4>1. tpc[u] = "waiting" /\ state'[u] = state[u]
        BY <1>1, <1>3, <2>3, <3>2
      <4> QED BY <4>1, Zenon DEF IInv, NoLostWakeup
    <3> QED BY <3>1, <3>2
  <2>4. asleep' => state'[Current] = "WAITING"
    <3>1. asleep' => state[Current] = "WAITING" /\ Current # t
      BY <1>2 DEF IInv, NoLostWakeup
    <3> QED BY <1>1, <1>3, <3>1
  <2> QED BY <2>1, <2>2, <2>3, <2>4, Zenon DEF NoLostWakeup
<1> QED BY <1>1, <1>2, <1>4, <1>5, <1>6, ThreadFrame

(* The compressor fails and leaves its block behind.                       *)
LEMMA ThreadFailInv ==
  ASSUME IInv, NEW t \in Threads, ThreadFail(t)
  PROVE  IInv'
<1>1. /\ state[t] = "WAITING"
      /\ outbuf' = [outbuf EXCEPT ![t] = <<>>]
      /\ tpc' = [tpc EXCEPT ![t] = "done"]
      /\ state' = state /\ asleep' = asleep
      /\ UNCHANGED <<inbuf, closing, lzow, wpc, want, shut, asked, ret, child, history>>
  BY DEF ThreadFail, caller
<1>2. /\ outbuf \in [Threads -> Seq(Nat)]
      /\ tpc \in [Threads -> {"run", "waiting", "done"}]
      /\ \A u \in Threads : Len(outbuf[u]) \in 0..MAX_BLOCK_SIZE
      /\ MAX_BLOCK_SIZE \in Nat
  BY Types DEF IInv, TypeOK, PoolTypes
<1>3. outbuf' \in [Threads -> Seq(Nat)]
  BY <1>1, <1>2
<1>4. ASSUME NEW u \in Threads
      PROVE  /\ state'[u] = "EMPTY" <=> state[u] = "EMPTY"
             /\ state'[u] = "FULL" => outbuf'[u] = inbuf[u]
             /\ Len(outbuf'[u]) \in 0..MAX_BLOCK_SIZE
  <2>1. CASE u = t
    <3>1. outbuf'[u] = <<>> /\ Len(<<>>) = 0
      BY <1>1, <1>2, <2>1
    <3> QED BY <1>1, <1>2, <2>1, <3>1
  <2>2. CASE u # t
    <3>1. outbuf'[u] = outbuf[u]
      BY <1>1, <1>2, <2>2
    <3> QED BY <1>1, <1>2, <3>1, Zenon DEF IInv, ThreadInv
  <2> QED BY <2>1, <2>2
<1>5. NoLostWakeup'
  <2>1. /\ wpc' = wpc /\ shut' = shut /\ next_thread' = next_thread
        /\ threads' = threads /\ closing' = closing /\ Threads' = Threads
    BY <1>1, Zenon DEF lzow, Threads
  <2>2. Current' = Current
    BY <2>1, Zenon DEF Current
  <2>3. \A u \in Threads : tpc'[u] = "waiting" => tpc[u] = "waiting"
    BY <1>1, <1>2
  <2> QED BY <1>1, <2>1, <2>2, <2>3, Zenon DEF IInv, NoLostWakeup
<1>6. asleep' \in BOOLEAN /\ (asleep' => asleep)
  BY <1>1, Zenon DEF IInv, TypeOK
<1>7. state' \in [Threads -> {"EMPTY", "WAITING", "FULL"}]
  BY <1>1, Zenon DEF IInv, TypeOK
<1> QED BY <1>1, <1>3, <1>4, <1>5, <1>6, <1>7, ThreadFrame
-----------------------------------------------------------------------------
(* The caller's steps that leave the pool and the child alone.             *)
LEMMA CallerFrame ==
  ASSUME IInv, UNCHANGED <<pool, lzow, shut, child, history>>,
         wpc' = wpc \/ {wpc, wpc'} \subseteq {"idle", "write"},
         want' \in Nat, asked' \in Nat, ret' \in {0, -1}, asleep' \in BOOLEAN,
         asleep' =>
           /\ (wpc' = "write" /\ want' > 0 /\ threads > 0) \/ wpc' = "shutdown"
           /\ state[Current'] = "WAITING"
  PROVE  IInv'
<1>1. /\ state' = state /\ inbuf' = inbuf /\ outbuf' = outbuf /\ closing' = closing
      /\ tpc' = tpc /\ threads' = threads /\ next_thread' = next_thread
      /\ shut' = shut /\ out' = out /\ marked' = marked
      /\ accepted' = accepted /\ tidyClose' = tidyClose /\ Threads' = Threads
  BY Zenon DEF pool, lzow, child, history, Threads
<1>2. wpc' \in {"idle", "write", "shutdown", "join", "finish", "closed"}
  BY DEF IInv, TypeOK
<1>3. TypeOK'
  BY <1>1, <1>2, Zenon DEF IInv, TypeOK
<1>4. PoolTypes'
  BY <1>1, Zenon DEF IInv, PoolTypes
<1>5. ThreadInv' /\ NoLostWakeup'
  BY <1>1, Zenon DEF IInv, ThreadInv, NoLostWakeup
<1>6. FillInv' /\ DrainInv'
  BY <1>1, SameData DEF lzow
<1> QED BY <1>3, <1>4, <1>5, <1>6, Zenon DEF IInv

(* A write begins, returns, fails or waits; the caller waits for a thread  *)
(* it shuts down, or wakes for no reason.                                  *)
LEMMA CallerInv ==
  ASSUME IInv, NEW n \in Nat,
         \/ lzo_wwrite(n) \/ WriteReturn \/ WriteUnthreadedFail
         \/ WriteWait \/ CallerSpuriousWakeup \/ ShutdownWait
  PROVE  IInv'
<1>1. /\ want \in Nat /\ asked \in Nat /\ ret \in {0, -1} /\ threads \in Nat
      /\ 0 \in {0, -1} /\ -1 \in {0, -1} /\ TRUE \in BOOLEAN /\ FALSE \in BOOLEAN
  BY DEF IInv, TypeOK, PoolTypes
<1>2. asleep \in BOOLEAN
  BY Zenon DEF IInv, TypeOK
<1>3. asleep => /\ (wpc = "write" /\ want > 0 /\ threads > 0) \/ wpc = "shutdown"
                /\ state[Current] = "WAITING"
  BY Zenon DEF IInv, ThreadInv, NoLostWakeup
<1>4. CASE lzo_wwrite(n)
  <2>1. ~asleep
    BY <1>3, <1>4 DEF lzo_wwrite
  <2> QED BY <1>1, <1>2, <1>4, <2>1, CallerFrame DEF lzo_wwrite
<1>5. CASE WriteReturn
  <2>1. ~asleep
    BY <1>1, <1>3, <1>5 DEF WriteReturn
  <2> QED BY <1>1, <1>2, <1>5, <2>1, CallerFrame DEF WriteReturn
<1>6. CASE WriteUnthreadedFail
  <2>1. ~asleep
    BY <1>1, <1>3, <1>6 DEF WriteUnthreadedFail
  <2> QED BY <1>1, <1>2, <1>6, <2>1, CallerFrame DEF WriteUnthreadedFail
<1>7. CASE WriteWait
  <2>1. Current' = next_thread
    BY <1>7 DEF WriteWait, Current, lzow
  <2> QED BY <1>1, <1>7, <2>1, CallerFrame DEF WriteWait, StillCompressing
<1>8. CASE CallerSpuriousWakeup
  BY <1>1, <1>8, CallerFrame DEF CallerSpuriousWakeup
<1>9. CASE ShutdownWait
  <2>1. Current' = Current
    BY <1>9 DEF ShutdownWait, Current, lzow
  <2> QED BY <1>1, <1>9, <2>1, CallerFrame DEF ShutdownWait, StillCompressing
<1> QED BY <1>4, <1>5, <1>6, <1>7, <1>8, <1>9

(* Without a pool every block goes straight to the child.                  *)
LEMMA WriteUnthreadedInv ==
  ASSUME IInv, WriteUnthreaded
  PROVE  IInv'
<1> DEFINE z == BlockSize(want)
<1>1. z \in 1..want /\ z \in Nat
  BY Types DEF WriteUnthreaded, BlockSize, Smaller
<1>2. /\ threads = 0 /\ wpc = "write" /\ out' = out \o Bytes(accepted, z)
      /\ want' = want - z /\ accepted' = accepted + z
      /\ state' = state /\ inbuf' = inbuf /\ outbuf' = outbuf /\ closing' = closing
      /\ tpc' = tpc /\ threads' = threads /\ next_thread' = next_thread
      /\ wpc' = wpc /\ shut' = shut /\ asked' = asked /\ ret' = ret
      /\ marked' = marked /\ tidyClose' = tidyClose /\ asleep' = asleep
  BY Zenon DEF WriteUnthreaded, pool, lzow, Block
<1> HIDE DEF z
<1>3. InOrder(out) /\ Len(out) = accepted /\ shut = 0 /\ ~marked
  BY <1>2 DEF IInv, FillInv
<1>4. out \in Seq(Nat) /\ accepted \in Nat /\ Len(out) \in Nat /\ want \in Nat
  BY Types
<1>5. /\ out \o Bytes(Len(out), z) \in Seq(Nat) /\ InOrder(out \o Bytes(Len(out), z))
      /\ Len(out \o Bytes(Len(out), z)) = Len(out) + z
  BY <1>1, <1>3, <1>4, AppendInOrder, Zenon
<1>6. out' \in Seq(Nat) /\ InOrder(out') /\ Len(out') = accepted'
  BY <1>2, <1>3, <1>5, Zenon
<1>7. ~asleep
  BY <1>2 DEF IInv, ThreadInv
<1>8. want' \in Nat /\ accepted' \in Nat
  BY <1>1, <1>2, <1>4
<1>9. Threads' = Threads /\ Threads = {}
  BY <1>2 DEF Threads
<1>10. TypeOK' /\ PoolTypes'
  BY <1>2, <1>6, <1>8, <1>9, Zenon DEF IInv, TypeOK, PoolTypes
<1>11. ThreadInv' /\ NoLostWakeup'
  BY <1>2, <1>7, <1>9, Zenon DEF ThreadInv, NoLostWakeup
<1>12. FillInv'
  <2>1. ~(threads > 0) /\ \A t \in Threads : ~closing[t]
    BY <1>2, <1>9
  <2> QED BY <1>2, <1>3, <1>6, <1>9, <2>1, Zenon DEF FillInv, InOrder
<1>13. DrainInv'
  BY <1>2 DEF DrainInv
<1> QED BY <1>10, <1>11, <1>12, <1>13, Zenon DEF IInv

(* The k threads filled last hold the blocks up to stream offset h.        *)
HoldBlocks(k, h) ==
  \A t \in Threads \ {next_thread} :
    /\ Held(t) <=> Age(t) <= k
    /\ Age(t) <= k => inbuf[t] = Bytes(h - MAX_BLOCK_SIZE * Age(t), MAX_BLOCK_SIZE)
    /\ Age(t) > k => inbuf[t] = <<>>

(* Once the thread whose turn it is has been relieved of its block, the    *)
(* output ends where the oldest of the other blocks begins.                *)
LEMMA CollectNext ==
  ASSUME IInv, wpc \in {"idle", "write"}, threads > 0, state[next_thread] # "WAITING"
  PROVE  \E k \in 0 .. threads - 1, h \in Nat :
           /\ h + Len(Input(next_thread)) = accepted
           /\ Len(Input(next_thread)) < MAX_BLOCK_SIZE
           /\ Input(next_thread) = Bytes(h, Len(Input(next_thread)))
           /\ Collected(next_thread) \in Seq(Nat) /\ InOrder(Collected(next_thread))
           /\ Len(Collected(next_thread)) + MAX_BLOCK_SIZE * k = h
           /\ HoldBlocks(k, h)
<1> DEFINE x == next_thread
           M == MAX_BLOCK_SIZE
           i == Input(x)
           c == Collected(x)
<1>1. PICK k \in 0..threads : Filling(k)
  BY DEF IInv, FillInv
<1>2. /\ x \in Threads /\ threads \in Nat \ {0} /\ M \in Nat \ {0} /\ M \in Nat
      /\ out \in Seq(Nat) /\ Len(out) \in Nat /\ accepted \in Nat /\ k \in Nat
      /\ Age(x) = threads
  BY Types, Ages
<1>3. InOrder(out)
  BY DEF IInv, FillInv
<1>4. M * k \in Nat /\ M * threads \in Nat /\ M * (threads - 1) = M * threads - M
  <2>1. threads \in Nat /\ threads > 0
    BY <1>2
  <2> QED BY <1>2, <2>1, Times, Zenon
<1>5. HoldBlocks(k, accepted - Begun)
  BY <1>1, Zenon DEF Filling, HoldBlocks
<1>6. accepted = (Len(out) + M * k) + Begun /\ Begun < M /\ Begun \in Nat
  <2>1. Len(inbuf[x]) \in Nat
    BY <1>2, Types
  <2>2. Begun \in Nat
    BY <2>1 DEF Begun
  <2> QED BY <1>1, <2>2 DEF Filling
<1>7. CASE state[x] = "FULL"
  <2>1. k = threads /\ Begun = 0 /\ outbuf[x] = inbuf[x]
        /\ inbuf[x] = Bytes((accepted - Begun) - M * threads, M)
    <3>1. Age(x) <= k
      BY <1>1, <1>2, <1>7 DEF Filling, Held
    <3>2. k = threads
      BY <1>2, <3>1
    <3>3. Begun = 0 /\ outbuf[x] = inbuf[x]
      BY <1>2, <1>7 DEF Begun, IInv, ThreadInv
    <3>4. inbuf[x] = Bytes((accepted - Begun) - M * Age(x), M)
      BY <1>1, <1>2, <3>1, Zenon DEF Filling
    <3> QED BY <1>2, <3>2, <3>3, <3>4, Zenon
  <2>2. (accepted - Begun) - M * threads = Len(out)
    <3> DEFINE P == M * threads
    <3>1. P \in Nat /\ accepted = (Len(out) + P) + Begun
      BY <1>4, <1>6, <2>1, Zenon
    <3> HIDE DEF P
    <3>2. (accepted - Begun) - P = Len(out)
      BY <1>2, <1>6, <3>1
    <3> QED BY <3>2 DEF P
  <2>3. i = <<>> /\ c = out \o Bytes(Len(out), M)
    BY <1>7, <2>1, <2>2, Zenon DEF Input, Collected, HasOutput
  <2> HIDE DEF i, c
  <2>4. c \in Seq(Nat) /\ InOrder(c) /\ Len(c) = Len(out) + M
    BY <1>2, <1>3, <2>3, AppendInOrder, Zenon
  <2>5. Len(i) = 0 /\ i = Bytes(accepted, 0)
    BY <2>3 DEF Bytes
  <2>6. /\ threads - 1 \in 0 .. threads - 1
        /\ Len(c) + M * (threads - 1) = accepted
        /\ accepted + 0 = accepted /\ 0 < M /\ accepted - Begun = accepted
    BY <1>2, <1>4, <1>6, <2>1, <2>4
  <2>7. HoldBlocks(threads - 1, accepted)
    <3>1. ASSUME NEW t \in Threads \ {x}
          PROVE  Age(t) <= threads - 1 /\ Age(t) <= threads /\ ~(Age(t) > threads - 1)
      <4>1. Age(t) \in 1..threads /\ Age(t) # threads
        BY Ages
      <4> QED BY <1>2, <4>1
    <3> QED BY <1>5, <2>1, <2>6, <3>1, Zenon DEF HoldBlocks
  <2> QED BY <1>2, <2>4, <2>5, <2>6, <2>7 DEF i, c
<1>8. CASE state[x] = "EMPTY"
  <2>1. i = inbuf[x] /\ c = out /\ Begun = Len(i) /\ x = next_thread
    BY <1>8 DEF Input, Collected, HasOutput, Begun
  <2>2. Age(x) > k /\ k \in 0 .. threads - 1
    <3>1. ~(Age(x) <= k)
      BY <1>1, <1>2, <1>8 DEF Filling, Held
    <3> QED BY <1>2, <3>1
  <2>3. i = Bytes(accepted - Begun, Begun)
    BY <1>1, <1>2, <2>1, <2>2, Zenon DEF Filling
  <2> HIDE DEF i, c
  <2>4. /\ accepted - Begun \in Nat /\ (accepted - Begun) + Begun = accepted
        /\ Len(out) + M * k = accepted - Begun
    BY <1>2, <1>4, <1>6
  <2>5. /\ (accepted - Begun) + Len(i) = accepted /\ Len(i) < M
        /\ i = Bytes(accepted - Begun, Len(i))
        /\ c \in Seq(Nat) /\ InOrder(c) /\ Len(c) + M * k = accepted - Begun
    BY <1>2, <1>3, <1>6, <2>1, <2>3, <2>4, Zenon
  <2> QED BY <1>5, <2>2, <2>4, <2>5, Zenon DEF i, c
<1>9. state[x] \in {"EMPTY", "WAITING", "FULL"}
  BY <1>2 DEF IInv, TypeOK
<1> QED BY <1>7, <1>8, <1>9

(* A block is collected, the next one filled, and handed over if full.     *)
LEMMA WriteBlockInv ==
  ASSUME IInv, WriteBlock
  PROVE  IInv'
<1> DEFINE x == next_thread
           M == MAX_BLOCK_SIZE
           i == Input(x)
           c == Collected(x)
           z == Smaller(M - Len(i), want)
           b == i \o Bytes(accepted, z)
           full == Len(b) >= M
<1>1. /\ wpc = "write" /\ want > 0 /\ threads > 0 /\ ~asleep /\ state[x] # "WAITING"
      /\ out' = c
      /\ inbuf' = [inbuf EXCEPT ![x] = b]
      /\ state' = [state EXCEPT ![x] = IF full THEN "WAITING" ELSE "EMPTY"]
      /\ tpc' = IF full THEN [tpc EXCEPT ![x] = Wake(@)] ELSE tpc
      /\ next_thread' = IF full THEN NextThread(x) ELSE x
      /\ want' = want - z
      /\ accepted' = accepted + z
  BY DEF WriteBlock, StillCompressing
<1>2. /\ outbuf' = outbuf /\ closing' = closing /\ threads' = threads /\ wpc' = wpc
      /\ asleep' = asleep /\ shut' = shut /\ asked' = asked /\ ret' = ret
      /\ marked' = marked /\ tidyClose' = tidyClose /\ Threads' = Threads
  BY DEF WriteBlock, Threads
<1>3. PICK k \in 0 .. threads - 1, h \in Nat :
        /\ h + Len(i) = accepted /\ Len(i) < M /\ i = Bytes(h, Len(i))
        /\ c \in Seq(Nat) /\ InOrder(c) /\ Len(c) + M * k = h
        /\ HoldBlocks(k, h)
  BY <1>1, CollectNext
<1>4. /\ x \in Threads /\ threads \in Nat \ {0} /\ M \in Nat \ {0}
      /\ accepted \in Nat /\ want \in Nat /\ k \in Nat
      /\ \A t \in Threads : Age(t) \in 1..threads
      /\ Age(x) = threads
  BY <1>1, Types, Ages
<1>5. /\ state \in [Threads -> {"EMPTY", "WAITING", "FULL"}]
      /\ inbuf \in [Threads -> Seq(Nat)]
      /\ tpc \in [Threads -> {"run", "waiting", "done"}]
  BY DEF IInv, TypeOK, PoolTypes
<1>6. i \in Seq(Nat) /\ Len(i) \in Nat
  <2>1. inbuf[x] \in Seq(Nat) /\ <<>> \in Seq(Nat)
    BY <1>4, Types
  <2>2. i \in Seq(Nat)
    BY <2>1, Zenon DEF Input
  <2> HIDE DEF i
  <2> QED BY <2>2
<1> HIDE DEF i, c
<1>7. z \in Nat /\ z > 0 /\ z <= want /\ Len(i) + z <= M
  BY <1>1, <1>3, <1>4, <1>6 DEF Smaller
<1> HIDE DEF z
<1>8. b = Bytes(h, Len(i) + z) /\ b \in Seq(Nat) /\ Len(b) = Len(i) + z
  <2>1. Bytes(h, Len(i)) \o Bytes(h + Len(i), z) = Bytes(h, Len(i) + z)
    BY <1>6, <1>7, BytesAppend, Zenon
  <2>2. b = Bytes(h, Len(i) + z)
    BY <1>3, <2>1, Zenon
  <2>3. Len(i) + z \in Nat
    BY <1>6, <1>7
  <2>4. Bytes(h, Len(i) + z) \in Seq(Nat) /\ Len(Bytes(h, Len(i) + z)) = Len(i) + z
    BY <2>3, BytesFacts
  <2> QED BY <2>2, <2>4, Zenon
<1> HIDE DEF b
<1>9. Len(b) \in Nat /\ accepted' = h + Len(b) /\ Len(b) <= M
  <2> DEFINE n == Len(i)
  <2>1. n \in Nat /\ h + n = accepted /\ Len(b) = n + z /\ n + z <= M
    BY <1>3, <1>6, <1>7, <1>8, Zenon
  <2>2. accepted' = (h + n) + z
    BY <1>1, <2>1, Zenon
  <2> HIDE DEF n
  <2>3. n + z \in Nat /\ (h + n) + z = h + (n + z)
    BY <1>7, <2>1
  <2> QED BY <2>1, <2>2, <2>3, Zenon
<1>10. /\ inbuf'[x] = b /\ state'[x] = IF full THEN "WAITING" ELSE "EMPTY"
       /\ \A t \in Threads \ {x} : inbuf'[t] = inbuf[t] /\ state'[t] = state[t]
  BY <1>1, <1>4, <1>5
<1>11. full => Wake(tpc[x]) \in {"run", "done"}
  BY <1>4, <1>5 DEF Wake
<1>12. /\ (x + 1) % threads \in 0 .. threads - 1
       /\ \A t \in 0 .. threads - 1 :
            AgeAt(threads, (x + 1) % threads, t)
              = IF t = x THEN 1 ELSE AgeAt(threads, x, t) + 1
  <2>1. threads \in Nat \ {0} /\ x \in 0 .. threads - 1
    BY <1>4 DEF Threads
  <2> QED BY <2>1, AgeStep, Zenon
<1>13. next_thread' \in Threads
  BY <1>1, <1>4, <1>12 DEF NextThread, Threads
<1> HIDE DEF full
<1>14. tpc' \in [Threads -> {"run", "waiting", "done"}]
  <2>1. CASE full
    <3>1. tpc' = [tpc EXCEPT ![x] = Wake(tpc[x])]
      BY <1>1, <2>1
    <3> QED BY <1>4, <1>5, <1>11, <2>1, <3>1
  <2>2. CASE ~full
    BY <1>1, <1>5, <2>2, Zenon
  <2> QED BY <2>1, <2>2
<1>15. TypeOK'
  <2>1. state' \in [Threads -> {"EMPTY", "WAITING", "FULL"}]
    BY <1>1, <1>5
  <2>2. \A t \in Threads : Len(inbuf'[t]) \in 0..M
    <3>1. \A t \in Threads : Len(inbuf[t]) \in 0..M
      BY Types
    <3>2. Len(b) \in 0..M
      BY <1>4, <1>9
    <3> QED BY <1>10, <3>1, <3>2, Zenon
  <2>3. want' \in Nat /\ accepted' \in Nat
    BY <1>1, <1>4, <1>7
  <2>4. next_thread' \in Threads \cup {9}
    BY <1>13
  <2> QED BY <1>2, <1>14, <2>1, <2>2, <2>3, <2>4, Zenon DEF IInv, TypeOK
<1>16. PoolTypes'
  <2>1. inbuf' \in [Threads -> Seq(Nat)]
    BY <1>1, <1>5, <1>8
  <2>2. threads # 0
    BY <1>1, <1>4
  <2> QED BY <1>1, <1>2, <1>3, <1>13, <2>1, <2>2, Zenon DEF IInv, PoolTypes
<1>17. ThreadInv'
  <2>1. state'[x] # "FULL"
    BY <1>10
  <2> QED BY <1>1, <1>2, <1>10, <2>1, Zenon DEF IInv, ThreadInv
<1>18. \A t \in Threads : ~closing[t]
  BY <1>1 DEF IInv, FillInv
<1>19. NoLostWakeup'
  <2>1. ASSUME NEW t \in Threads, tpc'[t] = "waiting" PROVE state'[t] # "WAITING"
    <3>1. CASE full
      <4>1. tpc'[x] \in {"run", "done"} /\ (t # x => tpc'[t] = tpc[t])
        BY <1>1, <1>4, <1>5, <1>11, <3>1
      <4>2. t # x /\ tpc[t] = "waiting"
        BY <2>1, <4>1
      <4> QED BY <1>10, <4>2, Zenon DEF IInv, NoLostWakeup
    <3>2. CASE ~full
      <4>1. tpc[t] = "waiting"
        BY <1>1, <2>1, <3>2, Zenon
      <4>2. state'[x] = "EMPTY"
        BY <1>10, <3>2
      <4> QED BY <1>10, <4>1, <4>2, Zenon DEF IInv, NoLostWakeup
    <3> QED BY <3>1, <3>2
  <2> QED BY <1>1, <1>2, <1>18, <2>1, Zenon DEF NoLostWakeup
<1>20. \E j \in 0..threads : Filling(j)'
  <2>1. CASE ~full
    <3>1. state'[x] = "EMPTY" /\ next_thread' = x /\ Begun' = Len(b)
      BY <1>1, <1>10, <2>1 DEF Begun
    <3>2. Len(b) < M /\ accepted' - Len(b) = h /\ accepted' = (Len(c) + M * k) + Len(b)
      <4>1. Len(b) < M
        BY <1>4, <1>9, <2>1 DEF full
      <4>2. accepted' - Len(b) = h
        BY <1>9
      <4> QED BY <1>3, <1>9, <4>1, <4>2, Zenon
    <3>3. \A t \in Threads : Age(t)' = Age(t)
      BY <1>2, <3>1, Zenon DEF Age
    <3>4. ASSUME NEW t \in Threads
          PROVE  /\ Held(t)' <=> Age(t) <= k
                 /\ Age(t) <= k => inbuf'[t] = Bytes(h - M * Age(t), M)
                 /\ Age(t) > k /\ t # x => inbuf'[t] = <<>>
                 /\ Age(t) > k /\ t = x => inbuf'[t] = Bytes(h, Len(b))
      <4>1. CASE t = x
        <5>1. ~(Age(t) <= k)
          BY <1>4, <4>1
        <5>2. ~Held(t)' /\ inbuf'[t] = Bytes(h, Len(b))
          BY <1>8, <1>10, <3>1, <4>1, Zenon DEF Held
        <5> QED BY <4>1, <5>1, <5>2, Zenon
      <4>2. CASE t # x
        BY <1>3, <1>10, <4>2, Zenon DEF HoldBlocks, Held
      <4> QED BY <4>1, <4>2
    <3>5. Filling(k)'
      BY <1>1, <1>2, <3>1, <3>2, <3>3, <3>4, Zenon DEF Filling
    <3>6. k \in 0..threads
      BY <1>4
    <3> QED BY <3>5, <3>6
  <2>2. CASE full
    <3> DEFINE w == NextThread(x)
    <3>1. Len(b) = M /\ accepted' = h + M /\ accepted' \in Nat
      BY <1>4, <1>9, <2>2 DEF full
    <3>2. state'[x] = "WAITING" /\ next_thread' = w /\ w \in Threads
      BY <1>1, <1>10, <1>13, <2>2, Zenon
    <3>3. \A t \in Threads : Age(t)' = IF t = x THEN 1 ELSE Age(t) + 1
      BY <1>2, <1>12, <3>2, Zenon DEF Age, Threads, NextThread
    <3> HIDE DEF w
    <3>4. ASSUME NEW t \in Threads, t # x, ~(Age(t) <= k) PROVE inbuf'[t] = <<>>
      <4>1. Age(t) > k
        BY <1>4, <3>4
      <4> QED BY <1>3, <1>10, <3>4, <4>1, Zenon DEF HoldBlocks
    <3>5. Begun' = 0
      <4>1. CASE state'[w] = "EMPTY"
        <5>1. w # x /\ state[w] = "EMPTY"
          BY <1>10, <3>2, <4>1
        <5>2. ~(Age(w) <= k)
          BY <1>3, <3>2, <5>1, Zenon DEF HoldBlocks, Held
        <5>3. inbuf'[w] = <<>> /\ Len(<<>>) = 0
          BY <3>2, <3>4, <5>1, <5>2
        <5> QED BY <3>2, <4>1, <5>3, Zenon DEF Begun
      <4>2. CASE state'[w] # "EMPTY"
        BY <3>2, <4>2, Zenon DEF Begun
      <4> QED BY <4>1, <4>2
    <3>6. /\ accepted' = (Len(c) + M * (k + 1)) + 0 /\ 0 < M
          /\ accepted' - 0 = accepted'
          /\ accepted' - M * 1 = h
      <4>1. M * (k + 1) = M * k + M /\ M * k \in Nat /\ M * 1 = M
        BY <1>4, Times
      <4>2. Len(c) \in Nat
        BY <1>3
      <4> DEFINE P == M * k
                 Q == M * (k + 1)
                 R == M * 1
      <4>3. Q = P + M /\ P \in Nat /\ R = M /\ Len(c) + P = h
        BY <1>3, <4>1, Zenon
      <4> HIDE DEF P, Q, R
      <4>4. accepted' = (Len(c) + Q) + 0 /\ 0 < M /\ accepted' - 0 = accepted'
            /\ accepted' - R = h
        BY <1>4, <3>1, <4>2, <4>3
      <4> QED BY <4>4 DEF Q, R
    <3>7. ASSUME NEW t \in Threads
          PROVE  /\ Held(t)' <=> Age(t)' <= k + 1
                 /\ Age(t)' <= k + 1 => inbuf'[t] = Bytes(accepted' - M * Age(t)', M)
                 /\ ~(Age(t)' <= k + 1) => inbuf'[t] = <<>>
      <4>1. CASE t = x
        <5>1. Age(t)' = 1 /\ 1 <= k + 1
          BY <1>4, <3>3, <4>1
        <5>2. Held(t)' /\ inbuf'[t] = Bytes(h, M)
          <6>1. "WAITING" # "EMPTY"
            OBVIOUS
          <6>2. Bytes(h, Len(b)) = b
            BY <1>8, Zenon
          <6> QED BY <1>10, <3>1, <3>2, <4>1, <6>1, <6>2, Zenon DEF Held
        <5> QED BY <3>6, <5>1, <5>2, Zenon
      <4>2. CASE t # x
        <5>1. Age(t)' = Age(t) + 1 /\ Age(t) \in Nat
          BY <1>4, <3>3, <4>2
        <5>2. Age(t)' <= k + 1 <=> Age(t) <= k
          BY <1>4, <5>1
        <5>3. Held(t)' <=> Age(t) <= k
          BY <1>3, <1>10, <4>2, Zenon DEF HoldBlocks, Held
        <5>4. Age(t) <= k => inbuf'[t] = Bytes(h - M * Age(t), M)
          BY <1>3, <1>10, <4>2, Zenon DEF HoldBlocks
        <5>5. accepted' - M * Age(t)' = h - M * Age(t)
          <6>1. M * (Age(t) + 1) = M * Age(t) + M /\ M * Age(t) \in Nat
            BY <1>4, <5>1, Times
          <6> DEFINE P == M * Age(t)
                     Q == M * (Age(t) + 1)
          <6>2. Q = P + M /\ P \in Nat
            BY <6>1
          <6> HIDE DEF P, Q
          <6>3. accepted' - Q = h - P
            BY <1>4, <3>1, <6>2
          <6> QED BY <5>1, <6>3, Zenon DEF P, Q
        <5> QED BY <3>4, <4>2, <5>2, <5>3, <5>4, <5>5, Zenon
      <4> QED BY <4>1, <4>2
    <3>8. \A t \in Threads : Age(t)' \in Nat /\ Age(t)' > k + 1 => ~(Age(t)' <= k + 1)
      BY <1>4
    <3>9. \A t \in Threads : Age(t)' \in Nat
      BY <1>4, <3>3
    <3>10. <<>> = Bytes(accepted', 0)
      BY DEF Bytes
    <3>11. Filling(k + 1)'
      BY <1>1, <1>2, <3>5, <3>6, <3>7, <3>8, <3>9, <3>10, Zenon DEF Filling
    <3>12. k + 1 \in 0..threads
      BY <1>4
    <3> QED BY <3>11, <3>12
  <2> QED BY <2>1, <2>2
<1>21. FillInv'
  <2>1. shut = 0 /\ ~marked
    BY <1>1 DEF IInv, FillInv
  <2>2. threads # 0
    BY <1>1, <1>4
  <2> QED BY <1>1, <1>2, <1>3, <1>18, <1>20, <2>1, <2>2, Zenon DEF FillInv, InOrder
<1>22. DrainInv'
  BY <1>1, <1>2 DEF DrainInv
<1> QED BY <1>15, <1>16, <1>17, <1>19, <1>21, <1>22, Zenon DEF IInv
-----------------------------------------------------------------------------
(* lzo_wclose *)

(* Stretches of the stream, one behind the other, are one.                 *)
LEMMA Stretches ==
  ASSUME NEW a \in Nat, NEW b \in Nat, NEW c \in Nat, a <= b, b <= c
  PROVE  /\ (1..a) \cup (a + 1 .. b) \cup (b + 1 .. c) = 1..c
         /\ (1..a) \cup (b + 1 .. c) \cup (a + 1 .. b) = 1..c
OBVIOUS

(* A sequence without elements.                                            *)
LEMMA EmptySeq ==
  ASSUME NEW s \in Seq(Nat)
  PROVE  Len(s) \in Nat /\ (s = <<>> <=> Len(s) = 0)
OBVIOUS

(* A close that finds the thread whose turn it is EMPTY: what was begun    *)
(* becomes the latest block.                                               *)
LEMMA CloseTidy ==
  ASSUME IInv, wpc = "idle", threads > 0, state[next_thread] = "EMPTY",
         tidyClose' = TRUE, out' = out, accepted' = accepted, inbuf' = inbuf,
         threads' = threads, next_thread' = NextThread(next_thread),
         \A t \in Threads \ {next_thread} : state'[t] = state[t],
         state'[next_thread] = IF inbuf[next_thread] # <<>> THEN "WAITING" ELSE "EMPTY"
  PROVE  \E k \in 0 .. threads - 1, e \in 0..accepted, y \in 0..accepted,
            l \in 0..MAX_BLOCK_SIZE : Draining(k, e, y, l)'
<1> DEFINE x == next_thread
           M == MAX_BLOCK_SIZE
<1>1. Input(x) = inbuf[x] /\ Collected(x) = out
  BY DEF Input, Collected, HasOutput
<1>2. PICK k \in 0 .. threads - 1, h \in Nat :
        /\ h + Len(inbuf[x]) = accepted /\ Len(inbuf[x]) < M
        /\ inbuf[x] = Bytes(h, Len(inbuf[x]))
        /\ InOrder(out) /\ Len(out) + M * k = h
        /\ HoldBlocks(k, h)
  BY <1>1, CollectNext
<1>3. PICK l, q, a : l = Len(inbuf[x]) /\ q = Len(out) /\ a = accepted
  OBVIOUS
<1>4. /\ x \in Threads /\ threads \in Nat \ {0} /\ M \in Nat /\ k \in Nat
      /\ a \in Nat /\ out \in Seq(Nat) /\ q \in Nat /\ l \in Nat
      /\ inbuf[x] \in Seq(Nat)
      /\ \A t \in Threads : Age(t) \in 1..threads
  BY <1>3, Types, Ages
<1>5. \A t \in Threads : Age(t)' = IF t = x THEN 1 ELSE Age(t) + 1
  <2>1. threads \in Nat \ {0} /\ x \in 0 .. threads - 1
    BY <1>4 DEF Threads
  <2> QED BY <2>1, AgeStep, Zenon DEF Age, Threads, NextThread
<1>6. Threads' = Threads
  BY Zenon DEF Threads
<1>7. ASSUME NEW t \in Threads
      PROVE  /\ Age(t)' = 1 => (Held(t)' <=> l > 0) /\ inbuf'[t] = Bytes(h, l)
             /\ Age(t)' > 1 => (Held(t)' <=> Age(t)' - 1 <= k)
             /\ Age(t)' > 1 /\ Age(t)' - 1 <= k =>
                  inbuf'[t] = Bytes(h - M * (Age(t)' - 1), M)
             /\ Age(t)' > 1 /\ Age(t)' - 1 > k => inbuf'[t] = <<>>
  <2>1. CASE t = x
    <3>1. Age(t)' = 1 /\ ~(1 > 1)
      BY <1>5, <2>1
    <3>2. inbuf[x] # <<>> <=> l > 0
      BY <1>3, <1>4, EmptySeq
    <3>3. Held(t)' <=> l > 0
      BY <2>1, <3>2 DEF Held
    <3> QED BY <1>2, <1>3, <2>1, <3>1, <3>3, Zenon
  <2>2. CASE t # x
    <3>1. Age(t)' = Age(t) + 1 /\ Age(t) \in Nat /\ Age(t) > 0
      BY <1>4, <1>5, <2>2
    <3>2. Age(t)' # 1 /\ Age(t)' - 1 = Age(t)
      BY <3>1
    <3> QED BY <1>2, <2>2, <3>2, Zenon DEF HoldBlocks, Held
  <2> QED BY <2>1, <2>2
<1>8. /\ (q + M * k) + l = a /\ M * k <= h /\ h \in 0..a
      /\ l \in 0..M /\ h - M * k = q /\ q + M * k = h /\ h + l = a
      /\ q <= h /\ h <= a
  <2> DEFINE P == M * k
  <2>1. P \in Nat /\ q + P = h /\ h + l = a /\ l < M
    BY <1>2, <1>3, <1>4, Times
  <2> HIDE DEF P
  <2>2. /\ (q + P) + l = a /\ P <= h /\ h \in 0..a
        /\ l \in 0..M /\ h - P = q /\ q + P = h /\ h + l = a /\ q <= h /\ h <= a
    BY <1>4, <2>1
  <2> QED BY <2>2 DEF P
<1>9. Elements(out) \cup ((h - M * k) + 1 .. h) \cup (h + 1 .. h + l) = 1..a
  <2>1. Elements(out) = 1..q
    <3>1. out \in Seq(Nat) /\ InOrder(out)
      BY <1>2, <1>4
    <3> QED BY <1>3, <3>1, ElementsInOrder, Zenon
  <2>2. (1..q) \cup (q + 1 .. h) \cup (h + 1 .. a) = 1..a
    <3>1. q \in Nat /\ a \in Nat /\ h \in Nat /\ q <= h /\ h <= a
      BY <1>4, <1>8
    <3> QED BY <3>1, Stretches
  <2> QED BY <1>8, <2>1, <2>2, Zenon
<1>10. /\ InOrder(out)' /\ Elements(out)' = Elements(out) /\ Len(out') = q
       /\ accepted' = a
  BY <1>2, <1>3, Zenon DEF InOrder, Elements
<1>11. Draining(k, h, h, l)'
  BY <1>6, <1>7, <1>8, <1>9, <1>10, Zenon DEF Draining
<1>12. h \in 0..accepted /\ l \in 0..MAX_BLOCK_SIZE
  BY <1>3, <1>8
<1> QED BY <1>11, <1>12, Zenon

(* A close that finds it with a block: this becomes the latest.            *)
LEMMA CloseUntidy ==
  ASSUME IInv, wpc = "idle", threads > 0, state[next_thread] # "EMPTY",
         tidyClose' = FALSE, out' = out, accepted' = accepted, inbuf' = inbuf,
         threads' = threads, next_thread' = NextThread(next_thread), state' = state
  PROVE  \E k \in 0 .. threads - 1, e \in 0..accepted, y \in 0..accepted,
            l \in 0..MAX_BLOCK_SIZE : Draining(k, e, y, l)'
<1> DEFINE x == next_thread
           M == MAX_BLOCK_SIZE
<1>1. PICK k \in 0..threads : Filling(k)
  BY DEF IInv, FillInv
<1>2. PICK q, a, n : q = Len(out) /\ a = accepted /\ n = threads - 1
  OBVIOUS
<1>3. /\ x \in Threads /\ threads \in Nat \ {0} /\ M \in Nat /\ k \in Nat
      /\ a \in Nat /\ out \in Seq(Nat) /\ q \in Nat
      /\ Age(x) = threads /\ n \in Nat /\ n \in 0 .. threads - 1 /\ threads = n + 1
      /\ \A t \in Threads : Age(t) \in 1..threads /\ (Age(t) = threads <=> t = x)
  BY <1>2, Types, Ages
<1>4. k = threads /\ Begun = 0
  <2>1. Age(x) <= k
    BY <1>1, <1>3 DEF Filling, Held
  <2> QED BY <1>3, <2>1 DEF Begun
<1>5. /\ (q + M * n) + M = a /\ M * n <= a
      /\ a - M * n = q + M /\ q \in 0..a
      /\ a \in 0..a /\ M \in 0..M
      /\ a - M * threads = q
      /\ q + M <= a /\ q <= q + M
  <2>1. M * threads = M * n + M /\ M * n \in Nat
    BY <1>3, Times
  <2> DEFINE P == M * threads
             Q == M * n
  <2>2. P = Q + M /\ Q \in Nat
    BY <2>1, Zenon
  <2>3. a = (q + P) + 0
    BY <1>1, <1>2, <1>4, Zenon DEF Filling
  <2> HIDE DEF P, Q
  <2>4. /\ (q + Q) + M = a /\ Q <= a
        /\ a - Q = q + M /\ q \in 0..a
        /\ a \in 0..a /\ M \in 0..M
        /\ a - P = q
        /\ q + M <= a /\ q <= q + M
    BY <1>3, <2>2, <2>3
  <2> QED BY <2>4 DEF P, Q
<1>6. \A t \in Threads : Age(t)' = IF t = x THEN 1 ELSE Age(t) + 1
  <2>1. threads \in Nat \ {0} /\ x \in 0 .. threads - 1
    BY <1>3 DEF Threads
  <2> QED BY <2>1, AgeStep, Zenon DEF Age, Threads, NextThread
<1>7. \A t \in Threads : Held(t) /\ inbuf[t] = Bytes(a - M * Age(t), M)
  <2>1. accepted - 0 = a
    BY <1>2, <1>3
  <2>2. \A t \in Threads : Age(t) <= threads
    BY <1>3
  <2> QED BY <1>1, <1>4, <2>1, <2>2, Zenon DEF Filling
<1>8. ASSUME NEW t \in Threads
      PROVE  /\ Age(t)' = 1 => (Held(t)' <=> M > 0) /\ inbuf'[t] = Bytes(q, M)
             /\ Age(t)' > 1 => (Held(t)' <=> Age(t)' - 1 <= n)
             /\ Age(t)' > 1 /\ Age(t)' - 1 <= n =>
                  inbuf'[t] = Bytes(a - M * (Age(t)' - 1), M)
             /\ Age(t)' > 1 /\ Age(t)' - 1 > n => inbuf'[t] = <<>>
  <2>1. Held(t)' /\ inbuf'[t] = Bytes(a - M * Age(t), M)
    BY <1>7, Zenon DEF Held
  <2>2. CASE t = x
    <3>1. Age(t)' = 1 /\ ~(1 > 1)
      BY <1>6, <2>2
    <3>2. M > 0
      BY Types
    <3>3. inbuf'[t] = Bytes(q, M)
      BY <1>3, <1>5, <2>1, <2>2, Zenon
    <3> QED BY <2>1, <3>1, <3>2, <3>3, Zenon
  <2>3. CASE t # x
    <3>1. Age(t)' = Age(t) + 1 /\ Age(t) \in Nat /\ Age(t) > 0 /\ Age(t) < threads
      BY <1>3, <1>6, <2>3
    <3>2. n \in Nat /\ threads = n + 1
      BY <1>3
    <3>3. Age(t)' # 1 /\ Age(t)' - 1 = Age(t) /\ Age(t) <= n /\ ~(Age(t) > n)
      BY <3>1, <3>2
    <3> QED BY <2>1, <3>3, Zenon
  <2> QED BY <2>2, <2>3
<1>9. Elements(out) \cup ((a - M * n) + 1 .. a) \cup (q + 1 .. q + M) = 1..a
  <2>1. Elements(out) = 1..q
    <3>1. out \in Seq(Nat) /\ InOrder(out)
      BY <1>3 DEF IInv, FillInv
    <3> QED BY <1>2, <3>1, ElementsInOrder, Zenon
  <2>2. (1..q) \cup ((q + M) + 1 .. a) \cup (q + 1 .. q + M) = 1..a
    BY <1>3, <1>5
  <2> QED BY <1>5, <2>1, <2>2, Zenon
<1>10. /\ Threads' = Threads /\ ~tidyClose' /\ Elements(out)' = Elements(out)
       /\ Len(out') = q /\ accepted' = a
  BY <1>2, Zenon DEF Threads, Elements
<1>11. Draining(n, a, q, M)'
  BY <1>5, <1>8, <1>9, <1>10, Zenon DEF Draining
<1>12. /\ n \in 0 .. threads - 1 /\ a \in 0..accepted
       /\ q \in 0..accepted /\ M \in 0..MAX_BLOCK_SIZE
  BY <1>2, <1>3, <1>5
<1> QED BY <1>11, <1>12, Zenon

(* A close without a pool has nothing to collect.                          *)
LEMMA CloseUnthreaded ==
  ASSUME IInv, lzo_wclose, threads = 0
  PROVE  IInv'
<1>1. /\ wpc = "idle" /\ wpc' = "finish" /\ tidyClose' = TRUE
      /\ state' = state /\ tpc' = tpc /\ next_thread' = next_thread
      /\ inbuf' = inbuf /\ outbuf' = outbuf /\ closing' = closing
      /\ threads' = threads /\ asleep' = asleep /\ want' = want /\ shut' = shut
      /\ asked' = asked /\ ret' = ret /\ out' = out /\ marked' = marked
      /\ accepted' = accepted
  BY Zenon DEF lzo_wclose, child
<1>2. /\ Threads' = Threads /\ Threads = {} /\ ~(0 < 0)
      /\ "finish" \in {"idle", "write", "shutdown", "join", "finish", "closed"}
      /\ "finish" \notin {"idle", "write"} /\ "finish" \notin {"shutdown", "join"}
      /\ "finish" # "closed" /\ "finish" # "join"
  BY <1>1 DEF Threads
<1>3. InOrder(out) /\ Len(out) = accepted /\ shut = 0 /\ ~asleep
  BY <1>1 DEF IInv, FillInv, ThreadInv
<1>4. Elements(out) = 1..accepted
  BY <1>3, Types, ElementsInOrder
<1>5. TypeOK' /\ PoolTypes'
  BY <1>1, <1>2, Zenon DEF IInv, TypeOK, PoolTypes
<1>6. ThreadInv' /\ NoLostWakeup'
  BY <1>1, <1>2, <1>3, Zenon DEF ThreadInv, NoLostWakeup
<1>7. AllOut'
  BY <1>1, <1>2, <1>3, <1>4, Zenon DEF AllOut, Elements, InOrder
<1>8. Stopped' = 0
  BY <1>1, <1>2, <1>3, Zenon DEF Stopped
<1>9. FillInv' /\ DrainInv'
  BY <1>1, <1>2, <1>3, <1>7, <1>8, Zenon DEF FillInv, DrainInv
<1> QED BY <1>5, <1>6, <1>9, Zenon DEF IInv

(* A close hands over what was begun and steps to the next thread.         *)
LEMMA CloseThreaded ==
  ASSUME IInv, lzo_wclose, threads > 0
  PROVE  IInv'
<1> DEFINE x == next_thread
<1>1. /\ wpc = "idle" /\ wpc' = "shutdown"
      /\ next_thread' = NextThread(x)
      /\ inbuf' = inbuf /\ outbuf' = outbuf /\ closing' = closing
      /\ threads' = threads /\ asleep' = asleep /\ want' = want /\ shut' = shut
      /\ asked' = asked /\ ret' = ret /\ out' = out /\ marked' = marked
      /\ accepted' = accepted /\ threads # 0
      /\ IF PartialBlock(x) THEN /\ state' = [state EXCEPT ![x] = "WAITING"]
                                 /\ tpc' = [tpc EXCEPT ![x] = Wake(@)]
                            ELSE state' = state /\ tpc' = tpc
  BY Types DEF lzo_wclose, child
<1>2. tidyClose' \in BOOLEAN /\ (tidyClose' <=> state[x] = "EMPTY")
  BY <1>1, Zenon DEF lzo_wclose
<1>3. /\ x \in Threads /\ threads \in Nat \ {0}
      /\ state \in [Threads -> {"EMPTY", "WAITING", "FULL"}]
      /\ tpc \in [Threads -> {"run", "waiting", "done"}]
  BY Types DEF IInv, TypeOK
<1>4. Threads' = Threads /\ next_thread' \in Threads
  <2>1. threads \in Nat \ {0} /\ x \in 0 .. threads - 1
    BY <1>3 DEF Threads
  <2>2. (x + 1) % threads \in 0 .. threads - 1
    BY <2>1, AgeStep, Zenon
  <2> QED BY <1>1, <2>2, Zenon DEF Threads, NextThread
<1>5. /\ shut = 0 /\ ~marked /\ ~asleep
      /\ \A t \in Threads : ~closing[t]
  BY <1>1 DEF IInv, FillInv, ThreadInv
<1>6. /\ state' \in [Threads -> {"EMPTY", "WAITING", "FULL"}]
      /\ tpc' \in [Threads -> {"run", "waiting", "done"}]
  <2>1. Wake(tpc[x]) \in {"run", "waiting", "done"}
    BY <1>3 DEF Wake
  <2> QED BY <1>1, <1>3, <2>1
<1>7. TypeOK'
  <2>1. next_thread' \in Threads \cup {9}
    BY <1>4
  <2>2. wpc' \in {"idle", "write", "shutdown", "join", "finish", "closed"}
    BY <1>1
  <2> QED BY <1>1, <1>2, <1>4, <1>6, <2>1, <2>2, Zenon DEF IInv, TypeOK
<1>8. PoolTypes'
  BY <1>1, <1>4, Zenon DEF IInv, PoolTypes
<1>9. \A t \in Threads : state'[t] = "FULL" => state[t] = "FULL"
  BY <1>1, <1>3
<1>10. ThreadInv'
  BY <1>1, <1>4, <1>5, <1>9, Zenon DEF IInv, ThreadInv
<1>11. NoLostWakeup'
  <2>1. ASSUME NEW t \in Threads, tpc'[t] = "waiting"
        PROVE  state'[t] # "WAITING"
    <3>1. tpc[t] = "waiting" /\ state'[t] = state[t]
      <4>1. CASE PartialBlock(x)
        BY <1>1, <1>3, <2>1, <4>1 DEF Wake
      <4>2. CASE ~PartialBlock(x)
        BY <1>1, <1>3, <2>1, <4>2
      <4> QED BY <4>1, <4>2
    <3> QED BY <3>1, Zenon DEF IInv, NoLostWakeup
  <2> QED BY <1>1, <1>4, <1>5, <2>1, Zenon DEF NoLostWakeup
<1>12. \E k \in 0 .. threads - 1, e \in 0..accepted, y \in 0..accepted,
          l \in 0..MAX_BLOCK_SIZE : Draining(k, e, y, l)'
  <2>1. CASE state[x] = "EMPTY"
    <3>1. tidyClose' = TRUE
      BY <1>2, <2>1, Zenon
    <3>2. \A t \in Threads \ {x} : state'[t] = state[t]
      BY <1>1, <1>3
    <3>3. state'[x] = IF inbuf[x] # <<>> THEN "WAITING" ELSE "EMPTY"
      BY <1>1, <1>3, <2>1 DEF PartialBlock
    <3> QED BY <1>1, <2>1, <3>1, <3>2, <3>3, CloseTidy
  <2>2. CASE state[x] # "EMPTY"
    <3>1. tidyClose' = FALSE
      BY <1>2, <2>2, Zenon
    <3>2. state' = state
      BY <1>1, <2>2 DEF PartialBlock
    <3> QED BY <1>1, <2>2, <3>1, <3>2, CloseUntidy
  <2> QED BY <2>1, <2>2
<1>13. FillInv'
  BY <1>1 DEF FillInv
<1>14. DrainInv'
  <2>1. /\ Stopped' = 0 /\ threads' \in Nat \ {0}
        /\ wpc' = "shutdown" /\ wpc' \notin {"finish", "closed"} /\ wpc' # "closed"
    BY <1>1, <1>3, <1>5 DEF Stopped
  <2>2. 0 < threads /\ 0 # threads /\ (threads - 1) - 0 = threads - 1 /\ threads - 0 = threads
    BY <1>3
  <2>3. \A t \in Threads : ~(Age(t)' > threads)
    <3>1. ASSUME NEW t \in Threads PROVE AgeAt(threads, next_thread', t) \in 1..threads
      BY <1>3, <1>4, <3>1, AgeFacts, Zenon DEF Threads
    <3>2. \A t \in Threads : Age(t)' \in 1..threads
      BY <1>1, <3>1, Zenon DEF Age
    <3> QED BY <1>3, <3>2
  <2> QED BY <1>1, <1>4, <1>5, <1>12, <2>1, <2>2, <2>3, Zenon DEF DrainInv
<1> QED BY <1>7, <1>8, <1>10, <1>11, <1>13, <1>14, Zenon DEF IInv
-----------------------------------------------------------------------------
(* shutdown_thread *)

(* Bytes of length 0.                                                      *)
LEMMA NoBytes == \A c : Bytes(c, 0) = <<>>
BY DEF Bytes

(* What the collection does to the thread being shut down: it is the       *)
(* oldest that has not been stopped, and nothing remains in it.            *)
LEMMA CollectFacts ==
  ASSUME IInv, ShutdownCollect
  PROVE  /\ Current \in Threads /\ Age(Current) = threads - shut
         /\ \A t \in Threads \ {Current} : Age(t) # threads - shut
         /\ state'[Current] = "EMPTY" /\ inbuf'[Current] = Input(Current)
         /\ \A t \in Threads \ {Current} : state'[t] = state[t] /\ inbuf'[t] = inbuf[t]
         /\ Threads' = Threads /\ \A t : Age(t)' = Age(t)
         /\ shut < threads /\ threads \in Nat \ {0} /\ shut \in Nat
         /\ Stopped = shut
<1>1. wpc = "shutdown" /\ threads' = threads /\ next_thread' = next_thread
  BY DEF ShutdownCollect, lzow
<1>2. shut < threads /\ Stopped = shut
  BY <1>1 DEF IInv, DrainInv, Stopped
<1>3. threads \in Nat /\ shut \in Nat
  BY Types
<1>4. threads \in Nat \ {0} /\ shut \in 0 .. threads - 1 /\ threads > 0
  BY <1>2, <1>3
<1>5. next_thread \in 0 .. threads - 1
  BY <1>4, Types DEF Threads
<1>6. Current = (next_thread + shut) % threads
  BY <1>1 DEF Current
<1>7. /\ (next_thread + shut) % threads \in 0 .. threads - 1
      /\ \A t \in 0 .. threads - 1 :
           AgeAt(threads, next_thread, t) = threads - shut <=>
             t = (next_thread + shut) % threads
  BY <1>4, <1>5, AgeCurrent, Zenon
<1>8. /\ Current \in Threads
      /\ \A t \in Threads : Age(t) = threads - shut <=> t = Current
  BY <1>6, <1>7, Zenon DEF Threads, Age
<1>9. /\ state \in [Threads -> {"EMPTY", "WAITING", "FULL"}]
      /\ inbuf \in [Threads -> Seq(Nat)]
      /\ state' = [state EXCEPT ![Current] = "EMPTY"]
      /\ inbuf' = [inbuf EXCEPT ![Current] = Input(Current)]
  BY DEF IInv, TypeOK, PoolTypes, ShutdownCollect
<1>10. /\ state'[Current] = "EMPTY" /\ inbuf'[Current] = Input(Current)
       /\ \A t \in Threads \ {Current} : state'[t] = state[t] /\ inbuf'[t] = inbuf[t]
  BY <1>8, <1>9
<1>11. Threads' = Threads /\ \A t : Age(t)' = Age(t)
  BY <1>1, Zenon DEF Threads, Age
<1>12. \A t \in Threads \ {Current} : Age(t) # threads - shut
  BY <1>8
<1> QED BY <1>2, <1>3, <1>4, <1>8, <1>10, <1>11, <1>12, Zenon

(* The latest block is collected last.                                     *)
LEMMA CollectLatest ==
  ASSUME IInv, ShutdownCollect, shut + 1 = threads
  PROVE  AllOut'
<1> DEFINE c == Current
           M == MAX_BLOCK_SIZE
<1>1. /\ c \in Threads /\ Age(c) = threads - shut
      /\ \A t \in Threads \ {c} : Age(t) # threads - shut
      /\ state'[c] = "EMPTY" /\ inbuf'[c] = Input(c)
      /\ \A t \in Threads \ {c} : state'[t] = state[t] /\ inbuf'[t] = inbuf[t]
      /\ Threads' = Threads
      /\ shut < threads /\ threads \in Nat \ {0} /\ shut \in Nat
      /\ Stopped = shut
  BY CollectFacts
<1>2. /\ wpc = "shutdown" /\ state[c] # "WAITING" /\ out' = Collected(c)
      /\ accepted' = accepted /\ tidyClose' = tidyClose
  BY DEF ShutdownCollect, StillCompressing, history
<1>3. PICK k \in 0 .. (threads - 1) - shut, e \in 0..accepted, y \in 0..accepted,
         l \in 0..M : Draining(k, e, y, l)
  <2>1. wpc \notin {"idle", "write"}
    BY <1>2
  <2> QED BY <1>1, <2>1, Zenon DEF IInv, DrainInv
<1>4. /\ k = 0 /\ Age(c) = 1 /\ M \in Nat /\ out \in Seq(Nat) /\ accepted \in Nat
      /\ y \in Nat /\ l \in Nat /\ e \in Nat /\ Len(out) \in Nat /\ threads > 0
  <2>1. M \in Nat /\ out \in Seq(Nat) /\ accepted \in Nat /\ Len(out) \in Nat
    BY Types
  <2>2. k = 0 /\ threads - shut = 1
    BY <1>1
  <2> QED BY <1>1, <2>1, <2>2
<1>5. M * k = 0
  BY <1>4
<1>6. /\ (Len(out) + 0) + l = accepted
      /\ Elements(out) \cup ((e - 0) + 1 .. e) \cup (y + 1 .. y + l) = 1..accepted
      /\ tidyClose => y = e /\ Len(out) + 0 = e /\ InOrder(out)
      /\ Held(c) <=> l > 0
      /\ inbuf[c] = Bytes(y, l)
  BY <1>1, <1>3, <1>4, <1>5, Zenon DEF Draining
<1>7. \A t \in Threads \ {c} : ~Held(t) /\ inbuf[t] = <<>>
  <2>1. ASSUME NEW t \in Threads \ {c}
        PROVE  Age(t) > 1 /\ ~(Age(t) - 1 <= 0) /\ Age(t) - 1 > 0
    <3>1. Age(t) \in 1..threads
      BY <1>4, Ages
    <3>2. Age(t) # 1
      BY <1>1, <1>4, <2>1, Zenon
    <3> QED BY <1>1, <3>1, <3>2
  <2> QED BY <1>3, <1>4, <2>1, Zenon DEF Draining
<1>8. /\ Bytes(y, l) \in Seq(Nat) /\ Len(Bytes(y, l)) = l
  BY <1>4, BytesFacts, Zenon
<1>9. out' = out \o Bytes(y, l) /\ inbuf'[c] = <<>>
  <2>1. CASE l > 0
    <3>1. state[c] = "FULL"
      <4>1. state[c] \in {"EMPTY", "WAITING", "FULL"}
        BY <1>1 DEF IInv, TypeOK
      <4> QED BY <1>2, <1>6, <2>1, <4>1 DEF Held
    <3>2. outbuf[c] = Bytes(y, l)
      BY <1>1, <1>6, <3>1, Zenon DEF IInv, ThreadInv
    <3> QED BY <1>1, <1>2, <3>1, <3>2, Zenon DEF Collected, Input, HasOutput
  <2>2. CASE ~(l > 0)
    <3>1. l = 0 /\ state[c] = "EMPTY"
      BY <1>4, <1>6, <2>2 DEF Held
    <3>2. Bytes(y, l) = <<>>
      BY <3>1, NoBytes, Zenon
    <3>3. out' = out /\ inbuf'[c] = inbuf[c]
      BY <1>1, <1>2, <3>1 DEF Collected, Input, HasOutput
    <3>4. out \o <<>> = out
      BY <1>4
    <3> QED BY <1>6, <3>2, <3>3, <3>4, Zenon
  <2> QED BY <2>1, <2>2
<1>10. Len(out') = accepted
  <2> DEFINE b == Bytes(y, l)
  <2>1. b \in Seq(Nat) /\ Len(b) = l /\ out' = out \o b
    BY <1>8, <1>9, Zenon
  <2> HIDE DEF b
  <2>2. Len(out \o b) = Len(out) + Len(b)
    BY <1>4, <2>1, ConcatFacts, Zenon
  <2>3. Len(out') = Len(out) + l
    BY <2>1, <2>2, Zenon
  <2> QED BY <1>4, <1>6, <2>3
<1>11. Elements(out') = 1..accepted
  <2>1. Elements(out') = Elements(out) \cup (y + 1 .. y + l)
    BY <1>4, <1>9, ElementsAppend, Zenon
  <2>2. (e - 0) + 1 .. e = {}
    BY <1>4
  <2>3. Elements(out) \cup {} \cup (y + 1 .. y + l) = 1..accepted
    BY <1>6, <2>2, Zenon
  <2>4. Elements(out) \cup {} = Elements(out)
    BY Zenon
  <2> QED BY <2>1, <2>3, <2>4, Zenon
<1>12. ASSUME tidyClose PROVE InOrder(out')
  <2>1. InOrder(out) /\ y = e /\ Len(out) + 0 = e
    BY <1>6, <1>12, Zenon
  <2>2. y = Len(out)
    BY <1>4, <2>1
  <2>3. InOrder(out \o Bytes(Len(out), l))
    BY <1>4, <2>1, AppendInOrder, Zenon
  <2> QED BY <1>9, <2>2, <2>3, Zenon
<1>13. \A t \in Threads : ~Held(t)' /\ inbuf'[t] = <<>>
  BY <1>1, <1>7, <1>9, Zenon DEF Held
<1> QED BY <1>1, <1>2, <1>10, <1>11, <1>12, <1>13, Zenon DEF AllOut, Elements, InOrder

(* A block before the latest is collected.                                 *)
LEMMA CollectBlock ==
  ASSUME IInv, ShutdownCollect, shut + 1 < threads
  PROVE  \E k \in 0 .. (threads - 1) - (shut + 1), e \in 0..accepted,
            y \in 0..accepted, l \in 0..MAX_BLOCK_SIZE : Draining(k, e, y, l)'
<1> DEFINE c == Current
           M == MAX_BLOCK_SIZE
<1>1. /\ c \in Threads /\ Age(c) = threads - shut
      /\ \A t \in Threads \ {c} : Age(t) # threads - shut
      /\ state'[c] = "EMPTY" /\ inbuf'[c] = Input(c)
      /\ \A t \in Threads \ {c} : state'[t] = state[t] /\ inbuf'[t] = inbuf[t]
      /\ Threads' = Threads /\ \A t : Age(t)' = Age(t)
      /\ shut < threads /\ threads \in Nat \ {0} /\ shut \in Nat
      /\ Stopped = shut
  BY CollectFacts
<1>2. /\ wpc = "shutdown" /\ state[c] # "WAITING" /\ out' = Collected(c)
      /\ accepted' = accepted /\ tidyClose' = tidyClose
  BY DEF ShutdownCollect, StillCompressing, history
<1>3. PICK k \in 0 .. (threads - 1) - shut, e \in 0..accepted, y \in 0..accepted,
         l \in 0..M : Draining(k, e, y, l)
  <2>1. wpc \notin {"idle", "write"}
    BY <1>2
  <2> QED BY <1>1, <2>1, Zenon DEF IInv, DrainInv
<1>4. /\ M \in Nat /\ out \in Seq(Nat) /\ accepted \in Nat
      /\ Len(out) \in Nat /\ threads > 0
  BY <1>1, Types
<1>5. k \in Nat /\ y \in Nat /\ l \in Nat /\ e \in Nat /\ M * k \in Nat
  <2>1. k \in Nat /\ y \in Nat /\ l \in Nat /\ e \in Nat
    BY <1>4
  <2> QED BY <1>4, <2>1, Times
<1>6. /\ Age(c) \in Nat /\ Age(c) > 1 /\ Age(c) - 1 = (threads - 1) - shut
      /\ Age(c) - 1 \in Nat
  BY <1>1
<1>7. \A t \in Threads : Age(t) \in Nat
  BY <1>4, Ages
<1>8. CASE Held(c)
  <2>1. Age(c) - 1 <= k
    BY <1>1, <1>3, <1>6, <1>8, Zenon DEF Draining
  <2>2. /\ Age(c) - 1 = k /\ k > 0 /\ k - 1 \in 0 .. (threads - 1) - (shut + 1)
        /\ k - 1 \in Nat /\ ~(k <= k - 1) /\ k > k - 1
    BY <1>1, <1>5, <1>6, <2>1
  <2>3. inbuf[c] = Bytes(e - M * k, M)
    BY <1>1, <1>3, <1>6, <2>1, <2>2, Zenon DEF Draining
  <2>4. state[c] = "FULL"
    <3>1. state[c] \in {"EMPTY", "WAITING", "FULL"}
      BY <1>1 DEF IInv, TypeOK
    <3> QED BY <1>2, <1>8, <3>1 DEF Held
  <2>5. outbuf[c] = Bytes(e - M * k, M)
    BY <1>1, <2>3, <2>4, Zenon DEF IInv, ThreadInv
  <2>6. out' = out \o Bytes(e - M * k, M) /\ inbuf'[c] = <<>>
    BY <1>1, <1>2, <2>4, <2>5, Zenon DEF Collected, Input, HasOutput
  <2>7. PICK p, z : p = M * k /\ z = M * (k - 1)
    OBVIOUS
  <2>8. p \in Nat /\ z \in Nat /\ z = p - M /\ M <= p
    <3>1. M * k \in Nat /\ M * (k - 1) \in Nat /\ M * (k - 1) = M * k - M /\ M <= M * k
      BY <1>4, <1>5, <2>2, Times, Zenon
    <3> QED BY <2>7, <3>1, Zenon
  <2>9. /\ (Len(out) + p) + l = accepted /\ p <= e
        /\ Elements(out) \cup ((e - p) + 1 .. e) \cup (y + 1 .. y + l) = 1..accepted
        /\ tidyClose => y = e /\ Len(out) + p = e /\ InOrder(out)
    BY <1>3, <2>7, Zenon DEF Draining
  <2>10. e - p \in Nat /\ z <= e /\ (e - p) + M = e - z /\ e - p <= e - z /\ e - z <= e
         /\ e - z \in Nat
    BY <1>4, <1>5, <2>8, <2>9
  <2>11. Len(out') = Len(out) + M
    <3> DEFINE b == Bytes(e - p, M)
    <3>1. b \in Seq(Nat) /\ Len(b) = M
      BY <1>4, <2>10, BytesFacts, Zenon
    <3>2. out' = out \o b
      BY <2>6, <2>7, Zenon
    <3> HIDE DEF b
    <3>3. Len(out \o b) = Len(out) + Len(b)
      BY <1>4, <3>1, ConcatFacts, Zenon
    <3> QED BY <3>1, <3>2, <3>3, Zenon
  <2>12. (Len(out') + z) + l = accepted
    BY <1>4, <1>5, <2>8, <2>9, <2>11
  <2>13. Elements(out') \cup ((e - z) + 1 .. e) \cup (y + 1 .. y + l) = 1..accepted
    <3>1. Elements(out') = Elements(out) \cup ((e - p) + 1 .. (e - p) + M)
      <4>1. out' = out \o Bytes(e - p, M) /\ e - p \in Nat
        BY <2>6, <2>7, <2>10, Zenon
      <4>2. Elements(out \o Bytes(e - p, M)) = Elements(out) \cup ((e - p) + 1 .. (e - p) + M)
        BY <1>4, <4>1, ElementsAppend
      <4> QED BY <4>1, <4>2, Zenon
    <3>2. Elements(out') = Elements(out) \cup ((e - p) + 1 .. e - z)
      BY <2>10, <3>1, Zenon
    <3>3. ((e - p) + 1 .. e - z) \cup ((e - z) + 1 .. e) = (e - p) + 1 .. e
      BY <1>5, <2>10
    <3> DEFINE I == (e - p) + 1 .. e - z
               J == (e - z) + 1 .. e
               K == (e - p) + 1 .. e
    <3>4. I \cup J = K /\ Elements(out') = Elements(out) \cup I
      BY <3>2, <3>3, Zenon
    <3> HIDE DEF I, J, K
    <3>5. Elements(out') \cup J = Elements(out) \cup K
      BY <3>4
    <3>6. Elements(out) \cup K \cup (y + 1 .. y + l) = 1..accepted
      BY <2>9, Zenon DEF K
    <3>7. Elements(out') \cup J \cup (y + 1 .. y + l) = 1..accepted
      BY <3>5, <3>6, Zenon
    <3> QED BY <3>7 DEF J
  <2>14. tidyClose => y = e /\ Len(out') + z = e /\ InOrder(out')
    <3> SUFFICES ASSUME tidyClose PROVE y = e /\ Len(out') + z = e /\ InOrder(out')
      OBVIOUS
    <3>1. y = e /\ Len(out) + p = e /\ InOrder(out)
      BY <2>9, Zenon
    <3>2. e - p = Len(out) /\ (Len(out) + M) + z = e
      BY <1>4, <1>5, <2>8, <3>1
    <3>3. InOrder(out \o Bytes(Len(out), M))
      BY <1>4, <3>1, AppendInOrder, Zenon
    <3> QED BY <2>6, <2>7, <2>11, <3>1, <3>2, <3>3, Zenon
  <2>15. ASSUME NEW t \in Threads
         PROVE  /\ Age(t) = 1 => (Held(t)' <=> l > 0) /\ inbuf'[t] = Bytes(y, l)
                /\ Age(t) > 1 => (Held(t)' <=> Age(t) - 1 <= k - 1)
                /\ Age(t) > 1 /\ Age(t) - 1 <= k - 1 =>
                     inbuf'[t] = Bytes(e - M * (Age(t) - 1), M)
                /\ Age(t) > 1 /\ Age(t) - 1 > k - 1 => inbuf'[t] = <<>>
    <3>1. CASE t = c
      <4>1. Age(t) # 1 /\ Age(t) - 1 = k
        BY <1>6, <2>2, <3>1
      <4>2. ~Held(t)' /\ inbuf'[t] = <<>>
        BY <1>1, <2>6, <3>1, Zenon DEF Held
      <4> QED BY <2>2, <4>1, <4>2, Zenon
    <3>2. CASE t # c
      <4>1. Age(t) \in Nat /\ Age(t) # Age(c)
        BY <1>1, <1>7, <3>2
      <4>2. /\ Age(t) - 1 <= k - 1 <=> Age(t) - 1 <= k
            /\ Age(t) - 1 > k - 1 <=> Age(t) - 1 > k
        BY <1>5, <1>6, <2>2, <4>1
      <4>3. (Held(t)' <=> Held(t)) /\ inbuf'[t] = inbuf[t]
        BY <1>1, <3>2, Zenon DEF Held
      <4> QED BY <1>3, <4>2, <4>3, Zenon DEF Draining
    <3> QED BY <3>1, <3>2
  <2>16. Draining(k - 1, e, y, l)'
    <3>1. InOrder(out)' <=> InOrder(out')
      BY Zenon DEF InOrder
    <3>2. Elements(out)' = Elements(out')
      BY Zenon DEF Elements
    <3> QED BY <1>1, <1>2, <2>7, <2>10, <2>12, <2>13, <2>14, <2>15, <3>1, <3>2, Zenon
               DEF Draining
  <2> QED BY <2>2, <2>16, Zenon
<1>9. CASE ~Held(c)
  <2>1. ~(Age(c) - 1 <= k)
    BY <1>1, <1>3, <1>6, <1>9, Zenon DEF Draining
  <2>2. Age(c) - 1 > k /\ k \in 0 .. (threads - 1) - (shut + 1)
    BY <1>1, <1>5, <1>6, <2>1
  <2>3. state[c] = "EMPTY" /\ "EMPTY" # "FULL"
    BY <1>9 DEF Held
  <2>4. out' = out /\ inbuf'[c] = inbuf[c]
    BY <1>1, <1>2, <2>3, Zenon DEF Collected, Input, HasOutput
  <2>5. \A t \in Threads : (Held(t)' <=> Held(t)) /\ inbuf'[t] = inbuf[t]
    BY <1>1, <2>3, <2>4, Zenon DEF Held
  <2>6. Draining(k, e, y, l)'
    BY <1>1, <1>2, <1>3, <2>4, <2>5, Zenon DEF Draining, Elements, InOrder
  <2> QED BY <2>2, <2>6, Zenon
<1> QED BY <1>8, <1>9

(* The thread's block is written out and the thread told to stop.          *)
LEMMA ShutdownCollectInv ==
  ASSUME IInv, ShutdownCollect
  PROVE  IInv'
<1> DEFINE c == Current
<1>1. /\ c \in Threads /\ Age(c) = threads - shut
      /\ \A t \in Threads \ {c} : Age(t) # threads - shut
      /\ state'[c] = "EMPTY" /\ inbuf'[c] = Input(c)
      /\ \A t \in Threads \ {c} : state'[t] = state[t] /\ inbuf'[t] = inbuf[t]
      /\ Threads' = Threads /\ \A t : Age(t)' = Age(t)
      /\ shut < threads /\ threads \in Nat \ {0} /\ shut \in Nat
      /\ Stopped = shut
  BY CollectFacts
<1>2. /\ wpc = "shutdown" /\ ~asleep /\ out' = Collected(c) /\ wpc' = "join"
      /\ state' = [state EXCEPT ![c] = "EMPTY"]
      /\ inbuf' = [inbuf EXCEPT ![c] = Input(c)]
      /\ closing' = [closing EXCEPT ![c] = TRUE]
      /\ tpc' = [tpc EXCEPT ![c] = Wake(@)]
      /\ outbuf' = outbuf /\ threads' = threads /\ next_thread' = next_thread
      /\ asleep' = asleep /\ want' = want /\ shut' = shut /\ asked' = asked
      /\ ret' = ret /\ marked' = marked /\ accepted' = accepted
      /\ tidyClose' = tidyClose
  BY Zenon DEF ShutdownCollect, lzow, history
<1>3. /\ state \in [Threads -> {"EMPTY", "WAITING", "FULL"}]
      /\ inbuf \in [Threads -> Seq(Nat)] /\ outbuf \in [Threads -> Seq(Nat)]
      /\ tpc \in [Threads -> {"run", "waiting", "done"}] /\ out \in Seq(Nat)
      /\ \A t \in Threads : Len(inbuf[t]) \in 0..MAX_BLOCK_SIZE
  BY DEF IInv, TypeOK, PoolTypes
<1>4. Input(c) \in Seq(Nat) /\ Len(Input(c)) \in 0..MAX_BLOCK_SIZE
  <2>1. <<>> \in Seq(Nat) /\ Len(<<>>) \in 0..MAX_BLOCK_SIZE
    BY LzoAssumption
  <2>2. inbuf[c] \in Seq(Nat) /\ Len(inbuf[c]) \in 0..MAX_BLOCK_SIZE
    BY <1>1, <1>3
  <2> QED BY <2>1, <2>2, Zenon DEF Input
<1>5. out' \in Seq(Nat)
  <2>1. outbuf[c] \in Seq(Nat)
    BY <1>1, <1>3
  <2>2. out \o outbuf[c] \in Seq(Nat)
    BY <1>3, <2>1, ConcatFacts, Zenon
  <2> QED BY <1>2, <1>3, <2>2, Zenon DEF Collected
<1>6. closing \in [Threads -> BOOLEAN] /\ closing' \in [Threads -> BOOLEAN]
  <2>1. closing \in [Threads -> BOOLEAN]
    BY Zenon DEF IInv, TypeOK
  <2>2. closing' \in [Threads -> BOOLEAN]
    BY <1>2, <2>1
  <2> QED BY <2>1, <2>2
<1>7. closing'[c] /\ \A t \in Threads \ {c} : closing'[t] = closing[t]
  BY <1>1, <1>2, <1>6
<1>8. /\ state' \in [Threads -> {"EMPTY", "WAITING", "FULL"}]
      /\ inbuf' \in [Threads -> Seq(Nat)]
      /\ tpc' \in [Threads -> {"run", "waiting", "done"}]
  <2>1. Wake(tpc[c]) \in {"run", "waiting", "done"}
    BY <1>1, <1>3 DEF Wake
  <2> QED BY <1>2, <1>3, <1>4, <2>1
<1>9. \A t \in Threads : Len(inbuf'[t]) \in 0..MAX_BLOCK_SIZE
  BY <1>1, <1>3, <1>4, Zenon
<1>10. TypeOK'
  <2>1. wpc' \in {"idle", "write", "shutdown", "join", "finish", "closed"}
    BY <1>2
  <2> QED BY <1>1, <1>2, <1>6, <1>8, <1>9, <2>1, Zenon DEF IInv, TypeOK
<1>11. PoolTypes'
  BY <1>1, <1>2, <1>5, <1>8, Zenon DEF IInv, PoolTypes
<1>12. ThreadInv'
  <2>1. "EMPTY" # "FULL"
    OBVIOUS
  <2> QED BY <1>1, <1>2, <2>1, Zenon DEF IInv, ThreadInv
<1>13. NoLostWakeup'
  <2>1. ASSUME NEW t \in Threads, tpc'[t] = "waiting"
        PROVE  state'[t] # "WAITING" /\ ~closing'[t]
    <3>1. t # c /\ tpc[t] = "waiting"
      BY <1>2, <1>3, <2>1 DEF Wake
    <3> QED BY <1>1, <1>7, <3>1, Zenon DEF IInv, NoLostWakeup
  <2> QED BY <1>1, <1>2, <2>1, Zenon DEF NoLostWakeup
<1>14. FillInv'
  BY <1>2 DEF FillInv
<1>15. DrainInv'
  <2>1. Stopped' = shut + 1 /\ wpc' = "join" /\ wpc' \notin {"finish", "closed"}
        /\ wpc' # "closed"
    BY <1>2 DEF Stopped
  <2>2. shut + 1 < threads =>
          \E k \in 0 .. (threads - 1) - (shut + 1), e \in 0..accepted,
             y \in 0..accepted, l \in 0..MAX_BLOCK_SIZE : Draining(k, e, y, l)'
    BY CollectBlock
  <2>3. shut + 1 = threads => AllOut'
    BY CollectLatest
  <2>4. ASSUME NEW t \in Threads
        PROVE  closing'[t] <=> Age(t) > threads - (shut + 1)
    <3>1. closing[t] <=> Age(t) > threads - shut
      <4>1. wpc \notin {"idle", "write"}
        BY <1>2
      <4> QED BY <1>1, <4>1, Zenon DEF IInv, DrainInv
    <3>2. CASE t = c
      <4>1. Age(t) > threads - (shut + 1)
        BY <1>1, <3>2
      <4> QED BY <1>7, <3>2, <4>1, Zenon
    <3>3. CASE t # c
      <4>1. threads > 0
        BY <1>1
      <4>2. Age(t) \in 1..threads /\ Age(t) # threads - shut
        BY <1>1, <3>3, <4>1, Ages
      <4>3. Age(t) > threads - (shut + 1) <=> Age(t) > threads - shut
        BY <1>1, <4>2
      <4> QED BY <1>7, <3>1, <3>3, <4>3, Zenon
    <3> QED BY <3>2, <3>3
  <2> QED BY <1>1, <1>2, <2>1, <2>2, <2>3, <2>4, Zenon DEF DrainInv
<1> QED BY <1>10, <1>11, <1>12, <1>13, <1>14, <1>15, Zenon DEF IInv

(* A stopped thread is joined; the file ends when all have been.           *)
LEMMA ShutdownJoinInv ==
  ASSUME IInv, ShutdownJoin \/ CloseFinish
  PROVE  IInv'
<1>1. /\ state' = state /\ inbuf' = inbuf /\ outbuf' = outbuf /\ closing' = closing
      /\ tpc' = tpc /\ threads' = threads /\ next_thread' = next_thread
      /\ asleep' = asleep /\ want' = want /\ asked' = asked
      /\ ret' = ret /\ out' = out /\ accepted' = accepted /\ tidyClose' = tidyClose
  BY Zenon DEF ShutdownJoin, CloseFinish, pool, lzow, child, history
<1>2. /\ Threads' = Threads /\ \A t : Age(t)' = Age(t)
      /\ \A t : Held(t)' <=> Held(t)
  BY <1>1, Zenon DEF Threads, Age, Held
<1>3. threads \in Nat /\ shut \in Nat
  BY Types
<1>4. wpc \in {"join", "finish"} /\ ~asleep
  BY DEF IInv, ThreadInv, ShutdownJoin, CloseFinish
<1>5. /\ wpc = "join" => shut < threads
      /\ wpc = "finish" => shut = threads
      /\ Stopped < threads =>
           \E k \in 0 .. (threads - 1) - Stopped, e \in 0..accepted, y \in 0..accepted,
              l \in 0..MAX_BLOCK_SIZE : Draining(k, e, y, l)
      /\ Stopped = threads => AllOut
      /\ \A t \in Threads : closing[t] <=> Age(t) > threads - Stopped
  BY <1>4 DEF IInv, DrainInv
<1>6. /\ wpc' \in {"shutdown", "finish", "closed"} /\ Stopped' = Stopped
      /\ wpc' = "shutdown" => shut' < threads
      /\ wpc' \in {"finish", "closed"} => shut' = threads
      /\ shut' \in 0..threads
  BY <1>3, <1>4, <1>5 DEF ShutdownJoin, CloseFinish, Stopped
<1>7. marked' \in BOOLEAN /\ (wpc' = "closed" => marked')
  <2>1. CASE ShutdownJoin
    <3>1. marked' = marked /\ wpc' # "closed"
      BY <2>1 DEF ShutdownJoin, child
    <3> QED BY <3>1, Zenon DEF IInv, TypeOK
  <2>2. CASE CloseFinish
    BY <2>2, Zenon DEF CloseFinish
  <2> QED BY <2>1, <2>2
<1>8. TypeOK' /\ PoolTypes'
  <2>1. wpc' \in {"idle", "write", "shutdown", "join", "finish", "closed"}
    BY <1>6
  <2> QED BY <1>1, <1>2, <1>6, <1>7, <2>1, Zenon DEF IInv, TypeOK, PoolTypes
<1>9. ThreadInv' /\ NoLostWakeup'
  BY <1>1, <1>2, <1>4, Zenon DEF IInv, ThreadInv, NoLostWakeup
<1>10. FillInv'
  BY <1>6 DEF FillInv
<1>11. DrainInv'
  <2>1. ASSUME NEW k, NEW e, NEW y, NEW l, Draining(k, e, y, l)
        PROVE  Draining(k, e, y, l)'
    BY <1>1, <1>2, <2>1, Zenon DEF Draining, Elements, InOrder
  <2>2. AllOut => AllOut'
    BY <1>1, <1>2, Zenon DEF AllOut, Elements, InOrder
  <2>3. Stopped < threads =>
          \E k \in 0 .. (threads - 1) - Stopped, e \in 0..accepted, y \in 0..accepted,
             l \in 0..MAX_BLOCK_SIZE : Draining(k, e, y, l)'
    BY <1>5, <2>1, Zenon
  <2>4. wpc' \in {"shutdown", "join"} => wpc' = "shutdown"
    BY <1>6
  <2> QED BY <1>1, <1>2, <1>5, <1>6, <1>7, <2>2, <2>3, <2>4, Zenon DEF DrainInv
<1> QED BY <1>8, <1>9, <1>10, <1>11, Zenon DEF IInv
-----------------------------------------------------------------------------
(* lzo_wopen leaves every buffer empty.                                    *)
LEMMA InitInv == Init => IInv
<1> SUFFICES ASSUME Init PROVE IInv
  OBVIOUS
<1>1. /\ threads \in Nat
      /\ state = [t \in Threads |-> "EMPTY"]
      /\ inbuf = [t \in Threads |-> <<>>] /\ outbuf = [t \in Threads |-> <<>>]
      /\ tpc = [t \in Threads |-> "run"]
      /\ next_thread = IF threads = 0 THEN 9 ELSE 0
      /\ wpc = "idle" /\ want = 0 /\ shut = 0 /\ asked = 0 /\ ret = 0
      /\ out = <<>> /\ accepted = 0
  BY LzoAssumption DEF Init
<1>2. /\ closing = [t \in Threads |-> FALSE] /\ asleep = FALSE /\ marked = FALSE
      /\ tidyClose = FALSE
  BY DEF Init
<1>3. asleep \in BOOLEAN /\ marked \in BOOLEAN /\ tidyClose \in BOOLEAN
  BY <1>2, Zenon
<1>4. closing \in [Threads -> BOOLEAN] /\ \A t \in Threads : ~closing[t]
  BY <1>2
<1>5. MAX_BLOCK_SIZE \in Nat \ {0}
  BY LzoAssumption
<1>6. /\ state \in [Threads -> {"EMPTY", "WAITING", "FULL"}]
      /\ tpc \in [Threads -> {"run", "waiting", "done"}]
      /\ inbuf \in [Threads -> Seq(Nat)] /\ outbuf \in [Threads -> Seq(Nat)]
      /\ \A t \in Threads : /\ state[t] = "EMPTY" /\ tpc[t] = "run"
                            /\ inbuf[t] = <<>> /\ outbuf[t] = <<>>
      /\ out \in Seq(Nat) /\ Len(<<>>) = 0 /\ 0 \in 0..MAX_BLOCK_SIZE
  BY <1>1, <1>5
<1>7. /\ threads = 0 => next_thread = 9
      /\ threads > 0 => next_thread \in Threads /\ next_thread = 0
      /\ next_thread \in Threads \cup {9}
  BY <1>1 DEF Threads
<1>8. TypeOK
  <2>1. \A t \in Threads : Len(inbuf[t]) \in 0..MAX_BLOCK_SIZE
                           /\ Len(outbuf[t]) \in 0..MAX_BLOCK_SIZE
    BY <1>6, Zenon
  <2>2. /\ wpc \in {"idle", "write", "shutdown", "join", "finish", "closed"}
        /\ want \in Nat /\ shut \in 0..threads /\ asked \in Nat /\ ret \in {0, -1}
        /\ accepted \in Nat
    BY <1>1
  <2> QED BY <1>3, <1>4, <1>6, <1>7, <2>1, <2>2, Zenon DEF TypeOK
<1>9. PoolTypes
  BY <1>1, <1>6, <1>7, Zenon DEF PoolTypes
<1>10. ThreadInv /\ NoLostWakeup
  <2>1. ~asleep /\ "EMPTY" # "FULL" /\ "run" # "waiting"
    BY <1>2
  <2> QED BY <1>6, <2>1, Zenon DEF ThreadInv, NoLostWakeup
<1>11. FillInv
  <2>1. ~marked /\ shut = 0
    BY <1>1, <1>2
  <2>2. InOrder(out) /\ Len(out) = accepted
    BY <1>1 DEF InOrder
  <2>3. ASSUME threads > 0 PROVE Filling(0) /\ 0 \in 0..threads
    <3>1. Begun = 0
      BY <1>6, <1>7, <2>3 DEF Begun
    <3>2. \A t \in Threads : Age(t) \in Nat /\ Age(t) > 0 /\ ~(Age(t) <= 0)
      <4>1. threads \in Nat \ {0} /\ next_thread \in 0 .. threads - 1
        BY <1>1, <1>7, <2>3 DEF Threads
      <4>2. \A t \in Threads : Age(t) \in 1..threads
        BY <4>1, AgeFacts, Zenon DEF Age, Threads
      <4> QED BY <4>2
    <3>3. 0 = (0 + MAX_BLOCK_SIZE * 0) + 0 /\ 0 < MAX_BLOCK_SIZE
      BY <1>5
    <3>4. Bytes(accepted - 0, 0) = <<>>
      BY NoBytes, Zenon
    <3>5. Filling(0)
      BY <1>1, <1>6, <3>1, <3>2, <3>3, <3>4, Zenon DEF Filling, Held
    <3> QED BY <1>1, <3>5
  <2> QED BY <1>4, <2>1, <2>2, <2>3, Zenon DEF FillInv
<1>12. DrainInv
  BY <1>1 DEF DrainInv
<1> QED BY <1>8, <1>9, <1>10, <1>11, <1>12, Zenon DEF IInv

(* The inductive invariant holds, for every size of the pool and of a      *)
(* block: while the program writes, the threads filled last hold the       *)
(* blocks between the output and the block being filled; while the pool is *)
(* shut down, output and held blocks make up the data.                     *)
THEOREM Invariance == Spec => []IInv
<1>1. IInv /\ [Next]_vars => IInv'
  <2> SUFFICES ASSUME IInv, [Next]_vars PROVE IInv'
    OBVIOUS
  <2>1. ASSUME NEW t \in Threads, Compressor(t) \/ ThreadFail(t) \/ ThreadSpuriousWakeup(t)
        PROVE  IInv'
    BY <2>1, ThreadWaitInv, ThreadCompressInv, ThreadFailInv, Zenon DEF Compressor
  <2>2. ASSUME NEW n \in 0..MaxWriteLen, lzo_wwrite(n) PROVE IInv'
    <3>1. n \in Nat
      BY LzoAssumption
    <3> QED BY <2>2, <3>1, CallerInv, Zenon
  <2>3. 0 \in Nat
    OBVIOUS
  <2>4. CASE Writer \/ WriteUnthreadedFail \/ CallerSpuriousWakeup
    BY <2>3, <2>4, CallerInv, WriteUnthreadedInv, WriteBlockInv, Zenon DEF Writer
  <2>5. CASE lzo_wclose
    <3>1. threads = 0 \/ threads > 0
      BY Types
    <3> QED BY <2>5, <3>1, CloseUnthreaded, CloseThreaded, Zenon
  <2>6. CASE Closer
    BY <2>3, <2>6, CallerInv, ShutdownCollectInv, ShutdownJoinInv, Zenon DEF Closer
  <2>7. CASE Closed \/ UNCHANGED vars
    <3>1. UNCHANGED <<pool, lzow, shut, child, history>>
          /\ wpc' = wpc /\ want' = want /\ asked' = asked /\ ret' = ret
          /\ asleep' = asleep /\ next_thread' = next_thread /\ threads' = threads
          /\ shut' = shut
      BY <2>7, Zenon DEF Closed, vars, caller, lzow
    <3>2. Current' = Current
      BY <3>1, Zenon DEF Current
    <3>3. /\ want' \in Nat /\ asked' \in Nat /\ ret' \in {0, -1} /\ asleep' \in BOOLEAN
      BY <3>1, Zenon DEF IInv, TypeOK
    <3>4. asleep' => /\ (wpc' = "write" /\ want' > 0 /\ threads > 0) \/ wpc' = "shutdown"
                     /\ state[Current'] = "WAITING"
      BY <3>1, <3>2, Zenon DEF IInv, ThreadInv, NoLostWakeup
    <3> QED BY <3>1, <3>3, <3>4, CallerFrame, Zenon
  <2> QED BY <2>1, <2>2, <2>4, <2>5, <2>6, <2>7, Zenon DEF Next
<1> QED BY <1>1, InitInv, PTL DEF Spec

(* As long as the program writes, and after a close that found its thread  *)
(* EMPTY, the child has been given an initial segment of the data, although *)
(* the threads compress their blocks in any order.                         *)
THEOREM BlocksStayInOrder == Spec => []BlocksInOrder
<1>1. IInv => BlocksInOrder
  <2> SUFFICES ASSUME IInv PROVE BlocksInOrder
    OBVIOUS
  <2>1. wpc \in {"idle", "write"} => InOrder(out)
    BY Zenon DEF IInv, FillInv
  <2>2. ASSUME wpc = "closed", tidyClose PROVE InOrder(out)
    <3>1. wpc \notin {"idle", "write"} /\ wpc # "join"
      BY <2>2
    <3>2. Stopped = threads
      BY <2>2, <3>1 DEF IInv, DrainInv, Stopped
    <3> QED BY <2>2, <3>1, <3>2, Zenon DEF IInv, DrainInv, AllOut
  <2>3. TypeOK
    BY DEF IInv
  <2> QED BY <2>1, <2>2, <2>3, Zenon DEF BlocksInOrder
<1> QED BY <1>1, Invariance, PTL

(* After the close every byte accepted is in the output exactly once, the  *)
(* end marker follows, and no thread was told to stop while it held        *)
(* anything; the assertion of shutdown_thread holds.                       *)
THEOREM EveryBlockIsWritten == Spec => []EveryBlockWritten
<1>1. IInv => EveryBlockWritten
  <2> SUFFICES ASSUME IInv PROVE EveryBlockWritten
    OBVIOUS
  <2>1. ASSUME wpc = "closed"
        PROVE  marked /\ Len(out) = accepted /\ {out[i] : i \in 1..Len(out)} = 1..accepted
    <3>1. wpc \notin {"idle", "write"} /\ wpc # "join"
      BY <2>1
    <3>2. Stopped = threads
      BY <2>1, <3>1 DEF IInv, DrainInv, Stopped
    <3> QED BY <2>1, <3>1, <3>2, Zenon DEF IInv, DrainInv, AllOut, Elements
  <2>2. ASSUME wpc = "shutdown", state[Current] = "EMPTY" PROVE inbuf[Current] = <<>>
    <3> DEFINE c == Current
    <3>1. wpc \notin {"idle", "write"} /\ Stopped = shut /\ shut < threads
      BY <2>2 DEF IInv, DrainInv, Stopped
    <3>2. PICK k \in 0 .. (threads - 1) - shut, e \in 0..accepted, y \in 0..accepted,
             l \in 0..MAX_BLOCK_SIZE : Draining(k, e, y, l)
      BY <3>1, Zenon DEF IInv, DrainInv
    <3>3. threads \in Nat /\ shut \in Nat /\ MAX_BLOCK_SIZE \in Nat
      BY Types
    <3>4. threads \in Nat \ {0} /\ shut \in 0 .. threads - 1 /\ threads > 0
      BY <3>1, <3>3
    <3>5. next_thread \in 0 .. threads - 1
      BY <3>4, Types DEF Threads
    <3>6. c = (next_thread + shut) % threads
      BY <2>2 DEF Current
    <3>7. c \in Threads
      BY <3>4, <3>5, <3>6, AgeCurrent, Zenon DEF Threads
    <3>8. Age(c) \in 1..threads
      BY <3>4, <3>7, Ages
    <3>9. ~Held(c)
      BY <2>2 DEF Held
    <3>10. CASE Age(c) = 1
      <4>1. ~(l > 0) /\ inbuf[c] = Bytes(y, l)
        BY <3>2, <3>7, <3>9, <3>10, Zenon DEF Draining
      <4>2. l = 0
        BY <3>3, <4>1
      <4> QED BY <4>1, <4>2, NoBytes, Zenon
    <3>11. CASE Age(c) # 1
      <4>1. Age(c) > 1
        BY <3>3, <3>8, <3>11
      <4>2. ~(Age(c) - 1 <= k)
        BY <3>2, <3>7, <3>9, <4>1, Zenon DEF Draining
      <4>3. Age(c) - 1 > k
        BY <3>3, <3>8, <4>2
      <4> QED BY <3>2, <3>7, <4>1, <4>3, Zenon DEF Draining
    <3> QED BY <3>10, <3>11
  <2>3. ASSUME NEW t \in Threads, closing[t] PROVE state[t] = "EMPTY" /\ inbuf[t] = <<>>
    <3>1. wpc \notin {"idle", "write"}
      BY <2>3, Zenon DEF IInv, FillInv
    <3>2. Age(t) > threads - Stopped
      BY <2>3, <3>1, Zenon DEF IInv, DrainInv
    <3>3. threads \in Nat /\ shut \in Nat /\ MAX_BLOCK_SIZE \in Nat
      BY Types
    <3>4. Stopped \in Nat /\ Stopped <= threads
      <4>1. wpc \in {"idle", "write", "shutdown", "join", "finish", "closed"}
            /\ shut \in 0..threads
        BY DEF IInv, TypeOK
      <4> QED BY <3>1, <3>3, <4>1 DEF IInv, DrainInv, Stopped
    <3>5. CASE Stopped = threads
      BY <3>1, <3>5, Zenon DEF IInv, DrainInv, AllOut, Held
    <3>6. CASE Stopped < threads
      <4>1. PICK k \in 0 .. (threads - 1) - Stopped, e \in 0..accepted, y \in 0..accepted,
               l \in 0..MAX_BLOCK_SIZE : Draining(k, e, y, l)
        BY <3>1, <3>6, Zenon DEF IInv, DrainInv
      <4>2. threads > 0
        BY <3>3, <3>4, <3>6
      <4>3. Age(t) \in 1..threads
        BY <4>2, Ages
      <4>4. Age(t) > 1 /\ Age(t) - 1 > k /\ ~(Age(t) - 1 <= k)
        BY <3>2, <3>3, <3>4, <3>6, <4>3
      <4> QED BY <4>1, <4>4, Zenon DEF Draining, Held
    <3> QED BY <3>3, <3>4, <3>5, <3>6
  <2> QED BY <2>1, <2>2, <2>3, Zenon DEF EveryBlockWritten, ShutdownLosesNothing
<1> QED BY <1>1, Invariance, PTL

(* No wakeup is lost: a sleeping compressor has nothing to compress, and a *)
(* sleeping caller waits for a block still being compressed.               *)
THEOREM NoLostWakeups == Spec => []NoLostWakeup
<1>1. IInv => NoLostWakeup
  BY DEF IInv
<1> QED BY <1>1, Invariance, PTL
=============================================================================
