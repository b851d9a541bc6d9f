-------------------------- MODULE ByteStreamProofs --------------------------
(***************************************************************************)
(* Facts about streams of bytes that the proofs about readers and writers  *)
(* share.                                                                  *)
(***************************************************************************)
EXTENDS ByteStream, TLAPS

(* The n bytes behind offset k are a sequence of that length.              *)
LEMMA BytesFacts ==
  ASSUME NEW k \in Nat, NEW n \in Nat
  PROVE  /\ Bytes(k, n) \in Seq(Nat) /\ Len(Bytes(k, n)) = n
         /\ \A i \in 1..n : Bytes(k, n)[i] = k + i
BY DEF Bytes

(* A sequence is determined by its length and its elements.                *)
LEMMA IsBytes ==
  ASSUME NEW s \in Seq(Nat), NEW k \in Nat, NEW n \in Nat, Len(s) = n,
         \A i \in 1..n : s[i] = k + i
  PROVE  s = Bytes(k, n)
<1>1. DOMAIN s = 1..n /\ s = [i \in 1..n |-> s[i]]
  OBVIOUS
<1> QED BY <1>1 DEF Bytes

(* Being in order is being the beginning of the stream.                    *)
LEMMA InOrderBytes ==
  ASSUME NEW s \in Seq(Nat)
  PROVE  InOrder(s) <=> s = Bytes(0, Len(s))
<1>1. Len(s) \in Nat
  OBVIOUS
<1>2. InOrder(s) => s = Bytes(0, Len(s))
  <2>1. InOrder(s) => \A i \in 1..Len(s) : s[i] = 0 + i
    BY DEF InOrder
  <2> QED BY <1>1, <2>1, IsBytes, Zenon
<1>3. s = Bytes(0, Len(s)) => InOrder(s)
  <2>1. \A i \in 1..Len(s) : Bytes(0, Len(s))[i] = 0 + i
    BY <1>1, BytesFacts, Zenon
  <2> QED BY <1>1, <2>1 DEF InOrder
<1> QED BY <1>2, <1>3

(* Two stretches of the stream, the second behind the first, are one.      *)
LEMMA BytesAppend ==
  ASSUME NEW k \in Nat, NEW m \in Nat, NEW n \in Nat
  PROVE  Bytes(k, m) \o Bytes(k + m, n) = Bytes(k, m + n)
<1> DEFINE s == Bytes(k, m)
           t == Bytes(k + m, n)
<1>1. s \in Seq(Nat) /\ Len(s) = m /\ \A i \in 1..m : s[i] = k + i
  BY BytesFacts
<1>2. t \in Seq(Nat) /\ Len(t) = n /\ \A i \in 1..n : t[i] = (k + m) + i
  <2>1. k + m \in Nat
    OBVIOUS
  <2> QED BY <2>1, BytesFacts, Zenon
<1> HIDE DEF s, t
<1>3. s \o t \in Seq(Nat) /\ Len(s \o t) = m + n
  BY <1>1, <1>2
<1>4. ASSUME NEW i \in 1..(m + n) PROVE (s \o t)[i] = k + i
  <2>1. CASE i <= m
    BY <1>1, <1>2, <2>1
  <2>2. CASE i > m
    <3>1. i - m \in 1..n /\ (s \o t)[i] = t[i - m]
      BY <1>1, <1>2, <2>2
    <3> QED BY <1>2, <3>1
  <2>3. i <= m \/ i > m
    OBVIOUS
  <2> QED BY <2>1, <2>2, <2>3, Zenon
<1>5. s \o t = Bytes(k, m + n)
  <2>1. m + n \in Nat
    OBVIOUS
  <2> QED BY <1>3, <1>4, <2>1, IsBytes, Zenon
<1> QED BY <1>5 DEF s, t

(* Appending the bytes that follow keeps a sequence an initial segment of  *)
(* the stream.                                                             *)
LEMMA AppendInOrder ==
  ASSUME NEW s \in Seq(Nat), InOrder(s), NEW n \in Nat
  PROVE  /\ s \o Bytes(Len(s), n) \in Seq(Nat)
         /\ InOrder(s \o Bytes(Len(s), n))
         /\ Len(s \o Bytes(Len(s), n)) = Len(s) + n
<1>1. s = Bytes(0, Len(s)) /\ Len(s) \in Nat
  BY InOrderBytes
<1>2. s \o Bytes(Len(s), n) = Bytes(0, Len(s) + n)
  <2>1. 0 + Len(s) = Len(s)
    BY <1>1
  <2>2. Bytes(0, Len(s)) \o Bytes(0 + Len(s), n) = Bytes(0, Len(s) + n)
    BY <1>1, BytesAppend, Zenon
  <2> QED BY <1>1, <2>1, <2>2, Zenon
<1>3. Len(s) + n \in Nat
  BY <1>1
<1>4. Bytes(0, Len(s) + n) \in Seq(Nat) /\ Len(Bytes(0, Len(s) + n)) = Len(s) + n
  BY <1>3, BytesFacts
<1>5. InOrder(Bytes(0, Len(s) + n))
  BY <1>4, InOrderBytes, Zenon
<1> QED BY <1>2, <1>4, <1>5, Zenon

(* The length of two sequences in a row.                                   *)
LEMMA ConcatFacts ==
  ASSUME NEW s \in Seq(Nat), NEW t \in Seq(Nat)
  PROVE  s \o t \in Seq(Nat) /\ Len(s \o t) = Len(s) + Len(t)
OBVIOUS

(* The first m elements of an array that holds the bytes behind k.         *)
LEMMA SliceIsBytes ==
  ASSUME NEW n \in Nat, NEW f \in [1..n -> Nat], NEW m \in 0..n, NEW k \in Nat,
         \A i \in 1..m : f[i] = k + i
  PROVE  SubSeq(f, 1, m) = Bytes(k, m)
<1>1. f \in Seq(Nat) /\ Len(f) = n
  OBVIOUS
<1>2. SubSeq(f, 1, m) \in Seq(Nat) /\ Len(SubSeq(f, 1, m)) = m
  BY <1>1
<1>3. \A i \in 1..m : SubSeq(f, 1, m)[i] = k + i
  BY <1>1, <1>2
<1>4. m \in Nat
  OBVIOUS
<1> QED BY <1>2, <1>3, <1>4, IsBytes, Zenon

(* The first n of the bytes behind k, and those behind them.               *)
LEMMA SplitBytes ==
  ASSUME NEW k \in Nat, NEW m \in Nat, NEW n \in 0..m
  PROVE  /\ SubSeq(Bytes(k, m), 1, n) = Bytes(k, n)
         /\ SubSeq(Bytes(k, m), n + 1, m) = Bytes(k + n, m - n)
<1> DEFINE s == Bytes(k, m)
<1>1. s \in Seq(Nat) /\ Len(s) = m /\ \A i \in 1..m : s[i] = k + i
  BY BytesFacts
<1> HIDE DEF s
<1>2. SubSeq(s, 1, n) = Bytes(k, n)
  <2>1. SubSeq(s, 1, n) \in Seq(Nat) /\ Len(SubSeq(s, 1, n)) = n
    BY <1>1
  <2>2. \A i \in 1..n : SubSeq(s, 1, n)[i] = k + i
    BY <1>1, <2>1
  <2>3. n \in Nat
    OBVIOUS
  <2> QED BY <2>1, <2>2, <2>3, IsBytes, Zenon
<1>3. SubSeq(s, n + 1, m) = Bytes(k + n, m - n)
  <2>1. SubSeq(s, n + 1, m) \in Seq(Nat) /\ Len(SubSeq(s, n + 1, m)) = m - n
    BY <1>1
  <2>2. \A i \in 1..(m - n) : SubSeq(s, n + 1, m)[i] = (k + n) + i
    BY <1>1, <2>1
  <2>3. m - n \in Nat /\ k + n \in Nat
    OBVIOUS
  <2> QED BY <2>1, <2>2, <2>3, IsBytes, Zenon
<1> QED BY <1>2, <1>3 DEF s
=============================================================================
