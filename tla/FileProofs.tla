----------------------------- MODULE FileProofs -----------------------------
(***************************************************************************)
(* Proofs, for every size of the buffers, every portioning and every       *)
(* sequence of calls, of what MCCodecReader, MCCodecWriter and             *)
(* MCStdioWriter check on small instances: the decompressing readers, the  *)
(* compressing writers and the plain file writer, which all move one       *)
(* stream of bytes through a buffer without a thread of their own.         *)
(*                                                                         *)
(* The three specifications have nothing in common but ByteStream and the  *)
(* variables of Handle, CodecHandle and WriteHandle: every theorem is      *)
(* about one of the three.                                                 *)
(***************************************************************************)
EXTENDS CodecReader, CodecWriter, StdioWriter, ByteStreamProofs,
        SequenceTheorems, FiniteSetTheorems
-----------------------------------------------------------------------------
(* The decompressing readers.                                              *)
(* What a compressed file is made of.                                      *)
Unit == {"head", "data", "end", "bad"}

(* Units of the file the decoder has taken.                                *)
Used == pos - Len(inbuf)

(* Inside a read.                                                          *)
InCall == {"loop", "outer", "fill", "frame"}

(* The complete files.                                                     *)
WholeFiles == Members \cup Concatenated

(* All of the file is decoded, and it stops at the end of a member.        *)
AtEnd == Used = Len(file) /\ file[Len(file)] = "end"

(* No bytes have been dropped with an error: after one only zstd_lz4_read  *)
(* may return data again.                                                  *)
Clean == codec = "zstd_lz4" => "reported" \notin trouble

(* inbuf holds the units behind those the decoder took, pend the last      *)
(* bytes of those it decoded.                                              *)
BufInv ==
  /\ inbuf \in Seq(Unit) /\ Len(inbuf) <= pos
  /\ \A i \in 1..Len(inbuf) : inbuf[i] = file[Used + i]
  /\ pend \in Seq(Nat) /\ Len(pend) <= decoded /\ pend = Bytes(decoded - Len(pend), Len(pend))
  /\ pend # <<>> => Used > 0 /\ file[Used] = "data"
  /\ outbuf \in Seq(Nat)
  /\ pc \in InCall => Len(outbuf) <= asked /\ asked <= MaxReadLen
  /\ codec # "zstd_lz4" => inbuf_index = 0

(* The rest of them has been returned, or is in the caller's buffer.       *)
OutInv ==
  Clean =>
    /\ pc \in InCall => got \o outbuf = Bytes(0, decoded - Len(pend))
    /\ pc \notin InCall =>
         /\ InOrder(got)
         /\ err # "ERROR" \/ ret >= 0 => got = Bytes(0, decoded - Len(pend))

(* Where the loops can be, and what the frame loop knows of inbuf.         *)
ControlInv ==
  /\ pc = "loop" => codec # "zstd_lz4"
  /\ pc \in {"outer", "fill", "frame"} => codec = "zstd_lz4" /\ err = "OK"
  /\ pc = "frame" => inbuf # <<>>
  /\ pc = "fill" /\ inbuf = <<>> => inbuf_index = 0
  /\ codec = "zstd_lz4" =>
       /\ pc # "fill" /\ err # "ERROR" /\ inbuf # <<>>
            => inbuf_len = INBUF_SIZE \/ pos = Len(file)
       /\ dec = "UNDEF" => Used = 0 \/ file[Used] = "end"

(* What an end of the data means.                                          *)
EndInv ==
  /\ err = "EOF" /\ file \in EndRecognised => AtEnd
  /\ pc = "idle" /\ asked > 0 /\ ret = 0 /\ file \in EndRecognised => AtEnd
  /\ codec = "zlib" =>
       /\ file \in CutFirst => sincelastend > 0
       /\ Used > 0 /\ file[Used] = "end" /\ inbuf = <<>> => sincelastend = 0

(* What an error means.                                                    *)
ReaderErrorInv ==
  /\ err = "ERROR" /\ file \in WholeFiles
       => "parent" \in trouble \/ (codec = "zstd_lz4" /\ "empty" \in trouble)
  /\ pc = "loop" /\ err = "ERROR" => \E i \in 1..Len(file) : file[i] = "bad"
  /\ NoSpuriousError

(* The inductive invariant of the readers.                                 *)
ReaderInv == TypeOK /\ BufInv /\ OutInv /\ ControlInv /\ EndInv /\ ReaderErrorInv
-----------------------------------------------------------------------------
(* The places of data units between two others.                            *)
DataIn(f, a, b) == {i \in a..b : f[i] = "data"}

(* There are finitely many of them.                                        *)
LEMMA DataInFacts ==
  ASSUME NEW f, NEW a \in Nat, NEW b \in Nat
  PROVE  IsFiniteSet(DataIn(f, a, b)) /\ Cardinality(DataIn(f, a, b)) \in Nat
<1>1. IsFiniteSet(a..b)
  BY FS_Interval
<1>2. DataIn(f, a, b) \in SUBSET (a..b)
  BY DEF DataIn
<1>3. IsFiniteSet(DataIn(f, a, b))
  BY <1>1, <1>2, FS_Subset, Zenon
<1> QED BY <1>3, FS_CardinalityType, Zenon

(* Counting in two parts.                                                  *)
LEMMA DataInSplit ==
  ASSUME NEW f, NEW a \in Nat, NEW b \in Nat
  PROVE  Cardinality(DataIn(f, 1, a + b))
           = Cardinality(DataIn(f, 1, a)) + Cardinality(DataIn(f, a + 1, a + b))
<1> DEFINE S == DataIn(f, 1, a)
           T == DataIn(f, a + 1, a + b)
<1>1. 1 \in Nat /\ a + 1 \in Nat /\ a + b \in Nat
  OBVIOUS
<1>2. /\ IsFiniteSet(S) /\ Cardinality(S) \in Nat
      /\ IsFiniteSet(T) /\ Cardinality(T) \in Nat
  BY <1>1, DataInFacts
<1>3. S \cap T = {} /\ DataIn(f, 1, a + b) = S \cup T
  BY DEF DataIn
<1> HIDE DEF S, T
<1>4. Cardinality(S \cup T) = Cardinality(S) + Cardinality(T) - Cardinality(S \cap T)
  <2>1. IsFiniteSet(S) /\ IsFiniteSet(T)
    BY <1>2
  <2> QED BY <2>1, FS_Union
<1>5. Cardinality({}) = 0
  BY FS_EmptySet
<1>6. Cardinality(S \cup T) = Cardinality(S) + Cardinality(T)
  <2>1. Cardinality(S \cap T) = 0
    BY <1>3, <1>5, Zenon
  <2> QED BY <1>2, <1>4, <2>1
<1> QED BY <1>3, <1>6 DEF S, T

(* Counting one more.                                                      *)
LEMMA DataInOneMore ==
  ASSUME NEW f, NEW b \in Nat
  PROVE  Cardinality(DataIn(f, 1, b + 1))
           = Cardinality(DataIn(f, 1, b)) + (IF f[b + 1] = "data" THEN 1 ELSE 0)
<1> DEFINE S == DataIn(f, 1, b)
<1>1. 1 \in Nat
  OBVIOUS
<1>2. IsFiniteSet(S) /\ Cardinality(S) \in Nat
  BY <1>1, DataInFacts
<1>3. CASE f[b + 1] = "data"
  <2>1. DataIn(f, 1, b + 1) = S \cup {b + 1} /\ b + 1 \notin S
    BY <1>3 DEF DataIn
  <2> HIDE DEF S
  <2>2. Cardinality(S \cup {b + 1}) = Cardinality(S) + 1
    BY <1>2, <2>1, FS_AddElement, Zenon
  <2> QED BY <1>3, <2>1, <2>2 DEF S
<1>4. CASE f[b + 1] # "data"
  <2>1. DataIn(f, 1, b + 1) = S
    BY <1>4 DEF DataIn
  <2> HIDE DEF S
  <2> QED BY <1>2, <1>4, <2>1 DEF S
<1> QED BY <1>3, <1>4

(* Counting in another place.                                              *)
LEMMA DataInShift ==
  ASSUME NEW f, NEW g, NEW a \in Nat, NEW k \in Nat, \A i \in 1..k : g[i] = f[a + i]
  PROVE  Cardinality(DataIn(g, 1, k)) = Cardinality(DataIn(f, a + 1, a + k))
<1> DEFINE S == DataIn(g, 1, k)
           T == DataIn(f, a + 1, a + k)
           m == [i \in S |-> a + i]
<1>1. m \in Bijection(S, T)
  <2>1. m \in [S -> T]
    BY DEF DataIn
  <2>2. \A i, j \in S : m[i] = m[j] => i = j
    BY DEF DataIn
  <2>3. \A t \in T : \E i \in S : m[i] = t
    <3> SUFFICES ASSUME NEW t \in T
                 PROVE  \E i \in S : m[i] = t
      OBVIOUS
    <3>1. t - a \in S
      BY DEF DataIn
    <3>2. m[t - a] = t
      <4>1. t \in Int
        BY DEF DataIn
      <4> QED BY <3>1, <4>1
    <3> QED BY <3>1, <3>2
  <2> HIDE DEF S, T, m
  <2> QED BY <2>1, <2>2, <2>3 DEF Bijection, Injection, IsInjective, Surjection
<1>2. IsFiniteSet(S)
  <2>1. 1 \in Nat
    OBVIOUS
  <2> QED BY <2>1, DataInFacts
<1> HIDE DEF S, T, m
<1>3. ExistsBijection(S, T)
  BY <1>1 DEF ExistsBijection
<1>4. Cardinality(T) = Cardinality(S)
  BY <1>2, <1>3, FS_Bijection, Zenon
<1> QED BY <1>4 DEF S, T

(* What the beginning of a sequence of units decodes to.                   *)
LEMMA DecodesIs ==
  ASSUME NEW f \in Seq(Unit), NEW n \in 0..Len(f)
  PROVE  Decodes(SubSeq(f, 1, n)) = Expand * Cardinality(DataIn(f, 1, n))
<1>1. DOMAIN SubSeq(f, 1, n) = 1..n /\ \A i \in 1..n : SubSeq(f, 1, n)[i] = f[i]
  OBVIOUS
<1>2. {i \in DOMAIN SubSeq(f, 1, n) : SubSeq(f, 1, n)[i] = "data"} = DataIn(f, 1, n)
  BY <1>1 DEF DataIn
<1> QED BY <1>2 DEF Decodes

(* One call of the decoder: the units it takes are the next of the file.   *)
LEMMA DecodesStep ==
  ASSUME CodecReaderAssumption, NEW f \in Seq(Unit), NEW g \in Seq(Unit), NEW a \in Nat,
         NEW k \in 0..Len(g), a + k <= Len(f), \A i \in 1..k : g[i] = f[a + i]
  PROVE  /\ Decodes(SubSeq(f, 1, a)) \in Nat /\ Decodes(SubSeq(g, 1, k)) \in Nat
         /\ Decodes(SubSeq(f, 1, a + k)) = Decodes(SubSeq(f, 1, a)) + Decodes(SubSeq(g, 1, k))
<1>1. k \in Nat /\ 1 \in Nat /\ a \in 0..Len(f) /\ a + k \in 0..Len(f) /\ a + 1 \in Nat
      /\ a + k \in Nat /\ Expand \in Nat
  OBVIOUS
<1> DEFINE x == Cardinality(DataIn(f, 1, a))
           y == Cardinality(DataIn(g, 1, k))
           z == Cardinality(DataIn(f, 1, a + k))
<1>2. x \in Nat /\ y \in Nat /\ z \in Nat
  BY <1>1, DataInFacts
<1>3. y = Cardinality(DataIn(f, a + 1, a + k))
  BY <1>1, DataInShift
<1>4. z = x + y
  <2>1. z = x + Cardinality(DataIn(f, a + 1, a + k))
    BY <1>1, DataInSplit
  <2> QED BY <1>3, <2>1
<1>5. /\ Decodes(SubSeq(f, 1, a)) = Expand * x
      /\ Decodes(SubSeq(g, 1, k)) = Expand * y
      /\ Decodes(SubSeq(f, 1, a + k)) = Expand * z
  BY <1>1, DecodesIs
<1> HIDE DEF x, y, z
<1>6. Expand * x \in Nat /\ Expand * y \in Nat /\ Expand * (x + y) = Expand * x + Expand * y
  BY <1>1, <1>2
<1> QED BY <1>4, <1>5, <1>6

(* The last unit it takes.                                                 *)
LEMMA DecodesLast ==
  ASSUME CodecReaderAssumption, NEW g \in Seq(Unit), NEW k \in 1..Len(g)
  PROVE  /\ Decodes(SubSeq(g, 1, k - 1)) \in Nat
         /\ Decodes(SubSeq(g, 1, k))
              = Decodes(SubSeq(g, 1, k - 1)) + (IF g[k] = "data" THEN Expand ELSE 0)
<1>1. k \in 0..Len(g) /\ k - 1 \in 0..Len(g) /\ k - 1 \in Nat /\ (k - 1) + 1 = k
      /\ Expand \in Nat
      /\ 1 \in Nat /\ k \in Nat
  OBVIOUS
<1> DEFINE x == Cardinality(DataIn(g, 1, k - 1))
           y == Cardinality(DataIn(g, 1, k))
<1>2. x \in Nat /\ y \in Nat
  BY <1>1, DataInFacts
<1>3. y = x + (IF g[k] = "data" THEN 1 ELSE 0)
  <2>1. Cardinality(DataIn(g, 1, (k - 1) + 1)) = x + (IF g[(k - 1) + 1] = "data" THEN 1 ELSE 0)
    BY <1>1, DataInOneMore
  <2> QED BY <1>1, <2>1
<1>4. Decodes(SubSeq(g, 1, k - 1)) = Expand * x /\ Decodes(SubSeq(g, 1, k)) = Expand * y
  BY <1>1, DecodesIs
<1> HIDE DEF x, y
<1>5. Expand * x \in Nat /\ Expand * (x + 1) = Expand * x + Expand
      /\ Expand * (x + 0) = Expand * x + 0
  BY <1>1, <1>2
<1> QED BY <1>3, <1>4, <1>5
-----------------------------------------------------------------------------
(* What a member looks like.                                               *)
LEMMA MemberFacts ==
  ASSUME CodecReaderAssumption, NEW f \in Members
  PROVE  /\ f \in Seq(Unit) /\ Len(f) > MAGIC /\ Len(f) \in Nat
         /\ \A i \in 1..MAGIC : f[i] = "head"
         /\ \A i \in 1..Len(f) : f[i] # "bad" /\ (f[i] = "end" <=> i = Len(f))
<1>1. PICK k \in 0..MaxData : f = Member(k)
  BY DEF Members
<1> DEFINE h == MagicHead
           d == [i \in 1..k |-> "data"]
<1>2. h \in Seq(Unit) /\ Len(h) = MAGIC /\ (\A i \in 1..MAGIC : h[i] = "head") /\ MAGIC \in Nat
  BY DEF MagicHead, Unit
<1>3. d \in Seq(Unit) /\ Len(d) = k /\ (\A i \in 1..k : d[i] = "data") /\ k \in Nat
  BY DEF Unit
<1>4. f = (h \o d) \o <<"end">>
  BY <1>1 DEF Member
<1> HIDE DEF h, d
<1>5. /\ h \o d \in Seq(Unit) /\ Len(h \o d) = MAGIC + k
      /\ \A i \in 1..MAGIC + k : (h \o d)[i] = IF i <= MAGIC THEN "head" ELSE "data"
  <2>1. h \o d \in Seq(Unit) /\ Len(h \o d) = MAGIC + k
    BY <1>2, <1>3
  <2>2. \A i \in 1..MAGIC + k : (h \o d)[i] = IF i <= MAGIC THEN h[i] ELSE d[i - MAGIC]
    BY <1>2, <1>3
  <2> QED BY <1>2, <1>3, <2>1, <2>2
<1> DEFINE s == h \o d
<1> HIDE DEF s
<1>6. s \in Seq(Unit) /\ Len(s) = MAGIC + k /\ f = s \o <<"end">>
      /\ \A i \in 1..MAGIC + k : s[i] = IF i <= MAGIC THEN "head" ELSE "data"
  BY <1>4, <1>5 DEF s
<1>7. f \in Seq(Unit) /\ Len(f) = MAGIC + k + 1
  <2>1. <<"end">> \in Seq(Unit) /\ Len(<<"end">>) = 1
    BY DEF Unit
  <2>2. s \o <<"end">> \in Seq(Unit) /\ Len(s \o <<"end">>) = Len(s) + Len(<<"end">>)
    BY <1>6, <2>1, ConcatProperties
  <2> QED BY <1>6, <2>1, <2>2
<1>8. \A i \in 1..Len(f) : f[i] = IF i <= MAGIC + k THEN s[i] ELSE "end"
  BY <1>2, <1>3, <1>6, <1>7
<1> QED BY <1>2, <1>3, <1>6, <1>7, <1>8

(* A complete file: it ends with an end, behind every other end is a head, *)
(* and nothing in it is bad.                                               *)
LEMMA WholeFacts ==
  ASSUME CodecReaderAssumption, NEW f \in WholeFiles
  PROVE  /\ f \in Seq(Unit) /\ Len(f) > 0 /\ f[Len(f)] = "end"
         /\ \A i \in 1..Len(f) : f[i] # "bad"
         /\ \A q \in 0..Len(f) - 1 : (q = 0 \/ f[q] = "end") =>
              q + MAGIC < Len(f) /\ \A i \in 1..MAGIC : f[q + i] = "head"
<1> USE DEF WholeFiles
<1>0. MAGIC \in Nat
  OBVIOUS
<1>1. CASE f \in Members
  <2>1. /\ f \in Seq(Unit) /\ Len(f) > MAGIC /\ Len(f) \in Nat
        /\ \A i \in 1..MAGIC : f[i] = "head"
        /\ \A i \in 1..Len(f) : f[i] # "bad" /\ (f[i] = "end" <=> i = Len(f))
    BY <1>1, MemberFacts
  <2> QED BY <1>0, <2>1
<1>2. CASE f \in Concatenated
  <2>1. PICK a \in Members, b \in Members : f = a \o b
    BY <1>2 DEF Concatenated
  <2>2. /\ a \in Seq(Unit) /\ Len(a) > MAGIC /\ Len(a) \in Nat
        /\ \A i \in 1..MAGIC : a[i] = "head"
        /\ \A i \in 1..Len(a) : a[i] # "bad" /\ (a[i] = "end" <=> i = Len(a))
    BY MemberFacts
  <2>3. /\ b \in Seq(Unit) /\ Len(b) > MAGIC /\ Len(b) \in Nat
        /\ \A i \in 1..MAGIC : b[i] = "head"
        /\ \A i \in 1..Len(b) : b[i] # "bad" /\ (b[i] = "end" <=> i = Len(b))
    BY MemberFacts
  <2>4. f \in Seq(Unit) /\ Len(f) = Len(a) + Len(b)
    BY <2>1, <2>2, <2>3
  <2>5. \A i \in 1..Len(a) + Len(b) : f[i] = IF i <= Len(a) THEN a[i] ELSE b[i - Len(a)]
    BY <2>1, <2>2, <2>3
  <2>6. f[Len(f)] = "end" /\ Len(f) > 0
    BY <1>0, <2>2, <2>3, <2>4, <2>5
  <2>7. \A i \in 1..Len(f) : f[i] # "bad"
    <3> SUFFICES ASSUME NEW i \in 1..Len(f)
                 PROVE  f[i] # "bad"
      OBVIOUS
    <3>1. CASE i <= Len(a)
      BY <2>2, <2>3, <2>4, <2>5, <3>1
    <3>2. CASE i > Len(a)
      <4>1. i - Len(a) \in 1..Len(b) /\ f[i] = b[i - Len(a)]
        BY <2>2, <2>3, <2>4, <2>5, <3>2
      <4> QED BY <2>3, <4>1
    <3> QED BY <2>2, <3>1, <3>2
  <2>8. ASSUME NEW q \in 0..Len(f) - 1, q = 0 \/ f[q] = "end"
        PROVE  q + MAGIC < Len(f) /\ \A i \in 1..MAGIC : f[q + i] = "head"
    <3>1. q = 0 \/ q = Len(a)
      <4>1. CASE q \in 1..Len(a)
        BY <2>2, <2>3, <2>4, <2>5, <2>8, <4>1
      <4>2. CASE q > Len(a)
        <5>1. q - Len(a) \in 1 .. Len(b) - 1 /\ f[q] = b[q - Len(a)] /\ q # 0
          BY <2>2, <2>3, <2>4, <2>5, <2>8, <4>2
        <5> QED BY <2>3, <2>8, <5>1
      <4> QED BY <2>2, <2>4, <4>1, <4>2
    <3>2. CASE q = 0
      BY <1>0, <2>2, <2>3, <2>4, <2>5, <3>2
    <3>3. CASE q = Len(a)
      <4>1. \A i \in 1..MAGIC : f[Len(a) + i] = b[i]
        BY <1>0, <2>2, <2>3, <2>5
      <4> QED BY <1>0, <2>2, <2>3, <2>4, <3>3, <4>1
    <3> QED BY <3>1, <3>2, <3>3
  <2> QED BY <2>4, <2>6, <2>7, <2>8
<1> QED BY <1>1, <1>2

(* A file that is cut in its first member has no end, and nothing bad.     *)
LEMMA CutFacts ==
  ASSUME CodecReaderAssumption, NEW f \in CutFirst
  PROVE  f \in Seq(Unit) /\ \A i \in 1..Len(f) : f[i] # "bad" /\ f[i] # "end"
<1>1. PICK a \in Members : f \in Cut(a)
  BY DEF CutFirst
<1>2. PICK n \in 1 .. Len(a) - 1 : f = SubSeq(a, 1, n)
  BY <1>1 DEF Cut
<1>3. /\ a \in Seq(Unit) /\ Len(a) > MAGIC /\ Len(a) \in Nat
      /\ \A i \in 1..Len(a) : a[i] # "bad" /\ (a[i] = "end" <=> i = Len(a))
  BY MemberFacts
<1>4. f \in Seq(Unit) /\ Len(f) = n /\ \A i \in 1..n : f[i] = a[i]
  BY <1>2, <1>3
<1> QED BY <1>2, <1>3, <1>4

(* Files are made of units.                                                *)
LEMMA FileType ==
  ASSUME CodecReaderAssumption, NEW f \in Files
  PROVE  f \in Seq(Unit) /\ Len(f) \in Nat
<1>1. \A a \in Members : a \in Seq(Unit)
  BY MemberFacts
<1>2. \A a \in Members : \A c \in Cut(a) : c \in Seq(Unit)
  <2> SUFFICES ASSUME NEW a \in Members, NEW c \in Cut(a)
               PROVE  c \in Seq(Unit)
    OBVIOUS
  <2>1. PICK n \in 1 .. Len(a) - 1 : c = SubSeq(a, 1, n)
    BY DEF Cut
  <2> QED BY <1>1, <2>1
<1>3. CASE f \in Members \cup Concatenated
  <2>1. CASE f \in Concatenated
    <3>1. PICK a \in Members, b \in Members : f = a \o b
      BY <2>1 DEF Concatenated
    <3>2. a \in Seq(Unit) /\ b \in Seq(Unit)
      BY <1>1
    <3> QED BY <3>1, <3>2
  <2> QED BY <1>1, <1>3, <2>1
<1>4. CASE f \in CutFirst
  BY <1>2, <1>4 DEF CutFirst
<1>5. CASE f \in CutSecond
  <2>1. PICK a \in Members, b \in Members : f \in {a \o c : c \in Cut(b)}
    BY <1>5 DEF CutSecond
  <2>2. PICK c \in Cut(b) : f = a \o c
    BY <2>1
  <2>3. a \in Seq(Unit) /\ c \in Seq(Unit)
    BY <1>1, <1>2
  <2> QED BY <2>2, <2>3
<1>6. CASE f \in Corrupt
  <2>1. PICK a \in Members : f \in Spoilt(a)
    BY <1>6 DEF Corrupt
  <2>2. a \in Seq(Unit) /\ "bad" \in Unit
    BY <1>1 DEF Unit
  <2>3. CASE f = Append(a, "bad")
    BY <2>2, <2>3
  <2>4. CASE f \in {[a EXCEPT ![i] = "bad"] : i \in MAGIC + 1 .. Len(a)}
    <3>1. PICK i \in MAGIC + 1 .. Len(a) : f = [a EXCEPT ![i] = "bad"]
      BY <2>4
    <3>2. a \in [1..Len(a) -> Unit] /\ Len(a) \in Nat
      BY <2>2
    <3>3. f \in [1..Len(a) -> Unit]
      BY <2>2, <3>1, <3>2
    <3> QED BY <3>2, <3>3
  <2> QED BY <2>1, <2>3, <2>4 DEF Spoilt
<1> QED BY <1>3, <1>4, <1>5, <1>6 DEF Files
-----------------------------------------------------------------------------
(* What the steps compute with.                                            *)
LEMMA Known ==
  ASSUME CodecReaderAssumption, TypeOK, BufInv
  PROVE  /\ file \in Seq(Unit) /\ Len(file) \in Nat /\ pos \in Nat /\ pos <= Len(file)
         /\ inbuf \in Seq(Unit) /\ Len(inbuf) \in Nat
         /\ Used \in Nat /\ Used + Len(inbuf) = pos /\ Used \in 0..Len(file)
         /\ decoded = Decodes(SubSeq(file, 1, Used)) /\ decoded \in Nat
         /\ pend \in Seq(Nat) /\ Len(pend) \in Nat /\ Len(pend) <= decoded
         /\ decoded - Len(pend) \in Nat
         /\ outbuf \in Seq(Nat) /\ Len(outbuf) \in Nat /\ asked \in Nat
         /\ got \in Seq(Nat) /\ inbuf_index \in Nat
<1>1. file \in Seq(Unit) /\ Len(file) \in Nat
  BY FileType DEF TypeOK
<1>2. pos \in Nat /\ pos <= Len(file) /\ inbuf \in Seq(Unit) /\ Len(inbuf) \in Nat
      /\ Len(inbuf) <= pos
  BY <1>1 DEF TypeOK, BufInv
<1>3. Used \in Nat /\ Used + Len(inbuf) = pos /\ Used \in 0..Len(file)
  BY <1>1, <1>2 DEF Used
<1>4. decoded = Decodes(SubSeq(file, 1, Used))
  BY DEF decoded, Used
<1>5. decoded \in Nat
  <2>1. 0 \in 0..Len(inbuf) /\ Used + 0 <= Len(file)
        /\ \A i \in 1..0 : inbuf[i] = file[Used + i]
    BY <1>1, <1>2, <1>3
  <2>2. Decodes(SubSeq(file, 1, Used)) \in Nat
    BY <1>1, <1>2, <1>3, <2>1, DecodesStep
  <2> QED BY <1>4, <2>2
<1>6. pend \in Seq(Nat) /\ Len(pend) \in Nat /\ Len(pend) <= decoded
      /\ decoded - Len(pend) \in Nat
  BY <1>5 DEF BufInv
<1>7. outbuf \in Seq(Nat) /\ Len(outbuf) \in Nat /\ asked \in Nat /\ got \in Seq(Nat)
      /\ inbuf_index \in Nat
  BY DEF TypeOK, BufInv
<1> QED BY <1>1, <1>2, <1>3, <1>4, <1>5, <1>6, <1>7

(* The parent supplies units behind those in inbuf.                        *)
LEMMA SupplyFacts ==
  ASSUME CodecReaderAssumption, TypeOK, BufInv, NEW n \in Nat, n > 0, pos + n <= Len(file),
         file' = file,
         pos' = pos + n, inbuf' = inbuf \o SubSeq(file, pos + 1, pos + n)
  PROVE  /\ inbuf' \in Seq(Unit) /\ Len(inbuf') = Len(inbuf) + n /\ inbuf' # <<>>
         /\ pos' \in 0..Len(file) /\ Len(inbuf') <= pos'
         /\ Used' = Used /\ decoded' = decoded
         /\ \A i \in 1..Len(inbuf') : inbuf'[i] = file[Used + i]
<1>1. /\ file \in Seq(Unit) /\ Len(file) \in Nat /\ pos \in Nat /\ pos <= Len(file)
      /\ inbuf \in Seq(Unit) /\ Len(inbuf) \in Nat
      /\ Used \in Nat /\ Used + Len(inbuf) = pos
  BY Known
<1> DEFINE s == SubSeq(file, pos + 1, pos + n)
<1>2. s \in Seq(Unit) /\ Len(s) = n /\ \A i \in 1..n : s[i] = file[pos + i]
  BY <1>1
<1> HIDE DEF s
<1>3. inbuf' = inbuf \o s
  BY DEF s
<1>4. inbuf' \in Seq(Unit) /\ Len(inbuf') = Len(inbuf) + n
  BY <1>1, <1>2, <1>3
<1>5. \A i \in 1..Len(inbuf) + n :
         inbuf'[i] = IF i <= Len(inbuf) THEN inbuf[i] ELSE s[i - Len(inbuf)]
  BY <1>1, <1>2, <1>3
<1>6. Used' = Used
  BY <1>1, <1>4 DEF Used
<1>7. decoded' = decoded
  BY <1>6 DEF decoded, Used
<1>8. \A i \in 1..Len(inbuf') : inbuf'[i] = file[Used + i]
  <2> SUFFICES ASSUME NEW i \in 1..Len(inbuf) + n
               PROVE  inbuf'[i] = file[Used + i]
    BY <1>4
  <2>1. CASE i <= Len(inbuf)
    BY <1>1, <1>5, <2>1 DEF BufInv
  <2>2. CASE i > Len(inbuf)
    <3> DEFINE j == i - Len(inbuf)
    <3>1. j \in 1..n /\ pos + j = Used + i
      <4>1. Len(inbuf) \in Nat /\ Used \in Nat /\ pos = Used + Len(inbuf)
        BY <1>1
      <4>2. i \in Nat /\ i <= Len(inbuf) + n
        BY <4>1
      <4> QED BY <2>2, <4>1, <4>2
    <3>2. inbuf'[i] = s[j]
      <4>1. ~(i <= Len(inbuf))
        BY <1>1, <2>2
      <4>2. inbuf'[i] = IF i <= Len(inbuf) THEN inbuf[i] ELSE s[i - Len(inbuf)]
        BY <1>5, Zenon
      <4> QED BY <4>1, <4>2, Zenon
    <3> HIDE DEF j
    <3>3. s[j] = file[pos + j]
      BY <1>2, <3>1
    <3> QED BY <3>1, <3>2, <3>3
  <2> QED BY <1>1, <2>1, <2>2
<1>9. inbuf' # <<>> /\ pos' \in 0..Len(file) /\ Len(inbuf') <= pos'
  <2>1. Len(inbuf') # 0
    BY <1>1, <1>4
  <2>2. pos' \in 0..Len(file) /\ Len(inbuf') <= pos'
    BY <1>1, <1>4
  <2> QED BY <2>1, <2>2
<1> QED BY <1>4, <1>6, <1>7, <1>8, <1>9

(* The decoder's output, m bytes behind the first k, with room for r: w of *)
(* them are given out and the others kept.                                 *)
GivenOut(k, m, r, w) ==
  /\ SubSeq(Bytes(k, m), 1, Smaller(r, m)) = Bytes(k, w)
  /\ SubSeq(Bytes(k, m), r + 1, m) = Bytes(k + w, m - w)

(* As many as there is room for.                                           *)
LEMMA OutputFacts ==
  ASSUME NEW k \in Nat, NEW m \in Nat, NEW r \in Nat
  PROVE  GivenOut(k, m, r, Smaller(r, m))
<1>1. CASE r <= m
  <2>1. Smaller(r, m) = r /\ r \in 0..m
    BY <1>1 DEF Smaller
  <2>2. /\ SubSeq(Bytes(k, m), 1, r) = Bytes(k, r)
        /\ SubSeq(Bytes(k, m), r + 1, m) = Bytes(k + r, m - r)
    BY <2>1, SplitBytes, Zenon
  <2> QED BY <2>1, <2>2, Zenon DEF GivenOut
<1>2. CASE r > m
  <2>1. Smaller(r, m) = m /\ m \in 0..m /\ m - m = 0 /\ 0 \in Nat /\ k + m \in Nat
    BY <1>2 DEF Smaller
  <2>2. SubSeq(Bytes(k, m), 1, m) = Bytes(k, m)
    BY <2>1, SplitBytes, Zenon
  <2>3. SubSeq(Bytes(k, m), r + 1, m) = <<>>
    BY <1>2, SubSeqEmpty
  <2>4. Bytes(k + m, 0) = <<>>
    BY DEF Bytes
  <2> QED BY <2>1, <2>2, <2>3, <2>4, Zenon DEF GivenOut
<1>3. r <= m \/ r > m
  OBVIOUS
<1> QED BY <1>1, <1>2, <1>3, Zenon

(* What the smaller of two numbers is.                                     *)
LEMMA SmallerFacts ==
  ASSUME NEW r \in Nat, NEW m \in Nat
  PROVE  /\ Smaller(r, m) \in Nat /\ Smaller(r, m) <= r /\ Smaller(r, m) <= m
         /\ m - Smaller(r, m) \in Nat
         /\ Smaller(r, m) = r \/ Smaller(r, m) = m
BY DEF Smaller

(* How a row of sequences is put together does not matter.                 *)
LEMMA JoinAssoc ==
  ASSUME NEW s \in Seq(Nat), NEW t \in Seq(Nat), NEW u \in Seq(Nat)
  PROVE  (s \o t) \o u = s \o (t \o u)
BY ConcatAssociative

(* What is left of the units.                                              *)
LEMMA UnitsLeft ==
  ASSUME NEW s \in Seq(Unit), NEW k \in 0..Len(s)
  PROVE  /\ SubSeq(s, k + 1, Len(s)) \in Seq(Unit)
         /\ Len(SubSeq(s, k + 1, Len(s))) = Len(s) - k
OBVIOUS

(* Bytes g returned, o in the caller's buffer and w behind the first d are *)
(* the stream from its beginning.                                          *)
Continues(g, o, d, w) == g \o (o \o Bytes(d, w)) = Bytes(0, d + w)

(* Everything returned and in the caller's buffer, followed by more.       *)
LEMMA Continue ==
  ASSUME NEW g \in Seq(Nat), NEW o \in Seq(Nat), NEW d \in Nat, NEW w \in Nat,
         g \o o = Bytes(0, d)
  PROVE  Continues(g, o, d, w)
<1>1. Bytes(d, w) \in Seq(Nat)
  BY BytesFacts
<1>2. g \o (o \o Bytes(d, w)) = (g \o o) \o Bytes(d, w)
  BY <1>1, JoinAssoc, Zenon
<1>3. 0 \in Nat /\ 0 + d = d
  OBVIOUS
<1>4. Bytes(0, d) \o Bytes(0 + d, w) = Bytes(0, d + w)
  BY <1>3, BytesAppend, Zenon
<1> QED BY <1>2, <1>3, <1>4 DEF Continues

(* A call of the decoder that takes k units and gives out what has room.   *)
LEMMA RunFacts ==
  ASSUME CodecReaderAssumption, TypeOK, BufInv, NEW k \in 0..Len(inbuf), DecoderRuns(k),
         UNCHANGED <<file, pos, asked>>, Len(outbuf) <= asked
  PROVE  /\ inbuf' \in Seq(Unit) /\ Len(inbuf') = Len(inbuf) - k /\ Len(inbuf') <= pos'
         /\ Used' = Used + k
         /\ \A i \in 1..Len(inbuf') : inbuf'[i] = file[Used' + i]
         /\ k > 0 => file[Used'] = inbuf[k]
         /\ pend' \in Seq(Nat) /\ Len(pend') <= Expand /\ Len(pend') <= decoded'
         /\ pend' = Bytes(decoded' - Len(pend'), Len(pend'))
         /\ pend' # <<>> => Used' > 0 /\ file[Used'] = "data"
         /\ outbuf' \in Seq(Nat) /\ Len(outbuf') <= asked
         /\ got \o outbuf = Bytes(0, decoded - Len(pend))
              => got \o outbuf' = Bytes(0, decoded' - Len(pend'))
         /\ k = 0 /\ outbuf' = <<>> => asked = 0
         /\ decoded' \in Nat
<1>1. /\ file \in Seq(Unit) /\ Len(file) \in Nat /\ pos \in Nat /\ pos <= Len(file)
      /\ inbuf \in Seq(Unit) /\ Len(inbuf) \in Nat
      /\ Used \in Nat /\ Used + Len(inbuf) = pos
      /\ decoded = Decodes(SubSeq(file, 1, Used)) /\ decoded \in Nat
      /\ pend \in Seq(Nat) /\ Len(pend) \in Nat /\ Len(pend) <= decoded
      /\ outbuf \in Seq(Nat) /\ Len(outbuf) \in Nat /\ asked \in Nat /\ got \in Seq(Nat)
  BY Known
<1>2. k \in Nat /\ Expand \in Nat /\ Used + k \in Nat /\ Used + k <= Len(file)
  BY <1>1
<1> DEFINE D == Decodes(SubSeq(inbuf, 1, k))
           all == pend \o Bytes(decoded, D)
           r == avail_out
           d == decoded - Len(pend)
           m == Len(pend) + D
<1>3. /\ inbuf' = SubSeq(inbuf, k + 1, Len(inbuf))
      /\ outbuf' = outbuf \o SubSeq(all, 1, Smaller(r, Len(all)))
      /\ pend' = SubSeq(all, r + 1, Len(all))
      /\ DecoderTakes(k)
  BY DEF DecoderRuns
<1>4. inbuf' \in Seq(Unit) /\ Len(inbuf') = Len(inbuf) - k
  <2>1. inbuf \in Seq(Unit)
    BY <1>1
  <2>2. /\ SubSeq(inbuf, k + 1, Len(inbuf)) \in Seq(Unit)
        /\ Len(SubSeq(inbuf, k + 1, Len(inbuf))) = Len(inbuf) - k
    BY <2>1, UnitsLeft, Zenon
  <2> QED BY <1>3, <2>2, Zenon
<1>5. Used' = Used + k
  BY <1>1, <1>2, <1>4 DEF Used
<1>6. \A i \in 1..Len(inbuf') : inbuf'[i] = file[Used' + i]
  <2> SUFFICES ASSUME NEW i \in 1..Len(inbuf) - k
               PROVE  inbuf'[i] = file[Used' + i]
    BY <1>4
  <2>1. inbuf'[i] = inbuf[k + i] /\ k + i \in 1..Len(inbuf)
    BY <1>1, <1>2, <1>3
  <2>2. inbuf[k + i] = file[Used + (k + i)] /\ Used + (k + i) = Used' + i
    BY <1>1, <1>2, <1>5, <2>1 DEF BufInv
  <2> QED BY <2>1, <2>2
<1>7. k > 0 => file[Used'] = inbuf[k]
  BY <1>1, <1>2, <1>5 DEF BufInv
<1>8. D \in Nat /\ decoded' = decoded + D
  <2>1. \A i \in 1..k : inbuf[i] = file[Used + i]
    BY <1>1, <1>2 DEF BufInv
  <2>2. /\ D \in Nat
        /\ Decodes(SubSeq(file, 1, Used + k)) = Decodes(SubSeq(file, 1, Used)) + D
    BY <1>1, <1>2, <2>1, DecodesStep
  <2>3. decoded' = Decodes(SubSeq(file, 1, Used'))
    BY DEF decoded, Used
  <2> QED BY <1>1, <1>5, <2>2, <2>3
<1> HIDE DEF D
<1>9. /\ r \in Nat /\ r = asked - Len(outbuf) /\ d \in Nat /\ m \in Nat
      /\ d = decoded - Len(pend) /\ m = Len(pend) + D
  BY <1>1, <1>8 DEF avail_out
<1>10. all = Bytes(d, m) /\ Len(all) = m
  <2>1. pend = Bytes(d, Len(pend)) /\ d + Len(pend) = decoded
    BY <1>1 DEF BufInv
  <2>2. Bytes(d, Len(pend)) \o Bytes(d + Len(pend), D) = Bytes(d, Len(pend) + D)
    <3>1. d \in Nat /\ Len(pend) \in Nat /\ D \in Nat
      BY <1>1, <1>8, <1>9
    <3> HIDE DEF d
    <3> QED BY <3>1, BytesAppend, Zenon
  <2>3. all = Bytes(d, m)
    BY <2>1, <2>2
  <2> QED BY <1>9, <2>3, BytesFacts
<1> HIDE DEF all, r, d, m
<1> DEFINE w == Smaller(r, m)
<1>11. GivenOut(d, m, r, w)
  <2>1. d \in Nat /\ m \in Nat /\ r \in Nat
    BY <1>9
  <2> QED BY <2>1, OutputFacts, Zenon
<1>12. outbuf' = outbuf \o Bytes(d, w) /\ pend' = Bytes(d + w, m - w)
  BY <1>3, <1>10, <1>11 DEF GivenOut
<1>13. w \in Nat /\ d + w \in Nat /\ m - w \in Nat /\ w <= r /\ w <= m /\ (w = r \/ w = m)
  <2>1. d \in Nat /\ m \in Nat /\ r \in Nat
    BY <1>9
  <2>2. w \in Nat /\ m - w \in Nat /\ w <= r /\ w <= m /\ (w = r \/ w = m)
    BY <2>1, SmallerFacts, Zenon
  <2> QED BY <2>1, <2>2
<1> HIDE DEF w
<1>14. /\ Bytes(d, w) \in Seq(Nat) /\ Len(Bytes(d, w)) = w
       /\ pend' \in Seq(Nat) /\ Len(pend') = m - w
  BY <1>9, <1>12, <1>13, BytesFacts
<1>15. outbuf' \in Seq(Nat) /\ Len(outbuf') = Len(outbuf) + w
  BY <1>1, <1>12, <1>14, ConcatFacts
<1>16. decoded' - Len(pend') = d + w /\ Len(pend') <= decoded'
  <2>1. decoded' = (d + Len(pend)) + D /\ Len(pend') = (Len(pend) + D) - w
    BY <1>1, <1>8, <1>9, <1>14
  <2>2. d \in Nat /\ Len(pend) \in Nat /\ D \in Nat /\ w \in Nat /\ w <= Len(pend) + D
    BY <1>1, <1>8, <1>9, <1>13
  <2> QED BY <2>1, <2>2
<1>17. Len(outbuf') <= asked
  BY <1>1, <1>9, <1>13, <1>15
<1>18. got \o outbuf = Bytes(0, decoded - Len(pend))
         => got \o outbuf' = Bytes(0, decoded' - Len(pend'))
  <2>1. got \o outbuf = Bytes(0, d) => got \o (outbuf \o Bytes(d, w)) = Bytes(0, d + w)
    <3> SUFFICES ASSUME got \o outbuf = Bytes(0, d)
                 PROVE  Continues(got, outbuf, d, w)
      BY DEF Continues
    <3>1. got \in Seq(Nat) /\ outbuf \in Seq(Nat) /\ d \in Nat /\ w \in Nat
      BY <1>1, <1>9, <1>13
    <3> QED BY <3>1, Continue, Zenon
  <2> QED BY <1>9, <1>12, <1>16, <2>1
<1>19. Len(pend') <= Expand /\ (pend' # <<>> => Used' > 0 /\ file[Used'] = "data")
  <2>1. CASE k = 0
    <3>1. D = 0
      <4>1. SubSeq(inbuf, 1, 0) = <<>>
        BY SubSeqEmpty
      <4>2. {i \in DOMAIN <<>> : <<>>[i] = "data"} = {}
        OBVIOUS
      <4>3. Cardinality({}) = 0
        BY FS_EmptySet
      <4>4. Decodes(<<>>) = Expand * 0
        BY <4>2, <4>3 DEF Decodes
      <4>5. D = Expand * 0
        BY <2>1, <4>1, <4>4 DEF D
      <4> QED BY <1>2, <4>5
    <3>2. Len(pend') <= Len(pend)
      BY <1>1, <1>9, <1>13, <1>14, <3>1
    <3>3. Len(pend) <= Expand
      BY DEF TypeOK
    <3>4. pend # <<>>
      BY <1>3, <2>1 DEF DecoderTakes
    <3>5. Used' = Used /\ Used > 0 /\ file[Used] = "data"
      BY <1>1, <1>5, <2>1, <3>4 DEF BufInv
    <3> QED BY <1>1, <1>2, <1>14, <3>2, <3>3, <3>5
  <2>2. CASE k > 0
    <3> DEFINE b == Decodes(SubSeq(inbuf, 1, k - 1))
    <3>1. k \in 1..Len(inbuf)
      BY <1>2, <2>2
    <3>2. b \in Nat /\ D = b + (IF inbuf[k] = "data" THEN Expand ELSE 0)
      BY <1>1, <3>1, DecodesLast DEF D
    <3>3. Len(pend) + b <= r
      BY <1>3, <2>2 DEF DecoderTakes, r
    <3> HIDE DEF b
    <3>4. Len(pend') <= Expand /\ (inbuf[k] # "data" => Len(pend') = 0)
      <4>1. Len(pend') = m - w /\ m = Len(pend) + D /\ w \in Nat /\ r \in Nat
            /\ (w = r \/ w = m)
        BY <1>9, <1>13, <1>14
      <4>2. Len(pend) \in Nat /\ Expand \in Nat /\ b \in Nat
        BY <1>1, <1>2, <3>2
      <4>3. CASE inbuf[k] = "data"
        <5>1. D = b + Expand
          BY <3>2, <4>3
        <5> QED BY <3>3, <4>1, <4>2, <4>3, <5>1
      <4>4. CASE inbuf[k] # "data"
        <5>1. D = b + 0
          BY <3>2, <4>4
        <5>2. Len(pend') <= 0 /\ m \in Nat /\ Len(pend') \in Nat
          BY <1>14, <3>3, <4>1, <4>2, <5>1
        <5> QED BY <4>2, <5>2
      <4> QED BY <4>3, <4>4
    <3>5. pend' # <<>> => Len(pend') # 0
      BY <1>14
    <3> QED BY <1>1, <1>2, <1>5, <1>7, <2>2, <3>4, <3>5
  <2> QED BY <1>2, <2>1, <2>2
<1>20. k = 0 /\ outbuf' = <<>> => asked = 0
  <2> SUFFICES ASSUME k = 0, outbuf' = <<>>
               PROVE  asked = 0
    OBVIOUS
  <2>1. Len(pend) # 0
    BY <1>1, <1>3 DEF DecoderTakes
  <2>2. Len(outbuf) = 0 /\ w = 0
    BY <1>1, <1>13, <1>15
  <2>3. m # 0
    BY <1>1, <1>8, <1>9, <2>1
  <2> QED BY <1>1, <1>9, <1>13, <2>2, <2>3
<1>21. pend' = Bytes(decoded' - Len(pend'), Len(pend'))
  BY <1>12, <1>14, <1>16
<1>22. Len(inbuf') <= pos'
  BY <1>1, <1>2, <1>4
<1>23. decoded' \in Nat
  BY <1>1, <1>8
<1> QED BY <1>4, <1>5, <1>6, <1>7, <1>14, <1>15, <1>16, <1>17, <1>18, <1>19, <1>20, <1>21,
           <1>22, <1>23, Zenon

(* What is returned is the stream from its beginning, whether the call     *)
(* returns its data or an error instead.                                   *)
LEMMA ReadReturnFacts ==
  ASSUME NEW n \in Int, NEW out \in Seq(Nat), NEW why, ReturnWith(n, out, why),
         got \in Seq(Nat)
  PROVE  /\ ret' = n /\ pc' = "idle" /\ got' \in Seq(Nat)
         /\ n <= 0 => got' = got
         /\ n > 0 => got' = got \o out
         /\ trouble \subseteq trouble' /\ why \subseteq trouble'
         /\ n < 0 => trouble' = (trouble \cup why) \cup {"reported"}
         /\ n >= 0 => trouble' = trouble \cup why
BY ConcatFacts DEF ReturnWith

(* A beginning of the stream is in order.                                  *)
LEMMA BeginningInOrder ==
  ASSUME NEW g \in Seq(Nat), NEW o \in Seq(Nat), NEW d \in Nat, g \o o = Bytes(0, d)
  PROVE  InOrder(g)
<1>1. Len(Bytes(0, d)) = d /\ \A i \in 1..d : Bytes(0, d)[i] = 0 + i
  BY BytesFacts
<1>2. Len(g \o o) = Len(g) + Len(o) /\ \A i \in 1..Len(g) : (g \o o)[i] = g[i]
  OBVIOUS
<1>3. Len(g) \in Nat /\ Len(o) \in Nat
  OBVIOUS
<1> QED BY <1>1, <1>2, <1>3 DEF InOrder

(* No bytes.                                                               *)
LEMMA EmptyBytes ==
  ASSUME NEW s \in Seq(Nat)
  PROVE  s = <<>> <=> Len(s) = 0
OBVIOUS

(* What a step that takes nothing from the parent and decodes nothing      *)
(* leaves as it was.                                                       *)
LEMMA Quiet ==
  ASSUME BufInv, UNCHANGED <<codec, file, pos, inbuf, pend, outbuf, asked>>,
         inbuf_index' = inbuf_index \/ codec = "zstd_lz4",
         pc' \in InCall => pc \in InCall
  PROVE  /\ BufInv' /\ Used' = Used /\ decoded' = decoded
         /\ (AtEnd' <=> AtEnd) /\ EndRecognised' = EndRecognised
<1>1. Used' = Used
  BY DEF Used
<1>2. decoded' = decoded
  BY DEF decoded
<1>3. AtEnd' <=> AtEnd
  BY <1>1 DEF AtEnd
<1>4. EndRecognised' = EndRecognised
  BY DEF EndRecognised
<1>5. BufInv'
  BY <1>1, <1>2 DEF BufInv
<1> QED BY <1>1, <1>2, <1>3, <1>4, <1>5

(* What a call that returns its data, or an error in their place, leaves   *)
(* the caller with.                                                        *)
LEMMA ReturnOut ==
  ASSUME NEW n \in Int, NEW out \in Seq(Nat), NEW why, NEW d \in Nat, ReturnWith(n, out, why),
         got \in Seq(Nat), codec' = codec, decoded' - Len(pend') = d,
         Clean => got \o out = Bytes(0, d),
         n = Len(out) \/ (n = -1 /\ (err' = "ERROR" \/ codec = "zstd_lz4"))
  PROVE  OutInv'
<1>1. /\ ret' = n /\ pc' = "idle" /\ got' \in Seq(Nat)
      /\ n <= 0 => got' = got
      /\ n > 0 => got' = got \o out
      /\ trouble \subseteq trouble' /\ why \subseteq trouble'
      /\ n < 0 => trouble' = (trouble \cup why) \cup {"reported"}
  BY ReadReturnFacts
<1>2. Clean' => Clean
  BY <1>1 DEF Clean
<1>3. pc' \notin InCall
  BY <1>1 DEF InCall
<1> SUFFICES ASSUME Clean'
             PROVE  InOrder(got') /\ (err' # "ERROR" \/ ret' >= 0 => got' = Bytes(0, d))
  BY <1>3 DEF OutInv
<1>4. got \o out = Bytes(0, d)
  BY <1>2
<1>5. CASE n = Len(out)
  <2>1. got' = got \o out
    <3>1. CASE n > 0
      BY <1>1, <3>1
    <3>2. CASE n = 0
      <4>1. out = <<>>
        BY <1>5, <3>2, EmptyBytes
      <4>2. got \o <<>> = got
        OBVIOUS
      <4> QED BY <1>1, <3>2, <4>1, <4>2
    <3> QED BY <1>5, <3>1, <3>2
  <2>2. got' = Bytes(0, d)
    BY <1>4, <2>1
  <2>3. InOrder(got')
    <3>1. 0 \in Nat
      OBVIOUS
    <3>2. Len(Bytes(0, d)) = d
      BY <3>1, BytesFacts
    <3>3. got' = Bytes(0, Len(got'))
      BY <2>2, <3>2
    <3> QED BY <1>1, <3>3, InOrderBytes
  <2> QED BY <2>2, <2>3
<1>6. CASE n = -1 /\ (err' = "ERROR" \/ codec = "zstd_lz4")
  <2>1. err' = "ERROR"
    BY <1>1, <1>6 DEF Clean
  <2>2. got' = got /\ ~(ret' >= 0)
    BY <1>1, <1>6
  <2>3. InOrder(got)
    BY <1>4, BeginningInOrder
  <2> QED BY <2>1, <2>2, <2>3
<1> QED BY <1>5, <1>6

(* The types of what a return assigns.                                     *)
LEMMA ReturnType ==
  ASSUME NEW n \in -1..MaxReadLen, NEW out \in Seq(Nat),
         NEW why \in SUBSET {"parent", "reported", "split", "empty"},
         ReturnWith(n, out, why), TypeOK
  PROVE  /\ ret' \in -1..MaxReadLen /\ got' \in Seq(Nat) /\ pc' = "idle" /\ ret' = n
         /\ trouble' \subseteq {"parent", "reported", "split", "empty"}
         /\ trouble \subseteq trouble' /\ why \subseteq trouble'
         /\ n = -1 => "reported" \in trouble'
<1>1. got \in Seq(Nat) /\ trouble \subseteq {"parent", "reported", "split", "empty"}
  BY DEF TypeOK
<1>2. got' \in Seq(Nat)
  BY <1>1, ConcatFacts DEF ReturnWith
<1> QED BY <1>1, <1>2 DEF ReturnWith
-----------------------------------------------------------------------------
(* The head of a read.                                                     *)
LEMMA StartReadInv ==
  ASSUME CodecReaderAssumption, ReaderInv, NEW n \in 0..MaxReadLen, NEW loop,
         StartRead(n, loop),
         \/ codec = "zstd_lz4" /\ loop = "outer"
         \/ codec # "zstd_lz4" /\ loop = "loop"
  PROVE  ReaderInv'
<1> USE DEF ReaderInv
<1>0. /\ pc = "idle" /\ asked' = n /\ outbuf' = <<>>
      /\ UNCHANGED <<codec, file, pos, inbuf, pend, inbuf_index, dec, err, sincelastend>>
  BY DEF StartRead, parent, decoder
<1>1. Used' = Used /\ decoded' = decoded /\ (AtEnd' <=> AtEnd) /\ EndRecognised' = EndRecognised
  BY <1>0 DEF Used, decoded, AtEnd, EndRecognised
<1>2. \/ err = "EOF" /\ Return(0)
      \/ err = "ERROR" /\ Return(-1)
      \/ err = "OK" /\ pc' = loop /\ UNCHANGED <<ret, got, trouble>>
  BY DEF StartRead
<1>3. /\ outbuf \in Seq(Nat) /\ got \in Seq(Nat) /\ decoded - Len(pend) \in Nat
      /\ MaxReadLen \in Nat /\ Len(<<>>) = 0 /\ n \in Nat /\ n <= MaxReadLen
  BY Known
<1>4. /\ got' = got /\ got \in Seq(Nat) /\ trouble \subseteq trouble'
      /\ trouble' \subseteq {"parent", "reported", "split", "empty"}
      /\ \/ err = "EOF" /\ pc' = "idle" /\ ret' = 0 /\ trouble' = trouble
         \/ err = "ERROR" /\ pc' = "idle" /\ ret' = -1 /\ "reported" \in trouble'
         \/ err = "OK" /\ pc' = loop /\ ret' = ret /\ trouble' = trouble
  <2>1. trouble \subseteq {"parent", "reported", "split", "empty"}
    BY DEF TypeOK
  <2>2. CASE err = "EOF" /\ Return(0)
    BY <1>3, <2>1, <2>2 DEF Return, ReturnWith
  <2>3. CASE err = "ERROR" /\ Return(-1)
    BY <1>3, <2>1, <2>3 DEF Return, ReturnWith
  <2>4. CASE err = "OK" /\ pc' = loop /\ UNCHANGED <<ret, got, trouble>>
    BY <1>3, <2>1, <2>4
  <2> QED BY <1>2, <2>2, <2>3, <2>4, Zenon
<1>5. TypeOK'
  <2>1. ret' \in -1..MaxReadLen
    BY <1>3, <1>4 DEF TypeOK
  <2>2. pc' \in {"idle", "loop", "outer", "fill", "frame", "closed"}
    BY <1>4
  <2>3. inbuf_len' = inbuf_len
    BY <1>0 DEF inbuf_len
  <2> QED BY <1>0, <1>3, <1>4, <2>1, <2>2, <2>3 DEF TypeOK
<1>6. BufInv'
  <2>1. outbuf' \in Seq(Nat)
        /\ (pc' \in InCall => Len(outbuf') <= asked' /\ asked' <= MaxReadLen)
    BY <1>0, <1>3
  <2> QED BY <1>0, <1>1, <2>1 DEF BufInv
<1>7. OutInv'
  <2>1. Clean' => Clean
    BY <1>0, <1>4 DEF Clean
  <2>2. pc \notin InCall
    BY <1>0 DEF InCall
  <2>3. Clean => InOrder(got) /\ (err # "ERROR" => got = Bytes(0, decoded - Len(pend)))
    BY <2>2 DEF OutInv
  <2>4. got \o <<>> = got
    BY <1>3
  <2>5. pc' \in InCall => err # "ERROR"
    BY <1>4 DEF InCall
  <2>6. err = "ERROR" => ~(ret' >= 0)
    BY <1>4
  <2> QED BY <1>0, <1>1, <1>4, <2>1, <2>3, <2>4, <2>5, <2>6 DEF OutInv
<1>8. ControlInv'
  <2>1. pc' \in {"idle", "loop", "outer"} /\ (pc' = "loop" => codec # "zstd_lz4")
        /\ (pc' = "outer" => codec = "zstd_lz4" /\ err = "OK")
    BY <1>4
  <2>2. inbuf_len' = inbuf_len
    BY <1>0 DEF inbuf_len
  <2> QED BY <1>0, <1>1, <2>1, <2>2 DEF ControlInv
<1>9. EndInv'
  <2>1. pc' = "idle" /\ ret' = 0 => err = "EOF"
    BY <1>4
  <2> QED BY <1>0, <1>1, <2>1 DEF EndInv
<1>10. ReaderErrorInv'
  <2>1. pc' = "loop" => err = "OK"
    BY <1>4
  <2>2. pc' = "idle" /\ ret' = -1 => err = "ERROR"
    BY <1>4
  <2>3. err = "ERROR" /\ file \in WholeFiles
          => "parent" \in trouble' \/ (codec = "zstd_lz4" /\ "empty" \in trouble')
    BY <1>4 DEF ReaderErrorInv
  <2>4. NoSpuriousError'
    BY <1>0, <2>2, <2>3 DEF NoSpuriousError, WholeFiles
  <2>5. pc' = "loop" => err' = "OK"
    BY <1>0, <2>1
  <2>6. err' = "ERROR" /\ file' \in WholeFiles
          => "parent" \in trouble' \/ (codec' = "zstd_lz4" /\ "empty" \in trouble')
    BY <1>0, <2>3
  <2> QED BY <2>4, <2>5, <2>6 DEF ReaderErrorInv
<1> QED BY <1>5, <1>6, <1>7, <1>8, <1>9, <1>10

(* The end of the handle.                                                  *)
LEMMA CloseReaderInv ==
  ASSUME ReaderInv, CloseReader
  PROVE  ReaderInv'
<1> USE DEF ReaderInv
<1>0. /\ pc = "idle" /\ pc' = "closed"
      /\ UNCHANGED <<codec, file, pos, inbuf, pend, inbuf_index, dec, err, sincelastend,
                     asked, outbuf, ret, got, trouble>>
  BY DEF CloseReader, parent, decoder, call
<1>1. pc \notin InCall /\ pc' \notin InCall
  BY <1>0 DEF InCall
<1>2. BufInv' /\ Used' = Used /\ decoded' = decoded /\ (AtEnd' <=> AtEnd)
      /\ EndRecognised' = EndRecognised
  BY <1>0, <1>1, Quiet
<1>3. TypeOK'
  BY <1>0 DEF TypeOK, inbuf_len
<1>4. OutInv'
  BY <1>0, <1>1, <1>2 DEF OutInv, Clean
<1>5. ControlInv'
  BY <1>0, <1>2 DEF ControlInv, inbuf_len
<1>6. EndInv'
  BY <1>0, <1>2 DEF EndInv
<1>7. ReaderErrorInv'
  BY <1>0 DEF ReaderErrorInv, NoSpuriousError
<1> QED BY <1>2, <1>3, <1>4, <1>5, <1>6, <1>7

(* The reads of one loop: the parent supplies units.                       *)
LEMMA RefillInv ==
  ASSUME CodecReaderAssumption, ReaderInv, Refill
  PROVE  ReaderInv'
<1> USE DEF ReaderInv
<1>0. /\ pc = "loop" /\ Len(inbuf) = 0
      /\ UNCHANGED <<codec, file, pend, inbuf_index, dec, err, pc, asked, outbuf, ret, got,
                     trouble>>
  BY DEF Refill, MustRefill, call
<1>1. PICK n \in 1..BUFFER_SIZE :
         /\ pos + n <= Len(file)
         /\ inbuf' = SubSeq(file, pos + 1, pos + n)
         /\ pos' = pos + n
         /\ sincelastend' = sincelastend + n
  BY DEF Refill
<1>2. codec # "zstd_lz4" /\ inbuf_index = 0
  BY <1>0 DEF ControlInv, BufInv
<1>3. /\ file \in Seq(Unit) /\ pos \in Nat /\ inbuf \in Seq(Unit) /\ sincelastend \in Nat
      /\ Len(inbuf) \in Nat /\ Used + Len(inbuf) = pos /\ Used \in Nat
  BY Known DEF TypeOK
<1>4. n \in Nat /\ n > 0 /\ n <= BUFFER_SIZE /\ BUFFER_SIZE \in Nat
  OBVIOUS
<1>5. inbuf' = inbuf \o SubSeq(file, pos + 1, pos + n)
  <2>1. inbuf = <<>>
    BY <1>0, <1>3
  <2>2. SubSeq(file, pos + 1, pos + n) \in Seq(Unit)
    BY <1>1, <1>3, <1>4
  <2>3. <<>> \o SubSeq(file, pos + 1, pos + n) = SubSeq(file, pos + 1, pos + n)
    BY <2>2
  <2> QED BY <1>1, <2>1, <2>3
<1>6. /\ inbuf' \in Seq(Unit) /\ Len(inbuf') = Len(inbuf) + n /\ inbuf' # <<>>
      /\ pos' \in 0..Len(file) /\ Len(inbuf') <= pos'
      /\ Used' = Used /\ decoded' = decoded
      /\ \A i \in 1..Len(inbuf') : inbuf'[i] = file[Used + i]
  BY <1>0, <1>1, <1>4, <1>5, SupplyFacts
<1>7. TypeOK'
  <2>1. inbuf_len' <= (IF codec' = "zstd_lz4" THEN INBUF_SIZE ELSE BUFFER_SIZE)
    BY <1>0, <1>2, <1>4, <1>6 DEF inbuf_len
  <2>2. sincelastend' \in Nat
    BY <1>1, <1>3, <1>4
  <2> QED BY <1>0, <1>6, <2>1, <2>2 DEF TypeOK
<1>8. BufInv'
  BY <1>0, <1>6 DEF BufInv
<1>9. OutInv'
  BY <1>0, <1>6 DEF OutInv, Clean
<1>10. ControlInv'
  BY <1>0, <1>2 DEF ControlInv
<1>11. EndInv'
  <2>1. sincelastend' > 0
    BY <1>1, <1>3, <1>4
  <2>2. AtEnd' <=> AtEnd
    BY <1>0, <1>6 DEF AtEnd
  <2>3. EndRecognised' = EndRecognised
    BY <1>0 DEF EndRecognised
  <2> QED BY <1>0, <1>6, <2>1, <2>2, <2>3 DEF EndInv
<1>12. ReaderErrorInv'
  BY <1>0 DEF ReaderErrorInv, NoSpuriousError
<1> QED BY <1>7, <1>8, <1>9, <1>10, <1>11, <1>12

(* What EndRecognised means for a file with nothing bad.                   *)
LEMMA Recognised ==
  ASSUME CodecReaderAssumption, TypeOK, file \in EndRecognised
  PROVE  /\ file \in WholeFiles \/ (codec = "zlib" /\ file \in CutFirst)
         /\ codec = "lzma" => file \in Members
         /\ \A i \in 1..Len(file) : file[i] # "bad"
<1>1. codec \in {"zlib", "bzip", "lzma", "zstd_lz4"}
  BY DEF TypeOK
<1>2. CASE codec = "zlib"
  <2>1. EndRecognised = Members \cup Concatenated \cup CutFirst
    BY <1>2 DEF EndRecognised
  <2> QED BY <1>2, <2>1, WholeFacts, CutFacts DEF WholeFiles
<1>3. CASE codec = "lzma"
  <2>1. EndRecognised = Members
    BY <1>3 DEF EndRecognised
  <2> QED BY <1>3, <2>1, WholeFacts DEF WholeFiles
<1>4. CASE codec \notin {"zlib", "lzma"}
  <2>1. EndRecognised = Members \cup Concatenated
    BY <1>4 DEF EndRecognised
  <2> QED BY <1>4, <2>1, WholeFacts DEF WholeFiles
<1> QED BY <1>1, <1>2, <1>3, <1>4

(* A complete file of which everything is decoded stops at an end.         *)
LEMMA WholeAtEnd ==
  ASSUME CodecReaderAssumption, Used = Len(file), file \in WholeFiles
  PROVE  AtEnd /\ Used > 0 /\ file[Used] = "end"
BY WholeFacts DEF AtEnd

(* The parent is at its end.                                               *)
LEMMA RefillEofInv ==
  ASSUME CodecReaderAssumption, ReaderInv, RefillEof
  PROVE  ReaderInv'
<1> USE DEF ReaderInv
<1>0. /\ pc = "loop" /\ Len(inbuf) = 0 /\ err = "OK" /\ pos = Len(file) /\ ParentEof
      /\ UNCHANGED <<codec, file, pos, inbuf, pend, inbuf_index, dec, sincelastend, asked,
                     outbuf>>
  BY DEF RefillEof, MustRefill, GoesOn, parent, decoder
<1>1. /\ outbuf \in Seq(Nat) /\ Len(outbuf) \in Nat /\ got \in Seq(Nat)
      /\ decoded - Len(pend) \in Nat /\ inbuf \in Seq(Unit) /\ Used + Len(inbuf) = pos
      /\ Used \in Nat
  BY Known
<1>2. pc \in InCall /\ Len(outbuf) <= MaxReadLen /\ MaxReadLen \in Nat /\ codec # "zstd_lz4"
  BY <1>0 DEF InCall, TypeOK, ControlInv
<1>3. Used = Len(file) /\ inbuf = <<>>
  BY <1>0, <1>1
<1>4. /\ \/ codec = "zlib" /\ sincelastend > 0 /\ err' = "ERROR" /\ Return(-1)
         \/ /\ codec = "zlib" => sincelastend = 0
            /\ err' \in {"OK", "EOF"} /\ Return(Len(outbuf))
  BY <1>0, <1>1 DEF ParentEof, zlib_eof, bz_eof, lzma_eof
<1>5. PICK n \in -1..MaxReadLen :
         /\ Return(n)
         /\ \/ codec = "zlib" /\ sincelastend > 0 /\ err' = "ERROR" /\ n = -1
            \/ (codec = "zlib" => sincelastend = 0) /\ err' \in {"OK", "EOF"} /\ n = Len(outbuf)
  <2>1. -1 \in -1..MaxReadLen /\ Len(outbuf) \in -1..MaxReadLen
    BY <1>1, <1>2
  <2> QED BY <1>4, <2>1, Zenon
<1>6. ReturnWith(n, outbuf, {}) /\ n \in Int
      /\ {} \in SUBSET {"parent", "reported", "split", "empty"}
  BY <1>2, <1>5 DEF Return
<1>7. /\ ret' \in -1..MaxReadLen /\ got' \in Seq(Nat) /\ pc' = "idle" /\ ret' = n
      /\ trouble' \subseteq {"parent", "reported", "split", "empty"}
      /\ trouble \subseteq trouble'
  BY <1>1, <1>6, ReturnType
<1>8. pc' \notin InCall
  BY <1>7 DEF InCall
<1>9. BufInv' /\ Used' = Used /\ decoded' = decoded /\ (AtEnd' <=> AtEnd)
      /\ EndRecognised' = EndRecognised
  BY <1>0, <1>8, Quiet
<1>10. TypeOK'
  <2>1. err' \in {"OK", "EOF", "ERROR"}
    BY <1>5
  <2>2. inbuf_len' = inbuf_len
    BY <1>0 DEF inbuf_len
  <2> QED BY <1>0, <1>7, <2>1, <2>2 DEF TypeOK
<1>11. OutInv'
  <2>1. Clean => got \o outbuf = Bytes(0, decoded - Len(pend))
    BY <1>2 DEF OutInv
  <2>2. decoded' - Len(pend') = decoded - Len(pend)
    BY <1>0, <1>9
  <2>3. n = Len(outbuf) \/ (n = -1 /\ (err' = "ERROR" \/ codec = "zstd_lz4"))
    BY <1>5
  <2> QED BY <1>0, <1>1, <1>6, <2>1, <2>2, <2>3, ReturnOut
<1>12. ControlInv'
  BY <1>0, <1>2, <1>7 DEF ControlInv
<1>13. file \in WholeFiles => AtEnd /\ Used > 0 /\ file[Used] = "end"
  BY <1>3, WholeAtEnd
<1>14. EndInv'
  <2>1. (err' = "EOF" \/ ret' = 0) /\ file \in EndRecognised => AtEnd
    <3> SUFFICES ASSUME err' = "EOF" \/ ret' = 0, file \in EndRecognised
                 PROVE  AtEnd
      OBVIOUS
    <3>1. codec = "zlib" => sincelastend = 0
      BY <1>5, <1>7
    <3>2. file \in WholeFiles \/ (codec = "zlib" /\ file \in CutFirst)
      BY Recognised
    <3>3. ~(codec = "zlib" /\ file \in CutFirst)
      BY <3>1 DEF EndInv
    <3> QED BY <1>13, <3>2, <3>3
  <2> QED BY <1>0, <1>9, <2>1 DEF EndInv
<1>15. ReaderErrorInv'
  <2>1. err' = "ERROR" \/ ret' = -1 => file \notin WholeFiles
    <3> SUFFICES ASSUME err' = "ERROR" \/ ret' = -1, file \in WholeFiles
                 PROVE  FALSE
      OBVIOUS
    <3>1. codec = "zlib" /\ sincelastend > 0
      BY <1>1, <1>5, <1>7
    <3>2. sincelastend = 0
      BY <1>3, <1>13, <3>1 DEF EndInv
    <3> QED BY <3>1, <3>2
  <2>2. NoSpuriousError'
    BY <1>0, <2>1 DEF NoSpuriousError, WholeFiles
  <2>3. err' = "ERROR" => file' \notin WholeFiles
    BY <1>0, <2>1
  <2> QED BY <1>7, <2>2, <2>3 DEF ReaderErrorInv
<1> QED BY <1>9, <1>10, <1>11, <1>12, <1>14, <1>15

(* The parent fails.                                                       *)
LEMMA RefillFailsInv ==
  ASSUME CodecReaderAssumption, ReaderInv, RefillFails
  PROVE  ReaderInv'
<1> USE DEF ReaderInv
<1>0. /\ pc = "loop" /\ err' = "ERROR" /\ ReturnWith(FailResult, outbuf, {"parent"})
      /\ UNCHANGED <<codec, file, pos, inbuf, pend, inbuf_index, dec, sincelastend, asked,
                     outbuf>>
  BY DEF RefillFails, parent, decoder
<1>1. /\ outbuf \in Seq(Nat) /\ Len(outbuf) \in Nat /\ got \in Seq(Nat)
      /\ decoded - Len(pend) \in Nat
  BY Known
<1>2. pc \in InCall /\ Len(outbuf) <= MaxReadLen /\ MaxReadLen \in Nat /\ codec # "zstd_lz4"
  BY <1>0 DEF InCall, TypeOK, ControlInv
<1> DEFINE n == FailResult
<1>3. n \in -1..MaxReadLen /\ n \in Int /\ n # 0 /\ (n = Len(outbuf) \/ n = -1)
  BY <1>1, <1>2 DEF FailResult
<1> HIDE DEF n
<1>4. ReturnWith(n, outbuf, {"parent"})
      /\ {"parent"} \in SUBSET {"parent", "reported", "split", "empty"}
  BY <1>0 DEF n
<1>5. /\ ret' \in -1..MaxReadLen /\ got' \in Seq(Nat) /\ pc' = "idle" /\ ret' = n
      /\ trouble' \subseteq {"parent", "reported", "split", "empty"}
      /\ trouble \subseteq trouble' /\ {"parent"} \subseteq trouble'
  BY <1>1, <1>3, <1>4, ReturnType
<1>6. pc' \notin InCall
  BY <1>5 DEF InCall
<1>7. BufInv' /\ Used' = Used /\ decoded' = decoded /\ (AtEnd' <=> AtEnd)
      /\ EndRecognised' = EndRecognised
  BY <1>0, <1>6, Quiet
<1>8. TypeOK'
  <2>1. inbuf_len' = inbuf_len
    BY <1>0 DEF inbuf_len
  <2> QED BY <1>0, <1>5, <2>1 DEF TypeOK
<1>9. OutInv'
  <2>1. Clean => got \o outbuf = Bytes(0, decoded - Len(pend))
    BY <1>2 DEF OutInv
  <2>2. decoded' - Len(pend') = decoded - Len(pend)
    BY <1>0, <1>7
  <2>3. n = Len(outbuf) \/ (n = -1 /\ (err' = "ERROR" \/ codec = "zstd_lz4"))
    BY <1>0, <1>3
  <2> QED BY <1>0, <1>1, <1>3, <1>4, <2>1, <2>2, <2>3, ReturnOut
<1>10. ControlInv'
  BY <1>0, <1>2, <1>5 DEF ControlInv
<1>11. EndInv'
  BY <1>0, <1>3, <1>5, <1>7 DEF EndInv
<1>12. ReaderErrorInv'
  BY <1>5 DEF ReaderErrorInv, NoSpuriousError
<1> QED BY <1>7, <1>8, <1>9, <1>10, <1>11, <1>12

(* What the decoder's result says of the last unit it took.                *)
LEMMA CodeFacts ==
  ASSUME NEW k \in Nat
  PROVE  /\ DecoderCode(k) \in {"OK", "END", "DATA_ERROR"}
         /\ DecoderCode(k) = "END" <=> (k > 0 /\ inbuf[k] = "end")
         /\ DecoderCode(k) = "DATA_ERROR" <=> (k > 0 /\ inbuf[k] = "bad")
<1>1. CASE k > 0 /\ inbuf[k] = "end"
  BY <1>1 DEF DecoderCode
<1>2. CASE k > 0 /\ inbuf[k] = "bad"
  BY <1>2 DEF DecoderCode
<1>3. CASE ~(k > 0 /\ inbuf[k] = "end") /\ ~(k > 0 /\ inbuf[k] = "bad")
  BY <1>3 DEF DecoderCode
<1> QED BY <1>1, <1>2, <1>3

(* What the readers of one loop make of it.                                *)
LEMMA AfterFacts ==
  ASSUME NEW code \in {"OK", "END", "DATA_ERROR"}
  PROVE  /\ AfterDecode(code) \in {"OK", "EOF", "ERROR"}
         /\ AfterDecode(code) = "EOF" <=> (code = "END" /\ codec = "lzma")
         /\ AfterDecode(code) = "ERROR" <=> code = "DATA_ERROR"
<1>1. CASE code = "OK"
  BY <1>1 DEF AfterDecode
<1>2. CASE code = "END"
  BY <1>2 DEF AfterDecode
<1>3. CASE code = "DATA_ERROR"
  BY <1>3 DEF AfterDecode
<1> QED BY <1>1, <1>2, <1>3

(* The decoder runs.                                                       *)
LEMMA DecodeInv ==
  ASSUME CodecReaderAssumption, ReaderInv, Decode
  PROVE  ReaderInv'
<1> USE DEF ReaderInv
<1>0. /\ pc = "loop" /\ err = "OK" /\ Len(inbuf) # 0
      /\ UNCHANGED <<codec, file, pos, inbuf_index, dec, pc, asked, ret, got, trouble>>
  BY DEF Decode, GoesOn, MustRefill, parent
<1>1. PICK k \in 0..Len(inbuf) :
         /\ DecoderRuns(k)
         /\ err' = AfterDecode(DecoderCode(k))
         /\ sincelastend' = IF DecoderCode(k) = "END" THEN 0 ELSE sincelastend
  BY DEF Decode
<1>2. /\ codec # "zstd_lz4" /\ inbuf_index = 0 /\ pc \in InCall
      /\ Len(outbuf) <= asked /\ asked <= MaxReadLen
  BY <1>0 DEF ControlInv, BufInv, InCall
<1>3. /\ file \in Seq(Unit) /\ Len(file) \in Nat /\ pos \in Nat /\ pos <= Len(file)
      /\ inbuf \in Seq(Unit)
      /\ sincelastend \in Nat /\ asked \in Nat
      /\ Len(inbuf) \in Nat /\ Used + Len(inbuf) = pos /\ Used \in Nat
  BY Known DEF TypeOK
<1>4. k \in Nat /\ k <= Len(inbuf)
  BY <1>3
<1>5. /\ inbuf' \in Seq(Unit) /\ Len(inbuf') = Len(inbuf) - k /\ Len(inbuf') <= pos'
      /\ Used' = Used + k
      /\ \A i \in 1..Len(inbuf') : inbuf'[i] = file[Used' + i]
      /\ k > 0 => file[Used'] = inbuf[k]
      /\ pend' \in Seq(Nat) /\ Len(pend') <= Expand /\ Len(pend') <= decoded'
      /\ pend' = Bytes(decoded' - Len(pend'), Len(pend'))
      /\ pend' # <<>> => Used' > 0 /\ file[Used'] = "data"
      /\ outbuf' \in Seq(Nat) /\ Len(outbuf') <= asked
      /\ got \o outbuf = Bytes(0, decoded - Len(pend))
           => got \o outbuf' = Bytes(0, decoded' - Len(pend'))
  BY <1>0, <1>1, <1>2, RunFacts
<1>6. /\ DecoderCode(k) \in {"OK", "END", "DATA_ERROR"}
      /\ DecoderCode(k) = "END" <=> (k > 0 /\ inbuf[k] = "end")
      /\ DecoderCode(k) = "DATA_ERROR" <=> (k > 0 /\ inbuf[k] = "bad")
  BY <1>4, CodeFacts
<1>7. /\ err' \in {"OK", "EOF", "ERROR"}
      /\ err' = "EOF" <=> (DecoderCode(k) = "END" /\ codec = "lzma")
      /\ err' = "ERROR" <=> DecoderCode(k) = "DATA_ERROR"
  BY <1>1, <1>6, AfterFacts
<1>8. k > 0 => Used' \in 1..Len(file)
  BY <1>3, <1>4, <1>5
<1>9. TypeOK'
  <2>1. inbuf_len' <= (IF codec' = "zstd_lz4" THEN INBUF_SIZE ELSE BUFFER_SIZE)
    <3>1. Len(inbuf) <= BUFFER_SIZE
      BY <1>2, <1>3 DEF TypeOK, inbuf_len
    <3>2. inbuf_len' = Len(inbuf) - k
      BY <1>0, <1>2, <1>3, <1>4, <1>5 DEF inbuf_len
    <3> QED BY <1>0, <1>2, <1>3, <1>4, <3>1, <3>2
  <2>2. sincelastend' \in Nat
    BY <1>1, <1>3
  <2>3. Len(outbuf') <= MaxReadLen
    <3>1. Len(outbuf') \in Nat /\ MaxReadLen \in Nat
      BY <1>5
    <3> QED BY <1>2, <1>3, <1>5, <3>1
  <2> QED BY <1>0, <1>5, <1>7, <2>1, <2>2, <2>3 DEF TypeOK
<1>10. BufInv'
  BY <1>0, <1>2, <1>5 DEF BufInv
<1>11. OutInv'
  BY <1>0, <1>2, <1>5 DEF OutInv, Clean
<1>12. ControlInv'
  BY <1>0, <1>2 DEF ControlInv
<1>13. EndInv'
  <2>1. EndRecognised' = EndRecognised
    BY <1>0 DEF EndRecognised
  <2>2. err' = "EOF" /\ file \in EndRecognised => AtEnd'
    <3> SUFFICES ASSUME err' = "EOF", file \in EndRecognised
                 PROVE  AtEnd'
      OBVIOUS
    <3>1. file \in Members
      BY <1>7, Recognised
    <3>2. file[Used'] = "end" /\ Used' \in 1..Len(file)
      BY <1>5, <1>6, <1>7, <1>8
    <3>3. Used' = Len(file)
      BY <3>1, <3>2, MemberFacts
    <3> QED BY <1>0, <3>2, <3>3 DEF AtEnd
  <2>3. file \in CutFirst /\ codec = "zlib" => sincelastend' > 0
    <3> SUFFICES ASSUME file \in CutFirst, codec = "zlib"
                 PROVE  sincelastend' > 0
      OBVIOUS
    <3>1. sincelastend > 0
      BY DEF EndInv
    <3>2. DecoderCode(k) # "END"
      BY <1>5, <1>6, <1>8, CutFacts
    <3> QED BY <1>1, <3>1, <3>2
  <2>4. Used' > 0 /\ file[Used'] = "end" /\ inbuf' = <<>> => sincelastend' = 0
    <3> SUFFICES ASSUME file[Used'] = "end", inbuf' = <<>>
                 PROVE  sincelastend' = 0
      OBVIOUS
    <3>1. Len(inbuf') = 0
      OBVIOUS
    <3>2. k > 0
      BY <1>0, <1>3, <1>4, <1>5, <3>1
    <3> QED BY <1>1, <1>5, <1>6, <3>2
  <2> QED BY <1>0, <2>1, <2>2, <2>3, <2>4 DEF EndInv
<1>14. ReaderErrorInv'
  <2>1. err' = "ERROR" => \E i \in 1..Len(file) : file[i] = "bad"
    BY <1>5, <1>6, <1>7, <1>8
  <2>2. err' = "ERROR" => file \notin WholeFiles
    BY <2>1, WholeFacts
  <2>3. NoSpuriousError'
    BY <1>0 DEF NoSpuriousError
  <2> QED BY <1>0, <2>1, <2>2, <2>3 DEF ReaderErrorInv
<1> QED BY <1>9, <1>10, <1>11, <1>12, <1>13, <1>14

(* The loop is left with what there is.                                    *)
LEMMA ReadReturnInv ==
  ASSUME CodecReaderAssumption, ReaderInv, ReadReturn
  PROVE  ReaderInv'
<1> USE DEF ReaderInv
<1>0. /\ pc = "loop" /\ ~GoesOn /\ ReturnWith(Len(outbuf), outbuf, {})
      /\ UNCHANGED <<codec, file, pos, inbuf, pend, inbuf_index, dec, err, sincelastend, asked,
                     outbuf>>
  BY DEF ReadReturn, Return, parent, decoder
<1>1. /\ outbuf \in Seq(Nat) /\ Len(outbuf) \in Nat /\ got \in Seq(Nat) /\ asked \in Nat
      /\ decoded - Len(pend) \in Nat
  BY Known
<1>2. pc \in InCall /\ Len(outbuf) <= MaxReadLen /\ MaxReadLen \in Nat /\ codec # "zstd_lz4"
  BY <1>0 DEF InCall, TypeOK, ControlInv
<1> DEFINE n == Len(outbuf)
<1>3. n \in -1..MaxReadLen /\ n \in Int /\ n = Len(outbuf) /\ n # -1
  BY <1>1, <1>2
<1> HIDE DEF n
<1>4. ReturnWith(n, outbuf, {}) /\ {} \in SUBSET {"parent", "reported", "split", "empty"}
  BY <1>0 DEF n
<1>5. /\ ret' \in -1..MaxReadLen /\ got' \in Seq(Nat) /\ pc' = "idle" /\ ret' = n
      /\ trouble' \subseteq {"parent", "reported", "split", "empty"}
      /\ trouble \subseteq trouble'
  BY <1>1, <1>3, <1>4, ReturnType
<1>6. pc' \notin InCall
  BY <1>5 DEF InCall
<1>7. BufInv' /\ Used' = Used /\ decoded' = decoded /\ (AtEnd' <=> AtEnd)
      /\ EndRecognised' = EndRecognised
  BY <1>0, <1>6, Quiet
<1>8. TypeOK'
  <2>1. inbuf_len' = inbuf_len
    BY <1>0 DEF inbuf_len
  <2> QED BY <1>0, <1>5, <2>1 DEF TypeOK
<1>9. OutInv'
  <2>1. Clean => got \o outbuf = Bytes(0, decoded - Len(pend))
    BY <1>2 DEF OutInv
  <2>2. decoded' - Len(pend') = decoded - Len(pend)
    BY <1>0, <1>7
  <2> QED BY <1>0, <1>1, <1>3, <1>4, <2>1, <2>2, ReturnOut
<1>10. ControlInv'
  BY <1>0, <1>2, <1>5 DEF ControlInv
<1>11. EndInv'
  <2>1. ret' = 0 /\ asked > 0 /\ file \in EndRecognised => AtEnd
    <3> SUFFICES ASSUME ret' = 0, asked > 0, file \in EndRecognised
                 PROVE  AtEnd
      OBVIOUS
    <3>1. avail_out > 0
      BY <1>1, <1>3, <1>5 DEF avail_out
    <3>2. err # "OK"
      BY <1>0, <3>1 DEF GoesOn
    <3>3. err # "ERROR"
      BY <1>0, Recognised DEF ReaderErrorInv
    <3>4. err = "EOF"
      BY <3>2, <3>3 DEF TypeOK
    <3> QED BY <3>4 DEF EndInv
  <2> QED BY <1>0, <1>5, <1>7, <2>1 DEF EndInv
<1>12. ReaderErrorInv'
  <2>1. NoSpuriousError'
    BY <1>3, <1>5 DEF NoSpuriousError
  <2>2. err = "ERROR" /\ file \in WholeFiles
          => "parent" \in trouble' \/ (codec = "zstd_lz4" /\ "empty" \in trouble')
    BY <1>5 DEF ReaderErrorInv
  <2> QED BY <1>0, <1>5, <2>1, <2>2 DEF ReaderErrorInv
<1> QED BY <1>7, <1>8, <1>9, <1>10, <1>11, <1>12
-----------------------------------------------------------------------------
(* zstd_lz4_read looks at its inbuf.                                       *)
LEMMA LookAtInbufInv ==
  ASSUME CodecReaderAssumption, ReaderInv, LookAtInbuf
  PROVE  ReaderInv'
<1> USE DEF ReaderInv
<1>0. /\ pc = "outer"
      /\ UNCHANGED <<codec, file, pos, inbuf, pend, dec, err, sincelastend,
                     asked, outbuf, ret, got, trouble>>
  BY DEF LookAtInbuf, parent, call
<1>1. codec = "zstd_lz4" /\ err = "OK" /\ pc \in InCall
  BY <1>0 DEF ControlInv, InCall
<1>2. /\ inbuf_index' = inbuf_index \/ inbuf_index' = 0
      /\ \/ pc' = "fill" /\ (inbuf = <<>> => inbuf_index' = 0)
         \/ pc' = "frame" /\ inbuf_index' = inbuf_index /\ Len(inbuf) >= REFILL_BELOW
  BY DEF LookAtInbuf, Compacts
<1>3. inbuf \in Seq(Unit) /\ Len(inbuf) \in Nat /\ inbuf_index \in Nat
  BY Known
<1>4. BufInv' /\ Used' = Used /\ decoded' = decoded /\ (AtEnd' <=> AtEnd)
      /\ EndRecognised' = EndRecognised
  BY <1>0, <1>1, Quiet
<1>5. TypeOK'
  <2>1. inbuf_index' \in Nat /\ inbuf_len' <= inbuf_len
    BY <1>0, <1>2, <1>3 DEF inbuf_len
  <2>2. inbuf_len' \in Nat /\ inbuf_len \in Nat /\ inbuf_len <= INBUF_SIZE
    BY <1>0, <1>1, <1>3, <2>1 DEF inbuf_len, TypeOK
  <2>3. inbuf_len' <= INBUF_SIZE
    BY <2>1, <2>2
  <2>4. pc' \in {"idle", "loop", "outer", "fill", "frame", "closed"}
    BY <1>2
  <2> QED BY <1>0, <1>1, <2>1, <2>3, <2>4 DEF TypeOK
<1>6. pc' \in InCall
  BY <1>2 DEF InCall
<1>7. OutInv'
  BY <1>0, <1>1, <1>4, <1>6 DEF OutInv, Clean
<1>8. ControlInv'
  <2>1. pc' = "frame" => inbuf # <<>> /\ inbuf_len' = inbuf_len
    <3>1. ASSUME pc' = "frame"
          PROVE  Len(inbuf) # 0
      BY <1>2, <1>3, <3>1
    <3>2. pc' = "frame" => inbuf_len' = inbuf_len
      BY <1>0, <1>2 DEF inbuf_len
    <3> QED BY <3>1, <3>2
  <2>2. inbuf # <<>> => inbuf_len = INBUF_SIZE \/ pos = Len(file)
    BY <1>0, <1>1 DEF ControlInv
  <2>3. dec = "UNDEF" => Used = 0 \/ file[Used] = "end"
    BY <1>1 DEF ControlInv
  <2>4. pc' \in {"fill", "frame"} /\ (pc' = "fill" /\ inbuf = <<>> => inbuf_index' = 0)
    BY <1>2
  <2> QED BY <1>0, <1>1, <1>4, <2>1, <2>2, <2>3, <2>4 DEF ControlInv
<1>9. EndInv'
  BY <1>0, <1>1, <1>2, <1>4 DEF EndInv
<1>10. ReaderErrorInv'
  BY <1>0, <1>1, <1>2 DEF ReaderErrorInv, NoSpuriousError
<1> QED BY <1>4, <1>5, <1>7, <1>8, <1>9, <1>10

(* The parent supplies units to inbuf.                                     *)
LEMMA FillInbufInv ==
  ASSUME CodecReaderAssumption, ReaderInv, FillInbuf
  PROVE  ReaderInv'
<1> USE DEF ReaderInv
<1>0. /\ pc = "fill"
      /\ UNCHANGED <<codec, file, pend, inbuf_index, dec, err, sincelastend,
                     asked, outbuf, ret, got, trouble>>
  BY DEF FillInbuf, call
<1>1. PICK n \in 1 .. INBUF_SIZE - inbuf_len :
         /\ pos + n <= Len(file)
         /\ inbuf' = inbuf \o SubSeq(file, pos + 1, pos + n)
         /\ pos' = pos + n
         /\ pc' = IF inbuf_len + n = INBUF_SIZE THEN "frame" ELSE "fill"
  BY DEF FillInbuf
<1>2. codec = "zstd_lz4" /\ err = "OK" /\ pc \in InCall
  BY <1>0 DEF ControlInv, InCall
<1>3. inbuf \in Seq(Unit) /\ Len(inbuf) \in Nat /\ inbuf_index \in Nat /\ inbuf_len \in Nat
  BY Known DEF inbuf_len
<1>4. n \in Nat /\ n > 0 /\ inbuf_len + n <= INBUF_SIZE
  BY <1>3
<1>5. /\ inbuf' \in Seq(Unit) /\ Len(inbuf') = Len(inbuf) + n /\ inbuf' # <<>>
      /\ pos' \in 0..Len(file) /\ Len(inbuf') <= pos'
      /\ Used' = Used /\ decoded' = decoded
      /\ \A i \in 1..Len(inbuf') : inbuf'[i] = file[Used + i]
  BY <1>0, <1>1, <1>4, SupplyFacts
<1>6. inbuf_len' = inbuf_len + n
  BY <1>0, <1>3, <1>4, <1>5 DEF inbuf_len
<1>7. pc' \in {"fill", "frame"} /\ (pc' = "frame" => inbuf_len' = INBUF_SIZE)
  BY <1>1, <1>6
<1>8. TypeOK'
  BY <1>0, <1>2, <1>4, <1>5, <1>6, <1>7 DEF TypeOK
<1>9. BufInv'
  BY <1>0, <1>2, <1>5 DEF BufInv
<1>10. pc' \in InCall
  BY <1>7 DEF InCall
<1>11. OutInv'
  BY <1>0, <1>2, <1>5, <1>10 DEF OutInv, Clean
<1>12. ControlInv'
  <2>1. dec = "UNDEF" => Used = 0 \/ file[Used] = "end"
    BY <1>2 DEF ControlInv
  <2> QED BY <1>0, <1>2, <1>5, <1>7, <2>1 DEF ControlInv
<1>13. EndInv'
  BY <1>0, <1>2, <1>7 DEF EndInv
<1>14. ReaderErrorInv'
  BY <1>0, <1>2, <1>7 DEF ReaderErrorInv, NoSpuriousError
<1> QED BY <1>8, <1>9, <1>11, <1>12, <1>13, <1>14

(* The parent is at its end, or inbuf is full.                             *)
LEMMA FillEofInv ==
  ASSUME CodecReaderAssumption, ReaderInv, FillEof
  PROVE  ReaderInv'
<1> USE DEF ReaderInv
<1>0. /\ pc = "fill" /\ (pos = Len(file) \/ inbuf_len = INBUF_SIZE)
      /\ UNCHANGED <<codec, file, pos, inbuf, pend, inbuf_index, dec, sincelastend, asked,
                     outbuf>>
  BY DEF FillEof, parent, decoder
<1>1. codec = "zstd_lz4" /\ err = "OK" /\ pc \in InCall
  BY <1>0 DEF ControlInv, InCall
<1>2. /\ outbuf \in Seq(Nat) /\ Len(outbuf) \in Nat /\ got \in Seq(Nat) /\ asked \in Nat
      /\ decoded - Len(pend) \in Nat /\ Len(inbuf) \in Nat /\ inbuf \in Seq(Unit)
      /\ Used + Len(inbuf) = pos /\ Used \in Nat /\ inbuf_index \in Nat
  BY Known
<1>3. BufInv' /\ Used' = Used /\ decoded' = decoded /\ (AtEnd' <=> AtEnd)
      /\ EndRecognised' = EndRecognised
  BY <1>0, <1>1, Quiet
<1>4. inbuf_len' = inbuf_len
  BY <1>0 DEF inbuf_len
<1>5. CASE inbuf = <<>> /\ err' = "EOF" /\ Return(Len(outbuf))
  <2> DEFINE n == Len(outbuf)
  <2>1. n \in -1..MaxReadLen /\ n \in Int /\ n = Len(outbuf) /\ n # -1
    BY <1>2 DEF TypeOK
  <2> HIDE DEF n
  <2>2. ReturnWith(n, outbuf, {}) /\ {} \in SUBSET {"parent", "reported", "split", "empty"}
    BY <1>5 DEF n, Return
  <2>3. /\ ret' \in -1..MaxReadLen /\ got' \in Seq(Nat) /\ pc' = "idle" /\ ret' = n
        /\ trouble' \subseteq {"parent", "reported", "split", "empty"}
        /\ trouble \subseteq trouble'
    BY <1>2, <2>1, <2>2, ReturnType
  <2>4. TypeOK'
    BY <1>0, <1>4, <1>5, <2>3 DEF TypeOK
  <2>5. OutInv'
    <3>1. Clean => got \o outbuf = Bytes(0, decoded - Len(pend))
      BY <1>1 DEF OutInv
    <3>2. decoded' - Len(pend') = decoded - Len(pend)
      BY <1>0, <1>3
    <3> QED BY <1>0, <1>2, <2>1, <2>2, <3>1, <3>2, ReturnOut
  <2>6. ControlInv'
    <3>1. dec = "UNDEF" => Used = 0 \/ file[Used] = "end"
      BY <1>1 DEF ControlInv
    <3> QED BY <1>0, <1>1, <1>3, <1>5, <2>3, <3>1 DEF ControlInv
  <2>7. EndInv'
    <3>1. Used = Len(file)
      <4>1. Len(inbuf) = 0 /\ inbuf_index = 0
        BY <1>0, <1>5 DEF ControlInv
      <4>2. inbuf_len # INBUF_SIZE
        BY <4>1 DEF inbuf_len
      <4> QED BY <1>0, <1>2, <4>1, <4>2
    <3>2. file \in EndRecognised => AtEnd
      BY <1>1, <3>1, Recognised, WholeAtEnd
    <3> QED BY <1>0, <1>1, <1>3, <3>2 DEF EndInv
  <2>8. ReaderErrorInv'
    BY <1>5, <2>1, <2>3 DEF ReaderErrorInv, NoSpuriousError
  <2> QED BY <1>3, <2>4, <2>5, <2>6, <2>7, <2>8
<1>6. CASE inbuf # <<>> /\ pc' = "frame" /\ UNCHANGED <<err, ret, got, trouble>>
  <2>1. pc' \in InCall
    BY <1>6 DEF InCall
  <2>2. TypeOK'
    BY <1>0, <1>4, <1>6 DEF TypeOK
  <2>3. OutInv'
    BY <1>0, <1>1, <1>3, <1>6, <2>1 DEF OutInv, Clean
  <2>4. ControlInv'
    <3>1. dec = "UNDEF" => Used = 0 \/ file[Used] = "end"
      BY <1>1 DEF ControlInv
    <3> QED BY <1>0, <1>1, <1>3, <1>4, <1>6, <3>1 DEF ControlInv
  <2>5. EndInv'
    BY <1>0, <1>1, <1>3, <1>6 DEF EndInv
  <2>6. ReaderErrorInv'
    BY <1>0, <1>1, <1>6 DEF ReaderErrorInv, NoSpuriousError
  <2> QED BY <1>3, <2>2, <2>3, <2>4, <2>5, <2>6
<1> QED BY <1>5, <1>6 DEF FillEof

(* The parent fails while inbuf is filled.                                 *)
LEMMA FillFailsInv ==
  ASSUME CodecReaderAssumption, ReaderInv, FillFails
  PROVE  ReaderInv'
<1> USE DEF ReaderInv
<1>0. /\ pc = "fill" /\ err' = "ERROR" /\ ReturnWith(-1, outbuf, {"parent"})
      /\ UNCHANGED <<codec, file, pos, inbuf, pend, inbuf_index, dec, sincelastend, asked,
                     outbuf>>
  BY DEF FillFails, parent, decoder
<1>1. codec = "zstd_lz4" /\ err = "OK" /\ pc \in InCall
  BY <1>0 DEF ControlInv, InCall
<1>2. /\ outbuf \in Seq(Nat) /\ Len(outbuf) \in Nat /\ got \in Seq(Nat)
      /\ decoded - Len(pend) \in Nat
  BY Known
<1>3. /\ -1 \in -1..MaxReadLen /\ -1 \in Int
      /\ {"parent"} \in SUBSET {"parent", "reported", "split", "empty"}
  OBVIOUS
<1>4. /\ ret' \in -1..MaxReadLen /\ got' \in Seq(Nat) /\ pc' = "idle" /\ ret' = -1
      /\ trouble' \subseteq {"parent", "reported", "split", "empty"}
      /\ trouble \subseteq trouble' /\ {"parent"} \subseteq trouble' /\ "reported" \in trouble'
  BY <1>0, <1>2, <1>3, ReturnType
<1>5. BufInv' /\ Used' = Used /\ decoded' = decoded /\ (AtEnd' <=> AtEnd)
      /\ EndRecognised' = EndRecognised
  BY <1>0, <1>1, Quiet
<1>6. TypeOK'
  BY <1>0, <1>4 DEF TypeOK, inbuf_len
<1>7. OutInv'
  BY <1>0, <1>1, <1>4 DEF OutInv, Clean
<1>8. ControlInv'
  <2>1. dec = "UNDEF" => Used = 0 \/ file[Used] = "end"
    BY <1>1 DEF ControlInv
  <2> QED BY <1>0, <1>1, <1>4, <1>5, <2>1 DEF ControlInv
<1>9. EndInv'
  BY <1>0, <1>1, <1>4, <1>5 DEF EndInv
<1>10. ReaderErrorInv'
  BY <1>4 DEF ReaderErrorInv, NoSpuriousError
<1> QED BY <1>5, <1>6, <1>7, <1>8, <1>9, <1>10

(* At the start of a frame of a complete file a magic is only missed when  *)
(* it straddles the end of inbuf.                                          *)
LEMMA MagicFound ==
  ASSUME CodecReaderAssumption, ReaderInv, pc = "frame", dec = "UNDEF", FALSE \in Magic,
         file \in WholeFiles
  PROVE  HeadSplit
<1> USE DEF ReaderInv
<1>1. codec = "zstd_lz4" /\ err = "OK" /\ inbuf # <<>>
  BY DEF ControlInv
<1>2. /\ file \in Seq(Unit) /\ Len(file) \in Nat /\ pos \in Nat /\ pos <= Len(file)
      /\ inbuf \in Seq(Unit) /\ Len(inbuf) \in Nat /\ Used \in Nat /\ Used + Len(inbuf) = pos
  BY Known
<1>3. Used = 0 \/ file[Used] = "end"
  BY <1>1 DEF ControlInv
<1>4. Len(inbuf) > 0
  BY <1>1, <1>2
<1>5. Used \in 0..Len(file) - 1
  BY <1>2, <1>4
<1>6. Used + MAGIC < Len(file) /\ \A i \in 1..MAGIC : file[Used + i] = "head"
  BY <1>3, <1>5, WholeFacts
<1>7. MAGIC \in Nat /\ MAGIC > 0
  OBVIOUS
<1>8. Smaller(MAGIC, Len(inbuf)) <= MAGIC /\ Smaller(MAGIC, Len(inbuf)) <= Len(inbuf)
      /\ Smaller(MAGIC, Len(inbuf)) \in Nat
  BY <1>2, <1>7, SmallerFacts
<1>9. ~ \E i \in 1 .. Smaller(MAGIC, Len(inbuf)) : inbuf[i] # "head"
  <2> SUFFICES ASSUME NEW i \in 1 .. Smaller(MAGIC, Len(inbuf))
               PROVE  inbuf[i] = "head"
    OBVIOUS
  <2>1. i \in 1..MAGIC /\ i \in 1..Len(inbuf)
    BY <1>2, <1>7, <1>8
  <2> QED BY <1>6, <2>1 DEF BufInv
<1>10. Len(inbuf) < MAGIC
  <2> SUFFICES ASSUME Len(inbuf) >= MAGIC
               PROVE  FALSE
    BY <1>2, <1>7
  <2>1. Magic = {TRUE}
    BY <1>9, Zenon DEF Magic
  <2> QED BY <2>1, Zenon
<1>11. pos # Len(file)
  BY <1>2, <1>6, <1>7, <1>10
<1>12. inbuf_len = INBUF_SIZE
  BY <1>1, <1>11 DEF ControlInv
<1> QED BY <1>10, <1>12 DEF HeadSplit

(* The magic at the start of a frame.                                      *)
LEMMA ChooseDecoderInv ==
  ASSUME CodecReaderAssumption, ReaderInv, ChooseDecoder
  PROVE  ReaderInv'
<1> USE DEF ReaderInv
<1>0. /\ pc = "frame" /\ dec = "UNDEF"
      /\ UNCHANGED <<codec, file, pos, inbuf, pend, inbuf_index, err, sincelastend, asked,
                     outbuf>>
  BY DEF ChooseDecoder, parent
<1>1. codec = "zstd_lz4" /\ err = "OK" /\ pc \in InCall
  BY <1>0 DEF ControlInv, InCall
<1>2. /\ outbuf \in Seq(Nat) /\ Len(outbuf) \in Nat /\ got \in Seq(Nat)
      /\ decoded - Len(pend) \in Nat
  BY Known
<1>3. BufInv' /\ Used' = Used /\ decoded' = decoded /\ (AtEnd' <=> AtEnd)
      /\ EndRecognised' = EndRecognised
  BY <1>0, <1>1, Quiet
<1>4. inbuf_len' = inbuf_len
  BY <1>0 DEF inbuf_len
<1>5. Used = 0 \/ file[Used] = "end"
  BY <1>0, <1>1 DEF ControlInv
<1>6. inbuf # <<>> /\ (inbuf_len = INBUF_SIZE \/ pos = Len(file))
  BY <1>0, <1>1 DEF ControlInv
<1>7. ASSUME NEW why \in SUBSET {"parent", "reported", "split", "empty"},
             ReturnWith(-1, outbuf, why), dec' = dec,
             asked < MAGIC \/ (file \in WholeFiles => "split" \in why)
      PROVE  ReaderInv'
  <2>1. -1 \in -1..MaxReadLen /\ -1 \in Int
    OBVIOUS
  <2>2. /\ ret' \in -1..MaxReadLen /\ got' \in Seq(Nat) /\ pc' = "idle" /\ ret' = -1
        /\ trouble' \subseteq {"parent", "reported", "split", "empty"}
        /\ trouble \subseteq trouble' /\ why \subseteq trouble' /\ "reported" \in trouble'
    BY <1>2, <1>7, <2>1, ReturnType
  <2>3. TypeOK'
    BY <1>0, <1>4, <1>7, <2>2 DEF TypeOK
  <2>4. OutInv'
    BY <1>0, <1>1, <2>2 DEF OutInv, Clean
  <2>5. ControlInv'
    BY <1>0, <1>1, <1>3, <1>4, <1>5, <1>6, <1>7, <2>2 DEF ControlInv
  <2>6. EndInv'
    BY <1>0, <1>1, <1>3, <2>2 DEF EndInv
  <2>7. ReaderErrorInv'
    <3>1. NoSpuriousError'
      <4>1. file \in WholeFiles => asked < MAGIC \/ "split" \in trouble'
        BY <1>7, <2>2
      <4> QED BY <1>0, <1>1, <4>1 DEF NoSpuriousError, WholeFiles
    <3> QED BY <1>0, <1>1, <3>1 DEF ReaderErrorInv
  <2> QED BY <1>3, <2>3, <2>4, <2>5, <2>6, <2>7
<1>8. CASE asked < MAGIC /\ Return(-1) /\ UNCHANGED dec
  <2>1. {} \in SUBSET {"parent", "reported", "split", "empty"} /\ ReturnWith(-1, outbuf, {})
    BY <1>8 DEF Return
  <2> QED BY <1>7, <1>8, <2>1
<1>9. CASE /\ asked >= MAGIC /\ TRUE \in Magic
           /\ dec' = "FRAME" /\ UNCHANGED <<pc, ret, got, trouble>>
  <2>1. TypeOK'
    BY <1>0, <1>4, <1>9 DEF TypeOK
  <2>2. OutInv'
    BY <1>0, <1>1, <1>3, <1>9 DEF OutInv, Clean
  <2>3. ControlInv'
    BY <1>0, <1>1, <1>3, <1>4, <1>6, <1>9 DEF ControlInv
  <2>4. EndInv'
    BY <1>0, <1>1, <1>3, <1>9 DEF EndInv
  <2>5. ReaderErrorInv'
    BY <1>0, <1>1, <1>9 DEF ReaderErrorInv, NoSpuriousError
  <2> QED BY <1>3, <2>1, <2>2, <2>3, <2>4, <2>5
<1>10. CASE /\ asked >= MAGIC /\ FALSE \in Magic
            /\ ReturnWith(-1, outbuf, IF HeadSplit THEN {"split"} ELSE {})
            /\ UNCHANGED dec
  <2> DEFINE why == IF HeadSplit THEN {"split"} ELSE {}
  <2>1. why \in SUBSET {"parent", "reported", "split", "empty"} /\ ReturnWith(-1, outbuf, why)
    BY <1>10
  <2>2. file \in WholeFiles => "split" \in why
    BY <1>0, <1>10, MagicFound
  <2> HIDE DEF why
  <2> QED BY <1>7, <1>10, <2>1, <2>2
<1> QED BY <1>8, <1>9, <1>10 DEF ChooseDecoder

(* The decoder of a frame runs.                                            *)
LEMMA DecodeFrameInv ==
  ASSUME CodecReaderAssumption, ReaderInv, DecodeFrame
  PROVE  ReaderInv'
<1> USE DEF ReaderInv
<1>0. /\ pc = "frame" /\ dec = "FRAME"
      /\ UNCHANGED <<codec, file, pos, sincelastend, asked>>
  BY DEF DecodeFrame, parent
<1>1. PICK k \in 0..Len(inbuf) :
         /\ DecoderRuns(k)
         /\ inbuf_index' = inbuf_index + k
         /\ dec' = IF DecoderCode(k) = "END" THEN "UNDEF" ELSE "FRAME"
         /\ \/ /\ DecoderCode(k) = "DATA_ERROR" \/ NoProgress(k)
               /\ err' = "ERROR"
               /\ ReturnWith(-1, outbuf', IF asked = 0 THEN {"empty"} ELSE {})
            \/ /\ DecoderCode(k) # "DATA_ERROR" /\ ~NoProgress(k)
               /\ err' = err
               /\ \/ Len(outbuf') = asked /\ ReturnWith(asked, outbuf', {})
                  \/ /\ Len(outbuf') # asked
                     /\ pc' = IF inbuf' = <<>> THEN "outer" ELSE "frame"
                     /\ UNCHANGED <<ret, got, trouble>>
  BY DEF DecodeFrame
<1>2. /\ codec = "zstd_lz4" /\ err = "OK" /\ pc \in InCall
      /\ Len(outbuf) <= asked /\ asked <= MaxReadLen
  BY <1>0 DEF ControlInv, BufInv, InCall
<1>3. /\ file \in Seq(Unit) /\ Len(file) \in Nat /\ pos \in Nat /\ pos <= Len(file)
      /\ inbuf \in Seq(Unit)
      /\ asked \in Nat /\ inbuf_index \in Nat /\ got \in Seq(Nat)
      /\ Len(inbuf) \in Nat /\ Used + Len(inbuf) = pos /\ Used \in Nat
  BY Known
<1>4. k \in Nat /\ k <= Len(inbuf)
  BY <1>3
<1>5. /\ inbuf' \in Seq(Unit) /\ Len(inbuf') = Len(inbuf) - k /\ Len(inbuf') <= pos'
      /\ Used' = Used + k
      /\ \A i \in 1..Len(inbuf') : inbuf'[i] = file[Used' + i]
      /\ k > 0 => file[Used'] = inbuf[k]
      /\ pend' \in Seq(Nat) /\ Len(pend') <= Expand /\ Len(pend') <= decoded'
      /\ pend' = Bytes(decoded' - Len(pend'), Len(pend'))
      /\ pend' # <<>> => Used' > 0 /\ file[Used'] = "data"
      /\ outbuf' \in Seq(Nat) /\ Len(outbuf') <= asked
      /\ got \o outbuf = Bytes(0, decoded - Len(pend))
           => got \o outbuf' = Bytes(0, decoded' - Len(pend'))
      /\ k = 0 /\ outbuf' = <<>> => asked = 0
  BY <1>0, <1>1, <1>2, RunFacts
<1>6. /\ DecoderCode(k) = "END" <=> (k > 0 /\ inbuf[k] = "end")
      /\ DecoderCode(k) = "DATA_ERROR" <=> (k > 0 /\ inbuf[k] = "bad")
  BY <1>4, CodeFacts
<1>7. k > 0 => Used' \in 1..Len(file)
  BY <1>3, <1>4, <1>5
<1>8. inbuf_index' \in Nat /\ inbuf_len' = inbuf_len
  BY <1>1, <1>3, <1>4, <1>5 DEF inbuf_len
<1>9. Len(outbuf') \in Nat /\ Len(outbuf') <= MaxReadLen /\ MaxReadLen \in Nat
  <2>1. Len(outbuf') \in Nat /\ MaxReadLen \in Nat
    BY <1>5
  <2> QED BY <1>2, <1>3, <1>5, <2>1
<1>10. dec' \in {"UNDEF", "FRAME"} /\ (dec' = "UNDEF" => file[Used'] = "end")
  BY <1>1, <1>5, <1>6
<1>11. BufInv'
  BY <1>0, <1>2, <1>5 DEF BufInv
<1>12. inbuf' # <<>> => inbuf_len' = INBUF_SIZE \/ pos' = Len(file')
  <2>1. inbuf # <<>> => inbuf_len = INBUF_SIZE \/ pos = Len(file)
    BY <1>0, <1>2 DEF ControlInv
  <2>2. inbuf # <<>>
    BY <1>0 DEF ControlInv
  <2> QED BY <1>0, <1>8, <2>1, <2>2
<1>13. EndRecognised' = EndRecognised
  BY <1>0 DEF EndRecognised
<1>14. Clean => got \o outbuf' = Bytes(0, decoded' - Len(pend'))
  BY <1>2, <1>5 DEF OutInv
<1>15. CASE /\ DecoderCode(k) = "DATA_ERROR" \/ NoProgress(k)
            /\ err' = "ERROR"
            /\ ReturnWith(-1, outbuf', IF asked = 0 THEN {"empty"} ELSE {})
  <2> DEFINE why == IF asked = 0 THEN {"empty"} ELSE {}
  <2>1. why \in SUBSET {"parent", "reported", "split", "empty"} /\ ReturnWith(-1, outbuf', why)
        /\ -1 \in -1..MaxReadLen
    BY <1>15
  <2>2. file \in WholeFiles => "empty" \in why
    <3> SUFFICES ASSUME file \in WholeFiles
                 PROVE  asked = 0
      OBVIOUS
    <3>1. DecoderCode(k) # "DATA_ERROR"
      BY <1>5, <1>6, <1>7, WholeFacts
    <3>2. NoProgress(k)
      BY <1>15, <3>1
    <3> QED BY <1>5, <3>2 DEF NoProgress
  <2> HIDE DEF why
  <2>3. /\ ret' \in -1..MaxReadLen /\ got' \in Seq(Nat) /\ pc' = "idle" /\ ret' = -1
        /\ trouble' \subseteq {"parent", "reported", "split", "empty"}
        /\ why \subseteq trouble' /\ "reported" \in trouble'
    BY <1>5, <2>1, ReturnType
  <2>4. TypeOK'
    BY <1>0, <1>3, <1>5, <1>8, <1>9, <1>10, <1>15, <2>3 DEF TypeOK
  <2>5. OutInv'
    BY <1>0, <1>2, <2>3 DEF OutInv, Clean
  <2>6. ControlInv'
    BY <1>0, <1>2, <1>10, <1>12, <2>3 DEF ControlInv
  <2>7. EndInv'
    BY <1>0, <1>2, <1>15, <2>3 DEF EndInv
  <2>8. ReaderErrorInv'
    <3>1. file' \in WholeFiles => codec' = "zstd_lz4" /\ "empty" \in trouble'
      BY <1>0, <1>2, <2>2, <2>3
    <3>2. NoSpuriousError'
      BY <3>1 DEF NoSpuriousError, WholeFiles
    <3> QED BY <2>3, <3>1, <3>2 DEF ReaderErrorInv
  <2> QED BY <1>11, <2>4, <2>5, <2>6, <2>7, <2>8
<1>16. CASE err' = err /\ Len(outbuf') = asked /\ ReturnWith(asked, outbuf', {})
  <2>1. /\ asked \in -1..MaxReadLen /\ asked \in Int /\ asked # -1
        /\ {} \in SUBSET {"parent", "reported", "split", "empty"}
        /\ ReturnWith(asked, outbuf', {})
    BY <1>2, <1>3, <1>16
  <2>2. /\ ret' \in -1..MaxReadLen /\ got' \in Seq(Nat) /\ pc' = "idle" /\ ret' = asked
        /\ trouble' \subseteq {"parent", "reported", "split", "empty"}
    BY <1>5, <2>1, ReturnType
  <2>3. TypeOK'
    BY <1>0, <1>3, <1>5, <1>8, <1>9, <1>10, <1>16, <2>2 DEF TypeOK
  <2>4. OutInv'
    <3> DEFINE d == decoded' - Len(pend')
    <3>1. d \in Nat
      <4>1. decoded' \in Nat
        BY <1>0, <1>1, <1>2, RunFacts
      <4> QED BY <1>5, <4>1
    <3>2. Clean => got \o outbuf' = Bytes(0, d)
      BY <1>14
    <3>3. decoded' - Len(pend') = d
      OBVIOUS
    <3> HIDE DEF d
    <3>4. codec' = codec
      BY <1>0
    <3> QED BY <1>3, <1>5, <1>16, <2>1, <3>1, <3>2, <3>3, <3>4, ReturnOut
  <2>5. ControlInv'
    BY <1>0, <1>2, <1>10, <1>12, <2>2 DEF ControlInv
  <2>6. EndInv'
    <3>1. ~(asked' > 0 /\ ret' = 0)
      BY <1>0, <1>3, <2>2
    <3> QED BY <1>0, <1>2, <1>16, <3>1 DEF EndInv
  <2>7. ReaderErrorInv'
    BY <1>2, <1>16, <2>1, <2>2 DEF ReaderErrorInv, NoSpuriousError
  <2> QED BY <1>11, <2>3, <2>4, <2>5, <2>6, <2>7
<1>17. CASE /\ err' = err
            /\ pc' = IF inbuf' = <<>> THEN "outer" ELSE "frame"
            /\ UNCHANGED <<ret, got, trouble>>
  <2>1. pc' \in {"outer", "frame"} /\ (pc' = "frame" => inbuf' # <<>>)
    BY <1>17
  <2>2. TypeOK'
    BY <1>0, <1>3, <1>5, <1>8, <1>9, <1>10, <1>17, <2>1 DEF TypeOK
  <2>3. OutInv'
    <3>1. pc' \in InCall
      BY <2>1 DEF InCall
    <3>2. Clean' => Clean
      BY <1>0, <1>17 DEF Clean
    <3> QED BY <1>14, <1>17, <3>1, <3>2 DEF OutInv
  <2>4. ControlInv'
    BY <1>0, <1>2, <1>10, <1>12, <1>17, <2>1 DEF ControlInv
  <2>5. EndInv'
    BY <1>0, <1>2, <1>17, <2>1 DEF EndInv
  <2>6. ReaderErrorInv'
    BY <1>2, <1>17, <2>1 DEF ReaderErrorInv, NoSpuriousError
  <2> QED BY <1>11, <2>2, <2>3, <2>4, <2>5, <2>6
<1> QED BY <1>1, <1>15, <1>16, <1>17
-----------------------------------------------------------------------------
(* Opening.                                                                *)
LEMMA ReaderInvInit ==
  ASSUME CodecReaderAssumption, Init
  PROVE  ReaderInv
<1>1. /\ codec \in {"zlib", "bzip", "lzma", "zstd_lz4"}
      /\ file \in Files /\ pos = 0
      /\ inbuf = <<>> /\ pend = <<>> /\ inbuf_index = 0 /\ dec = "UNDEF"
      /\ err = "OK" /\ sincelastend = 1
      /\ pc = "idle" /\ asked = 0 /\ outbuf = <<>> /\ ret = 0 /\ got = <<>>
      /\ trouble = {}
  BY DEF Init, zlib_open, bz_open, lzma_open, zstd_lz4_open, OpenReader
<1>2. file \in Seq(Unit) /\ Len(file) \in Nat
  BY <1>1, FileType
<1>3. /\ <<>> \in Seq(Nat) /\ <<>> \in Seq(Unit) /\ Len(<<>>) = 0
  OBVIOUS
<1>4. Used = 0
  <2>1. Len(inbuf) = 0 /\ pos = 0
    BY <1>1, <1>3
  <2> QED BY <2>1 DEF Used
<1>5. decoded = 0
  <2>1. decoded = Decodes(SubSeq(file, 1, 0))
    BY <1>1, <1>3 DEF decoded
  <2>2. SubSeq(file, 1, 0) = <<>>
    BY SubSeqEmpty
  <2>3. {i \in DOMAIN <<>> : <<>>[i] = "data"} = {}
    OBVIOUS
  <2>4. Cardinality({}) = 0
    BY FS_EmptySet
  <2>5. Decodes(<<>>) = Expand * 0
    BY <2>3, <2>4 DEF Decodes
  <2>6. Expand * 0 = 0
    OBVIOUS
  <2> QED BY <2>1, <2>2, <2>5, <2>6
<1>6. Bytes(0, 0) = <<>>
  BY DEF Bytes
<1>7. TypeOK
  <2>1. inbuf_len = 0
    BY <1>1, <1>3 DEF inbuf_len
  <2>2. inbuf_len <= (IF codec = "zstd_lz4" THEN INBUF_SIZE ELSE BUFFER_SIZE)
    BY <2>1
  <2> QED BY <1>1, <1>2, <1>3, <2>2 DEF TypeOK
<1>8. BufInv
  BY <1>1, <1>3, <1>4, <1>5, <1>6 DEF BufInv, InCall
<1>9. OutInv
  <2>1. InOrder(<<>>)
    BY DEF InOrder
  <2> QED BY <1>1, <1>3, <1>5, <1>6, <2>1 DEF OutInv, InCall
<1>10. ControlInv
  BY <1>1, <1>4 DEF ControlInv
<1>11. EndInv
  BY <1>1, <1>4 DEF EndInv
<1>12. ReaderErrorInv
  BY <1>1 DEF ReaderErrorInv, NoSpuriousError
<1> QED BY <1>7, <1>8, <1>9, <1>10, <1>11, <1>12 DEF ReaderInv

(* Nothing happens.                                                        *)
LEMMA ReaderStutter ==
  ASSUME ReaderInv, UNCHANGED vars
  PROVE  ReaderInv'
<1> USE DEF ReaderInv
<1>0. UNCHANGED <<codec, file, pos, inbuf, pend, inbuf_index, dec, err, sincelastend, pc,
                  asked, outbuf, ret, got, trouble>>
  BY DEF vars, parent, decoder, call
<1>1. BufInv' /\ Used' = Used /\ decoded' = decoded /\ (AtEnd' <=> AtEnd)
      /\ EndRecognised' = EndRecognised
  BY <1>0, Quiet
<1>2. TypeOK'
  BY <1>0 DEF TypeOK, inbuf_len
<1>3. OutInv'
  BY <1>0, <1>1 DEF OutInv, Clean
<1>4. ControlInv'
  BY <1>0, <1>1 DEF ControlInv, inbuf_len
<1>5. EndInv'
  BY <1>0, <1>1 DEF EndInv
<1>6. ReaderErrorInv'
  BY <1>0 DEF ReaderErrorInv, NoSpuriousError
<1> QED BY <1>1, <1>2, <1>3, <1>4, <1>5, <1>6

(* Every step preserves the invariant.                                     *)
LEMMA ReaderInvNext ==
  ASSUME CodecReaderAssumption, ReaderInv, [Next]_vars
  PROVE  ReaderInv'
<1>1. ASSUME NEW n \in 0..MaxReadLen,
             zlib_read(n) \/ bz_read(n) \/ lzma_read(n) \/ zstd_lz4_read(n)
      PROVE  ReaderInv'
  <2>1. CASE codec = "zstd_lz4" /\ StartRead(n, "outer")
    BY <2>1, StartReadInv
  <2>2. CASE codec # "zstd_lz4" /\ StartRead(n, "loop")
    BY <2>2, StartReadInv
  <2> QED BY <1>1, <2>1, <2>2 DEF zlib_read, bz_read, lzma_read, zstd_lz4_read
<1>2. CASE Reader
  BY <1>2, RefillInv, RefillEofInv, DecodeInv, ReadReturnInv DEF Reader
<1>3. CASE RefillFails
  BY <1>3, RefillFailsInv
<1>4. CASE FrameReader
  BY <1>4, LookAtInbufInv, FillInbufInv, FillEofInv, ChooseDecoderInv,
     DecodeFrameInv DEF FrameReader
<1>5. CASE FillFails
  BY <1>5, FillFailsInv
<1>6. CASE zlib_close \/ bz_close \/ lzma_close \/ zstd_lz4_close
  BY <1>6, CloseReaderInv DEF zlib_close, bz_close, lzma_close, zstd_lz4_close
<1>7. CASE Closed \/ UNCHANGED vars
  BY <1>7, ReaderStutter DEF Closed
<1> QED BY <1>1, <1>2, <1>3, <1>4, <1>5, <1>6, <1>7 DEF Next

(* The inductive invariant of the decompressing readers.                   *)
THEOREM ReaderInvariance ==
  ASSUME CodecReaderAssumption
  PROVE  Spec => []ReaderInv
<1>1. Init => ReaderInv
  BY ReaderInvInit
<1>2. ReaderInv /\ [Next]_vars => ReaderInv'
  BY ReaderInvNext
<1> QED BY <1>1, <1>2, PTL DEF Spec

(* What is in the caller's hands when a call has returned.                 *)
LEMMA IsNothingSkipped ==
  ASSUME CodecReaderAssumption, ReaderInv
  PROVE  NothingSkipped
<1> USE DEF ReaderInv
<1>1. /\ got \in Seq(Nat) /\ outbuf \in Seq(Nat) /\ decoded - Len(pend) \in Nat
  BY Known
<1>2. ASSUME codec = "zstd_lz4" => "reported" \notin trouble
      PROVE  /\ InOrder(got)
             /\ pc = "idle" /\ ret >= 0 => Len(got) = decoded - Len(pend)
  <2>1. Clean
    BY <1>2 DEF Clean
  <2>2. CASE pc \in InCall
    <3>1. got \o outbuf = Bytes(0, decoded - Len(pend))
      BY <2>1, <2>2 DEF OutInv
    <3>2. InOrder(got)
      BY <1>1, <3>1, BeginningInOrder
    <3>3. pc # "idle"
      BY <2>2 DEF InCall
    <3> QED BY <3>2, <3>3
  <2>3. CASE pc \notin InCall
    <3>1. InOrder(got) /\ (ret >= 0 => got = Bytes(0, decoded - Len(pend)))
      BY <2>1, <2>3 DEF OutInv
    <3>2. Len(Bytes(0, decoded - Len(pend))) = decoded - Len(pend)
      BY <1>1, BytesFacts
    <3> QED BY <3>1, <3>2
  <2> QED BY <2>2, <2>3
<1> QED BY <1>2 DEF NothingSkipped

(* At the end of a recognised file everything has been decoded and given   *)
(* out.                                                                    *)
LEMMA IsZeroMeansEnd ==
  ASSUME CodecReaderAssumption, ReaderInv
  PROVE  ZeroMeansEnd
<1> USE DEF ReaderInv
<1> SUFFICES ASSUME file \in EndRecognised, "reported" \notin trouble, pc = "idle",
                    asked > 0, ret = 0
             PROVE  /\ Len(got) = Decodes(file)
                    /\ file[Len(file)] = "end"
                    /\ pos = Len(file) /\ inbuf = <<>>
  BY DEF ZeroMeansEnd
<1>1. /\ file \in Seq(Unit) /\ Len(file) \in Nat /\ pos \in Nat /\ pos <= Len(file)
      /\ inbuf \in Seq(Unit) /\ Len(inbuf) \in Nat /\ Used + Len(inbuf) = pos
      /\ decoded = Decodes(SubSeq(file, 1, Used)) /\ decoded \in Nat /\ pend \in Seq(Nat)
  BY Known
<1>2. Used = Len(file) /\ file[Len(file)] = "end"
  BY DEF EndInv, AtEnd
<1>3. Len(inbuf) = 0 /\ pos = Len(file)
  BY <1>1, <1>2
<1>4. inbuf = <<>>
  BY <1>1, <1>3
<1>5. pend = <<>>
  BY <1>2 DEF BufInv
<1>6. SubSeq(file, 1, Len(file)) = file
  BY <1>1, SubSeqFull
<1>7. decoded = Decodes(file)
  BY <1>1, <1>2, <1>6
<1>8. Len(got) = decoded - Len(pend)
  BY IsNothingSkipped DEF NothingSkipped
<1>9. Len(pend) = 0
  BY <1>5
<1>10. Len(got) = Decodes(file)
  BY <1>1, <1>7, <1>8, <1>9
<1> QED BY <1>2, <1>3, <1>4, <1>10

(* The bytes that the reads of a decompressing reader have returned are    *)
(* the decoded stream from its beginning, and between calls all of it but  *)
(* what the decoder holds back, for every portioning of the parent, every  *)
(* sequence of lengths and every size of the buffers.                      *)
THEOREM NothingSkippedAlways ==
  ASSUME CodecReaderAssumption
  PROVE  Spec => []NothingSkipped
<1>1. ReaderInv => NothingSkipped
  BY IsNothingSkipped
<1> QED BY <1>1, ReaderInvariance, PTL

(* A read of a recognised file that returns 0 means that every unit of it  *)
(* has been decoded and every byte of it returned.                         *)
THEOREM ZeroMeansEndAlways ==
  ASSUME CodecReaderAssumption
  PROVE  Spec => []ZeroMeansEnd
<1>1. ReaderInv => ZeroMeansEnd
  BY IsZeroMeansEnd
<1> QED BY <1>1, ReaderInvariance, PTL

(* A read of a complete file reports an error only after its parent did,   *)
(* but for the cases of zstd_lz4_read that NoSpuriousError names.          *)
THEOREM NoSpuriousErrorAlways ==
  ASSUME CodecReaderAssumption
  PROVE  Spec => []NoSpuriousError
<1>1. ReaderInv => NoSpuriousError
  BY DEF ReaderInv, ReaderErrorInv
<1> QED BY <1>1, ReaderInvariance, PTL
-----------------------------------------------------------------------------
(* The compressing writers.                                                *)
(* Inside a write; in a close, or behind it.                               *)
Writing == {"write", "zstdEncode", "zstdDrain", "lz4Write"}
Closing == {"close", "closeMore", "closeLast", "closed", "leaked", "crashed"}

(* How far the encoder is in the program's data: bytes of the call in      *)
(* progress that it has taken count.                                       *)
WriterPosition == IF pc \in Writing THEN (accepted + asked) - Len(next_in) ELSE accepted

(* What has been made of the data, wherever it is.                         *)
Made == (child \o outbuff) \o inside

(* Where each call can be, and what is known of its bookkeeping there.     *)
WriterCallInv ==
  /\ pc \in {"drain"} => codec = "zlib"
  /\ pc \in {"flush"} => codec \in {"zlib", "lz4"}
  /\ pc = "write" => codec \in {"zlib", "bzip", "lzma"}
  /\ pc \in {"zstdEncode", "zstdDrain"} => codec = "zstd" /\ asked > 0 /\ err = "OK"
  /\ pc \in {"lz4Write", "lz4Flush", "lz4FlushEncode", "lz4FlushOut", "lz4End"} => codec = "lz4"
  /\ pc \in {"close", "closeMore"} => codec # "lz4"
  /\ pc \in Writing => Len(next_in) <= asked /\ accepted + asked <= MaxStream
  /\ pc = "lz4Write" => next_in # <<>> /\ (Len(next_in) < asked => asked > outbuf_size_max)
  /\ closing => codec = "lz4" /\ pc # "idle" /\ pc \notin Writing
  /\ finishing => pc \in Closing
  /\ pc \in {"closeMore", "closeLast"} /\ ~failed => finishing
  /\ codec = "zstd" /\ pc \notin Closing \cup {"zstdDrain"} => outbuff = <<>>
  /\ codec = "lz4" => Len(inside) < LZ4_BLOCK
  /\ pc = "lz4FlushEncode" => outbuff = <<>>
  /\ pc = "lz4FlushOut" => inside = <<>>
  /\ pc \in {"drain", "flush"} /\ Room # 0 => inside = <<>>
  /\ pc = "zstdDrain" /\ outbuff = <<>> => next_in = <<>>

(* When err is set something failed, or the zstd encoder wrote nothing.    *)
WriterErrorInv ==
  /\ err = "ERROR" /\ ~failed => codec = "zstd" /\ misreported
  /\ codec = "zstd" /\ misreported => err = "ERROR"
  /\ misreported => codec \in {"zstd", "lz4"}

(* Until then the data is complete, in order and in one place.             *)
WriterDataInv ==
  err = "OK" /\ ~misreported =>
    /\ pc \in Writing => next_in = Bytes(WriterPosition, Len(next_in))
    /\ pc \in {"idle", "drain", "lz4Flush", "lz4FlushEncode", "lz4FlushOut"} => next_in = <<>>
    /\ pc \in Writing \cup {"idle", "drain", "lz4Flush", "lz4FlushEncode", "lz4FlushOut"}
         => Made = Started(WriterPosition)
    /\ pc = "flush" => child \o inside = Started(accepted) /\ next_in = <<>>

(* k bytes more than the program knows of: those of a zstd write that was  *)
(* refused.                                                                *)
Committed(k) ==
  /\ k = 0 \/ (codec = "zstd" /\ misreported)
  /\ Made = IF finishing THEN Whole(accepted + k) ELSE Started(accepted + k)

(* While nothing fails a close only adds the trailer to what the program   *)
(* wrote, and leaves nothing with the encoder or in outbuff.               *)
WriterCloseInv ==
  ~failed /\ (codec = "zstd" \/ ~misreported) =>
    /\ pc \in Closing \cup {"idle"} => next_in = <<>> /\ \E k \in 0..MaxWriteLen : Committed(k)
    /\ pc = "closeLast" => codec = "bzip" \/ inside = <<>>
    /\ pc = "closed" => finishing /\ outbuff = <<>> /\ (codec = "bzip" \/ inside = <<>>)
    /\ pc = "lz4End" => next_in = <<>> /\ outbuff = <<>> /\ Made = Started(accepted)

(* The inductive invariant of the compressing writers.                     *)
WriterInv == WriterTypeOK /\ WriterCallInv /\ WriterErrorInv /\ WriterDataInv /\ WriterCloseInv
-----------------------------------------------------------------------------
(* A row of sequences of bytes is one.                                     *)
LEMMA RowType ==
  ASSUME NEW s \in Seq(Int), NEW t \in Seq(Int)
  PROVE  s \o t \in Seq(Int) /\ Len(s \o t) = Len(s) + Len(t)
BY ConcatProperties

(* How a row of sequences is put together does not matter.                 *)
LEMMA RowAssoc ==
  ASSUME NEW s \in Seq(Int), NEW t \in Seq(Int), NEW u \in Seq(Int)
  PROVE  (s \o t) \o u = s \o (t \o u)
BY ConcatAssociative

(* The two parts of a sequence, cut behind its first e elements.           *)
Front(h, e) == SubSeq(h, 1, e)
Back(h, e) == SubSeq(h, e + 1, Len(h))

(* The first e elements of h, moved behind o.                              *)
MovedOn(c, o, h, e) == (c \o (o \o Front(h, e))) \o Back(h, e) = (c \o o) \o h

(* What is cut out of a row of sequences and put in behind it is the same  *)
(* row.                                                                    *)
LEMMA MoveOn ==
  ASSUME NEW c \in Seq(Int), NEW o \in Seq(Int), NEW h \in Seq(Int), NEW e \in 0..Len(h)
  PROVE  MovedOn(c, o, h, e)
<1> DEFINE a == SubSeq(h, 1, e)
           b == SubSeq(h, e + 1, Len(h))
<1>2. a \in Seq(Int) /\ b \in Seq(Int)
  OBVIOUS
<1>3. a \o b = h
  <2>1. 1 \in 1..Len(h) + 1 /\ e \in 1 - 1 .. Len(h) /\ Len(h) \in e..Len(h)
    OBVIOUS
  <2>2. a \o b = SubSeq(h, 1, Len(h))
    BY <2>1, ConcatAdjacentSubSeq
  <2> QED BY <2>2, SubSeqFull
<1> HIDE DEF a, b
<1>4. c \o (o \o a) = (c \o o) \o a /\ c \o o \in Seq(Int)
  <2>1. c \o (o \o a) = (c \o o) \o a
    BY <1>2, RowAssoc, Zenon
  <2>2. c \o o \in Seq(Int)
    BY RowType, Zenon
  <2> QED BY <2>1, <2>2
<1>5. ((c \o o) \o a) \o b = (c \o o) \o (a \o b)
  BY <1>2, <1>4, RowAssoc, Zenon
<1>6. (c \o (o \o a)) \o b = (c \o o) \o h
  BY <1>3, <1>4, <1>5, Zenon
<1> QED BY <1>6 DEF a, b, Front, Back, MovedOn

(* Sequences and the empty one.                                            *)
LEMMA NothingAdded ==
  ASSUME NEW s \in Seq(Int)
  PROVE  s \o <<>> = s /\ <<>> \o s = s
BY ConcatEmptySeq

(* The beginning of a longer sequence.                                     *)
LEMMA SplitType ==
  ASSUME NEW S, NEW s \in Seq(S), NEW m \in 0..Len(s)
  PROVE  /\ SubSeq(s, 1, m) \in Seq(S) /\ Len(SubSeq(s, 1, m)) = m
         /\ SubSeq(s, m + 1, Len(s)) \in Seq(S)
         /\ Len(SubSeq(s, m + 1, Len(s))) = Len(s) - m
OBVIOUS

(* Bytes are whole numbers.                                                *)
LEMMA NatSeqInt ==
  ASSUME NEW s \in Seq(Nat)
  PROVE  s \in Seq(Int)
OBVIOUS

(* The stream of more bytes.                                               *)
LEMMA StartedFacts ==
  ASSUME NEW p \in Nat, NEW m \in Nat
  PROVE  /\ Started(p) \in Seq(Int)
         /\ Started(p) \o Bytes(p, m) = Started(p + m)
         /\ Started(p) \o <<Trailer>> = Whole(p)
<1> DEFINE h == IF codec = "lz4" THEN <<Header>> ELSE <<>>
<1>1. h \in Seq(Int)
  BY DEF Header
<1>2. Bytes(0, p) \in Seq(Int) /\ Bytes(p, m) \in Seq(Int)
  <2>1. 0 \in Nat
    OBVIOUS
  <2> QED BY <2>1, BytesFacts, NatSeqInt
<1>3. Bytes(0, p) \o Bytes(p, m) = Bytes(0, p + m)
  <2>1. 0 \in Nat /\ 0 + p = p
    OBVIOUS
  <2>2. Bytes(0, p) \o Bytes(0 + p, m) = Bytes(0, p + m)
    BY <2>1, BytesAppend, Zenon
  <2> QED BY <2>1, <2>2, Zenon
<1>4. Started(p) = h \o Bytes(0, p) /\ Started(p + m) = h \o Bytes(0, p + m)
  BY DEF Started
<1> HIDE DEF h
<1>5. Started(p) \in Seq(Int)
  BY <1>1, <1>2, <1>4, RowType
<1>6. Started(p) \o Bytes(p, m) = Started(p + m)
  <2>1. (h \o Bytes(0, p)) \o Bytes(p, m) = h \o (Bytes(0, p) \o Bytes(p, m))
    BY <1>1, <1>2, RowAssoc, Zenon
  <2> QED BY <1>3, <1>4, <2>1, Zenon
<1>7. Started(p) \o <<Trailer>> = Whole(p)
  BY <1>5, AppendIsConcat DEF Whole, Trailer
<1> QED BY <1>5, <1>6, <1>7
-----------------------------------------------------------------------------
(* The size of the buffer the encoder fills.                               *)
Cap == IF codec = "lz4" THEN LZ4_OUTBUF ELSE BUFFER_SIZE

(* What the steps compute with.                                            *)
LEMMA WriterTypes ==
  ASSUME CodecWriterAssumption, WriterTypeOK
  PROVE  /\ next_in \in Seq(Nat) /\ next_in \in Seq(Int) /\ Len(next_in) \in Nat
         /\ inside \in Seq(Int) /\ Len(inside) \in Nat
         /\ outbuff \in Seq(Int) /\ Len(outbuff) \in Nat
         /\ child \in Seq(Int) /\ Len(child) \in Nat
         /\ Room \in Nat /\ Room = Cap - Len(outbuff) /\ Cap \in Nat /\ Cap > 0
         /\ asked \in Nat /\ asked <= MaxWriteLen /\ accepted \in Nat /\ accepted <= MaxStream
         /\ outbuf_size_max \in Nat /\ outbuf_size_max > 0
         /\ LZ4_BLOCK <= LZ4_OUTBUF /\ LZ4_BLOCK \in Nat \ {0} /\ LZ4_OUTBUF \in Nat
         /\ outbuf_size_max + LZ4_BLOCK - 1 <= LZ4_OUTBUF
         /\ BUFFER_SIZE \in Nat \ {0}
         /\ MaxWriteLen \in Nat /\ MaxStream \in Nat
<1>1. outbuf_size_max \in Nat
  BY DEF outbuf_size_max
<1>2. LZ4_BLOCK <= LZ4_OUTBUF
  BY <1>1
<1>3. Room = Cap - Len(outbuff) /\ Cap \in Nat /\ Cap > 0
  BY <1>2 DEF Room, Cap
<1>4. Room \in Nat
  BY <1>3 DEF WriterTypeOK
<1>5. next_in \in Seq(Int)
  BY NatSeqInt DEF WriterTypeOK
<1> QED BY <1>1, <1>2, <1>3, <1>4, <1>5 DEF WriterTypeOK

(* What a call of the encoder puts behind the bytes it takes.              *)
Added(mode, m) ==
  IF mode = "FINISH" /\ ~finishing /\ m = Len(next_in) THEN <<Trailer>> ELSE <<>>

(* A call of the encoder that takes m bytes: none is lost or overtaken.    *)
LEMMA EncodeFacts ==
  ASSUME CodecWriterAssumption, WriterTypeOK, NEW mode, Encodes(mode), child' = child
  PROVE  \E m \in 0..Len(next_in) :
           /\ codec' = codec
           /\ next_in' = SubSeq(next_in, m + 1, Len(next_in))
           /\ next_in' \in Seq(Nat) /\ Len(next_in') = Len(next_in) - m
           /\ inside' \in Seq(Int) /\ outbuff' \in Seq(Int)
           /\ Room' >= 0
           /\ Room' # 0 => m = Len(next_in)
           /\ Room' # 0 /\ mode # "RUN" => inside' = <<>>
           /\ finishing' \in BOOLEAN
           /\ finishing' <=> finishing \/ (mode = "FINISH" /\ m = Len(next_in))
           /\ Made' = Made \o (SubSeq(next_in, 1, m) \o Added(mode, m))
<1>1. /\ next_in \in Seq(Nat) /\ next_in \in Seq(Int) /\ Len(next_in) \in Nat
      /\ inside \in Seq(Int) /\ Len(inside) \in Nat
      /\ outbuff \in Seq(Int) /\ Len(outbuff) \in Nat /\ child \in Seq(Int)
      /\ Room \in Nat /\ Room = Cap - Len(outbuff) /\ Cap \in Nat
  BY WriterTypes
<1>2. PICK m \in 0..Len(next_in), e \in 0..Room : Encode(mode, m, e)
  BY DEF Encodes
<1> DEFINE x == SubSeq(next_in, 1, m) \o Added(mode, m)
           held == inside \o x
<1>3. x \in Seq(Int)
  <2>1. SubSeq(next_in, 1, m) \in Seq(Int)
    BY <1>1, <1>2
  <2>2. Added(mode, m) \in Seq(Int)
    BY DEF Added, Trailer
  <2> QED BY <2>1, <2>2, RowType
<1>4. held = Held(m, mode)
  <2>1. /\ SubSeq(next_in, 1, m) \in Seq(Int) /\ Added(mode, m) \in Seq(Int)
    <3>1. Added(mode, m) \in Seq(Int)
      BY DEF Added, Trailer
    <3> QED BY <1>1, <1>2, <3>1
  <2>2. inside \o (SubSeq(next_in, 1, m) \o Added(mode, m))
          = (inside \o SubSeq(next_in, 1, m)) \o Added(mode, m)
    BY <1>1, <2>1, RowAssoc
  <2> QED BY <2>2 DEF Held, Added
<1> HIDE DEF x
<1>5. held \in Seq(Int) /\ Len(held) \in Nat
  BY <1>1, <1>3, RowType
<1>6. /\ e <= Smaller(Room, Len(held)) /\ (e = Room \/ m = Len(next_in))
      /\ mode # "RUN" => e = Smaller(Room, Len(held))
      /\ codec' = codec
      /\ next_in' = SubSeq(next_in, m + 1, Len(next_in))
      /\ inside' = SubSeq(held, e + 1, Len(held))
      /\ finishing' = (finishing \/ (mode = "FINISH" /\ m = Len(next_in)))
      /\ outbuff' = outbuff \o SubSeq(held, 1, e)
  BY <1>2, <1>4 DEF Encode
<1> HIDE DEF held
<1>7. e \in 0..Len(held) /\ (mode # "RUN" => e = Room \/ e = Len(held))
  BY <1>1, <1>2, <1>5, <1>6 DEF Smaller
<1>8. /\ SubSeq(held, 1, e) \in Seq(Int) /\ Len(SubSeq(held, 1, e)) = e
      /\ inside' \in Seq(Int) /\ Len(inside') = Len(held) - e
  BY <1>5, <1>6, <1>7, SplitType
<1>9. outbuff' \in Seq(Int) /\ Len(outbuff') = Len(outbuff) + e
  BY <1>1, <1>6, <1>8, RowType
<1>10. Room' = Room - e
  <2>1. Room' = Cap - Len(outbuff')
    BY <1>6 DEF Room, Cap
  <2> QED BY <1>1, <1>2, <1>9, <2>1
<1>11. Room' # 0 /\ mode # "RUN" => inside' = <<>>
  <2>1. Room' # 0 /\ mode # "RUN" => Len(inside') = 0
    BY <1>1, <1>2, <1>5, <1>7, <1>8, <1>10
  <2>2. Len(inside') = 0 => inside' = <<>>
    BY <1>8, EmptySeq
  <2> QED BY <2>1, <2>2
<1>12. Made' = Made \o x
  <2>1. child \in Seq(Int) /\ outbuff \in Seq(Int) /\ inside \in Seq(Int)
    BY <1>1
  <2>2. MovedOn(child, outbuff, held, e)
    <3>1. held \in Seq(Int) /\ e \in 0..Len(held)
      BY <1>5, <1>7
    <3> QED BY <2>1, <3>1, MoveOn
  <2>3. child \o outbuff \in Seq(Int)
    BY <2>1, RowType
  <2>4. ((child \o outbuff) \o inside) \o x = (child \o outbuff) \o (inside \o x)
    BY <1>3, <2>1, <2>3, RowAssoc
  <2>5. Made' = (child \o (outbuff \o Front(held, e))) \o Back(held, e)
    BY <1>6 DEF Made, Front, Back
  <2> QED BY <2>2, <2>4, <2>5 DEF Made, MovedOn, held
<1>13. next_in' \in Seq(Nat) /\ Len(next_in') = Len(next_in) - m
  <2>1. /\ SubSeq(next_in, m + 1, Len(next_in)) \in Seq(Nat)
        /\ Len(SubSeq(next_in, m + 1, Len(next_in))) = Len(next_in) - m
    BY <1>1, <1>2, SplitType, Zenon
  <2> QED BY <1>6, <2>1, Zenon
<1>14. Room' >= 0 /\ (Room' # 0 => m = Len(next_in))
  BY <1>1, <1>2, <1>6, <1>10
<1>15. /\ finishing' \in BOOLEAN
       /\ finishing' <=> finishing \/ (mode = "FINISH" /\ m = Len(next_in))
  BY <1>6, Zenon
<1> QED BY <1>2, <1>6, <1>8, <1>9, <1>11, <1>12, <1>13, <1>14, <1>15 DEF x
-----------------------------------------------------------------------------
(* The end of a write.                                                     *)
LEMMA WriteReturnFacts ==
  ASSUME NEW n \in Int, NEW t \in Int, ReturnOf(n, t), misreported \in BOOLEAN
  PROVE  /\ ret' = n /\ pc' = "idle"
         /\ n > 0 => accepted' = accepted + n
         /\ ~(n > 0) => accepted' = accepted
         /\ misreported' \in BOOLEAN
         /\ misreported' <=> misreported \/ (IF n > 0 THEN n ELSE 0) # t
<1>1. /\ ret' = n /\ pc' = "idle"
      /\ n > 0 => accepted' = accepted + n
      /\ ~(n > 0) => accepted' = accepted
  BY DEF ReturnOf
<1>2. /\ misreported' \in BOOLEAN
      /\ misreported' <=> misreported \/ (IF n > 0 THEN n ELSE 0) # t
  BY Zenon DEF ReturnOf
<1> QED BY <1>1, <1>2

(* Once an error is reported nothing is promised of the data.              *)
LEMMA Failing ==
  ASSUME failed' = TRUE, err' = "ERROR", WriterErrorInv, codec' = codec,
         misreported' => misreported \/ codec \in {"zstd", "lz4"}
  PROVE  WriterErrorInv' /\ WriterDataInv' /\ WriterCloseInv'
<1>1. WriterErrorInv'
  BY DEF WriterErrorInv
<1>2. WriterDataInv'
  BY DEF WriterDataInv
<1>3. WriterCloseInv'
  BY DEF WriterCloseInv
<1> QED BY <1>1, <1>2, <1>3

(* The child takes what is in outbuff.                                     *)
LEMMA DrainFacts ==
  ASSUME CodecWriterAssumption, WriterTypeOK, ChildTakes, outbuff' = <<>>, inside' = inside,
         codec' = codec
  PROVE  /\ child' \in Seq(Int) /\ outbuff' \in Seq(Int) /\ Room' >= 0
         /\ Made' = Made /\ failed' = failed
<1>1. /\ child \in Seq(Int) /\ outbuff \in Seq(Int) /\ inside \in Seq(Int)
      /\ Cap \in Nat
  BY WriterTypes
<1>2. child' = child \o outbuff /\ failed' = failed
  BY DEF ChildTakes
<1>3. child \o outbuff \in Seq(Int)
  BY <1>1, RowType
<1>4. Made' = (child \o outbuff) \o inside
  <2>1. Made' = ((child \o outbuff) \o <<>>) \o inside
    BY <1>2 DEF Made
  <2>2. (child \o outbuff) \o <<>> = child \o outbuff
    BY <1>3, NothingAdded
  <2> QED BY <2>1, <2>2
<1>5. outbuff' \in Seq(Int)
  OBVIOUS
<1>6. Room' >= 0
  BY <1>1 DEF Room, Cap
<1> QED BY <1>2, <1>3, <1>4, <1>5, <1>6 DEF Made

(* A call that has nothing to do but report.                               *)
LEMMA ReportInv ==
  ASSUME CodecWriterAssumption, WriterInv, pc \notin Writing,
         asked' \in 0..MaxWriteLen, ret' \in -1..MaxWriteLen,
         UNCHANGED <<encoder, outbuff, err, child, pc, owner, history>>
  PROVE  WriterInv'
<1> USE DEF WriterInv, encoder, owner, history
<1>1. WriterTypeOK'
  BY DEF WriterTypeOK, Room
<1>2. WriterCallInv'
  BY DEF WriterCallInv, Room, Writing, Closing
<1>3. WriterErrorInv'
  BY DEF WriterErrorInv
<1>4. Made' = Made /\ WriterPosition' = WriterPosition /\ WriterPosition = accepted
  BY DEF Made, WriterPosition
<1>5. WriterDataInv'
  BY <1>4 DEF WriterDataInv, Started
<1>6. WriterCloseInv'
  BY <1>4 DEF WriterCloseInv, Committed, Started, Whole
<1> QED BY <1>1, <1>2, <1>3, <1>5, <1>6

(* A write begins: its bytes are the next of the program.                  *)
LEMMA BeginInv ==
  ASSUME CodecWriterAssumption, WriterInv, pc = "idle", err = "OK",
         NEW n \in 0..MaxWriteLen, accepted + n <= MaxStream, asked' = n,
         next_in' = Bytes(accepted, n),
         \/ pc' = "write" /\ codec \in {"zlib", "bzip", "lzma"}
         \/ pc' = "zstdEncode" /\ codec = "zstd" /\ n > 0
         \/ pc' = "lz4Write" /\ codec = "lz4" /\ n > 0,
         ready' \in BOOLEAN,
         UNCHANGED <<codec, inside, finishing, outbuff, err, child, closing, ret, history>>
  PROVE  WriterInv'
<1> USE DEF WriterInv, history
<1>1. accepted \in Nat /\ n \in Nat /\ MaxStream \in Nat
  BY DEF WriterTypeOK
<1>2. next_in' \in Seq(Nat) /\ Len(next_in') = n
  BY <1>1, BytesFacts
<1>3. WriterTypeOK'
  BY <1>2 DEF WriterTypeOK, Room
<1>4. next_in' = <<>> => n = 0
  BY <1>2
<1>5. WriterCallInv'
  BY <1>1, <1>2, <1>4 DEF WriterCallInv, Room, Writing, Closing
<1>6. WriterErrorInv'
  BY DEF WriterErrorInv
<1>7. Made' = Made /\ WriterPosition' = accepted /\ WriterPosition = accepted /\ pc' \in Writing
  BY <1>1, <1>2 DEF Made, WriterPosition, Writing
<1>8. WriterDataInv'
  <2>1. ~misreported => Made = Started(accepted)
    BY <1>7 DEF WriterDataInv
  <2>2. next_in' = Bytes(WriterPosition', Len(next_in'))
    BY <1>2, <1>7
  <2>3. Started(WriterPosition)' = Started(accepted)
    BY <1>7 DEF Started
  <2> QED BY <1>7, <2>1, <2>2, <2>3 DEF WriterDataInv, Writing
<1>9. WriterCloseInv'
  BY DEF WriterCloseInv, Closing
<1> QED BY <1>3, <1>5, <1>6, <1>8, <1>9

(* The heads of the writes.                                                *)
LEMMA StartWriteInv ==
  ASSUME CodecWriterAssumption, WriterInv, NEW n \in 0..MaxWriteLen,
         zlib_wwrite(n) \/ bz_wwrite(n) \/ lzma_wwrite(n)
  PROVE  WriterInv'
<1>1. StartWrite(n) /\ codec \in {"zlib", "bzip", "lzma"}
  BY DEF zlib_wwrite, bz_wwrite, lzma_wwrite
<1>2. ready \in BOOLEAN
  BY DEF WriterInv, WriterTypeOK
<1>3. CASE err = "OK"
  BY <1>1, <1>2, <1>3, BeginInv DEF StartWrite, owner, history
<1>4. CASE err = "ERROR"
  BY <1>1, <1>4, ReportInv DEF StartWrite, Writing, encoder
<1> QED BY <1>1, <1>3, <1>4 DEF StartWrite

(* The head of zstd_wwrite, which also sets up its output buffer.          *)
LEMMA ZstdStartInv ==
  ASSUME CodecWriterAssumption, WriterInv, NEW n \in 0..MaxWriteLen, zstd_wwrite(n)
  PROVE  WriterInv'
<1>1. ready \in BOOLEAN /\ MaxWriteLen \in Nat
  BY DEF WriterInv, WriterTypeOK
<1>2. CASE err = "OK" /\ n > 0
  <2>1. ready' \in BOOLEAN
    <3>1. ready' = TRUE
      BY <1>1, <1>2 DEF zstd_wwrite
    <3> QED BY <3>1, Zenon
  <2> QED BY <1>1, <1>2, <2>1, BeginInv DEF zstd_wwrite, history
<1>3. CASE err = "ERROR" \/ n = 0
  BY <1>1, <1>3, ReportInv DEF zstd_wwrite, Writing, encoder, owner
<1> QED BY <1>2, <1>3 DEF zstd_wwrite

(* The head of lz4_wwrite.                                                 *)
LEMMA Lz4StartInv ==
  ASSUME CodecWriterAssumption, WriterInv, NEW n \in 0..MaxWriteLen, lz4_wwrite(n)
  PROVE  WriterInv'
<1>1. ready \in BOOLEAN /\ MaxWriteLen \in Nat
  BY DEF WriterInv, WriterTypeOK
<1>2. CASE err = "OK" /\ n > 0
  BY <1>1, <1>2, BeginInv DEF lz4_wwrite, history, owner
<1>3. CASE err = "ERROR" \/ n = 0
  BY <1>1, <1>3, ReportInv DEF lz4_wwrite, Writing, encoder, owner
<1> QED BY <1>2, <1>3 DEF lz4_wwrite

(* The flushes that do nothing, and after the close.                       *)
LEMMA NoFlushInv ==
  ASSUME CodecWriterAssumption, WriterInv,
         bz_wflush \/ lzma_wflush \/ zstd_wflush \/ WriterClosed
  PROVE  WriterInv'
<1>1. MaxWriteLen \in Nat
  OBVIOUS
<1>2. CASE bz_wflush \/ lzma_wflush \/ zstd_wflush
  BY <1>1, <1>2, ReportInv DEF bz_wflush, lzma_wflush, zstd_wflush, NoFlush, Writing
<1>3. CASE WriterClosed
  <2>1. asked \in 0..MaxWriteLen /\ ret \in -1..MaxWriteLen
    BY DEF WriterInv, WriterTypeOK
  <2> QED BY <1>3, <2>1, ReportInv DEF WriterClosed, writerVars, Writing
<1> QED BY <1>2, <1>3

(* A full outbuff goes to the child in the middle of a write.              *)
LEMMA DrainInv ==
  ASSUME CodecWriterAssumption, WriterInv, WriteDrain \/ Lz4Drain
  PROVE  WriterInv'
<1> USE DEF WriterInv, encoder, owner
<1>1. /\ ChildTakes /\ outbuff' = <<>> /\ pc \in {"write", "lz4Write"}
      /\ UNCHANGED <<encoder, err, pc, owner, asked, ret, accepted, misreported>>
  BY DEF WriteDrain, Lz4Drain, Reset
<1>2. /\ child' \in Seq(Int) /\ outbuff' \in Seq(Int) /\ Room' >= 0
      /\ Made' = Made /\ failed' = failed
  BY <1>1, DrainFacts
<1>3. WriterTypeOK'
  BY <1>1, <1>2 DEF WriterTypeOK
<1>4. WriterCallInv'
  BY <1>1, <1>2 DEF WriterCallInv, Writing, Closing
<1>5. WriterErrorInv'
  BY <1>1, <1>2 DEF WriterErrorInv
<1>6. WriterPosition' = WriterPosition /\ Started(WriterPosition)' = Started(WriterPosition)
  BY <1>1 DEF WriterPosition, Started
<1>7. WriterDataInv'
  BY <1>1, <1>2, <1>6 DEF WriterDataInv, Writing
<1>8. WriterCloseInv'
  BY <1>1 DEF WriterCloseInv, Closing
<1> QED BY <1>3, <1>4, <1>5, <1>7, <1>8

(* A stretch of the caller's bytes goes to the encoder during a write.     *)
LEMMA EncodeInv ==
  ASSUME CodecWriterAssumption, WriterInv, Encodes("RUN"),
         \/ pc = "write" /\ pc' = "write"
         \/ pc = "zstdEncode" /\ pc' = "zstdDrain",
         UNCHANGED <<err, child, owner, asked, ret, history>>
  PROVE  WriterInv'
<1> USE DEF WriterInv, owner, history
<1>1. /\ next_in \in Seq(Nat) /\ next_in \in Seq(Int) /\ Len(next_in) \in Nat
      /\ asked \in Nat /\ accepted \in Nat /\ Cap \in Nat /\ Cap > 0
      /\ Len(next_in) <= asked /\ pc \in Writing /\ pc' \in Writing
  BY WriterTypes DEF WriterCallInv, Writing
<1>2. PICK m \in 0..Len(next_in) :
           /\ codec' = codec
           /\ next_in' = SubSeq(next_in, m + 1, Len(next_in))
           /\ next_in' \in Seq(Nat) /\ Len(next_in') = Len(next_in) - m
           /\ inside' \in Seq(Int) /\ outbuff' \in Seq(Int)
           /\ Room' >= 0
           /\ Room' # 0 => m = Len(next_in)
           /\ finishing' \in BOOLEAN
           /\ finishing' <=> finishing
           /\ Made' = Made \o (SubSeq(next_in, 1, m) \o Added("RUN", m))
  BY EncodeFacts
<1>3. m \in Nat /\ codec \notin {"lz4"}
  BY <1>1, <1>2 DEF WriterCallInv
<1>4. WriterTypeOK'
  BY <1>1, <1>2 DEF WriterTypeOK
<1>5. outbuff' = <<>> => next_in' = <<>>
  <2>1. outbuff' = <<>> => Room' = Cap
    BY <1>1, <1>2 DEF Room, Cap
  <2>2. outbuff' = <<>> => Len(next_in') = 0
    BY <1>1, <1>2, <2>1
  <2> QED BY <1>2, <2>2
<1>6. WriterCallInv'
  <2>1. Len(next_in') <= asked'
    BY <1>1, <1>2, <1>3
  <2>2. asked' = asked /\ accepted' = accepted /\ err' = err
    OBVIOUS
  <2>3. ~closing /\ ~finishing
    BY <1>1 DEF WriterCallInv, Writing, Closing
  <2>4. ~closing' /\ ~finishing'
    BY <1>2, <2>3
  <2>5. CASE pc = "write"
    <3>1. pc' = "write" /\ codec' \in {"zlib", "bzip", "lzma"} /\ accepted + asked <= MaxStream
      BY <1>2, <2>5 DEF WriterCallInv, Writing
    <3> QED BY <2>1, <2>2, <2>4, <3>1 DEF WriterCallInv, Writing, Closing
  <2>6. CASE pc = "zstdEncode"
    BY <1>1, <1>2, <1>3, <1>5, <2>1, <2>2, <2>4, <2>6 DEF WriterCallInv, Writing, Closing
  <2> QED BY <2>5, <2>6
<1>7. WriterErrorInv'
  BY <1>2 DEF WriterErrorInv
<1>8. WriterDataInv'
  <2> SUFFICES ASSUME err = "OK", ~misreported
               PROVE  next_in' = Bytes(WriterPosition', Len(next_in'))
                      /\ Made' = Started(WriterPosition)'
    BY <1>1 DEF WriterDataInv, Writing
  <2> DEFINE L == Len(next_in)
             p == WriterPosition
  <2>1. next_in = Bytes(p, L) /\ Made = Started(p)
    BY <1>1 DEF WriterDataInv
  <2>2. p \in Nat /\ p + m \in Nat /\ WriterPosition' = p + m /\ L \in Nat /\ m \in 0..L
    <3>1. p = (accepted + asked) - L /\ WriterPosition' = (accepted + asked) - Len(next_in')
      BY <1>1 DEF WriterPosition
    <3> QED BY <1>1, <1>2, <1>3, <3>1
  <2>3. Started(WriterPosition)' = Started(p + m)
    BY <1>2, <2>2 DEF Started
  <2> HIDE DEF p, L
  <2>4. SubSeq(Bytes(p, L), 1, m) = Bytes(p, m)
        /\ SubSeq(Bytes(p, L), m + 1, L) = Bytes(p + m, L - m)
    BY <2>2, SplitBytes, Zenon
  <2>5. next_in' = Bytes(WriterPosition', Len(next_in'))
    BY <1>2, <2>1, <2>2, <2>4 DEF L
  <2>6. Started(p) \o Bytes(p, m) = Started(p + m)
    BY <1>3, <2>2, StartedFacts
  <2>7. Made' = Started(p) \o Bytes(p, m)
    <3>1. Bytes(p, m) \in Seq(Int)
      BY <1>3, <2>2, BytesFacts, NatSeqInt
    <3>2. Bytes(p, m) \o <<>> = Bytes(p, m)
      BY <3>1, NothingAdded
    <3>3. Added("RUN", m) = <<>>
      BY DEF Added
    <3>4. SubSeq(next_in, 1, m) = Bytes(p, m)
      BY <2>1, <2>4, Zenon
    <3> QED BY <1>2, <2>1, <3>2, <3>3, <3>4, Zenon
  <2> QED BY <2>3, <2>5, <2>6, <2>7
<1>9. WriterCloseInv'
  BY <1>1 DEF WriterCloseInv, Closing, Writing
<1> QED BY <1>4, <1>6, <1>7, <1>8, <1>9

(* The child fails in the middle of a write.                               *)
LEMMA DrainFailsInv ==
  ASSUME CodecWriterAssumption, WriterInv, WriteDrainFails \/ Lz4DrainFails
  PROVE  WriterInv'
<1> USE DEF WriterInv
<1>1. /\ next_in \in Seq(Nat) /\ Len(next_in) \in Nat /\ asked \in Nat /\ accepted \in Nat
      /\ Len(next_in) <= asked /\ accepted + asked <= MaxStream /\ asked <= MaxWriteLen
      /\ MaxStream \in Nat /\ MaxWriteLen \in Nat
  BY WriterTypes DEF WriterCallInv, Writing, WriteDrainFails, Lz4DrainFails
<1>2. PICK n \in {-1} \cup 1..asked :
        ReturnWrite(n) /\ (pc = "write" => n = IF Taken # 0 THEN Taken ELSE -1)
  <2>1. (IF Taken # 0 THEN Taken ELSE -1) \in {-1} \cup 1..asked
    BY <1>1 DEF Taken
  <2> QED BY <2>1 DEF WriteDrainFails, Lz4DrainFails
<1>3. /\ ret' = n /\ pc' = "idle"
      /\ n > 0 => accepted' = accepted + n
      /\ ~(n > 0) => accepted' = accepted
      /\ misreported' \in BOOLEAN
      /\ misreported' <=> misreported \/ (IF n > 0 THEN n ELSE 0) # asked - Len(next_in)
  <2>1. n \in Int /\ asked - Len(next_in) \in Int
    BY <1>1, <1>2
  <2>2. ReturnOf(n, asked - Len(next_in)) /\ misreported \in BOOLEAN
    BY <1>2 DEF ReturnWrite, WriterTypeOK
  <2> QED BY <2>1, <2>2, WriteReturnFacts
<1>4. /\ failed' = TRUE /\ err' = "ERROR" /\ child' = child
      /\ UNCHANGED <<codec, inside, finishing, outbuff, ready, closing, asked>>
      /\ pc = "write" \/ pc = "lz4Write"
  BY DEF WriteDrainFails, Lz4DrainFails, ChildFails, owner
<1>5. next_in' \in Seq(Nat)
  <2>1. CASE WriteDrainFails
    BY <1>1, <2>1 DEF WriteDrainFails, Garbage
  <2>2. CASE Lz4DrainFails
    BY <2>2 DEF Lz4DrainFails
  <2> QED BY <2>1, <2>2
<1>6. WriterTypeOK'
  <2>1. ret' \in -1..MaxWriteLen /\ accepted' \in 0..MaxStream
    BY <1>1, <1>3
  <2> QED BY <1>3, <1>4, <1>5, <2>1 DEF WriterTypeOK, Room
<1>7. WriterCallInv'
  BY <1>3, <1>4 DEF WriterCallInv, Writing, Closing
<1>8. misreported' => misreported \/ codec \in {"zstd", "lz4"}
  BY <1>1, <1>2, <1>3, <1>4 DEF WriterCallInv, Taken
<1>9. WriterErrorInv' /\ WriterDataInv' /\ WriterCloseInv'
  BY <1>4, <1>8, Failing
<1> QED BY <1>6, <1>7, <1>9

(* The encoder fails in the middle of a write; the call is still to        *)
(* return.                                                                 *)
LEMMA WriteEncoderFailsInv ==
  ASSUME CodecWriterAssumption, WriterInv, WriteEncoderFails
  PROVE  WriterInv'
<1> USE DEF WriterInv, WriteEncoderFails, EncoderFails, encoder, owner
<1>1. WriterTypeOK'
  BY DEF WriterTypeOK, Room
<1>2. WriterCallInv'
  BY DEF WriterCallInv, Room, Writing, Closing
<1>3. WriterErrorInv' /\ WriterDataInv' /\ WriterCloseInv'
  BY Failing
<1> QED BY <1>1, <1>2, <1>3

(* The end of a write of zlib, bzip and lzma.                              *)
LEMMA WriteReturnInv ==
  ASSUME CodecWriterAssumption, WriterInv, WriteReturn
  PROVE  WriterInv'
<1> USE DEF WriterInv
<1>1. /\ next_in \in Seq(Nat) /\ Len(next_in) \in Nat /\ asked \in Nat /\ accepted \in Nat
      /\ Len(next_in) <= asked /\ accepted + asked <= MaxStream /\ asked <= MaxWriteLen
      /\ MaxStream \in Nat /\ MaxWriteLen \in Nat
      /\ codec \in {"zlib", "bzip", "lzma"} /\ ~closing /\ ~finishing /\ pc = "write"
  BY WriterTypes DEF WriterCallInv, Writing, Closing, WriteReturn
<1> DEFINE n == asked - Len(next_in)
<1>2. n \in 0..asked /\ ReturnOf(n, n)
  BY <1>1 DEF ReturnWrite, WriteReturn, Taken
<1> HIDE DEF n
<1>3. /\ ret' = n /\ pc' = "idle"
      /\ n > 0 => accepted' = accepted + n
      /\ ~(n > 0) => accepted' = accepted
      /\ misreported' \in BOOLEAN
      /\ misreported' <=> misreported \/ (IF n > 0 THEN n ELSE 0) # n
  BY <1>1, <1>2, WriteReturnFacts DEF WriterTypeOK
<1>4. accepted' = accepted + n /\ (misreported' <=> misreported)
  BY <1>1, <1>2, <1>3
<1>5. /\ UNCHANGED <<codec, inside, finishing, outbuff, err, child, ready, closing, asked,
                     failed>>
      /\ next_in' \in Seq(Nat)
      /\ next_in = <<>> => next_in' = <<>>
      /\ err = "OK" => next_in = <<>>
  BY <1>1 DEF WriteReturn, Garbage, owner, MoreInput
<1>6. WriterTypeOK'
  <2>1. ret' \in -1..MaxWriteLen /\ accepted' \in 0..MaxStream
    BY <1>1, <1>2, <1>3, <1>4
  <2> QED BY <1>3, <1>5, <2>1 DEF WriterTypeOK, Room
<1>7. WriterCallInv'
  BY <1>1, <1>3, <1>5 DEF WriterCallInv, Writing, Closing
<1>8. WriterErrorInv'
  BY <1>1, <1>4, <1>5 DEF WriterErrorInv
<1>9. err = "OK" /\ ~misreported => next_in' = <<>> /\ Made' = Started(accepted')
  <2>1. err = "OK" => n = asked /\ WriterPosition = accepted + n
    BY <1>1, <1>5 DEF WriterPosition, Writing, n
  <2> QED BY <1>1, <1>4, <1>5, <2>1 DEF WriterDataInv, Made, Writing
<1>10. WriterDataInv'
  BY <1>3, <1>4, <1>5, <1>9 DEF WriterDataInv, WriterPosition, Writing, Started
<1>11. WriterCloseInv'
  <2>1. ~failed' /\ (codec' = "zstd" \/ ~misreported') => err = "OK" /\ ~misreported
    BY <1>1, <1>4, <1>5 DEF WriterErrorInv, WriterTypeOK
  <2>2. err = "OK" /\ ~misreported => Committed(0)'
    BY <1>1, <1>4, <1>5, <1>9 DEF Committed, Started
  <2> QED BY <1>1, <1>3, <1>9, <2>1, <2>2 DEF WriterCloseInv, Closing
<1> QED BY <1>6, <1>7, <1>8, <1>10, <1>11

(* The encoder of zstd or lz4 fails, or the child of zstd does: the write  *)
(* returns -1, whatever the encoder has taken of it.                       *)
LEMMA GiveUpFacts ==
  ASSUME CodecWriterAssumption, WriterInv, pc \in Writing, ReturnWrite(-1), next_in' = <<>>,
         UNCHANGED <<codec, inside, finishing, asked, ready, closing>>,
         outbuff' = outbuff \/ outbuff' = <<>>,
         codec = "zstd" => outbuff' = <<>>,
         err' \in {"OK", "ERROR"}, child' = child, failed' \in BOOLEAN
  PROVE  /\ WriterTypeOK' /\ WriterCallInv' /\ accepted' = accepted /\ pc' = "idle" /\ ~finishing'
         /\ misreported' \in BOOLEAN
         /\ misreported' <=> misreported \/ asked # Len(next_in)
<1> USE DEF WriterInv
<1>1. /\ Len(next_in) \in Nat /\ asked \in Nat /\ accepted \in Nat /\ MaxWriteLen \in Nat
      /\ Cap \in Nat /\ outbuff \in Seq(Int)
  BY WriterTypes
<1>2. ReturnOf(-1, asked - Len(next_in)) /\ misreported \in BOOLEAN
      /\ -1 \in Int /\ asked - Len(next_in) \in Int
  BY <1>1 DEF ReturnWrite, WriterTypeOK
<1>3. /\ ret' = -1 /\ pc' = "idle" /\ accepted' = accepted
      /\ misreported' \in BOOLEAN
      /\ misreported' <=> misreported \/ 0 # asked - Len(next_in)
  BY <1>2, WriteReturnFacts
<1>4. outbuff' \in Seq(Int) /\ Room' >= 0
  <2>1. CASE outbuff' = outbuff
    BY <1>1, <2>1 DEF Room, WriterTypeOK
  <2>2. CASE outbuff' = <<>>
    BY <1>1, <2>2 DEF Room, Cap
  <2> QED BY <2>1, <2>2
<1>5. WriterTypeOK'
  BY <1>1, <1>3, <1>4 DEF WriterTypeOK
<1>6. ~closing' /\ ~finishing'
  BY DEF WriterCallInv, Writing, Closing
<1>7. WriterCallInv'
  BY <1>3, <1>6 DEF WriterCallInv, Writing, Closing
<1> QED BY <1>1, <1>3, <1>5, <1>6, <1>7

(* The zstd encoder reports an error.                                      *)
LEMMA ZstdEncoderFailsInv ==
  ASSUME CodecWriterAssumption, WriterInv, ZstdEncoderFails
  PROVE  WriterInv'
<1> USE DEF WriterInv
<1>1. outbuff = <<>> /\ codec = "zstd"
  BY DEF WriterCallInv, ZstdEncoderFails, Closing
<1>2. /\ WriterTypeOK' /\ WriterCallInv' /\ accepted' = accepted /\ pc' = "idle" /\ ~finishing'
      /\ misreported' \in BOOLEAN
      /\ misreported' <=> misreported \/ asked # Len(next_in)
  <2>1. failed' \in BOOLEAN
    BY Zenon DEF ZstdEncoderFails
  <2> QED BY <1>1, <2>1, GiveUpFacts DEF ZstdEncoderFails, Writing, owner
<1>3. WriterErrorInv' /\ WriterDataInv' /\ WriterCloseInv'
  BY <1>1, Failing DEF ZstdEncoderFails
<1> QED BY <1>2, <1>3

(* lz4 keeps err, but if the encoder had taken bytes it is known that the  *)
(* result is not their number.                                             *)
LEMMA Lz4EncoderFailsInv ==
  ASSUME CodecWriterAssumption, WriterInv, Lz4EncoderFails
  PROVE  WriterInv'
<1> USE DEF WriterInv
<1>1. codec = "lz4" /\ codec' = codec /\ failed' = TRUE /\ err' = err /\ pc \in Writing
  BY DEF WriterCallInv, Lz4EncoderFails, Writing
<1>2. /\ WriterTypeOK' /\ WriterCallInv' /\ accepted' = accepted /\ pc' = "idle" /\ ~finishing'
      /\ misreported' \in BOOLEAN
      /\ misreported' <=> misreported \/ asked # Len(next_in)
  <2>1. failed' \in BOOLEAN
    BY <1>1, Zenon
  <2>2. err' \in {"OK", "ERROR"}
    BY <1>1 DEF WriterTypeOK
  <2> QED BY <1>1, <2>1, <2>2, GiveUpFacts DEF Lz4EncoderFails, owner
<1>3. WriterErrorInv'
  BY <1>1 DEF WriterErrorInv
<1>4. WriterDataInv'
  <2>1. accepted \in Nat /\ asked \in Nat
    BY WriterTypes
  <2>2. asked = Len(next_in) => WriterPosition = accepted
    BY <1>1, <2>1 DEF WriterPosition
  <2>3. Made' = Made /\ next_in' = <<>>
    BY DEF Lz4EncoderFails, Made
  <2>4. err = "OK" /\ ~misreported' => Made = Started(accepted)
    BY <1>1, <1>2, <2>2 DEF WriterDataInv
  <2>5. WriterPosition' = accepted /\ Started(WriterPosition)' = Started(accepted)
    BY <1>1, <1>2 DEF WriterPosition, Writing, Started
  <2> QED BY <1>1, <1>2, <2>3, <2>4, <2>5 DEF WriterDataInv, Writing
<1>5. WriterCloseInv'
  BY <1>1 DEF WriterCloseInv
<1> QED BY <1>2, <1>3, <1>4, <1>5

(* When the zstd encoder has written nothing its bytes are committed, and  *)
(* the write is refused all the same.                                      *)
LEMMA ZstdDrainFailsInv ==
  ASSUME CodecWriterAssumption, WriterInv, ZstdDrainFails
  PROVE  WriterInv'
<1> USE DEF WriterInv
<1>1. /\ codec = "zstd" /\ codec' = codec /\ err = "OK" /\ err' = "ERROR" /\ asked > 0
      /\ pc \in Writing /\ child' = child /\ next_in' = <<>> /\ outbuff' = <<>>
      /\ inside' = inside /\ ~misreported
      /\ outbuff # <<>> => failed' = TRUE
      /\ outbuff = <<>> => failed' = failed /\ next_in = <<>>
  BY DEF WriterCallInv, WriterErrorInv, ZstdDrainFails, ChildFails, Writing
<1>2. /\ WriterTypeOK' /\ WriterCallInv' /\ accepted' = accepted /\ pc' = "idle" /\ ~finishing'
      /\ misreported' \in BOOLEAN
      /\ misreported' <=> misreported \/ asked # Len(next_in)
  <2>1. failed' \in BOOLEAN
    BY <1>1, Zenon DEF WriterTypeOK
  <2> QED BY <1>1, <2>1, GiveUpFacts DEF ZstdDrainFails, owner
<1>3. CASE outbuff # <<>>
  <2>1. WriterErrorInv' /\ WriterDataInv' /\ WriterCloseInv'
    BY <1>1, <1>3, Failing
  <2> QED BY <1>2, <2>1
<1>4. CASE outbuff = <<>>
  <2>1. misreported' /\ Len(next_in) = 0 /\ asked \in 0..MaxWriteLen /\ accepted \in Nat
    BY <1>1, <1>2, <1>4 DEF WriterTypeOK
  <2>2. WriterErrorInv'
    BY <1>1, <2>1 DEF WriterErrorInv
  <2>3. WriterDataInv'
    BY <2>1 DEF WriterDataInv
  <2>4. Made' = Started(accepted + asked)
    <3>1. Made' = Made
      BY <1>1, <1>4 DEF Made
    <3>2. WriterPosition = accepted + asked
      BY <1>1, <2>1 DEF WriterPosition
    <3> QED BY <1>1, <3>1, <3>2 DEF WriterDataInv
  <2>5. Committed(asked)'
    <3>1. asked' = asked
      BY DEF ZstdDrainFails
    <3> QED BY <1>1, <1>2, <2>1, <2>4, <3>1 DEF Committed, Started
  <2>6. WriterCloseInv'
    <3>1. asked' \in 0..MaxWriteLen
      BY <1>2 DEF WriterTypeOK
    <3> QED BY <1>1, <1>2, <2>5, <3>1 DEF WriterCloseInv, Closing
  <2> QED BY <1>2, <2>2, <2>3, <2>6
<1> QED BY <1>3, <1>4

(* What the zstd encoder wrote goes to the child.                          *)
LEMMA ZstdDrainInv ==
  ASSUME CodecWriterAssumption, WriterInv, ZstdDrain
  PROVE  WriterInv'
<1> USE DEF WriterInv, encoder, owner
<1>1. /\ codec = "zstd" /\ codec' = codec /\ err = "OK" /\ err' = err /\ asked > 0
      /\ pc = "zstdDrain" /\ next_in' = next_in /\ outbuff' = <<>> /\ ~misreported
      /\ UNCHANGED <<inside, finishing, ready, closing, asked>>
      /\ ~closing /\ ~finishing /\ accepted + asked <= MaxStream /\ Len(next_in) <= asked
      /\ ChildTakes
  BY DEF WriterCallInv, WriterErrorInv, ZstdDrain, Writing, Closing, Reset
<1>2. /\ Len(next_in) \in Nat /\ asked \in Nat /\ accepted \in Nat /\ asked <= MaxWriteLen
      /\ MaxWriteLen \in Nat /\ MaxStream \in Nat /\ next_in \in Seq(Nat)
  BY WriterTypes
<1>3. /\ child' \in Seq(Int) /\ outbuff' \in Seq(Int) /\ Room' >= 0
      /\ Made' = Made /\ failed' = failed
  BY <1>1, DrainFacts
<1>4. Made = Started(WriterPosition) /\ next_in = Bytes(WriterPosition, Len(next_in))
      /\ WriterPosition = (accepted + asked) - Len(next_in)
  BY <1>1 DEF WriterDataInv, Writing, WriterPosition
<1>5. CASE next_in # <<>>
  <2>1. pc' = "zstdEncode" /\ UNCHANGED <<ret, accepted, misreported>>
    BY <1>5 DEF ZstdDrain
  <2>2. WriterTypeOK'
    BY <1>1, <1>3, <2>1 DEF WriterTypeOK
  <2>3. WriterCallInv'
    BY <1>1, <1>2, <2>1 DEF WriterCallInv, Writing, Closing
  <2>4. WriterErrorInv'
    BY <1>1, <2>1 DEF WriterErrorInv
  <2>5. WriterPosition' = WriterPosition
        /\ Started(WriterPosition)' = Started(WriterPosition)
    BY <1>1, <2>1 DEF WriterPosition, Writing, Started
  <2>6. WriterDataInv'
    BY <1>1, <1>3, <1>4, <2>1, <2>5 DEF WriterDataInv
  <2>7. WriterCloseInv'
    BY <2>1 DEF WriterCloseInv, Closing
  <2> QED BY <2>2, <2>3, <2>4, <2>6, <2>7
<1>6. CASE next_in = <<>>
  <2>1. ReturnOf(asked, asked) /\ misreported \in BOOLEAN
    <3>1. asked - Len(next_in) = asked
      BY <1>2, <1>6
    <3> QED BY <1>6, <3>1 DEF ZstdDrain, ReturnWrite, ZstdResult, WriterTypeOK
  <2>2. /\ ret' = asked /\ pc' = "idle" /\ accepted' = accepted + asked
        /\ misreported' \in BOOLEAN /\ ~misreported'
    BY <1>1, <1>2, <2>1, WriteReturnFacts
  <2>3. WriterTypeOK'
    <3>1. ret' \in -1..MaxWriteLen /\ accepted' \in 0..MaxStream
      BY <1>1, <1>2, <2>2
    <3> QED BY <1>1, <1>3, <2>2, <3>1 DEF WriterTypeOK
  <2>4. WriterCallInv'
    BY <1>1, <2>2 DEF WriterCallInv, Writing, Closing
  <2>5. WriterErrorInv'
    BY <1>1, <2>2 DEF WriterErrorInv
  <2>6. Made' = Started(accepted')
    BY <1>2, <1>3, <1>4, <1>6, <2>2
  <2>7. WriterDataInv'
    BY <1>1, <1>6, <2>2, <2>6 DEF WriterDataInv, WriterPosition, Writing, Started
  <2>8. Committed(0)'
    BY <1>1, <1>2, <2>2, <2>6 DEF Committed, Started
  <2>9. WriterCloseInv'
    BY <1>1, <1>2, <1>6, <2>2, <2>8 DEF WriterCloseInv, Closing
  <2> QED BY <2>3, <2>4, <2>5, <2>7, <2>9
<1> QED BY <1>5, <1>6

(* The pieces of an lz4 write.                                             *)
LEMMA PieceFacts ==
  ASSUME CodecWriterAssumption, WriterTypeOK
  PROVE  /\ Piece \in Seq(Int)
         /\ Len(Piece) \in 0..Len(next_in)
         /\ Len(Piece) = Smaller(outbuf_size_max, Len(next_in))
         /\ Piece = SubSeq(next_in, 1, Len(Piece))
<1>1. /\ next_in \in Seq(Int) /\ Len(next_in) \in Nat /\ outbuf_size_max \in Nat
  BY WriterTypes
<1> DEFINE l == Smaller(outbuf_size_max, Len(next_in))
<1>2. l \in 0..Len(next_in)
  BY <1>1 DEF Smaller
<1> HIDE DEF l
<1>3. SubSeq(next_in, 1, l) \in Seq(Int) /\ Len(SubSeq(next_in, 1, l)) = l
  BY <1>1, <1>2, SplitType
<1>4. Piece = SubSeq(next_in, 1, l)
  BY DEF Piece, l
<1> QED BY <1>2, <1>3, <1>4 DEF l

(* A piece goes to the lz4 encoder: it fits, whatever the encoder writes.  *)
LEMMA Lz4EncodeFacts ==
  ASSUME CodecWriterAssumption, WriterInv, Lz4Encode
  PROVE  /\ inside' \in Seq(Int) /\ outbuff' \in Seq(Int) /\ Room' >= 0
         /\ Len(inside') < LZ4_BLOCK
         /\ next_in' \in Seq(Nat) /\ Len(next_in') = Len(next_in) - Len(Piece)
         /\ Made' = Made \o Piece
<1> USE DEF WriterInv
<1>1. /\ next_in \in Seq(Nat) /\ next_in \in Seq(Int) /\ Len(next_in) \in Nat
      /\ inside \in Seq(Int) /\ Len(inside) \in Nat
      /\ outbuff \in Seq(Int) /\ Len(outbuff) \in Nat /\ child \in Seq(Int)
      /\ Room \in Nat /\ Room = Cap - Len(outbuff) /\ Cap \in Nat /\ LZ4_BLOCK \in Nat
  BY WriterTypes
<1>2. Piece \in Seq(Int) /\ Len(Piece) \in 0..Len(next_in) /\ Len(Piece) \in Nat
  BY <1>1, PieceFacts
<1> DEFINE held == inside \o Piece
<1>3. PICK e \in 0 .. Len(inside) + Len(Piece) :
           /\ Len(held) - e < LZ4_BLOCK
           /\ outbuff' = outbuff \o SubSeq(held, 1, e)
           /\ inside' = SubSeq(held, e + 1, Len(held))
  BY DEF Lz4Encode
<1>4. held \in Seq(Int) /\ Len(held) = Len(inside) + Len(Piece)
  BY <1>1, <1>2, RowType
<1>5. (child \o outbuff) \o held = Made \o Piece
  <2>1. child \o outbuff \in Seq(Int)
    BY <1>1, RowType
  <2> QED BY <1>1, <1>2, <2>1, RowAssoc DEF Made
<1> HIDE DEF held
<1>6. e \in 0..Len(held)
  BY <1>1, <1>2, <1>3, <1>4
<1>7. /\ SubSeq(held, 1, e) \in Seq(Int) /\ Len(SubSeq(held, 1, e)) = e
      /\ inside' \in Seq(Int) /\ Len(inside') = Len(held) - e
  BY <1>3, <1>4, <1>6, SplitType
<1>8. outbuff' \in Seq(Int) /\ Len(outbuff') = Len(outbuff) + e
  BY <1>1, <1>3, <1>7, RowType
<1>9. Room' >= 0
  <2>1. codec = "lz4" /\ codec' = codec /\ Len(inside) < LZ4_BLOCK
        /\ Len(Piece) + LZ4_BLOCK - 1 <= Room
    BY DEF WriterCallInv, Lz4Encode, upper_bound
  <2>2. Room' = Cap - Len(outbuff')
    BY <2>1 DEF Room, Cap
  <2> QED BY <1>1, <1>2, <1>3, <1>8, <2>1, <2>2
<1>10. Made' = Made \o Piece
  <2>1. MovedOn(child, outbuff, held, e)
    BY <1>1, <1>4, <1>6, MoveOn
  <2>2. child' = child
    BY DEF Lz4Encode
  <2>3. Made' = (child \o (outbuff \o Front(held, e))) \o Back(held, e)
    BY <1>3, <2>2 DEF Made, Front, Back
  <2> QED BY <1>5, <2>1, <2>3 DEF MovedOn
<1>11. next_in' \in Seq(Nat) /\ Len(next_in') = Len(next_in) - Len(Piece)
  <2> DEFINE l == Len(Piece)
  <2>1. l \in 0..Len(next_in) /\ next_in' = SubSeq(next_in, l + 1, Len(next_in))
    BY <1>2 DEF Lz4Encode
  <2> HIDE DEF l
  <2>2. /\ SubSeq(next_in, l + 1, Len(next_in)) \in Seq(Nat)
        /\ Len(SubSeq(next_in, l + 1, Len(next_in))) = Len(next_in) - l
    BY <1>1, <2>1, SplitType, Zenon
  <2> QED BY <2>1, <2>2 DEF l
<1> QED BY <1>3, <1>7, <1>8, <1>9, <1>10, <1>11

(* lz4_wwrite encodes a piece.                                             *)
LEMMA Lz4EncodeInv ==
  ASSUME CodecWriterAssumption, WriterInv, Lz4Encode
  PROVE  WriterInv'
<1> USE DEF WriterInv
<1>1. /\ codec = "lz4" /\ codec' = codec /\ pc = "lz4Write" /\ ~closing /\ ~finishing
      /\ UNCHANGED <<finishing, err, child, ready, closing, asked, failed>>
      /\ Len(next_in) <= asked /\ accepted + asked <= MaxStream
      /\ next_in # <<>> /\ (Len(next_in) < asked => asked > outbuf_size_max)
  BY DEF WriterCallInv, Lz4Encode, Writing, Closing, owner
<1>2. /\ next_in \in Seq(Nat) /\ Len(next_in) \in Nat /\ next_in \in Seq(Int)
      /\ asked \in Nat /\ asked <= MaxWriteLen /\ accepted \in Nat
      /\ outbuf_size_max \in Nat /\ outbuf_size_max > 0
      /\ MaxWriteLen \in Nat /\ MaxStream \in Nat
  BY WriterTypes
<1>3. /\ inside' \in Seq(Int) /\ outbuff' \in Seq(Int) /\ Room' >= 0
      /\ Len(inside') < LZ4_BLOCK
      /\ next_in' \in Seq(Nat) /\ Len(next_in') = Len(next_in) - Len(Piece)
      /\ Made' = Made \o Piece
  BY Lz4EncodeFacts
<1> DEFINE l == Len(Piece)
           L == Len(next_in)
           p == WriterPosition
<1>4. /\ l \in 0..L /\ l \in Nat /\ L \in Nat /\ L # 0
      /\ l = Smaller(outbuf_size_max, L) /\ Piece = SubSeq(next_in, 1, l)
      /\ next_in' = SubSeq(next_in, l + 1, L)
  <2>1. Len(next_in) # 0
    BY <1>1, <1>2
  <2> QED BY <1>2, <2>1, PieceFacts DEF Lz4Encode
<1>5. p = (accepted + asked) - L /\ p \in Nat /\ p + l \in Nat
  BY <1>1, <1>2, <1>4 DEF WriterPosition, Writing
<1>6. err = "OK" /\ ~misreported
        => next_in' = Bytes(p + l, L - l) /\ Made' = Started(p + l)
  <2> SUFFICES ASSUME err = "OK", ~misreported
               PROVE  next_in' = Bytes(p + l, L - l) /\ Made' = Started(p + l)
    OBVIOUS
  <2>1. next_in = Bytes(p, L) /\ Made = Started(p)
    BY <1>1 DEF WriterDataInv, Writing
  <2> HIDE DEF p, L, l
  <2>2. SubSeq(Bytes(p, L), 1, l) = Bytes(p, l)
        /\ SubSeq(Bytes(p, L), l + 1, L) = Bytes(p + l, L - l)
    <3>1. p \in Nat /\ L \in Nat /\ l \in 0..L
      BY <1>4, <1>5
    <3> QED BY <3>1, SplitBytes, Zenon
  <2>3. Started(p) \o Bytes(p, l) = Started(p + l)
    BY <1>4, <1>5, StartedFacts
  <2>4. Piece = Bytes(p, l)
    BY <1>4, <2>1, <2>2, Zenon
  <2>5. next_in' = Bytes(p + l, L - l)
    BY <1>4, <2>1, <2>2, Zenon
  <2> QED BY <1>3, <2>1, <2>3, <2>4, <2>5, Zenon
<1>7. CASE next_in' # <<>>
  <2>1. UNCHANGED <<pc, ret, accepted, misreported>>
    BY <1>7 DEF Lz4Encode
  <2>2. WriterTypeOK'
    BY <1>1, <1>3, <2>1 DEF WriterTypeOK
  <2>3. Len(next_in') # 0 /\ Len(next_in') = L - l
    BY <1>3, <1>7
  <2>4. asked > outbuf_size_max /\ Len(next_in') <= asked
    BY <1>1, <1>2, <1>4, <2>3 DEF Smaller
  <2>5. WriterCallInv'
    BY <1>1, <1>3, <1>7, <2>1, <2>4 DEF WriterCallInv, Writing, Closing
  <2>6. WriterErrorInv'
    BY <1>1, <2>1 DEF WriterErrorInv
  <2>7. WriterPosition' = p + l
    <3>1. WriterPosition' = (accepted + asked) - Len(next_in')
      BY <1>1, <2>1 DEF WriterPosition, Writing
    <3> QED BY <1>2, <1>3, <1>4, <1>5, <3>1
  <2>8. Started(WriterPosition)' = Started(p + l)
    BY <1>1, <2>7 DEF Started
  <2>9. WriterDataInv'
    <3>1. pc' = "lz4Write" /\ err' = err /\ misreported' = misreported
      BY <1>1, <2>1
    <3> HIDE DEF p, l, L
    <3> QED BY <1>6, <2>3, <2>7, <2>8, <3>1 DEF WriterDataInv, Writing
  <2>10. WriterCloseInv'
    BY <1>1, <2>1 DEF WriterCloseInv, Closing
  <2> QED BY <2>2, <2>5, <2>6, <2>9, <2>10
<1>8. CASE next_in' = <<>>
  <2>1. ReturnOf(l, asked) /\ misreported \in BOOLEAN /\ l \in Int /\ asked \in Int
    BY <1>2, <1>4, <1>8 DEF Lz4Encode, WriterTypeOK
  <2>2. l > 0 /\ l = L
    <3>1. Len(next_in') = 0
      BY <1>8
    <3> QED BY <1>3, <1>4, <3>1
  <2>3. /\ ret' = l /\ pc' = "idle" /\ accepted' = accepted + l
        /\ misreported' \in BOOLEAN
        /\ misreported' <=> misreported \/ l # asked
    <3> HIDE DEF l
    <3> QED BY <2>1, <2>2, WriteReturnFacts
  <2>4. WriterTypeOK'
    <3>1. ret' \in -1..MaxWriteLen /\ accepted' \in 0..MaxStream
      BY <1>1, <1>2, <2>2, <2>3
    <3> QED BY <1>1, <1>3, <2>3, <3>1 DEF WriterTypeOK
  <2>5. WriterCallInv'
    BY <1>1, <1>3, <2>3 DEF WriterCallInv, Writing, Closing
  <2>6. WriterErrorInv'
    BY <1>1, <2>3 DEF WriterErrorInv
  <2>7. err = "OK" /\ ~misreported' => Made' = Started(accepted')
    <3>1. l = asked => p + l = accepted'
      BY <1>2, <1>5, <2>2, <2>3
    <3> HIDE DEF p, l, L
    <3> QED BY <1>6, <2>3, <3>1
  <2>8. WriterDataInv'
    BY <1>1, <1>8, <2>3, <2>7 DEF WriterDataInv, WriterPosition, Writing, Started
  <2>9. WriterCloseInv'
    <3>1. ~failed' /\ (codec' = "zstd" \/ ~misreported') => err = "OK" /\ ~misreported'
      BY <1>1, <2>3 DEF WriterErrorInv, WriterTypeOK
    <3>2. accepted' + 0 = accepted'
      BY <1>2, <1>4, <2>3
    <3>3. err = "OK" /\ ~misreported' => Committed(0)'
      BY <1>1, <2>7, <3>2 DEF Committed, Started
    <3> QED BY <1>1, <1>2, <1>8, <2>3, <3>1, <3>3 DEF WriterCloseInv, Closing
  <2> QED BY <2>4, <2>5, <2>6, <2>8, <2>9
<1> QED BY <1>7, <1>8
-----------------------------------------------------------------------------
(* Flushing: the zlib encoder is told to write all it has.                 *)
LEMMA zlib_wflushInv ==
  ASSUME CodecWriterAssumption, WriterInv, zlib_wflush
  PROVE  WriterInv'
<1> USE DEF WriterInv
<1>1. /\ codec = "zlib" /\ pc = "idle" /\ asked' = 0 /\ child' = child
      /\ UNCHANGED <<ready, closing, accepted, misreported>>
      /\ MaxWriteLen \in Nat /\ accepted \in Nat /\ ~finishing /\ ~closing
  BY DEF zlib_wflush, owner, WriterTypeOK, WriterCallInv, Closing
<1>2. CASE EncoderFails /\ err' = "ERROR" /\ ret' = -1 /\ pc' = pc
  <2> USE DEF EncoderFails, encoder
  <2>1. WriterTypeOK'
    BY <1>1, <1>2 DEF WriterTypeOK, Room
  <2>2. WriterCallInv'
    BY <1>1, <1>2 DEF WriterCallInv, Room, Writing, Closing
  <2>3. WriterErrorInv' /\ WriterDataInv' /\ WriterCloseInv'
    BY <1>1, <1>2, Failing
  <2> QED BY <2>1, <2>2, <2>3
<1>3. CASE Encodes("SYNC_FLUSH") /\ pc' = "drain" /\ UNCHANGED <<err, ret, failed>>
  <2>1. PICK m \in 0..Len(next_in) :
           /\ codec' = codec
           /\ next_in' = SubSeq(next_in, m + 1, Len(next_in))
           /\ next_in' \in Seq(Nat) /\ Len(next_in') = Len(next_in) - m
           /\ inside' \in Seq(Int) /\ outbuff' \in Seq(Int)
           /\ Room' >= 0
           /\ Room' # 0 => m = Len(next_in)
           /\ Room' # 0 /\ "SYNC_FLUSH" # "RUN" => inside' = <<>>
           /\ finishing' \in BOOLEAN
           /\ finishing' <=> finishing \/ ("SYNC_FLUSH" = "FINISH" /\ m = Len(next_in))
           /\ Made' = Made \o (SubSeq(next_in, 1, m) \o Added("SYNC_FLUSH", m))
    BY <1>1, <1>3, EncodeFacts
  <2>2. WriterTypeOK'
    BY <1>1, <1>3, <2>1 DEF WriterTypeOK
  <2>3. WriterCallInv'
    BY <1>1, <1>3, <2>1 DEF WriterCallInv, Writing, Closing
  <2>4. WriterErrorInv'
    BY <1>1, <1>3, <2>1 DEF WriterErrorInv
  <2>5. WriterDataInv'
    <3> SUFFICES ASSUME err = "OK", ~misreported
                 PROVE  next_in' = <<>> /\ Made' = Started(WriterPosition)'
      BY <1>1, <1>3 DEF WriterDataInv, Writing
    <3>1. next_in = <<>> /\ Made = Started(accepted)
      BY <1>1 DEF WriterDataInv, WriterPosition, Writing
    <3>2. m = 0 /\ Len(next_in') = 0
      BY <2>1, <3>1
    <3>3. SubSeq(next_in, 1, m) = <<>> /\ Added("SYNC_FLUSH", m) = <<>>
      BY <3>1, <3>2 DEF Added
    <3>4. Made' = Made
      <4>1. Made \in Seq(Int)
        BY <1>1, <3>1, StartedFacts
      <4>2. <<>> \o <<>> = <<>> /\ Made \o <<>> = Made
        BY <4>1, NothingAdded
      <4> QED BY <2>1, <3>3, <4>2, Zenon
    <3>5. Started(WriterPosition)' = Started(accepted)
      BY <1>1, <1>3, <2>1 DEF WriterPosition, Writing, Started
    <3> QED BY <2>1, <3>1, <3>2, <3>4, <3>5
  <2>6. WriterCloseInv'
    BY <1>3 DEF WriterCloseInv, Closing
  <2> QED BY <2>2, <2>3, <2>4, <2>5, <2>6
<1> QED BY <1>2, <1>3 DEF zlib_wflush

(* The child fails in the middle of a flush.                               *)
LEMMA FlushFailsInv ==
  ASSUME CodecWriterAssumption, WriterInv,
         pc \in {"drain", "flush", "lz4Flush", "lz4FlushOut"},
         ChildFails, err' = "ERROR", ret' = -1,
         outbuff' = outbuff \/ outbuff' = <<>>,
         pc' = IF closing THEN "lz4End" ELSE "idle",
         UNCHANGED <<encoder, owner, asked, accepted, misreported>>
  PROVE  WriterInv'
<1> USE DEF WriterInv, encoder, owner, ChildFails
<1>1. Cap \in Nat /\ outbuff \in Seq(Int) /\ MaxWriteLen \in Nat
  BY WriterTypes
<1>2. outbuff' \in Seq(Int) /\ Room' >= 0
  <2>1. CASE outbuff' = outbuff
    BY <1>1, <2>1 DEF Room, WriterTypeOK
  <2>2. CASE outbuff' = <<>>
    BY <1>1, <2>2 DEF Room, Cap
  <2> QED BY <2>1, <2>2
<1>3. WriterTypeOK'
  <2>1. pc' \in {"idle", "lz4End"}
    OBVIOUS
  <2> QED BY <1>1, <1>2, <2>1 DEF WriterTypeOK
<1>4. ~finishing /\ (closing => codec = "lz4")
  BY DEF WriterCallInv, Closing
<1>5. CASE closing
  <2>1. WriterCallInv'
    BY <1>4, <1>5 DEF WriterCallInv, Writing, Closing
  <2> QED BY <1>3, <2>1, Failing
<1>6. CASE ~closing
  <2>1. WriterCallInv'
    BY <1>4, <1>6 DEF WriterCallInv, Writing, Closing
  <2> QED BY <1>3, <2>1, Failing
<1> QED BY <1>5, <1>6

(* zlib_wflush hands outbuff to the child.                                 *)
LEMMA FlushDrainInv ==
  ASSUME CodecWriterAssumption, WriterInv, FlushDrain
  PROVE  WriterInv'
<1> USE DEF WriterInv, encoder, owner
<1>1. /\ codec = "zlib" /\ pc = "drain" /\ ~closing /\ ~finishing
      /\ UNCHANGED <<encoder, outbuff, owner, asked, accepted, misreported>>
  BY DEF FlushDrain, WriterCallInv, Closing
<1>2. CASE ChildFails /\ err' = "ERROR" /\ ret' = -1 /\ pc' = "idle"
  BY <1>1, <1>2, FlushFailsInv
<1>3. CASE ChildTakes /\ pc' = "flush" /\ UNCHANGED <<err, ret>>
  <2> USE DEF ChildTakes
  <2>1. child' = child \o outbuff /\ child' \in Seq(Int)
    BY <1>3, WriterTypes, RowType
  <2>2. WriterTypeOK'
    BY <1>1, <1>3, <2>1 DEF WriterTypeOK, Room
  <2>3. WriterCallInv'
    BY <1>1, <1>3 DEF WriterCallInv, Room, Writing, Closing
  <2>4. WriterErrorInv'
    BY <1>1, <1>3 DEF WriterErrorInv
  <2>5. WriterDataInv'
    <3>1. err = "OK" /\ ~misreported => Made = Started(accepted) /\ next_in = <<>>
      BY <1>1 DEF WriterDataInv, WriterPosition, Writing
    <3>2. (child \o inside)' = Made /\ Started(accepted)' = Started(accepted)
      BY <1>1, <2>1 DEF Made, Started
    <3> QED BY <1>1, <1>3, <3>1, <3>2 DEF WriterDataInv, Writing
  <2>6. WriterCloseInv'
    BY <1>3 DEF WriterCloseInv, Closing
  <2> QED BY <2>2, <2>3, <2>4, <2>5, <2>6
<1> QED BY <1>2, <1>3 DEF FlushDrain

(* A flush is over, or the part of a close that is one.                    *)
LEMMA FlushChildInv ==
  ASSUME CodecWriterAssumption, WriterInv, FlushChild
  PROVE  WriterInv'
<1> USE DEF WriterInv, encoder, owner
<1>1. /\ codec \in {"zlib", "lz4"} /\ pc = "flush" /\ ~finishing
      /\ closing => codec = "lz4"
      /\ pc' = IF closing THEN "lz4End" ELSE "idle"
      /\ UNCHANGED <<encoder, owner, asked, accepted, misreported>>
  BY DEF FlushChild, WriterCallInv, Closing, Flushed
<1>2. CASE ChildFails /\ err' = "ERROR" /\ ret' = -1 /\ outbuff' = outbuff
  BY <1>1, <1>2, FlushFailsInv
<1>3. CASE outbuff' = <<>> /\ ret' = 0 /\ UNCHANGED <<err, child, failed>>
  <2>1. /\ Cap \in Nat /\ MaxWriteLen \in Nat /\ child \in Seq(Int) /\ inside \in Seq(Int)
        /\ accepted \in Nat
    BY WriterTypes
  <2>2. Room' >= 0 /\ pc' \in {"idle", "lz4End"}
    BY <1>1, <1>3, <2>1 DEF Room, Cap
  <2>3. WriterTypeOK'
    BY <1>1, <1>3, <2>1, <2>2 DEF WriterTypeOK
  <2>4. WriterCallInv'
    <3>1. CASE closing
      BY <1>1, <1>3, <3>1 DEF WriterCallInv, Writing, Closing
    <3>2. CASE ~closing
      BY <1>1, <1>3, <3>2 DEF WriterCallInv, Writing, Closing
    <3> QED BY <3>1, <3>2
  <2>5. WriterErrorInv'
    BY <1>1, <1>3 DEF WriterErrorInv
  <2>6. err = "OK" /\ ~misreported => next_in' = <<>> /\ Made' = Started(accepted)
    <3>1. Made' = (child \o <<>>) \o inside
      BY <1>1, <1>3 DEF Made
    <3>2. child \o <<>> = child
      BY <2>1, NothingAdded
    <3> QED BY <1>1, <3>1, <3>2 DEF WriterDataInv
  <2>7. WriterDataInv'
    BY <1>1, <1>3, <2>2, <2>6 DEF WriterDataInv, WriterPosition, Writing, Started
  <2>8. WriterCloseInv'
    <3>1. ~failed' /\ (codec' = "zstd" \/ ~misreported') => err = "OK" /\ ~misreported
      BY <1>1, <1>3 DEF WriterErrorInv, WriterTypeOK
    <3>2. accepted + 0 = accepted
      BY <2>1
    <3>3. err = "OK" /\ ~misreported => Committed(0)' /\ Made' = Started(accepted)'
      BY <1>1, <1>3, <2>6, <3>2 DEF Committed, Started
    <3> QED BY <1>1, <1>3, <2>1, <2>2, <2>6, <3>1, <3>3 DEF WriterCloseInv, Closing
  <2> QED BY <2>3, <2>4, <2>5, <2>7, <2>8
<1> QED BY <1>2, <1>3 DEF FlushChild, Reset

(* lz4_wflush begins, also when lz4_wclose calls it.                       *)
LEMMA Lz4FlushInv ==
  ASSUME CodecWriterAssumption, WriterInv, lz4_wflush \/ lz4_wclose
  PROVE  WriterInv'
<1> USE DEF WriterInv, encoder, owner, history
<1>1. /\ codec = "lz4" /\ pc = "idle" /\ pc' = "lz4Flush" /\ ~finishing
      /\ UNCHANGED <<encoder, outbuff, err, child, ready, ret, history>>
  BY DEF lz4_wflush, lz4_wclose, WriterCallInv, Closing
<1>2. closing' \in BOOLEAN
  <2>1. closing' = closing \/ closing' = TRUE
    BY DEF lz4_wflush, lz4_wclose
  <2> QED BY <2>1, Zenon DEF WriterTypeOK
<1>3. asked' \in 0..MaxWriteLen
  BY DEF lz4_wflush, lz4_wclose, WriterTypeOK
<1>4. WriterTypeOK'
  BY <1>1, <1>2, <1>3 DEF WriterTypeOK, Room
<1>5. WriterCallInv'
  BY <1>1 DEF WriterCallInv, Room, Writing, Closing
<1>6. WriterErrorInv'
  BY <1>1 DEF WriterErrorInv
<1>7. WriterDataInv'
  <2>1. Made' = Made /\ WriterPosition' = accepted /\ WriterPosition = accepted
        /\ Started(WriterPosition)' = Started(accepted)
    BY <1>1 DEF Made, WriterPosition, Writing, Started
  <2> QED BY <1>1, <2>1 DEF WriterDataInv, Writing
<1>8. WriterCloseInv'
  BY <1>1 DEF WriterCloseInv, Closing
<1> QED BY <1>4, <1>5, <1>6, <1>7, <1>8

(* lz4_wflush hands what is in outbuf to the child first.                  *)
LEMMA Lz4FlushDrainInv ==
  ASSUME CodecWriterAssumption, WriterInv, Lz4FlushDrain
  PROVE  WriterInv'
<1> USE DEF WriterInv, encoder, owner
<1>1. /\ codec = "lz4" /\ pc = "lz4Flush" /\ ~finishing
      /\ UNCHANGED <<encoder, owner, asked, accepted, misreported>>
  BY DEF Lz4FlushDrain, WriterCallInv, Closing
<1>2. CASE ChildFails /\ err' = "ERROR" /\ ret' = -1 /\ Flushed /\ UNCHANGED outbuff
  BY <1>1, <1>2, FlushFailsInv DEF Flushed
<1>3. CASE ChildTakes /\ outbuff' = <<>> /\ pc' = "lz4FlushEncode" /\ UNCHANGED <<err, ret>>
  <2>1. /\ child' \in Seq(Int) /\ outbuff' \in Seq(Int) /\ Room' >= 0
        /\ Made' = Made /\ failed' = failed
    BY <1>1, <1>3, DrainFacts
  <2>2. WriterTypeOK'
    BY <1>1, <1>3, <2>1 DEF WriterTypeOK
  <2>3. WriterCallInv'
    BY <1>1, <1>3 DEF WriterCallInv, Writing, Closing
  <2>4. WriterErrorInv'
    BY <1>1, <1>3, <2>1 DEF WriterErrorInv
  <2>5. WriterDataInv'
    <3>1. WriterPosition' = accepted /\ WriterPosition = accepted
          /\ Started(WriterPosition)' = Started(accepted)
      BY <1>1, <1>3 DEF WriterPosition, Writing, Started
    <3> QED BY <1>1, <1>3, <2>1, <3>1 DEF WriterDataInv, Writing
  <2>6. WriterCloseInv'
    BY <1>3 DEF WriterCloseInv, Closing
  <2> QED BY <2>2, <2>3, <2>4, <2>5, <2>6
<1> QED BY <1>2, <1>3 DEF Lz4FlushDrain, Reset

(* Then the encoder writes out what it holds back,                         *)
LEMMA Lz4FlushEncodeInv ==
  ASSUME CodecWriterAssumption, WriterInv, Lz4FlushEncode
  PROVE  WriterInv'
<1> USE DEF WriterInv, owner, history
<1>1. /\ codec = "lz4" /\ pc = "lz4FlushEncode" /\ ~finishing /\ outbuff = <<>>
      /\ outbuff' = inside /\ inside' = <<>> /\ Len(inside) < LZ4_BLOCK
      /\ UNCHANGED <<codec, next_in, finishing, err, child, owner, asked, ret, history>>
      /\ pc' = IF inside = <<>> THEN "flush" ELSE "lz4FlushOut"
  BY DEF Lz4FlushEncode, WriterCallInv, Closing
<1>2. /\ child \in Seq(Int) /\ inside \in Seq(Int) /\ Len(inside) \in Nat
      /\ LZ4_BLOCK <= LZ4_OUTBUF /\ LZ4_BLOCK \in Nat \ {0} /\ LZ4_OUTBUF \in Nat
  BY WriterTypes
<1>3. Room' >= 0 /\ pc' \in {"flush", "lz4FlushOut"}
  BY <1>1, <1>2 DEF Room
<1>4. WriterTypeOK'
  BY <1>1, <1>2, <1>3 DEF WriterTypeOK
<1>5. WriterCallInv'
  <2>1. Len(inside') < LZ4_BLOCK
    BY <1>1, <1>2
  <2> QED BY <1>1, <1>3, <2>1 DEF WriterCallInv, Writing, Closing
<1>6. WriterErrorInv'
  BY <1>1 DEF WriterErrorInv
<1>7. WriterDataInv'
  <2>1. child \o inside \in Seq(Int) /\ child \o <<>> = child
    BY <1>2, RowType, NothingAdded
  <2>2. (child \o inside) \o <<>> = child \o inside
    BY <2>1, NothingAdded
  <2>3. Made = child \o inside
    BY <1>1, <2>1 DEF Made
  <2>4. Made' = child \o inside
    BY <1>1, <2>2 DEF Made
  <2>5. inside = <<>> => (child \o inside)' = child \o inside
    BY <1>1
  <2>6. WriterPosition' = accepted /\ WriterPosition = accepted
        /\ Started(WriterPosition)' = Started(accepted)
        /\ Started(accepted)' = Started(accepted)
    BY <1>1, <1>3 DEF WriterPosition, Writing, Started
  <2> QED BY <1>1, <1>3, <2>3, <2>4, <2>5, <2>6 DEF WriterDataInv, Writing
<1>8. WriterCloseInv'
  BY <1>3 DEF WriterCloseInv, Closing
<1> QED BY <1>4, <1>5, <1>6, <1>7, <1>8

(* or fails to.                                                            *)
LEMMA Lz4FlushEncoderFailsInv ==
  ASSUME CodecWriterAssumption, WriterInv, Lz4FlushEncoderFails
  PROVE  WriterInv'
<1> USE DEF WriterInv, encoder, owner
<1>1. /\ codec = "lz4" /\ pc = "lz4FlushEncode" /\ ~finishing /\ failed' = TRUE /\ ret' = -1
      /\ UNCHANGED <<encoder, outbuff, err, child, owner, asked, accepted, misreported>>
      /\ pc' = IF closing THEN "lz4End" ELSE "idle"
      /\ MaxWriteLen \in Nat
  BY DEF Lz4FlushEncoderFails, EncoderFails, WriterCallInv, Closing, Flushed
<1>2. pc' \in {"idle", "lz4End"}
  BY <1>1
<1>3. WriterTypeOK'
  BY <1>1, <1>2 DEF WriterTypeOK, Room
<1>4. WriterCallInv'
  <2>1. CASE closing
    BY <1>1, <2>1 DEF WriterCallInv, Writing, Closing
  <2>2. CASE ~closing
    BY <1>1, <2>2 DEF WriterCallInv, Writing, Closing
  <2> QED BY <2>1, <2>2
<1>5. WriterErrorInv'
  BY <1>1 DEF WriterErrorInv
<1>6. WriterDataInv'
  <2>1. Made' = Made /\ WriterPosition' = accepted /\ WriterPosition = accepted
        /\ Started(WriterPosition)' = Started(accepted)
    BY <1>1, <1>2 DEF Made, WriterPosition, Writing, Started
  <2> QED BY <1>1, <1>2, <2>1 DEF WriterDataInv, Writing
<1>7. WriterCloseInv'
  BY <1>1 DEF WriterCloseInv
<1> QED BY <1>3, <1>4, <1>5, <1>6, <1>7

(* And that is handed to the child, too.                                   *)
LEMMA Lz4FlushOutInv ==
  ASSUME CodecWriterAssumption, WriterInv, Lz4FlushOut
  PROVE  WriterInv'
<1> USE DEF WriterInv, encoder, owner
<1>1. /\ codec = "lz4" /\ pc = "lz4FlushOut" /\ ~finishing /\ outbuff' = <<>> /\ inside = <<>>
      /\ UNCHANGED <<encoder, owner, asked, accepted, misreported>>
  BY DEF Lz4FlushOut, WriterCallInv, Closing
<1>2. CASE ChildFails /\ err' = "ERROR" /\ ret' = -1 /\ Flushed
  BY <1>1, <1>2, FlushFailsInv DEF Flushed
<1>3. CASE ChildTakes /\ pc' = "flush" /\ UNCHANGED <<err, ret>>
  <2>1. /\ child' \in Seq(Int) /\ outbuff' \in Seq(Int) /\ Room' >= 0
        /\ Made' = Made /\ failed' = failed /\ child' = child \o outbuff
    BY <1>1, <1>3, DrainFacts DEF ChildTakes
  <2>2. WriterTypeOK'
    BY <1>1, <1>3, <2>1 DEF WriterTypeOK
  <2>3. WriterCallInv'
    BY <1>1, <1>3 DEF WriterCallInv, Writing, Closing
  <2>4. WriterErrorInv'
    BY <1>1, <1>3, <2>1 DEF WriterErrorInv
  <2>5. WriterDataInv'
    <3>1. (child \o inside)' = Made
      BY <1>1, <2>1 DEF Made
    <3>2. WriterPosition = accepted /\ Started(accepted)' = Started(accepted)
      BY <1>1 DEF WriterPosition, Writing, Started
    <3> QED BY <1>1, <1>3, <2>1, <3>1, <3>2 DEF WriterDataInv, Writing
  <2>6. WriterCloseInv'
    BY <1>3 DEF WriterCloseInv, Closing
  <2> QED BY <2>2, <2>3, <2>4, <2>5, <2>6
<1> QED BY <1>2, <1>3 DEF Lz4FlushOut
-----------------------------------------------------------------------------
(* Closing.                                                                *)
LEMMA StartCloseInv ==
  ASSUME CodecWriterAssumption, WriterInv,
         \/ zlib_wclose \/ bz_wclose \/ lzma_wclose \/ zstd_wclose \/ CloseUnready
  PROVE  WriterInv'
<1> USE DEF WriterInv, encoder, owner, history
<1>1. /\ codec # "lz4" /\ pc \in {"idle", "close"} /\ pc' \in {"close", "crashed"}
      /\ UNCHANGED <<encoder, outbuff, err, child, owner, asked, ret, history>>
  BY DEF zlib_wclose, bz_wclose, lzma_wclose, zstd_wclose, StartClose, CloseUnready
<1>2. WriterTypeOK'
  BY <1>1 DEF WriterTypeOK, Room
<1>3. WriterCallInv'
  BY <1>1 DEF WriterCallInv, Room, Writing, Closing
<1>4. WriterErrorInv'
  BY <1>1 DEF WriterErrorInv
<1>5. WriterDataInv'
  BY <1>1 DEF WriterDataInv, Writing
<1>6. WriterCloseInv'
  <2>1. \A k \in 0..MaxWriteLen : Committed(k) => Committed(k)'
    BY <1>1 DEF Committed, Made, Started, Whole
  <2> QED BY <1>1, <2>1 DEF WriterCloseInv, Closing
<1> QED BY <1>2, <1>3, <1>4, <1>5, <1>6

(* The encoder of zlib, bzip, lzma or zstd is told to finish.              *)
LEMMA CloseEncodeInv ==
  ASSUME CodecWriterAssumption, WriterInv, CloseEncode
  PROVE  WriterInv'
<1> USE DEF WriterInv, owner, history
<1>1. /\ codec \in {"zlib", "bzip", "lzma", "zstd"} /\ pc = "close" /\ ~closing
      /\ pc' \in {"closeMore", "closeLast"}
      /\ pc' = "closeLast" => ~More
      /\ UNCHANGED <<err, child, owner, asked, ret, history>>
      /\ accepted \in Nat /\ MaxWriteLen \in Nat
  BY DEF CloseEncode, WriterCallInv, WriterTypeOK, AllCodecs
<1>2. PICK m \in 0..Len(next_in) :
           /\ codec' = codec
           /\ next_in' = SubSeq(next_in, m + 1, Len(next_in))
           /\ next_in' \in Seq(Nat) /\ Len(next_in') = Len(next_in) - m
           /\ inside' \in Seq(Int) /\ outbuff' \in Seq(Int)
           /\ Room' >= 0
           /\ Room' # 0 => m = Len(next_in)
           /\ Room' # 0 /\ "FINISH" # "RUN" => inside' = <<>>
           /\ finishing' \in BOOLEAN
           /\ finishing' <=> finishing \/ ("FINISH" = "FINISH" /\ m = Len(next_in))
           /\ Made' = Made \o (SubSeq(next_in, 1, m) \o Added("FINISH", m))
  BY <1>1, EncodeFacts DEF CloseEncode
<1>3. WriterTypeOK'
  BY <1>1, <1>2 DEF WriterTypeOK
<1>4. ~failed => next_in = <<>> /\ finishing' /\ next_in' = <<>>
             /\ \E k \in 0..MaxWriteLen : Committed(k) /\ Committed(k)'
  <2> SUFFICES ASSUME ~failed
               PROVE  next_in = <<>> /\ finishing' /\ next_in' = <<>>
                        /\ \E k \in 0..MaxWriteLen : Committed(k) /\ Committed(k)'
    OBVIOUS
  <2>1. next_in = <<>> /\ \E k \in 0..MaxWriteLen : Committed(k)
    BY <1>1 DEF WriterCloseInv, Closing, WriterErrorInv
  <2>2. PICK k \in 0..MaxWriteLen : Committed(k)
    BY <2>1
  <2>3. Len(next_in) = 0 /\ m = 0 /\ Len(next_in') = 0
    BY <1>2, <2>1
  <2>4. finishing' /\ next_in' = <<>>
    BY <1>2, <2>3
  <2> DEFINE p == accepted + k
  <2>5. p \in Nat
    BY <1>1, <2>2
  <2>6. /\ Made = IF finishing THEN Whole(p) ELSE Started(p)
        /\ k = 0 \/ (codec = "zstd" /\ misreported)
    BY <2>2 DEF Committed
  <2>7. (accepted + k)' = p
    BY <1>1
  <2> HIDE DEF p
  <2>8. SubSeq(next_in, 1, m) = <<>>
    BY <2>1, <2>3
  <2>9. /\ Started(p) \in Seq(Int) /\ Started(p) \o <<Trailer>> = Whole(p)
        /\ Whole(p) \in Seq(Int)
    <3>1. Started(p) \in Seq(Int) /\ Started(p) \o <<Trailer>> = Whole(p)
      BY <2>5, StartedFacts
    <3>2. <<Trailer>> \in Seq(Int)
      BY DEF Trailer
    <3>3. Whole(p) \in Seq(Int)
      BY <3>1, <3>2, RowType
    <3> QED BY <3>1, <3>3
  <2>10. Made' = Whole(p)
    <3>1. CASE finishing
      <4>1. Added("FINISH", m) = <<>> /\ Made = Whole(p)
        BY <2>6, <3>1 DEF Added
      <4>2. <<>> \o <<>> = <<>> /\ Whole(p) \o <<>> = Whole(p)
        BY <2>9, NothingAdded
      <4> QED BY <1>2, <2>8, <4>1, <4>2, Zenon
    <3>2. CASE ~finishing
      <4>1. Added("FINISH", m) = <<Trailer>> /\ Made = Started(p)
        BY <2>3, <2>6, <3>2 DEF Added
      <4>2. <<>> \o <<Trailer>> = <<Trailer>>
        BY NothingAdded DEF Trailer
      <4> QED BY <1>2, <2>8, <2>9, <4>1, <4>2, Zenon
    <3> QED BY <3>1, <3>2
  <2>11. Committed(k)'
    <3>1. Whole(p)' = Whole(p)
      BY <1>2, <2>7 DEF Whole, Started, p
    <3> QED BY <1>1, <1>2, <2>4, <2>6, <2>7, <2>10, <3>1 DEF Committed, p
  <2> QED BY <2>1, <2>2, <2>4, <2>11
<1>5. WriterCallInv'
  <2>1. ~failed => finishing'
    BY <1>4
  <2> QED BY <1>1, <1>2, <2>1 DEF WriterCallInv, Writing, Closing
<1>6. WriterErrorInv'
  BY <1>1, <1>2 DEF WriterErrorInv
<1>7. WriterDataInv'
  BY <1>1 DEF WriterDataInv, Writing
<1>8. WriterCloseInv'
  <2>1. pc' = "closeLast" => codec' = "bzip" \/ inside' = <<>>
    BY <1>1, <1>2 DEF More, zlib_more, lzma_more, zstd_more, StreamEnd
  <2> QED BY <1>1, <1>4, <2>1 DEF WriterCloseInv
<1> QED BY <1>3, <1>5, <1>6, <1>7, <1>8

(* The encoder fails in the close; err is not set, but the run has failed. *)
LEMMA CloseFailsInv ==
  ASSUME CodecWriterAssumption, WriterInv, CloseEncoderFails \/ Lz4EndFails
  PROVE  WriterInv'
<1> USE DEF WriterInv, encoder, owner
<1>1. /\ pc \in {"close", "lz4End"} /\ pc' \in {"closeLast", "leaked"} /\ failed' = TRUE
      /\ outbuff' = outbuff \/ outbuff' = <<>>
      /\ UNCHANGED <<encoder, err, child, owner, asked, ret, accepted, misreported>>
  BY DEF CloseEncoderFails, Lz4EndFails, EncoderFails
<1>2. outbuff' \in Seq(Int) /\ Room' >= 0
  <2>1. Cap \in Nat /\ outbuff \in Seq(Int)
    BY WriterTypes
  <2>2. CASE outbuff' = outbuff
    BY <1>1, <2>1, <2>2 DEF Room, WriterTypeOK
  <2>3. CASE outbuff' = <<>>
    BY <1>1, <2>1, <2>3 DEF Room, Cap
  <2> QED BY <1>1, <2>2, <2>3
<1>3. WriterTypeOK'
  BY <1>1, <1>2 DEF WriterTypeOK
<1>4. WriterCallInv'
  BY <1>1 DEF WriterCallInv, Writing, Closing
<1>5. WriterErrorInv'
  BY <1>1 DEF WriterErrorInv
<1>6. WriterDataInv'
  BY <1>1 DEF WriterDataInv, Writing
<1>7. WriterCloseInv'
  BY <1>1 DEF WriterCloseInv
<1> QED BY <1>3, <1>4, <1>5, <1>6, <1>7

(* The end of an lz4 frame.                                                *)
LEMMA Lz4EndInv ==
  ASSUME CodecWriterAssumption, WriterInv, Lz4End
  PROVE  WriterInv'
<1> USE DEF WriterInv, owner, history
<1>1. /\ codec = "lz4" /\ pc = "lz4End" /\ pc' = "closeLast" /\ ~finishing
      /\ outbuff' = Append(inside, Trailer) /\ inside' = <<>> /\ finishing' = TRUE
      /\ UNCHANGED <<codec, next_in, err, child, owner, asked, ret, history>>
      /\ Len(inside) < LZ4_BLOCK
  BY DEF Lz4End, WriterCallInv, Closing
<1>2. /\ child \in Seq(Int) /\ inside \in Seq(Int) /\ Len(inside) \in Nat /\ accepted \in Nat
      /\ LZ4_BLOCK <= LZ4_OUTBUF /\ LZ4_BLOCK \in Nat \ {0} /\ LZ4_OUTBUF \in Nat
      /\ MaxWriteLen \in Nat
  BY WriterTypes
<1>3. outbuff' \in Seq(Int)
      /\ outbuff' = inside \o <<Trailer>> /\ Len(outbuff') = Len(inside) + 1
  BY <1>1, <1>2, AppendIsConcat DEF Trailer
<1>4. WriterTypeOK'
  <2>1. Room' >= 0
    BY <1>1, <1>2, <1>3 DEF Room
  <2>2. finishing' \in BOOLEAN
    BY <1>1, Zenon
  <2> QED BY <1>1, <1>3, <2>1, <2>2 DEF WriterTypeOK
<1>5. WriterCallInv'
  <2>1. Len(inside') < LZ4_BLOCK
    BY <1>1, <1>2
  <2> QED BY <1>1, <2>1 DEF WriterCallInv, Writing, Closing
<1>6. WriterErrorInv'
  BY <1>1 DEF WriterErrorInv
<1>7. WriterDataInv'
  BY <1>1 DEF WriterDataInv, Writing
<1>8. WriterCloseInv'
  <2> SUFFICES ASSUME ~failed, ~misreported
               PROVE  next_in = <<>> /\ Committed(0)'
    BY <1>1, <1>2 DEF WriterCloseInv
  <2>1. next_in = <<>> /\ outbuff = <<>> /\ Made = Started(accepted)
    BY <1>1 DEF WriterCloseInv
  <2>2. child \o <<>> = child /\ <<Trailer>> \in Seq(Int)
    BY <1>2, NothingAdded DEF Trailer
  <2>3. child \o inside = Started(accepted)
    BY <2>1, <2>2 DEF Made
  <2>4. (child \o inside) \o <<Trailer>> = child \o (inside \o <<Trailer>>)
    BY <1>2, <2>2, RowAssoc
  <2>5. Started(accepted) \o <<Trailer>> = Whole(accepted)
    BY <1>2, StartedFacts
  <2>6. child \o outbuff' = Whole(accepted) /\ Whole(accepted) \in Seq(Int)
    <3>1. child \o outbuff' \in Seq(Int)
      BY <1>2, <1>3, RowType
    <3> QED BY <1>3, <2>3, <2>4, <2>5, <3>1
  <2>7. Made' = Whole(accepted)
    <3>1. Made' = (child \o outbuff') \o <<>>
      BY <1>1 DEF Made
    <3>2. Whole(accepted) \o <<>> = Whole(accepted)
      BY <2>6, NothingAdded
    <3> QED BY <2>6, <3>1, <3>2
  <2>8. accepted + 0 = accepted
    BY <1>2
  <2> QED BY <1>1, <2>1, <2>7, <2>8 DEF Committed, Whole, Started
<1> QED BY <1>4, <1>5, <1>6, <1>7, <1>8

(* The output of the close goes to the child, whose result is ignored.     *)
LEMMA CloseDrainInv ==
  ASSUME CodecWriterAssumption, WriterInv, CloseDrain
  PROVE  WriterInv'
<1> USE DEF WriterInv, encoder, owner
<1>1. /\ pc \in {"closeMore", "closeLast"} /\ outbuff' = <<>>
      /\ pc' = IF pc = "closeMore" THEN "close" ELSE "closed"
      /\ UNCHANGED <<encoder, err, owner, asked, ret, accepted, misreported>>
  BY DEF CloseDrain, Reset
<1>2. pc' \in {"close", "closed"}
  BY <1>1
<1>3. CASE ChildFails
  <2> USE DEF ChildFails
  <2>1. Room' >= 0
    BY <1>1, WriterTypes DEF Room, Cap
  <2>2. WriterTypeOK'
    BY <1>1, <1>2, <1>3, <2>1 DEF WriterTypeOK
  <2>3. WriterCallInv'
    BY <1>1, <1>2, <1>3 DEF WriterCallInv, Writing, Closing
  <2>4. WriterErrorInv'
    BY <1>1, <1>3 DEF WriterErrorInv
  <2>5. WriterDataInv'
    BY <1>2 DEF WriterDataInv, Writing
  <2>6. WriterCloseInv'
    BY <1>3 DEF WriterCloseInv
  <2> QED BY <2>2, <2>3, <2>4, <2>5, <2>6
<1>4. CASE ChildTakes
  <2>1. /\ child' \in Seq(Int) /\ outbuff' \in Seq(Int) /\ Room' >= 0
        /\ Made' = Made /\ failed' = failed
    BY <1>1, <1>4, DrainFacts
  <2>2. WriterTypeOK'
    BY <1>1, <1>2, <2>1 DEF WriterTypeOK
  <2>3. WriterCallInv'
    BY <1>1, <1>2, <2>1 DEF WriterCallInv, Writing, Closing
  <2>4. WriterErrorInv'
    BY <1>1, <2>1 DEF WriterErrorInv
  <2>5. WriterDataInv'
    BY <1>2 DEF WriterDataInv, Writing
  <2>6. WriterCloseInv'
    <3>1. \A k \in 0..MaxWriteLen : Committed(k) => Committed(k)'
      BY <1>1, <2>1 DEF Committed, Started, Whole
    <3>2. ~failed => finishing
      BY <1>1 DEF WriterCallInv
    <3> QED BY <1>1, <1>2, <2>1, <3>1, <3>2 DEF WriterCloseInv, Closing
  <2> QED BY <2>2, <2>3, <2>4, <2>5, <2>6
<1> QED BY <1>3, <1>4 DEF CloseDrain
-----------------------------------------------------------------------------
(* A writer that was just opened.                                          *)
LEMMA WriterInvInit ==
  ASSUME CodecWriterAssumption, WriterInit
  PROVE  WriterInv
<1>1. /\ codec \in Codecs /\ next_in = <<>> /\ inside = <<>> /\ finishing = FALSE
      /\ outbuff = IF codec = "lz4" THEN <<Header>> ELSE <<>>
      /\ err = "OK" /\ child = <<>>
      /\ pc = "idle" /\ ready = FALSE /\ closing = FALSE
      /\ asked = 0 /\ ret = 0 /\ accepted = 0 /\ failed = FALSE /\ misreported = FALSE
  BY DEF WriterInit, OpenWriter, zlib_wopen, bz_wopen, lzma_wopen, zstd_wopen, lz4_wopen
<1>2. outbuff \in Seq(Int) /\ Len(outbuff) <= 1
  BY <1>1 DEF Header
<1>3. LZ4_OUTBUF > 0
  <2>1. outbuf_size_max \in Nat
    BY DEF outbuf_size_max
  <2> QED BY <2>1
<1>4. WriterTypeOK
  <2>1. Room >= 0
    BY <1>1, <1>2, <1>3 DEF Room
  <2>2. /\ next_in \in Seq(Nat) /\ inside \in Seq(Int) /\ child \in Seq(Int)
        /\ asked \in 0..MaxWriteLen /\ ret \in -1..MaxWriteLen /\ accepted \in 0..MaxStream
    BY <1>1
  <2>3. /\ finishing \in BOOLEAN /\ ready \in BOOLEAN /\ closing \in BOOLEAN
        /\ failed \in BOOLEAN /\ misreported \in BOOLEAN
    BY <1>1, Zenon
  <2> QED BY <1>1, <1>2, <2>1, <2>2, <2>3 DEF WriterTypeOK
<1>5. WriterCallInv
  BY <1>1 DEF WriterCallInv, Writing, Closing
<1>6. WriterErrorInv
  BY <1>1 DEF WriterErrorInv
<1>7. Made = Started(accepted)
  <2>1. Bytes(0, 0) = <<>>
    BY DEF Bytes
  <2>2. Made = outbuff
    BY <1>1, <1>2, NothingAdded DEF Made
  <2>3. Started(accepted) = outbuff \o <<>>
    BY <1>1, <2>1 DEF Started
  <2> QED BY <1>2, <2>2, <2>3, NothingAdded
<1>8. WriterDataInv
  BY <1>1, <1>7 DEF WriterDataInv, WriterPosition, Writing
<1>9. WriterCloseInv
  <2>1. Committed(0)
    BY <1>1, <1>7 DEF Committed
  <2> QED BY <1>1, <2>1 DEF WriterCloseInv, Closing
<1> QED BY <1>4, <1>5, <1>6, <1>8, <1>9 DEF WriterInv

(* Every step keeps the invariant.                                         *)
LEMMA WriterInvNext ==
  ASSUME CodecWriterAssumption, WriterInv, [WriterNext]_writerVars
  PROVE  WriterInv'
<1>1. CASE \E n \in 0..MaxWriteLen :
             zlib_wwrite(n) \/ bz_wwrite(n) \/ lzma_wwrite(n) \/ zstd_wwrite(n) \/ lz4_wwrite(n)
  BY <1>1, StartWriteInv, ZstdStartInv, Lz4StartInv
<1>2. CASE Writer \/ WriteDrainFails \/ WriteEncoderFails
  <2>1. CASE WriteEncode
    BY <2>1, EncodeInv DEF WriteEncode
  <2> QED BY <1>2, <2>1, DrainInv, WriteReturnInv, DrainFailsInv,
             WriteEncoderFailsInv DEF Writer
<1>3. CASE ZstdEncode \/ ZstdDrain \/ ZstdDrainFails \/ ZstdEncoderFails
  <2>1. CASE ZstdEncode
    BY <2>1, EncodeInv DEF ZstdEncode
  <2> QED BY <1>3, <2>1, ZstdDrainInv, ZstdDrainFailsInv, ZstdEncoderFailsInv
<1>4. CASE Lz4Writer \/ Lz4DrainFails \/ Lz4EncoderFails
  BY <1>4, DrainInv, Lz4EncodeInv, DrainFailsInv, Lz4EncoderFailsInv DEF Lz4Writer
<1>5. CASE zlib_wflush \/ bz_wflush \/ lzma_wflush \/ zstd_wflush \/ lz4_wflush
  BY <1>5, zlib_wflushInv, NoFlushInv, Lz4FlushInv
<1>6. CASE Flusher \/ Lz4FlushEncoderFails
  BY <1>6, FlushDrainInv, FlushChildInv, Lz4FlushDrainInv, Lz4FlushEncodeInv, Lz4FlushOutInv,
     Lz4FlushEncoderFailsInv DEF Flusher
<1>7. CASE zlib_wclose \/ bz_wclose \/ lzma_wclose \/ zstd_wclose \/ lz4_wclose
  BY <1>7, StartCloseInv, Lz4FlushInv
<1>8. CASE Closer \/ CloseEncoderFails \/ CloseUnready \/ Lz4EndFails
  BY <1>8, CloseEncodeInv, Lz4EndInv, CloseDrainInv, CloseFailsInv, StartCloseInv DEF Closer
<1>9. CASE WriterClosed
  BY <1>9, NoFlushInv
<1>10. CASE UNCHANGED writerVars
  <2>1. /\ UNCHANGED <<encoder, outbuff, err, child, pc, owner, history, asked, ret>>
    BY <1>10 DEF writerVars
  <2> USE DEF WriterInv, encoder, owner, history
  <2>2. WriterTypeOK'
    BY <2>1 DEF WriterTypeOK, Room
  <2>3. WriterCallInv'
    BY <2>1 DEF WriterCallInv, Room, Writing, Closing
  <2>4. WriterErrorInv'
    BY <2>1 DEF WriterErrorInv
  <2>5. Made' = Made /\ WriterPosition' = WriterPosition
    BY <2>1 DEF Made, WriterPosition
  <2>6. WriterDataInv'
    BY <2>1, <2>5 DEF WriterDataInv, Started
  <2>7. WriterCloseInv'
    BY <2>1, <2>5 DEF WriterCloseInv, Committed, Started, Whole
  <2> QED BY <2>2, <2>3, <2>4, <2>6, <2>7
<1> QED BY <1>1, <1>2, <1>3, <1>4, <1>5, <1>6, <1>7, <1>8, <1>9, <1>10 DEF WriterNext

(* The inductive invariant holds in every state.                           *)
THEOREM WriterInvariance ==
  ASSUME CodecWriterAssumption
  PROVE  WriterSpec => []WriterInv
<1>1. WriterInit => WriterInv
  BY WriterInvInit
<1>2. WriterInv /\ [WriterNext]_writerVars => WriterInv'
  BY WriterInvNext
<1> QED BY <1>1, <1>2, PTL DEF WriterSpec

(* What the program was told is written is all in one place, in order.     *)
LEMMA IsAccounted ==
  ASSUME WriterInv
  PROVE  Accounted
<1>1. pc = "idle" /\ err = "OK" /\ ~misreported => Made = Started(accepted)
  BY DEF WriterInv, WriterDataInv, WriterPosition, Writing
<1> QED BY <1>1 DEF WriterInv, Accounted, Made

(* iow-zlib.c, iow-bzip.c, iow-lzma.c, iow-zstd.c and iow-lz4.c: until an  *)
(* error is reported, every byte the program was told is written is with   *)
(* the child, in outbuff or inside the encoder, in order and once, for     *)
(* every size of the buffers and every sequence of writes and flushes.     *)
THEOREM AccountedAlways ==
  ASSUME CodecWriterAssumption
  PROVE  WriterSpec => []Accounted
<1>1. WriterInv => Accounted
  BY IsAccounted
<1> QED BY <1>1, WriterInvariance, PTL

(* What the child has after a close, from the invariant.                   *)
LEMMA IsCloseComplete ==
  ASSUME CodecWriterAssumption, WriterInv
  PROVE  CloseComplete
<1> USE DEF WriterInv
<1> SUFFICES ASSUME pc = "closed", ~failed
             PROVE  /\ ~misreported /\ (codec = "bzip" => inside = <<>>)
                      => child = Whole(accepted)
                    /\ codec = "zstd" => \E k \in 0..MaxWriteLen : child = Whole(accepted + k)
  BY DEF CloseComplete
<1>1. /\ child \in Seq(Int) /\ accepted \in Nat
  BY WriterTypes
<1>2. CASE codec = "zstd" \/ ~misreported
  <2>1. /\ finishing /\ outbuff = <<>> /\ (codec = "bzip" \/ inside = <<>>)
        /\ \E k \in 0..MaxWriteLen : Committed(k)
    BY <1>2 DEF WriterCloseInv, Closing
  <2>2. PICK k \in 0..MaxWriteLen : Committed(k)
    BY <2>1
  <2>3. Made = Whole(accepted + k) /\ (k = 0 \/ (codec = "zstd" /\ misreported))
    BY <2>1, <2>2 DEF Committed
  <2>4. inside = <<>> => Made = child
    BY <1>1, <2>1, NothingAdded DEF Made
  <2>5. ~misreported => Whole(accepted + k) = Whole(accepted)
    BY <1>1, <2>3
  <2>6. ~misreported /\ (codec = "bzip" => inside = <<>>) => child = Whole(accepted)
    BY <2>1, <2>3, <2>4, <2>5
  <2>7. codec = "zstd" => child = Whole(accepted + k)
    BY <2>1, <2>3, <2>4
  <2> QED BY <2>2, <2>6, <2>7
<1> QED BY <1>2

(* The closes: while nothing fails the child ends up with all the program  *)
(* wrote and the trailer, however often outbuff fills; of a bzip writer    *)
(* only while what is left fits.                                           *)
THEOREM CloseCompleteAlways ==
  ASSUME CodecWriterAssumption
  PROVE  WriterSpec => []CloseComplete
<1>1. WriterInv => CloseComplete
  BY IsCloseComplete
<1> QED BY <1>1, WriterInvariance, PTL

(* The step that ends a flush without an error.                            *)
LEMMA WriterFlushStep ==
  ASSUME CodecWriterAssumption, WriterInv, [WriterNext]_writerVars
  PROVE  pc = "flush" /\ ret' >= 0 /\ err = "OK" /\ ~misreported /\ Room # 0
           => child' = Started(accepted)
<1> SUFFICES ASSUME pc = "flush", ret' >= 0, err = "OK", ~misreported, Room # 0
             PROVE  child' = Started(accepted)
  OBVIOUS
<1>1. child = Started(accepted)
  <2>1. child \o inside = Started(accepted) /\ inside = <<>> /\ child \in Seq(Int)
    BY DEF WriterInv, WriterTypeOK, WriterCallInv, WriterDataInv
  <2> QED BY <2>1, NothingAdded
<1>2. child' = child
  <2>1. CASE FlushChild
    BY <2>1 DEF FlushChild, ChildFails
  <2>2. CASE UNCHANGED writerVars
    BY <2>2 DEF writerVars
  <2>3. FlushChild \/ UNCHANGED writerVars
    BY DEF WriterNext, Writer, Lz4Writer, Flusher, Closer, WriterClosed,
       zlib_wwrite, bz_wwrite, lzma_wwrite, StartWrite, zstd_wwrite, lz4_wwrite,
       WriteDrain, WriteDrainFails, WriteEncode, WriteEncoderFails, WriteReturn,
       ZstdEncode, ZstdEncoderFails, ZstdDrain, ZstdDrainFails,
       Lz4Drain, Lz4DrainFails, Lz4Encode, Lz4EncoderFails,
       zlib_wflush, bz_wflush, lzma_wflush, zstd_wflush, NoFlush, lz4_wflush,
       FlushDrain, Lz4FlushDrain, Lz4FlushEncode, Lz4FlushEncoderFails, Lz4FlushOut,
       zlib_wclose, bz_wclose, lzma_wclose, zstd_wclose, StartClose, lz4_wclose,
       CloseEncode, CloseEncoderFails, CloseUnready, Lz4End, Lz4EndFails, CloseDrain
  <2> QED BY <2>1, <2>2, <2>3
<1> QED BY <1>1, <1>2

(* zlib_wflush and lz4_wflush: a flush that returns without an error has   *)
(* brought everything to the child, unless deflate used up outbuff.        *)
THEOREM FlushReachesChildAlways ==
  ASSUME CodecWriterAssumption
  PROVE  WriterSpec => FlushReachesChild
<1>1. WriterInv /\ [WriterNext]_writerVars
        => [pc = "flush" /\ ret' >= 0 /\ err = "OK" /\ ~misreported /\ Room # 0
              => child' = Started(accepted)]_writerVars
  BY WriterFlushStep
<1> QED BY <1>1, WriterInvariance, PTL DEF WriterSpec, FlushReachesChild

(* The step with which a write first returns a result that is not the      *)
(* number of its bytes in the stream.                                      *)
LEMMA ResultStep ==
  ASSUME CodecWriterAssumption, WriterInv, [WriterNext]_writerVars
  PROVE  misreported' /\ ~misreported
           => \/ codec = "zstd" /\ err' = "ERROR" /\ (failed' \/ outbuff = <<>>)
              \/ codec = "lz4" /\ asked > outbuf_size_max
<1> DEFINE Excused == \/ codec = "zstd" /\ err' = "ERROR" /\ (failed' \/ outbuff = <<>>)
                      \/ codec = "lz4" /\ asked > outbuf_size_max
<1> SUFFICES ASSUME misreported', ~misreported
             PROVE  Excused
  OBVIOUS
<1> HIDE DEF Excused
<1> USE DEF WriterInv
<1>1. /\ Len(next_in) \in Nat /\ next_in \in Seq(Nat) /\ asked \in Nat
      /\ outbuf_size_max \in Nat /\ outbuf_size_max > 0 /\ misreported \in BOOLEAN
  BY WriterTypes DEF WriterTypeOK
<1>2. asked - Len(next_in) \in Int /\ -1 \in Int
  BY <1>1
<1>3. CASE WriteReturn \/ WriteDrainFails
  <2> DEFINE n == IF WriteReturn THEN Taken ELSE IF Taken # 0 THEN Taken ELSE -1
  <2>1. n \in Int /\ ReturnOf(n, asked - Len(next_in))
        /\ (IF n > 0 THEN n ELSE 0) = asked - Len(next_in)
    <3>1. Len(next_in) <= asked
      BY <1>3 DEF WriteReturn, WriteDrainFails, WriterCallInv, Writing
    <3> QED BY <1>1, <1>3, <3>1 DEF WriteReturn, WriteDrainFails, ReturnWrite, Taken
  <2> HIDE DEF n
  <2> QED BY <1>1, <1>2, <2>1, WriteReturnFacts
<1>4. CASE ZstdDrain
  <2>1. CASE next_in = <<>>
    <3>1. asked - Len(next_in) > 0
      BY <1>1, <1>4, <2>1 DEF ZstdDrain, WriterCallInv
    <3>2. ReturnOf(asked - Len(next_in), asked - Len(next_in))
      BY <1>4, <2>1 DEF ZstdDrain, ReturnWrite, ZstdResult
    <3> QED BY <1>1, <1>2, <3>1, <3>2, WriteReturnFacts
  <2> QED BY <1>4, <2>1 DEF ZstdDrain
<1>5. CASE ZstdEncoderFails \/ ZstdDrainFails
  BY <1>5 DEF ZstdEncoderFails, ZstdDrainFails, ChildFails, WriterCallInv, Excused
<1>6. CASE Lz4DrainFails \/ Lz4EncoderFails
  <2>1. ReturnOf(-1, asked - Len(next_in))
    BY <1>6 DEF Lz4DrainFails, Lz4EncoderFails, ReturnWrite
  <2>2. 0 # asked - Len(next_in)
    BY <1>1, <1>2, <2>1, WriteReturnFacts
  <2>3. codec = "lz4" /\ Len(next_in) <= asked
        /\ (Len(next_in) < asked => asked > outbuf_size_max)
    BY <1>6 DEF Lz4DrainFails, Lz4EncoderFails, WriterCallInv, Writing
  <2> QED BY <1>1, <2>2, <2>3 DEF Excused
<1>7. CASE Lz4Encode
  <2>1. codec = "lz4" /\ Len(next_in) <= asked
        /\ (Len(next_in) < asked => asked > outbuf_size_max)
    BY <1>7 DEF Lz4Encode, WriterCallInv, Writing
  <2>2. Len(Piece) = Smaller(outbuf_size_max, Len(next_in))
        /\ Len(Piece) \in 0..Len(next_in)
        /\ Len(next_in) # 0
    <3>1. next_in # <<>>
      BY <1>7 DEF Lz4Encode, WriterCallInv
    <3> QED BY <1>1, <3>1, PieceFacts
  <2>3. ReturnOf(Len(Piece), asked)
    BY <1>7 DEF Lz4Encode
  <2>4. Len(Piece) > 0 /\ Len(Piece) \in Int /\ asked \in Int
    BY <1>1, <2>2 DEF Smaller
  <2>5. Len(Piece) # asked
    BY <1>1, <2>3, <2>4, WriteReturnFacts
  <2> QED BY <1>1, <2>1, <2>2, <2>5 DEF Excused, Smaller
<1>8. \/ WriteReturn \/ WriteDrainFails \/ ZstdDrain \/ ZstdEncoderFails \/ ZstdDrainFails
      \/ Lz4DrainFails \/ Lz4EncoderFails \/ Lz4Encode
      \/ misreported' = misreported
  BY DEF writerVars, history, WriterNext, Writer, Lz4Writer, Flusher, Closer, WriterClosed,
       zlib_wwrite, bz_wwrite, lzma_wwrite, StartWrite, zstd_wwrite, lz4_wwrite,
       WriteDrain, WriteEncode, WriteEncoderFails, ZstdEncode, Lz4Drain,
       zlib_wflush, bz_wflush, lzma_wflush, zstd_wflush, NoFlush, lz4_wflush,
       FlushDrain, FlushChild, Lz4FlushDrain, Lz4FlushEncode, Lz4FlushEncoderFails, Lz4FlushOut,
       zlib_wclose, bz_wclose, lzma_wclose, zstd_wclose, StartClose, lz4_wclose,
       CloseEncode, CloseEncoderFails, CloseUnready, Lz4End, Lz4EndFails, CloseDrain
<1> QED BY <1>3, <1>4, <1>5, <1>6, <1>7, <1>8

(* The result of a write is the number of its bytes in the stream, but for *)
(* the two cases of zstd_wwrite and lz4_wwrite that ResultCountsBytes      *)
(* names.                                                                  *)
THEOREM ResultCountsBytesAlways ==
  ASSUME CodecWriterAssumption
  PROVE  WriterSpec => ResultCountsBytes
<1>1. WriterInv /\ [WriterNext]_writerVars
        => [misreported' /\ ~misreported
              => \/ codec = "zstd" /\ err' = "ERROR" /\ (failed' \/ outbuff = <<>>)
                 \/ codec = "lz4" /\ asked > outbuf_size_max]_writerVars
  BY ResultStep
<1> QED BY <1>1, WriterInvariance, PTL DEF WriterSpec, ResultCountsBytes
-----------------------------------------------------------------------------
(* The plain file writer.                                                  *)
(* How far the program is in its data: the bytes accepted, and those of    *)
(* the call in progress that have left its buffer.                         *)
PlainPosition == IF pc \in {"write", "aborted"} THEN accepted + asked - towrite
            ELSE accepted

(* A call has at most what it was given still to write.                    *)
PlainCallInv ==
  /\ pc \in {"write", "aborted"} => towrite <= asked
  /\ pc \notin {"write", "aborted"} => towrite = 0

(* The buffer continues the file, and together they end where the program  *)
(* is; nothing is left in the buffer after the close.                      *)
PlainDataInv ==
  ~dropped /\ ~torn =>
    /\ contents = Bytes(0, Len(contents))
    /\ buffer = Bytes(Len(contents), Len(buffer))
    /\ Len(contents) + Len(buffer) = PlainPosition
    /\ pc = "closed" => Len(buffer) = 0

(* The inductive invariant.                                                *)
PlainInv == StdioTypeOK /\ PlainCallInv /\ PlainDataInv /\ DirectWritesAligned
-----------------------------------------------------------------------------
(* Quotient and remainder.                                                 *)
LEMMA DivFacts ==
  ASSUME NEW a \in Int, NEW m \in Nat \ {0}
  PROVE  a % m \in 0..(m - 1) /\ a \div m \in Int /\ a = m * (a \div m) + (a % m)
OBVIOUS

(* A multiple of m that is a remainder by m is 0.                          *)
LEMMA SmallMultiple ==
  ASSUME NEW d \in Int, NEW m \in Nat \ {0}, NEW r \in 0..(m - 1), m * d = r
  PROVE  r = 0
<1>1. CASE d >= 1
  BY <1>1
<1>2. CASE d <= -1
  BY <1>2
<1>3. CASE d = 0
  BY <1>3
<1> QED BY <1>1, <1>2, <1>3

(* Multiples leave no remainder.                                           *)
LEMMA MultipleMod ==
  ASSUME NEW q \in Int, NEW m \in Nat \ {0}, NEW a \in Int, a = m * q
  PROVE  a % m = 0
<1> DEFINE r == a % m
           e == a \div m
<1>1. r \in 0..(m - 1) /\ e \in Int /\ a = m * e + r
  BY DivFacts
<1> HIDE DEF r, e
<1>2. m * (q - e) = r /\ q - e \in Int
  BY <1>1
<1>3. r = 0
  BY <1>1, <1>2, SmallMultiple
<1> QED BY <1>3 DEF r

(* Whole blocks added to whole blocks are whole blocks.                    *)
LEMMA AlignedSum ==
  ASSUME NEW a \in Nat, NEW b \in Nat, NEW m \in Nat \ {0}, a % m = 0, b % m = 0
  PROVE  (a + b) % m = 0
<1> DEFINE x == a \div m
           y == b \div m
<1>1. x \in Int /\ y \in Int /\ a = m * x /\ b = m * y
  BY DivFacts
<1> HIDE DEF x, y
<1>2. a + b = m * (x + y) /\ x + y \in Int /\ a + b \in Int
  BY <1>1
<1> QED BY <1>2, MultipleMod, Zenon

(* What stdio_wwrite offers to writev is whole blocks, at least one.       *)
LEMMA AlignedPart ==
  ASSUME NEW a \in Nat, NEW m \in Nat \ {0}, a >= m
  PROVE  a - (a % m) \in 1..a /\ (a - (a % m)) % m = 0
<1> DEFINE r == a % m
           e == a \div m
<1>1. r \in 0..(m - 1) /\ e \in Int /\ a = m * e + r
  BY DivFacts
<1> HIDE DEF r, e
<1>2. a - r \in 1..a /\ a - r = m * e /\ a - r \in Int
  BY <1>1
<1>3. (a - r) % m = 0
  BY <1>1, <1>2, MultipleMod
<1> QED BY <1>2, <1>3 DEF r

-----------------------------------------------------------------------------
(* The initial state satisfies the invariant.                              *)
LEMMA PlainInit ==
  ASSUME StdioAssumption, StdioInit
  PROVE  PlainInv
<1>1. StdioTypeOK
  <2>1. /\ buffer \in Seq(Nat) /\ Len(buffer) < MIN_WRITE_SIZE /\ contents \in Seq(Nat)
        /\ towrite \in Nat /\ asked \in Nat /\ ret \in Int /\ accepted \in Nat
    BY DEF StdioInit
  <2>2. /\ direct \in BOOLEAN /\ dropped \in BOOLEAN /\ torn \in BOOLEAN
        /\ pc \in {"idle", "write", "closed", "aborted"}
    BY Zenon DEF StdioInit
  <2> QED BY <2>1, <2>2 DEF StdioTypeOK
<1>2. PlainCallInv
  BY DEF StdioInit, PlainCallInv
<1>3. PlainDataInv
  <2>1. <<>> = Bytes(0, 0) /\ Len(<<>>) = 0
    BY DEF Bytes
  <2>2. contents = <<>> /\ buffer = <<>> /\ PlainPosition = 0 /\ pc = "idle"
    BY DEF StdioInit, PlainPosition
  <2> QED BY <2>1, <2>2 DEF PlainDataInv
<1>4. DirectWritesAligned
  <2>1. 0 % MIN_WRITE_SIZE = 0
    OBVIOUS
  <2> QED BY <2>1 DEF StdioInit, DirectWritesAligned
<1> QED BY <1>1, <1>2, <1>3, <1>4 DEF PlainInv

(* The types of what the steps compute with.                               *)
LEMMA PlainTypes ==
  ASSUME StdioAssumption, PlainInv
  PROVE  /\ buffer \in Seq(Nat) /\ contents \in Seq(Nat)
         /\ Len(buffer) \in Nat /\ Len(contents) \in Nat /\ Len(buffer) < MIN_WRITE_SIZE
         /\ towrite \in Nat /\ asked \in Nat /\ accepted \in Nat /\ ret \in Int
         /\ MIN_WRITE_SIZE \in Nat \ {0}
BY DEF PlainInv, StdioTypeOK

(* What is offered to writev: the buffer and the rest of the call.         *)
LEMMA PlainOfferFacts ==
  ASSUME StdioAssumption, PlainInv, pc = "write"
  PROVE  /\ Rest \in Seq(Nat) /\ Len(Rest) = towrite
         /\ buffer \o Rest \in Seq(Nat) /\ Len(buffer \o Rest) = Pending
         /\ Pending \in Nat
         /\ ~dropped /\ ~torn => buffer \o Rest = Bytes(Len(contents), Pending)
<1>1. /\ buffer \in Seq(Nat) /\ Len(buffer) \in Nat /\ Len(contents) \in Nat
      /\ towrite \in Nat /\ asked \in Nat /\ accepted \in Nat
  BY PlainTypes
<1>2. towrite <= asked
  BY DEF PlainInv, PlainCallInv
<1>3. accepted + asked - towrite \in Nat
  BY <1>1, <1>2
<1>4. Rest \in Seq(Nat) /\ Len(Rest) = towrite
  BY <1>1, <1>3, BytesFacts, Zenon DEF Rest
<1>5. buffer \o Rest \in Seq(Nat) /\ Len(buffer \o Rest) = Pending /\ Pending \in Nat
  <2>1. buffer \o Rest \in Seq(Nat) /\ Len(buffer \o Rest) = Len(buffer) + Len(Rest)
    BY <1>1, <1>4, ConcatFacts, Zenon
  <2> QED BY <1>1, <1>4, <2>1 DEF Pending
<1>6. ASSUME ~dropped /\ ~torn PROVE buffer \o Rest = Bytes(Len(contents), Pending)
  <2>1. /\ buffer = Bytes(Len(contents), Len(buffer))
        /\ Len(contents) + Len(buffer) = accepted + asked - towrite
    BY <1>6 DEF PlainInv, PlainDataInv, PlainPosition
  <2>2. Rest = Bytes(Len(contents) + Len(buffer), towrite)
    BY <2>1 DEF Rest
  <2>3. Bytes(Len(contents), Len(buffer)) \o Bytes(Len(contents) + Len(buffer), towrite)
          = Bytes(Len(contents), Len(buffer) + towrite)
    BY <1>1, BytesAppend, Zenon
  <2> QED BY <2>1, <2>2, <2>3, Zenon DEF Pending
<1> QED BY <1>4, <1>5, <1>6

(* One turn of the loop of stdio_wwrite.                                   *)
LEMMA WritevStep ==
  ASSUME StdioAssumption, PlainInv, Writev
  PROVE  PlainInv'
<1>1. /\ buffer \in Seq(Nat) /\ contents \in Seq(Nat)
      /\ Len(buffer) \in Nat /\ Len(contents) \in Nat /\ Len(buffer) < MIN_WRITE_SIZE
      /\ towrite \in Nat /\ asked \in Nat /\ accepted \in Nat /\ ret \in Int
      /\ MIN_WRITE_SIZE \in Nat \ {0}
  BY PlainTypes
<1>2. /\ pc = "write" /\ Enough
      /\ UNCHANGED <<direct, asked, ret, accepted, dropped, torn>>
  BY DEF Writev, losses
<1>3. /\ buffer \o Rest \in Seq(Nat) /\ Len(buffer \o Rest) = Pending
      /\ Pending \in Nat /\ Pending = Len(buffer) + towrite
      /\ ~dropped /\ ~torn => buffer \o Rest = Bytes(Len(contents), Pending)
  BY <1>2, PlainOfferFacts DEF Pending
<1>4. Amount \in 1..Pending /\ Amount % MIN_WRITE_SIZE = 0
  BY <1>1, <1>2, <1>3, AlignedPart DEF Amount, Enough
<1>5. PICK n \in Outcomes(Amount, direct) \ {-1} :
        /\ contents' = contents \o SubSeq(buffer \o Rest, 1, n)
        /\ buffer' = Kept(Smaller(Len(buffer), n))
        /\ towrite' = towrite - (n - Smaller(Len(buffer), n))
        /\ pc' = IF buffer' = <<>> THEN "write" ELSE "aborted"
  BY DEF Writev
<1>6. n \in 1..Pending /\ (direct => n % MIN_WRITE_SIZE = 0)
  BY <1>3, <1>4, <1>5 DEF Outcomes
<1> DEFINE k == Smaller(Len(buffer), n)
<1>7. k \in 0..Len(buffer) /\ k \in 0..n /\ (k = n \/ k = Len(buffer)) /\ n - k <= towrite
  BY <1>1, <1>3, <1>6 DEF Smaller
<1>8. /\ SubSeq(buffer \o Rest, 1, n) \in Seq(Nat)
      /\ Len(SubSeq(buffer \o Rest, 1, n)) = n
  BY <1>3, <1>6
<1>9. contents' \in Seq(Nat) /\ Len(contents') = Len(contents) + n
  <2> DEFINE t == SubSeq(buffer \o Rest, 1, n)
  <2>1. t \in Seq(Nat) /\ Len(t) = n /\ contents' = contents \o t
    BY <1>5, <1>8
  <2> HIDE DEF t
  <2>2. contents \o t \in Seq(Nat) /\ Len(contents \o t) = Len(contents) + Len(t)
    BY <1>1, <2>1, ConcatFacts, Zenon
  <2> QED BY <2>1, <2>2
<1> HIDE DEF k
<1>10. buffer' = SubSeq(buffer, k + 1, Len(buffer)) /\ towrite' = towrite - (n - k)
  BY <1>5 DEF Kept, k
<1>11. buffer' \in Seq(Nat) /\ Len(buffer') = Len(buffer) - k
  BY <1>1, <1>7, <1>10
<1>12. towrite' \in Nat /\ towrite' <= asked
  <2>1. towrite <= asked
    BY <1>2 DEF PlainInv, PlainCallInv
  <2> QED BY <1>1, <1>6, <1>7, <1>10, <2>1
<1>13. pc' \in {"write", "aborted"}
  BY <1>5
<1>14. StdioTypeOK'
  <2>1. Len(buffer') < MIN_WRITE_SIZE
    BY <1>1, <1>7, <1>11
  <2> QED BY <1>2, <1>9, <1>11, <1>12, <1>13, <2>1 DEF PlainInv, StdioTypeOK
<1>15. PlainCallInv'
  BY <1>2, <1>12, <1>13 DEF PlainCallInv
<1>16. PlainDataInv'
  <2> SUFFICES ASSUME ~dropped /\ ~torn
               PROVE  /\ contents' = Bytes(0, Len(contents'))
                      /\ buffer' = Bytes(Len(contents'), Len(buffer'))
                      /\ Len(contents') + Len(buffer') = PlainPosition'
    BY <1>2, <1>13 DEF PlainDataInv
  <2>1. /\ contents = Bytes(0, Len(contents)) /\ buffer = Bytes(Len(contents), Len(buffer))
        /\ Len(contents) + Len(buffer) = accepted + asked - towrite
    BY <1>2 DEF PlainInv, PlainDataInv, PlainPosition
  <2>2. SubSeq(buffer \o Rest, 1, n) = Bytes(Len(contents), n)
    <3>1. n \in 0..Pending /\ Pending \in Nat /\ Len(contents) \in Nat
      BY <1>1, <1>3, <1>6
    <3>2. SubSeq(Bytes(Len(contents), Pending), 1, n) = Bytes(Len(contents), n)
      BY <3>1, SplitBytes
    <3> QED BY <1>3, <3>2
  <2>3. contents' = Bytes(0, Len(contents'))
    <3>1. 0 \in Nat /\ n \in Nat /\ 0 + Len(contents) = Len(contents) /\ Len(contents) \in Nat
      BY <1>1, <1>3, <1>6
    <3>2. Bytes(0, Len(contents)) \o Bytes(0 + Len(contents), n) = Bytes(0, Len(contents) + n)
      BY <3>1, BytesAppend, Zenon
    <3>3. contents' = contents \o Bytes(Len(contents), n)
      BY <1>5, <2>2
    <3> QED BY <1>9, <2>1, <3>1, <3>2, <3>3, Zenon
  <2>4. buffer' = Bytes(Len(contents'), Len(buffer'))
    <3>1. buffer' = Bytes(Len(contents) + k, Len(buffer) - k)
      <4>1. Len(contents) \in Nat /\ Len(buffer) \in Nat /\ k \in 0..Len(buffer)
        BY <1>1, <1>7
      <4>2. SubSeq(Bytes(Len(contents), Len(buffer)), k + 1, Len(buffer))
              = Bytes(Len(contents) + k, Len(buffer) - k)
        BY <4>1, SplitBytes, Zenon
      <4> QED BY <1>10, <2>1, <4>2
    <3>2. CASE k = n
      BY <1>9, <1>11, <3>1, <3>2, Zenon
    <3>3. CASE k = Len(buffer)
      <4>1. Len(buffer') = 0 /\ buffer' = Bytes(Len(contents) + k, 0)
        BY <1>1, <1>11, <3>1, <3>3
      <4>2. \A j : Bytes(j, 0) = <<>>
        BY DEF Bytes
      <4> QED BY <4>1, <4>2, Zenon
    <3> QED BY <1>7, <3>2, <3>3
  <2>5. Len(contents') + Len(buffer') = PlainPosition'
    <3>1. PlainPosition' = accepted + asked - towrite'
      BY <1>2, <1>13 DEF PlainPosition
    <3>2. /\ Len(contents') = Len(contents) + n /\ Len(buffer') = Len(buffer) - k
          /\ towrite' = towrite - (n - k) /\ k \in Int /\ n \in Int
      BY <1>3, <1>6, <1>7, <1>9, <1>10, <1>11
    <3>3. Len(contents) + Len(buffer) = accepted + asked - towrite
      BY <2>1
    <3>4. /\ Len(contents) \in Int /\ Len(buffer) \in Int /\ towrite \in Int
          /\ asked \in Int /\ accepted \in Int
      BY <1>1
    <3>5. (Len(contents) + n) + (Len(buffer) - k) = accepted + asked - (towrite - (n - k))
      BY <3>2, <3>3, <3>4
    <3> QED BY <3>1, <3>2, <3>5
  <2> QED BY <2>3, <2>4, <2>5
<1>17. DirectWritesAligned'
  <2> SUFFICES ASSUME direct PROVE Len(contents') % MIN_WRITE_SIZE = 0
    BY <1>2 DEF DirectWritesAligned
  <2>1. Len(contents) % MIN_WRITE_SIZE = 0 /\ n % MIN_WRITE_SIZE = 0 /\ n \in Nat
    BY <1>3, <1>6 DEF PlainInv, DirectWritesAligned
  <2>2. (Len(contents) + n) % MIN_WRITE_SIZE = 0
    BY <1>1, <2>1, AlignedSum
  <2> QED BY <1>9, <2>2
<1> QED BY <1>14, <1>15, <1>16, <1>17 DEF PlainInv

(* The end of the loop: what is left joins the buffer.                     *)
LEMMA WriteReturnStep ==
  ASSUME StdioAssumption, PlainInv, WriteTail
  PROVE  PlainInv'
<1>1. /\ buffer \in Seq(Nat) /\ contents \in Seq(Nat)
      /\ Len(buffer) \in Nat /\ Len(contents) \in Nat /\ Len(buffer) < MIN_WRITE_SIZE
      /\ towrite \in Nat /\ asked \in Nat /\ accepted \in Nat /\ ret \in Int
      /\ MIN_WRITE_SIZE \in Nat \ {0}
  BY PlainTypes
<1>2. /\ pc = "write" /\ ~Enough /\ buffer' = buffer \o Rest /\ towrite' = 0
      /\ ret' = asked /\ accepted' = accepted + asked /\ pc' = "idle"
      /\ UNCHANGED <<direct, contents, asked, dropped, torn>>
  BY DEF WriteTail, Remainder, losses
<1>3. /\ buffer' \in Seq(Nat) /\ Len(buffer') = Pending
      /\ Pending \in Nat /\ Pending = Len(buffer) + towrite
      /\ ~dropped /\ ~torn => buffer' = Bytes(Len(contents), Pending)
  BY <1>2, PlainOfferFacts DEF Pending
<1>4. StdioTypeOK'
  <2>1. Len(buffer') < MIN_WRITE_SIZE
    BY <1>1, <1>2, <1>3 DEF Enough
  <2>2. accepted' \in Nat /\ ret' \in Int
    BY <1>1, <1>2
  <2> QED BY <1>1, <1>2, <1>3, <2>1, <2>2 DEF PlainInv, StdioTypeOK
<1>5. PlainCallInv'
  BY <1>2 DEF PlainCallInv
<1>6. PlainDataInv'
  <2> SUFFICES ASSUME ~dropped /\ ~torn
               PROVE  /\ contents = Bytes(0, Len(contents))
                      /\ buffer' = Bytes(Len(contents), Len(buffer'))
                      /\ Len(contents) + Len(buffer') = accepted'
    BY <1>2 DEF PlainDataInv, PlainPosition
  <2>1. contents = Bytes(0, Len(contents)) /\ Len(contents) + Len(buffer) = accepted + asked - towrite
    BY <1>2 DEF PlainInv, PlainDataInv, PlainPosition
  <2>2. Len(contents) + Len(buffer') = accepted'
    BY <1>1, <1>2, <1>3, <2>1
  <2> QED BY <1>3, <2>1, <2>2
<1>7. DirectWritesAligned'
  BY <1>2 DEF PlainInv, DirectWritesAligned
<1> QED BY <1>4, <1>5, <1>6, <1>7 DEF PlainInv

(* A flush, whatever the result r of its write.                            *)
LEMMA PlainFlushStep ==
  ASSUME StdioAssumption, PlainInv, pc = "idle", NEW r \in -1 .. Len(buffer),
         Flush(r),
         pc' \in {"idle", "closed"}, ret' \in Int,
         UNCHANGED <<towrite, asked, accepted, torn>>
  PROVE  PlainInv'
<1>1. /\ buffer \in Seq(Nat) /\ contents \in Seq(Nat)
      /\ Len(buffer) \in Nat /\ Len(contents) \in Nat /\ Len(buffer) < MIN_WRITE_SIZE
      /\ towrite \in Nat /\ asked \in Nat /\ accepted \in Nat /\ ret \in Int
      /\ MIN_WRITE_SIZE \in Nat \ {0}
  BY PlainTypes
<1>2. /\ contents' = contents \o SubSeq(buffer, 1, r)
      /\ dropped' = (dropped \/ (buffer # <<>> /\ r # Len(buffer))) /\ buffer' = <<>>
  BY DEF Flush
<1>3. /\ direct' \in BOOLEAN /\ (direct' => direct)
      /\ direct' => buffer = <<>> \/ r = -1
  BY DEF Flush, AfterSetfl, FlushOutcomes, PlainInv, StdioTypeOK
<1>4. SubSeq(buffer, 1, r) \in Seq(Nat)
  BY <1>1
<1>5. contents' \in Seq(Nat) /\ Len(contents') = Len(contents) + Len(SubSeq(buffer, 1, r))
  BY <1>1, <1>2, <1>4, ConcatFacts
<1>6. buffer' \in Seq(Nat) /\ Len(buffer') = 0
  BY <1>2
<1>7. StdioTypeOK'
  <2>1. direct' \in BOOLEAN /\ dropped' \in BOOLEAN /\ torn' \in BOOLEAN
        /\ pc' \in {"idle", "write", "closed", "aborted"}
    BY <1>2, <1>3, Zenon DEF PlainInv, StdioTypeOK
  <2>2. Len(buffer') < MIN_WRITE_SIZE
    BY <1>1, <1>6
  <2> QED BY <1>1, <1>5, <1>6, <2>1, <2>2 DEF StdioTypeOK
<1>8. PlainCallInv'
  BY DEF PlainInv, PlainCallInv
<1>9. PlainDataInv'
  <2> SUFFICES ASSUME ~dropped' /\ ~torn'
               PROVE  /\ contents' = Bytes(0, Len(contents'))
                      /\ buffer' = Bytes(Len(contents'), Len(buffer'))
                      /\ Len(contents') + Len(buffer') = accepted
    BY <1>6 DEF PlainDataInv, PlainPosition
  <2>1. (buffer = <<>> \/ r = Len(buffer)) /\ ~dropped /\ ~torn
    BY <1>2
  <2>2. /\ contents = Bytes(0, Len(contents)) /\ buffer = Bytes(Len(contents), Len(buffer))
        /\ Len(contents) + Len(buffer) = accepted
    BY <2>1 DEF PlainInv, PlainDataInv, PlainPosition
  <2>3. SubSeq(buffer, 1, r) = buffer
    <3>1. CASE r = Len(buffer)
      BY <1>1, <3>1
    <3>2. CASE buffer = <<>>
      <4>1. Len(buffer) = 0 /\ r <= 0
        BY <3>2
      <4> QED BY <3>2, <4>1
    <3> QED BY <2>1, <3>1, <3>2
  <2>4. contents' = Bytes(0, Len(contents) + Len(buffer))
    <3>1. 0 \in Nat /\ 0 + Len(contents) = Len(contents) /\ Len(contents) \in Nat /\ Len(buffer) \in Nat
      BY <1>1
    <3>2. Bytes(0, Len(contents)) \o Bytes(0 + Len(contents), Len(buffer))
            = Bytes(0, Len(contents) + Len(buffer))
      BY <3>1, BytesAppend, Zenon
    <3>3. contents' = contents \o buffer
      BY <1>2, <2>3
    <3> QED BY <2>2, <3>1, <3>2, <3>3, Zenon
  <2>5. Len(contents') = Len(contents) + Len(buffer)
    BY <1>5, <2>3
  <2>6. \A j : Bytes(j, 0) = <<>>
    BY DEF Bytes
  <2>7. Len(contents') + 0 = accepted
    BY <1>1, <2>2, <2>5
  <2> QED BY <1>2, <1>6, <2>4, <2>5, <2>6, <2>7
<1>10. DirectWritesAligned'
  <2> SUFFICES ASSUME direct' PROVE Len(contents') % MIN_WRITE_SIZE = 0
    BY DEF DirectWritesAligned
  <2>1. Len(contents) % MIN_WRITE_SIZE = 0
    BY <1>3 DEF PlainInv, DirectWritesAligned
  <2>2. r <= 0
    <3>1. buffer = <<>> => Len(buffer) = 0
      OBVIOUS
    <3> QED BY <1>3, <3>1
  <2>3. Len(SubSeq(buffer, 1, r)) = 0
    BY <1>1, <2>2
  <2>4. Len(contents') = Len(contents)
    BY <1>1, <1>5, <2>3
  <2> QED BY <2>1, <2>4
<1> QED BY <1>7, <1>8, <1>9, <1>10 DEF PlainInv

(* The steps that leave file and buffer as they are.                       *)
LEMMA PlainKeepStep ==
  ASSUME PlainInv, UNCHANGED <<buffer, direct, contents, accepted>>,
         pc' \in {"idle", "write", "closed", "aborted"},
         towrite' \in Nat, asked' \in Nat, ret' \in Int,
         dropped' \in BOOLEAN, torn' \in BOOLEAN,
         dropped => dropped', torn => torn', PlainCallInv',
         ~dropped' /\ ~torn' => PlainPosition' = PlainPosition,
         ~dropped' /\ ~torn' /\ pc' = "closed" => Len(buffer) = 0
  PROVE  PlainInv'
<1>1. StdioTypeOK'
  BY DEF PlainInv, StdioTypeOK
<1>2. PlainDataInv'
  BY DEF PlainInv, PlainDataInv
<1>3. DirectWritesAligned'
  BY DEF PlainInv, DirectWritesAligned
<1> QED BY <1>1, <1>2, <1>3 DEF PlainInv

(* Every step preserves the invariant.                                     *)
LEMMA PlainNext ==
  ASSUME StdioAssumption, PlainInv, [StdioNext]_stdioVars
  PROVE  PlainInv'
<1>1. /\ buffer \in Seq(Nat) /\ contents \in Seq(Nat)
      /\ Len(buffer) \in Nat /\ Len(contents) \in Nat /\ Len(buffer) < MIN_WRITE_SIZE
      /\ towrite \in Nat /\ asked \in Nat /\ accepted \in Nat /\ ret \in Int
      /\ MIN_WRITE_SIZE \in Nat \ {0}
  BY PlainTypes
<1>2. direct \in BOOLEAN /\ dropped \in BOOLEAN /\ torn \in BOOLEAN
  BY DEF PlainInv, StdioTypeOK
<1>3. CASE \E n \in 0..MaxWriteLen : stdio_wwrite(n)
  <2>1. PICK n \in 0..MaxWriteLen : stdio_wwrite(n)
    BY <1>3
  <2>2. /\ pc = "idle" /\ pc' = "write" /\ towrite' = n /\ asked' = n /\ n \in Nat
        /\ UNCHANGED <<buffer, direct, contents, ret, accepted, dropped, torn>>
    BY <2>1 DEF stdio_wwrite, losses
  <2>3. PlainPosition' = PlainPosition
    BY <1>1, <2>2 DEF PlainPosition
  <2>4. PlainCallInv'
    BY <2>2 DEF PlainCallInv
  <2> QED BY <1>1, <1>2, <2>2, <2>3, <2>4, PlainKeepStep
<1>4. CASE Writev
  BY <1>4, WritevStep
<1>5. CASE WritevFails
  <2>1. /\ pc = "write" /\ pc' = "idle" /\ ret' = -1 /\ towrite' = 0
        /\ torn' = (torn \/ towrite < asked)
        /\ UNCHANGED <<buffer, direct, contents, asked, accepted, dropped>>
    BY <1>5 DEF WritevFails
  <2>2. ~torn' => PlainPosition' = PlainPosition
    <3>1. towrite <= asked
      BY <2>1 DEF PlainInv, PlainCallInv
    <3>2. ~torn' => towrite = asked
      <4>1. towrite < asked \/ towrite = asked
        BY <1>1, <3>1
      <4> QED BY <2>1, <4>1, Zenon
    <3> QED BY <1>1, <2>1, <3>2 DEF PlainPosition
  <2>3. PlainCallInv'
    BY <2>1 DEF PlainCallInv
  <2>4. torn' \in BOOLEAN /\ (torn => torn')
    BY <2>1
  <2> QED BY <1>1, <1>2, <2>1, <2>2, <2>3, <2>4, PlainKeepStep
<1>6. CASE WriteTail
  BY <1>6, WriteReturnStep
<1>7. CASE stdio_wflush
  <2>1. PICK r \in -1 .. Len(buffer) : Flush(r) /\ ret' = r
    BY <1>7 DEF stdio_wflush
  <2>2. r \in Int
    BY <1>1
  <2> QED BY <1>7, <2>1, <2>2, PlainFlushStep DEF stdio_wflush
<1>8. CASE stdio_wflush_fcntl
  <2>1. /\ pc = "idle" /\ ret' = -1
        /\ UNCHANGED <<buffer, direct, contents, pc, towrite, asked, accepted, dropped, torn>>
    BY <1>8 DEF stdio_wflush_fcntl, losses
  <2>2. PlainCallInv' /\ PlainPosition' = PlainPosition
    BY <2>1 DEF PlainInv, PlainCallInv, PlainPosition
  <2> QED BY <1>1, <1>2, <2>1, <2>2, PlainKeepStep
<1>9. CASE stdio_wclose
  <2>1. /\ pc = "idle" /\ pc' = "closed"
        /\ UNCHANGED <<towrite, asked, ret, accepted, torn>>
    BY <1>9 DEF stdio_wclose
  <2>2. CASE \E r \in -1 .. Len(buffer) : Flush(r)
    BY <1>1, <2>1, <2>2, PlainFlushStep
  <2>3. CASE dropped' = (dropped \/ buffer # <<>>) /\ UNCHANGED <<buffer, direct, contents>>
    <3>1. PlainCallInv' /\ PlainPosition' = PlainPosition
      BY <2>1 DEF PlainInv, PlainCallInv, PlainPosition
    <3>2. dropped' \in BOOLEAN /\ (dropped => dropped')
      BY <2>3
    <3>3. ~dropped' => Len(buffer) = 0
      <4>1. buffer = <<>> => Len(buffer) = 0
        OBVIOUS
      <4> QED BY <2>3, <4>1
    <3> QED BY <1>1, <1>2, <2>1, <2>3, <3>1, <3>2, <3>3, PlainKeepStep
  <2> QED BY <1>9, <2>2, <2>3 DEF stdio_wclose
<1>10. CASE UNCHANGED stdioVars
  <2>1. UNCHANGED <<buffer, direct, contents, pc, towrite, asked, ret, accepted, dropped, torn>>
    BY <1>10 DEF stdioVars, losses
  <2>2. PlainCallInv' /\ PlainPosition' = PlainPosition
        /\ pc \in {"idle", "write", "closed", "aborted"}
    BY <2>1 DEF PlainInv, PlainCallInv, PlainPosition, StdioTypeOK
  <2>3. ~dropped /\ ~torn /\ pc = "closed" => Len(buffer) = 0
    BY DEF PlainInv, PlainDataInv
  <2> QED BY <1>1, <1>2, <2>1, <2>2, <2>3, PlainKeepStep
<1> QED BY <1>3, <1>4, <1>5, <1>6, <1>7, <1>8, <1>9, <1>10 DEF StdioNext, Ended

(* The invariant holds in every reachable state.                           *)
THEOREM PlainInvariance ==
  ASSUME StdioAssumption
  PROVE  StdioSpec => []PlainInv
<1>1. StdioInit => PlainInv
  BY PlainInit
<1>2. PlainInv /\ [StdioNext]_stdioVars => PlainInv'
  BY PlainNext
<1> QED BY <1>1, <1>2, PTL DEF StdioSpec

(* iow-stdio.c: file and buffer together are what the program was told is  *)
(* written, through short writes and retried failures, and the close       *)
(* leaves nothing in the buffer; less than a block is ever kept back.      *)
THEOREM NothingIsLost ==
  ASSUME StdioAssumption
  PROVE  StdioSpec => []NothingLost
<1>1. PlainInv => NothingLost
  <2> SUFFICES ASSUME PlainInv PROVE NothingLost
    OBVIOUS
  <2>1. StdioTypeOK
    BY DEF PlainInv
  <2> SUFFICES ASSUME ~dropped /\ ~torn
               PROVE  /\ InOrder(contents)
                      /\ pc = "idle" => contents \o buffer = Bytes(0, accepted)
                      /\ pc = "closed" => Len(contents) = accepted
    BY <2>1 DEF NothingLost
  <2>2. contents \in Seq(Nat) /\ Len(contents) \in Nat /\ Len(buffer) \in Nat
    BY PlainTypes
  <2>3. /\ contents = Bytes(0, Len(contents)) /\ buffer = Bytes(Len(contents), Len(buffer))
        /\ Len(contents) + Len(buffer) = PlainPosition
        /\ pc = "closed" => Len(buffer) = 0
    BY DEF PlainInv, PlainDataInv
  <2>4. InOrder(contents)
    BY <2>2, <2>3, InOrderBytes
  <2>5. contents \o buffer = Bytes(0, Len(contents) + Len(buffer))
    <3>1. 0 \in Nat /\ 0 + Len(contents) = Len(contents)
      BY <2>2
    <3>2. Bytes(0, Len(contents)) \o Bytes(0 + Len(contents), Len(buffer))
            = Bytes(0, Len(contents) + Len(buffer))
      BY <2>2, <3>1, BytesAppend, Zenon
    <3> QED BY <2>3, <3>1, <3>2, Zenon
  <2>6. pc \in {"idle", "closed"} => PlainPosition = accepted
    BY DEF PlainPosition
  <2>7. pc = "closed" => Len(contents) = accepted
    BY <2>2, <2>3, <2>6
  <2> QED BY <2>3, <2>4, <2>5, <2>6, <2>7
<1> QED BY <1>1, PlainInvariance, PTL

(* iow-stdio.c: while the file is open with O_DIRECT it only grows by      *)
(* whole blocks, also when writev does part of the work.                   *)
THEOREM AlignedWhileDirect ==
  ASSUME StdioAssumption
  PROVE  StdioSpec => []DirectWritesAligned
<1>1. PlainInv => DirectWritesAligned
  BY DEF PlainInv
<1> QED BY <1>1, PlainInvariance, PTL
=============================================================================
