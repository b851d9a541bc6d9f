---------------------------- MODULE CodecReader -----------------------------
(***************************************************************************)
(* The decompressing readers lib/ior-zlib.c, lib/ior-bzip.c and            *)
(* lib/ior-lzma.c, which share one loop around the library's decoder and   *)
(* differ in what the parent's end of file means and in what follows the   *)
(* end of a compressed member; and lib/ior-zstd-lz4.c, which fills a large *)
(* inbuf ahead of the decoder and finds out frame by frame which decoder   *)
(* the frame is for.                                                       *)
(*                                                                         *)
(* A compressed file is a sequence of units: a member is MAGIC "head"      *)
(* units, some "data" units that decode to Expand bytes each, and an       *)
(* "end"; "bad" is anything a decoder rejects.  For ior-zstd-lz4.c a       *)
(* member is a frame, and one without data may be a skippable one.         *)
(***************************************************************************)
EXTENDS ByteStream, FiniteSets, CodecHandle

CONSTANTS
  INBUF_SIZE,     \* size of ior-zstd-lz4.c's inbuf (1 MB), scaled down
  REFILL_BELOW,   \* its 256 * 1024: with fewer units unread inbuf is filled up
  MOVABLE,        \* HAVE_LIBLZ4F_MOVABLE: may its unread units be moved?
  MAGIC,          \* units of a member's head (4 bytes of a frame's magic)
  Expand,         \* bytes a data unit decodes to
  MaxData,        \* bound: data units in a member
  MaxReadLen,     \* bound: the caller asks for at most this many bytes
  ParentMayFail   \* may the parent's read return -1?

ASSUME CodecReaderAssumption ==
  /\ BUFFER_SIZE \in Nat \ {0} /\ Expand \in Nat \ {0} /\ MAGIC \in Nat \ {0}
  /\ INBUF_SIZE \in Nat \ {0} /\ REFILL_BELOW \in 1..INBUF_SIZE
  /\ MaxData \in Nat /\ MaxReadLen \in Nat
  /\ ParentMayFail \in BOOLEAN /\ MOVABLE \in BOOLEAN

(* codec: which of the readers, "zlib", "bzip", "lzma" or "zstd_lz4".  pc: *)
(* "idle", "loop" (inside the read), "closed"; zstd_lz4: "outer", "fill"   *)
(* and "frame" (its three loops).                                          *)
VARIABLES
  file, pos,          \* the parent: its units, and how many it has supplied
  inbuf,              \* the avail_in units of inbuff not yet decoded
  inbuf_index, dec,   \* zstd_lz4: units before those in the array; is a decoder
                      \* chosen ("FRAME") or not ("UNDEF")?
  pend,               \* the decoder: bytes it has decoded but had no room for
  sincelastend,       \* struct zlib_t (the other readers do not have it)
  outbuf,             \* what is in the buffer of the current call
  got,                \* history: the bytes read calls have returned
  trouble             \* history: has the parent failed, has a read returned -1,
                      \* was a head cut in two by the end of inbuf, did a
                      \* read of no bytes find its decoder stuck?

parent == <<codec, file, pos>>
decoder == <<inbuf, pend, inbuf_index, dec>>
call == <<asked, outbuf, ret, got>>
vars == <<parent, decoder, err, sincelastend, pc, call, trouble>>
-----------------------------------------------------------------------------
(* The files of an instance: whole ones of one or two members, ones that   *)
(* end inside the first or the second, ones with a bad unit.               *)
MagicHead == [i \in 1..MAGIC |-> "head"]
Member(k) == MagicHead \o [i \in 1..k |-> "data"] \o <<"end">>
Members   == {Member(k) : k \in 0..MaxData}
Cut(f)    == {SubSeq(f, 1, n) : n \in 1 .. Len(f) - 1}
Spoilt(f) ==
  {[f EXCEPT ![i] = "bad"] : i \in MAGIC + 1 .. Len(f)} \cup {Append(f, "bad")}

Concatenated == {a \o b : a, b \in Members}
CutFirst     == UNION {Cut(f) : f \in Members}
CutSecond    == UNION {{a \o c : c \in Cut(b)} : a, b \in Members}
Corrupt      == UNION {Spoilt(f) : f \in Members}

Files == Members \cup Concatenated \cup CutFirst \cup CutSecond \cup Corrupt

Decodes(f) == Expand * Cardinality({i \in DOMAIN f : f[i] = "data"})
-----------------------------------------------------------------------------
(* Small steps the actions below are made of.  A definition named X_y is a  *)
(* faulty variant of X, used to show that the properties would notice it.  *)

avail_out == asked - Len(outbuf)

(* Bytes the units before those left in inbuff decode to.                  *)
decoded == Decodes(SubSeq(file, 1, pos - Len(inbuf)))

(* The read returns n, with out in the caller's buffer.                    *)
ReturnWith(n, out, why) ==
  /\ ret' = n
  /\ got' = IF n > 0 THEN got \o out ELSE got
  /\ pc' = "idle"
  /\ trouble' = trouble \cup why \cup (IF n < 0 THEN {"reported"} ELSE {})

Return(n) == ReturnWith(n, outbuf, {})

(* The loop test of the read.                                              *)
GoesOn == err = "OK" /\ avail_out > 0

(* Units are only asked of the parent when all of inbuff is decoded.       *)
MustRefill_early == Len(inbuf) <= 1
MustRefill == Len(inbuf) = 0

(* zlib_read, the parent is at its end: truncated if anything came after   *)
(* the last end of a member.                                               *)
zlib_eof_again == UNCHANGED <<err, pc, ret, got, trouble>>
zlib_eof ==
  \/ sincelastend > 0 /\ err' = "ERROR" /\ Return(-1)
  \/ sincelastend = 0 /\ outbuf = <<>> /\ err' = "EOF" /\ Return(0)
  \/ sincelastend = 0 /\ outbuf # <<>> /\ err' = err /\ Return(Len(outbuf))

(* bz_read: whatever there is.                                             *)
bz_eof == err' = err /\ Return(Len(outbuf))

lzma_eof ==
  \/ outbuf = <<>> /\ err' = "EOF" /\ Return(0)
  \/ outbuf # <<>> /\ err' = err /\ Return(Len(outbuf))

ParentEof ==
  \/ codec = "zlib" /\ zlib_eof
  \/ codec = "bzip" /\ bz_eof
  \/ codec = "lzma" /\ lzma_eof

(* What a result of the decoder does to err: an end of member ends an xz   *)
(* file; the zlib and bzip decoders are restarted for a next member.       *)
AfterDecode_eof(code) == CASE code = "OK" -> "OK" [] code = "END" -> "EOF" [] OTHER -> "ERROR"
AfterDecode(code) ==
  CASE code = "OK"  -> "OK"
    [] code = "END" -> IF codec = "lzma" THEN "EOF" ELSE "OK"
    [] OTHER        -> "ERROR"

(* The read of the parent failed: data first, the error next time.         *)
FailResult == IF outbuf # <<>> THEN Len(outbuf) ELSE -1
-----------------------------------------------------------------------------
(* Opening.  zlib's sincelastend starts at 1, so that a file that ends     *)
(* before its first member does counts as truncated.                       *)
OpenReader(name) ==
  /\ codec = name
  /\ file \in Files /\ pos = 0
  /\ inbuf = <<>> /\ pend = <<>> /\ inbuf_index = 0 /\ dec = "UNDEF"
  /\ err = "OK" /\ sincelastend = 1
  /\ pc = "idle" /\ asked = 0 /\ outbuf = <<>> /\ ret = 0 /\ got = <<>>
  /\ trouble = {}

zlib_open     == OpenReader("zlib")
bz_open       == OpenReader("bzip")
lzma_open     == OpenReader("lzma")
zstd_lz4_open == OpenReader("zstd_lz4")

Init == zlib_open \/ bz_open \/ lzma_open \/ zstd_lz4_open

(* The head of the read: an end or an error met before is final.           *)
StartRead(n, loop) ==
  /\ pc = "idle"
  /\ asked' = n
  /\ outbuf' = <<>>
  /\ \/ err = "EOF"   /\ Return(0)
     \/ err = "ERROR" /\ Return(-1)
     \/ err = "OK"    /\ pc' = loop /\ UNCHANGED <<ret, got, trouble>>
  /\ UNCHANGED <<parent, decoder, err, sincelastend>>

zlib_read(n)     == codec = "zlib" /\ StartRead(n, "loop")
bz_read(n)       == codec = "bzip" /\ StartRead(n, "loop")
lzma_read(n)     == codec = "lzma" /\ StartRead(n, "loop")
zstd_lz4_read(n) == codec = "zstd_lz4" /\ StartRead(n, "outer")

(* The parent's read supplies units; those left in inbuff are overwritten. *)
Refill ==
  /\ pc = "loop" /\ GoesOn /\ MustRefill
  /\ \E n \in 1..BUFFER_SIZE :
       /\ pos + n <= Len(file)
       /\ inbuf' = SubSeq(file, pos + 1, pos + n)
       /\ pos' = pos + n
       /\ sincelastend' = sincelastend + n
  /\ UNCHANGED <<codec, file, pend, inbuf_index, dec, err, pc, call, trouble>>

RefillEof ==
  /\ pc = "loop" /\ GoesOn /\ MustRefill
  /\ pos = Len(file)
  /\ ParentEof
  /\ UNCHANGED <<parent, decoder, sincelastend, asked, outbuf>>

RefillFails ==
  /\ ParentMayFail
  /\ pc = "loop" /\ GoesOn /\ MustRefill
  /\ err' = "ERROR"
  /\ ReturnWith(FailResult, outbuf, {"parent"})
  /\ UNCHANGED <<parent, decoder, sincelastend, asked, outbuf>>

(* inflate, BZ2_bzDecompress, lzma_code, ZSTD_decompressStream and         *)
(* LZ4F_decompress: takes k units, in any portions, but nothing behind an  *)
(* end or a bad unit and nothing more once its output no longer fits.      *)
DecoderTakes(k) ==
  LET before == SubSeq(inbuf, 1, k - 1)
  IN  IF k = 0 THEN pend # <<>>
      ELSE /\ \A i \in DOMAIN before : before[i] \in {"head", "data"}
           /\ Len(pend) + Decodes(before) <= avail_out

DecoderCode(k) ==
  CASE k > 0 /\ inbuf[k] = "end" -> "END"
    [] k > 0 /\ inbuf[k] = "bad" -> "DATA_ERROR"
    [] OTHER                     -> "OK"

DecoderRuns(k) ==
  LET all == pend \o Bytes(decoded, Decodes(SubSeq(inbuf, 1, k)))
  IN  /\ DecoderTakes(k)
      /\ outbuf' = outbuf \o SubSeq(all, 1, Smaller(avail_out, Len(all)))
      /\ pend' = SubSeq(all, avail_out + 1, Len(all))
      /\ inbuf' = SubSeq(inbuf, k + 1, Len(inbuf))

Decode ==
  /\ pc = "loop" /\ GoesOn /\ ~MustRefill
  /\ \E k \in 0..Len(inbuf) :
       /\ DecoderRuns(k)
       /\ err' = AfterDecode(DecoderCode(k))
       /\ sincelastend' = IF DecoderCode(k) = "END" THEN 0 ELSE sincelastend
  /\ UNCHANGED <<parent, inbuf_index, dec, pc, asked, ret, got, trouble>>

ReadReturn ==
  /\ pc = "loop" /\ ~GoesOn
  /\ Return(Len(outbuf))
  /\ UNCHANGED <<parent, decoder, err, sincelastend, asked, outbuf>>

Reader == Refill \/ RefillEof \/ Decode \/ ReadReturn
-----------------------------------------------------------------------------
(* zstd_lz4_read: three nested loops.  "outer": is inbuf to be filled?     *)
(* Unread units are moved to its start when the room behind them is small. *)
inbuf_len == inbuf_index + Len(inbuf)

Compacts ==
  \/ inbuf = <<>>
  \/ MOVABLE /\ INBUF_SIZE - inbuf_len < REFILL_BELOW

LookAtInbuf ==
  /\ pc = "outer"
  /\ \/ /\ Len(inbuf) < REFILL_BELOW
        /\ inbuf_index' = IF Compacts THEN 0 ELSE inbuf_index
        /\ pc' = "fill"
     \/ /\ Len(inbuf) >= REFILL_BELOW
        /\ pc' = "frame" /\ UNCHANGED inbuf_index
  /\ UNCHANGED <<parent, inbuf, pend, dec, err, sincelastend, call, trouble>>

(* "fill": the parent is read until inbuf is full or the parent is at its  *)
(* end; only with nothing left to decode is that the end of the data.      *)
FillInbuf ==
  /\ pc = "fill"
  /\ \E n \in 1 .. INBUF_SIZE - inbuf_len :
       /\ pos + n <= Len(file)
       /\ inbuf' = inbuf \o SubSeq(file, pos + 1, pos + n)
       /\ pos' = pos + n
       /\ pc' = IF inbuf_len + n = INBUF_SIZE THEN "frame" ELSE "fill"
  /\ UNCHANGED <<codec, file, pend, inbuf_index, dec, err, sincelastend, call, trouble>>

FillEof ==
  /\ pc = "fill"
  /\ pos = Len(file) \/ inbuf_len = INBUF_SIZE
  /\ \/ inbuf = <<>> /\ err' = "EOF" /\ Return(Len(outbuf))
     \/ inbuf # <<>> /\ pc' = "frame" /\ UNCHANGED <<err, ret, got, trouble>>
  /\ UNCHANGED <<parent, decoder, sincelastend, asked, outbuf>>

(* What was decoded in this call is lost with the error.                   *)
FillFails ==
  /\ ParentMayFail
  /\ pc = "fill"
  /\ err' = "ERROR"
  /\ ReturnWith(-1, outbuf, {"parent"})
  /\ UNCHANGED <<parent, decoder, sincelastend, asked, outbuf>>

(* "frame": at the start of a frame the magic is looked at, in MAGIC units *)
(* of inbuf however many of them are unread: the caller's length is what   *)
(* is tested.  Behind the end of the array is the field eof, which is zero *)
(* and completes no magic; behind the last unit of the file are units of   *)
(* an earlier fill or zeros, which may complete one or not.                *)
Magic ==
  IF \E i \in 1 .. Smaller(MAGIC, Len(inbuf)) : inbuf[i] # "head" THEN {FALSE}
  ELSE IF Len(inbuf) >= MAGIC THEN {TRUE}
  ELSE IF inbuf_len = INBUF_SIZE THEN {FALSE}
  ELSE BOOLEAN

HeadSplit == Len(inbuf) < MAGIC /\ inbuf_len = INBUF_SIZE

ChooseDecoder ==
  /\ pc = "frame" /\ dec = "UNDEF"
  /\ \/ asked < MAGIC /\ Return(-1) /\ UNCHANGED dec
     \/ /\ asked >= MAGIC /\ TRUE \in Magic
        /\ dec' = "FRAME" /\ UNCHANGED <<pc, ret, got, trouble>>
     \/ /\ asked >= MAGIC /\ FALSE \in Magic
        /\ ReturnWith(-1, outbuf, IF HeadSplit THEN {"split"} ELSE {})
        /\ UNCHANGED dec
  /\ UNCHANGED <<parent, inbuf, pend, inbuf_index, err, sincelastend, asked, outbuf>>

(* The decoder took k units; it is stuck if it did nothing at all.         *)
NoProgress_input(k) == k = 0
NoProgress(k) == k = 0 /\ outbuf' = <<>>

DecodeFrame ==
  /\ pc = "frame" /\ dec = "FRAME"
  /\ \E k \in 0..Len(inbuf) :
       /\ DecoderRuns(k)
       /\ inbuf_index' = inbuf_index + k
       /\ dec' = IF DecoderCode(k) = "END" THEN "UNDEF" ELSE "FRAME"
       /\ \/ /\ DecoderCode(k) = "DATA_ERROR" \/ NoProgress(k)
             /\ err' = "ERROR"
             /\ ReturnWith(-1, outbuf', IF asked = 0 THEN {"empty"} ELSE {})
          \/ /\ DecoderCode(k) # "DATA_ERROR" /\ ~NoProgress(k)
             /\ err' = err
             /\ \/ Len(outbuf') = asked /\ ReturnWith(asked, outbuf', {})
                \/ /\ Len(outbuf') # asked
                   /\ pc' = IF inbuf' = <<>> THEN "outer" ELSE "frame"
                   /\ UNCHANGED <<ret, got, trouble>>
  /\ UNCHANGED <<parent, sincelastend, asked>>

FrameReader == LookAtInbuf \/ FillInbuf \/ FillEof \/ ChooseDecoder \/ DecodeFrame
-----------------------------------------------------------------------------
(* The decoder and the parent are closed.                                  *)
CloseReader ==
  /\ pc = "idle"
  /\ pc' = "closed"
  /\ UNCHANGED <<parent, decoder, err, sincelastend, call, trouble>>

zlib_close     == codec = "zlib" /\ CloseReader
bz_close       == codec = "bzip" /\ CloseReader
lzma_close     == codec = "lzma" /\ CloseReader
zstd_lz4_close == codec = "zstd_lz4" /\ CloseReader

Closed == pc = "closed" /\ UNCHANGED vars

Next ==
  \/ \E n \in 0..MaxReadLen :
       zlib_read(n) \/ bz_read(n) \/ lzma_read(n) \/ zstd_lz4_read(n)
  \/ Reader \/ RefillFails
  \/ FrameReader \/ FillFails
  \/ zlib_close \/ bz_close \/ lzma_close \/ zstd_lz4_close \/ Closed

Spec == Init /\ [][Next]_vars

(* The thread inside the read keeps running and the parent's reads return. *)
FairSpec == Spec /\ WF_vars(Reader) /\ WF_vars(FrameReader)
-----------------------------------------------------------------------------
(* Every variable keeps its type; a read never returns more than asked and *)
(* inbuf is never overrun.                                                 *)
TypeOK ==
  /\ codec \in {"zlib", "bzip", "lzma", "zstd_lz4"}
  /\ file \in Files /\ pos \in 0..Len(file)
  /\ inbuf_index \in Nat /\ dec \in {"UNDEF", "FRAME"} /\ Len(pend) <= Expand
  /\ inbuf_len <= (IF codec = "zstd_lz4" THEN INBUF_SIZE ELSE BUFFER_SIZE)
  /\ err \in {"OK", "EOF", "ERROR"} /\ sincelastend \in Nat
  /\ pc \in {"idle", "loop", "outer", "fill", "frame", "closed"}
  /\ asked \in Nat /\ Len(outbuf) <= MaxReadLen /\ ret \in -1..MaxReadLen
  /\ got \in Seq(Nat) /\ trouble \subseteq {"parent", "reported", "split", "empty"}

(* The bytes read calls have returned are the decoded stream from its      *)
(* beginning, however the parent portions its input and whatever does not  *)
(* fit is carried over to the next call: nothing decoded is dropped unless *)
(* the call reported an error.  And every variable has its type.  Only     *)
(* zstd_lz4_read may return data again after an error, without what it had *)
(* decoded when the error came.                                            *)
NothingSkipped ==
  /\ TypeOK
  /\ (codec = "zstd_lz4" => "reported" \notin trouble)
     => /\ InOrder(got)
        /\ pc = "idle" /\ ret >= 0 => Len(got) = decoded - Len(pend)

(* The files whose end each reader recognises.  zlib_read takes a file cut *)
(* in a later member for a complete one when the cut member came in the    *)
(* same portion as the end of the one before, and a bad unit met before    *)
(* anything was decoded for an end; bz_read and zstd_lz4_read every cut    *)
(* file; lzma_read every file that goes on after its first member.         *)
EndRecognised ==
  CASE codec = "zlib" -> Members \cup Concatenated \cup CutFirst
    [] codec = "lzma" -> Members
    [] OTHER          -> Members \cup Concatenated

(* Of these files, a read that returns 0 tells the caller the data are     *)
(* complete (lib/wandio.h:308, "0 if EOF is reached, -1 if an error        *)
(* occurs"): every unit of the file has been decoded, all members of it,   *)
(* and the file stops at the end of a member, unless an error was reported *)
(* before.                                                                 *)
ZeroMeansEnd ==
  (/\ file \in EndRecognised /\ "reported" \notin trouble
   /\ pc = "idle" /\ asked > 0 /\ ret = 0)
    => /\ Len(got) = Decodes(file)
       /\ file[Len(file)] = "end"
       /\ pos = Len(file) /\ inbuf = <<>>

(* A read of a complete file returns -1 only after its parent failed, for  *)
(* every portioning and every sequence of lengths.  zstd_lz4_read does so  *)
(* in two more cases: it is asked for less than the length of a magic at   *)
(* the start of a frame (or for nothing, while output waits), or a magic   *)
(* straddles the end of its inbuf (lib/ior-zstd-lz4.c:177).                *)
NoSpuriousError ==
  file \in Members \cup Concatenated /\ pc = "idle" /\ ret = -1
    => \/ "parent" \in trouble
       \/ codec = "zstd_lz4" /\ (asked < MAGIC \/ trouble \cap {"split", "empty"} # {})

(* Every read returns, for every way the parent may portion, end or fail.  *)
ReadReturns == (pc \in {"loop", "outer", "fill", "frame"}) ~> (pc = "idle")
=============================================================================
