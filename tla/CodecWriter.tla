---------------------------- MODULE CodecWriter -----------------------------
(***************************************************************************)
(* The compressing writers lib/iow-zlib.c, lib/iow-bzip.c and              *)
(* lib/iow-lzma.c: one loop around the library's encoder, which takes the  *)
(* caller's bytes, holds some of them back and fills outbuff; a full       *)
(* outbuff goes to the child writer.  They differ in flush and close.      *)
(* lib/iow-zstd.c hands what the encoder wrote to the child after every    *)
(* call of it; lib/iow-lz4.c cuts the caller's bytes into pieces whose     *)
(* output is sure to fit behind what is in outbuf.                         *)
(*                                                                         *)
(* Compression itself is left out: the compressed form of the program's    *)
(* bytes 1, 2, 3, ... is those bytes, followed by a Trailer, and for lz4   *)
(* behind a Header.                                                        *)
(***************************************************************************)
EXTENDS ByteStream, CodecHandle, WriteHandle

CONSTANTS
  Codecs,          \* the codecs looked at, of AllCodecs
  LZ4_OUTBUF,      \* size of lz4's outbuf, scaled down; twice the longest piece
  LZ4_BLOCK,       \* the lz4 encoder holds back less than this
  ChildMayFail,    \* may the child's write and flush return -1?
  EncoderMayFail   \* may the encoder report an error?

AllCodecs == {"zlib", "bzip", "lzma", "zstd", "lz4"}

outbuf_size_max == LZ4_OUTBUF \div 2

(* The last conjunct is why lz4_wwrite never meets "invalid upper bound    *)
(* calculated by lz4 library".                                             *)
ASSUME CodecWriterAssumption ==
  /\ Codecs \subseteq AllCodecs
  /\ BUFFER_SIZE \in Nat \ {0} /\ MaxStream \in Nat /\ MaxWriteLen \in Nat
  /\ ChildMayFail \in BOOLEAN /\ EncoderMayFail \in BOOLEAN
  /\ LZ4_OUTBUF \in Nat /\ LZ4_BLOCK \in Nat \ {0}
  /\ outbuf_size_max > 0 /\ outbuf_size_max + LZ4_BLOCK - 1 <= LZ4_OUTBUF

(* pc: "idle", "write", "drain" (outbuff to the child in a flush), "flush" *)
(* (the child), "close", "closed"; those of zstd and lz4 are listed in     *)
(* WriterTypeOK.                                                           *)
VARIABLES
  next_in,         \* the avail_in bytes of the caller the encoder still sees
  inside,          \* bytes the encoder took and has not written to outbuff
  finishing,       \* has the encoder been told to finish?
  outbuff,         \* the bytes of outbuff in use
  child,           \* the bytes the child has taken
  ready,           \* zstd: has output_buffer been given a buffer and a size?
  closing,         \* lz4: was the flush called by lz4_wclose?
  failed,          \* history: has the child or the encoder ever failed?
  misreported      \* history: has the result of a write not been the number of
                   \* its bytes the encoder took?

encoder == <<codec, next_in, inside, finishing>>
owner == <<ready, closing>>
history == <<accepted, failed, misreported>>
writerVars == <<encoder, outbuff, err, child, pc, owner, asked, ret, history>>

Header == -2
Trailer == -1
-----------------------------------------------------------------------------
(* One call of the encoder, deflate, BZ2_bzCompress, lzma_code or          *)
(* ZSTD_compressStream: it takes m bytes and writes e.  It stops when its  *)
(* input or its space runs out; told to flush or finish it holds back only *)
(* what has no room.                                                       *)
Held(m, mode) ==
  inside \o SubSeq(next_in, 1, m)
    \o (IF mode = "FINISH" /\ ~finishing /\ m = Len(next_in) THEN <<Trailer>> ELSE <<>>)

Room == (IF codec = "lz4" THEN LZ4_OUTBUF ELSE BUFFER_SIZE) - Len(outbuff)

Encode(mode, m, e) ==
  LET held == Held(m, mode)
  IN  /\ e <= Smaller(Room, Len(held))
      /\ e = Room \/ m = Len(next_in)
      /\ codec = "zlib" /\ Room = 0 => m = 0    \* Z_BUF_ERROR
      /\ mode # "RUN" => e = Smaller(Room, Len(held))
      /\ codec' = codec
      /\ next_in' = SubSeq(next_in, m + 1, Len(next_in))
      /\ inside' = SubSeq(held, e + 1, Len(held))
      /\ finishing' = (finishing \/ (mode = "FINISH" /\ m = Len(next_in)))
      /\ outbuff' = outbuff \o SubSeq(held, 1, e)

(* After Encode("FINISH"): has the encoder nothing left to say?            *)
StreamEnd == finishing' /\ inside' = <<>>

Encodes(mode) == \E m \in 0..Len(next_in), e \in 0..Room : Encode(mode, m, e)

EncoderFails == EncoderMayFail /\ failed' = TRUE /\ UNCHANGED <<encoder, outbuff>>

(* The child takes all of outbuff, or fails.                               *)
ChildTakes == child' = child \o outbuff /\ failed' = failed
ChildFails == ChildMayFail /\ child' = child /\ failed' = TRUE
-----------------------------------------------------------------------------
(* Small steps of the code.  A definition named X_y is a faulty variant of *)
(* X, used to show that the properties would notice it.                    *)

(* outbuff goes to the child only when it is full, and is empty after.     *)
MustDrain_never == FALSE
MustDrain == Room = 0

Reset_forgotten == outbuff' = outbuff
Reset == outbuff' = <<>>

(* The loop test of the write.                                             *)
MoreInput == err = "OK" /\ next_in # <<>>

(* Bytes the encoder took in this call.                                    *)
Taken_emitted == asked - Len(next_in) - Len(inside)
Taken == asked - Len(next_in)

(* The write returns n; the encoder took this many of its bytes.           *)
ReturnOf(n, took) ==
  /\ ret' = n
  /\ accepted' = IF n > 0 THEN accepted + n ELSE accepted
  /\ misreported' = (misreported \/ (IF n > 0 THEN n ELSE 0) # took)
  /\ pc' = "idle"

ReturnWrite(n) == ReturnOf(n, asked - Len(next_in))

(* Does the loop of the close call the encoder again?  bz_wclose goes on   *)
(* while the result is BZ_OK, and BZ2_bzCompress(BZ_FINISH) never returns  *)
(* BZ_OK: with output left it returns BZ_FINISH_OK.                        *)
zlib_more == ~StreamEnd
bz_more == FALSE
lzma_more_once == FALSE
lzma_more == ~StreamEnd
zstd_more == ~StreamEnd

More ==
  \/ codec = "zlib" /\ zlib_more
  \/ codec = "bzip" /\ bz_more
  \/ codec = "lzma" /\ lzma_more
  \/ codec = "zstd" /\ zstd_more
-----------------------------------------------------------------------------
(* Opening; the header of an lz4 frame waits in outbuf.                    *)
OpenWriter(name, first) ==
  /\ name \in Codecs /\ codec = name
  /\ next_in = <<>> /\ inside = <<>> /\ finishing = FALSE
  /\ outbuff = first /\ err = "OK" /\ child = <<>>
  /\ pc = "idle" /\ ready = FALSE /\ closing = FALSE
  /\ asked = 0 /\ ret = 0 /\ accepted = 0 /\ failed = FALSE /\ misreported = FALSE

zlib_wopen == OpenWriter("zlib", <<>>)
bz_wopen   == OpenWriter("bzip", <<>>)
lzma_wopen == OpenWriter("lzma", <<>>)
zstd_wopen == OpenWriter("zstd", <<>>)
lz4_wopen  == OpenWriter("lz4", <<Header>>)

WriterInit == zlib_wopen \/ bz_wopen \/ lzma_wopen \/ zstd_wopen \/ lz4_wopen

(* The head of the write; after an error nothing is accepted any more.     *)
StartWrite(n) ==
  /\ pc = "idle" /\ accepted + n <= MaxStream
  /\ asked' = n
  /\ \/ /\ err = "ERROR" /\ ret' = -1
        /\ UNCHANGED <<next_in, pc>>
     \/ /\ err = "OK" /\ ret' = ret
        /\ next_in' = Bytes(accepted, n)
        /\ pc' = "write"
  /\ UNCHANGED <<codec, inside, finishing, outbuff, err, child, owner, history>>

zlib_wwrite(n) == codec = "zlib" /\ StartWrite(n)
bz_wwrite(n)   == codec = "bzip" /\ StartWrite(n)
lzma_wwrite(n) == codec = "lzma" /\ StartWrite(n)

WriteDrain ==
  /\ pc = "write" /\ MoreInput /\ MustDrain
  /\ ChildTakes /\ Reset
  /\ UNCHANGED <<encoder, err, pc, owner, asked, ret, accepted, misreported>>

(* The child fails: return what was taken, or -1.  outbuff keeps its bytes *)
(* and next_in keeps pointing into the caller's buffer; what is there      *)
(* later is up to the caller.                                              *)
WriteDrainFails ==
  /\ pc = "write" /\ MoreInput /\ MustDrain
  /\ ChildFails
  /\ err' = "ERROR"
  /\ ReturnWrite(IF Taken # 0 THEN Taken ELSE -1)
  /\ next_in' = [i \in DOMAIN next_in |-> Garbage]
  /\ UNCHANGED <<codec, inside, finishing, outbuff, owner, asked>>

WriteEncode ==
  /\ pc = "write" /\ MoreInput /\ ~MustDrain
  /\ Encodes("RUN")
  /\ UNCHANGED <<err, child, pc, owner, asked, ret, history>>

WriteEncoderFails ==
  /\ pc = "write" /\ MoreInput /\ ~MustDrain
  /\ EncoderFails /\ err' = "ERROR"
  /\ UNCHANGED <<child, pc, owner, asked, ret, accepted, misreported>>

WriteReturn ==
  /\ pc = "write" /\ ~MoreInput
  /\ ReturnWrite(Taken)
  /\ next_in' = [i \in DOMAIN next_in |-> Garbage]
  /\ UNCHANGED <<codec, inside, finishing, outbuff, err, child, owner, asked, failed>>

Writer == WriteDrain \/ WriteEncode \/ WriteReturn
-----------------------------------------------------------------------------
(* zstd_wwrite.  A write of nothing returns 0 at once.                     *)
zstd_wwrite(n) ==
  /\ codec = "zstd"
  /\ pc = "idle" /\ accepted + n <= MaxStream
  /\ asked' = n
  /\ \/ err = "ERROR" /\ ret' = -1 /\ UNCHANGED <<next_in, pc, ready>>
     \/ err = "OK" /\ n = 0 /\ ret' = 0 /\ UNCHANGED <<next_in, pc, ready>>
     \/ /\ err = "OK" /\ n > 0 /\ ret' = ret
        /\ next_in' = Bytes(accepted, n) /\ pc' = "zstdEncode" /\ ready' = TRUE
  /\ UNCHANGED <<codec, inside, finishing, outbuff, err, child, closing, history>>

ZstdEncode ==
  /\ pc = "zstdEncode" /\ pc' = "zstdDrain"
  /\ Encodes("RUN")
  /\ UNCHANGED <<err, child, owner, asked, ret, history>>

ZstdEncoderFails ==
  /\ pc = "zstdEncode"
  /\ EncoderMayFail /\ failed' = TRUE /\ err' = "ERROR"
  /\ ReturnWrite(-1)
  /\ next_in' = <<>>
  /\ UNCHANGED <<codec, inside, finishing, outbuff, child, owner, asked>>

(* What the encoder wrote goes to the child; a child that takes no bytes,  *)
(* because there are none, counts as one that failed.                      *)
ZstdResult_output == Len(outbuff)
ZstdResult == asked - Len(next_in)

ZstdDrain ==
  /\ pc = "zstdDrain" /\ outbuff # <<>>
  /\ ChildTakes /\ Reset
  /\ \/ next_in # <<>> /\ pc' = "zstdEncode" /\ UNCHANGED <<ret, accepted, misreported>>
     \/ next_in = <<>> /\ ReturnWrite(ZstdResult)
  /\ UNCHANGED <<encoder, err, owner, asked>>

ZstdDrainFails ==
  /\ pc = "zstdDrain"
  /\ \/ outbuff = <<>> /\ UNCHANGED <<child, failed>>
     \/ outbuff # <<>> /\ ChildFails
  /\ err' = "ERROR"
  /\ ReturnWrite(-1)
  /\ next_in' = <<>> /\ outbuff' = <<>>
  /\ UNCHANGED <<codec, inside, finishing, owner, asked>>

ZstdWriter == ZstdEncode \/ ZstdDrain \/ (outbuff = <<>> /\ ZstdDrainFails)
-----------------------------------------------------------------------------
(* lz4_wwrite: pieces of at most half of outbuf; outbuf goes to the child  *)
(* when the most a piece can add to it would not fit.                      *)
Piece == SubSeq(next_in, 1, Smaller(outbuf_size_max, Len(next_in)))
upper_bound == Len(Piece) + LZ4_BLOCK - 1

(* Bound: no write once the pieces of writes that failed and were repeated *)
(* make up more than the program's bytes.                                  *)
lz4_wwrite(n) ==
  /\ codec = "lz4"
  /\ Len(child) + Len(outbuff) + Len(inside) <= MaxStream + 1
  /\ pc = "idle" /\ accepted + n <= MaxStream
  /\ asked' = n
  /\ \/ err = "ERROR" /\ ret' = -1 /\ UNCHANGED <<next_in, pc>>
     \/ err = "OK" /\ n = 0 /\ ret' = 0 /\ UNCHANGED <<next_in, pc>>
     \/ err = "OK" /\ n > 0 /\ ret' = ret /\ next_in' = Bytes(accepted, n) /\ pc' = "lz4Write"
  /\ UNCHANGED <<codec, inside, finishing, outbuff, err, child, owner, history>>

Lz4Drain ==
  /\ pc = "lz4Write" /\ upper_bound > Room
  /\ ChildTakes /\ Reset
  /\ UNCHANGED <<encoder, err, pc, owner, asked, ret, accepted, misreported>>

Lz4DrainFails ==
  /\ pc = "lz4Write" /\ upper_bound > Room
  /\ ChildFails /\ err' = "ERROR"
  /\ ReturnWrite(-1)
  /\ next_in' = <<>>
  /\ UNCHANGED <<codec, inside, finishing, outbuff, owner, asked>>

(* LZ4F_compressUpdate takes the piece and writes whole blocks.  The       *)
(* result of the write is the length of its last piece.                    *)
Lz4Encode ==
  /\ pc = "lz4Write" /\ upper_bound <= Room
  /\ \E e \in 0 .. Len(inside) + Len(Piece) :
       LET held == inside \o Piece
       IN  /\ Len(held) - e < LZ4_BLOCK
           /\ outbuff' = outbuff \o SubSeq(held, 1, e)
           /\ inside' = SubSeq(held, e + 1, Len(held))
  /\ next_in' = SubSeq(next_in, Len(Piece) + 1, Len(next_in))
  /\ \/ next_in' # <<>> /\ UNCHANGED <<pc, ret, accepted, misreported>>
     \/ next_in' = <<>> /\ ReturnOf(Len(Piece), asked)
  /\ UNCHANGED <<codec, finishing, err, child, owner, asked, failed>>

(* An error of the encoder is returned, but err stays OK.                  *)
Lz4EncoderFails ==
  /\ pc = "lz4Write" /\ upper_bound <= Room
  /\ EncoderMayFail /\ failed' = TRUE
  /\ ReturnWrite(-1)
  /\ next_in' = <<>>
  /\ UNCHANGED <<codec, inside, finishing, outbuff, err, child, owner, asked>>

Lz4Writer == Lz4Drain \/ Lz4Encode
-----------------------------------------------------------------------------
(* zlib_wflush: one call of deflate, outbuff to the child, flush the child. *)
(* err is not looked at.  Bound: no flush once the child holds more than   *)
(* the program can have written.                                           *)
zlib_wflush ==
  /\ codec = "zlib"
  /\ Len(child) <= MaxStream
  /\ pc = "idle" /\ asked' = 0
  /\ \/ Encodes("SYNC_FLUSH") /\ pc' = "drain" /\ UNCHANGED <<err, ret, failed>>
     \/ EncoderFails /\ err' = "ERROR" /\ ret' = -1 /\ pc' = pc
  /\ UNCHANGED <<child, owner, accepted, misreported>>

FlushDrain ==
  /\ pc = "drain"
  /\ \/ ChildTakes /\ pc' = "flush" /\ UNCHANGED <<err, ret>>
     \/ ChildFails /\ err' = "ERROR" /\ ret' = -1 /\ pc' = "idle"
  /\ UNCHANGED <<encoder, outbuff, owner, asked, accepted, misreported>>

(* Where a flush returns to; lz4_wclose does not look at its result.       *)
Flushed == pc' = IF closing THEN "lz4End" ELSE "idle"

(* zlib's outbuff is reset only after the child's flush succeeded too.     *)
FlushChild ==
  /\ pc = "flush" /\ Flushed
  /\ \/ Reset /\ ret' = 0 /\ UNCHANGED <<err, child, failed>>
     \/ ChildFails /\ err' = "ERROR" /\ ret' = -1 /\ outbuff' = outbuff
  /\ UNCHANGED <<encoder, owner, asked, accepted, misreported>>

(* Three are not implemented.                                              *)
NoFlush(name, result) ==
  /\ codec = name /\ pc = "idle"
  /\ ret' = result /\ asked' = 0
  /\ UNCHANGED <<encoder, outbuff, err, child, pc, owner, history>>

bz_wflush   == NoFlush("bzip", -1)
lzma_wflush == NoFlush("lzma", 0)
zstd_wflush == NoFlush("zstd", 0)

(* lz4_wflush: outbuf to the child, then what the encoder holds, then      *)
(* flush the child.                                                        *)
lz4_wflush ==
  /\ codec = "lz4" /\ pc = "idle"
  /\ asked' = 0 /\ pc' = "lz4Flush"
  /\ UNCHANGED <<encoder, outbuff, err, child, owner, ret, history>>

Lz4FlushDrain ==
  /\ pc = "lz4Flush"
  /\ \/ ChildTakes /\ Reset /\ pc' = "lz4FlushEncode" /\ UNCHANGED <<err, ret>>
     \/ ChildFails /\ err' = "ERROR" /\ ret' = -1 /\ Flushed /\ UNCHANGED outbuff
  /\ UNCHANGED <<encoder, owner, asked, accepted, misreported>>

Lz4FlushEncode ==
  /\ pc = "lz4FlushEncode"
  /\ outbuff' = inside /\ inside' = <<>>
  /\ pc' = IF inside = <<>> THEN "flush" ELSE "lz4FlushOut"
  /\ UNCHANGED <<codec, next_in, finishing, err, child, owner, asked, ret, history>>

Lz4FlushEncoderFails ==
  /\ pc = "lz4FlushEncode"
  /\ EncoderFails /\ ret' = -1 /\ Flushed
  /\ UNCHANGED <<err, child, owner, asked, accepted, misreported>>

(* outbuf_index is zero already: bytes the child did not take are lost.    *)
Lz4FlushOut ==
  /\ pc = "lz4FlushOut"
  /\ outbuff' = <<>>
  /\ \/ ChildTakes /\ pc' = "flush" /\ UNCHANGED <<err, ret>>
     \/ ChildFails /\ err' = "ERROR" /\ ret' = -1 /\ Flushed
  /\ UNCHANGED <<encoder, owner, asked, accepted, misreported>>

Flusher == FlushDrain \/ FlushChild \/ Lz4FlushDrain \/ Lz4FlushEncode \/ Lz4FlushOut
-----------------------------------------------------------------------------
(* One step of the loop in close: the encoder finishes; then its output    *)
(* goes to the child, whose result is not looked at.                       *)
StartClose ==
  /\ pc = "idle" /\ pc' = "close"
  /\ UNCHANGED <<encoder, outbuff, err, child, owner, asked, ret, history>>

zlib_wclose == codec = "zlib" /\ StartClose
bz_wclose   == codec = "bzip" /\ StartClose
lzma_wclose == codec = "lzma" /\ StartClose
zstd_wclose == codec = "zstd" /\ StartClose

lz4_wclose ==
  /\ codec = "lz4" /\ pc = "idle"
  /\ closing' = TRUE /\ pc' = "lz4Flush"
  /\ UNCHANGED <<encoder, outbuff, err, child, ready, asked, ret, history>>

CloseEncode ==
  /\ pc = "close" /\ (codec = "zstd" => ready)
  /\ Encodes("FINISH")
  /\ pc' = IF More THEN "closeMore" ELSE "closeLast"
  /\ UNCHANGED <<err, child, owner, asked, ret, history>>

(* zstd_wclose gives up at once, without closing the child.                *)
CloseEncoderFails ==
  /\ pc = "close" /\ (codec = "zstd" => ready)
  /\ EncoderFails
  /\ pc' = IF codec = "zstd" THEN "leaked" ELSE "closeLast"
  /\ UNCHANGED <<err, child, owner, asked, ret, accepted, misreported>>

(* zstd_wclose after no write at all: the buffer and the size given to     *)
(* ZSTD_endStream are what malloc left there.  Zeros, as in a fresh        *)
(* mapping, give the encoder no room and the loop no end; anything else is *)
(* a wild pointer.                                                         *)
CloseUnready ==
  /\ pc = "close" /\ codec = "zstd" /\ ~ready
  /\ pc' \in {"close", "crashed"}
  /\ UNCHANGED <<encoder, outbuff, err, child, owner, asked, ret, history>>

(* LZ4F_compressEnd, into outbuf from its start; after an error the length *)
(* given to the child is negative and nothing is written.                  *)
Lz4End ==
  /\ pc = "lz4End" /\ pc' = "closeLast"
  /\ outbuff' = Append(inside, Trailer) /\ inside' = <<>> /\ finishing' = TRUE
  /\ UNCHANGED <<codec, next_in, err, child, owner, asked, ret, history>>

Lz4EndFails ==
  /\ pc = "lz4End" /\ pc' = "closeLast"
  /\ EncoderMayFail /\ failed' = TRUE /\ outbuff' = <<>>
  /\ UNCHANGED <<encoder, err, child, owner, asked, ret, accepted, misreported>>

CloseDrain ==
  /\ pc \in {"closeMore", "closeLast"}
  /\ ChildTakes \/ ChildFails
  /\ Reset
  /\ pc' = IF pc = "closeMore" THEN "close" ELSE "closed"
  /\ UNCHANGED <<encoder, err, owner, asked, ret, accepted, misreported>>

Closer == CloseEncode \/ Lz4End \/ CloseDrain

WriterClosed == pc \in {"closed", "leaked", "crashed"} /\ UNCHANGED writerVars

WriterNext ==
  \/ \E n \in 0..MaxWriteLen :
       zlib_wwrite(n) \/ bz_wwrite(n) \/ lzma_wwrite(n) \/ zstd_wwrite(n) \/ lz4_wwrite(n)
  \/ Writer \/ WriteDrainFails \/ WriteEncoderFails
  \/ ZstdEncode \/ ZstdDrain \/ ZstdDrainFails \/ ZstdEncoderFails
  \/ Lz4Writer \/ Lz4DrainFails \/ Lz4EncoderFails
  \/ zlib_wflush \/ bz_wflush \/ lzma_wflush \/ zstd_wflush \/ lz4_wflush
  \/ Flusher \/ Lz4FlushEncoderFails
  \/ zlib_wclose \/ bz_wclose \/ lzma_wclose \/ zstd_wclose \/ lz4_wclose
  \/ Closer \/ CloseEncoderFails \/ CloseUnready \/ Lz4EndFails
  \/ WriterClosed

WriterSpec == WriterInit /\ [][WriterNext]_writerVars

(* The thread inside a call keeps running and the child's calls return.    *)
FairWriterSpec ==
  /\ WriterSpec
  /\ WF_writerVars(Writer) /\ WF_writerVars(ZstdWriter) /\ WF_writerVars(Lz4Writer)
  /\ WF_writerVars(Flusher) /\ WF_writerVars(Closer)
-----------------------------------------------------------------------------
(* Every variable keeps its type; outbuff is never overrun.                *)
WriterTypeOK ==
  /\ codec \in Codecs /\ next_in \in Seq(Nat) /\ inside \in Seq(Int) /\ finishing \in BOOLEAN
  /\ outbuff \in Seq(Int) /\ Room >= 0
  /\ err \in {"OK", "ERROR"} /\ child \in Seq(Int)
  /\ pc \in {"idle", "write", "drain", "flush", "close", "closeMore", "closeLast", "closed",
             "zstdEncode", "zstdDrain", "leaked", "crashed",
             "lz4Write", "lz4Flush", "lz4FlushEncode", "lz4FlushOut", "lz4End"}
  /\ ready \in BOOLEAN /\ closing \in BOOLEAN
  /\ asked \in 0..MaxWriteLen /\ ret \in -1..MaxWriteLen
  /\ accepted \in 0..MaxStream /\ failed \in BOOLEAN /\ misreported \in BOOLEAN

(* The stream that n bytes of the program make, as far as a flush brings   *)
(* it and whole.                                                           *)
Started(n) == (IF codec = "lz4" THEN <<Header>> ELSE <<>>) \o Bytes(0, n)
Whole(n) == Append(Started(n), Trailer)

(* Until an error is reported, every byte the program was told is written  *)
(* is in exactly one place, in order: with the child, in outbuff or inside *)
(* the encoder; also between the writes and flushes of a long sequence.    *)
(* outbuff is never overrun, and every variable has its type.              *)
Accounted ==
  /\ WriterTypeOK
  /\ pc = "idle" /\ err = "OK" /\ ~misreported
       => child \o outbuff \o inside = Started(accepted)

(* lib/wandio.h:346, "The amount of data written, or -1 if an error        *)
(* occurs": the result of a write is the number of its bytes that are now  *)
(* in the stream, also when the child fails half-way.  Only zstd_wwrite    *)
(* returns -1 for bytes that are in the stream, when its child fails or    *)
(* its encoder wrote nothing, and refuses all later writes; and lz4_wwrite *)
(* counts only the last piece of a write longer than outbuf_size_max.      *)
ResultCountsBytes ==
  [][misreported' /\ ~misreported
       => \/ codec = "zstd" /\ err' = "ERROR" /\ (failed' \/ outbuff = <<>>)
          \/ codec = "lz4" /\ asked > outbuf_size_max]_writerVars

(* A zlib, lzma, zstd or lz4 writer that is closed while nothing fails     *)
(* gives the child everything the program wrote, and the trailer that      *)
(* makes it a complete member, however often outbuff fills; a bzip writer  *)
(* does while all that is left fits in outbuff.  After a zstd write that   *)
(* was refused because the encoder wrote nothing, its bytes follow.        *)
CloseComplete ==
  pc = "closed" /\ ~failed
    => /\ ~misreported /\ (codec = "bzip" => inside = <<>>) => child = Whole(accepted)
       /\ codec = "zstd" => \E k \in 0..MaxWriteLen : child = Whole(accepted + k)

(* lib/iow-bzip.c:132, "Need to flush the output buffer": the loop of the  *)
(* close empties outbuff until the encoder has nothing left.               *)
EveryCloseComplete ==
  pc = "closed" /\ ~failed => child = Whole(accepted)

(* lib/wandio.h:350, "Flushes any compressed data that is being retained   *)
(* internally by the libwandio IO writer to the output file": when         *)
(* zlib_wflush or lz4_wflush returns without an error, and none was met    *)
(* before, the child has all the program wrote, unless deflate used up     *)
(* outbuff.                                                                *)
FlushReachesChild ==
  [][pc = "flush" /\ ret' >= 0 /\ err = "OK" /\ ~misreported /\ Room # 0
       => child' = Started(accepted)]_writerVars

(* Every write, flush and close returns, although the encoder may need     *)
(* outbuff to be emptied any number of times; except the close of a zstd   *)
(* writer nothing was written to.                                          *)
CallsReturn ==
  /\ (pc \in {"write", "zstdEncode", "lz4Write"}) ~> (pc = "idle")
  /\ (pc \in {"drain", "lz4Flush"}) ~> (pc \in {"idle", "closed"})
  /\ (pc = "close" /\ (codec = "zstd" => ready)) ~> (pc \in {"closed", "leaked"})
=============================================================================
