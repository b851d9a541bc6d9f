---------------------------- MODULE ThreadReader ----------------------------
(***************************************************************************)
(* The threaded reader, lib/ior-thread.c: a producer thread reads from the *)
(* parent reader into a ring of max_buffers slices, the thread that owns   *)
(* the handle copies out of them.  One mutex and two condition variables.  *)
(*                                                                         *)
(* Every stretch of code between two synchronisation points (lock, unlock, *)
(* condition wait) is one action; what the code does with the mutex        *)
(* released (the parent's read, the memcpy, the assignment of in_buffer)   *)
(* are actions of their own, so all their interleavings are explored.      *)
(***************************************************************************)
EXTENDS ByteStream

CONSTANTS
  max_buffers,          \* number of slices in the ring
  BUFFER_SIZE,          \* WANDIO_BUFFER_SIZE, scaled down
  MaxStream,            \* bound: the parent supplies at most this many bytes
  MaxReadLen,           \* bound: the caller asks for at most this many bytes
  SpuriousWakeups,      \* may pthread_cond_wait return without a signal?
  ThreadCreateMayFail   \* may pthread_create fail in thread_open?

ASSUME ReaderAssumption ==
  /\ max_buffers \in Nat \ {0}
  /\ BUFFER_SIZE \in Nat \ {0}
  /\ MaxStream \in Nat
  /\ MaxReadLen \in Nat
  /\ SpuriousWakeups \in BOOLEAN
  /\ ThreadCreateMayFail \in BOOLEAN

VARIABLES
  (* struct buffer_t: space[i] is the stream offset the slice was filled   *)
  (* from, so the slice holds the len[i] bytes that follow it.             *)
  state, len, space,
  (* struct state_t *)
  in_buffer, offset, closing, mutex,
  (* thread_producer: control state and its local `buffer`                 *)
  ppc, buffer,
  (* the owner of the handle: control state, the locals of thread_read,    *)
  (* and what the last completed read was asked for and returned           *)
  cpc, want, copied, slice, newbuffer, asked, ret,
  (* the parent reader: offset it has been read up to, 1 until it returned *)
  (* end of file (0) or an error (-1), and whether it was destroyed        *)
  parentPos, parentEnd, parentOpen,
  (* history: every byte copied out to the caller so far                   *)
  delivered

ring     == <<state, len, space>>
handle   == <<in_buffer, offset>>
producer == <<ppc, buffer>>
locals   == <<want, copied, slice, newbuffer>>
parent   == <<parentPos, parentEnd, parentOpen>>
vars     == <<ring, handle, closing, mutex, producer, cpc, locals, asked, ret,
              parent, delivered>>

Slots == 0 .. max_buffers - 1
-----------------------------------------------------------------------------
(* Small steps the actions below are made of.  A definition named X_y is a  *)
(* faulty variant of X, used to show that the properties would notice it.  *)

NextBuffer(b) == (b + 1) % max_buffers

(* pthread_cond_signal: each condition has at most one possible waiter.    *)
Signal_lost(pc) == pc
Signal(pc) == IF pc = "waiting" THEN "woken" ELSE pc

(* The producer keeps waiting while its slice is full and nobody closes.   *)
MustWait_never == FALSE
MustWait_ignoresClose == state[buffer] = "FULL"
MustWait == state[buffer] = "FULL" /\ ~closing

(* After publishing a slice of r bytes the producer goes on, or tidies up. *)
AfterPublish(r) == IF r > 0 THEN "check" ELSE "destroy"

(* What the next memcpy of thread_read moves.                              *)
Slice_wholeBuffer == Smaller(len[in_buffer], want)
Slice == Smaller(len[in_buffer] - offset, want)

(* Byte i (from 1) of slice b's memory.                                    *)
ByteAt(b, i) == IF i <= len[b] THEN space[b] + i ELSE Garbage

(* Has the caller taken everything of its slice, once at offset o?         *)
Drained_late(o) == o > len[in_buffer]
Drained(o) == o >= len[in_buffer]

(* What a read that meets the end of the stream returns.                   *)
EndResult_alwaysCode == len[in_buffer]
EndResult == IF copied < 1 THEN len[in_buffer] ELSE copied

(* The loop test of thread_read.                                           *)
Unsatisfied_once == FALSE
Unsatisfied == want > 0

(* pthread_join; skipped when `producer` still is 0.                       *)
Joined_skipped == TRUE
Joined == ppc \in {"done", "none"}
-----------------------------------------------------------------------------
Init ==
  /\ state = [b \in Slots |-> "EMPTY"]
  /\ len = [b \in Slots |-> 0]
  /\ space = [b \in Slots |-> 0]
  /\ in_buffer = 0 /\ offset = 0
  /\ closing = FALSE
  /\ mutex = "none"
  /\ ppc = "none" /\ buffer = 0
  /\ cpc = "open"
  /\ want = 0 /\ copied = 0 /\ slice = 0 /\ newbuffer = 0
  /\ asked = 0 /\ ret = 0
  /\ parentPos = 0 /\ parentEnd = 1 /\ parentOpen = TRUE
  /\ delivered = <<>>

(* thread_open succeeds.  The result of pthread_create is not looked at:   *)
(* when it fails, the handle is returned without a producer behind it.     *)
thread_open ==
  /\ cpc = "open"
  /\ cpc' = "idle"
  /\ \/ ppc' = "start"
     \/ ThreadCreateMayFail /\ ppc' = "none"
  /\ UNCHANGED <<ring, handle, closing, mutex, buffer, locals, asked, ret,
                 parent, delivered>>

(* thread_open runs out of memory for a slice: it closes the half-built    *)
(* handle (there is no producer to join yet) and returns NULL.             *)
thread_open_nomem ==
  /\ cpc = "open"
  /\ closing' = TRUE
  /\ cpc' = "free"
  /\ UNCHANGED <<ring, handle, mutex, producer, locals, asked, ret, parent,
                 delivered>>
-----------------------------------------------------------------------------
(* thread_producer                                                         *)

ProducerLock ==
  /\ ppc \in {"start", "woken"}
  /\ mutex = "none"
  /\ mutex' = "producer"
  /\ ppc' = "check"
  /\ UNCHANGED <<ring, handle, closing, buffer, cpc, locals, asked, ret,
                 parent, delivered>>

(* Wait for a free slice, give up because the handle is being closed, or   *)
(* release the mutex and go and fill the slice.                            *)
ProducerCheck ==
  /\ ppc = "check"
  /\ \/ MustWait /\ ppc' = "waiting" /\ mutex' = "none"
     \/ closing  /\ ppc' = "destroy" /\ mutex' = mutex
     \/ ~MustWait /\ ~closing /\ ppc' = "fill" /\ mutex' = "none"
  /\ UNCHANGED <<ring, handle, closing, buffer, cpc, locals, asked, ret,
                 parent, delivered>>

ProducerSpuriousWakeup ==
  /\ SpuriousWakeups
  /\ ppc = "waiting"
  /\ ppc' = "woken"
  /\ UNCHANGED <<ring, handle, closing, mutex, buffer, cpc, locals, asked,
                 ret, parent, delivered>>

(* The parent reader, a full or short read of the bytes that follow, end   *)
(* of file or an error; performed with the mutex released.                 *)
ProducerFill ==
  /\ ppc = "fill"
  /\ \E r \in -1 .. BUFFER_SIZE :
       /\ r > 0 => parentPos + r <= MaxStream
       /\ len' = [len EXCEPT ![buffer] = r]
       /\ space' = [space EXCEPT ![buffer] = parentPos]
       /\ parentPos' = IF r > 0 THEN parentPos + r ELSE parentPos
       /\ parentEnd' = IF r > 0 THEN 1 ELSE r
  /\ ppc' = "publish"
  /\ UNCHANGED <<state, handle, closing, mutex, buffer, cpc, locals, asked,
                 ret, parentOpen, delivered>>

ProducerPublish ==
  /\ ppc = "publish"
  /\ mutex = "none"
  /\ mutex' = "producer"
  /\ state' = [state EXCEPT ![buffer] = "FULL"]
  /\ ppc' = AfterPublish(len[buffer])
  /\ cpc' = Signal(cpc)
  /\ buffer' = NextBuffer(buffer)
  /\ UNCHANGED <<len, space, handle, closing, locals, asked, ret, parent,
                 delivered>>

ProducerDestroy ==
  /\ ppc = "destroy"
  /\ parentOpen' = FALSE
  /\ cpc' = Signal(cpc)
  /\ mutex' = "none"
  /\ ppc' = "done"
  /\ UNCHANGED <<ring, handle, closing, buffer, locals, asked, ret, parentPos,
                 parentEnd, delivered>>

Producer ==
  \/ ProducerLock \/ ProducerCheck \/ ProducerFill \/ ProducerPublish
  \/ ProducerDestroy
-----------------------------------------------------------------------------
(* thread_read                                                             *)

(* A call; one that asks for nothing returns at once.                      *)
thread_read(n) ==
  /\ cpc = "idle"
  /\ want' = n /\ copied' = 0 /\ asked' = n
  /\ IF n > 0 THEN cpc' = "lock" /\ ret' = ret
              ELSE cpc' = "idle" /\ ret' = 0
  /\ UNCHANGED <<ring, handle, closing, mutex, producer, slice, newbuffer,
                 parent, delivered>>

ReadLock ==
  /\ cpc \in {"lock", "woken"}
  /\ mutex = "none"
  /\ mutex' = "client"
  /\ cpc' = "check"
  /\ UNCHANGED <<ring, handle, closing, producer, locals, asked, ret, parent,
                 delivered>>

ReadWait ==
  /\ cpc = "check"
  /\ state[in_buffer] = "EMPTY"
  /\ cpc' = "waiting"
  /\ mutex' = "none"
  /\ UNCHANGED <<ring, handle, closing, producer, locals, asked, ret, parent,
                 delivered>>

ReadSpuriousWakeup ==
  /\ SpuriousWakeups
  /\ cpc = "waiting"
  /\ cpc' = "woken"
  /\ UNCHANGED <<ring, handle, closing, mutex, producer, locals, asked, ret,
                 parent, delivered>>

(* End of file or error: report it, unless data was copied in this call.   *)
ReadEnd ==
  /\ cpc = "check"
  /\ state[in_buffer] = "FULL"
  /\ len[in_buffer] < 1
  /\ ret' = EndResult
  /\ copied' = 0
  /\ cpc' = "idle"
  /\ mutex' = "none"
  /\ UNCHANGED <<ring, handle, closing, producer, want, slice, newbuffer,
                 asked, parent, delivered>>

ReadSlice ==
  /\ cpc = "check"
  /\ state[in_buffer] = "FULL"
  /\ len[in_buffer] >= 1
  /\ slice' = Slice
  /\ cpc' = "copy"
  /\ mutex' = "none"
  /\ UNCHANGED <<ring, handle, closing, producer, want, copied, newbuffer,
                 asked, ret, parent, delivered>>

(* memcpy with the mutex released.                                         *)
ReadCopy ==
  /\ cpc = "copy"
  /\ delivered' = delivered \o
                    [i \in 1..slice |-> ByteAt(in_buffer, offset + i)]
  /\ want' = want - slice
  /\ copied' = copied + slice
  /\ cpc' = "advance"
  /\ UNCHANGED <<ring, handle, closing, mutex, producer, slice, newbuffer,
                 asked, ret, parent>>

ReadAdvance ==
  /\ cpc = "advance"
  /\ mutex = "none"
  /\ IF Drained(offset + slice)
     THEN /\ state' = [state EXCEPT ![in_buffer] = "EMPTY"]
          /\ ppc' = Signal(ppc)
          /\ newbuffer' = NextBuffer(in_buffer)
          /\ offset' = 0
     ELSE /\ newbuffer' = in_buffer
          /\ offset' = offset + slice
          /\ UNCHANGED <<state, ppc>>
  /\ cpc' = "assign"
  /\ UNCHANGED <<len, space, in_buffer, closing, mutex, buffer, want, copied,
                 slice, asked, ret, parent, delivered>>

(* in_buffer is assigned after the mutex is released, then the loop test.  *)
ReadAssign ==
  /\ cpc = "assign"
  /\ in_buffer' = newbuffer
  /\ IF Unsatisfied THEN cpc' = "lock" /\ UNCHANGED <<ret, copied>>
                    ELSE cpc' = "idle" /\ ret' = copied /\ copied' = 0
  /\ UNCHANGED <<ring, offset, closing, mutex, producer, want, slice,
                 newbuffer, asked, parent, delivered>>

Reader ==
  \/ ReadLock \/ ReadWait \/ ReadEnd \/ ReadSlice \/ ReadCopy \/ ReadAdvance
  \/ ReadAssign
-----------------------------------------------------------------------------
(* thread_close                                                            *)

thread_close ==
  /\ cpc = "idle"
  /\ cpc' = "close"
  /\ UNCHANGED <<ring, handle, closing, mutex, producer, locals, asked, ret,
                 parent, delivered>>

CloseSignal ==
  /\ cpc = "close"
  /\ mutex = "none"
  /\ closing' = TRUE
  /\ ppc' = Signal(ppc)
  /\ cpc' = "join"
  /\ UNCHANGED <<ring, handle, mutex, buffer, locals, asked, ret, parent,
                 delivered>>

CloseJoin ==
  /\ cpc = "join"
  /\ Joined
  /\ cpc' = "free"
  /\ UNCHANGED <<ring, handle, closing, mutex, producer, locals, asked, ret,
                 parent, delivered>>

(* A pthread_create that failed leaves `producer` undefined: 0, which ends *)
(* in CloseJoin, or an id that joins no thread and may do anything.        *)
CloseJoinUndefined ==
  /\ cpc = "join"
  /\ ppc = "none"
  /\ cpc' = "crashed"
  /\ UNCHANGED <<ring, handle, closing, mutex, producer, locals, asked, ret,
                 parent, delivered>>

CloseFree ==
  /\ cpc = "free"
  /\ cpc' = "closed"
  /\ UNCHANGED <<ring, handle, closing, mutex, producer, locals, asked, ret,
                 parent, delivered>>

Closer == CloseSignal \/ CloseJoin \/ CloseJoinUndefined \/ CloseFree

(* The handle, or the process, is gone; nothing happens any more.          *)
Closed == cpc \in {"closed", "crashed"} /\ UNCHANGED vars
-----------------------------------------------------------------------------
Next ==
  \/ thread_open \/ thread_open_nomem
  \/ Producer \/ ProducerSpuriousWakeup
  \/ \E n \in 0..MaxReadLen : thread_read(n)
  \/ Reader \/ ReadSpuriousWakeup
  \/ thread_close \/ Closer
  \/ Closed

Spec == Init /\ [][Next]_vars

(* Both threads keep running, a mutex that stays free is obtained, the     *)
(* parent's read and destroy return, and condition waits do not return for *)
(* no reason for ever.  Calling read or close again is up to the           *)
(* application, so neither is assumed.                                     *)
Fairness ==
  /\ WF_vars(Producer) /\ WF_vars(Reader) /\ WF_vars(Closer)
  /\ <>[][~ProducerSpuriousWakeup /\ ~ReadSpuriousWakeup]_vars

FairSpec == Spec /\ Fairness
-----------------------------------------------------------------------------
ProducerPCs == {"none", "start", "check", "waiting", "woken", "fill",
                "publish", "destroy", "done"}
ClientPCs   == {"open", "idle", "lock", "check", "waiting", "woken", "copy",
                "advance", "assign", "close", "join", "free", "closed",
                "crashed"}

(* Every variable keeps its type; the indices buffer, in_buffer and        *)
(* newbuffer always name a slice of the ring.                              *)
TypeOK ==
  /\ state \in [Slots -> {"EMPTY", "FULL"}]
  /\ len \in [Slots -> -1..BUFFER_SIZE]
  /\ space \in [Slots -> Nat]
  /\ in_buffer \in Slots /\ offset \in Nat
  /\ closing \in BOOLEAN
  /\ mutex \in {"none", "producer", "client"}
  /\ ppc \in ProducerPCs /\ buffer \in Slots
  /\ cpc \in ClientPCs
  /\ want \in Nat /\ copied \in Nat /\ slice \in Nat /\ newbuffer \in Slots
  /\ asked \in Nat /\ ret \in Int
  /\ parentPos \in Nat /\ parentEnd \in {-1, 0, 1} /\ parentOpen \in BOOLEAN
  /\ delivered \in Seq(Nat)

(* Both threads touch slice memory with the mutex released: the producer   *)
(* while the parent reads into a slice, the caller while it copies out of  *)
(* one.  They are never at the same slice, and the caller does not copy    *)
(* from a slice whose contents and length are not yet published.           *)
NoSlotRace ==
  /\ ppc \in {"fill", "publish"} /\ cpc \in {"copy", "advance"}
       => buffer # in_buffer
  /\ cpc = "copy" => state[in_buffer] = "FULL" /\ offset + slice <= len[in_buffer]

(* The caller receives the parent's bytes: none lost, repeated, reordered  *)
(* or taken from outside the valid part of a slice, whatever the           *)
(* interleaving and however long either thread falls behind.               *)
InOrderDelivery == InOrder(delivered)

(* A read gives the caller less than it asked for only when the parent has *)
(* ended and everything it supplied before that has been handed over; with *)
(* nothing handed over in this call it returns the parent's own result.    *)
ShortReadOnlyAtEnd ==
  cpc = "idle" /\ asked > 0 /\ ret # asked
    => /\ parentEnd < 1
       /\ Len(delivered) = parentPos
       /\ ret <= 0 => ret = parentEnd

(* No lost wakeup: a thread asleep on a condition is asleep because what   *)
(* it waits for has not happened, and someone is left to signal it.        *)
NoLostWakeup ==
  /\ cpc = "waiting" => state[in_buffer] = "EMPTY" /\ ppc \notin {"waiting", "done"}
  /\ ppc = "waiting" => state[buffer] = "FULL" /\ ~closing

(* The handle is freed only when the producer will not touch it again, and *)
(* the parent is never read after it was destroyed; a handle that had a    *)
(* producer leaves no open parent behind.                                  *)
NoUseAfterFree ==
  /\ cpc \in {"free", "closed"} => ppc \in {"none", "done"}
  /\ ppc = "fill" => parentOpen
  /\ ppc = "done" => ~parentOpen

(* Every read and every close returns: the handshake over the two          *)
(* conditions never leaves both threads waiting, nor one of them for ever, *)
(* also if a close finds the producer asleep on a full ring or inside a    *)
(* read of its parent.  Except on a handle whose pthread_create failed     *)
(* unnoticed in thread_open: nobody fills its slices, and close joins what *)
(* may be no thread.                                                       *)
CallsReturn ==
  /\ (cpc = "lock" /\ ppc # "none") ~> (cpc = "idle")
  /\ (cpc = "close" /\ ppc # "none") ~> (cpc = "closed")
-----------------------------------------------------------------------------
(* The contract of a reader handle, IOReader, is what this code implements: *)
(* the producer's reads are its Supply steps, the bytes copied by a read   *)
(* that has not returned yet are not counted as returned.                  *)
Contract == INSTANCE IOReader WITH
  status   <- CASE cpc = "open" -> "open"
                [] cpc = "idle" -> "idle"
                [] cpc \in {"close", "join", "free", "closed", "crashed"} -> "closed"
                [] OTHER -> "reading",
  got      <- SubSeq(delivered, 1, Len(delivered) - copied),
  supplied <- parentPos,
  end      <- parentEnd

(* Every behaviour of the threaded reader is one the contract allows.      *)
ImplementsIOReader == Contract!IOSpec
=============================================================================
