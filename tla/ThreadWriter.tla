---------------------------- MODULE ThreadWriter ----------------------------
(***************************************************************************)
(* The threaded writer, lib/iow-thread.c: the thread that owns the handle  *)
(* copies into a ring of BUFFERS slices, a consumer thread hands each      *)
(* slice to the child writer.  One mutex and two condition variables; the  *)
(* memcpy and the child's write and flush run with the mutex released.     *)
(***************************************************************************)
EXTENDS ByteStream

CONSTANTS
  BUFFERS,          \* number of slices (5 in the code)
  BUFFER_SIZE,      \* WANDIO_BUFFER_SIZE, scaled down
  MaxStream,        \* bound: the program writes at most this many bytes
  MaxWriteLen,      \* bound: length of one write
  SpuriousWakeups   \* may pthread_cond_wait return without a signal?

ASSUME WriterAssumption ==
  /\ BUFFERS \in Nat \ {0}
  /\ BUFFER_SIZE \in Nat \ {0}
  /\ MaxStream \in Nat
  /\ MaxWriteLen \in Nat
  /\ SpuriousWakeups \in BOOLEAN

VARIABLES
  (* struct buffer_t: space[b] is the slice's memory                       *)
  state, len, flush, space,
  (* struct state_t *)
  out_buffer, offset, closing, mutex,
  (* thread_consumer: control state and its local `buffer`                 *)
  kpc, buffer,
  (* the owner of the handle: control state and the locals of thread_wwrite *)
  wpc, want, slice,
  (* the child writer: what its write was given (the code never looks at   *)
  (* the result, so whether the child could write it makes no difference), *)
  (* how much of that it has been told to flush, and is it still there     *)
  written, childFlushed, childOpen,
  (* history: bytes taken from the program, how many had been taken at the *)
  (* latest thread_wflush, and at the latest one that found data pending   *)
  accepted, flushAsked, flushWanted

ring     == <<state, len, flush, space>>
handle   == <<out_buffer, offset>>
consumer == <<kpc, buffer>>
locals   == <<want, slice>>
child    == <<written, childFlushed, childOpen>>
history  == <<accepted, flushAsked, flushWanted>>
vars     == <<ring, handle, closing, mutex, consumer, wpc, locals, child,
              history>>

Slots == 0 .. BUFFERS - 1
-----------------------------------------------------------------------------
(* Small steps the actions below are made of.  A definition named X_y is a  *)
(* faulty variant of X, used to show that the properties would notice it.  *)

NextBuffer(b) == (b + 1) % BUFFERS

Signal_lost(pc) == pc
Signal(pc) == IF pc = "waiting" THEN "woken" ELSE pc

(* The consumer sleeps while its slice is not full, unless closing.        *)
NothingToDo_ignoresClose == state[buffer] = "EMPTY"
NothingToDo == state[buffer] = "EMPTY" /\ ~closing

(* After emptying a slice that held n bytes.                               *)
AfterWrite_stopsWhenClosing(n) == IF n > 0 /\ ~closing THEN "check" ELSE "destroy"
AfterWrite(n) == IF n > 0 THEN "check" ELSE "destroy"

(* What the next memcpy of thread_wwrite moves.                            *)
Slice == Smaller(BUFFER_SIZE - offset, want)

(* The writer waits while its slice has not been emptied.                  *)
NoSpace_never == FALSE
NoSpace == state[out_buffer] = "FULL"

(* Is there anything to pass on when the program asks for a flush?         *)
HasPending == offset > 0

(* The child's flush, after the child's write of the same slice.           *)
FlushChild_skipped(b) == childFlushed
FlushChild(b) == IF flush[b] THEN Len(written) ELSE childFlushed

Joined_skipped == TRUE
Joined == kpc = "done"
-----------------------------------------------------------------------------
(* After thread_wopen: every slice empty, the consumer started.            *)
Init ==
  /\ state = [b \in Slots |-> "EMPTY"]
  /\ len = [b \in Slots |-> 0]
  /\ flush = [b \in Slots |-> FALSE]
  /\ space = [b \in Slots |-> [i \in 1..BUFFER_SIZE |-> Garbage]]
  /\ out_buffer = 0 /\ offset = 0
  /\ closing = FALSE
  /\ mutex = "none"
  /\ kpc = "start" /\ buffer = 0
  /\ wpc = "idle" /\ want = 0 /\ slice = 0
  /\ written = <<>> /\ childFlushed = 0 /\ childOpen = TRUE
  /\ accepted = 0 /\ flushAsked = 0 /\ flushWanted = 0
-----------------------------------------------------------------------------
(* thread_consumer                                                         *)

ConsumerLock ==
  /\ kpc \in {"start", "woken"}
  /\ mutex = "none"
  /\ mutex' = "consumer"
  /\ kpc' = "check"
  /\ UNCHANGED <<ring, handle, closing, buffer, wpc, locals, child, history>>

ConsumerCheck ==
  /\ kpc = "check"
  /\ kpc' = IF NothingToDo THEN "waiting" ELSE "write"
  /\ mutex' = "none"
  /\ UNCHANGED <<ring, handle, closing, buffer, wpc, locals, child, history>>

ConsumerSpuriousWakeup ==
  /\ SpuriousWakeups
  /\ kpc = "waiting"
  /\ kpc' = "woken"
  /\ UNCHANGED <<ring, handle, closing, mutex, buffer, wpc, locals, child,
                 history>>

(* The child's write; its result is not looked at.                         *)
ConsumerWrite ==
  /\ kpc = "write"
  /\ written' = written \o SubSeq(space[buffer], 1, len[buffer])
  /\ kpc' = "flush"
  /\ UNCHANGED <<ring, handle, closing, mutex, buffer, wpc, locals,
                 childFlushed, childOpen, history>>

ConsumerFlush ==
  /\ kpc = "flush"
  /\ childFlushed' = FlushChild(buffer)
  /\ kpc' = "reset"
  /\ UNCHANGED <<ring, handle, closing, mutex, buffer, wpc, locals, written,
                 childOpen, history>>

ConsumerReset ==
  /\ kpc = "reset"
  /\ mutex = "none"
  /\ mutex' = "consumer"
  /\ kpc' = AfterWrite(len[buffer])
  /\ len' = [len EXCEPT ![buffer] = 0]
  /\ state' = [state EXCEPT ![buffer] = "EMPTY"]
  /\ flush' = [flush EXCEPT ![buffer] = FALSE]
  /\ wpc' = Signal(wpc)
  /\ buffer' = NextBuffer(buffer)
  /\ UNCHANGED <<space, handle, closing, locals, child, history>>

ConsumerDestroy ==
  /\ kpc = "destroy"
  /\ childOpen' = FALSE
  /\ mutex' = "none"
  /\ kpc' = "done"
  /\ UNCHANGED <<ring, handle, closing, buffer, wpc, locals, written,
                 childFlushed, history>>

Consumer ==
  \/ ConsumerLock \/ ConsumerCheck \/ ConsumerWrite \/ ConsumerFlush
  \/ ConsumerReset \/ ConsumerDestroy
-----------------------------------------------------------------------------
(* thread_wwrite                                                           *)

thread_wwrite(n) ==
  /\ wpc = "idle"
  /\ accepted + n <= MaxStream
  /\ want' = n
  /\ wpc' = "lock"
  /\ UNCHANGED <<ring, handle, closing, mutex, consumer, slice, child,
                 history>>

(* Obtain the mutex, at the start of the call or back from the wait; a     *)
(* call with nothing to write returns.                                     *)
WriteLock ==
  /\ wpc \in {"lock", "woken"}
  /\ mutex = "none"
  /\ IF want > 0 THEN wpc' = "check" /\ mutex' = "client"
                 ELSE wpc' = "idle" /\ mutex' = mutex
  /\ UNCHANGED <<ring, handle, closing, consumer, locals, child, history>>

WriteWait ==
  /\ wpc = "check"
  /\ NoSpace
  /\ wpc' = "waiting"
  /\ mutex' = "none"
  /\ UNCHANGED <<ring, handle, closing, consumer, locals, child, history>>

WriteSpuriousWakeup ==
  /\ SpuriousWakeups
  /\ wpc = "waiting"
  /\ wpc' = "woken"
  /\ UNCHANGED <<ring, handle, closing, mutex, consumer, locals, child,
                 history>>

WriteSlice ==
  /\ wpc = "check"
  /\ ~NoSpace
  /\ slice' = Slice
  /\ wpc' = "copy"
  /\ mutex' = "none"
  /\ UNCHANGED <<ring, handle, closing, consumer, want, child, history>>

(* memcpy with the mutex released.                                         *)
WriteCopy ==
  /\ wpc = "copy"
  /\ space' = [space EXCEPT ![out_buffer] =
                 [i \in 1..BUFFER_SIZE |->
                    IF i \in offset + 1 .. offset + slice
                    THEN accepted + i - offset ELSE @[i]]]
  /\ wpc' = "advance"
  /\ UNCHANGED <<state, len, flush, handle, closing, mutex, consumer, locals,
                 child, history>>

(* Publish the slice when it is full; then the loop test, still under the  *)
(* mutex, which the return releases.                                       *)
WriteAdvance ==
  /\ wpc = "advance"
  /\ mutex = "none"
  /\ len' = [len EXCEPT ![out_buffer] = @ + slice]
  /\ want' = want - slice
  /\ accepted' = accepted + slice
  /\ IF offset + slice >= BUFFER_SIZE
     THEN /\ state' = [state EXCEPT ![out_buffer] = "FULL"]
          /\ flush' = [flush EXCEPT ![out_buffer] = FALSE]
          /\ kpc' = Signal(kpc)
          /\ offset' = 0
          /\ out_buffer' = NextBuffer(out_buffer)
     ELSE /\ offset' = offset + slice
          /\ UNCHANGED <<state, flush, kpc, out_buffer>>
  /\ IF want' > 0 THEN wpc' = "check" /\ mutex' = "client"
                  ELSE wpc' = "idle" /\ mutex' = "none"
  /\ UNCHANGED <<space, closing, buffer, slice, child, flushAsked,
                 flushWanted>>

Writer == WriteLock \/ WriteWait \/ WriteSlice \/ WriteCopy \/ WriteAdvance
-----------------------------------------------------------------------------
(* thread_wflush: hand over a partly filled slice, marked for flushing.    *)
thread_wflush ==
  /\ wpc = "idle"
  /\ mutex = "none"
  /\ HasPending
  /\ state' = [state EXCEPT ![out_buffer] = "FULL"]
  /\ flush' = [flush EXCEPT ![out_buffer] = TRUE]
  /\ kpc' = Signal(kpc)
  /\ offset' = 0
  /\ out_buffer' = NextBuffer(out_buffer)
  /\ flushAsked' = accepted /\ flushWanted' = accepted
  /\ UNCHANGED <<len, space, closing, mutex, buffer, wpc, locals, child,
                 accepted>>

(* With no partly filled slice it does nothing and returns 0.              *)
thread_wflush_nothing ==
  /\ wpc = "idle"
  /\ mutex = "none"
  /\ ~HasPending
  /\ flushAsked' = accepted
  /\ UNCHANGED <<ring, handle, closing, mutex, consumer, wpc, locals, child,
                 accepted, flushWanted>>
-----------------------------------------------------------------------------
(* thread_wclose                                                           *)

thread_wclose ==
  /\ wpc = "idle"
  /\ wpc' = "close"
  /\ UNCHANGED <<ring, handle, closing, mutex, consumer, locals, child,
                 history>>

CloseSignal ==
  /\ wpc = "close"
  /\ mutex = "none"
  /\ closing' = TRUE
  /\ kpc' = Signal(kpc)
  /\ wpc' = "join"
  /\ UNCHANGED <<ring, handle, mutex, buffer, locals, child, history>>

(* pthread_join, then everything is freed.                                 *)
CloseJoin ==
  /\ wpc = "join"
  /\ Joined
  /\ wpc' = "closed"
  /\ UNCHANGED <<ring, handle, closing, mutex, consumer, locals, child,
                 history>>

Closer == CloseSignal \/ CloseJoin

(* The handle is gone; nothing happens any more.                           *)
Closed == wpc = "closed" /\ UNCHANGED vars
-----------------------------------------------------------------------------
Next ==
  \/ Consumer \/ ConsumerSpuriousWakeup
  \/ \E n \in 0..MaxWriteLen : thread_wwrite(n)
  \/ Writer \/ WriteSpuriousWakeup
  \/ thread_wflush \/ thread_wflush_nothing
  \/ thread_wclose \/ Closer
  \/ Closed

Spec == Init /\ [][Next]_vars

(* Both threads keep running, the child's operations return, and condition *)
(* waits do not return for no reason for ever; whether the program writes, *)
(* flushes or closes again is up to the program.                           *)
Fairness ==
  /\ WF_vars(Consumer) /\ WF_vars(Writer) /\ WF_vars(Closer)
  /\ <>[][~ConsumerSpuriousWakeup /\ ~WriteSpuriousWakeup]_vars

FairSpec == Spec /\ Fairness
-----------------------------------------------------------------------------
ConsumerPCs == {"start", "check", "waiting", "woken", "write", "flush",
                "reset", "destroy", "done"}
ClientPCs   == {"idle", "lock", "check", "waiting", "woken", "copy",
                "advance", "close", "join", "closed"}

(* Every variable keeps its type; buffer and out_buffer always name a      *)
(* slice of the ring and a slice never claims more bytes than it has.      *)
TypeOK ==
  /\ state \in [Slots -> {"EMPTY", "FULL"}]
  /\ len \in [Slots -> 0..BUFFER_SIZE]
  /\ flush \in [Slots -> BOOLEAN]
  /\ space \in [Slots -> [1..BUFFER_SIZE -> Nat]]
  /\ out_buffer \in Slots /\ offset \in Nat
  /\ closing \in BOOLEAN
  /\ mutex \in {"none", "consumer", "client"}
  /\ kpc \in ConsumerPCs /\ buffer \in Slots
  /\ wpc \in ClientPCs /\ want \in Nat /\ slice \in Nat
  /\ written \in Seq(Nat) /\ childFlushed \in Nat /\ childOpen \in BOOLEAN
  /\ accepted \in Nat /\ flushAsked \in Nat /\ flushWanted \in Nat

(* The program's memcpy into a slice and the child's write and flush of a  *)
(* slice run with the mutex released, and never on the same slice.         *)
NoSlotRace ==
  kpc \in {"write", "flush", "reset"} /\ wpc \in {"copy", "advance"}
    => buffer # out_buffer

(* The child receives the program's bytes in the order of the writes: none *)
(* lost, repeated, or read from memory that was not written; and when the  *)
(* handle is gone it has received all of them, a partly filled last slice  *)
(* too, and has been closed.                                               *)
InOrderHandOver ==
  /\ InOrder(written) /\ Len(written) <= accepted
  /\ wpc = "closed" => Len(written) = accepted /\ ~childOpen

(* No lost wakeup: a thread sleeps only while it has nothing to do, and    *)
(* never both of them at once inside a write.                              *)
NoLostWakeup ==
  /\ wpc = "waiting" => state[out_buffer] = "FULL" /\ kpc \notin {"waiting", "done"}
  /\ kpc = "waiting" => state[buffer] = "EMPTY" /\ ~closing

(* The child is not written, flushed or closed after it was closed, and    *)
(* the ring is freed only when the consumer has finished with it.          *)
NoUseAfterFree ==
  /\ kpc \in {"write", "flush", "destroy"} => childOpen
  /\ wpc = "closed" => kpc = "done"

(* Whatever both threads do with the mutex released, they do it to         *)
(* different slices of the ring, and to memory that is still there.        *)
MemorySafe == TypeOK /\ NoSlotRace /\ NoUseAfterFree

(* Every write returns, however often it has to wait for space, and every  *)
(* close, from whatever the consumer is doing.                             *)
CallsReturn ==
  /\ (wpc = "lock") ~> (wpc = "idle")
  /\ (wpc = "close") ~> (wpc = "closed")

(* A flush that found data pending reaches the child, after all the bytes  *)
(* accepted before it.                                                     *)
FlushReachesChild ==
  \A n \in 1..MaxStream : (flushWanted = n) ~> (childFlushed >= n)

(* lib/wandio.h:350 of wandio_wflush: "Flushes any compressed data that is  *)
(* being retained internally by the libwandio IO writer to the output      *)
(* file": every flush the program asks for reaches the child, whether or   *)
(* not the writes before it ended at a slice boundary.                     *)
EveryFlushReachesChild ==
  \A n \in 1..MaxStream : (flushAsked = n) ~> (childFlushed >= n)
-----------------------------------------------------------------------------
(* The contract of a writer handle, IOWriter, is what this code implements. *)
Contract == INSTANCE IOWriter WITH
  status <- CASE wpc = "idle" -> "idle"
              [] wpc \in {"close", "join"} -> "closing"
              [] wpc = "closed" -> "closed"
              [] OTHER -> "writing",
  given  <- accepted + want,
  taken  <- accepted,
  out    <- written

(* Every behaviour of the threaded writer is one the contract allows.      *)
ImplementsIOWriter == Contract!IOSpec
=============================================================================
