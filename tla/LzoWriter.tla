----------------------------- MODULE LzoWriter ------------------------------
(***************************************************************************)
(* The LZO writer, lib/iow-lzo.c: the caller fills blocks round-robin in a *)
(* pool of compressor threads; each thread compresses its block, and the   *)
(* caller writes the compressed block to the child when it comes round to  *)
(* the thread again, or when it shuts the pool down.                       *)
(*                                                                         *)
(* Each thread has its own mutex, which protects everything it shares with *)
(* the caller and is released only in condition waits: a critical section  *)
(* is one action.  A block is the sequence of bytes it decompresses to;    *)
(* the lzop framing around it is left out, the end-of-file marker is kept. *)
(***************************************************************************)
EXTENDS ByteStream

CONSTANTS
  PoolSizes,        \* sizes of the pool; with 0 the caller compresses itself
  MAX_BLOCK_SIZE,   \* scaled down
  MaxStream,        \* bound: the program writes at most this many bytes
  MaxWriteLen,      \* bound: length of one write
  SpuriousWakeups,  \* may pthread_cond_wait return without a signal?
  CompressMayFail   \* may lzo_wwrite_block return an error?

ASSUME LzoAssumption ==
  /\ PoolSizes \subseteq Nat
  /\ MAX_BLOCK_SIZE \in Nat \ {0}
  /\ MaxStream \in Nat
  /\ MaxWriteLen \in Nat
  /\ SpuriousWakeups \in BOOLEAN
  /\ CompressMayFail \in BOOLEAN

VARIABLES
  (* struct lzothread_t, and the control state of lzo_compress_thread      *)
  state, inbuf, outbuf, closing, tpc,
  (* struct lzow_t *)
  threads, next_thread,
  (* the caller: control state, asleep on out_ready or not, what is left   *)
  (* to write, threads shut down so far, latest length and result          *)
  wpc, asleep, want, shut, asked, ret,
  (* the child: bytes of the blocks written to it, end marker written      *)
  out, marked,
  (* history: bytes taken, and whether the close found its thread EMPTY    *)
  accepted, tidyClose

pool    == <<state, inbuf, outbuf, closing, tpc>>
lzow    == <<threads, next_thread>>
caller  == <<wpc, asleep, want, shut, asked, ret>>
child   == <<out, marked>>
history == <<accepted, tidyClose>>
vars    == <<pool, lzow, caller, child, history>>

Threads == 0 .. threads - 1

(* Every thread a pool of one of the sizes may have.                       *)
AnyThread == UNION {0 .. n - 1 : n \in PoolSizes}
-----------------------------------------------------------------------------
(* Small steps the actions below are made of.  A definition named X_y is a  *)
(* faulty variant of X, used to show that the properties would notice it.  *)

NextThread(t) == (t + 1) % threads

(* The thread the caller is dealing with: the one being filled, or the one *)
(* being shut down, starting after the last one filled.                    *)
Current_fromZero == IF wpc \in {"shutdown", "join"} THEN shut ELSE next_thread
Current == IF wpc \in {"shutdown", "join"}
           THEN (next_thread + shut) % threads ELSE next_thread

Wake_lost(pc) == pc
Wake(pc) == IF pc = "waiting" THEN "run" ELSE pc

(* Does thread t hold a compressed block that is still to be written out?  *)
HasOutput(t) == state[t] = "FULL"

(* What is written to the child on collecting thread t's output.           *)
Collected(t) == IF HasOutput(t) THEN out \o outbuf[t] ELSE out

(* The input buffer of thread t, emptied if its output was just collected. *)
Input(t) == IF HasOutput(t) THEN <<>> ELSE inbuf[t]

(* Must a partly filled block be compressed before the pool is shut down?  *)
PartialBlock(t) == state[t] = "EMPTY" /\ inbuf[t] # <<>>

(* Without a pool: the size of the next block, and its bytes.              *)
BlockSize_fullOnly(n) == IF n >= MAX_BLOCK_SIZE THEN MAX_BLOCK_SIZE ELSE 0
BlockSize(n) == Smaller(n, MAX_BLOCK_SIZE)

Block(size) == Bytes(accepted, size)

StillCompressing_ignored(t) == FALSE
StillCompressing(t) == state[t] = "WAITING"
-----------------------------------------------------------------------------
(* After lzo_wopen: every thread created, its buffers empty.               *)
Init ==
  /\ threads \in PoolSizes
  /\ state = [t \in Threads |-> "EMPTY"]
  /\ inbuf = [t \in Threads |-> <<>>]
  /\ outbuf = [t \in Threads |-> <<>>]
  /\ closing = [t \in Threads |-> FALSE]
  /\ tpc = [t \in Threads |-> "run"]
  /\ next_thread = IF threads = 0 THEN 9 ELSE 0
  /\ wpc = "idle" /\ asleep = FALSE /\ want = 0 /\ shut = 0
  /\ asked = 0 /\ ret = 0
  /\ out = <<>> /\ marked = FALSE
  /\ accepted = 0 /\ tidyClose = FALSE
-----------------------------------------------------------------------------
(* lzo_compress_thread, started or woken ("run") with its mutex obtained.  *)

ThreadWait(t) ==
  /\ tpc[t] = "run" /\ ~closing[t]
  /\ state[t] # "WAITING"
  /\ tpc' = [tpc EXCEPT ![t] = "waiting"]
  /\ UNCHANGED <<state, inbuf, outbuf, closing, lzow, caller, child,
                 history>>

(* Compress, wake the caller if it waits for this block, and wait.         *)
ThreadCompress(t) ==
  /\ tpc[t] = "run" /\ ~closing[t]
  /\ state[t] = "WAITING"
  /\ outbuf' = [outbuf EXCEPT ![t] = inbuf[t]]
  /\ state' = [state EXCEPT ![t] = "FULL"]
  /\ asleep' = (asleep /\ Current # t)
  /\ tpc' = [tpc EXCEPT ![t] = "waiting"]
  /\ UNCHANGED <<inbuf, closing, lzow, wpc, want, shut, asked, ret,
                 child, history>>

(* The compressor fails: the thread leaves its loop, its block stays       *)
(* WAITING and nobody is told.                                             *)
ThreadFail(t) ==
  /\ CompressMayFail
  /\ tpc[t] = "run" /\ ~closing[t]
  /\ state[t] = "WAITING"
  /\ outbuf' = [outbuf EXCEPT ![t] = <<>>]
  /\ tpc' = [tpc EXCEPT ![t] = "done"]
  /\ UNCHANGED <<state, inbuf, closing, lzow, caller, child, history>>

ThreadExit(t) ==
  /\ tpc[t] = "run" /\ closing[t]
  /\ tpc' = [tpc EXCEPT ![t] = "done"]
  /\ UNCHANGED <<state, inbuf, outbuf, closing, lzow, caller, child,
                 history>>

ThreadSpuriousWakeup(t) ==
  /\ SpuriousWakeups
  /\ tpc[t] = "waiting"
  /\ tpc' = [tpc EXCEPT ![t] = "run"]
  /\ UNCHANGED <<state, inbuf, outbuf, closing, lzow, caller, child,
                 history>>

Compressor(t) ==
  t \in Threads /\ (ThreadWait(t) \/ ThreadCompress(t) \/ ThreadExit(t))
-----------------------------------------------------------------------------
(* lzo_wwrite                                                              *)

lzo_wwrite(n) ==
  /\ wpc = "idle"
  /\ accepted + n <= MaxStream
  /\ want' = n /\ asked' = n
  /\ wpc' = "write"
  /\ UNCHANGED <<pool, lzow, asleep, shut, ret, child, history>>

(* The loop ends: `len`, by now 0, is returned.                            *)
WriteReturn ==
  /\ wpc = "write" /\ want = 0
  /\ wpc' = "idle" /\ ret' = want
  /\ UNCHANGED <<pool, lzow, asleep, want, shut, asked, child, history>>

(* No pool: the caller compresses a block and writes it out at once.       *)
WriteUnthreaded ==
  /\ wpc = "write" /\ want > 0 /\ threads = 0
  /\ LET size == BlockSize(want)
     IN  /\ out' = out \o Block(size)
         /\ want' = want - size
         /\ accepted' = accepted + size
  /\ UNCHANGED <<pool, lzow, wpc, asleep, shut, asked, ret, marked,
                 tidyClose>>

(* ... and an error of the compressor is returned.                         *)
WriteUnthreadedFail ==
  /\ CompressMayFail
  /\ wpc = "write" /\ want > 0 /\ threads = 0
  /\ wpc' = "idle" /\ ret' = -1
  /\ UNCHANGED <<pool, lzow, asleep, want, shut, asked, child, history>>

(* The thread whose turn it is still compresses: wait for it.              *)
WriteWait ==
  /\ wpc = "write" /\ want > 0 /\ threads > 0 /\ ~asleep
  /\ StillCompressing(next_thread)
  /\ asleep' = TRUE
  /\ UNCHANGED <<pool, lzow, wpc, want, shut, asked, ret, child,
                 history>>

(* Collect its previous block, add to the new one, hand that over if full. *)
WriteBlock ==
  /\ wpc = "write" /\ want > 0 /\ threads > 0 /\ ~asleep
  /\ ~StillCompressing(next_thread)
  /\ LET t    == next_thread
         size == Smaller(MAX_BLOCK_SIZE - Len(Input(t)), want)
         buf  == Input(t) \o Bytes(accepted, size)
         full == Len(buf) >= MAX_BLOCK_SIZE
     IN  /\ out' = Collected(t)
         /\ inbuf' = [inbuf EXCEPT ![t] = buf]
         /\ state' = [state EXCEPT ![t] = IF full THEN "WAITING" ELSE "EMPTY"]
         /\ tpc' = IF full THEN [tpc EXCEPT ![t] = Wake(@)] ELSE tpc
         /\ next_thread' = IF full THEN NextThread(t) ELSE t
         /\ want' = want - size
         /\ accepted' = accepted + size
  /\ UNCHANGED <<outbuf, closing, threads, wpc, asleep, shut, asked, ret,
                 marked, tidyClose>>

CallerSpuriousWakeup ==
  /\ SpuriousWakeups
  /\ asleep
  /\ asleep' = FALSE
  /\ UNCHANGED <<pool, lzow, wpc, want, shut, asked, ret, child,
                 history>>

Writer == WriteReturn \/ WriteUnthreaded \/ WriteWait \/ WriteBlock
-----------------------------------------------------------------------------
(* lzo_wclose                                                              *)

(* Hand over a partly filled block and step to the next thread.            *)
lzo_wclose ==
  /\ wpc = "idle"
  /\ IF threads = 0
     THEN /\ wpc' = "finish" /\ tidyClose' = TRUE
          /\ UNCHANGED <<state, tpc, next_thread>>
     ELSE LET t == next_thread
          IN  /\ wpc' = "shutdown"
              /\ tidyClose' = (state[t] = "EMPTY")
              /\ IF PartialBlock(t)
                 THEN /\ state' = [state EXCEPT ![t] = "WAITING"]
                      /\ tpc' = [tpc EXCEPT ![t] = Wake(@)]
                 ELSE UNCHANGED <<state, tpc>>
              /\ next_thread' = NextThread(t)
  /\ UNCHANGED <<inbuf, outbuf, closing, threads, asleep, want, shut, asked,
                 ret, child, accepted>>

(* shutdown_thread: wait for a block being compressed, ...                 *)
ShutdownWait ==
  /\ wpc = "shutdown" /\ ~asleep
  /\ StillCompressing(Current)
  /\ asleep' = TRUE
  /\ UNCHANGED <<pool, lzow, wpc, want, shut, asked, ret, child,
                 history>>

(* ... write out a compressed one, tell the thread to stop, ...            *)
ShutdownCollect ==
  /\ wpc = "shutdown" /\ ~asleep
  /\ ~StillCompressing(Current)
  /\ out' = Collected(Current)
  /\ inbuf' = [inbuf EXCEPT ![Current] = Input(Current)]
  /\ state' = [state EXCEPT ![Current] = "EMPTY"]
  /\ closing' = [closing EXCEPT ![Current] = TRUE]
  /\ tpc' = [tpc EXCEPT ![Current] = Wake(@)]
  /\ wpc' = "join"
  /\ UNCHANGED <<outbuf, lzow, asleep, want, shut, asked, ret, marked,
                 history>>

(* ... and join it.                                                        *)
ShutdownJoin ==
  /\ wpc = "join"
  /\ tpc[Current] = "done"
  /\ shut' = shut + 1
  /\ wpc' = IF shut + 1 < threads THEN "shutdown" ELSE "finish"
  /\ UNCHANGED <<pool, lzow, asleep, want, asked, ret, child, history>>

(* Write the end marker, close the child, free everything.                 *)
CloseFinish ==
  /\ wpc = "finish"
  /\ marked' = TRUE
  /\ wpc' = "closed"
  /\ UNCHANGED <<pool, lzow, asleep, want, shut, asked, ret, out,
                 history>>

Closer == ShutdownWait \/ ShutdownCollect \/ ShutdownJoin \/ CloseFinish

(* The handle is gone; nothing happens any more.                           *)
Closed == wpc = "closed" /\ UNCHANGED vars
-----------------------------------------------------------------------------
Next ==
  \/ \E t \in Threads : Compressor(t) \/ ThreadFail(t) \/ ThreadSpuriousWakeup(t)
  \/ \E n \in 0..MaxWriteLen : lzo_wwrite(n)
  \/ Writer \/ WriteUnthreadedFail \/ CallerSpuriousWakeup
  \/ lzo_wclose \/ Closer
  \/ Closed

Spec == Init /\ [][Next]_vars

(* Every thread that can run eventually does, and condition waits do not   *)
(* return for no reason for ever.                                          *)
Fairness ==
  /\ \A t \in AnyThread : WF_vars(Compressor(t))
  /\ WF_vars(Writer) /\ WF_vars(Closer)
  /\ <>[][~CallerSpuriousWakeup /\ \A t \in Threads : ~ThreadSpuriousWakeup(t)]_vars

FairSpec == Spec /\ Fairness
-----------------------------------------------------------------------------
(* Every variable keeps its type; no input buffer outgrows its block.      *)
TypeOK ==
  /\ state \in [Threads -> {"EMPTY", "WAITING", "FULL"}]
  /\ \A t \in Threads : /\ Len(inbuf[t]) \in 0..MAX_BLOCK_SIZE
                        /\ Len(outbuf[t]) \in 0..MAX_BLOCK_SIZE
  /\ closing \in [Threads -> BOOLEAN]
  /\ tpc \in [Threads -> {"run", "waiting", "done"}]
  /\ next_thread \in Threads \cup {9}
  /\ wpc \in {"idle", "write", "shutdown", "join", "finish", "closed"}
  /\ asleep \in BOOLEAN /\ want \in Nat /\ shut \in 0..threads
  /\ asked \in Nat /\ ret \in {0, -1}
  /\ marked \in BOOLEAN /\ accepted \in Nat /\ tidyClose \in BOOLEAN

(* As long as the program writes, what has been written to the child is an *)
(* initial segment of its data, although the blocks are compressed in any  *)
(* order: the round-robin collects them in the order they were handed out. *)
(* So it is after the close, if the thread whose turn it was held no       *)
(* finished or unfinished older block.  And every variable has its type.   *)
BlocksInOrder ==
  /\ TypeOK
  /\ wpc \in {"idle", "write"} \/ (wpc = "closed" /\ tidyClose) => InOrder(out)

(* lib/iow-lzo.c:488, asserted by shutdown_thread: "thread->state == EMPTY *)
(* implies thread->inbuf.offset == 0"; and once a thread is told to stop   *)
(* it holds nothing.                                                       *)
ShutdownLosesNothing ==
  /\ wpc = "shutdown" /\ state[Current] = "EMPTY" => inbuf[Current] = <<>>
  /\ \A t \in Threads : closing[t] => state[t] = "EMPTY" /\ inbuf[t] = <<>>

(* After the close every byte the writes accepted is in the output exactly *)
(* once, in some block, followed by the end marker; also when a compressor *)
(* failed: then the close does not complete, or the write reported it.     *)
(* On the way no thread is told to stop while it holds anything.           *)
EveryBlockWritten ==
  /\ wpc = "closed" =>
       /\ marked
       /\ Len(out) = accepted
       /\ {out[i] : i \in 1..Len(out)} = 1..accepted
  /\ ShutdownLosesNothing

(* lib/iow-lzo.c:532, "shutdown all our threads -- in order", and :219,    *)
(* "write these back out in the right order": the finished output is the   *)
(* program's data in order.                                                *)
InOrderAfterClose == wpc = "closed" => InOrder(out)

(* No lost wakeup: a compressor asleep has no block waiting for it, and a  *)
(* caller asleep waits for a block that is still being compressed.         *)
NoLostWakeup ==
  /\ \A t \in Threads : tpc[t] = "waiting" => state[t] # "WAITING" /\ ~closing[t]
  /\ asleep => state[Current] = "WAITING"

(* Has a compressor failed and left its block behind?                      *)
Failed == \E t \in Threads : tpc[t] = "done" /\ ~closing[t]

(* Every write returns, waiting for compressors at most for a while, and   *)
(* every close, with every thread of the pool stopped; unless a compressor *)
(* failed: nobody wakes a caller that needs its block.                     *)
CallsReturn ==
  /\ (wpc = "write") ~> (wpc = "idle" \/ Failed)
  /\ (wpc \in {"shutdown", "finish"}) ~>
       (Failed \/ (wpc = "closed" /\ \A t \in Threads : tpc[t] = "done"))
=============================================================================
