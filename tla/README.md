# A TLA+ development of libwandio

libwandio reads and writes files that may be compressed, local or remote, behind
one interface (`lib/wandio.h`). A handle is a stack of layers: a source or a
file at the bottom, perhaps a codec, perhaps a thread that reads or writes
ahead, and for readers a layer that can peek. This directory holds TLA+ modules
that model these layers, the TLC configurations that check them on small
instances, and proofs, checked by TLAPS, of the safety of every part modelled
and of the two refinements.

Throughout, a byte is its position in the stream: byte `k` is the number `k`,
and `Garbage` (0) is memory that was never written. "In order, none lost, none
repeated" is then `InOrder(s)`: `s[i] = i` (module `ByteStream`). Sizes such as
`BUFFER_SIZE` are constants, scaled down for TLC.

## 1. Inventory

| Part | Source | State | Operations | Module |
|---|---|---|---|---|
| Threaded reader | `lib/ior-thread.c` | ring of `max_buffers` slices (EMPTY/FULL), `in_buffer`, `offset`, `closing`, a mutex, two condition variables | `thread_open`, `thread_read`, `thread_close`; thread `thread_producer` | `ThreadReader` |
| Threaded writer | `lib/iow-thread.c` | ring of `BUFFERS` slices with a flush mark, `out_buffer`, `offset`, `closing` | `thread_wopen`, `thread_wwrite`, `thread_wflush`, `thread_wclose`; thread `thread_consumer` | `ThreadWriter` |
| LZO writer | `lib/iow-lzo.c` | pool of compressors, each EMPTY/WAITING/FULL with an input and an output buffer; `next_thread` | `lzo_wopen`, `lzo_wwrite`, `lzo_wclose`; thread `lzo_compress_thread` | `LzoWriter` |
| Peeking reader | `lib/ior-peek.c` | managed buffer with `length`, `offset` | `peek_read`, `peek_peek`, `peek_tell`, `peek_seek`, `peek_close` | `PeekReader` |
| Plain file writer | `lib/iow-stdio.c` | a partial block, the O_DIRECT flag | `stdio_wwrite`, `stdio_wflush`, `stdio_wclose` | `StdioWriter` |
| Plain file reader | `lib/ior-stdio.c` | the descriptor's offset | `stdio_open`, `stdio_read`, `stdio_tell`, `stdio_seek`, `stdio_close` | `PeekReader` (its child) |
| Line reading | `lib/wandio.c` | none between calls | `wandio_generic_fgets`, `wandio_fgets` | `LineReader` |
| HTTP reader | `lib/ior-http.c` | buffer, file offset, `total_length`, `done_reading`, the libcurl transfer and its request headers | `http_open`, `http_open_hdrs`, `http_read`, `http_tell`, `http_seek`, `http_close` | `HttpReader` |
| Swift reader | `lib/ior-swift.c` | token, storage URL, the HTTP reader | `swift_open`, `swift_read`, `swift_tell`, `swift_seek`, `swift_close` | `SwiftReader` |
| Keystone authentication | `lib/swift-support/keystone.c` | none between calls | `keystone_env_parse_token`, `keystone_env_parse_creds`, `keystone_authenticate` | `Keystone` |
| zlib, bzip2, xz, zstd and lz4 readers | `lib/ior-zlib.c`, `ior-bzip.c`, `ior-lzma.c`, `ior-zstd-lz4.c` | input buffer, decoder, error, `sincelastend` | read, close | `CodecReader` |
| zlib, bzip2, xz, zstd and lz4 writers | `lib/iow-zlib.c`, `iow-bzip.c`, `iow-lzma.c`, `iow-zstd.c`, `iow-lz4.c` | encoder, output buffer, error | open, write, flush, close | `CodecWriter` |
| Handle creation, options | `lib/wandio.c` | process-wide `use_threads`, `use_autodetect`, `max_buffers` | `wandio_create`, `wandio_create_uncompressed`, `wandio_wcreate`, destroy | `Pipeline` |
| libcurl initialisation | `lib/curl-helper.c` | `cg_init_cnt`, a mutex | `curl_helper_safe_global_init`, `curl_helper_safe_global_cleanup` | `Pipeline` |
| QAT reader and writer | `lib/ior-qat.c`, `iow-qat.c` | session, input and output buffer | read, write, flush, close | none (section 7) |
| JSON tokenizer | `lib/swift-support/jsmn.c` | vendored | | none |
| wandiocat | `tools/wandiocat/wcat.c` | none | copies its arguments | none (section 7) |

**How they interact.** Every layer calls the one below it (`parent` or `child`)
through a table of functions; a result less than 1 is an end of file or an
error. The threaded layers add a thread of their own that calls the layer below
while the program works; mutex, two condition variables and the ring are all
they share. The LZO writer adds a pool of such threads. `wandio.c` assembles the
stacks, from options that all handles of the process share and that are parsed
again whenever a handle is created; the threaded reader keeps using the global
`max_buffers`. Handles on URLs share libcurl, which the first is to initialise
and the last to shut down; a Swift handle asks a Keystone server for a token
first and then is an HTTP handle with a request header.

**What is hard.** Interleavings of a program thread and a helper thread that
release the mutex around the long operations; wakeups; closing at any moment;
calls that do less than they were asked for; transfers that break and are
resumed, on new connections that have to be set up like the first; buffers that
fill at the wrong moment; ends of files that fall between or within compressed
members. `PROJECT.json` lists each such hazard at its line, with the properties
that watch it.

**What makes each part correct.** Readers: successive reads deliver the
consecutive bytes of the source, short only at its end, and return (`IOReader`).
Writers: what was accepted reaches the output in order and completely by the
close, and calls return (`IOWriter`). Threads: no two threads at one slice
without the mutex, no lost wakeup, no access after free. Creation: the layers
fit the file, the build and the options, and libcurl is up while it is used.
Authentication: the object is asked for at the object store that the environment
or the catalog names, with the token that belongs to it.

## 2. The modules

A *component module* has a variable for each field of the C structure that the
control depends on (same name), one per thread for its place in the code (`ppc`,
`cpc`, `kpc`, `wpc`, `pc`), and *history* variables, named as such in comments,
for what properties need to remember. An action is the code between two points
at which another thread can intervene (lock, wait, unlock, a call of the layer
below). Small operators named for a condition or a step of the code (`MustWait`,
`NextBuffer`, `Drained`) are used by the actions; next to some stands a variant
`X_y` of `X` with a plausible slip in it, which no specification uses. Replacing
`X` by it violates a property; the pairs are listed under `mutants` in
`PROJECT.json`.

- `ByteStream`: streams of bytes.
- `Handle`, `CodecHandle`, `WriteHandle`: the variables and constants that
  `CodecReader`, `CodecWriter` and `StdioWriter` share: place, length and result
  of the call; codec and `err`; what the program was told is written.
- `<Module>Proofs`: the inductive invariant, lemmas and theorems about a module
  (section 5); `FileProofs` has those of `CodecReader`, `CodecWriter` and
  `StdioWriter`, `ByteStreamProofs` the facts about streams they all share.
- `IOReader`, `IOWriter`: what a reader and a writer promise the program,
  without threads or buffers. `ThreadReader` and `ThreadWriter` are shown to
  implement them (`ImplementsIOReader`, `ImplementsIOWriter`, with the
  refinement mapping in `Contract`).
- `ThreadReader`: producer steps `ProducerLock`, `ProducerCheck` (the wait
  loop), `ProducerFill` (the parent's read, mutex released), `ProducerPublish`,
  `ProducerDestroy`; a read is `thread_read`, `ReadLock`, `ReadWait`, `ReadEnd`,
  `ReadSlice`, `ReadCopy` (mutex released), `ReadAdvance`, `ReadAssign`
  (`in_buffer` is assigned after the unlock, as in the code); close is
  `thread_close`, `CloseSignal`, `CloseJoin`, `CloseFree`. The mutex and the
  condition variables are modelled: a wait releases the mutex, a signal moves a
  sleeper to "woken", and spurious wakeups happen. `thread_open` may run out of
  memory, and its `pthread_create`, whose result it ignores, may fail; the close
  then joins a thread id that was never set, which may end well (`CloseJoin`) or
  not (`CloseJoinUndefined`).
- `ThreadWriter`: the mirror image, with flush marks on slices.
- `LzoWriter`: compressor threads; the caller collects finished blocks in turn;
  without a pool the caller compresses. A compressor may fail. The pool's size
  is chosen at the start from `PoolSizes`. A block is its bytes; the lzop
  framing is left out.
- `PeekReader`: over a plain file (`lib/ior-stdio.c`) that may return short or
  fail, once or for good, with allocations that may fail. Seeks with bytes in
  the buffer are included, and so are a seek and a tell that fail, as on a pipe.
  `whence` is passed on: a seek of the model names where the file ends up.
- `LineReader` extends `PeekReader`: `wandio_fgets` takes one byte after the
  other with `peek_read(1)`, mixed with the program's own reads, peeks and
  seeks.
- `StdioWriter`: `writev`, `write` and `fcntl` do all, part or none of their
  work; with O_DIRECT a short write is still a multiple of the block size. The
  `fcntl` of a flush may fail unnoticed; the file then refuses the rest.
- `HttpReader`: libcurl is external: it delivers consecutive bytes from where
  the transfer was resumed until it ends, breaks, or the wait for it is
  interrupted; its `curl_multi` functions may fail and leave the transfer as it
  is, and that of `prepare` does so unnoticed. A server may not send a length,
  the length of a resumed transfer is that of the rest, and a server that asks
  for request headers refuses a transfer without them (`access`). A transfer
  that is redirected is not told from one that is not.
- `Keystone`: what is taken from the environment, from the header of the
  server's answer and from its service catalog, as operators; the loops over
  services and endpoints are recursive functions.
- `SwiftReader` extends both: `get_token`, `keystone_authenticate` and the
  opening of the HTTP reader; every other operation is passed on. A handle of
  this module is a Swift or a plain HTTP one (`swift`).
- `CodecReader`: a compressed file is a sequence of units (head, data, end,
  bad); the library's decoder (external) takes any number of them and carries
  over what does not fit. Which of the readers is open is the variable `codec`.
  Three of them share one loop; `zstd_lz4` has two nested ones, moves what is
  left in `inbuf` to its front before it refills it, and recognises a frame by
  its first bytes. Files are whole, of two members, cut in the first or the
  second member, or corrupt.
- `CodecWriter`: the encoder (external) may hold back any amount and emits a
  trailer when told to finish. The zlib, bzip2 and xz writers drain `outbuff`
  when it is full, the zstd and lz4 writers after each call of the encoder; lz4
  cuts a long write into pieces.
- `Pipeline`: the option parsing, `create_io_reader`, `wandio_wcreate` and the
  destroys, for several handles created by different threads, on local files and
  on URLs. `LIBTRACEIO` is a sequence of options; every creation assigns them
  one by one to the process-wide variables (`do_option`), without a lock and
  between the steps of other threads. A build is a set of libraries; a format is
  supported by any library that decodes it. The count of libcurl's users in
  `curl-helper.c` goes through opens, failed opens, restarts in the first fill
  and later, and Keystone requests.

`MC<Module>.tla` and `MC<Module>.cfg` are the instances; `MCPeekReader` is one
of `LineReader` and `MCHttpReader` one of `SwiftReader`. Two-way choices of the
code's environment (`...MayFail`, `SpuriousWakeups`) are all on in the passing
runs.

## 3. What is model-checked

Nine runs pass; deadlock is checked in all of them. Bounds are constants named
in each module (`MaxStream`, `MaxReadLen`, `FileSize`, ...). The type invariant
`TypeOK` of a module is a conjunct of one of its invariants.

**ThreadReader** (3 slices of 2 bytes, a source of up to 7 bytes, reads of up to
5). Seven bytes go round the ring and a read of 5 spans three slices, so every
combination of full and empty slices at the ends of the arc occurs.
`NoSlotRace`: the producer's fill and the caller's copy, both outside the mutex,
are never on the same slice. `InOrderDelivery`, `ShortReadOnlyAtEnd`: what reads
deliver. `NoLostWakeup`: whoever sleeps has a reason and someone left to wake
it. `NoUseAfterFree`. `CallsReturn`: reads and closes return, on handles whose
producer started. `ImplementsIOReader`. `IInv`: the inductive invariant of
section 5.

**ThreadWriter** (3 slices of 2 bytes, up to 9 bytes, writes of up to 5).
`MemorySafe`: no slice is shared without the mutex and nothing is used after it
was freed. `InOrderHandOver`: a partly filled last slice too is with the child
at the end. `NoLostWakeup`, `CallsReturn`, `ImplementsIOWriter`, and
`FlushReachesChild`: a flush that finds data in the current slice reaches the
child after these data.

**LzoWriter** (pools of 0 to 3, blocks of 2 bytes, 11 bytes). `BlocksInOrder`,
`EveryBlockWritten` (with the assertion of `shutdown_thread`), `NoLostWakeup`,
`CallsReturn`; the last except after a compressor failed. Three threads and five
and a half blocks let a slow thread be overtaken by two others and its turn come
round again.

**StdioWriter** (blocks of 3 bytes, 8 bytes, writes of up to 7). `NothingLost`,
`DirectWritesAligned`. The first stops applying once a flush could not write all
it had, or a write failed half-way (`iow-stdio.c:165`, section 6).

**PeekReader** (a file of 4 bytes with a newline after the second, requests of
up to 3, lines of up to 4, refill units of 2 and 3: requests fall below, at and
above each, and the last line is cut off by the end of the file).
`DeliversAtReadOffset`: reads and peeks return the bytes at the program's read
offset, and results that are true. `NothingLost`: what was read from the child
was delivered or is in the buffer, which is empty whenever it is refilled (the
assertion in `peek_read`); so tell, which asks the child, is the read offset
when nothing was read ahead. With bytes in the buffer it is not, although
`lib/wandio.h:282` says so: section 6. `FgetsDeliversLine`: a line is the line
that is there, and nothing behind it is consumed. The conditions are in their
comments.

**HttpReader** (a file of 5 bytes, a buffer of two writes of 2, two failures,
seeks within the buffer, below and above `HTTP_MAX_SKIP`, backwards; every
environment, catalogs of up to two services with up to two endpoints each).
`ResumesWhereItStopped`, `EndOnlyAtEnd`; `ReadReturns`, unless the request
headers were lost on the way; `OpensAtStore`: the first request for an object
goes to the server `OS_STORAGE_URL` names or, if it names none, to a public
endpoint of an object store in the catalog, never without a token, and with the
one Keystone answered unless `OS_AUTH_TOKEN` replaces it. It says nothing of
where redirects take the request and its headers.

**CodecReader** (members of up to 2 data units, portions of up to 3 units, so
that an end and the next head come in one portion; for zstd and lz4 an `inbuf`
of 5, in which a head may straddle the end). `NothingSkipped`, `ZeroMeansEnd`;
`NoSpuriousError`: a whole file is read without an error, but in the cases its
comment names; `ReadReturns`.

**CodecWriter** (an output buffer of 2 bytes, 6 bytes, so it fills several
times). `Accounted`: every accepted byte is in exactly one of child, buffer and
encoder. `ResultCountsBytes`: a write's result is the number of its bytes that
are in the stream, but in the cases named. `CloseComplete`, `FlushReachesChild`,
`CallsReturn`.

**Pipeline** (two interchangeable handles, hence symmetry; a full build and one
with lz4 and lzo; files that are local or remote; five values of `LIBTRACEIO`,
with repeated options that agree and that do not). While other threads are in
the middle of parsing: `RingMatchesMaxBuffers`: the length of every open ring is
the present `max_buffers`, unless several lengths are given; `OptionsHonoured`:
what is asked for holds for every handle. `FormatRecognised`: a peek that covers
the header leads to the right decoder. `CurlUpWhileUsed`: libcurl is not shut
down while a handle uses it, whatever other threads destroy.

Three runs are expected to be violated; each shows where the code and a comment
or the documentation disagree (`findings` in `PROJECT.json`):

- **ThreadWriterFlushAtBoundary** (`EveryFlushReachesChild`): `thread_wflush`
  returns at once when `offset` is 0, which it is after a write that exactly
  filled a slice.
- **LzoWriterCloseOrder** (`InOrderAfterClose`): `lzo_wclose` steps to the next
  thread even if the current one holds an older block; when the data end at a
  block boundary this block is written last.
- **CodecWriterBzipClose** (`EveryCloseComplete`): `bz_wclose` loops while the
  result is `BZ_OK`, but `BZ2_bzCompress(BZ_FINISH)` with output left returns
  `BZ_FINISH_OK`; what does not fit in the buffer is lost.

## 4. Fairness

Weak fairness on the steps of a thread *inside* a call or in its loop, for
threads run, mutexes that are free are obtained, and calls of the layer below
return. Nothing is assumed of the program: whether it reads, writes, flushes or
closes again is up to it. Spurious wakeups may happen any finite number of times
(`<>[][~...]_vars`). For the HTTP reader a server breaks at most `MaxFailures`
transfers (or calls of libcurl); the code retries for ever otherwise, and does
so on a server that refuses every request, which `ReadReturns` leaves out.
Stalled transfers are broken off by the low-speed options the code sets.

## 5. What is proved

Each theorem holds for every value of the constants that satisfies the named
assumption of the component's module (`ReaderAssumption`, `PipelineAssumption`
and so on): any number and size of slices, blocks and buffers, any bound on
streams and calls, any pool, file and number of handles. The assumptions ask for
what the code needs to make sense (at least one slice, a buffer of at least one
byte, natural bounds); that of `Pipeline` says also that the set of handles is
finite, for libcurl's users are counted, and that `LIBTRACEIO` is a sequence of
assignments of naturals.

| Module | Theorem | States |
|---|---|---|
| `ThreadReaderProofs` | `InvariantHolds` | `[]IInv` |
| | `TypeCorrect` | `[]TypeOK` |
| | `SlotsAreNotShared` | `[]NoSlotRace` |
| | `DeliveryInOrder` | `[]InOrderDelivery` |
| | `ShortOnlyAtEnd` | `[]ShortReadOnlyAtEnd` |
| | `WakeupsArrive` | `[]NoLostWakeup` |
| | `FreedAfterJoin` | `[]NoUseAfterFree` |
| | `Refinement` | `ImplementsIOReader` |
| `ThreadWriterProofs` | `Invariance` | `[]IInv` |
| | `MemorySafety` | `[]MemorySafe` |
| | `HandOver` | `[]InOrderHandOver` |
| | `NoLostWakeups` | `[]NoLostWakeup` |
| | `Refinement` | `ImplementsIOWriter` |
| `LzoWriterProofs` | `Invariance` | `[]IInv` |
| | `BlocksStayInOrder` | `[]BlocksInOrder` |
| | `EveryBlockIsWritten` | `[]EveryBlockWritten` |
| | `NoLostWakeups` | `[]NoLostWakeup` |
| `FileProofs` (plain writer) | `PlainInvariance` | `[]PlainInv` |
| | `NothingIsLost` | `[]NothingLost` |
| | `AlignedWhileDirect` | `[]DirectWritesAligned` |
| `FileProofs` (codec writers) | `WriterInvariance` | `[]WriterInv` |
| | `AccountedAlways` | `[]Accounted` |
| | `CloseCompleteAlways` | `[]CloseComplete` |
| | `FlushReachesChildAlways` | `FlushReachesChild` |
| | `ResultCountsBytesAlways` | `ResultCountsBytes` |
| `FileProofs` (codec readers) | `ReaderInvariance` | `[]ReaderInv` |
| | `NothingSkippedAlways` | `[]NothingSkipped` |
| | `ZeroMeansEndAlways` | `[]ZeroMeansEnd` |
| | `NoSpuriousErrorAlways` | `[]NoSpuriousError` |
| `LineReaderProofs` | `Invariance` | `[]IInv` |
| | `DeliveryAtReadOffset` | `[]DeliversAtReadOffset` |
| | `NothingLostInBuffer` | `[]NothingLost` |
| | `LinesDelivered` | `[]FgetsDeliversLine` |
| `SwiftReaderProofs` | `Invariance` | `[]IInv` |
| | `Resumption` | `[]ResumesWhereItStopped` |
| | `EndIsTheEnd` | `[]EndOnlyAtEnd` |
| | `ObjectAskedOfStore` | `[]OpensAtStore` |
| `PipelineProofs` | `Invariance` | `[]IInv` |
| | `RingsMatch` | `[]RingMatchesMaxBuffers` |
| | `OptionsAreHonoured` | `[]OptionsHonoured` |
| | `FormatsRecognised` | `[]FormatRecognised` |
| | `CurlStaysUp` | `[]CurlUpWhileUsed` |

Each component has an inductive invariant (`IInv`, in `FileProofs` `PlainInv`,
`WriterInv` and `ReaderInv`), shown to hold initially, to be preserved by one
lemma per action (or per kind of action), and to imply the properties. TLC has
checked each of them on the instance of section 3; for the threaded reader that
is part of its run. What it adds to the properties, and why it must:

**Threaded reader.** That the caller's slice is not the one being filled depends
on where every full slice lies. `RingInv`: the full slices are exactly the arc
of the ring from `Front` (the slice the caller is at, also between its unlock
and the assignment of `in_buffer`) to the producer's slice. `ChainInv`: in that
arc each slice continues where the one before it ends, and only the last can
hold the end of the parent. `FrontInv`: the caller's place in `Front` is just
after what was delivered. `FillInv`, `ReadInv`: what is known at each place of
the producer and of a read. Actions that leave the ring alone are handled by one
lemma (`QuietStep`). `Refinement`: the producer's read of its parent is the
contract's `Supply`; a read `Finish`es where it returns, with what its copies
collected; the steps between are out of sight. It needs `AheadInv` besides: no
full slice reaches beyond what the parent has supplied.

**Threaded writer.** The mirror image: the arc goes from the consumer's slice to
the one being filled, `TailInv` is about the latter, and `FrontInv` says that
the child has been given everything in front of the arc (and of the consumer's
slice once that was written). When the close has been seen and the ring is empty
the indices no longer mean anything: `Drained` replaces the rest of the
invariant. `Refinement`: bytes are the contract's `Take` where `offset` moves
behind them, and its `Emit` where the consumer writes a slice to the child; the
close can return only when `written` is everything taken.

**LZO writer.** Order depends on whose turn it is. `Age(t)` is how long ago
thread `t` was filled. `FillInv`: for some `k` the `k` threads filled last hold
the last `k` blocks, whether compressed or not; so the thread whose turn it is
holds the oldest. `DrainInv` is the same while the pool is shut down, for the
blocks not yet collected; there the block of the thread filled last may be older
than the others (the finding `InOrderAfterClose`), so what is kept is that
output and blocks together are the data, and their order only for a `tidyClose`.

**Plain file writer.** `PlainDataInv`: the buffer continues the file and both
end where the program is, also in the middle of a call. `DivFacts` to
`AlignedPart` are the arithmetic of blocks.

**Codec writers.** `Accounted` speaks of the time between two calls; inside one
the data is also in `next_in`, and how far the program's data has come
(`WriterPosition`) depends on the place in the call. `WriterDataInv`: up to the
first error, child, `outbuff` and encoder in a row (`Made`) are the stream up to
there and `next_in` continues it; in the middle of a flush `outbuff` has gone to
the child. `WriterCallInv`: what each place in the code knows, such as an empty
`outbuff` wherever zstd calls its encoder, and less than a block inside lz4's:
this is what makes a flush complete. `WriterErrorInv`: `err` is set only by a
failure, or by a zstd encoder that wrote nothing. `WriterCloseInv`: after such a
zstd write was refused `k` bytes more than the program knows of are in the
stream (`Committed`), and a close adds the trailer to it once. The action
properties `FlushReachesChild` and `ResultCountsBytes` follow from the invariant
in the state before the step. `CodecWriterAssumption` says why lz4's output
always fits: half of `outbuf` and less than a block.

**Codec readers.** `decoded`, the bytes of the units the decoder has taken, is a
cardinality; `DataInSplit` to `DecodesLast` say how it grows. `BufInv`: `inbuf`
is the file behind those units, `pend` the last of their bytes. `OutInv`: the
others have been returned or are in the caller's buffer, and still have been
after an error, except by `zstd_lz4_read`. `ControlInv`: unread units in
`zstd_lz4`'s `inbuf` mean that it is full or the file has ended, and between
frames the last unit taken was an end: so a frame that cannot be recognised was
cut. `EndInv`: what `err` and a result of 0 say about a file whose end the
reader recognises; for zlib it needs `sincelastend` to be 0 at the end of a
member with nothing behind it, and positive in a file cut in its first.
`ReaderErrorInv`: an error on a complete file has one of the causes that
`NoSpuriousError` names. Which units can be where in the sets of files is in
`MemberFacts`, `WholeFacts` and `CutFacts`; the files are those of the model, of
at most two members of any length.

**Peeking reader and lines.** `MemoryInv`: which lengths can go with a freed or
missing buffer. `ContentInv`: the buffer ends where the child is, and what is
left in it are the bytes at the read offset. `CallInv` is about the latest call.
`LineInv`: a line in progress is the file from where it began and has no newline
so far. Every path of a read or a peek has a lemma of its own.

**HTTP and Swift readers.** `BufferInv`: the buffer is the file behind `off0`,
and what libcurl delivers next follows it. `CallInv`: an empty buffer outside a
call means the transfer was complete; that is what a short read relies on.
`OpensAtStore` is inductive as it stands; what takes work is what the loops over
services and endpoints yield for every catalog. `LeastElement` (from the
library's well-founded order of the naturals) gives `UpTo`, an induction over a
set of numbers; with it `EndpointLoop` and `CatalogLoop` show that the recursive
functions are defined, and `PublicUrlFacts` and `CatalogFacts` what they return.
`KeystoneAssumption` asks that the catalogs be sequences of services with
sequences of endpoints, and that `NULL` be no token and no URL.

**Pipeline.** `HandlesInv`: for each step of a creation, the layers a handle can
have (`Fits`). `ParsedInv`: an option that a creation has assigned has one of
the values given for it from then on, whoever assigns it again; so a handle past
the parsing is under all of them. `OptionsInv`: the size of every ring is the
present `max_buffers`. `CurlInv`: the count is the number of users and of those
never counted off. One lemma (`StepInv`) reduces a step of one handle to what it
does to that handle and to the count; `do_option`, which changes what all
handles share, has its own (`DoOptionInv`).

**Only model-checked.** Liveness, and anything with ENABLED: `CallsReturn`,
`ReadReturns` and the threaded writer's `FlushReachesChild`. The prover does not
do it.

## 6. Known limits of the code

Met while modelling. The passing properties state their conditions so that the
case is excluded exactly, and no more.

- `ior-thread.c:227`: the result of `pthread_create` is ignored; without a
  producer a read waits for ever (as does a write on a threaded writer,
  `iow-thread.c:174`), and the close joins an id that was never set (`:163`).
  `ior-thread.c:209`: out of memory, the parent is not closed.
  `ior-thread.c:239`: `copied` is an `int`.
- `iow-thread.c:122`: errors of the child's writes are dropped.
- `iow-lzo.c:479`: `lzo_wwrite` returns the counted-down length, 0.
  `iow-lzo.c:256`: a compressor that fails leaves its block WAITING; the caller
  that needs it, and the close, wait for ever.
- `iow-stdio.c:182`: a `writev` shorter than the buffered bytes fails the
  assertion (modelled as "aborted"). `iow-stdio.c:165`: a write that fails after
  a short `writev` returns -1 with part of it in the file. `iow-stdio.c:209`:
  the result of taking O_DIRECT away is ignored; the write after it then fails.
- `ior-peek.c:115`: out of memory, `refill_buffer` leaves a length and a freed
  pointer; `peek_peek` returns the error number as a count. `ior-peek.c:268`: a
  peek is short if one read of the child is. `ior-peek.c:266`: a peek after a
  read of the child failed uses the length -1: the child reads to one byte in
  front of the buffer. `ior-peek.c:290`: tell asks the child, so after a peek or
  a short read it is ahead of the read pointer, whose offset `wandio.h:282`
  promises. `:296`: seek keeps what is buffered.
- `wandio.c:512`: when a read fails in the middle of a line, the bytes taken so
  far are lost; `wandio.c:511`: with room for one character `wandio_fgets` reads
  nothing and returns 0, as at the end of the file.
- `ior-http.c:218`, `:372`: errors of a transfer are retried without limit.
  `:235`: with no length known a transfer that stops early counts as complete.
  `:202`: the length of a resumed transfer is taken for that of the file.
  `:399`: a relative seek is one byte too low. `:427`: after a failed seek reads
  return 0. `:247`: a restart makes a new easy handle without the request
  headers of the old one: a Swift handle then sends no token and, refused,
  retries for ever. `:138`: a transfer that could not be added is not noticed;
  an open takes it for an empty file. `:330` with `:128`: redirects are followed
  with the request headers, so the token goes where the store redirects to.
- `ior-http.c:306`, `keystone.c:425`: a restart and a Keystone request count one
  more user of libcurl, and nobody counts it off; libcurl is then never shut
  down. `keystone.c:495`: parsed again "in case the storage_url should be
  overridden", but `OS_AUTH_TOKEN` is taken as well: a stale one replaces the
  token Keystone has just issued.
- `ior-zlib.c:153`: a file cut in a later member that came in the same portion
  as the end before it looks complete; `:161`: a corrupt file can return 0.
  `ior-bzip.c:96`: a cut file looks complete. `ior-lzma.c:122`: members after
  the first are ignored. `ior-zstd-lz4.c:177`: a read of less than the length of
  a magic at the start of a frame is an error, as is a magic that straddles the
  end of `inbuf`, which is not moved between frames; after an error what the
  call had decoded is gone.
- `iow-zlib.c:132`: a flush of more than fits in `outbuff` is partial and
  reports success; `:106`: after a failed write the encoder keeps pointing into
  the caller's buffer, and close compresses what is there; `:146`: if the
  child's flush fails, `outbuff` is sent again. `bz_wflush` returns -1, the xz,
  LZO and zstd flushes 0, without flushing.
- `iow-zstd.c:96`: a call of the encoder that produces nothing makes the write
  return -1 and all later ones fail, although its bytes are in the stream and
  the close writes them. `iow-zstd.c:116`: a close before any write uses an
  output buffer that was never set up. An error of `ZSTD_endStream` leaves the
  child open. `iow-lz4.c:168`: the result of a long write is the length of its
  last piece.
- `wandio.c:193`: the format is decided on one peek, as short as the source's
  first read. `wandio.c:219`: a creation that gives up leaves the lower layers
  open. Options stay set once parsed, and `buffers=0` is not refused.
  `wandio.c:114`: options are assigned one by one without a lock whenever a
  handle is created; with two different lengths (`buffers=2,buffers=3`), or a
  `setenv` between two creations, `max_buffers` changes under handles that are
  open, whose rings keep their length. `wandio.c:123`: an option of 1024
  characters is terminated one past its array.
- Read, not modelled: `iow-qat.c`: a write returns `len - consumed`, 0 when it
  succeeded; the source pointer is not advanced when the library takes a part; a
  flush asks for no bytes, so its loop never tells the library that they were
  the last. `ior-qat.c`: every call is offered room for `len` bytes, also behind
  those already read, and a `QZ_DATA_ERROR` that consumes nothing is repeated
  for ever.

## 7. Not modelled

- `ior-qat.c`, `iow-qat.c`: what their loops do depends on how QATzip reports
  input it takes in part and output that has no room. The repository neither
  contains nor describes that library, so a model would be one of a guess.
- `swift-support/jsmn.c`: vendored. Of `keystone.c` the HTTP request and the
  walk over JSON tokens are left out: an answer is a record of what can be found
  in it, or malformed.
- `wandio_printf` (formats, then one write), `wandio_detect_compression_type`
  and `wandio_lookup_compression_type` (comparisons of strings): no state.
- `wandiocat`: one sequential loop of reads and writes whose results it ignores.
- A `pthread_create` that fails in `thread_wopen` or for a compressor
  (`iow-lzo.c:360`); a failing `pthread_sigmask`, which can only reject `how`;
  where redirects lead; a change of `LIBTRACEIO` while the program runs; the
  owner `iow-stdio.c` gives a file under sudo; statistics; the test scripts.

Contents of compressed data, messages and logging are abstracted away
everywhere. Integer widths matter only beyond 2 GiB and are noted in section 6.

## 8. Plan

The order followed, most important first: threaded reader (with `IOReader` and
the proofs), threaded writer, LZO writer, peek, plain files, HTTP, codecs,
creation; then zstd and lz4 in both directions, line reading, Swift and
Keystone, and libcurl's count of users; then the proofs, in the same order, with
the codecs and Keystone's loops last.

Every invariant and every action property of the runs, and both refinements, are
now theorems. What is left is liveness, which stays with TLC, and the parts of
section 7; of these the QAT reader and writer would be worth a module, once it
is known what QATzip does with input it takes in part.
