------------------------------ MODULE Pipeline ------------------------------
(***************************************************************************)
(* How lib/wandio.c puts a handle together: the options of the environment *)
(* variable LIBTRACEIO, kept in process-wide variables; the stack of       *)
(* readers wandio_create builds after peeking at the file; the stack of    *)
(* writers wandio_wcreate builds; and the count of users of libcurl that   *)
(* lib/curl-helper.c keeps.  Several threads of the program may create,    *)
(* use and destroy handles at the same time.                               *)
(*                                                                         *)
(* A stack is a sequence of layers, the file first.  A file is the format  *)
(* its first bytes show.                                                   *)
(***************************************************************************)
EXTENDS Integers, Sequences, FiniteSets

CONSTANTS
  Handles,          \* the handles the program uses
  Files,            \* formats of the files they are opened on
  Builds,           \* sets of libraries it may have been built with
  Envs,             \* values of LIBTRACEIO: the options in their order
  DefaultBuffers,   \* initial value of max_buffers
  ShortPeeks,       \* may the first read of a source return a few bytes only?
  OpenMayFail,      \* may opening the file and allocating slices fail?
  CodecMayFail,     \* may a codec's own initialisation fail?
  Remote,           \* does the program open http:// and swift:// files?
  MaxUnmatched      \* bound: calls of the init below that nothing undoes

(* The detection table of create_io_reader: the bytes looked at, the       *)
(* decoder, and the libraries any of which compiles it in.                 *)
Needs == [gzip |-> 3, compress |-> 2, bzip |-> 3, xz |-> 5, zstd |-> 6,
          lz4 |-> 6, skippable |-> 6]
Decoder == [gzip |-> "zlib", compress |-> "zlib", bzip |-> "bzip",
            xz |-> "lzma", zstd |-> "zstd_lz4", lz4 |-> "zstd_lz4",
            skippable |-> "zstd_lz4"]
Support == [gzip |-> {"zlib"}, compress |-> {"zlib"}, bzip |-> {"bzip"},
            xz |-> {"lzma"}, zstd |-> {"zstd"}, lz4 |-> {"lz4"},
            skippable |-> {"zstd", "lz4"}]
Libraries == {"zlib", "bzip", "lzma", "zstd", "lz4", "lzo"}
Codecs == Libraries \cup {"zstd_lz4"}

(* An option assigns to a process-wide variable.                           *)
Globals == {"use_threads", "use_autodetect", "max_buffers"}

ASSUME PipelineAssumption ==
  /\ IsFiniteSet(Handles)
  /\ Files \subseteq DOMAIN Needs \cup {"plain"}
  /\ Builds \subseteq SUBSET Libraries
  /\ Envs \subseteq Seq([var : Globals, value : Nat])
  /\ DefaultBuffers \in Nat \ {0}
  /\ {ShortPeeks, OpenMayFail, CodecMayFail, Remote} \subseteq BOOLEAN
  /\ MaxUnmatched \in Nat

VARIABLES
  built,                        \* the libraries it was built with
  env,                          \* LIBTRACEIO
  globals,                      \* the process-wide variables
  cg_init_cnt,                  \* curl-helper.c: calls of the init
  curlUp,                       \* libcurl: is it initialised?
  unmatched,                    \* history: inits that no cleanup follows
  pc,       \* per handle: "none", the step creation is at, "ready", "null"
  parsed,   \* parse_env: how many options this creation has assigned
  kind,     \* "reader" or "writer"
  file,     \* the file's format; for a writer the compression asked for
  detect,   \* argument autodetect of create_io_reader
  stack,    \* the layers that exist for the handle
  slices,   \* length of the ring thread_open allocated
  peeked,   \* history: length of the peek the format was looked for in
  failed    \* history: could the decoder not be set up?

use_threads == globals["use_threads"]
use_autodetect == globals["use_autodetect"]
max_buffers == globals["max_buffers"]

fixed == <<built, env>>
options == <<globals, parsed>>
libcurl == <<cg_init_cnt, curlUp, unmatched>>
history == <<peeked, failed>>
vars == <<fixed, options, libcurl, pc, kind, file, detect, stack, slices, history>>

(* What the options of environment e give variable v; often one value, and *)
(* none when the option is absent.                                         *)
Values(e, v) == {e[i].value : i \in {j \in DOMAIN e : e[j].var = v}}

ThreadsAsked(e) == Values(e, "use_threads") # {} /\ 0 \notin Values(e, "use_threads")
ThreadsRefused(e) == Values(e, "use_threads") = {0}
DetectRefused(e) == Values(e, "use_autodetect") = {0}
OneLength(e) == \A x, y \in Values(e, "max_buffers") : x = y
-----------------------------------------------------------------------------
(* Small steps the actions below are made of.  A definition named X_y is a  *)
(* faulty variant of X, used to show that the properties would notice it.  *)

(* Does a peek of n bytes show the format f?                               *)
Shows_fullBuffer(f, n) == f # "plain" /\ n >= 1024
Shows(f, n) == f # "plain" /\ n >= Needs[f]

(* The peek of up to 1024 bytes: files have more than the largest header,  *)
(* a source that delivers less at first makes the peek as short.           *)
PeekLengths == {7} \cup (IF ShortPeeks THEN {1, 4} ELSE {})

(* Codecs whose open function has a way to return NULL.                    *)
MayFail(codec) ==
  /\ CodecMayFail
  /\ codec \in {"lzma", "lz4", "lzo"} \/ (codec = "zstd_lz4" /\ "lz4" \in built)

(* Under cg_lock, which makes each of the two atomic.                      *)
curl_helper_safe_global_init_once ==
  cg_init_cnt' = 1 /\ curlUp' = TRUE
curl_helper_safe_global_init ==
  cg_init_cnt' = cg_init_cnt + 1 /\ curlUp' = (curlUp \/ cg_init_cnt = 0)

curl_helper_safe_global_cleanup ==
  cg_init_cnt' = cg_init_cnt - 1 /\ curlUp' = (curlUp /\ cg_init_cnt' # 0)

Push(h, layers) == stack' = [stack EXCEPT ![h] = @ \o layers]
At(h, step) == pc[h] = step
Goto(h, step) == pc' = [pc EXCEPT ![h] = step]
-----------------------------------------------------------------------------
(* use_threads starts as (unsigned)-1; the code here only asks whether it  *)
(* is 0.                                                                   *)
Init ==
  /\ built \in Builds /\ env \in Envs
  /\ globals = [v \in Globals |-> IF v = "max_buffers" THEN DefaultBuffers ELSE 1]
  /\ cg_init_cnt = 0 /\ curlUp = FALSE /\ unmatched = 0
  /\ pc = [h \in Handles |-> "none"]
  /\ parsed = [h \in Handles |-> 0]
  /\ kind = [h \in Handles |-> "reader"]
  /\ file = [h \in Handles |-> "plain"]
  /\ detect = [h \in Handles |-> FALSE]
  /\ stack = [h \in Handles |-> <<>>]
  /\ slices = [h \in Handles |-> 0]
  /\ peeked = [h \in Handles |-> 0] /\ failed = [h \in Handles |-> FALSE]

(* Each of the calls that create a handle parses the environment first.    *)
Create_ifFirst(h, k, f, auto) ==
  /\ At(h, "none")
  /\ Goto(h, IF \E g \in Handles : parsed[g] > 0 THEN "open" ELSE "parse")
  /\ kind' = [kind EXCEPT ![h] = k]
  /\ file' = [file EXCEPT ![h] = f]
  /\ detect' = [detect EXCEPT ![h] = auto]
  /\ UNCHANGED <<fixed, options, libcurl, stack, slices, history>>
Create(h, k, f, auto) ==
  /\ At(h, "none") /\ Goto(h, "parse")
  /\ kind' = [kind EXCEPT ![h] = k]
  /\ file' = [file EXCEPT ![h] = f]
  /\ detect' = [detect EXCEPT ![h] = auto]
  /\ UNCHANGED <<fixed, options, libcurl, stack, slices, history>>

wandio_create(h, f) == Create(h, "reader", f, TRUE)
wandio_create_uncompressed(h, f) == Create(h, "reader", f, FALSE)

(* wandio_wcreate with compression c ("none" for level 0 or no method).    *)
wandio_wcreate(h, c) == Create(h, "writer", c, FALSE)

(* parse_env assigns the next option, under no lock: other threads see     *)
(* each assignment as it is made.                                          *)
do_option(h) ==
  /\ At(h, "parse") /\ parsed[h] < Len(env)
  /\ LET option == env[parsed[h] + 1]
     IN  globals' = [globals EXCEPT ![option.var] = option.value]
  /\ parsed' = [parsed EXCEPT ![h] = @ + 1]
  /\ UNCHANGED <<fixed, libcurl, pc, kind, file, detect, stack, slices, history>>

(* The end of parse_env; wandio_create reads use_autodetect next.          *)
Parsed_butLast(h) ==
  /\ At(h, "parse") /\ parsed[h] + 1 >= Len(env)
  /\ Goto(h, "open")
  /\ detect' = [detect EXCEPT ![h] = @ /\ use_autodetect # 0]
  /\ UNCHANGED <<fixed, options, libcurl, kind, file, stack, slices, history>>
Parsed(h) ==
  /\ At(h, "parse") /\ parsed[h] = Len(env)
  /\ Goto(h, "open")
  /\ detect' = [detect EXCEPT ![h] = @ /\ use_autodetect # 0]
  /\ UNCHANGED <<fixed, options, libcurl, kind, file, stack, slices, history>>

(* create_io_reader: stdio_open, http_open or swift_open, then peek_open;  *)
(* peek_open of nothing is nothing.                                        *)
OpenSource(h) ==
  /\ kind[h] = "reader" /\ At(h, "open")
  /\ \/ Push(h, <<"file", "peek">>) /\ Goto(h, "detect") /\ UNCHANGED libcurl
     \/ OpenMayFail /\ Goto(h, "null") /\ UNCHANGED <<stack, libcurl>>
     \/ Remote /\ Goto(h, "connect")
        /\ curl_helper_safe_global_init /\ UNCHANGED <<stack, unmatched>>
     \/ Remote /\ unmatched < MaxUnmatched /\ Goto(h, "keystone")
        /\ curl_helper_safe_global_init /\ unmatched' = unmatched + 1
        /\ UNCHANGED stack
  /\ UNCHANGED <<fixed, options, kind, file, detect, slices, history>>

(* swift_open has asked Keystone for a token, which leaves libcurl as it   *)
(* is; then it opens an HTTP reader.                                       *)
Authenticate(h) ==
  /\ At(h, "keystone")
  /\ \/ Goto(h, "connect") /\ curl_helper_safe_global_init
     \/ OpenMayFail /\ Goto(h, "null") /\ UNCHANGED <<cg_init_cnt, curlUp>>
  /\ UNCHANGED <<fixed, options, unmatched, kind, file, detect, stack, slices, history>>

(* The first fill of the HTTP reader; if it fails, http_close, which       *)
(* undoes one init: not that of a restart within the fill.                 *)
Connect(h) ==
  /\ At(h, "connect")
  /\ \/ Push(h, <<"http", "peek">>) /\ Goto(h, "detect")
        /\ UNCHANGED <<cg_init_cnt, curlUp>>
        /\ UNCHANGED unmatched
     \/ OpenMayFail /\ Goto(h, "null")
        /\ curl_helper_safe_global_cleanup /\ UNCHANGED <<stack, unmatched>>
     \/ unmatched < MaxUnmatched
        /\ curl_helper_safe_global_init /\ unmatched' = unmatched + 1
        /\ UNCHANGED <<pc, stack>>
  /\ UNCHANGED <<fixed, options, kind, file, detect, slices, history>>

(* A transfer of an open HTTP reader is restarted: init_io again.          *)
Restart(h) ==
  /\ unmatched < MaxUnmatched
  /\ stack[h] # <<>> /\ stack[h][1] = "http"
  /\ pc[h] \in {"detect", "ready"}
  /\ curl_helper_safe_global_init /\ unmatched' = unmatched + 1
  /\ UNCHANGED <<fixed, options, pc, kind, file, detect, stack, slices, history>>

(* The peek and the comparison with the known formats.  A known format     *)
(* without a decoder in the build gives up, leaving the source open.  With *)
(* a decoder that cannot be set up the file is read as if not compressed.  *)
Detect(h) ==
  /\ kind[h] = "reader" /\ At(h, "detect")
  /\ \E n \in PeekLengths :
       LET f == file[h]
           known == detect[h] /\ Shows(f, n)
       IN  /\ peeked' = [peeked EXCEPT ![h] = n]
           /\ \/ ~known
                /\ Goto(h, "thread") /\ UNCHANGED <<stack, failed>>
              \/ known /\ Support[f] \cap built # {}
                /\ Goto(h, "thread") /\ Push(h, <<Decoder[f]>>) /\ UNCHANGED failed
              \/ known /\ Support[f] \cap built = {}
                /\ Goto(h, "null") /\ UNCHANGED <<stack, failed>>
              \/ known /\ Support[f] \cap built # {} /\ MayFail(Decoder[f])
                /\ Goto(h, "thread") /\ UNCHANGED stack
                /\ failed' = [failed EXCEPT ![h] = TRUE]
  /\ UNCHANGED <<fixed, libcurl, options, kind, file, detect, slices>>

(* thread_open, whose ring has max_buffers slices, and the peek on top; if *)
(* a slice cannot be allocated there is no handle and the layers remain.   *)
OpenThread(h) ==
  /\ kind[h] = "reader" /\ At(h, "thread")
  /\ \/ /\ use_threads # 0
        /\ Push(h, <<"thread", "peek">>) /\ Goto(h, "ready")
        /\ slices' = [slices EXCEPT ![h] = max_buffers]
     \/ /\ use_threads # 0 /\ OpenMayFail
        /\ Goto(h, "null") /\ UNCHANGED <<stack, slices>>
     \/ /\ use_threads = 0
        /\ Push(h, <<"peek">>) /\ Goto(h, "ready") /\ UNCHANGED slices
  /\ UNCHANGED <<fixed, libcurl, options, kind, file, detect, history>>
-----------------------------------------------------------------------------
(* wandio_wcreate goes on: stdio_wopen.                                    *)
OpenFile(h) ==
  /\ kind[h] = "writer" /\ At(h, "open")
  /\ \/ Push(h, <<"stdio">>) /\ Goto(h, "encoder")
     \/ OpenMayFail /\ Goto(h, "null") /\ UNCHANGED stack
  /\ UNCHANGED <<fixed, libcurl, options, kind, file, detect, slices, history>>

(* A method the library was not built with falls back to none, with a      *)
(* warning; an encoder that cannot be set up leaves the file open.         *)
OpenEncoder(h) ==
  /\ kind[h] = "writer" /\ At(h, "encoder")
  /\ LET thread == IF use_threads # 0 THEN <<"thread">> ELSE <<>>
     IN  \/ file[h] \in built /\ Push(h, <<file[h]>> \o thread) /\ Goto(h, "ready")
         \/ file[h] \notin built /\ Push(h, thread) /\ Goto(h, "ready")
         \/ file[h] \in built /\ MayFail(file[h]) /\ Goto(h, "null") /\ UNCHANGED stack
  /\ UNCHANGED <<fixed, libcurl, options, kind, file, detect, slices, history>>

(* wandio_destroy, wandio_wdestroy: every layer closes the one below it.   *)
Destroy(h) ==
  /\ At(h, "ready") /\ Goto(h, "none")
  /\ stack' = [stack EXCEPT ![h] = <<>>]
  /\ slices' = [slices EXCEPT ![h] = 0]
  /\ parsed' = [parsed EXCEPT ![h] = 0]
  /\ peeked' = [peeked EXCEPT ![h] = 0] /\ failed' = [failed EXCEPT ![h] = FALSE]
  /\ IF stack[h][1] = "http" THEN curl_helper_safe_global_cleanup
                             ELSE UNCHANGED <<cg_init_cnt, curlUp>>
  /\ UNCHANGED <<unmatched, fixed, globals, kind, file, detect>>

(* Every creation failed: nothing is left to do.                           *)
Done == (\A h \in Handles : At(h, "null")) /\ UNCHANGED vars

Next ==
  \/ \E h \in Handles :
       \/ \E f \in Files : wandio_create(h, f) \/ wandio_create_uncompressed(h, f)
       \/ \E c \in Libraries \cup {"none"} : wandio_wcreate(h, c)
       \/ do_option(h) \/ Parsed(h)
       \/ OpenSource(h) \/ Authenticate(h) \/ Connect(h) \/ Restart(h) \/ Detect(h) \/ OpenThread(h)
       \/ OpenFile(h) \/ OpenEncoder(h)
       \/ Destroy(h)
  \/ Done

Spec == Init /\ [][Next]_vars
-----------------------------------------------------------------------------
Has(h, layer) == \E i \in DOMAIN stack[h] : stack[h][i] = layer

(* Every variable keeps its type; the layers of a stack are known ones,    *)
(* above the file they read or write, and a reader can be peeked at, as    *)
(* wandio_peek asserts.                                                    *)
TypeOK ==
  /\ built \in Builds /\ env \in Envs
  /\ globals \in [Globals -> Nat] /\ \A h \in Handles : parsed[h] \in 0..Len(env)
  /\ pc \in [Handles -> {"none", "parse", "open", "keystone", "connect", "detect", "thread", "encoder", "ready", "null"}]
  /\ kind \in [Handles -> {"reader", "writer"}]
  /\ file \in [Handles -> Files \cup Codecs \cup {"plain", "none"}]
  /\ detect \in [Handles -> BOOLEAN] /\ slices \in [Handles -> Nat]
  /\ peeked \in [Handles -> Nat] /\ failed \in [Handles -> BOOLEAN]
  /\ \A h \in Handles : \A i \in DOMAIN stack[h] :
       stack[h][i] \in Codecs \cup {"file", "http", "stdio", "peek", "thread"}
  /\ \A h \in Handles : stack[h] # <<>> => stack[h][1] \in {"file", "http", "stdio"}
  /\ \A h \in Handles :
       At(h, "ready") /\ kind[h] = "reader" => stack[h][Len(stack[h])] = "peek"

(* The threaded reader computes its indices, and thread_close frees its    *)
(* slices, with the process-wide max_buffers, not with the length its ring *)
(* was allocated with.  The two agree for every open handle, while         *)
(* whichever threads assign the options again, one by one, to create       *)
(* others; unless LIBTRACEIO has several lengths ("buffers=2,buffers=3"),  *)
(* which parse_env assigns in turn under the handles that are open.        *)
RingMatchesMaxBuffers ==
  OneLength(env) => \A h \in Handles : slices[h] # 0 => slices[h] = max_buffers

(* Options given in the environment hold for every handle, reader or       *)
(* writer, the first one created included, wherever other threads are in   *)
(* parsing them.                                                           *)
OptionsHonoured ==
  \A h \in Handles : At(h, "ready") =>
    /\ ThreadsAsked(env) => Has(h, "thread")
    /\ ThreadsRefused(env) => ~Has(h, "thread")
    /\ DetectRefused(env) /\ kind[h] = "reader" => ~\E c \in Codecs : Has(h, c)

(* lib/wandio.h:262, "The compression format will be determined            *)
(* automatically by peeking at the first few bytes of the file": a reader  *)
(* that was asked to detect, whose peek covered the header and whose       *)
(* decoder could be set up, decodes a compressed file with its decoder,    *)
(* below the thread that reads ahead, in every build that has a decoder.   *)
(* And all stacks are well-formed (TypeOK).                                *)
FormatRecognised ==
  /\ TypeOK
  /\ \A h \in Handles :
       /\ At(h, "ready") /\ kind[h] = "reader" /\ detect[h] /\ file[h] # "plain"
       /\ peeked[h] >= Needs[file[h]] /\ ~failed[h]
       => Len(stack[h]) >= 3 /\ stack[h][3] = Decoder[file[h]]

(* Handles whose HTTP reader uses libcurl, being opened or open.           *)
CurlUsers ==
  {h \in Handles : At(h, "connect") \/ (stack[h] # <<>> /\ stack[h][1] = "http")}

(* However opens, failed opens, restarts and destroys of several threads   *)
(* interleave, libcurl stays initialised while a handle uses it, and the   *)
(* count is that of the users and of the inits that nothing undoes         *)
(* (lib/curl-helper.c:42), so that its assertion, lib/curl-helper.c:55,    *)
(* holds.                                                                  *)
CurlUpWhileUsed ==
  /\ CurlUsers # {} => curlUp
  /\ curlUp <=> cg_init_cnt > 0
  /\ cg_init_cnt = Cardinality(CurlUsers) + unmatched
=============================================================================
