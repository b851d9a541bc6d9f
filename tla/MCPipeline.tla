----------------------------- MODULE MCPipeline -----------------------------
(***************************************************************************)
(* Handle creation for TLC: two interchangeable handles, a full build of   *)
(* the library and one with lz4 and lzo only.                              *)
(***************************************************************************)
EXTENDS Pipeline, TLC

CONSTANTS h1, h2

(* The handles are interchangeable.                                        *)
HandleSymmetry == Permutations({h1, h2})

(* Options as LIBTRACEIO spells them.                                      *)
NoThreads == [var |-> "use_threads", value |-> 0]
NoAutodetect == [var |-> "use_autodetect", value |-> 0]
ThreadsIs(n) == [var |-> "use_threads", value |-> n]
BuffersIs(n) == [var |-> "max_buffers", value |-> n]

(* No options, those that stay out of each other's way, and the repeated   *)
(* ones that agree ("nothreads,threads=0") and that do not.                *)
MCEnvs == {<<>>, <<BuffersIs(2), NoThreads>>, <<NoAutodetect, ThreadsIs(2), BuffersIs(3)>>,
           <<NoThreads, ThreadsIs(0)>>, <<BuffersIs(2), BuffersIs(3)>>}
=============================================================================
