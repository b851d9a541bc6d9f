--------------------------- MODULE PipelineProofs ---------------------------
(***************************************************************************)
(* Proofs, for any number of handles, any options and any build, of what   *)
(* MCPipeline checks on small instances of Pipeline.                       *)
(***************************************************************************)
EXTENDS Pipeline, FiniteSetTheorems, TLAPS

Steps ==
  {"none", "parse", "open", "keystone", "connect", "detect", "thread", "encoder", "ready", "null"}
Layers == Codecs \cup {"file", "http", "stdio", "peek", "thread"}
Formats == Files \cup Codecs \cup {"plain", "none"}

HasLayer(s, layer) == \E i \in DOMAIN s : s[i] = layer

(* The stacks that creating a reader goes through: a source, with or       *)
(* without a decoder.                                                      *)
SourceStack(s) == Len(s) = 2 /\ s[1] \in {"file", "http"} /\ s[2] = "peek"
DecoderStack(s) ==
  Len(s) = 3 /\ s[1] \in {"file", "http"} /\ s[2] = "peek" /\ s[3] \in Codecs

(* What FormatRecognised and OptionsHonoured say of one handle.            *)
Recognised(d, f, s, m, x) ==
  d = TRUE /\ f # "plain" /\ m >= Needs[f] /\ x = FALSE
    => Len(s) >= 3 /\ s[3] = Decoder[f]
ThreadsFit(e, threaded) ==
  (ThreadsAsked(e) => threaded) /\ (ThreadsRefused(e) => ~threaded)
Honoured(e, k, s) ==
  /\ ThreadsFit(e, HasLayer(s, "thread"))
  /\ DetectRefused(e) /\ k = "reader" => \A c \in Codecs : ~HasLayer(s, c)

(* What the step p at which the creation of a handle is says of its kind,  *)
(* format, stack and so on, in environment e.                              *)
Fits(e, p, k, f, d, s, m, x) ==
  /\ s # <<>> => s[1] \in {"file", "http", "stdio"}
  /\ p \in {"none", "parse", "open", "keystone", "connect"} => s = <<>>
  /\ p = "detect" => SourceStack(s)
  /\ p = "thread" => /\ SourceStack(s) \/ DecoderStack(s)
                     /\ DetectRefused(e) => SourceStack(s)
                     /\ Recognised(d, f, s, m, x)
  /\ p = "encoder" => s = <<"stdio">>
  /\ p = "ready" => s # <<>> /\ Honoured(e, k, s)
  /\ p = "ready" /\ k = "reader" => s[Len(s)] = "peek" /\ Recognised(d, f, s, m, x)
  /\ p \notin {"none", "parse"} /\ k = "reader" /\ DetectRefused(e) => d = FALSE
  /\ p # "none" /\ k = "reader" => f \in Files

Types ==
  /\ built \in Builds /\ env \in Envs
  /\ globals \in [Globals -> Nat] /\ parsed \in [Handles -> Nat]
  /\ pc \in [Handles -> Steps] /\ kind \in [Handles -> {"reader", "writer"}]
  /\ file \in [Handles -> Formats] /\ detect \in [Handles -> BOOLEAN]
  /\ stack \in [Handles -> Seq(Layers)] /\ slices \in [Handles -> Nat]
  /\ peeked \in [Handles -> Nat] /\ failed \in [Handles -> BOOLEAN]

HandlesInv ==
  \A h \in Handles :
    Fits(env, pc[h], kind[h], file[h], detect[h], stack[h], peeked[h], failed[h])

(* What a creation has parsed is in force from then on, whoever parses the *)
(* options again; a handle past the parsing has parsed all of them.        *)
ParsedInv ==
  /\ \A h \in Handles : \A i \in 1..parsed[h] : globals[env[i].var] \in Values(env, env[i].var)
  /\ \A h \in Handles : parsed[h] <= Len(env)
  /\ \A h \in Handles : pc[h] \notin {"none", "parse"} => parsed[h] = Len(env)

OptionsInv ==
  \A h \in Handles :
    slices[h] # 0 => pc[h] = "ready" /\ (OneLength(env) => slices[h] = max_buffers)

CurlInv == CurlUpWhileUsed /\ cg_init_cnt \in Nat /\ unmatched \in Nat /\ curlUp \in BOOLEAN

(* The inductive invariant.                                                *)
IInv == Types /\ HandlesInv /\ ParsedInv /\ OptionsInv /\ CurlInv
-----------------------------------------------------------------------------
(* What is put on top of a stack leaves the layers below it.               *)
LEMMA PushFacts ==
  ASSUME NEW s \in Seq(Layers), NEW t \in Seq(Layers)
  PROVE  /\ s \o t \in Seq(Layers) /\ Len(s \o t) = Len(s) + Len(t)
         /\ \A i \in 1..Len(s) : (s \o t)[i] = s[i]
         /\ \A i \in 1..Len(t) : (s \o t)[Len(s) + i] = t[i]
         /\ \A layer : HasLayer(s \o t, layer) <=> HasLayer(s, layer) \/ HasLayer(t, layer)
<1> DEFINE u == s \o t
<1>1. u \in Seq(Layers) /\ Len(u) = Len(s) + Len(t)
  OBVIOUS
<1>2. \A i \in 1..Len(s) : u[i] = s[i]
  OBVIOUS
<1>3. \A i \in 1..Len(t) : u[Len(s) + i] = t[i]
  OBVIOUS
<1>4. \A i \in 1..Len(u) : i \in 1..Len(s) \/ (i - Len(s) \in 1..Len(t) /\ u[i] = t[i - Len(s)])
  OBVIOUS
<1> HIDE DEF u
<1>5. DOMAIN s = 1..Len(s) /\ DOMAIN t = 1..Len(t) /\ DOMAIN u = 1..Len(u)
  BY <1>1
<1>6. ASSUME NEW layer PROVE HasLayer(u, layer) <=> HasLayer(s, layer) \/ HasLayer(t, layer)
  <2>1. HasLayer(u, layer) => HasLayer(s, layer) \/ HasLayer(t, layer)
    <3>1. SUFFICES ASSUME NEW i \in DOMAIN u, u[i] = layer
                   PROVE  HasLayer(s, layer) \/ HasLayer(t, layer)
      BY DEF HasLayer
    <3>2. i \in DOMAIN s \/ (i - Len(s) \in DOMAIN t /\ u[i] = t[i - Len(s)])
      BY <1>4, <1>5
    <3>3. CASE i \in DOMAIN s
      BY <1>2, <1>5, <3>1, <3>3 DEF HasLayer
    <3>4. CASE i - Len(s) \in DOMAIN t /\ u[i] = t[i - Len(s)]
      BY <3>1, <3>4 DEF HasLayer
    <3> QED BY <3>2, <3>3, <3>4
  <2>2. HasLayer(s, layer) => HasLayer(u, layer)
    BY <1>1, <1>2, <1>5 DEF HasLayer
  <2>3. HasLayer(t, layer) => HasLayer(u, layer)
    <3>1. SUFFICES ASSUME NEW i \in DOMAIN t, t[i] = layer
                   PROVE  HasLayer(u, layer)
      BY DEF HasLayer
    <3>2. Len(s) + i \in DOMAIN u /\ u[Len(s) + i] = t[i]
      BY <1>1, <1>3, <1>5
    <3> QED BY <3>1, <3>2 DEF HasLayer
  <2> QED BY <2>1, <2>2, <2>3
<1> QED BY <1>1, <1>2, <1>3, <1>6 DEF u

(* The layers of what is pushed.                                           *)
LEMMA OneLayer ==
  ASSUME NEW a \in Layers
  PROVE  /\ <<a>> \in Seq(Layers) /\ Len(<<a>>) = 1 /\ <<a>>[1] = a /\ <<a>> # <<>>
         /\ \A layer : HasLayer(<<a>>, layer) <=> layer = a
BY DEF HasLayer

(* ... of two.                                                             *)
LEMMA TwoLayers ==
  ASSUME NEW a \in Layers, NEW b \in Layers
  PROVE  /\ <<a, b>> \in Seq(Layers) /\ Len(<<a, b>>) = 2 /\ <<a, b>> # <<>>
         /\ <<a, b>>[1] = a /\ <<a, b>>[2] = b
         /\ \A layer : HasLayer(<<a, b>>, layer) <=> layer \in {a, b}
<1>1. \A i \in DOMAIN <<a, b>> : i = 1 \/ i = 2
  OBVIOUS
<1>2. 1 \in DOMAIN <<a, b>> /\ 2 \in DOMAIN <<a, b>>
  OBVIOUS
<1>3. /\ <<a, b>> \in Seq(Layers) /\ Len(<<a, b>>) = 2 /\ <<a, b>>[1] = a /\ <<a, b>>[2] = b
      /\ <<a, b>> # <<>>
  OBVIOUS
<1> QED BY <1>1, <1>2, <1>3 DEF HasLayer

(* ... of none.                                                            *)
LEMMA NoLayer ==
  /\ <<>> \in Seq(Layers) /\ Len(<<>>) = 0 /\ \A layer : ~HasLayer(<<>>, layer)
  /\ \A t \in Seq(Layers) : <<>> \o t = t /\ t \o <<>> = t
BY DEF HasLayer

(* The names of the layers are those of no other.                          *)
LEMMA LayerNames ==
  /\ {"file", "http", "stdio", "peek", "thread"} \cap Codecs = {}
  /\ {"file", "http", "stdio", "peek", "thread"} \subseteq Layers /\ Codecs \subseteq Layers
BY DEF Codecs, Libraries, Layers

(* A source has neither a thread nor a decoder; a decoder is no thread.    *)
LEMMA SourceLayers ==
  ASSUME NEW s \in Seq(Layers)
  PROVE  /\ SourceStack(s) => \A c \in Codecs \cup {"thread"} : ~HasLayer(s, c)
         /\ DecoderStack(s) => ~HasLayer(s, "thread")
<1>1. DOMAIN s = 1..Len(s)
  OBVIOUS
<1>2. SourceStack(s) => \A c \in Codecs \cup {"thread"} : ~HasLayer(s, c)
  BY <1>1, LayerNames DEF SourceStack, HasLayer
<1>3. DecoderStack(s) => ~HasLayer(s, "thread")
  BY <1>1, LayerNames DEF DecoderStack, HasLayer
<1> QED BY <1>2, <1>3

(* The environment is a sequence.                                          *)
LEMMA EnvFacts ==
  ASSUME Types
  PROVE  Len(env) \in Nat /\ DOMAIN env = 1..Len(env)
<1>1. env \in Seq([var : Globals, value : Nat])
  BY PipelineAssumption DEF Types
<1> QED BY <1>1

(* An option of the environment has the type of what it is assigned to,    *)
(* and its value is one of those the environment gives the variable.       *)
LEMMA OptionFacts ==
  ASSUME Types, NEW i \in 1..Len(env)
  PROVE  /\ Len(env) \in Nat
         /\ env[i].var \in Globals /\ env[i].value \in Nat
         /\ env[i].value \in Values(env, env[i].var)
<1>1. PICK S : S = [var : Globals, value : Nat]
  OBVIOUS
<1>2. DOMAIN env = 1..Len(env) /\ Len(env) \in Nat
  BY EnvFacts
<1>3. env[i] \in [var : Globals, value : Nat]
  <2>1. env \in Seq(S)
    BY <1>1, PipelineAssumption DEF Types
  <2>2. env[i] \in S
    BY <2>1
  <2> QED BY <1>1, <2>2
<1>4. i \in {j \in DOMAIN env : env[j].var = env[i].var}
  BY <1>2
<1>5. env[i].value \in {env[j].value : j \in {k \in DOMAIN env : env[k].var = env[i].var}}
  BY <1>4, Zenon
<1>6. env[i].value \in Values(env, env[i].var)
  BY <1>5, Zenon DEF Values
<1> QED BY <1>2, <1>3, <1>6

(* ... and an option that is there is one of them.                         *)
LEMMA ValueFacts ==
  ASSUME Types, NEW v, NEW x, x \in Values(env, v)
  PROVE  \E i \in 1..Len(env) : env[i].var = v /\ env[i].value = x
<1>1. PICK i \in {j \in DOMAIN env : env[j].var = v} : x = env[i].value
  BY Zenon DEF Values
<1>2. env \in Seq([var : Globals, value : Nat])
  BY PipelineAssumption DEF Types
<1>3. DOMAIN env = 1..Len(env)
  BY <1>2
<1> QED BY <1>1, <1>3

(* Past the parsing, a variable that the environment sets has one of the   *)
(* values it is given there.                                               *)
LEMMA InForceNow ==
  ASSUME Types, ParsedInv, NEW h \in Handles, parsed[h] = Len(env), NEW v,
         Values(env, v) # {}
  PROVE  globals[v] \in Values(env, v)
<1>1. PICK x : x \in Values(env, v)
  OBVIOUS
<1>2. PICK i \in 1..Len(env) : env[i].var = v
  BY <1>1, ValueFacts, Zenon
<1>3. globals[env[i].var] \in Values(env, env[i].var)
  BY Zenon DEF ParsedInv
<1> QED BY <1>2, <1>3, Zenon
-----------------------------------------------------------------------------
(* Does a handle at step p with stack s use libcurl?                       *)
IsUser(p, s) == p = "connect" \/ (s # <<>> /\ s[1] = "http")

(* What happens to libcurl when a handle moves from step p0 and stack s0   *)
(* to p1 and s1.                                                           *)
CurlMoves(p0, s0, p1, s1) ==
  \/ /\ IsUser(p1, s1) <=> IsUser(p0, s0)
     /\ UNCHANGED libcurl
  \/ /\ IsUser(p1, s1) <=> IsUser(p0, s0)
     /\ curl_helper_safe_global_init /\ unmatched' = unmatched + 1
  \/ /\ IsUser(p1, s1) /\ ~IsUser(p0, s0)
     /\ curl_helper_safe_global_init /\ unmatched' = unmatched
  \/ /\ ~IsUser(p1, s1) /\ IsUser(p0, s0)
     /\ curl_helper_safe_global_cleanup /\ unmatched' = unmatched

(* The count of the users is what CurlUpWhileUsed is about.                *)
LEMMA CountInv ==
  ASSUME cg_init_cnt' = Cardinality(CurlUsers') + unmatched', unmatched' \in Nat,
         curlUp' \in BOOLEAN, curlUp' <=> cg_init_cnt' > 0
  PROVE  CurlInv'
<1>1. IsFiniteSet(CurlUsers')
  <2>1. IsFiniteSet(Handles) /\ CurlUsers' \subseteq Handles
    BY PipelineAssumption DEF CurlUsers
  <2> QED BY <2>1, FS_Subset
<1>2. Cardinality(CurlUsers') \in Nat /\ (Cardinality(CurlUsers') = 0 <=> CurlUsers' = {})
  BY <1>1, FS_CardinalityType, FS_EmptySet
<1>3. cg_init_cnt' \in Nat /\ (CurlUsers' # {} => cg_init_cnt' > 0)
  BY <1>2
<1> QED BY <1>3, Zenon DEF CurlInv, CurlUpWhileUsed

(* curl_helper_safe_global_init and _cleanup: one handle begins or ends to *)
(* use libcurl, or an init is made that nothing undoes.                    *)
LEMMA CurlStep ==
  ASSUME CurlInv, NEW h \in Handles,
         \A g \in Handles \ {h} : pc'[g] = pc[g] /\ stack'[g] = stack[g],
         CurlMoves(pc[h], stack[h], pc'[h], stack'[h])
  PROVE  CurlInv'
<1>1. /\ CurlUsers = {g \in Handles : IsUser(pc[g], stack[g])}
      /\ CurlUsers' = {g \in Handles : IsUser(pc'[g], stack'[g])}
  BY DEF CurlUsers, IsUser, At
<1>2. IsFiniteSet(CurlUsers) /\ Cardinality(CurlUsers) \in Nat
  <2>1. IsFiniteSet(Handles) /\ CurlUsers \subseteq Handles
    BY PipelineAssumption DEF CurlUsers
  <2>2. IsFiniteSet(CurlUsers)
    BY <2>1, FS_Subset
  <2> QED BY <2>2, FS_CardinalityType
<1>3. cg_init_cnt \in Nat /\ unmatched \in Nat /\ cg_init_cnt = Cardinality(CurlUsers) + unmatched
  BY DEF CurlInv, CurlUpWhileUsed
<1>4. curlUp \in BOOLEAN /\ (curlUp <=> cg_init_cnt > 0)
  BY Zenon DEF CurlInv, CurlUpWhileUsed
<1>5. ASSUME curl_helper_safe_global_init
      PROVE  /\ cg_init_cnt' = cg_init_cnt + 1 /\ cg_init_cnt' > 0
             /\ curlUp' \in BOOLEAN /\ (curlUp' <=> cg_init_cnt' > 0)
  <2>1. cg_init_cnt' = cg_init_cnt + 1 /\ curlUp' = (curlUp \/ cg_init_cnt = 0)
    BY <1>5, Zenon DEF curl_helper_safe_global_init
  <2>2. cg_init_cnt' > 0 /\ (cg_init_cnt > 0 \/ cg_init_cnt = 0)
    BY <1>3, <2>1
  <2> QED BY <1>4, <2>1, <2>2, Zenon
<1>6. CASE /\ IsUser(pc'[h], stack'[h]) <=> IsUser(pc[h], stack[h])
           /\ UNCHANGED libcurl
  <2>1. CurlUsers' = CurlUsers
    BY <1>1, <1>6
  <2>2. cg_init_cnt' = cg_init_cnt /\ unmatched' = unmatched
    BY <1>6 DEF libcurl
  <2>3. curlUp' = curlUp
    BY <1>6, Zenon DEF libcurl
  <2>4. cg_init_cnt' = Cardinality(CurlUsers') + unmatched' /\ unmatched' \in Nat
    BY <1>3, <2>1, <2>2
  <2>5. curlUp' \in BOOLEAN /\ (curlUp' <=> cg_init_cnt' > 0)
    BY <1>4, <2>2, <2>3, Zenon
  <2> QED BY <2>4, <2>5, CountInv, Zenon
<1>7. CASE /\ IsUser(pc'[h], stack'[h]) <=> IsUser(pc[h], stack[h])
           /\ curl_helper_safe_global_init /\ unmatched' = unmatched + 1
  <2>1. CurlUsers' = CurlUsers
    BY <1>1, <1>7
  <2>2. cg_init_cnt' = cg_init_cnt + 1
    BY <1>5, <1>7
  <2>3. cg_init_cnt' = Cardinality(CurlUsers') + unmatched' /\ unmatched' \in Nat
    BY <1>2, <1>3, <1>7, <2>1, <2>2
  <2> QED BY <1>5, <1>7, <2>3, CountInv, Zenon
<1>8. CASE /\ IsUser(pc'[h], stack'[h]) /\ ~IsUser(pc[h], stack[h])
           /\ curl_helper_safe_global_init /\ unmatched' = unmatched
  <2>1. CurlUsers' = CurlUsers \cup {h} /\ h \notin CurlUsers
    BY <1>1, <1>8
  <2>2. Cardinality(CurlUsers') = Cardinality(CurlUsers) + 1
    BY <1>2, <2>1, FS_AddElement
  <2>3. cg_init_cnt' = cg_init_cnt + 1
    BY <1>5, <1>8
  <2>4. cg_init_cnt' = Cardinality(CurlUsers') + unmatched' /\ unmatched' \in Nat
    BY <1>2, <1>3, <1>8, <2>2, <2>3
  <2> QED BY <1>5, <1>8, <2>4, CountInv, Zenon
<1>9. CASE /\ ~IsUser(pc'[h], stack'[h]) /\ IsUser(pc[h], stack[h])
           /\ curl_helper_safe_global_cleanup /\ unmatched' = unmatched
  <2>1. CurlUsers' = CurlUsers \ {h} /\ h \in CurlUsers
    BY <1>1, <1>9
  <2>2. Cardinality(CurlUsers') = Cardinality(CurlUsers) - 1
    BY <1>2, <2>1, FS_RemoveElement
  <2>3. Cardinality(CurlUsers) # 0
    BY <1>2, <2>1, FS_EmptySet
  <2>4. cg_init_cnt' = cg_init_cnt - 1 /\ curlUp' = (curlUp /\ cg_init_cnt' # 0)
    BY <1>9, Zenon DEF curl_helper_safe_global_cleanup
  <2>5. /\ cg_init_cnt' = Cardinality(CurlUsers') + unmatched' /\ unmatched' \in Nat
        /\ cg_init_cnt > 0 /\ (cg_init_cnt' # 0 <=> cg_init_cnt' > 0)
    BY <1>2, <1>3, <1>9, <2>2, <2>3, <2>4
  <2>6. curlUp' \in BOOLEAN /\ (curlUp' <=> cg_init_cnt' > 0)
    BY <1>4, <2>4, <2>5, Zenon
  <2> QED BY <2>5, <2>6, CountInv, Zenon
<1> QED BY <1>6, <1>7, <1>8, <1>9, Zenon DEF CurlMoves

(* The new step, kind, format, ... of a handle.                            *)
Assigned(h, p, k, f, d, s, n, m, x) ==
  /\ pc' = [pc EXCEPT ![h] = p] /\ kind' = [kind EXCEPT ![h] = k]
  /\ file' = [file EXCEPT ![h] = f] /\ detect' = [detect EXCEPT ![h] = d]
  /\ stack' = [stack EXCEPT ![h] = s] /\ slices' = [slices EXCEPT ![h] = n]
  /\ peeked' = [peeked EXCEPT ![h] = m] /\ failed' = [failed EXCEPT ![h] = x]

(* Going to step p, a handle keeps what it has parsed or starts again; it  *)
(* parses all the options before it does anything else.                    *)
Parses(h, p) ==
  \/ parsed' = parsed /\ (p \notin {"none", "parse"} => parsed[h] = Len(env))
  \/ parsed' = [parsed EXCEPT ![h] = 0] /\ p \in {"none", "parse"}

(* A step of one handle to values that fit, with what it does to libcurl.  *)
Moves(h, p, k, f, d, s, n, m, x) ==
  /\ p \in Steps /\ k \in {"reader", "writer"} /\ f \in Formats /\ d \in BOOLEAN
  /\ s \in Seq(Layers) /\ n \in Nat /\ m \in Nat /\ x \in BOOLEAN
  /\ Assigned(h, p, k, f, d, s, n, m, x) /\ Fits(env, p, k, f, d, s, m, x)
  /\ n # 0 => p = "ready" /\ (OneLength(env) => n = max_buffers)
  /\ CurlMoves(pc[h], stack[h], p, s)
  /\ UNCHANGED fixed /\ globals' = globals /\ Parses(h, p)

(* A step of one handle: it leaves the other handles alone.                *)
LEMMA StepInv ==
  ASSUME IInv, NEW h \in Handles, NEW p, NEW k, NEW f, NEW d, NEW s, NEW n, NEW m, NEW x,
         Moves(h, p, k, f, d, s, n, m, x)
  PROVE  IInv'
<1>0. /\ p \in Steps /\ k \in {"reader", "writer"} /\ f \in Formats /\ d \in BOOLEAN
      /\ s \in Seq(Layers) /\ n \in Nat /\ m \in Nat /\ x \in BOOLEAN
      /\ Assigned(h, p, k, f, d, s, n, m, x) /\ Fits(env, p, k, f, d, s, m, x)
      /\ n # 0 => p = "ready" /\ (OneLength(env) => n = max_buffers)
      /\ CurlMoves(pc[h], stack[h], p, s)
      /\ UNCHANGED fixed /\ globals' = globals /\ Parses(h, p)
  BY Zenon DEF Moves
<1>1. Types /\ HandlesInv /\ ParsedInv /\ OptionsInv /\ CurlInv
  BY DEF IInv
<1>2. built' = built /\ env' = env
  BY <1>0 DEF fixed
<1>3. globals' \in [Globals -> Nat] /\ parsed' \in [Handles -> Nat] /\ max_buffers' = max_buffers
  <2>1. globals \in [Globals -> Nat] /\ parsed \in [Handles -> Nat]
    BY <1>1, Zenon DEF Types
  <2>2. parsed' = parsed \/ parsed' = [parsed EXCEPT ![h] = 0]
    BY <1>0, Zenon DEF Parses
  <2> QED BY <1>0, <2>1, <2>2 DEF max_buffers
<1>4. Types'
  <2>1. /\ pc \in [Handles -> Steps] /\ kind \in [Handles -> {"reader", "writer"}]
        /\ file \in [Handles -> Formats] /\ stack \in [Handles -> Seq(Layers)]
        /\ slices \in [Handles -> Nat] /\ peeked \in [Handles -> Nat]
    BY <1>1 DEF Types
  <2>2. detect \in [Handles -> BOOLEAN] /\ failed \in [Handles -> BOOLEAN]
    BY <1>1, Zenon DEF Types
  <2>3. /\ pc' \in [Handles -> Steps] /\ kind' \in [Handles -> {"reader", "writer"}]
        /\ file' \in [Handles -> Formats] /\ stack' \in [Handles -> Seq(Layers)]
        /\ slices' \in [Handles -> Nat] /\ peeked' \in [Handles -> Nat]
    BY <1>0, <2>1 DEF Assigned
  <2>4. detect' \in [Handles -> BOOLEAN] /\ failed' \in [Handles -> BOOLEAN]
    BY <1>0, <2>2 DEF Assigned
  <2>5. built' \in Builds /\ env' \in Envs
    BY <1>1, <1>2, Zenon DEF Types
  <2> QED BY <1>3, <2>3, <2>4, <2>5, Zenon DEF Types
<1>5. /\ pc'[h] = p /\ kind'[h] = k /\ file'[h] = f /\ detect'[h] = d /\ stack'[h] = s
      /\ slices'[h] = n /\ peeked'[h] = m /\ failed'[h] = x
  BY <1>0, <1>1, Zenon DEF Types, Assigned
<1>6. ASSUME NEW g \in Handles, g # h
      PROVE  /\ pc'[g] = pc[g] /\ kind'[g] = kind[g] /\ file'[g] = file[g]
             /\ detect'[g] = detect[g] /\ stack'[g] = stack[g] /\ slices'[g] = slices[g]
             /\ peeked'[g] = peeked[g] /\ failed'[g] = failed[g]
  BY <1>0, <1>1, <1>6, Zenon DEF Types, Assigned
<1>7. HandlesInv'
  <2>1. ASSUME NEW g \in Handles
        PROVE  Fits(env', pc'[g], kind'[g], file'[g], detect'[g], stack'[g], peeked'[g], failed'[g])
    <3>1. CASE g = h
      BY <1>0, <1>2, <1>5, <3>1, Zenon
    <3>2. CASE g # h
      BY <1>1, <1>2, <1>6, <3>2, Zenon DEF HandlesInv
    <3> QED BY <3>1, <3>2
  <2> QED BY <2>1, Zenon DEF HandlesInv
<1>8. OptionsInv'
  <2>1. ASSUME NEW g \in Handles, slices'[g] # 0
        PROVE  pc'[g] = "ready" /\ (OneLength(env') => slices'[g] = max_buffers')
    <3>1. CASE g = h
      BY <1>0, <1>2, <1>3, <1>5, <2>1, <3>1, Zenon
    <3>2. CASE g # h
      BY <1>1, <1>2, <1>3, <1>6, <2>1, <3>2, Zenon DEF OptionsInv
    <3> QED BY <3>1, <3>2
  <2> QED BY <2>1, Zenon DEF OptionsInv
<1>9. ParsedInv'
  <2>1. ASSUME NEW g \in Handles
        PROVE  /\ parsed'[g] <= Len(env') /\ \A i \in 1..parsed'[g] : i \in 1..parsed[g]
               /\ pc'[g] \notin {"none", "parse"} => parsed'[g] = Len(env')
    <3>1. /\ parsed[g] \in Nat /\ parsed[g] <= Len(env) /\ Len(env) \in Nat
          /\ pc[g] \notin {"none", "parse"} => parsed[g] = Len(env)
      <4>1. parsed \in [Handles -> Nat]
        BY <1>1, Zenon DEF Types
      <4> QED BY <1>1, <4>1, EnvFacts DEF ParsedInv
    <3>2. CASE parsed' = parsed /\ (p \notin {"none", "parse"} => parsed[h] = Len(env))
      BY <1>2, <1>5, <1>6, <3>1, <3>2
    <3>3. CASE parsed' = [parsed EXCEPT ![h] = 0] /\ p \in {"none", "parse"}
      <4>1. parsed'[h] = 0 /\ (g # h => parsed'[g] = parsed[g])
        BY <1>1, <3>3 DEF Types
      <4>2. CASE g = h
        BY <1>2, <1>5, <3>1, <3>3, <4>1, <4>2
      <4>3. CASE g # h
        BY <1>2, <1>6, <3>1, <4>1, <4>3
      <4> QED BY <4>2, <4>3
    <3> QED BY <1>0, <3>2, <3>3 DEF Parses
  <2>2. ASSUME NEW g \in Handles, NEW i \in 1..parsed'[g]
        PROVE  globals'[env'[i].var] \in Values(env', env'[i].var)
    <3>1. i \in 1..parsed[g]
      BY <2>1
    <3> QED BY <1>0, <1>1, <1>2, <3>1, Zenon DEF ParsedInv
  <2> QED BY <2>1, <2>2, Zenon DEF ParsedInv
<1>10. CurlInv'
  <2>1. CurlMoves(pc[h], stack[h], pc'[h], stack'[h])
    BY <1>0, <1>5, Zenon
  <2>2. \A g \in Handles \ {h} : pc'[g] = pc[g] /\ stack'[g] = stack[g]
    BY <1>6
  <2> QED BY <1>1, <2>1, <2>2, CurlStep, Zenon
<1> QED BY <1>4, <1>7, <1>8, <1>10, <1>9, Zenon DEF IInv

(* What is not assigned stays.                                             *)
LEMMA SameAt ==
  ASSUME NEW S, NEW g \in [Handles -> S], NEW h \in Handles
  PROVE  g = [g EXCEPT ![h] = g[h]] /\ g[h] \in S
OBVIOUS

(* A step of one handle that opens a layer, or fails to.                   *)
LEMMA LayerStep ==
  ASSUME IInv, NEW h \in Handles, NEW p \in Steps, NEW s \in Seq(Layers), NEW n \in Nat,
         UNCHANGED <<fixed, options, kind, file, detect, history>>,
         pc[h] \notin {"none", "parse"},
         pc' = [pc EXCEPT ![h] = p], stack' = [stack EXCEPT ![h] = s],
         slices' = [slices EXCEPT ![h] = n],
         Fits(env, p, kind[h], file[h], detect[h], s, peeked[h], failed[h]),
         n # 0 => p = "ready" /\ (OneLength(env) => n = max_buffers),
         CurlMoves(pc[h], stack[h], p, s)
  PROVE  IInv'
<1>1. /\ kind' = kind /\ file' = file /\ detect' = detect /\ peeked' = peeked /\ failed' = failed
      /\ UNCHANGED fixed /\ globals' = globals /\ parsed' = parsed
  BY Zenon DEF history, options
<1>2. kind' = [kind EXCEPT ![h] = kind[h]] /\ kind[h] \in {"reader", "writer"}
  BY <1>1, SameAt DEF IInv, Types
<1>3. file' = [file EXCEPT ![h] = file[h]] /\ file[h] \in Formats
  BY <1>1, SameAt DEF IInv, Types
<1>4. peeked' = [peeked EXCEPT ![h] = peeked[h]] /\ peeked[h] \in Nat
  BY <1>1, SameAt DEF IInv, Types
<1>5. detect \in [Handles -> BOOLEAN] /\ failed \in [Handles -> BOOLEAN]
  BY Zenon DEF IInv, Types
<1>6. detect' = [detect EXCEPT ![h] = detect[h]] /\ detect[h] \in BOOLEAN
  BY <1>1, <1>5, SameAt, Zenon
<1>7. failed' = [failed EXCEPT ![h] = failed[h]] /\ failed[h] \in BOOLEAN
  BY <1>1, <1>5, SameAt, Zenon
<1>8. Parses(h, p)
  <2>1. parsed[h] = Len(env)
    BY Zenon DEF IInv, ParsedInv
  <2> QED BY <1>1, <2>1, Zenon DEF Parses
<1>9. PICK k \in {"reader", "writer"} : k = kind[h]
  BY <1>2
<1>10. PICK f \in Formats : f = file[h]
  BY <1>3
<1>11. PICK m \in Nat : m = peeked[h]
  BY <1>4
<1>12. PICK d \in BOOLEAN : d = detect[h]
  BY <1>6, Zenon
<1>13. PICK x \in BOOLEAN : x = failed[h]
  BY <1>7, Zenon
<1>14. Fits(env, p, k, f, d, s, m, x)
  BY <1>9, <1>10, <1>11, <1>12, <1>13, Zenon
<1>15. /\ kind' = [kind EXCEPT ![h] = k] /\ file' = [file EXCEPT ![h] = f]
       /\ peeked' = [peeked EXCEPT ![h] = m]
  BY <1>2, <1>3, <1>4, <1>9, <1>10, <1>11
<1>16. detect' = [detect EXCEPT ![h] = d]
  BY <1>6, <1>12, Zenon
<1>17. failed' = [failed EXCEPT ![h] = x]
  BY <1>7, <1>13, Zenon
<1>18. Assigned(h, p, k, f, d, s, n, m, x)
  BY <1>15, <1>16, <1>17, Zenon DEF Assigned
<1>19. Moves(h, p, k, f, d, s, n, m, x)
  BY <1>1, <1>8, <1>14, <1>18, Zenon DEF Moves
<1> QED BY <1>19, StepInv, Zenon

(* The facts of one handle that its steps start from.                      *)
LEMMA HandleFacts ==
  ASSUME IInv, NEW h \in Handles
  PROVE  /\ pc[h] \in Steps /\ stack[h] \in Seq(Layers) /\ slices[h] \in Nat
         /\ kind[h] \in {"reader", "writer"} /\ file[h] \in Formats /\ peeked[h] \in Nat
         /\ Fits(env, pc[h], kind[h], file[h], detect[h], stack[h], peeked[h], failed[h])
         /\ slices = [slices EXCEPT ![h] = slices[h]] /\ stack = [stack EXCEPT ![h] = stack[h]]
         /\ pc = [pc EXCEPT ![h] = pc[h]]
         /\ slices[h] # 0 => pc[h] = "ready" /\ (OneLength(env) => slices[h] = max_buffers)
<1>1. /\ pc \in [Handles -> Steps] /\ kind \in [Handles -> {"reader", "writer"}]
      /\ file \in [Handles -> Formats] /\ stack \in [Handles -> Seq(Layers)]
      /\ slices \in [Handles -> Nat] /\ peeked \in [Handles -> Nat]
  BY DEF IInv, Types
<1>2. /\ Fits(env, pc[h], kind[h], file[h], detect[h], stack[h], peeked[h], failed[h])
      /\ slices[h] # 0 => pc[h] = "ready" /\ (OneLength(env) => slices[h] = max_buffers)
  BY Zenon DEF IInv, HandlesInv, OptionsInv
<1> QED BY <1>1, <1>2

(* Before its source is open a handle has no layers, and may be given up.  *)
LEMMA FitsEmpty ==
  ASSUME NEW e, NEW p0, NEW k, NEW f, NEW d, NEW s0, NEW m, NEW x,
         Fits(e, p0, k, f, d, s0, m, x), p0 \notin {"none", "parse"},
         NEW p \in {"open", "keystone", "connect", "null"}
  PROVE  Fits(e, p, k, f, d, <<>>, m, x)
BY DEF Fits

(* A handle that is given up keeps the layers it has.                      *)
LEMMA FitsNull ==
  ASSUME NEW e, NEW p0, NEW k, NEW f, NEW d, NEW s, NEW m, NEW x,
         Fits(e, p0, k, f, d, s, m, x), p0 \notin {"none", "parse"}
  PROVE  Fits(e, "null", k, f, d, s, m, x)
BY DEF Fits

(* The source and its peek.                                                *)
LEMMA FitsSource ==
  ASSUME NEW e, NEW p0, NEW k, NEW f, NEW d, NEW s0, NEW m, NEW x,
         Fits(e, p0, k, f, d, s0, m, x), p0 \notin {"none", "parse"}, NEW a \in {"file", "http"}
  PROVE  Fits(e, "detect", k, f, d, <<a, "peek">>, m, x) /\ <<a, "peek">> \in Seq(Layers)
<1>1. a \in Layers /\ "peek" \in Layers
  BY DEF Layers
<1>2. SourceStack(<<a, "peek">>) /\ <<a, "peek">>[1] \in {"file", "http", "stdio"}
  BY <1>1, TwoLayers DEF SourceStack
<1>3. <<a, "peek">> \in Seq(Layers)
  BY <1>1, TwoLayers
<1> QED BY <1>2, <1>3 DEF Fits

(* create_io_reader opens the source.                                      *)
LEMMA OpenSourceInv ==
  ASSUME IInv, NEW h \in Handles, OpenSource(h)
  PROVE  IInv'
<1>1. /\ pc[h] = "open" /\ pc[h] \notin {"none", "parse"}
      /\ UNCHANGED <<fixed, options, kind, file, detect, history>> /\ slices' = slices
  BY Zenon DEF OpenSource, At
<1>2. /\ stack[h] \in Seq(Layers)
      /\ Fits(env, pc[h], kind[h], file[h], detect[h], stack[h], peeked[h], failed[h])
      /\ stack = [stack EXCEPT ![h] = stack[h]]
  BY HandleFacts, Zenon
<1>3. stack[h] = <<>>
  BY <1>1, <1>2 DEF Fits
<1>4. slices' = [slices EXCEPT ![h] = 0] /\ 0 \in Nat
  <2>1. slices[h] = 0 /\ slices = [slices EXCEPT ![h] = slices[h]]
    BY <1>1, HandleFacts
  <2> QED BY <1>1, <2>1
<1>5. /\ ~IsUser("open", <<>>) /\ ~IsUser("null", <<>>) /\ ~IsUser("keystone", <<>>)
      /\ IsUser("connect", <<>>) /\ ~IsUser("detect", <<"file", "peek">>)
  BY DEF IsUser
<1>6. {"detect", "null", "connect", "keystone"} \subseteq Steps /\ <<>> \in Seq(Layers)
  BY DEF Steps
<1>7. CASE Push(h, <<"file", "peek">>) /\ Goto(h, "detect") /\ UNCHANGED libcurl
  <2>1. /\ Fits(env, "detect", kind[h], file[h], detect[h], <<"file", "peek">>, peeked[h], failed[h])
        /\ <<"file", "peek">> \in Seq(Layers)
    <3>1. "file" \in {"file", "http"}
      OBVIOUS
    <3> QED BY <1>1, <1>2, <3>1, FitsSource, Zenon
  <2>2. stack' = [stack EXCEPT ![h] = <<"file", "peek">>]
    <3>1. stack[h] \o <<"file", "peek">> = <<"file", "peek">>
      BY <1>3, <2>1, NoLayer
    <3> QED BY <1>7, <3>1 DEF Push
  <2>3. CurlMoves(pc[h], stack[h], "detect", <<"file", "peek">>)
    BY <1>1, <1>3, <1>5, <1>7, Zenon DEF CurlMoves
  <2>4. pc' = [pc EXCEPT ![h] = "detect"] /\ "detect" \in Steps
    BY <1>6, <1>7 DEF Goto
  <2> QED BY <1>1, <1>4, <2>1, <2>2, <2>3, <2>4, LayerStep, Zenon
<1>8. CASE Goto(h, "null") /\ UNCHANGED <<stack, libcurl>>
  <2>1. Fits(env, "null", kind[h], file[h], detect[h], <<>>, peeked[h], failed[h])
    BY <1>1, <1>2, FitsEmpty
  <2>2. stack' = [stack EXCEPT ![h] = <<>>]
    BY <1>2, <1>3, <1>8, Zenon
  <2>3. CurlMoves(pc[h], stack[h], "null", <<>>)
    BY <1>1, <1>3, <1>5, <1>8, Zenon DEF CurlMoves, libcurl
  <2>4. pc' = [pc EXCEPT ![h] = "null"] /\ "null" \in Steps
    BY <1>6, <1>8 DEF Goto
  <2> QED BY <1>1, <1>4, <1>6, <2>1, <2>2, <2>3, <2>4, LayerStep, Zenon
<1>9. CASE Goto(h, "connect") /\ curl_helper_safe_global_init /\ UNCHANGED <<stack, unmatched>>
  <2>1. Fits(env, "connect", kind[h], file[h], detect[h], <<>>, peeked[h], failed[h])
    BY <1>1, <1>2, FitsEmpty
  <2>2. stack' = [stack EXCEPT ![h] = <<>>]
    BY <1>2, <1>3, <1>9, Zenon
  <2>3. CurlMoves(pc[h], stack[h], "connect", <<>>)
    BY <1>1, <1>3, <1>5, <1>9, Zenon DEF CurlMoves
  <2>4. pc' = [pc EXCEPT ![h] = "connect"] /\ "connect" \in Steps
    BY <1>6, <1>9 DEF Goto
  <2> QED BY <1>1, <1>4, <1>6, <2>1, <2>2, <2>3, <2>4, LayerStep, Zenon
<1>10. CASE /\ Goto(h, "keystone") /\ curl_helper_safe_global_init
            /\ unmatched' = unmatched + 1 /\ UNCHANGED stack
  <2>1. Fits(env, "keystone", kind[h], file[h], detect[h], <<>>, peeked[h], failed[h])
    BY <1>1, <1>2, FitsEmpty
  <2>2. stack' = [stack EXCEPT ![h] = <<>>]
    BY <1>2, <1>3, <1>10, Zenon
  <2>3. CurlMoves(pc[h], stack[h], "keystone", <<>>)
    BY <1>1, <1>3, <1>5, <1>10, Zenon DEF CurlMoves
  <2>4. pc' = [pc EXCEPT ![h] = "keystone"] /\ "keystone" \in Steps
    BY <1>6, <1>10 DEF Goto
  <2> QED BY <1>1, <1>4, <1>6, <2>1, <2>2, <2>3, <2>4, LayerStep, Zenon
<1> QED BY <1>7, <1>8, <1>9, <1>10, Zenon DEF OpenSource

(* swift_open has its token, or not; then it opens an HTTP reader.         *)
LEMMA AuthenticateInv ==
  ASSUME IInv, NEW h \in Handles, Authenticate(h)
  PROVE  IInv'
<1>1. /\ pc[h] = "keystone" /\ pc[h] \notin {"none", "parse"}
      /\ UNCHANGED <<fixed, options, kind, file, detect, history>>
      /\ slices' = slices /\ stack' = stack /\ unmatched' = unmatched
  BY Zenon DEF Authenticate, At
<1>2. /\ Fits(env, pc[h], kind[h], file[h], detect[h], stack[h], peeked[h], failed[h])
      /\ stack = [stack EXCEPT ![h] = stack[h]]
  BY HandleFacts, Zenon
<1>3. stack[h] = <<>>
  BY <1>1, <1>2 DEF Fits
<1>4. slices' = [slices EXCEPT ![h] = 0] /\ 0 \in Nat
  <2>1. slices[h] = 0 /\ slices = [slices EXCEPT ![h] = slices[h]]
    BY <1>1, HandleFacts
  <2> QED BY <1>1, <2>1
<1>5. ~IsUser("keystone", <<>>) /\ IsUser("connect", <<>>) /\ ~IsUser("null", <<>>)
  BY DEF IsUser
<1>6. {"null", "connect"} \subseteq Steps /\ <<>> \in Seq(Layers)
  BY DEF Steps
<1>7. stack' = [stack EXCEPT ![h] = <<>>]
  BY <1>1, <1>2, <1>3, Zenon
<1>8. CASE Goto(h, "connect") /\ curl_helper_safe_global_init
  <2>1. Fits(env, "connect", kind[h], file[h], detect[h], <<>>, peeked[h], failed[h])
    BY <1>1, <1>2, FitsEmpty
  <2>2. CurlMoves(pc[h], stack[h], "connect", <<>>)
    BY <1>1, <1>3, <1>5, <1>8, Zenon DEF CurlMoves
  <2>3. pc' = [pc EXCEPT ![h] = "connect"] /\ "connect" \in Steps
    BY <1>6, <1>8 DEF Goto
  <2> QED BY <1>1, <1>4, <1>6, <1>7, <2>1, <2>2, <2>3, LayerStep, Zenon
<1>9. CASE Goto(h, "null") /\ UNCHANGED <<cg_init_cnt, curlUp>>
  <2>1. Fits(env, "null", kind[h], file[h], detect[h], <<>>, peeked[h], failed[h])
    BY <1>1, <1>2, FitsEmpty
  <2>2. CurlMoves(pc[h], stack[h], "null", <<>>)
    BY <1>1, <1>3, <1>5, <1>9, Zenon DEF CurlMoves, libcurl
  <2>3. pc' = [pc EXCEPT ![h] = "null"] /\ "null" \in Steps
    BY <1>6, <1>9 DEF Goto
  <2> QED BY <1>1, <1>4, <1>6, <1>7, <2>1, <2>2, <2>3, LayerStep, Zenon
<1> QED BY <1>8, <1>9, Zenon DEF Authenticate

(* The first fill of the HTTP reader.                                      *)
LEMMA ConnectInv ==
  ASSUME IInv, NEW h \in Handles, Connect(h)
  PROVE  IInv'
<1>1. /\ pc[h] = "connect" /\ pc[h] \notin {"none", "parse"}
      /\ UNCHANGED <<fixed, options, kind, file, detect, history>> /\ slices' = slices
  BY Zenon DEF Connect, At
<1>2. /\ Fits(env, pc[h], kind[h], file[h], detect[h], stack[h], peeked[h], failed[h])
      /\ stack = [stack EXCEPT ![h] = stack[h]]
  BY HandleFacts, Zenon
<1>3. stack[h] = <<>>
  BY <1>1, <1>2 DEF Fits
<1>4. slices' = [slices EXCEPT ![h] = 0] /\ 0 \in Nat
  <2>1. slices[h] = 0 /\ slices = [slices EXCEPT ![h] = slices[h]]
    BY <1>1, HandleFacts
  <2> QED BY <1>1, <2>1
<1>5. IsUser("connect", <<>>) /\ ~IsUser("null", <<>>) /\ IsUser("detect", <<"http", "peek">>)
  BY DEF IsUser
<1>6. {"null", "detect", "connect"} \subseteq Steps /\ <<>> \in Seq(Layers)
  BY DEF Steps
<1>7. CASE /\ Push(h, <<"http", "peek">>) /\ Goto(h, "detect") /\ UNCHANGED <<cg_init_cnt, curlUp>>
           /\ UNCHANGED unmatched
  <2>1. /\ Fits(env, "detect", kind[h], file[h], detect[h], <<"http", "peek">>, peeked[h], failed[h])
        /\ <<"http", "peek">> \in Seq(Layers)
    <3>1. "http" \in {"file", "http"}
      OBVIOUS
    <3> QED BY <1>1, <1>2, <3>1, FitsSource, Zenon
  <2>2. stack' = [stack EXCEPT ![h] = <<"http", "peek">>]
    <3>1. stack[h] \o <<"http", "peek">> = <<"http", "peek">>
      BY <1>3, <2>1, NoLayer
    <3> QED BY <1>7, <3>1 DEF Push
  <2>3. CurlMoves(pc[h], stack[h], "detect", <<"http", "peek">>)
    BY <1>1, <1>3, <1>5, <1>7, Zenon DEF CurlMoves, libcurl
  <2>4. pc' = [pc EXCEPT ![h] = "detect"] /\ "detect" \in Steps
    BY <1>6, <1>7 DEF Goto
  <2> QED BY <1>1, <1>4, <2>1, <2>2, <2>3, <2>4, LayerStep, Zenon
<1>8. CASE /\ Goto(h, "null") /\ curl_helper_safe_global_cleanup
           /\ UNCHANGED <<stack, unmatched>>
  <2>1. Fits(env, "null", kind[h], file[h], detect[h], <<>>, peeked[h], failed[h])
    BY <1>1, <1>2, FitsEmpty
  <2>2. stack' = [stack EXCEPT ![h] = <<>>]
    BY <1>2, <1>3, <1>8, Zenon
  <2>3. CurlMoves(pc[h], stack[h], "null", <<>>)
    BY <1>1, <1>3, <1>5, <1>8, Zenon DEF CurlMoves
  <2>4. pc' = [pc EXCEPT ![h] = "null"] /\ "null" \in Steps
    BY <1>6, <1>8 DEF Goto
  <2> QED BY <1>1, <1>4, <1>6, <2>1, <2>2, <2>3, <2>4, LayerStep, Zenon
<1>9. CASE /\ curl_helper_safe_global_init /\ unmatched' = unmatched + 1
           /\ UNCHANGED <<pc, stack>>
  <2>1. Fits(env, "connect", kind[h], file[h], detect[h], <<>>, peeked[h], failed[h])
    BY <1>1, <1>2, FitsEmpty
  <2>2. stack' = [stack EXCEPT ![h] = <<>>]
    BY <1>2, <1>3, <1>9, Zenon
  <2>3. CurlMoves(pc[h], stack[h], "connect", <<>>)
    BY <1>1, <1>3, <1>9, Zenon DEF CurlMoves
  <2>4. pc' = [pc EXCEPT ![h] = "connect"] /\ "connect" \in Steps
    BY <1>1, <1>6, <1>9, HandleFacts
  <2> QED BY <1>1, <1>4, <1>6, <2>1, <2>2, <2>3, <2>4, LayerStep, Zenon
<1> QED BY <1>7, <1>8, <1>9, Zenon DEF Connect

(* A transfer is restarted.                                                *)
LEMMA RestartInv ==
  ASSUME IInv, NEW h \in Handles, Restart(h)
  PROVE  IInv'
<1>1. /\ pc[h] \in {"detect", "ready"} /\ stack' = stack /\ slices' = slices /\ pc' = pc
      /\ UNCHANGED <<fixed, options, kind, file, detect, history>>
      /\ curl_helper_safe_global_init /\ unmatched' = unmatched + 1
  BY Zenon DEF Restart
<1>2. pc[h] \notin {"none", "parse"}
  BY <1>1
<1>3. CurlMoves(pc[h], stack[h], pc[h], stack[h])
  BY <1>1, Zenon DEF CurlMoves
<1>4. /\ pc[h] \in Steps /\ stack[h] \in Seq(Layers) /\ slices[h] \in Nat
      /\ Fits(env, pc[h], kind[h], file[h], detect[h], stack[h], peeked[h], failed[h])
      /\ slices[h] # 0 => pc[h] = "ready" /\ (OneLength(env) => slices[h] = max_buffers)
  BY HandleFacts, Zenon
<1>5. /\ pc' = [pc EXCEPT ![h] = pc[h]] /\ stack' = [stack EXCEPT ![h] = stack[h]]
      /\ slices' = [slices EXCEPT ![h] = slices[h]]
  BY <1>1, HandleFacts
<1>6. UNCHANGED <<fixed, options, kind, file, detect, history>>
  BY <1>1, Zenon
<1> QED BY <1>2, <1>3, <1>4, <1>5, <1>6, LayerStep, Zenon

(* wandio_wcreate opens the file.                                          *)
LEMMA OpenFileInv ==
  ASSUME IInv, NEW h \in Handles, OpenFile(h)
  PROVE  IInv'
<1>1. /\ pc[h] = "open" /\ pc[h] \notin {"none", "parse"}
      /\ UNCHANGED <<fixed, options, kind, file, detect, history>>
      /\ slices' = slices /\ UNCHANGED libcurl
  BY Zenon DEF OpenFile, At
<1>2. /\ Fits(env, pc[h], kind[h], file[h], detect[h], stack[h], peeked[h], failed[h])
      /\ stack = [stack EXCEPT ![h] = stack[h]]
  BY HandleFacts, Zenon
<1>3. stack[h] = <<>>
  BY <1>1, <1>2 DEF Fits
<1>4. slices' = [slices EXCEPT ![h] = 0] /\ 0 \in Nat
  <2>1. slices[h] = 0 /\ slices = [slices EXCEPT ![h] = slices[h]]
    BY <1>1, HandleFacts
  <2> QED BY <1>1, <2>1
<1>5. ~IsUser("open", <<>>) /\ ~IsUser("null", <<>>) /\ ~IsUser("encoder", <<"stdio">>)
  BY DEF IsUser
<1>6. {"null", "encoder"} \subseteq Steps /\ <<>> \in Seq(Layers) /\ <<"stdio">> \in Seq(Layers)
  BY DEF Steps, Layers
<1>7. CASE Push(h, <<"stdio">>) /\ Goto(h, "encoder")
  <2>1. Fits(env, "encoder", kind[h], file[h], detect[h], <<"stdio">>, peeked[h], failed[h])
    BY <1>1, <1>2 DEF Fits
  <2>2. stack' = [stack EXCEPT ![h] = <<"stdio">>]
    <3>1. stack[h] \o <<"stdio">> = <<"stdio">>
      BY <1>3, <1>6, NoLayer
    <3> QED BY <1>7, <3>1 DEF Push
  <2>3. CurlMoves(pc[h], stack[h], "encoder", <<"stdio">>)
    BY <1>1, <1>3, <1>5, Zenon DEF CurlMoves
  <2>4. pc' = [pc EXCEPT ![h] = "encoder"] /\ "encoder" \in Steps
    BY <1>6, <1>7 DEF Goto
  <2> QED BY <1>1, <1>4, <1>6, <2>1, <2>2, <2>3, <2>4, LayerStep, Zenon
<1>8. CASE Goto(h, "null") /\ UNCHANGED stack
  <2>1. Fits(env, "null", kind[h], file[h], detect[h], <<>>, peeked[h], failed[h])
    BY <1>1, <1>2, FitsEmpty
  <2>2. stack' = [stack EXCEPT ![h] = <<>>]
    BY <1>2, <1>3, <1>8, Zenon
  <2>3. CurlMoves(pc[h], stack[h], "null", <<>>)
    BY <1>1, <1>3, <1>5, Zenon DEF CurlMoves
  <2>4. pc' = [pc EXCEPT ![h] = "null"] /\ "null" \in Steps
    BY <1>6, <1>8 DEF Goto
  <2> QED BY <1>1, <1>4, <1>6, <2>1, <2>2, <2>3, <2>4, LayerStep, Zenon
<1> QED BY <1>7, <1>8, Zenon DEF OpenFile
-----------------------------------------------------------------------------
(* A reader is complete: t goes on top of its source and decoder.          *)
LEMMA FitsReader ==
  ASSUME NEW e, NEW f, NEW d, NEW s \in Seq(Layers), NEW m, NEW x, NEW t \in Seq(Layers),
         Fits(e, "thread", "reader", f, d, s, m, x),
         Len(t) > 0, t[Len(t)] = "peek", \A c \in Codecs : ~HasLayer(t, c),
         ThreadsFit(e, HasLayer(t, "thread"))
  PROVE  /\ Fits(e, "ready", "reader", f, d, s \o t, m, x) /\ s \o t \in Seq(Layers)
         /\ IsUser("ready", s \o t) <=> IsUser("thread", s)
<1> DEFINE u == s \o t
<1>1. /\ u \in Seq(Layers) /\ Len(u) = Len(s) + Len(t) /\ \A i \in 1..Len(s) : u[i] = s[i]
      /\ \A i \in 1..Len(t) : u[Len(s) + i] = t[i]
      /\ \A layer : HasLayer(u, layer) <=> HasLayer(s, layer) \/ HasLayer(t, layer)
  BY PushFacts
<1> HIDE DEF u
<1>2. /\ SourceStack(s) \/ DecoderStack(s)
      /\ DetectRefused(e) => SourceStack(s)
      /\ Recognised(d, f, s, m, x) /\ (DetectRefused(e) => d = FALSE)
  BY DEF Fits
<1>3. Len(s) \in {2, 3} /\ s[1] \in {"file", "http"} /\ s # <<>> /\ Len(t) \in Nat
  BY <1>2 DEF SourceStack, DecoderStack
<1>4. u # <<>> /\ u[1] = s[1] /\ u[Len(u)] = "peek" /\ (Len(s) >= 3 => Len(u) >= 3 /\ u[3] = s[3])
  <2>1. Len(t) \in 1..Len(t) /\ Len(u) > 0 /\ 1 \in 1..Len(s) /\ (Len(s) >= 3 => 3 \in 1..Len(s))
    BY <1>1, <1>3
  <2>2. u[Len(u)] = "peek"
    BY <1>1, <2>1
  <2>3. u # <<>> /\ (Len(s) >= 3 => Len(u) >= 3)
    BY <1>1, <1>3, <2>1
  <2> QED BY <1>1, <2>1, <2>2, <2>3
<1>5. Recognised(d, f, u, m, x)
  BY <1>2, <1>4, Zenon DEF Recognised
<1>6. Honoured(e, "reader", u)
  <2>1. ~HasLayer(s, "thread")
    BY <1>2, SourceLayers
  <2>2. DetectRefused(e) => \A c \in Codecs : ~HasLayer(s, c)
    BY <1>2, SourceLayers
  <2> QED BY <1>1, <2>1, <2>2, Zenon DEF Honoured, ThreadsFit
<1>7. Fits(e, "ready", "reader", f, d, u, m, x)
  BY <1>2, <1>3, <1>4, <1>5, <1>6 DEF Fits
<1>8. IsUser("ready", u) <=> IsUser("thread", s)
  BY <1>3, <1>4 DEF IsUser
<1> QED BY <1>1, <1>7, <1>8 DEF u

(* A writer is complete: t goes on top of the file.                        *)
LEMMA FitsWriter ==
  ASSUME NEW e, NEW f, NEW d, NEW m, NEW x, NEW t \in Seq(Layers),
         ThreadsFit(e, HasLayer(t, "thread"))
  PROVE  /\ Fits(e, "ready", "writer", f, d, <<"stdio">> \o t, m, x)
         /\ <<"stdio">> \o t \in Seq(Layers)
         /\ ~IsUser("ready", <<"stdio">> \o t) /\ ~IsUser("encoder", <<"stdio">>)
<1> DEFINE s == <<"stdio">>
           u == s \o t
<1>1. /\ s \in Seq(Layers) /\ Len(s) = 1 /\ s[1] = "stdio" /\ s # <<>>
      /\ ~HasLayer(s, "thread")
  <2>1. "stdio" \in Layers /\ "thread" # "stdio"
    BY DEF Layers
  <2> QED BY <2>1, OneLayer
<1> HIDE DEF s
<1>2. /\ u \in Seq(Layers) /\ Len(u) = Len(s) + Len(t) /\ \A i \in 1..Len(s) : u[i] = s[i]
      /\ \A layer : HasLayer(u, layer) <=> HasLayer(s, layer) \/ HasLayer(t, layer)
  BY <1>1, PushFacts
<1> HIDE DEF u
<1>3. u # <<>> /\ u[1] = "stdio"
  BY <1>1, <1>2
<1>4. Honoured(e, "writer", u)
  <2>1. "writer" # "reader"
    OBVIOUS
  <2> QED BY <1>1, <1>2, <2>1, Zenon DEF Honoured, ThreadsFit
<1>5. Fits(e, "ready", "writer", f, d, u, m, x)
  BY <1>3, <1>4 DEF Fits
<1>6. ~IsUser("ready", u) /\ ~IsUser("encoder", s)
  BY <1>1, <1>3 DEF IsUser
<1> QED BY <1>2, <1>5, <1>6 DEF u, s

(* While a handle is being created or open the options are in force.       *)
LEMMA ThreadOption ==
  ASSUME IInv, NEW h \in Handles, pc[h] \notin {"none", "parse"}
  PROVE  ThreadsFit(env, use_threads # 0)
<1>1. Types /\ ParsedInv /\ parsed[h] = Len(env)
  BY Zenon DEF IInv, ParsedInv
<1>2. Values(env, "use_threads") # {} => use_threads \in Values(env, "use_threads")
  BY <1>1, InForceNow, Zenon DEF use_threads
<1> QED BY <1>2 DEF ThreadsFit, ThreadsAsked, ThreadsRefused

(* thread_open and the peek on top.                                        *)
LEMMA OpenThreadInv ==
  ASSUME IInv, NEW h \in Handles, OpenThread(h)
  PROVE  IInv'
<1>1. /\ kind[h] = "reader" /\ pc[h] = "thread" /\ pc[h] \notin {"none", "parse"}
      /\ UNCHANGED <<fixed, options, kind, file, detect, history>> /\ UNCHANGED libcurl
  BY Zenon DEF OpenThread, At
<1>2. /\ stack[h] \in Seq(Layers) /\ stack = [stack EXCEPT ![h] = stack[h]]
      /\ Fits(env, pc[h], kind[h], file[h], detect[h], stack[h], peeked[h], failed[h])
  BY HandleFacts, Zenon
<1>3. Fits(env, "thread", "reader", file[h], detect[h], stack[h], peeked[h], failed[h])
  BY <1>1, <1>2, Zenon
<1>4. slices = [slices EXCEPT ![h] = 0] /\ 0 \in Nat
  <2>1. slices[h] = 0 /\ slices = [slices EXCEPT ![h] = slices[h]]
    BY <1>1, HandleFacts
  <2> QED BY <2>1
<1>5. ThreadsFit(env, use_threads # 0)
  BY <1>1, ThreadOption, Zenon
<1>6. {"ready", "null"} \subseteq Steps
  BY DEF Steps
<1>7. CASE /\ use_threads # 0
           /\ Push(h, <<"thread", "peek">>) /\ Goto(h, "ready")
           /\ slices' = [slices EXCEPT ![h] = max_buffers]
  <2>1. PICK t : t = <<"thread", "peek">>
    OBVIOUS
  <2>2. /\ t \in Seq(Layers) /\ Len(t) > 0 /\ t[Len(t)] = "peek" /\ HasLayer(t, "thread")
        /\ \A c \in Codecs : ~HasLayer(t, c)
    <3>1. "thread" \in Layers /\ "peek" \in Layers
      BY DEF Layers
    <3>2. t \in Seq(Layers) /\ Len(t) = 2 /\ t[2] = "peek"
          /\ \A layer : HasLayer(t, layer) <=> layer \in {"thread", "peek"}
      BY <2>1, <3>1, TwoLayers
    <3> QED BY <3>2, LayerNames
  <2>3. ThreadsFit(env, HasLayer(t, "thread"))
    BY <1>5, <1>7, <2>2, Zenon
  <2>4. /\ Fits(env, "ready", "reader", file[h], detect[h], stack[h] \o t, peeked[h], failed[h])
        /\ stack[h] \o t \in Seq(Layers)
        /\ IsUser("ready", stack[h] \o t) <=> IsUser("thread", stack[h])
    BY <1>2, <1>3, <2>2, <2>3, FitsReader, Zenon
  <2>5. PICK s \in Seq(Layers) : s = stack[h] \o t
    BY <2>4
  <2>6. stack' = [stack EXCEPT ![h] = s]
    BY <1>7, <2>1, <2>5 DEF Push
  <2>7. pc' = [pc EXCEPT ![h] = "ready"] /\ "ready" \in Steps
    BY <1>6, <1>7 DEF Goto
  <2>8. CurlMoves(pc[h], stack[h], "ready", s)
    BY <1>1, <2>4, <2>5, Zenon DEF CurlMoves
  <2>9. PICK n \in Nat : n = max_buffers
    BY DEF IInv, Types, max_buffers, Globals
  <2>10. slices' = [slices EXCEPT ![h] = n]
    BY <1>7, <2>9
  <2>11. Fits(env, "ready", kind[h], file[h], detect[h], s, peeked[h], failed[h])
    BY <1>1, <2>4, <2>5, Zenon
  <2> QED BY <1>1, <2>6, <2>7, <2>8, <2>9, <2>10, <2>11, LayerStep, Zenon
<1>8. CASE Goto(h, "null") /\ UNCHANGED <<stack, slices>>
  <2>1. Fits(env, "null", kind[h], file[h], detect[h], stack[h], peeked[h], failed[h])
    BY <1>1, <1>2, FitsNull
  <2>2. stack' = [stack EXCEPT ![h] = stack[h]] /\ slices' = [slices EXCEPT ![h] = 0]
    BY <1>2, <1>4, <1>8, Zenon
  <2>3. CurlMoves(pc[h], stack[h], "null", stack[h])
    <3>1. IsUser("null", stack[h]) <=> IsUser(pc[h], stack[h])
      BY <1>1 DEF IsUser
    <3> QED BY <1>1, <3>1, Zenon DEF CurlMoves
  <2>4. pc' = [pc EXCEPT ![h] = "null"] /\ "null" \in Steps
    BY <1>6, <1>8 DEF Goto
  <2> QED BY <1>1, <1>2, <1>4, <2>1, <2>2, <2>3, <2>4, LayerStep, Zenon
<1>9. CASE use_threads = 0 /\ Push(h, <<"peek">>) /\ Goto(h, "ready") /\ UNCHANGED slices
  <2>1. PICK t : t = <<"peek">>
    OBVIOUS
  <2>2. /\ t \in Seq(Layers) /\ Len(t) > 0 /\ t[Len(t)] = "peek" /\ ~HasLayer(t, "thread")
        /\ \A c \in Codecs : ~HasLayer(t, c)
    <3>1. "peek" \in Layers
      BY DEF Layers
    <3>2. t \in Seq(Layers) /\ Len(t) = 1 /\ t[1] = "peek"
          /\ \A layer : HasLayer(t, layer) <=> layer = "peek"
      BY <2>1, <3>1, OneLayer
    <3> QED BY <3>2, LayerNames
  <2>3. ThreadsFit(env, HasLayer(t, "thread"))
    BY <1>5, <1>9, <2>2, Zenon DEF ThreadsFit
  <2>4. /\ Fits(env, "ready", "reader", file[h], detect[h], stack[h] \o t, peeked[h], failed[h])
        /\ stack[h] \o t \in Seq(Layers)
        /\ IsUser("ready", stack[h] \o t) <=> IsUser("thread", stack[h])
    BY <1>2, <1>3, <2>2, <2>3, FitsReader, Zenon
  <2>5. PICK s \in Seq(Layers) : s = stack[h] \o t
    BY <2>4
  <2>6. stack' = [stack EXCEPT ![h] = s] /\ slices' = [slices EXCEPT ![h] = 0]
    BY <1>4, <1>9, <2>1, <2>5 DEF Push
  <2>7. pc' = [pc EXCEPT ![h] = "ready"] /\ "ready" \in Steps
    BY <1>6, <1>9 DEF Goto
  <2>8. CurlMoves(pc[h], stack[h], "ready", s)
    BY <1>1, <2>4, <2>5, Zenon DEF CurlMoves
  <2>9. Fits(env, "ready", kind[h], file[h], detect[h], s, peeked[h], failed[h])
    BY <1>1, <2>4, <2>5, Zenon
  <2> QED BY <1>1, <1>4, <2>6, <2>7, <2>8, <2>9, LayerStep, Zenon
<1> QED BY <1>7, <1>8, <1>9, Zenon DEF OpenThread

(* wandio_wcreate opens the encoder and the thread.                        *)
LEMMA OpenEncoderInv ==
  ASSUME IInv, NEW h \in Handles, OpenEncoder(h)
  PROVE  IInv'
<1>1. /\ kind[h] = "writer" /\ pc[h] = "encoder" /\ pc[h] \notin {"none", "parse"}
      /\ UNCHANGED <<fixed, options, kind, file, detect, history>> /\ UNCHANGED libcurl
      /\ slices' = slices
  BY Zenon DEF OpenEncoder, At
<1>2. /\ stack[h] \in Seq(Layers) /\ stack = [stack EXCEPT ![h] = stack[h]]
      /\ Fits(env, pc[h], kind[h], file[h], detect[h], stack[h], peeked[h], failed[h])
  BY HandleFacts, Zenon
<1>3. stack[h] = <<"stdio">>
  BY <1>1, <1>2 DEF Fits
<1>4. slices' = [slices EXCEPT ![h] = 0] /\ 0 \in Nat
  <2>1. slices[h] = 0 /\ slices = [slices EXCEPT ![h] = slices[h]]
    BY <1>1, HandleFacts
  <2> QED BY <1>1, <2>1
<1>5. ThreadsFit(env, use_threads # 0)
  BY <1>1, ThreadOption, Zenon
<1>6. {"ready", "null"} \subseteq Steps
  BY DEF Steps
<1>7. PICK thread : thread = IF use_threads # 0 THEN <<"thread">> ELSE <<>>
  OBVIOUS
<1>8. thread \in Seq(Layers) /\ (HasLayer(thread, "thread") <=> use_threads # 0)
  <2>1. "thread" \in Layers
    BY DEF Layers
  <2>2. CASE use_threads # 0
    BY <1>7, <2>1, <2>2, OneLayer
  <2>3. CASE use_threads = 0
    BY <1>7, <2>3, NoLayer
  <2> QED BY <2>2, <2>3
<1>9. ASSUME NEW t \in Seq(Layers), HasLayer(t, "thread") <=> use_threads # 0,
             Push(h, t), Goto(h, "ready")
      PROVE  IInv'
  <2>1. ThreadsFit(env, HasLayer(t, "thread"))
    BY <1>5, <1>9, Zenon DEF ThreadsFit
  <2>2. PICK s : s = <<"stdio">> \o t
    OBVIOUS
  <2>3. /\ Fits(env, "ready", "writer", file[h], detect[h], s, peeked[h], failed[h])
        /\ s \in Seq(Layers) /\ ~IsUser("ready", s) /\ ~IsUser("encoder", <<"stdio">>)
    BY <1>9, <2>1, <2>2, FitsWriter, Zenon
  <2>4. stack' = [stack EXCEPT ![h] = s] /\ pc' = [pc EXCEPT ![h] = "ready"] /\ "ready" \in Steps
    BY <1>3, <1>6, <1>9, <2>2 DEF Push, Goto
  <2>5. CurlMoves(pc[h], stack[h], "ready", s)
    BY <1>1, <1>3, <2>3, Zenon DEF CurlMoves
  <2>6. Fits(env, "ready", kind[h], file[h], detect[h], s, peeked[h], failed[h])
    BY <1>1, <2>3, Zenon
  <2> QED BY <1>1, <1>4, <2>3, <2>4, <2>5, <2>6, LayerStep, Zenon
<1>10. CASE file[h] \in built /\ Push(h, <<file[h]>> \o thread) /\ Goto(h, "ready")
  <2>1. file[h] \in Codecs
    BY <1>10, PipelineAssumption DEF IInv, Types, Codecs
  <2>2. PICK a \in Layers : a = file[h] /\ a # "thread"
    BY <2>1, LayerNames
  <2>3. <<a>> \in Seq(Layers) /\ ~HasLayer(<<a>>, "thread")
    BY <2>2, OneLayer
  <2>4. PICK t : t = <<a>> \o thread
    OBVIOUS
  <2>5. t \in Seq(Layers) /\ (HasLayer(t, "thread") <=> use_threads # 0)
    BY <1>8, <2>3, <2>4, PushFacts, Zenon
  <2>6. Push(h, t) /\ Goto(h, "ready")
    BY <1>10, <2>2, <2>4, Zenon
  <2> QED BY <1>9, <2>5, <2>6
<1>11. CASE Push(h, thread) /\ Goto(h, "ready")
  BY <1>8, <1>9, <1>11
<1>12. CASE Goto(h, "null") /\ UNCHANGED stack
  <2>1. Fits(env, "null", kind[h], file[h], detect[h], stack[h], peeked[h], failed[h])
    BY <1>1, <1>2, FitsNull
  <2>2. stack' = [stack EXCEPT ![h] = stack[h]]
    BY <1>2, <1>12, Zenon
  <2>3. CurlMoves(pc[h], stack[h], "null", stack[h])
    <3>1. IsUser("null", stack[h]) <=> IsUser(pc[h], stack[h])
      BY <1>1 DEF IsUser
    <3> QED BY <1>1, <3>1, Zenon DEF CurlMoves
  <2>4. pc' = [pc EXCEPT ![h] = "null"] /\ "null" \in Steps
    BY <1>6, <1>12 DEF Goto
  <2> QED BY <1>1, <1>2, <1>4, <2>1, <2>2, <2>3, <2>4, LayerStep, Zenon
<1> QED BY <1>7, <1>10, <1>11, <1>12, Zenon DEF OpenEncoder
-----------------------------------------------------------------------------
(* The kind, the format and the flags of a handle that a step leaves.      *)
LEMMA FlagFacts ==
  ASSUME IInv, NEW h \in Handles
  PROVE  /\ kind = [kind EXCEPT ![h] = kind[h]] /\ file = [file EXCEPT ![h] = file[h]]
         /\ detect = [detect EXCEPT ![h] = detect[h]] /\ detect[h] \in BOOLEAN
         /\ failed = [failed EXCEPT ![h] = failed[h]] /\ failed[h] \in BOOLEAN
         /\ peeked = [peeked EXCEPT ![h] = peeked[h]]
<1>1. /\ kind \in [Handles -> {"reader", "writer"}] /\ file \in [Handles -> Formats]
      /\ peeked \in [Handles -> Nat]
  BY DEF IInv, Types
<1>2. detect \in [Handles -> BOOLEAN] /\ failed \in [Handles -> BOOLEAN]
  BY Zenon DEF IInv, Types
<1>3. detect = [detect EXCEPT ![h] = detect[h]] /\ detect[h] \in BOOLEAN
  BY <1>2, SameAt, Zenon
<1>4. failed = [failed EXCEPT ![h] = failed[h]] /\ failed[h] \in BOOLEAN
  BY <1>2, SameAt, Zenon
<1>5. /\ kind = [kind EXCEPT ![h] = kind[h]] /\ file = [file EXCEPT ![h] = file[h]]
      /\ peeked = [peeked EXCEPT ![h] = peeked[h]]
  BY <1>1
<1> QED BY <1>3, <1>4, <1>5

(* A decoder on top of a source.                                           *)
LEMMA FitsDecoder ==
  ASSUME NEW e, NEW f, NEW d, NEW s \in Seq(Layers), NEW m0, NEW x0, NEW m, NEW x,
         Fits(e, "detect", "reader", f, d, s, m0, x0), d = TRUE,
         NEW c \in Codecs, c = Decoder[f]
  PROVE  /\ Fits(e, "thread", "reader", f, d, s \o <<c>>, m, x) /\ s \o <<c>> \in Seq(Layers)
         /\ IsUser("thread", s \o <<c>>) <=> IsUser("detect", s)
<1> DEFINE t == <<c>>
           u == s \o t
<1>1. t \in Seq(Layers) /\ Len(t) = 1 /\ t[1] = c
  <2>1. c \in Layers
    BY LayerNames
  <2> QED BY <2>1, OneLayer
<1> HIDE DEF t
<1>2. /\ u \in Seq(Layers) /\ Len(u) = Len(s) + Len(t) /\ \A i \in 1..Len(s) : u[i] = s[i]
      /\ \A i \in 1..Len(t) : u[Len(s) + i] = t[i]
  BY <1>1, PushFacts
<1> HIDE DEF u
<1>3. SourceStack(s) /\ (DetectRefused(e) => d = FALSE)
  BY DEF Fits
<1>4. ~DetectRefused(e)
  BY <1>3, Zenon
<1>5. Len(u) = 3 /\ u[1] = s[1] /\ u[2] = s[2] /\ u[3] = c /\ u # <<>> /\ s # <<>>
  <2>1. Len(s) = 2
    BY <1>3 DEF SourceStack
  <2>2. Len(u) = 3 /\ 1 \in 1..Len(s) /\ 2 \in 1..Len(s) /\ 1 \in 1..Len(t) /\ Len(s) + 1 = 3
    BY <1>1, <1>2, <2>1
  <2>3. u[Len(s) + 1] = t[1]
    BY <1>2, <2>2
  <2>4. u # <<>> /\ s # <<>>
    <3>1. 3 # 0 /\ 2 # 0
      OBVIOUS
    <3> QED BY <2>1, <2>2, <3>1, NoLayer, Zenon
  <2> QED BY <1>1, <1>2, <2>2, <2>3, <2>4
<1>6. DecoderStack(u) /\ u[1] \in {"file", "http", "stdio"}
  BY <1>3, <1>5 DEF SourceStack, DecoderStack
<1>7. Recognised(d, f, u, m, x)
  BY <1>5 DEF Recognised
<1>8. Fits(e, "thread", "reader", f, d, u, m, x)
  BY <1>4, <1>6, <1>7 DEF Fits
<1>9. IsUser("thread", u) <=> IsUser("detect", s)
  BY <1>5 DEF IsUser
<1> QED BY <1>2, <1>8, <1>9 DEF u, t

(* A source that is read as it is: not asked to detect, nothing known seen *)
(* in the peek, or a decoder that cannot be set up.                        *)
LEMMA FitsNoDecoder ==
  ASSUME NEW e, NEW f, NEW d, NEW s \in Seq(Layers), NEW m0, NEW x0, NEW m, NEW x,
         Fits(e, "detect", "reader", f, d, s, m0, x0),
         ~(d = TRUE /\ Shows(f, m)) \/ x = TRUE
  PROVE  /\ Fits(e, "thread", "reader", f, d, s, m, x)
         /\ IsUser("thread", s) <=> IsUser("detect", s)
<1>1. /\ SourceStack(s) /\ (DetectRefused(e) => d = FALSE)
      /\ s # <<>> => s[1] \in {"file", "http", "stdio"}
  BY DEF Fits
<1>2. Recognised(d, f, s, m, x)
  BY Zenon DEF Recognised, Shows
<1>3. Fits(e, "thread", "reader", f, d, s, m, x)
  BY <1>1, <1>2 DEF Fits
<1> QED BY <1>3 DEF IsUser

(* A handle that is given up after the peek.                               *)
LEMMA FitsGivenUp ==
  ASSUME NEW e, NEW p0, NEW k, NEW f, NEW d, NEW s, NEW m0, NEW x0, NEW m, NEW x,
         Fits(e, p0, k, f, d, s, m0, x0), p0 \notin {"none", "parse"}
  PROVE  Fits(e, "null", k, f, d, s, m, x)
BY DEF Fits

(* The peek and the comparison with the known formats.                     *)
LEMMA DetectInv ==
  ASSUME IInv, NEW h \in Handles, Detect(h)
  PROVE  IInv'
<1>1. /\ kind[h] = "reader" /\ pc[h] = "detect" /\ pc[h] \notin {"none", "parse"} /\ UNCHANGED fixed
      /\ globals' = globals /\ parsed' = parsed /\ UNCHANGED libcurl
      /\ kind' = kind /\ file' = file /\ detect' = detect /\ slices' = slices
  BY Zenon DEF Detect, At, options
<1>2. PICK n \in PeekLengths :
        /\ peeked' = [peeked EXCEPT ![h] = n]
        /\ \/ /\ ~(detect[h] /\ Shows(file[h], n))
              /\ Goto(h, "thread") /\ UNCHANGED <<stack, failed>>
           \/ /\ detect[h] /\ Support[file[h]] \cap built # {} /\ file[h] # "plain"
              /\ Goto(h, "thread") /\ Push(h, <<Decoder[file[h]]>>) /\ UNCHANGED failed
           \/ Goto(h, "null") /\ UNCHANGED <<stack, failed>>
           \/ /\ Goto(h, "thread") /\ UNCHANGED stack
              /\ failed' = [failed EXCEPT ![h] = TRUE]
  BY Zenon DEF Detect, Shows
<1>3. n \in Nat
  BY DEF PeekLengths
<1>4. /\ stack[h] \in Seq(Layers) /\ stack = [stack EXCEPT ![h] = stack[h]]
      /\ Fits(env, "detect", "reader", file[h], detect[h], stack[h], peeked[h], failed[h])
  BY <1>1, HandleFacts, Zenon
<1>5. PICK f \in Formats : f = file[h] /\ file' = [file EXCEPT ![h] = f]
  <2>1. file[h] \in Formats
    BY HandleFacts, Zenon
  <2> QED BY <1>1, <2>1, FlagFacts, Zenon
<1>6. PICK d \in BOOLEAN : d = detect[h] /\ detect' = [detect EXCEPT ![h] = d]
  BY <1>1, FlagFacts, Zenon
<1>7. slices' = [slices EXCEPT ![h] = 0] /\ 0 \in Nat
  <2>1. slices[h] = 0 /\ slices = [slices EXCEPT ![h] = slices[h]]
    BY <1>1, HandleFacts
  <2> QED BY <1>1, <2>1
<1>8. kind' = [kind EXCEPT ![h] = "reader"]
  BY <1>1, FlagFacts, Zenon
<1>9. {"thread", "null"} \subseteq Steps
  BY DEF Steps
<1>10. PICK x0 \in BOOLEAN : x0 = failed[h]
  BY FlagFacts, Zenon
<1>11. PICK s0 \in Seq(Layers) : s0 = stack[h] /\ stack = [stack EXCEPT ![h] = s0]
  BY <1>4, Zenon
<1>12. Fits(env, "detect", "reader", f, d, s0, peeked[h], x0)
  BY <1>4, <1>5, <1>6, <1>10, <1>11, Zenon
<1>13. ASSUME NEW p \in {"thread", "null"}, NEW s \in Seq(Layers), NEW x \in BOOLEAN,
              Fits(env, p, "reader", f, d, s, n, x), IsUser(p, s) <=> IsUser("detect", s0),
              Goto(h, p), stack' = [stack EXCEPT ![h] = s], failed' = [failed EXCEPT ![h] = x]
       PROVE  IInv'
  <2>1. CurlMoves(pc[h], stack[h], p, s)
    BY <1>1, <1>11, <1>13, Zenon DEF CurlMoves
  <2>2. Assigned(h, p, "reader", f, d, s, 0, n, x)
    BY <1>2, <1>5, <1>6, <1>7, <1>8, <1>13, Zenon DEF Assigned, Goto
  <2>3. p \in Steps /\ "reader" \in {"reader", "writer"}
    BY <1>9, <1>13
  <2>4. PICK k \in {"reader", "writer"} : k = "reader"
    BY <2>3
  <2>5. PICK z \in Nat : z = 0
    BY <1>7
  <2>6. Assigned(h, p, k, f, d, s, z, n, x) /\ Fits(env, p, k, f, d, s, n, x)
    BY <1>13, <2>2, <2>4, <2>5, Zenon
  <2>7. z # 0 => p = "ready" /\ (OneLength(env) => z = max_buffers)
    BY <2>5, Zenon
  <2>8. Parses(h, p)
    BY <1>1, Zenon DEF IInv, ParsedInv, Parses
  <2>9. Moves(h, p, k, f, d, s, z, n, x)
    BY <1>1, <1>3, <1>13, <2>1, <2>3, <2>6, <2>7, <2>8, Zenon DEF Moves
  <2> QED BY <2>9, StepInv, Zenon
<1>14. CASE ~(detect[h] /\ Shows(file[h], n)) /\ Goto(h, "thread") /\ UNCHANGED <<stack, failed>>
  <2>1. ~(d = TRUE /\ Shows(f, n))
    BY <1>5, <1>6, <1>14, Zenon
  <2>2. /\ Fits(env, "thread", "reader", f, d, s0, n, x0)
        /\ IsUser("thread", s0) <=> IsUser("detect", s0)
    BY <1>12, <2>1, FitsNoDecoder, Zenon
  <2>3. failed' = [failed EXCEPT ![h] = x0] /\ stack' = [stack EXCEPT ![h] = s0]
    BY <1>10, <1>11, <1>14, FlagFacts, Zenon
  <2>4. "thread" \in {"thread", "null"}
    OBVIOUS
  <2> QED BY <1>13, <1>14, <2>2, <2>3, <2>4, Zenon
<1>15. CASE /\ detect[h] /\ Support[file[h]] \cap built # {} /\ file[h] # "plain"
            /\ Goto(h, "thread") /\ Push(h, <<Decoder[file[h]]>>) /\ UNCHANGED failed
  <2>1. d = TRUE
    BY <1>6, <1>15, Zenon
  <2>2. f \in DOMAIN Needs
    BY <1>5, <1>12, <1>15, PipelineAssumption DEF Fits
  <2>3. PICK c \in Codecs : c = Decoder[f]
    BY <2>2 DEF Needs, Decoder, Codecs, Libraries
  <2>4. /\ Fits(env, "thread", "reader", f, d, s0 \o <<c>>, n, x0) /\ s0 \o <<c>> \in Seq(Layers)
        /\ IsUser("thread", s0 \o <<c>>) <=> IsUser("detect", s0)
    BY <1>12, <2>1, <2>3, FitsDecoder, Zenon
  <2>5. PICK s \in Seq(Layers) : s = s0 \o <<c>>
    BY <2>4
  <2>6. stack' = [stack EXCEPT ![h] = s]
    <3>1. stack[h] \o <<Decoder[file[h]]>> = s
      BY <1>5, <1>11, <2>3, <2>5, Zenon
    <3> QED BY <1>15, <3>1 DEF Push
  <2>7. failed' = [failed EXCEPT ![h] = x0]
    BY <1>10, <1>15, FlagFacts, Zenon
  <2>8. "thread" \in {"thread", "null"}
    OBVIOUS
  <2> QED BY <1>13, <1>15, <2>4, <2>5, <2>6, <2>7, <2>8, Zenon
<1>16. CASE Goto(h, "null") /\ UNCHANGED <<stack, failed>>
  <2>1. Fits(env, "null", "reader", f, d, s0, n, x0)
    <3>1. "detect" \notin {"none", "parse"}
      OBVIOUS
    <3> QED BY <1>12, <3>1, FitsGivenUp, Zenon
  <2>2. IsUser("null", s0) <=> IsUser("detect", s0)
    BY DEF IsUser
  <2>3. failed' = [failed EXCEPT ![h] = x0] /\ stack' = [stack EXCEPT ![h] = s0]
    BY <1>10, <1>11, <1>16, FlagFacts, Zenon
  <2>4. "null" \in {"thread", "null"}
    OBVIOUS
  <2> QED BY <1>13, <1>16, <2>1, <2>2, <2>3, <2>4, Zenon
<1>17. CASE Goto(h, "thread") /\ UNCHANGED stack /\ failed' = [failed EXCEPT ![h] = TRUE]
  <2>1. TRUE \in BOOLEAN
    OBVIOUS
  <2>2. /\ Fits(env, "thread", "reader", f, d, s0, n, TRUE)
        /\ IsUser("thread", s0) <=> IsUser("detect", s0)
    BY <1>12, FitsNoDecoder, Zenon
  <2>3. stack' = [stack EXCEPT ![h] = s0]
    BY <1>11, <1>17, Zenon
  <2>4. "thread" \in {"thread", "null"}
    OBVIOUS
  <2> QED BY <1>13, <1>17, <2>1, <2>2, <2>3, <2>4, Zenon
<1> QED BY <1>2, <1>14, <1>15, <1>16, <1>17, Zenon
-----------------------------------------------------------------------------
(* wandio_create, wandio_create_uncompressed and wandio_wcreate begin.     *)
LEMMA CreateInv ==
  ASSUME IInv, NEW h \in Handles, NEW k \in {"reader", "writer"}, NEW f \in Formats,
         NEW d \in BOOLEAN, k = "reader" => f \in Files, Create(h, k, f, d)
  PROVE  IInv'
<1>1. /\ pc[h] = "none" /\ pc' = [pc EXCEPT ![h] = "parse"] /\ UNCHANGED fixed
      /\ kind' = [kind EXCEPT ![h] = k] /\ file' = [file EXCEPT ![h] = f]
      /\ detect' = [detect EXCEPT ![h] = d]
      /\ UNCHANGED libcurl /\ stack' = stack /\ slices' = slices
      /\ globals' = globals /\ parsed' = parsed /\ peeked' = peeked /\ failed' = failed
  BY Zenon DEF Create, At, Goto, options, history
<1>2. /\ stack = [stack EXCEPT ![h] = stack[h]] /\ peeked[h] \in Nat
      /\ Fits(env, pc[h], kind[h], file[h], detect[h], stack[h], peeked[h], failed[h])
  BY HandleFacts, Zenon
<1>3. stack[h] = <<>>
  BY <1>1, <1>2 DEF Fits
<1>4. PICK z \in Nat : z = 0 /\ slices' = [slices EXCEPT ![h] = z]
  <2>1. slices[h] = 0 /\ slices = [slices EXCEPT ![h] = slices[h]]
    BY <1>1, HandleFacts
  <2> QED BY <1>1, <2>1
<1>5. PICK m \in Nat : m = peeked[h] /\ peeked' = [peeked EXCEPT ![h] = m]
  BY <1>1, <1>2, FlagFacts, Zenon
<1>6. PICK x \in BOOLEAN : x = failed[h] /\ failed' = [failed EXCEPT ![h] = x]
  BY <1>1, FlagFacts, Zenon
<1>7. PICK s \in Seq(Layers) : s = <<>>
  BY NoLayer
<1>8. stack' = [stack EXCEPT ![h] = s]
  BY <1>1, <1>2, <1>3, <1>7, Zenon
<1>9. PICK p \in Steps : p = "parse"
  BY DEF Steps
<1>10. Assigned(h, p, k, f, d, s, z, m, x)
  BY <1>1, <1>4, <1>5, <1>6, <1>8, <1>9, Zenon DEF Assigned
<1>11. Fits(env, p, k, f, d, s, m, x)
  BY <1>7, <1>9 DEF Fits
<1>12. CurlMoves(pc[h], stack[h], p, s)
  <2>1. ~IsUser(pc[h], stack[h]) /\ ~IsUser(p, s)
    BY <1>1, <1>3, <1>7, <1>9 DEF IsUser
  <2> QED BY <1>1, <2>1, Zenon DEF CurlMoves
<1>13. z # 0 => p = "ready" /\ (OneLength(env) => z = max_buffers)
  BY <1>4, Zenon
<1>14. Parses(h, p)
  BY <1>1, <1>9 DEF Parses
<1>15. Moves(h, p, k, f, d, s, z, m, x)
  BY <1>1, <1>10, <1>11, <1>12, <1>13, <1>14, Zenon DEF Moves
<1> QED BY <1>15, StepInv, Zenon

(* ... of a reader.                                                        *)
LEMMA CreateReaderInv ==
  ASSUME IInv, NEW h \in Handles, NEW f \in Files,
         wandio_create(h, f) \/ wandio_create_uncompressed(h, f)
  PROVE  IInv'
<1>1. TRUE \in BOOLEAN /\ FALSE \in BOOLEAN
  OBVIOUS
<1>2. PICK d \in BOOLEAN : Create(h, "reader", f, d)
  BY <1>1, Zenon DEF wandio_create, wandio_create_uncompressed
<1>3. f \in Formats /\ "reader" \in {"reader", "writer"}
  BY DEF Formats
<1> QED BY <1>2, <1>3, CreateInv, Zenon

(* ... of a writer.                                                        *)
LEMMA CreateWriterInv ==
  ASSUME IInv, NEW h \in Handles, NEW c \in Libraries \cup {"none"}, wandio_wcreate(h, c)
  PROVE  IInv'
<1>1. FALSE \in BOOLEAN
  OBVIOUS
<1>2. PICK d \in BOOLEAN : Create(h, "writer", c, d)
  BY <1>1, Zenon DEF wandio_wcreate
<1>3. c \in Formats /\ "writer" \in {"reader", "writer"} /\ "writer" # "reader"
  BY DEF Formats, Codecs
<1> QED BY <1>2, <1>3, CreateInv, Zenon

(* parse_env assigns an option: the variable gets a value that the         *)
(* environment gives it, so what other creations have parsed stays in      *)
(* force; a ring of the one length there is keeps its length.              *)
LEMMA DoOptionInv ==
  ASSUME IInv, NEW h \in Handles, do_option(h)
  PROVE  IInv'
<1>1. Types /\ HandlesInv /\ ParsedInv /\ OptionsInv /\ CurlInv
  BY DEF IInv
<1>2. /\ pc[h] = "parse" /\ parsed[h] < Len(env) /\ UNCHANGED fixed /\ UNCHANGED libcurl
      /\ pc' = pc /\ kind' = kind /\ file' = file /\ detect' = detect /\ stack' = stack
      /\ slices' = slices /\ peeked' = peeked /\ failed' = failed
  BY Zenon DEF do_option, At, history
<1>3. built' = built /\ env' = env
  BY <1>2 DEF fixed
<1>4. parsed' = [parsed EXCEPT ![h] = parsed[h] + 1] /\ parsed \in [Handles -> Nat]
  BY <1>1 DEF do_option, Types
<1>5. PICK k \in 1..Len(env) :
        k = parsed[h] + 1 /\ globals' = [globals EXCEPT ![env[k].var] = env[k].value]
  <2>1. parsed[h] \in Nat /\ Len(env) \in Nat
    BY <1>1, <1>4, EnvFacts
  <2>2. PICK k \in 1..Len(env) : k = parsed[h] + 1
    BY <1>2, <2>1
  <2>3. globals' = [globals EXCEPT ![env[k].var] = env[k].value]
    BY <2>2, Zenon DEF do_option
  <2> QED BY <2>2, <2>3
<1>6. /\ env[k].var \in Globals /\ env[k].value \in Nat
      /\ env[k].value \in Values(env, env[k].var) /\ globals \in [Globals -> Nat]
  BY <1>1, OptionFacts DEF Types
<1>7. globals' \in [Globals -> Nat] /\ parsed' \in [Handles -> Nat]
  BY <1>4, <1>5, <1>6
<1>8. Types'
  BY <1>1, <1>2, <1>3, <1>7, Zenon DEF Types
<1>9. HandlesInv'
  BY <1>1, <1>2, <1>3, Zenon DEF HandlesInv
<1>10. ASSUME NEW v \in Globals
       PROVE  /\ globals'[v] = globals[v] \/ globals'[v] \in Values(env, v)
              /\ v = env[k].var => globals'[v] \in Values(env, v)
  BY <1>5, <1>6
<1>11. ParsedInv'
  <2>1. ASSUME NEW g \in Handles, NEW i \in 1..parsed'[g]
        PROVE  globals'[env[i].var] \in Values(env, env[i].var)
    <3>1. i \in 1..Len(env) /\ (i \in 1..parsed[g] \/ i = k)
      <4>1. parsed[g] \in Nat /\ parsed[g] <= Len(env) /\ Len(env) \in Nat
        BY <1>1, <1>4, EnvFacts DEF ParsedInv
      <4>2. CASE g = h
        BY <1>4, <1>5, <2>1, <4>1, <4>2
      <4>3. CASE g # h
        BY <1>4, <2>1, <4>1, <4>3
      <4> QED BY <4>2, <4>3
    <3>2. env[i].var \in Globals
      BY <1>1, <3>1, OptionFacts
    <3>3. CASE i = k
      BY <1>10, <3>2, <3>3
    <3>4. CASE i \in 1..parsed[g]
      <4>1. globals[env[i].var] \in Values(env, env[i].var)
        BY <1>1, <3>4, Zenon DEF ParsedInv
      <4> QED BY <1>10, <3>2, <4>1
    <3> QED BY <3>1, <3>3, <3>4
  <2>2. ASSUME NEW g \in Handles
        PROVE  parsed'[g] <= Len(env) /\ (pc[g] \notin {"none", "parse"} => parsed'[g] = Len(env))
    <3>1. /\ parsed[g] \in Nat /\ parsed[g] <= Len(env) /\ Len(env) \in Nat
          /\ pc[g] \notin {"none", "parse"} => parsed[g] = Len(env)
      BY <1>1, <1>4, EnvFacts DEF ParsedInv
    <3>2. CASE g = h
      BY <1>2, <1>4, <3>1, <3>2
    <3>3. CASE g # h
      BY <1>4, <3>1, <3>3
    <3> QED BY <3>2, <3>3
  <2> QED BY <1>2, <1>3, <2>1, <2>2, Zenon DEF ParsedInv
<1>12. OptionsInv'
  <2>1. ASSUME NEW g \in Handles, slices[g] # 0, OneLength(env)
        PROVE  slices[g] = max_buffers'
    <3>1. pc[g] = "ready" /\ slices[g] = globals["max_buffers"]
      BY <1>1, <2>1, Zenon DEF OptionsInv, max_buffers
    <3>2. parsed[g] = Len(env)
      <4>1. pc[g] \notin {"none", "parse"}
        BY <3>1
      <4> QED BY <1>1, <4>1, Zenon DEF ParsedInv
    <3>3. PICK b \in Globals : b = "max_buffers"
      BY DEF Globals
    <3>4. CASE globals'[b] = globals[b]
      BY <3>1, <3>3, <3>4 DEF max_buffers
    <3>5. CASE globals'[b] \in Values(env, b)
      <4>1. globals[b] \in Values(env, b)
        BY <1>1, <3>2, <3>5, InForceNow, Zenon
      <4>2. globals'[b] = globals[b]
        BY <2>1, <3>3, <3>5, <4>1, Zenon DEF OneLength
      <4> QED BY <3>4, <4>2
    <3> QED BY <1>10, <3>4, <3>5
  <2> QED BY <1>1, <1>2, <1>3, <2>1, Zenon DEF OptionsInv
<1>13. CurlInv'
  <2>1. CurlUsers' = CurlUsers
    BY <1>2 DEF CurlUsers, At
  <2>2. cg_init_cnt' = cg_init_cnt /\ curlUp' = curlUp /\ unmatched' = unmatched
    BY <1>2, Zenon DEF libcurl
  <2> QED BY <1>1, <2>1, <2>2, Zenon DEF CurlInv, CurlUpWhileUsed
<1> QED BY <1>8, <1>9, <1>11, <1>12, <1>13, Zenon DEF IInv

(* The end of parse_env: detection that is refused is off.                 *)
LEMMA ParsedStepInv ==
  ASSUME IInv, NEW h \in Handles, Parsed(h)
  PROVE  IInv'
<1>1. /\ pc[h] = "parse" /\ pc' = [pc EXCEPT ![h] = "open"] /\ parsed[h] = Len(env)
      /\ UNCHANGED fixed /\ UNCHANGED libcurl /\ globals' = globals /\ parsed' = parsed
      /\ kind' = kind /\ file' = file /\ stack' = stack /\ slices' = slices
      /\ peeked' = peeked /\ failed' = failed
  BY Zenon DEF Parsed, At, Goto, options, history
<1>2. detect' = [detect EXCEPT ![h] = (detect[h] /\ use_autodetect # 0)]
  BY Zenon DEF Parsed
<1>3. /\ stack = [stack EXCEPT ![h] = stack[h]] /\ peeked[h] \in Nat
      /\ kind[h] \in {"reader", "writer"} /\ file[h] \in Formats
      /\ Fits(env, pc[h], kind[h], file[h], detect[h], stack[h], peeked[h], failed[h])
  BY HandleFacts, Zenon
<1>4. stack[h] = <<>> /\ (kind[h] = "reader" => file[h] \in Files)
  BY <1>1, <1>3 DEF Fits
<1>5. DetectRefused(env) => use_autodetect = 0
  <2>1. Types /\ ParsedInv
    BY DEF IInv
  <2>2. Values(env, "use_autodetect") # {} => use_autodetect \in Values(env, "use_autodetect")
    BY <1>1, <2>1, InForceNow, Zenon DEF use_autodetect
  <2> QED BY <2>2 DEF DetectRefused
<1>6. PICK d \in BOOLEAN :
        detect' = [detect EXCEPT ![h] = d] /\ (DetectRefused(env) => d = FALSE)
  <2>1. (detect[h] /\ use_autodetect # 0) \in BOOLEAN
    OBVIOUS
  <2>2. DetectRefused(env) => (detect[h] /\ use_autodetect # 0) = FALSE
    BY <1>5, <2>1, Zenon
  <2> QED BY <1>2, <2>1, <2>2, Zenon
<1>7. PICK z \in Nat : z = 0 /\ slices' = [slices EXCEPT ![h] = z]
  <2>1. slices[h] = 0 /\ slices = [slices EXCEPT ![h] = slices[h]]
    BY <1>1, HandleFacts
  <2> QED BY <1>1, <2>1
<1>8. PICK m \in Nat : m = peeked[h] /\ peeked' = [peeked EXCEPT ![h] = m]
  BY <1>1, <1>3, FlagFacts, Zenon
<1>9. PICK x \in BOOLEAN : x = failed[h] /\ failed' = [failed EXCEPT ![h] = x]
  BY <1>1, FlagFacts, Zenon
<1>10. PICK k \in {"reader", "writer"} : k = kind[h] /\ kind' = [kind EXCEPT ![h] = k]
  BY <1>1, <1>3, FlagFacts, Zenon
<1>11. PICK f \in Formats : f = file[h] /\ file' = [file EXCEPT ![h] = f]
  BY <1>1, <1>3, FlagFacts, Zenon
<1>12. PICK s \in Seq(Layers) : s = <<>>
  BY NoLayer
<1>13. stack' = [stack EXCEPT ![h] = s]
  BY <1>1, <1>3, <1>4, <1>12, Zenon
<1>14. PICK p \in Steps : p = "open"
  BY DEF Steps
<1>15. Assigned(h, p, k, f, d, s, z, m, x)
  BY <1>1, <1>6, <1>7, <1>8, <1>9, <1>10, <1>11, <1>13, <1>14, Zenon DEF Assigned
<1>16. Fits(env, p, k, f, d, s, m, x)
  BY <1>4, <1>6, <1>10, <1>11, <1>12, <1>14 DEF Fits
<1>17. CurlMoves(pc[h], stack[h], p, s)
  <2>1. ~IsUser(pc[h], stack[h]) /\ ~IsUser(p, s)
    BY <1>1, <1>4, <1>12, <1>14 DEF IsUser
  <2> QED BY <1>1, <2>1, Zenon DEF CurlMoves
<1>18. z # 0 => p = "ready" /\ (OneLength(env) => z = max_buffers)
  BY <1>7, Zenon
<1>19. Parses(h, p)
  BY <1>1 DEF Parses
<1>20. Moves(h, p, k, f, d, s, z, m, x)
  BY <1>1, <1>15, <1>16, <1>17, <1>18, <1>19, Zenon DEF Moves
<1> QED BY <1>20, StepInv, Zenon

(* wandio_destroy and wandio_wdestroy.                                     *)
LEMMA DestroyInv ==
  ASSUME IInv, NEW h \in Handles, Destroy(h)
  PROVE  IInv'
<1>1. /\ pc[h] = "ready" /\ pc[h] \notin {"none", "parse"} /\ pc' = [pc EXCEPT ![h] = "none"]
      /\ stack' = [stack EXCEPT ![h] = <<>>] /\ slices' = [slices EXCEPT ![h] = 0]
      /\ peeked' = [peeked EXCEPT ![h] = 0] /\ failed' = [failed EXCEPT ![h] = FALSE]
      /\ UNCHANGED fixed /\ globals' = globals /\ parsed' = [parsed EXCEPT ![h] = 0]
      /\ unmatched' = unmatched /\ kind' = kind /\ file' = file /\ detect' = detect
  BY Zenon DEF Destroy, At, Goto
<1>2. /\ kind[h] \in {"reader", "writer"} /\ file[h] \in Formats
      /\ Fits(env, pc[h], kind[h], file[h], detect[h], stack[h], peeked[h], failed[h])
  BY HandleFacts, Zenon
<1>3. stack[h] # <<>>
  BY <1>1, <1>2 DEF Fits
<1>4. PICK k \in {"reader", "writer"} : k = kind[h] /\ kind' = [kind EXCEPT ![h] = k]
  BY <1>1, <1>2, FlagFacts, Zenon
<1>5. PICK f \in Formats : f = file[h] /\ file' = [file EXCEPT ![h] = f]
  BY <1>1, <1>2, FlagFacts, Zenon
<1>6. PICK d \in BOOLEAN : d = detect[h] /\ detect' = [detect EXCEPT ![h] = d]
  BY <1>1, FlagFacts, Zenon
<1>7. PICK s \in Seq(Layers) : s = <<>>
  BY NoLayer
<1>8. PICK p \in Steps : p = "none"
  BY DEF Steps
<1>9. PICK z \in Nat : z = 0
  OBVIOUS
<1>10. PICK x \in BOOLEAN : x = FALSE
  OBVIOUS
<1>11. Assigned(h, p, k, f, d, s, z, z, x)
  BY <1>1, <1>4, <1>5, <1>6, <1>7, <1>8, <1>9, <1>10, Zenon DEF Assigned
<1>12. Fits(env, p, k, f, d, s, z, x)
  BY <1>7, <1>8 DEF Fits
<1>13. CurlMoves(pc[h], stack[h], p, s)
  <2>1. ~IsUser(p, s) /\ (IsUser(pc[h], stack[h]) <=> stack[h][1] = "http")
    BY <1>1, <1>3, <1>7, <1>8 DEF IsUser
  <2>2. IF stack[h][1] = "http" THEN curl_helper_safe_global_cleanup
                                ELSE UNCHANGED <<cg_init_cnt, curlUp>>
    BY Zenon DEF Destroy
  <2> QED BY <1>1, <2>1, <2>2, Zenon DEF CurlMoves, libcurl
<1>14. z # 0 => p = "ready" /\ (OneLength(env) => z = max_buffers)
  BY <1>9, Zenon
<1>15. Parses(h, p)
  BY <1>1, <1>8, Zenon DEF Parses
<1>16. Moves(h, p, k, f, d, s, z, z, x)
  BY <1>1, <1>11, <1>12, <1>13, <1>14, <1>15, Zenon DEF Moves
<1> QED BY <1>16, StepInv, Zenon

(* A step that changes nothing.                                            *)
LEMMA StutterInv ==
  ASSUME IInv, UNCHANGED vars
  PROVE  IInv'
<1>1. /\ built' = built /\ env' = env /\ globals' = globals /\ parsed' = parsed
      /\ cg_init_cnt' = cg_init_cnt /\ curlUp' = curlUp /\ unmatched' = unmatched
      /\ pc' = pc /\ kind' = kind /\ file' = file /\ detect' = detect /\ stack' = stack
      /\ slices' = slices /\ peeked' = peeked /\ failed' = failed
  BY Zenon DEF vars, fixed, options, libcurl, history
<1>2. Types'
  BY <1>1, Zenon DEF IInv, Types
<1>3. HandlesInv'
  BY <1>1, Zenon DEF IInv, HandlesInv
<1>4. OptionsInv'
  BY <1>1, Zenon DEF IInv, OptionsInv, max_buffers
<1>5. ParsedInv'
  BY <1>1, Zenon DEF IInv, ParsedInv
<1>6. CurlUsers' = CurlUsers
  BY <1>1 DEF CurlUsers, At
<1>7. CurlInv'
  BY <1>1, <1>6, Zenon DEF IInv, CurlInv, CurlUpWhileUsed
<1> QED BY <1>2, <1>3, <1>4, <1>7, <1>5, Zenon DEF IInv

(* Every step preserves the inductive invariant.                           *)
LEMMA NextInv ==
  ASSUME IInv, [Next]_vars
  PROVE  IInv'
<1>1. CASE UNCHANGED vars
  BY <1>1, StutterInv, Zenon
<1>2. ASSUME NEW h \in Handles, \E f \in Files : wandio_create(h, f) \/ wandio_create_uncompressed(h, f)
      PROVE  IInv'
  BY <1>2, CreateReaderInv, Zenon
<1>3. ASSUME NEW h \in Handles, \E c \in Libraries \cup {"none"} : wandio_wcreate(h, c)
      PROVE  IInv'
  BY <1>3, CreateWriterInv, Zenon
<1>4. ASSUME NEW h \in Handles,
             \/ OpenSource(h) \/ Authenticate(h) \/ Connect(h) \/ Restart(h) \/ Detect(h)
             \/ OpenThread(h) \/ OpenFile(h) \/ OpenEncoder(h) \/ Destroy(h)
             \/ do_option(h) \/ Parsed(h)
      PROVE  IInv'
  BY <1>4, OpenSourceInv, AuthenticateInv, ConnectInv, RestartInv, DetectInv, OpenThreadInv,
     OpenFileInv, OpenEncoderInv, DestroyInv, DoOptionInv, ParsedStepInv, Zenon
<1> QED BY <1>1, <1>2, <1>3, <1>4, Zenon DEF Next, Done

(* The inductive invariant holds at first.                                 *)
LEMMA InitInv ==
  ASSUME Init
  PROVE  IInv
<1>1. /\ built \in Builds /\ env \in Envs /\ parsed = [h \in Handles |-> 0]
      /\ globals = [v \in Globals |-> IF v = "max_buffers" THEN DefaultBuffers ELSE 1]
      /\ cg_init_cnt = 0 /\ unmatched = 0
      /\ pc = [h \in Handles |-> "none"] /\ kind = [h \in Handles |-> "reader"]
      /\ file = [h \in Handles |-> "plain"] /\ stack = [h \in Handles |-> <<>>]
      /\ slices = [h \in Handles |-> 0] /\ peeked = [h \in Handles |-> 0]
  BY DEF Init
<1>2. /\ curlUp = FALSE /\ detect = [h \in Handles |-> FALSE]
      /\ failed = [h \in Handles |-> FALSE]
  BY Zenon DEF Init
<1>3. Types
  <2>1. /\ globals \in [Globals -> Nat] /\ parsed \in [Handles -> Nat]
        /\ pc \in [Handles -> Steps] /\ kind \in [Handles -> {"reader", "writer"}]
        /\ file \in [Handles -> Formats] /\ stack \in [Handles -> Seq(Layers)]
        /\ slices \in [Handles -> Nat] /\ peeked \in [Handles -> Nat]
    BY <1>1, PipelineAssumption DEF Steps, Formats
  <2>3. detect \in [Handles -> BOOLEAN] /\ failed \in [Handles -> BOOLEAN]
    BY <1>2
  <2> QED BY <1>1, <2>1, <2>3, Zenon DEF Types
<1>4. \A h \in Handles : pc[h] = "none" /\ stack[h] = <<>> /\ slices[h] = 0
  BY <1>1
<1>5. HandlesInv
  BY <1>4 DEF HandlesInv, Fits
<1>6. OptionsInv
  BY <1>4, Zenon DEF OptionsInv
<1>7. ParsedInv
  <2>1. \A h \in Handles : parsed[h] = 0 /\ pc[h] = "none"
    BY <1>1
  <2> QED BY <1>3, <2>1, EnvFacts DEF ParsedInv
<1>8. CurlInv
  <2>1. CurlUsers = {}
    BY <1>4 DEF CurlUsers, At
  <2>2. cg_init_cnt \in Nat /\ unmatched \in Nat /\ ~(cg_init_cnt > 0) /\ 0 = 0 + 0
    BY <1>1
  <2>3. cg_init_cnt = Cardinality(CurlUsers) + unmatched
    BY <1>1, <2>1, <2>2, FS_EmptySet, Zenon
  <2> QED BY <1>2, <2>1, <2>2, <2>3, Zenon DEF CurlInv, CurlUpWhileUsed
<1> QED BY <1>3, <1>5, <1>6, <1>8, <1>7, Zenon DEF IInv

(* The inductive invariant holds in every reachable state, for any number  *)
(* of handles that any threads create, use and destroy.                    *)
THEOREM Invariance == Spec => []IInv
<1>1. IInv /\ [Next]_vars => IInv'
  BY NextInv
<1> QED BY <1>1, InitInv, PTL DEF Spec

(* thread_open (lib/ior-thread.c:181) and max_buffers (lib/wandio.c:57):   *)
(* the ring of every open handle has the length that the process-wide      *)
(* variable says, while other threads parse the options again, unless the  *)
(* environment gives several lengths.                                      *)
THEOREM RingsMatch == Spec => []RingMatchesMaxBuffers
<1>1. IInv => RingMatchesMaxBuffers
  BY Zenon DEF IInv, OptionsInv, RingMatchesMaxBuffers
<1> QED BY <1>1, Invariance, PTL

(* parse_env (lib/wandio.c:114): what the environment says of threads and  *)
(* of detection holds for every open handle.                               *)
THEOREM OptionsAreHonoured == Spec => []OptionsHonoured
<1>1. IInv => OptionsHonoured
  <2> SUFFICES ASSUME IInv, NEW h \in Handles, At(h, "ready")
               PROVE  /\ ThreadsAsked(env) => Has(h, "thread")
                      /\ ThreadsRefused(env) => ~Has(h, "thread")
                      /\ DetectRefused(env) /\ kind[h] = "reader"
                           => ~\E c \in Codecs : Has(h, c)
    BY Zenon DEF OptionsHonoured
  <2>1. Fits(env, pc[h], kind[h], file[h], detect[h], stack[h], peeked[h], failed[h])
    BY HandleFacts, Zenon
  <2>2. pc[h] = "ready"
    BY Zenon DEF At
  <2>3. Honoured(env, kind[h], stack[h])
    BY <2>1, <2>2, Zenon DEF Fits
  <2> QED BY <2>3, Zenon DEF Honoured, ThreadsFit, Has, HasLayer
<1> QED BY <1>1, Invariance, PTL

(* create_io_reader (lib/wandio.c:146): a compressed file whose header the *)
(* peek covers is decoded; every stack is well-formed.                     *)
THEOREM FormatsRecognised == Spec => []FormatRecognised
<1>1. IInv => FormatRecognised
  <2> SUFFICES ASSUME IInv PROVE FormatRecognised
    OBVIOUS
  <2>1. TypeOK
    <3>1. Types
      BY Zenon DEF IInv
    <3>2. \A h \in Handles : \A i \in DOMAIN stack[h] :
            stack[h][i] \in Codecs \cup {"file", "http", "stdio", "peek", "thread"}
      <4>1. stack \in [Handles -> Seq(Layers)]
        BY <3>1 DEF Types
      <4>2. \A h \in Handles : stack[h] \in Seq(Layers)
        BY <4>1
      <4>3. \A s \in Seq(Layers) : \A i \in DOMAIN s : s[i] \in Layers
        OBVIOUS
      <4> QED BY <4>2, <4>3, Zenon DEF Layers
    <3>3. ASSUME NEW h \in Handles
          PROVE  /\ stack[h] # <<>> => stack[h][1] \in {"file", "http", "stdio"}
                 /\ At(h, "ready") /\ kind[h] = "reader" => stack[h][Len(stack[h])] = "peek"
      <4>1. Fits(env, pc[h], kind[h], file[h], detect[h], stack[h], peeked[h], failed[h])
        BY HandleFacts, Zenon
      <4> QED BY <4>1, Zenon DEF Fits, At
    <3>4. \A h \in Handles : parsed[h] \in 0..Len(env)
      <4>1. parsed \in [Handles -> Nat]
        BY <3>1, Zenon DEF Types
      <4>2. ParsedInv
        BY DEF IInv
      <4> QED BY <3>1, <4>1, <4>2, EnvFacts DEF ParsedInv
    <3> QED BY <3>1, <3>2, <3>3, <3>4, Zenon DEF TypeOK, Types, Steps, Formats
  <2>2. ASSUME NEW h \in Handles, At(h, "ready"), kind[h] = "reader", detect[h],
               file[h] # "plain", peeked[h] >= Needs[file[h]], ~failed[h]
        PROVE  Len(stack[h]) >= 3 /\ stack[h][3] = Decoder[file[h]]
    <3>1. Fits(env, pc[h], kind[h], file[h], detect[h], stack[h], peeked[h], failed[h])
      BY HandleFacts, Zenon
    <3>2. detect[h] \in BOOLEAN /\ failed[h] \in BOOLEAN
      BY FlagFacts, Zenon
    <3>3. detect[h] = TRUE /\ failed[h] = FALSE
      BY <2>2, <3>2, Zenon
    <3>4. Recognised(detect[h], file[h], stack[h], peeked[h], failed[h])
      BY <2>2, <3>1, Zenon DEF Fits, At
    <3> QED BY <2>2, <3>3, <3>4, Zenon DEF Recognised
  <2> QED BY <2>1, <2>2, Zenon DEF FormatRecognised
<1> QED BY <1>1, Invariance, PTL

(* curl_helper_safe_global_init and _cleanup (lib/curl-helper.c:42, :52):  *)
(* libcurl stays initialised while any handle uses it, and the count is    *)
(* never wrong.                                                            *)
THEOREM CurlStaysUp == Spec => []CurlUpWhileUsed
<1>1. IInv => CurlUpWhileUsed
  BY Zenon DEF IInv, CurlInv
<1> QED BY <1>1, Invariance, PTL
=============================================================================
