---------------------------- MODULE MCAlgorithms ----------------------------
(***************************************************************************)
(* The pure algorithms, run on every input of small families and compared  *)
(* with reference definitions.  in is the input under test: a step starts  *)
(* one or makes it longer by one element.                                  *)
(***************************************************************************)
EXTENDS Integers, Sequences, FiniteSets, TLC

LOCAL INSTANCE FiniteSetsExt
LOCAL INSTANCE SequencesExt
G == INSTANCE Gguf
J == INSTANCE JsonGrammar
R == INSTANCE Multimodal
C == INSTANCE Inspect
S == INSTANCE Settings

VARIABLE in

Fresh == in = [task |-> "none"]
Flat(s) == FlattenSeq(s)

-----------------------------------------------------------------------------
(* Constrained decoding.  A profile is a grammar, the bytes its texts are
   made of, how long an accepted and a rejected text may get, and what a
   complete text is.                                                       *)
Schema(keys, types) ==
    J!FromSchema([kind |-> "object",
                  props |-> [k \in 1 .. Len(keys) |-> [key |-> keys[k], type |-> types[k]]]])
Profile(g, bytes, long, short) == [g |-> g, bytes |-> bytes, long |-> long, short |-> short]
Profiles ==
    [object  |-> Profile(J!AnyValue, {"{", "}", J!Quote, ":", ",", "0"}, 7, 3),
     array   |-> Profile(J!AnyValue, {"[", "]", ",", "0", J!Space}, 6, 4),
     compact |-> Profile(J!Compact(J!AnyValue), {"[", "]", ",", "0", J!Space}, 6, 4),
     number  |-> Profile(J!AnyValue, {"-", "0", "1", ".", "e", "+", J!Space}, 6, 3),
     string  |-> Profile(J!AnyValue, {J!Quote, J!Escape, "u", "0", "n", "ctl"}, 8, 3),
     literal |-> Profile(J!AnyValue, {"t", "r", "u", "e", "n", "l", "[", "]"}, 6, 3),
     none    |-> Profile(Schema(<<>>, <<>>), {"{", "}", J!Quote, J!Space}, 5, 4),
     nested  |-> Profile(Schema(<<<<"x">>>>, <<"object">>), {"{", "}", J!Quote, ":", "0", "x"}, 12, 2),
     typed   |-> Profile(Schema(<<<<"x">>, <<"x", "t">>>>, <<"integer", "boolean">>),
                         {"{", "}", J!Quote, ":", ",", "x", "0", "1", ".", "t", "r", "u", "e"}, 18, 2)]
Valid(profile, text) ==
    LET g == Profiles[profile].g IN
    IF g.schema THEN J!IsOfSchema(text, g.keys, g.types)
    ELSE J!IsJson(text) /\ (profile = "compact" => J!Space \notin Range(text))

StartText ==
    /\ Fresh
    /\ \E p \in DOMAIN Profiles : in' = [task |-> "json", profile |-> p, text |-> <<>>, g |-> Profiles[p].g]
NextByte ==
    /\ in.task = "json"
    /\ LET p == Profiles[in.profile] IN
       /\ Len(in.text) < (IF in.g = J!Rejected THEN p.short ELSE p.long)
       /\ \E b \in p.bytes : in' = [in EXCEPT !.text = Append(@, b), !.g = J!Feed(@, b)]

(* A vocabulary with a token for every byte, a special token without bytes,
   the EOS, and a token that closes a string and an object at once.        *)
OneByte == <<"{", "}", "[", "]", J!Quote, J!Escape, ":", ",", "-", "0", "1", ".", "e", "+",
             "t", "r", "u", "f", "a", "l", "s", "n", "x", J!Space>>
Vocab == [k \in 1 .. Len(OneByte) |-> <<OneByte[k]>>] \o <<<<>>, <<>>, <<J!Quote, "}">>>>
Eos == Len(OneByte) + 1

(* Constrained decoding is exact: a text the automaton takes for finished is
   a JSON text (an object of the schema, its keys in order) and the reverse;
   a text it has not refused can still be finished; and the mask of the row
   lets the EOS through for finished texts alone.                          *)
GrammarExact ==
    in.task = "json" =>
      LET done == in.g # J!Rejected /\ J!Complete(in.g) IN
      /\ done <=> Valid(in.profile, in.text)
      /\ in.g # J!Rejected =>
           /\ J!Completable(in.g, 24)
           /\ Eos \in J!GrammarMask(in.g, Vocab, {Eos}) <=> done

-----------------------------------------------------------------------------
(* Packed weights.                                                         *)
StartBlock ==
    /\ Fresh
    /\ \/ \E s \in 0 .. 1, e \in 0 .. 31 : in' = [task |-> "half", sign |-> s, exp |-> e]
       \/ \E t \in {"Q4_0", "Q4_1", "Q8_0"}, scale \in -2 .. 3, min \in -3 .. 2 :
            in' = [task |-> "legacy", type |-> t, scale |-> scale, min |-> min]
       \/ \E a, b \in {0, 15, 16, 47, 63}, at \in SUBSET (0 .. 7) :
            in' = [task |-> "scales", sc |-> [j \in 0 .. 7 |-> IF j \in at THEN a ELSE b],
                   mn |-> [j \in 0 .. 7 |-> IF j + 1 \in at THEN b ELSE a]]
       \/ \E t \in {"Q4_K", "Q5_K", "Q6_K"} : in' = [task |-> "kquant", type |-> t]
       \/ \E dim \in {2, 4, 6, 8}, heads \in 1 .. 3 : in' = [task |-> "rows", dim |-> dim, heads |-> heads]

(* The numbers read from a GGUF file are the ones that were written: a half
   becomes the float of its value, each weight of a legacy block or of a
   super-block is made of its own bits and its group's scale, the bit width
   the shapes imply is the one packed, and the rows of Q and K go back where
   they came from.                                                         *)
QuantExact ==
    CASE in.task = "half" ->
           \A m \in 0 .. 1023 :
              LET h == [sign |-> in.sign, exp |-> in.exp, mant |-> m] IN G!SameNumber(h, G!HalfToFloat(h))
      [] in.task = "legacy" ->
           /\ \A i \in 0 .. 31 : in.type = "Q8_0" \/ G!LegacyNibble(i) = G!GgmlNibble(i)
           /\ \A raw \in 0 .. 2^G!LegacyBits(in.type) - 1 :
                G!LegacyValue(in.type, in.scale, in.min, raw) = G!GgmlValue(in.type, in.scale, in.min, raw)
           /\ \A n \in {32, 64, 160} :
                G!DerivedBits(G!PackedCols(in.type, n), G!ScaleCols(n)) = G!LegacyBits(in.type)
      [] in.task = "scales" ->
           \A j \in 0 .. 7 : G!GetScaleMinK4(j, G!PackScaleMinK4(in.sc, in.mn)) = <<in.sc[j], in.mn[j]>>
      [] in.task = "kquant" -> G!KQuantFaithful(in.type)
      [] in.task = "rows" ->
           \A hf \in 0 .. in.dim * in.heads - 1 : G!UnpermuteRow(hf, in.dim) = G!PermutedRow(hf, in.dim)
      [] OTHER -> TRUE

-----------------------------------------------------------------------------
(* The walk over a GGUF header.                                            *)
Scalar(t) == [type |-> t]
Str(n) == [type |-> 8, len |-> n]
Arr(et, elems) == [type |-> 9, et |-> et, elems |-> elems]
Entries ==
    {[key |-> "any", v |-> Scalar(t)] : t \in (0 .. 12) \ {8, 9}}
    \cup {[key |-> k, v |-> v] : k \in {"any", "tokens", "merges", "token_type"},
           v \in {Arr(t, [i \in 1 .. n |-> Scalar(t)]) : t \in (0 .. 12) \ {8, 9}, n \in {0, 2}}
                 \cup {Str(5), Arr(8, <<Str(3), Str(0)>>), Arr(9, <<Arr(8, <<Str(1)>>), Arr(7, <<>>)>>)}}
StartHeader == Fresh /\ in' = [task |-> "header", entries |-> <<>>, tensors |-> <<>>]
NextEntry ==
    /\ in.task = "header" /\ Len(in.entries) < 2 /\ in.tensors = <<>>
    /\ \E e \in Entries : in' = [in EXCEPT !.entries = Append(@, e)]
NextTensor ==
    /\ in.task = "header" /\ Len(in.entries) = 1 /\ Len(in.tensors) < 2
    /\ \E n \in {3, 8}, d \in 1 .. 2 : in' = [in EXCEPT !.tensors = Append(@, [name |-> n, dims |-> d])]
StartOffsets ==
    /\ Fresh
    /\ \E sizes \in [1 .. 3 -> {32, 64, 96}], order \in Permutations(1 .. 3) :
         in' = [task |-> "offsets", sizes |-> sizes, order |-> order]

(* The three readers of a header stay in step: what a value is parsed to and
   what is skipped of it both end where its encoding ends, whatever the key,
   so the tensor directory and the data are found; and the sizes inspection
   derives from offsets in any order are those of the tensors.             *)
HeaderWalkExact ==
    /\ in.task = "offsets" =>
         LET OffsetOf(i) == MapThenSumSet(LAMBDA j : in.sizes[j], {j \in 1 .. 3 : in.order[j] < in.order[i]})
         IN  G!TensorBytes([i \in 1 .. 3 |-> OffsetOf(i)], in.sizes[1] + in.sizes[2] + in.sizes[3]) = in.sizes
    /\ in.task = "header" =>
         LET end == FoldLeft(LAMBDA p, e : p + G!EncodedSize(e.v), 24, in.entries)
             dir == FoldLeft(LAMBDA p, t : p + 24 + t.name + 8 * t.dims, end, in.tensors)
             data == G!DataStart(G!DirectoryEnd(end, in.tensors), 32)
         IN  /\ FoldLeft(LAMBDA p, e : G!ParseValue(e.key, e.v, p), 24, in.entries) = end
             /\ FoldLeft(LAMBDA p, e : G!SkipMetadataValue(e.v, p), 24, in.entries) = end
             /\ data \in dir .. dir + 31 /\ data % 32 = 0

-----------------------------------------------------------------------------
(* Checkpoints.  One model in every layout it may come in; a tensor's id says
   which one it is, and a stack is the sequence of its members.            *)
Projections == {"gate_proj", "up_proj", "down_proj"}
Experts == <<"0", "1">>
Mlp(rest) == <<"model", "layers", "0", "mlp">> \o rest
Dense == {<<"model", "embed_tokens", "weight">>, <<"model", "norm", "weight">>,
          <<"model", "layers", "0", "self_attn", "q_proj", "weight">>,
          <<"model", "layers", "0", "self_attn", "q_proj", "scales">>,
          <<"model", "layers", "0", "mlp", "gate_proj", "scales">>,
          <<"model", "layers", "0", "mlp", "gate_proj", "weight">>}
Hybrid == {<<"model", "layers", "0", "linear_attn", "A_log">>}
Stacks == {Mlp(<<"switch_mlp", q, "weight">>) : q \in Projections}
RawExperts == {Mlp(<<"experts", Experts[e], q, "weight">>) : e \in DOMAIN Experts, q \in Projections}
Members(key) == [e \in DOMAIN Experts |-> <<Mlp(<<"experts", Experts[e], key[6], "weight">>)>>]
Tensor(key, dtype) == [id |-> IF key \in Stacks THEN Members(key) ELSE <<key>>, dtype |-> dtype]

Layouts == [wrap : {"none", "outer", "inner", "root"}, moe : {"none", "raw", "stacked"}, head : BOOLEAN,
            hybrid : BOOLEAN, tower : BOOLEAN, qnorm : BOOLEAN, keep : BOOLEAN, disk : {"single", "shards", "stale"}]
StartCheckpoint ==
    /\ Fresh
    /\ \E l \in Layouts :
         /\ l.wrap = "root" => ~l.tower
         /\ in' = [task |-> "weights", layout |-> l]

QNorm == <<"model", "layers", "0", "self_attn", "q_norm", "weight">>
TextKeys(l, stored) ==
    Dense \cup (IF l.qnorm THEN {QNorm} ELSE {}) \cup (IF l.head THEN {<<"lm_head", "weight">>} ELSE {}) \cup (IF l.hybrid THEN Hybrid ELSE {})
    \cup (IF l.moe = "none" THEN {} ELSE IF stored /\ l.moe = "raw" THEN RawExperts ELSE Stacks)
    \cup (IF stored THEN {<<"model", "layers", "0", "rotary_emb", "inv_freq">>} ELSE {})
VisionKeys(l) == IF l.tower THEN {<<"visual", "patch", "weight">>} ELSE {}
Stored(l, key) ==
    CASE key[1] = "visual" /\ l.wrap = "outer" -> <<"vision_tower">> \o Tail(key)
      [] key[1] = "visual" /\ l.wrap = "inner" -> <<"model">> \o key
      [] key[1] # "visual" /\ l.wrap = "outer" -> <<"language_model">> \o key
      [] key[1] = "model" /\ l.wrap = "inner"  -> <<"model", "language_model">> \o Tail(key)
      [] key[1] = "model" /\ l.wrap = "root"   -> Tail(key)
      [] OTHER -> key
(* Make(k) is what a file holds under the name of tensor k.                *)
Part(l, keys, Make(_)) ==
    [k \in {Stored(l, c) : c \in keys} |-> Make(CHOOSE c \in keys : Stored(l, c) = k)]
Directory(l, Make(_)) ==
    LET all == TextKeys(l, TRUE) \cup VisionKeys(l)
        attn == {k \in all : Len(k) = 6}
        shard == "s1" :> Part(l, attn, Make)
    IN  CASE l.disk = "single" -> [index |-> {}, files |-> "single" :> Part(l, all, Make)]
          [] l.disk = "shards" -> [index |-> {"s1", "s2"}, files |-> shard @@ "s2" :> Part(l, all \ attn, Make)]
          [] l.disk = "stale"  -> [index |-> {"s1", "s2"}, files |-> shard @@ "single" :> Part(l, all, Make)]
Loaded(l) ==
    [k \in TextKeys(l, FALSE) \cup (IF l.keep THEN VisionKeys(l) ELSE {}) |->
       Tensor(k, IF k \in Hybrid THEN "bf16" ELSE "f16")]
Override == <<"model", "layers", "0", "mlp", "gate_proj">>
QuantOf(l, base) == IF l.wrap = "none" /\ base = Override THEN <<64, 8>> ELSE <<64, 4>>

ConfigOf(l) ==
    [vision |-> l.keep, experts |-> IF l.moe = "none" THEN <<>> ELSE Experts, layers |-> {"0"},
     num_experts |-> IF l.moe = "none" THEN 0 ELSE 2, full_attention_interval |-> IF l.hybrid THEN 4 ELSE 0,
     quant |-> <<64, 4>>, quant_overrides |-> IF l.wrap = "none" THEN Override :> <<64, 8>> ELSE <<>>]

(* What the headers say of each tensor: the packed columns of a quantized
   weight are 32-bit words, everything else has two bytes an element.      *)
Packed(key) == Last(key) = "weight" /\ Front(key) \o <<"scales">> \in Dense
Shape(key) == CASE key \in Stacks -> <<2, 4, 64>> [] Last(key) = "scales" -> <<4, 1>>
                [] Len(key) = 3 \/ key \in Hybrid \cup {QNorm} -> <<64>> [] OTHER -> <<4, 64>>
Header(l, key) ==
    IF Packed(key) THEN LET cols == 2 * QuantOf(l, Front(key))[2]
                        IN  [dtype |-> "u32", shape |-> <<4, cols>>, nbytes |-> 16 * cols]
    ELSE [dtype |-> "bf16", shape |-> Shape(key), nbytes |-> 2 * C!Prod(Shape(key))]
SumOver(keys, F(_)) == FoldSet(LAMBDA k, n : n + F(k), 0, keys)
ClassOf == [llama |-> "Llama", qwen3 |-> "Qwen3"] @@ "qwen3-vl" :> "Qwen3VL" @@ "qwen3-moe" :> "Qwen3Moe"
           @@ "qwen3.5-hybrid" :> "Qwen35"

(* The inspector, which reads the headers only, reports the bytes of every
   tensor stored and the parameters of every tensor of the model, in the
   layer they belong to unless the model prefix is missing, and the class
   that the engine would run.                                              *)
SchemaTrue(l, w) ==
    LET s == C!BuildSchemaFromSafetensors(Directory(l, LAMBDA k : Header(l, k)), ConfigOf(l))
        model == {k \in TextKeys(l, FALSE) \cup VisionKeys(l) : Last(k) # "scales"}
        Params(k) == C!Prod(Shape(k))
    IN  /\ s.total_bytes = SumOver(TextKeys(l, TRUE) \cup VisionKeys(l), LAMBDA k : Header(l, k).nbytes)
        /\ s.total_params = SumOver(model, Params)
        /\ l.wrap # "root" =>
             /\ s.by_layer["0"].params = SumOver({k \in model : Len(k) > 3}, Params)
             /\ l.moe # "none" => s.by_component["moe"].params = SumOver(Stacks, Params)
        /\ s.tied_embeddings <=> ~l.head
        /\ ClassOf[s.family] = C!CreateModel(ConfigOf(l), QNorm \in DOMAIN w)

(* The same model as a GGUF file: what its directory names, and what becomes
   of it once quantized weights have been taken apart.  No text model of the
   engine has biases, so those of a qwen2 file have no place.              *)
GgufNames ==
    [block : {"none"}, module : DOMAIN G!RemapTop \cup {"rope_freqs"}, suffix : {"weight"}]
    \cup [block : {"0"}, module : DOMAIN G!RemapModule, suffix : {"weight", "bias"}]
GgufTensors == GgufNames \cup [block : {"0"}, module : DOMAIN G!RemapModule, suffix : {"scales", "biases"}]
GgufFile(ns) == [n \in ns |-> [id |-> <<n.module, n.suffix>>, dtype |-> "f32"]]

(* What is loaded does not depend on how the checkpoint was stored: behind a
   wrapper, without the model prefix, with its experts apart, in shards or
   beside an index whose shards are not there; each tensor keeps its identity
   and its quantization, and the rest is left out.  The weights of a GGUF
   file are all there under the names of the model, no two of them under one;
   what has no name there is left out, the attention biases of a qwen2 file
   included, which no model of the engine would read.  The inspector reports
   the same model, and counts what it cannot name.                         *)
LayoutIndependent ==
    /\ in.task = "weights" =>
         LET l == in.layout
             w == C!LoadWeights(Directory(l, LAMBDA k : Tensor(k, "bf16")), ConfigOf(l))
         IN  /\ w.tensors = Loaded(l)
             /\ w.quant = [b \in {Front(k) : k \in {j \in Dense : Last(j) = "scales"}} |-> QuantOf(l, b)]
             /\ C!TieWordEmbeddings(w.tensors) <=> ~l.head
             /\ SchemaTrue(l, w.tensors)
    /\ in.task = "none" =>
         LET Kept(ns) == {n \in ns : n.module # "rope_freqs" /\ n.suffix # "bias"}
             w == C!LoadGguf(GgufFile(GgufTensors))
         IN  /\ {w[k].id : k \in DOMAIN w} = {<<n.module, n.suffix>> : n \in Kept(GgufTensors)}
             /\ Dense \subseteq DOMAIN w
             /\ Stacks \subseteq DOMAIN w
             /\ LET names == FoldSet(LAMBDA n, s : Append(s, n), <<>>, GgufNames)
                    dir == [i \in 1 .. Len(names) |-> [name |-> names[i], shape |-> <<4, 64>>, offset |-> 512 * (i - 1)]]
                    s == C!BuildSchemaFromGguf(dir, 512 * Len(names), ConfigOf(CHOOSE l \in Layouts : l.moe = "none"))
                IN  /\ s.total_bytes = 512 * Len(names) /\ s.total_params = 256 * (Len(names) - 1)
                    /\ s.by_layer["0"].params = 256 * Cardinality({n \in Kept(GgufNames) : n.block = "0"})

-----------------------------------------------------------------------------
(* Model configurations: one model described in several ways, and the RoPE
   scaling its file and the operator ask for.                              *)
Descriptions == [theta : {"top", "nested", "none"}, eos : {"none", "number", "array"},
                 bos : {"none", "text", "outer"}, lengths : BOOLEAN, quant : BOOLEAN,
                 scaling : {"none", "linear", "yarn", "longrope", "llama3"},
                 kind : {"dense", "moe", "hybrid", "vision"},
                 override : {"none", "linear", "yarn", "default", "bad factor"}]
StartConfig == Fresh /\ \E d \in Descriptions : in' = [task |-> "config", d |-> d]

If(cond, object) == IF cond THEN object ELSE <<>>
Scaling(type) ==
    CASE type = "linear" -> [type |-> "linear", factor |-> 2]
      [] type = "yarn" -> [rope_type |-> "yarn", factor |-> 4]
      [] type = "bad factor" -> [rope_type |-> "linear", factor |-> 0]
      [] OTHER -> [rope_type |-> type, factor |-> 8]
TextConfig(d) ==
    [num_hidden_layers |-> 2, hidden_size |-> 8, num_attention_heads |-> 2, num_key_value_heads |-> 1,
     vocab_size |-> 10, intermediate_size |-> 16, rms_norm_eps |-> 1]
    @@ If(d.theta = "top", [rope_theta |-> 500])
    @@ If(d.theta = "nested" \/ d.kind \in {"hybrid", "vision"},
          [rope_parameters |-> If(d.theta = "nested", [rope_theta |-> 500])
                               @@ If(d.kind = "hybrid", [partial_rotary_factor |-> 0])
                               @@ If(d.kind = "vision", [mrope_section |-> <<1, 1, 2>>])])
    @@ If(d.eos = "number", [eos_token_id |-> [number |-> 7]])
    @@ If(d.eos = "array", [eos_token_id |-> [array |-> <<7, 8>>]])
    @@ If(d.bos = "text", [bos_token_id |-> 5])
    @@ If(d.lengths, [head_dim |-> 6, max_position_embeddings |-> 64])
    @@ If(d.scaling # "none", [rope_scaling |-> Scaling(d.scaling)])
    @@ If(d.kind = "hybrid", [full_attention_interval |-> 4])
    @@ If(d.kind = "moe", [num_experts |-> 4, num_experts_per_tok |-> 2])
TopLevel(d) ==
    [model_type |-> "some"] @@ If(d.bos = "outer", [bos_token_id |-> 5])
    @@ If(d.kind = "vision", [vision_config |-> TRUE, image_token_id |-> 9])
    @@ If(d.quant, [quantization |-> [bits |-> 8, mlp |-> [bits |-> 4], norm |-> <<>>]])
GgufConfig(d) ==
    [block_count |-> 2, embedding_length |-> 8, head_count |-> 2, head_count_kv |-> 1, tokens |-> 10,
     feed_forward_length |-> 16, freq_base |-> 500]
    @@ If(d.eos # "none", [eos_token_id |-> 7]) @@ If(d.bos # "none", [bos_token_id |-> 5])
    @@ If(d.lengths, [key_length |-> 6, context_length |-> 64])
    @@ If(d.kind = "moe", [expert_count |-> 4, expert_used_count |-> 2])
SharedFields == {"n_layers", "hidden", "n_heads", "n_kv_heads", "vocab", "intermediate_size", "rope_theta",
                 "head_dim", "max_position_embeddings", "bos_token_id", "num_experts", "num_experts_per_tok"}

FlatConfig(d) == C!FromJson(TopLevel(d) @@ TextConfig(d))
OverrideOf(d) == If(d.override # "none", <<Scaling(d.override)>>)
AskedFor(d) == IF d.override # "none" THEN d.override ELSE d.scaling
ComputedRope(d) == C!RopeOf(C!WorkerConfig(FlatConfig(d), FALSE, OverrideOf(d), FALSE), TRUE)
Starts(d) == FlatConfig(d).ok /\ C!LoadHead(FlatConfig(d), FALSE, OverrideOf(d)).ok

(* A model is the same model however it is described: nested in a multimodal
   wrapper or flat, in config.json or in GGUF metadata.  A linear or yarn
   scaling, from the file or from the operator, is the one the worker's model
   computes with, or the engine refuses to start; so is a llama3 scaling of a
   model that uses the shared RoPE code.  A hybrid or vision model has RoPE
   code of its own: it refuses linear and yarn, and it is started with llama3
   and computes without it, for validate_rope_scaling returns before it looks
   at the model (config.cpp:250).  Nothing else that could run is refused.  *)
ConfigFaithful ==
    in.task = "config" =>
      LET d == in.d
          flat == FlatConfig(d)
          gguf == C!ConfigFromGguf("llama", GgufConfig(d))
          o == OverrideOf(d)
          asked == AskedFor(d)
          head == C!LoadHead(flat, FALSE, o)
          worker == C!WorkerConfig(flat, FALSE, o, FALSE)
          RunsOwn == ComputedRope(d) = "own"
      IN  /\ flat = C!FromJson(TopLevel(d) @@ [text_config |-> TextConfig(d)])
          /\ flat.ok <=> d.theta # "none"
          /\ flat.ok => \A f \in SharedFields : flat[f] = gguf[f]
          /\ Starts(d) =>
               /\ worker = head
               /\ asked \in {"linear", "yarn"} \/ (asked = "llama3" /\ ~RunsOwn) => ComputedRope(d) = asked
          /\ flat.ok /\ ~head.ok => \/ asked \in {"longrope", "bad factor"}
                                    \/ RunsOwn /\ asked \in {"linear", "yarn"}
                                    \/ asked = "yarn" /\ (d.override = "none" \/ ~d.lengths)
          /\ C!LoadHead(gguf, TRUE, o).ok <=> o = <<>>
          /\ C!RopeOf(C!WorkerConfig(gguf, TRUE, <<>>, TRUE), FALSE) = "baked"

-----------------------------------------------------------------------------
(* Settings: one of them, given in a file, in the environment and by flags. *)
Given == [max_waiting |-> {1, 9}, kv_bits |-> {0, 3, 4}, prefix_cache |-> {0, 1}, kv_block |-> {16, 20},
          kv_pool |-> {0, 5}, kv_spill_bytes |-> {0, 5}, prefill_chunk |-> {-1, 0, 7}, skinny_mm |-> {0, 1}]
Upto(n, values) == UNION {[1 .. k -> values] : k \in 0 .. n}
StartSetting ==
    /\ Fresh
    /\ \E key \in DOMAIN Given, file, env \in BOOLEAN :
         \E vf, ve \in Given[key], flags \in Upto(2, Given[key]) :
            in' = [task |-> "setting", key |-> key, file |-> If(file, <<vf>>), env |-> If(env, <<ve>>),
                   flags |-> flags]
InFile(key, v) == IF key \in S!Switches THEN v # 0 ELSE v
Engines == [kv_block |-> "kv_block_size", kv_pool |-> "kv_pool_bytes"]
FieldOf(key) == IF key \in DOMAIN Engines THEN Engines[key] ELSE key
(* The C ABI keeps zero for the default: a caller says off with a negative. *)
AbiValue(key, v) == IF v = 0 /\ key \in {"kv_pool", "prefill_chunk", "skinny_mm"} THEN -1 ELSE v
Struct(field, v) ==
    LET at == CHOOSE i \in DOMAIN S!OptsOrder : S!OptsOrder[i] = field
    IN  [covers |-> at,
         fields |-> [f \in DOMAIN S!EngineDefaults |->
                       IF f = field THEN v
                       ELSE IF \E i \in 1 .. at : S!OptsOrder[i] = f THEN S!ZeroOf(f)
                       ELSE IF f \in S!Strings THEN "junk" ELSE 77]]

(* However a setting reaches the engine it means the same: by the last flag,
   else the environment, else the file, and as the field of an options struct
   of that length, whatever lies behind its end; what cannot be used is
   refused wherever it stands in the file, and by its final value elsewhere,
   the block size by the engine if it is to have a prefix cache.  An engine
   restarted over the same model with that setting finds the blocks of the
   one before unless it stores them in another format.                     *)
SettingsAgree ==
    in.task = "setting" =>
      LET given == in.file \o in.env \o in.flags
          won == Last(given)
          fromFile == If(in.file # <<>>, in.key :> InFile(in.key, in.file[1]))
          args == <<[flag |-> "config", v |-> fromFile @@ [model |-> "m"]]>>
                  \o [k \in DOMAIN in.flags |-> [flag |-> in.key, v |-> in.flags[k]]]
          server == S!ServerEngine(args, If(in.env # <<>>, in.key :> in.env[1]))
          Unusable(v) == <<in.key, v>> \in {<<"kv_bits", 3>>, <<"prefill_chunk", -1>>}
          Cached(config) == [config EXCEPT !.prefix_cache = TRUE]
          Salt(config) == S!PrefixSalt([name |-> "m", type |-> "some", n_layers |-> 2], Cached(config))
          Format(config) == <<config.kv_bits, config.kv_block_size>>
      IN  IF given = <<>> THEN server.config = S!EngineDefaults
          ELSE /\ server.ok <=> ~Unusable(won) /\ (in.file # <<>> => ~Unusable(in.file[1]))
               /\ server.ok =>
                 /\ server.config = S!EngineCreate2(Struct(FieldOf(in.key), AbiValue(in.key, won)))
                 /\ S!EngineAccepts(Cached(server.config), [head_dim |-> 64, vision |-> FALSE, hybrid |-> FALSE])
                      <=> ~(in.key = "kv_block" /\ won = 20)
                 /\ Salt(server.config) = Salt(S!EngineDefaults)
                      <=> Format(server.config) = Format(S!EngineDefaults)
               /\ in.key = "max_waiting" => S!EngineCreate(won) = S!EngineCreate2(Struct(in.key, won))

-----------------------------------------------------------------------------
(* Sampling: the weights of a small vocabulary and the parameters of a C
   caller, sane or not.                                                    *)
Fractions == {-5, 0, 1, 5, 9, 10, 20, S!NotANumber}
StartDraw ==
    /\ Fresh
    /\ \E w \in [1 .. 3 -> {0, 1, 2, 6}], k \in {-1, 0, 1, 2, 9}, p, m \in Fractions :
         /\ S!Total(w) > 0
         /\ in' = [task |-> "draw", w |-> w,
                   sampling |-> [temperature |-> 10, top_k |-> k, top_p |-> p, min_p |-> m,
                                 repetition_penalty |-> m, logprobs |-> k]]

(* Whatever the caller passes, the filters leave something to draw: a most
   likely token survives, no token survives a likelier one, no token is made
   up, and at least the mass top_p asks for is left where it acts alone.   *)
DrawIsPossible ==
    in.task = "draw" =>
      LET p == S!ToParams(in.sampling)
          out == S!Filtered(in.w, p)
          kept == {i \in 1 .. 3 : out[i] > 0}
      IN  /\ \E i \in kept : in.w[i] = S!Heaviest(in.w)
          /\ \A i \in kept, j \in 1 .. 3 : in.w[j] > in.w[i] => j \in kept
          /\ \A i \in kept : out[i] = in.w[i]
          /\ p.top_k = 0 /\ p.min_p = 0 => 10 * S!Total(out) >= p.top_p * S!Total(in.w)

-----------------------------------------------------------------------------
(* Text to tokens.  Two small vocabularies over the same bytes; the symbol of
   a byte token of SentencePiece is written as a number above the bytes.   *)
TextBytes == {97, 98, 32, 195, 169, 60, 62}
Ids(symbols) == [y \in ToSet(symbols) |-> (CHOOSE k \in DOMAIN symbols : symbols[k] = y) - 1]
Added == <<[lit |-> <<60, 62>>, id |-> 11, special |-> TRUE], [lit |-> <<60, 62, 62>>, id |-> 12, special |-> TRUE]>>
BpeSymbols == <<<<97>>, <<98>>, <<97, 98>>, <<288>>, <<288, 97>>, <<195>>, <<169>>, <<195, 169>>, <<60>>, <<62>>,
                <<97, 97>>>>
BpeMerges == <<<<<<97>>, <<98>>>>, <<<<288>>, <<97>>>>, <<<<195>>, <<169>>>>, <<<<97>>, <<97>>>>>>
Bpe == R!FromBlob([type |-> "BPE", decoder |-> "ByteLevel", byteFallback |-> FALSE, vocab |-> Ids(BpeSymbols),
                   added |-> Added, merges |-> BpeMerges, cap3 |-> TRUE, unk |-> -1, byteTokens |-> <<>>])
BpeGguf == R!FromGguf(BpeSymbols \o <<<<60, 62>>, <<60, 62, 62>>>>, BpeMerges,
                      [k \in 1 .. 13 |-> IF k > 11 THEN 3 ELSE 1], "llama-bpe")
SpmSymbols == <<<<97>>, <<226, 150, 129>>, <<97, 98>>, <<1098>>, <<1195>>, <<1169>>, <<1060>>, <<1062>>, <<1097>>>>
Spm == R!FromBlob([type |-> "BPE", decoder |-> "ByteFallback", byteFallback |-> TRUE, vocab |-> Ids(SpmSymbols),
                   added |-> Added, merges |-> <<<<<<97>>, <<98>>>>>>, cap3 |-> FALSE, unk |-> -1,
                   byteTokens |-> [b \in {98, 195, 169, 60, 62, 97} |-> <<1000 + b>>]])

Classes == {39, 108, 49, 32, 10, 33}
Pairs == {<<<<97>>, <<97>>>>, <<<<97>>, <<98>>>>, <<<<98>>, <<97>>>>, <<<<97, 98>>, <<97>>>>, <<<<97>>, <<97, 98>>>>,
          <<<<97, 97>>, <<98>>>>, <<<<97, 97>>, <<97, 97>>>>, <<<<97, 98>>, <<97, 98>>>>}
Made(m, k) == {m[j][1] \o m[j][2] : j \in 1 .. k - 1}
(* As a trainer writes it: a merge joins symbols that are already there.   *)
IsTable(m) ==
    \A k \in 1 .. 3 : /\ \A y \in Range(m[k]) : (Len(y) = 1 \/ y \in Made(m, k))
                      /\ m[k][1] \o m[k][2] \notin Made(m, k)
Tables == {m \in [1 .. 3 -> Pairs] : IsTable(m)}

StartEncode ==
    /\ Fresh
    /\ \/ in' = [task |-> "piece", s |-> <<>>]
       \/ in' = [task |-> "encode", s |-> <<>>]
       \/ \E m \in Tables : in' = [task |-> "merge", s |-> <<>>, table |-> m]
NextCharacter ==
    \/ in.task = "piece" /\ Len(in.s) < 5 /\ \E c \in Classes : in' = [in EXCEPT !.s = Append(@, c)]
    \/ in.task = "encode" /\ Len(in.s) < 5 /\ \E b \in TextBytes : in' = [in EXCEPT !.s = Append(@, b)]
    \/ in.task = "merge" /\ Len(in.s) < 6 /\ \E c \in {97, 98} : in' = [in EXCEPT !.s = Append(@, c)]

PlainOf(t, s) == LET g == SelectSeq(R!SegmentsFrom(t, s, 1, 1), LAMBDA x : ~x.special)
                 IN  Flat([k \in 1 .. Len(g) |-> SubSeq(s, g[k].from, g[k].to)])

(* Encoding is what the formats define and loses nothing: the hand-written
   matcher finds the pieces of the regular expression it stands for, merging
   pass by pass is merging one pair at a time, the literals are taken leftmost
   and longest, and decoding gives back every byte outside them, broken UTF-8
   included; a vocabulary read from GGUF encodes as the one of the JSON.   *)
EncodeExact ==
    CASE in.task = "piece" ->
           in.s # <<>> => \A max \in {1, 3} : R!MatchPiece(in.s, 1, max) = R!RegexPiece(in.s, max)
      [] in.task = "merge" ->
           LET ranks == R!MergeRanks(in.table)
           IN  R!MergeLoop(ranks, R!Singles(in.s)) = R!MergeOneByOne(ranks, R!Singles(in.s))
      [] in.task = "encode" ->
           /\ R!IsSegmentation(Bpe, in.s, R!SegmentsFrom(Bpe, in.s, 1, 1))
           /\ R!Decode(Bpe, R!Encode(Bpe, in.s)) = PlainOf(Bpe, in.s)
           /\ R!Encode(BpeGguf, in.s) = R!Encode(Bpe, in.s)
           /\ R!IsUtf8(in.s) => R!Decode(Spm, R!Encode(Spm, in.s)) = PlainOf(Spm, in.s)
      [] OTHER -> TRUE

-----------------------------------------------------------------------------
(* Answers: tokens that spell text, tool calls, objects that are none, the
   python tag, white space and the halves of a character.                  *)
AnswerBytes == <<<<1>>, <<2>>, <<3>>, <<R!PyTag>>, <<59>>, <<32>>, <<120>>, <<195>>, <<169>>, <<32, 120>>>>
AnswerTok ==
    R!FromBlob([type |-> "BPE", decoder |-> "ByteLevel", byteFallback |-> FALSE, merges |-> <<>>, unk |-> -1,
                vocab |-> Ids([k \in DOMAIN AnswerBytes |->
                                [j \in DOMAIN AnswerBytes[k] |-> R!ToUni[AnswerBytes[k][j]]]]),
                added |-> <<[lit |-> <<60, 62>>, id |-> 10, special |-> TRUE]>>, cap3 |-> TRUE, byteTokens |-> <<>>])
StartAnswer ==
    /\ Fresh
    /\ \E reason \in {"stop", "length"}, tools, lps \in BOOLEAN :
         in' = [task |-> "answer", tok |-> AnswerTok, ids |-> <<>>, reason |-> reason, tools |-> tools, lps |-> lps]
NextToken ==
    /\ in.task = "answer" /\ Len(in.ids) < 4
    /\ \E id \in 0 .. 10 : in' = [in EXCEPT !.ids = Append(@, id)]

BlocksOf(ev) ==
    LET starts == SelectSeq(ev, LAMBDA e : e.e = "start")
        Deltas(k) == SelectSeq(ev, LAMBDA e : e.e = "delta" /\ e.index = starts[k].index)
    IN  [k \in 1 .. Len(starts) |->
           [t |-> starts[k].v, v |-> Flat([j \in 1 .. Len(Deltas(k)) |-> Deltas(k)[j].v])]]
(* Blocks follow one another, numbered from 0, each opened and closed.     *)
WellFormed(ev) ==
    LET Before(i, e) == {j \in 1 .. i - 1 : ev[j].e = e}
    IN  /\ ev[1].e = "message_start" /\ Last(ev).e = "message_stop" /\ ev[Len(ev) - 1].e = "message_delta"
        /\ \A i \in 2 .. Len(ev) - 2 :
             LET open == Cardinality(Before(i, "start"))  closed == Cardinality(Before(i, "stop"))
             IN  IF ev[i].e = "start" THEN ev[i].index = open /\ open = closed
                 ELSE ev[i].e \in {"delta", "stop"} /\ ev[i].index = open - 1 /\ open = closed + 1
        /\ ev[Len(ev) - 2].e = "stop"

(* The stream c, or the events ev, of a stream against the blocking answers b
   and m of the two dialects.                                              *)
TextOf(deltas) == Flat([k \in DOMAIN deltas |-> deltas[k].text])
LpsOf(deltas) == Flat([k \in DOMAIN deltas |-> deltas[k].lps])
SameChat(c, b) ==
    /\ c.calls = b.calls /\ c.finish = b.finish
    /\ TextOf(c.deltas) = b.content
    /\ IsPrefix(LpsOf(c.deltas), b.lps)
    /\ \A k \in DOMAIN c.deltas : R!IsUtf8(c.deltas[k].text)
SameMessage(ev, sent, m) ==
    /\ WellFormed(ev) /\ ev[Len(ev) - 1].v = m.stop
    /\ Len(sent) = Len(m.blocks)
    /\ \A k \in DOMAIN m.blocks :
         /\ sent[k].t = m.blocks[k].t
         /\ sent[k].v = IF m.blocks[k].t = "text" THEN m.blocks[k].v ELSE <<m.blocks[k].v>>
CallBehindTag(p) ==
    LET s == R!Trim(R!Decode(p.tok, p.ids)) IN s # <<>> /\ s[1] = R!PyTag /\ R!CallsIn(p, s) # <<>>

(* A streamed answer is the blocking answer in pieces, in both dialects: the
   same text, tool calls and finish reason, with no text beside the calls;
   the log-probs that are sent are the first ones, in order; every piece is
   made of whole characters; and the Anthropic events open, fill and close
   the very blocks of the blocking message.  Where the blocking answer is
   refused, because dump() throws on half a character in the text or in a
   log-prob (http_server.cpp:468), the stream breaks off, and what it had
   sent is the beginning of the text.  The one answer on which the two differ
   is a call behind a python tag: the blocking answer finds it
   (openai.cpp:309-311) and the stream, which holds back nothing but a
   leading brace (http_server.cpp:192), sends tag and call as text.        *)
StreamEqualsBlocking ==
    in.task = "answer" =>
     IF CallBehindTag(in)
     THEN /\ \E b \in {R!RunBlocking(in)} : b.ok => b.calls # <<>>
          /\ \E c \in {R!StreamChat(in)} :
               c.ok => c.calls = <<>> /\ TextOf(c.deltas) = R!Decode(in.tok, in.ids)
     ELSE
      \E content \in {R!Decode(in.tok, in.ids)} :
        /\ \E c \in {R!StreamChat(in)}, b \in {R!RunBlocking(in)} :
             /\ c.ok = b.ok
             /\ IF b.ok THEN SameChat(c, b) ELSE IsPrefix(TextOf(c.deltas), content)
        /\ \E c \in {R!StreamMessages(in)}, m \in {R!RunBlockingMessages(in)} :
             /\ c.ok = m.ok
             /\ IF m.ok THEN SameMessage(c.events, BlocksOf(c.events), m)
                ELSE IsPrefix(Flat([k \in 1 .. Len(c.events) - 2 |-> c.events[k + 2].v]), content)

-----------------------------------------------------------------------------
(* Prompts.  A conversation is the sequence of the kinds of its messages; the
   text, the call and the images of message k are numbered after it.       *)
Kinds == [openai |-> {"system", "user", "image", "system image", "assistant", "call", "tool"},
          anthropic |-> {"user", "image", "assistant", "result", "use"}]
P(type, v) == [type |-> type, v |-> v]
MessageOf(kind, k) ==
    LET Msg(role, parts) == [role |-> role, calls |-> <<>>, content |-> <<parts>>]
    IN  CASE kind = "image"        -> Msg("user", <<P("image", "a"), P("text", k), P("image", "b")>>)
          [] kind = "system image" -> Msg("system", <<P("text", k), P("image", "b")>>)
          [] kind = "call"         -> [role |-> "assistant", calls |-> <<<<k>>>>, content |-> <<>>]
          [] kind = "result"       -> Msg("user", <<P("tool_result", <<10 + k>>), P("text", k)>>)
          [] kind = "use"          -> Msg("assistant", <<P("text", k), P("tool_use", k)>>)
          [] OTHER                 -> Msg(kind, <<P("text", k)>>)
StartPrompt ==
    /\ Fresh
    /\ \E api \in {"openai", "anthropic"}, tools \in Upto(1, {"f"}), choice \in {"absent", "none", "any"},
          model \in {"llama", "qwen3", "qwen3_5", "qwen3_vl"} :
         in' = [task |-> "prompt", api |-> api, kinds |-> <<>>, tools |-> tools, choice |-> choice, model |-> model]
NextMessage ==
    /\ in.task = "prompt" /\ Len(in.kinds) < 4
    /\ \E k \in Kinds[in.api] : in' = [in EXCEPT !.kinds = Append(@, k)]
StartImage ==
    /\ Fresh
    /\ \E h, w \in (1 .. 9) \cup {17, 33, 64} : in' = [task |-> "image", h |-> h, w |-> w]

BodyOf(i) ==
    [api |-> i.api, messages |-> [k \in 1 .. Len(i.kinds) |-> MessageOf(i.kinds[k], k)],
     system |-> <<99>>, tools |-> i.tools, toolChoice |-> i.choice, fields |-> [max_tokens |-> 5], logprobs |-> FALSE]
Picked(prompt, t) == LET s == SelectSeq(prompt, LAMBDA x : x.t = t) IN [k \in 1 .. Len(s) |-> s[k].v]
TextsOf(kinds, skip) ==
    Flat([k \in 1 .. Len(kinds) |-> IF kinds[k] \in skip THEN <<>>
                                    ELSE IF kinds[k] = "result" THEN <<10 + k, k>> ELSE <<k>>])
ImagesOf(kinds) ==
    Flat([k \in 1 .. Len(kinds) |-> CASE kinds[k] = "image" -> <<"a", "b">>
                                      [] kinds[k] = "system image" -> <<"b">>
                                      [] OTHER -> <<>>])
LeadingSystem(kinds) == kinds # <<>> /\ kinds[1] \in {"system", "system image"}
(* No turn opens inside another, each is closed by its own role, and the last
   one is left open for the answer.                                        *)
Balanced(prompt) ==
    LET turns == SelectSeq(prompt, LAMBDA x : x.t \in {"open", "close"})
    IN  /\ Len(turns) % 2 = 1 /\ Last(turns) = [t |-> "open", v |-> "assistant"]
        /\ \A k \in 1 .. Len(turns) - 1 :
             /\ turns[k].t = (IF k % 2 = 1 THEN "open" ELSE "close")
             /\ k % 2 = 0 => turns[k].v = turns[k - 1].v
GridOf == [a |-> <<1, 2, 2>>, b |-> <<1, 4, 6>>]
TokensOf == [i \in DOMAIN GridOf |-> R!MergedPatches(GridOf[i], 2)]

(* The prefill of a prompt with these images: the k-th bracketed run of
   placeholders holds image k, its patches in reading order; a patch has the
   position of its row and column, counted from where the image begins, and a
   text token one beyond everything before it, the first generated token
   included.                                                               *)
PlacedRight(prompt, images) ==
    LET grids == [k \in DOMAIN images |-> GridOf[images[k]]]
        prefill == R!PreparePrefill(prompt, grids, 2)
        rows == R!RunPrefill(prompt, prefill)
        starts == SelectSeq([p \in 1 .. Len(prompt) |-> p], LAMBDA p : prompt[p] = [t |-> "vision", v |-> "start"])
        Reached(p) == 1 + Max({-1} \cup {rows[q].pos[x] : q \in 1 .. p - 1, x \in 1 .. 3})
        Cell(k, n) == LET at == R!PatchAt(4 * n, grids[k][3], 2) IN <<at[1] \div 2, at[2] \div 2>>
    IN  /\ prefill.ok /\ Len(prefill.positions) = Len(prompt)
        /\ Len(starts) = Len(images)
        /\ \A k \in DOMAIN images : \A n \in 0 .. TokensOf[images[k]] - 1 :
             LET p == starts[k] + 1 + n  base == Reached(starts[k] + 1)
             IN  rows[p] = [row |-> <<k, n>>, pos |-> <<base, base + Cell(k, n)[1], base + Cell(k, n)[2]>>]
        /\ \A p \in DOMAIN rows :
             prompt[p].t # "pad" => rows[p] = [row |-> prompt[p], pos |-> <<Reached(p), Reached(p), Reached(p)>>]
        /\ R!DecodeOffset(prefill) = Reached(Len(prompt) + 1)
        /\ R!DecodeOffset(prefill) <= Len(prompt)

(* A conversation reaches the model: every text and every call once, in the
   order of the conversation but for the system text, in turns that open and
   close; every image once, in order, its patches on its own run of
   placeholders with the positions of its rows and columns, never more or
   fewer than the grid it is cut into; the tools once where they are offered.
   That is all but for two losses: a leading system turn loses its images,
   and only it (http_server.cpp:72-77), and a conversation that holds an
   image its tools (http_server.cpp:86).  Each axis turns as many frequencies
   as the model's sections say.                                            *)
Prepared(i) == R!MakeRequest(R!ParseRequest(BodyOf(i)), i.model, i.model = "qwen3_vl", TokensOf)
Offered(i) == i.tools # <<>> /\ i.choice # "none"

-----------------------------------------------------------------------------
Init == in = [task |-> "none"]

Next ==
    \/ StartText \/ NextByte
    \/ StartBlock
    \/ StartHeader \/ NextEntry \/ NextTensor \/ StartOffsets
    \/ StartCheckpoint
    \/ StartConfig
    \/ StartSetting
    \/ StartDraw
    \/ StartEncode \/ NextCharacter
    \/ StartAnswer \/ NextToken
    \/ StartPrompt \/ NextMessage \/ StartImage

Spec == Init /\ [][Next]_in
=============================================================================
