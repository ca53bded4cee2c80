----------------------------- MODULE Checkpoint -----------------------------
(***************************************************************************)
(* Loading a checkpoint: the canonical names of the tensors of a           *)
(* safetensors directory (src/src/core/weights.cpp) and of a GGUF file     *)
(* (gguf.cpp), the model configuration read from config.json (config.cpp)  *)
(* or from GGUF metadata, and what the engine makes of them on the         *)
(* caller's and on the worker's thread (engine.cpp, model_factory.cpp).    *)
(*                                                                         *)
(* A key is the sequence of the components of a dotted name, a tensor      *)
(* [id, dtype], a JSON object a function from its keys.                    *)
(***************************************************************************)
EXTENDS Gguf, SequencesExt

None == <<>>
Drop(s, n) == SubSeq(s, n + 1, Len(s))

-----------------------------------------------------------------------------
(* sanitize_key: None for a buffer or a tower that is not loaded.          *)
VisionPrefixes == {<<"vision_tower">>, <<"model", "visual">>, <<"visual">>}

SanitizeKey(raw, keepVision) ==
    LET vision == {p \in VisionPrefixes : IsPrefix(p, raw)} IN
    CASE Last(raw) = "inv_freq" -> None
      [] Last(raw) # "inv_freq" /\ vision # {} ->
           IF keepVision THEN <<"visual">> \o Drop(raw, Len(CHOOSE p \in vision : TRUE)) ELSE None
      [] OTHER -> IF IsPrefix(<<"model", "language_model">>, raw) THEN <<"model">> \o Drop(raw, 2)
                  ELSE IF IsPrefix(<<"language_model">>, raw) THEN Tail(raw)
                  ELSE raw

(* absorb: floating tensors become fp16, but for A_log.                    *)
Floating == {"f16", "bf16", "f32"}
Cast(key, tensor) ==
    IF Last(key) # "A_log" /\ tensor.dtype \in Floating THEN [tensor EXCEPT !.dtype = "f16"] ELSE tensor
Absorb(raws, keepVision) ==
    LET kept == {k \in DOMAIN raws : SanitizeKey(k, keepVision) # None}
        RawOf(c) == CHOOSE k \in kept : SanitizeKey(k, keepVision) = c
    IN  [c \in {SanitizeKey(k, keepVision) : k \in kept} |-> Cast(c, raws[RawOf(c)])]

(* normalize_backbone_root_keys.                                           *)
NormalizeBackboneRootKeys(w) ==
    LET embed == <<"embed_tokens", "weight">>
        Canonical(k) == IF k[1] \in {"model", "lm_head"} THEN k ELSE <<"model">> \o k
    IN  IF <<"model">> \o embed \in DOMAIN w \/ embed \notin DOMAIN w THEN w
        ELSE [c \in {Canonical(k) : k \in DOMAIN w} |-> w[CHOOSE k \in DOMAIN w : Canonical(k) = c]]

(* stack_moe_experts.  The stack of tensors is the sequence of their ids.  *)
MlpKey(layer, rest) == <<"model", "layers", layer, "mlp">> \o rest
StackMoeExperts(w, experts, layers) ==
    LET Proj == {"gate_proj", "up_proj", "down_proj"}
        Expert(l, e, p, s) == MlpKey(l, <<"experts", experts[e], p, s>>)
        raw == {q \in layers \X Proj \X {"weight", "scales", "biases"} :
                  /\ Expert(q[1], 1, q[2], "weight") \in DOMAIN w
                  /\ Expert(q[1], 1, q[2], q[3]) \in DOMAIN w}
        gone == {Expert(q[1], e, q[2], q[3]) : e \in DOMAIN experts, q \in raw}
        Stacked(q) == MlpKey(q[1], <<"switch_mlp", q[2], q[3]>>)
        made == {Stacked(q) : q \in raw}
    IN  IF experts = <<>> THEN w
        ELSE [k \in (DOMAIN w \ gone) \cup made |->
                IF k \notin made THEN w[k]
                ELSE LET q == CHOOSE r \in raw : Stacked(r) = k
                         One(e) == w[Expert(q[1], e, q[2], q[3])]
                     IN  [id |-> [e \in DOMAIN experts |-> One(e).id], dtype |-> One(1).dtype]]

(* index_quantized and quant_for.                                          *)
QuantFor(cfg, base) == IF base \in DOMAIN cfg.quant_overrides THEN cfg.quant_overrides[base] ELSE cfg.quant
IndexQuantized(w, cfg) ==
    LET bases == {Front(k) : k \in {j \in DOMAIN w : Last(j) = "scales"}}
    IN  [b \in bases |-> QuantFor(cfg, b)]

(* load_weights.  d is [index, files]: index the set of shards it names (None
   when there is no index), files the tensors of each file that is there.  *)
(* A slip: the index is believed whether or not its shards are there.      *)
FilesToLoadByIndex(d) == IF d.index # {} THEN d.index \cap DOMAIN d.files ELSE {"single"}
FilesToLoad(d) == IF d.index # {} /\ d.index \subseteq DOMAIN d.files THEN d.index ELSE {"single"}
Merged(d, names) ==
    LET keys == UNION {DOMAIN d.files[f] : f \in names}
    IN  [k \in keys |-> d.files[CHOOSE f \in names : k \in DOMAIN d.files[f]][k]]
LoadWeights(d, cfg) ==
    LET w == StackMoeExperts(NormalizeBackboneRootKeys(Absorb(Merged(d, FilesToLoad(d)), cfg.vision)),
                             cfg.experts, cfg.layers)
    IN  [tensors |-> w, quant |-> IndexQuantized(w, cfg)]

(* load_gguf_model, the tensors: names to canonical keys.                  *)
LoadGguf(file) ==
    LET kept == {n \in DOMAIN file : RemapGgufKey(n) # <<>>}
    IN  [c \in {RemapGgufKey(n) : n \in kept} |-> Cast(c, file[CHOOSE n \in kept : RemapGgufKey(n) = c])]
TieWordEmbeddings(w) == <<"lm_head", "weight">> \notin DOMAIN w

-----------------------------------------------------------------------------
(* ModelConfig::from_json.                                                 *)
(* value and value_or; a null, which value_or takes for a missing key, is
   represented by leaving the key out.                                     *)
Value(j, key, default) == IF key \in DOMAIN j THEN j[key] ELSE default
Sub(j, key) == IF key \in DOMAIN j THEN j[key] ELSE <<>>
Required == {"num_hidden_layers", "hidden_size", "num_attention_heads", "num_key_value_heads",
             "vocab_size", "intermediate_size", "rms_norm_eps"}

(* eos_token_id is [number] or [array].                                    *)
ParseEosIds(j) ==
    LET e == Sub(j, "eos_token_id")
    IN  IF "number" \in DOMAIN e THEN <<e.number>> ELSE Value(e, "array", <<>>)

RopeScalingFromJson(o) ==
    [rope_type |-> Value(o, "rope_type", Value(o, "type", "default")), factor |-> Value(o, "factor", 1),
     original |-> Value(o, "original_max_position_embeddings", 0)]
(* The first of the two spellings that is there; no scaling is None.       *)
ParseRopeScaling(j) ==
    LET spelled == SelectSeq(<<"rope_scaling", "rope_parameters">>, LAMBDA k : k \in DOMAIN j)
    IN  IF spelled = <<>> THEN <<>> ELSE <<RopeScalingFromJson(j[spelled[1]])>>
RopeThetaKnown(j) == "rope_theta" \in DOMAIN Sub(j, "rope_parameters") \/ "rope_theta" \in DOMAIN j
ParseRopeTheta(j) == Value(Sub(j, "rope_parameters"), "rope_theta", Value(j, "rope_theta", 0))
(* The later spelling wins where both carry a section.                     *)
ParseMrope(j) ==
    Value(Sub(j, "rope_parameters"), "mrope_section", Value(Sub(j, "rope_scaling"), "mrope_section", <<>>))

Rejection == [ok |-> FALSE]
(* A per-module value that is an object with bits is an override; false, which
   leaves a module dense, is the empty object here.                        *)
ParseQuantization(q) ==
    LET modules == {k \in DOMAIN q \ {"group_size", "bits"} : "bits" \in DOMAIN q[k]}
        group == Value(q, "group_size", 64)
    IN  [quant |-> <<group, Value(q, "bits", 4)>>,
         overrides |-> [k \in modules |-> <<Value(q[k], "group_size", group), q[k].bits>>]]

FromJson(top) ==
    LET j == IF "text_config" \in DOMAIN top THEN top["text_config"] ELSE top
        q == ParseQuantization(Sub(top, "quantization"))
        hidden == j["hidden_size"]  heads == j["num_attention_heads"]
    IN  IF ~(Required \subseteq DOMAIN j) \/ ~RopeThetaKnown(j) THEN Rejection
        ELSE [ok |-> TRUE,
              model_type |-> Value(top, "model_type", Value(j, "model_type", "")),
              n_layers |-> j["num_hidden_layers"], hidden |-> hidden, n_heads |-> heads,
              n_kv_heads |-> j["num_key_value_heads"], vocab |-> j["vocab_size"],
              intermediate_size |-> j["intermediate_size"], rope_theta |-> ParseRopeTheta(j),
              head_dim |-> Value(j, "head_dim", hidden \div heads),
              max_position_embeddings |-> Value(j, "max_position_embeddings", 0),
              bos_token_id |-> Value(j, "bos_token_id", Value(top, "bos_token_id", -1)),
              eos_token_ids |-> ParseEosIds(j), rope_scaling |-> ParseRopeScaling(j),
              rope_freq_factors |-> FALSE,
              full_attention_interval |-> Value(j, "full_attention_interval", 0),
              partial_rotary |-> Value(Sub(j, "rope_parameters"), "partial_rotary_factor", 1) # 1,
              num_experts |-> Value(j, "num_experts", 0),
              num_experts_per_tok |-> Value(j, "num_experts_per_tok", 0),
              moe_intermediate_size |-> Value(j, "moe_intermediate_size", j["intermediate_size"]),
              quantized |-> "quantization" \in DOMAIN top, quant |-> q.quant, quant_overrides |-> q.overrides,
              vision |-> "vision_config" \in DOMAIN top,
              image_token_id |-> Value(top, "image_token_id", -1), mrope_section |-> ParseMrope(j)]

(* config_from_gguf.  Metadata keys are written without the architecture.  *)
GgufArchitectures == {"llama", "qwen2", "qwen3", "qwen3moe"}
ConfigFromGguf(arch, m) ==
    LET heads == m["head_count"]
        moe == Value(m, "expert_feed_forward_length", 0)
        eos == Value(m, "eos_token_id", -1)
    IN  IF arch \notin GgufArchitectures \/ ~({"block_count", "embedding_length", "head_count"} \subseteq DOMAIN m)
        THEN Rejection
        ELSE [ok |-> TRUE, model_type |-> IF arch = "qwen3moe" THEN "qwen3_moe" ELSE arch,
              n_layers |-> m["block_count"], hidden |-> m["embedding_length"], n_heads |-> heads,
              n_kv_heads |-> Value(m, "head_count_kv", heads), vocab |-> Value(m, "vocab_size", m["tokens"]),
              intermediate_size |-> Value(m, "feed_forward_length", moe),
              rope_theta |-> Value(m, "freq_base", 10000),
              head_dim |-> Value(m, "key_length", Value(m, "dimension_count",
                                   m["embedding_length"] \div Max({1, heads}))),
              max_position_embeddings |-> Value(m, "context_length", 0),
              bos_token_id |-> Value(m, "bos_token_id", -1),
              eos_token_ids |-> IF eos >= 0 THEN <<eos>> ELSE <<>>,
              rope_scaling |-> <<>>, rope_freq_factors |-> FALSE, full_attention_interval |-> 0,
              partial_rotary |-> FALSE, num_experts |-> Value(m, "expert_count", 0),
              num_experts_per_tok |-> Value(m, "expert_used_count", 0), moe_intermediate_size |-> moe,
              quantized |-> FALSE, quant |-> <<64, 4>>, quant_overrides |-> <<>>,
              vision |-> FALSE, image_token_id |-> -1, mrope_section |-> <<>>]
(* model_head_from_metadata: the BOS the tokenizer prepends.               *)
GgufBos(m, config) == IF Value(m, "add_bos_token", TRUE) THEN config.bos_token_id ELSE -1

-----------------------------------------------------------------------------
(* validate_rope_scaling, apply_rope_scaling_override.                     *)
RopeScalingValid(cfg) ==
    \/ cfg.rope_scaling = <<>>
    \/ LET rs == cfg.rope_scaling[1] IN
       \/ rs.rope_type \in {"", "default", "llama3"}
       \/ /\ rs.rope_type \in {"yarn", "linear"}
          /\ cfg.full_attention_interval = 0 /\ ~cfg.partial_rotary
          /\ ~cfg.vision /\ cfg.mrope_section = <<>> /\ ~cfg.rope_freq_factors
          /\ rs.factor > 0
          /\ rs.rope_type = "yarn" => rs.original > 0
ApplyRopeScalingOverride(cfg, o) ==
    LET rs == RopeScalingFromJson(o) IN
    [cfg EXCEPT !.rope_scaling =
       <<IF rs.rope_type = "yarn" /\ rs.original <= 0
         THEN [rs EXCEPT !.original = cfg.max_position_embeddings] ELSE rs>>]
Overridden(cfg, o) == IF o = <<>> THEN cfg ELSE ApplyRopeScalingOverride(cfg, o[1])

(* A slip: the override is validated before it is applied.                 *)
LoadHeadEarly(parsed, isGguf, o) ==
    IF ~parsed.ok \/ (isGguf /\ o # <<>>) \/ ~RopeScalingValid(parsed) THEN Rejection ELSE Overridden(parsed, o)

(* load_head, on the caller's thread; o is <<>> or <<override>>.           *)
LoadHead(parsed, isGguf, o) ==
    IF ~parsed.ok \/ (isGguf /\ o # <<>>) THEN Rejection
    ELSE LET cfg == Overridden(parsed, o) IN IF RopeScalingValid(cfg) THEN cfg ELSE Rejection

(* make_factory, on the worker's: it parses again, and a GGUF file may add
   frequency factors to what the header said.                              *)
WorkerConfig(parsed, isGguf, o, baked) ==
    IF isGguf THEN [parsed EXCEPT !.rope_freq_factors = baked] ELSE Overridden(parsed, o)

(* create_model and compute_rope_setup: which class runs the model and which
   frequencies it uses.  Two classes have position code of their own.      *)
CreateModel(cfg, hasQNorm) ==
    IF cfg.full_attention_interval > 0 THEN "Qwen35"
    ELSE IF cfg.num_experts > 0 THEN "Qwen3Moe"
    ELSE IF cfg.vision THEN "Qwen3VL"
    ELSE IF hasQNorm THEN "Qwen3" ELSE "Llama"
ComputeRopeSetup(cfg) ==
    LET type == IF cfg.rope_scaling = <<>> THEN "" ELSE cfg.rope_scaling[1].rope_type
    IN  IF cfg.rope_freq_factors THEN "baked"
        ELSE IF type \in {"linear", "yarn", "llama3"} THEN type ELSE "plain"
RopeOf(cfg, hasQNorm) ==
    IF CreateModel(cfg, hasQNorm) \in {"Qwen35", "Qwen3VL"} THEN "own" ELSE ComputeRopeSetup(cfg)
=============================================================================
