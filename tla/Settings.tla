------------------------------ MODULE Settings ------------------------------
(***************************************************************************)
(* How settings reach the engine: the server's file, environment and flags *)
(* (src/src/server/config.cpp, src/apps/mlxforge.cpp), the options and     *)
(* sampling structs of the C ABI (src/src/capi/mlxforge.cpp), the engine's *)
(* own validation (src/src/runtime/engine.cpp) and the filters the sampler *)
(* builds from the parameters of a request (src/src/sample/sampler.cpp).   *)
(*                                                                         *)
(* A source of settings is a function from the names it sets; fractions    *)
(* are in tenths, and NotANumber stands for NaN and the infinities.        *)
(***************************************************************************)
EXTENDS Integers, Sequences, FiniteSetsExt

LOCAL INSTANCE SequencesExt

Refused == [ok |-> FALSE]
Value(source, key, default) == IF key \in DOMAIN source THEN source[key] ELSE default

(* What a negative count becomes as a size_t; WordSize stands for 2^64.    *)
WordSize == 2^30
AsSize(v) == v % WordSize

-----------------------------------------------------------------------------
(* ServerConfig.                                                           *)
ServerDefaults ==
    [model |-> "", host |-> "0.0.0.0", port |-> 8080, max_ctx |-> 8192, max_waiting |-> 256,
     kv_budget |-> 0, kv_bits |-> 0, prefix_cache |-> FALSE, kv_block |-> 256, kv_pool |-> 2^20,
     kv_spill_dir |-> "", kv_spill_bytes |-> 0, prefill_chunk |-> 256, skinny_mm |-> TRUE,
     rope_scaling |-> ""]
Sizes == {"kv_budget", "kv_pool", "kv_spill_bytes"}
Switches == {"prefix_cache", "skinny_mm"}
InEnvironment == DOMAIN ServerDefaults \ {"model"}

(* from_file: unknown keys and values out of range are errors.             *)
FileAdmits(key, v) ==
    CASE key = "port" -> v \in 1 .. 65535
      [] key \in {"max_ctx", "kv_block"} -> v > 0
      [] key \in {"max_waiting", "prefill_chunk"} \cup Sizes -> v >= 0
      [] key = "kv_bits" -> v \in {0, 4, 8}
      [] OTHER -> TRUE
FromFile(file) ==
    IF \E k \in DOMAIN file : k \notin DOMAIN ServerDefaults THEN Refused
    ELSE IF \E k \in DOMAIN file : ~FileAdmits(k, file[k]) THEN Refused
    ELSE [ok |-> TRUE, config |-> [k \in DOMAIN ServerDefaults |-> Value(file, k, ServerDefaults[k])]]

(* Numbers of the environment and of the flags are converted, not checked. *)
Converted(key, v) ==
    CASE key \in Sizes -> AsSize(v) [] key \in Switches -> v # 0 [] OTHER -> v

LayerEnv(file, env) ==
    [k \in DOMAIN ServerDefaults |->
       IF k \in DOMAIN env \cap InEnvironment THEN Converted(k, env[k]) ELSE Value(file, k, ServerDefaults[k])]

(* parse: args is a sequence of [flag, v]; the first "config" names the file
   (a function), the others are skipped in the second pass.                *)
ParseArgs(args, env) ==
    LET files == SelectSeq(args, LAMBDA a : a.flag = "config")
        file == IF files = <<>> THEN <<>> ELSE files[1].v
        flags == SelectSeq(args, LAMBDA a : a.flag # "config")
        Set(k) == {i \in DOMAIN flags : flags[i].flag = k}
        base == LayerEnv(file, env)
        c == [k \in DOMAIN ServerDefaults |->
                IF Set(k) # {} THEN Converted(k, flags[Max(Set(k))].v) ELSE base[k]]
    IN  IF \/ ~FromFile(file).ok
           \/ \E i \in DOMAIN flags : flags[i].flag \notin DOMAIN ServerDefaults
           \/ c.kv_bits \notin {0, 4, 8} \/ c.prefill_chunk < 0
        THEN Refused ELSE [ok |-> TRUE, config |-> c]

(* main: no model, no server; the rest is handed to the engine.  The KV
   budget stays behind.                                                    *)
EngineDefaults ==
    [max_waiting |-> 256, kv_bits |-> 0, kv_group_size |-> 64, prefix_cache |-> FALSE,
     kv_block_size |-> 256, kv_pool_bytes |-> 2^20, kv_spill_dir |-> "", kv_spill_bytes |-> 0,
     prefill_chunk |-> 256, skinny_mm |-> TRUE, rope_scaling |-> ""]
EngineConfigOf(c) ==
    [max_waiting |-> c.max_waiting, kv_bits |-> c.kv_bits, kv_group_size |-> 64,
     prefix_cache |-> c.prefix_cache, kv_block_size |-> c.kv_block, kv_pool_bytes |-> c.kv_pool,
     kv_spill_dir |-> c.kv_spill_dir, kv_spill_bytes |-> c.kv_spill_bytes,
     prefill_chunk |-> c.prefill_chunk, skinny_mm |-> c.skinny_mm, rope_scaling |-> c.rope_scaling]
ServerEngine(args, env) ==
    LET p == ParseArgs(args, env)
    IN  IF ~p.ok \/ p.config.model = "" THEN Refused ELSE [ok |-> TRUE, config |-> EngineConfigOf(p.config)]

-----------------------------------------------------------------------------
(* mlxforge_engine_create2.  The fields in the order of the struct, and how
   many of them struct_size covers.                                        *)
OptsOrder == <<"max_waiting", "kv_bits", "kv_group_size", "prefix_cache", "kv_block_size",
               "kv_pool_bytes", "kv_spill_dir", "kv_spill_bytes", "prefill_chunk", "skinny_mm",
               "rope_scaling">>
Strings == {"kv_spill_dir", "rope_scaling"}
ZeroOf(f) == IF f \in Strings THEN "" ELSE 0

(* A slip: a size that ends inside a field covers it.                      *)
CoveredPartly(opts, i) == i <= opts.covers + 1
Covered(opts, i) == i <= opts.covers

OptsField(f, v) ==
    CASE f = "kv_bits" -> v
      [] f = "prefix_cache" -> v # 0
      [] f \in Strings -> v
      [] f = "kv_pool_bytes" -> IF v = 0 THEN EngineDefaults[f] ELSE IF v < 0 THEN 0 ELSE v
      [] f = "prefill_chunk" -> IF v = 0 THEN EngineDefaults[f] ELSE IF v < 0 THEN 0 ELSE v
      [] f = "skinny_mm" -> IF v = 0 THEN EngineDefaults[f] ELSE v > 0
      [] OTHER -> IF v > 0 THEN v ELSE EngineDefaults[f]
EngineCreate2(opts) ==
    LET At(f) == CHOOSE i \in DOMAIN OptsOrder : OptsOrder[i] = f
    IN  [f \in DOMAIN EngineDefaults |->
           IF Covered(opts, At(f)) THEN OptsField(f, opts.fields[f]) ELSE EngineDefaults[f]]
EngineCreate(maxWaiting) ==
    [EngineDefaults EXCEPT !.max_waiting = IF maxWaiting > 0 THEN maxWaiting ELSE @]

-----------------------------------------------------------------------------
(* The engine's validation.  mc is [head_dim, vision, hybrid].             *)
KvQuantValid(ec, mc) ==
    ec.kv_bits = 0 \/ /\ ec.kv_bits \in {4, 8} /\ ec.kv_group_size \in {32, 64, 128}
                      /\ mc.head_dim % ec.kv_group_size = 0 /\ ~mc.vision /\ ~mc.hybrid
PrefixCacheValid(ec, mc) ==
    IF ~ec.prefix_cache THEN ec.kv_spill_dir = ""
    ELSE ec.kv_block_size \in {2^k : k \in 4 .. 12} /\ ~mc.vision /\ ~mc.hybrid
PrefillChunkValid(ec) == ec.prefill_chunk >= 0
EngineAccepts(ec, mc) == KvQuantValid(ec, mc) /\ PrefixCacheValid(ec, mc) /\ PrefillChunkValid(ec)

(* The fingerprint that salts the keys of pooled and spilled blocks.       *)
PrefixSalt(model, ec) == <<model.name, model.type, model.n_layers, ec.kv_bits, ec.kv_group_size, ec.kv_block_size>>

-----------------------------------------------------------------------------
(* to_params: what cannot be used is switched off.                         *)
NotANumber == 9999
Finite(v) == v # NotANumber
ToParams(s) ==
    [temperature |-> IF Finite(s.temperature) THEN s.temperature ELSE 0,
     top_k |-> IF s.top_k > 0 THEN s.top_k ELSE 0,
     top_p |-> IF s.top_p \in 1 .. 9 THEN s.top_p ELSE 10,
     min_p |-> IF s.min_p \in 1 .. 10 THEN s.min_p ELSE 0,
     repetition_penalty |-> IF Finite(s.repetition_penalty) /\ s.repetition_penalty > 0
                            THEN s.repetition_penalty ELSE 10,
     top_logprobs |-> IF s.logprobs > 0 THEN s.logprobs - 1 ELSE -1]

(* The filters of Sampler::sample, on the weights of a vocabulary (zero is a
   logit of minus infinity).                                               *)
Total(w) == FoldLeft(LAMBDA a, x : a + x, 0, w)
Heaviest(w) == Max({w[i] : i \in DOMAIN w})
Keep(w, Kept(_)) == [i \in DOMAIN w |-> IF Kept(i) THEN w[i] ELSE 0]
ApplyTopK(w, k) ==
    Keep(w, LAMBDA i : Cardinality({j \in DOMAIN w : w[j] > w[i]}) < k)
(* A slip: the mass a token is judged by includes its own.                 *)
ApplyTopPInclusive(w, p) ==
    LET Upto(i) == {j \in DOMAIN w : w[j] > w[i] \/ (w[j] = w[i] /\ j <= i)}
    IN  Keep(w, LAMBDA i : 10 * Total([j \in DOMAIN w |-> IF j \in Upto(i) THEN w[j] ELSE 0]) < p * Total(w))
ApplyTopP(w, p) ==
    LET Before(i) == {j \in DOMAIN w : w[j] > w[i] \/ (w[j] = w[i] /\ j < i)}
    IN  Keep(w, LAMBDA i : 10 * Total([j \in DOMAIN w |-> IF j \in Before(i) THEN w[j] ELSE 0]) < p * Total(w))
ApplyMinP(w, p) == Keep(w, LAMBDA i : 10 * w[i] >= p * Heaviest(w))
Filtered(w, p) ==
    LET a == IF p.top_k > 0 THEN ApplyTopK(w, Min({p.top_k, Len(w)})) ELSE w
        b == IF p.top_p < 10 THEN ApplyTopP(a, p.top_p) ELSE a
    IN  IF p.min_p > 0 THEN ApplyMinP(b, p.min_p) ELSE b
=============================================================================
