------------------------------ MODULE Inspect ------------------------------
(***************************************************************************)
(* The model inspector (src/src/inspect): the table of tensors, its totals *)
(* and the family of the model, which it reports from the headers of a     *)
(* checkpoint without loading it.                                          *)
(*                                                                         *)
(* Keys are those of Checkpoint; an entry of a header is [dtype, shape,    *)
(* nbytes].  A layer is the component of the key that names it.            *)
(***************************************************************************)
EXTENDS Checkpoint

(* The sum of f over a set of keys, and the number of elements of a tensor. *)
Total(f, keys) == FoldSet(LAMBDA k, n : n + f[k], 0, keys)
Prod(shape) == FoldLeft(LAMBDA n, d : n * d, 1, shape)
Numerals == {"0", "1", "2", "3", "4", "5", "6", "7", "8", "9"}

-----------------------------------------------------------------------------
(* component_of and layer_of.                                              *)
NormNames == {"input_layernorm", "post_attention_layernorm", "norm"}
ComponentOf(key) ==
    LET In(names) == \E i \in 4 .. Len(key) : key[i] \in names
    IN  CASE key[1] = "visual" -> "vision"
          [] key[1] = "lm_head" -> "lm_head"
          [] IsPrefix(<<"model", "embed_tokens">>, key) -> "embed"
          [] IsPrefix(<<"model", "norm">>, key) -> "norm"
          [] IsPrefix(<<"model", "layers">>, key) ->
               IF In({"self_attn"}) THEN "attn"
               ELSE IF In({"linear_attn"}) THEN "linear_attn"
               ELSE IF In({"switch_mlp", "experts", "gate", "shared_expert", "shared_expert_gate"}) THEN "moe"
               ELSE IF In(NormNames) THEN "norm"
               ELSE IF In({"mlp"}) THEN "mlp" ELSE "other"
          [] OTHER -> "other"
LayerOf(key) == IF IsPrefix(<<"model", "layers">>, key) /\ Len(key) > 3 /\ key[3] \in Numerals THEN key[3] ELSE "none"

(* aggregate_per_expert: the tensors of the experts of a layer become one
   row with the number of experts in front of its shape.                   *)
ExpertOf(name) == {i \in 1 .. Len(name) - 2 : name[i] = "experts" /\ name[i + 1] \in Numerals}
AggregateName(name) == IF ExpertOf(name) = {} THEN name ELSE [name EXCEPT ![Min(ExpertOf(name)) + 1] = "*"]
AggregatePerExpert(rows) ==
    LET Names(a) == {n \in DOMAIN rows : AggregateName(n) = a}
        Of(field) == [n \in DOMAIN rows |-> rows[n][field]]
        Row(a) == LET first == rows[CHOOSE n \in Names(a) : TRUE] IN
                  IF ExpertOf(CHOOSE n \in Names(a) : TRUE) = {} THEN first
                  ELSE [first EXCEPT !.shape = <<Cardinality(Names(a))>> \o @,
                                     !.params = Total(Of("params"), Names(a)),
                                     !.bytes = Total(Of("bytes"), Names(a))]
    IN  [a \in {AggregateName(n) : n \in DOMAIN rows} |-> Row(a)]

(* detect_family.                                                          *)
DetectFamily(cfg, hasQkNorm) ==
    IF cfg.full_attention_interval > 0 THEN "qwen3.5-hybrid"
    ELSE IF cfg.num_experts > 0 THEN "qwen3-moe"
    ELSE IF cfg.vision THEN "qwen3-vl"
    ELSE IF hasQkNorm THEN "qwen3" ELSE "llama"

(* finalize: the totals and the shares of the components and layers.       *)
Finalize(cfg, rows, dropped) ==
    LET Of(field) == [n \in DOMAIN rows |-> rows[n][field]]
        Share(keys) == [params |-> Total(Of("params"), keys), bytes |-> Total(Of("bytes"), keys)]
        QkNorm(n) == \E i \in 2 .. Len(n) - 2 : n[i] = "self_attn" /\ n[i + 1] = "q_norm"
    IN  [family |-> DetectFamily(cfg, \E n \in DOMAIN rows : QkNorm(n)),
         tied_embeddings |-> \A n \in DOMAIN rows : n[1] # "lm_head",
         total_params |-> Total(Of("params"), DOMAIN rows),
         total_bytes |-> dropped + Total(Of("bytes"), DOMAIN rows),
         by_component |-> [c \in {rows[n].component : n \in DOMAIN rows} |->
                             Share({n \in DOMAIN rows : rows[n].component = c})],
         by_layer |-> [l \in cfg.layers |-> Share({n \in DOMAIN rows : rows[n].layer = l})]]

(* The scales and biases that belong to a quantized weight and are counted in
   its row.                                                                *)
FoldedSiblings(canon) ==
    {n \in DOMAIN canon : /\ Last(n) \in {"scales", "biases"}
                          /\ {Front(n) \o <<"scales">>, Front(n) \o <<"weight">>} \subseteq DOMAIN canon}

(* read_safetensors_dir: the headers of the files the loader would load.   *)
ReadSafetensorsDir(d) == Merged(d, FilesToLoad(d))

(* build_schema_from_safetensors.  The tower is kept, the root keys of a bare
   backbone are left as they are.                                          *)
BuildSchemaFromSafetensors(d, cfg) ==
    LET all == ReadSafetensorsDir(d)
        kept == {k \in DOMAIN all : SanitizeKey(k, TRUE) # None}
        canon == [c \in {SanitizeKey(k, TRUE) : k \in kept} |-> all[CHOOSE k \in kept : SanitizeKey(k, TRUE) = c]]
        Bytes(keys, entries) == Total([k \in keys |-> entries[k].nbytes], keys)
        folded == FoldedSiblings(canon)
        Siblings(n) == {m \in folded : Last(n) = "weight" /\ Front(m) = Front(n)}
        Logical(n) == LET shape == canon[n].shape
                      IN  IF Siblings(n) = {} THEN shape
                          ELSE [shape EXCEPT ![Len(shape)] = (@ * 32) \div QuantFor(cfg, Front(n))[2]]
        rows == [n \in DOMAIN canon \ folded |->
                   [layer |-> LayerOf(n), component |-> ComponentOf(n), shape |-> Logical(n),
                    params |-> Prod(Logical(n)), bytes |-> Bytes({n} \cup Siblings(n), canon)]]
    IN  Finalize(cfg, AggregatePerExpert(rows), Bytes(DOMAIN all \ kept, all))

(* build_schema_from_gguf: tensors is the sequence of [name, shape, offset] of
   the directory, dataBytes the bytes behind it.  rope_freqs has no parameters;
   a tensor without a canonical name keeps its own and is counted.         *)
BuildSchemaFromGguf(tensors, dataBytes, cfg) ==
    LET bytes == TensorBytes([i \in 1 .. Len(tensors) |-> tensors[i].offset], dataBytes)
        NameOf(i) == LET n == tensors[i].name
                     IN  IF RemapGgufKey(n) # <<>> THEN RemapGgufKey(n) ELSE <<n.block, n.module, n.suffix>>
        At(n) == CHOOSE i \in DOMAIN tensors : NameOf(i) = n
        rows == [n \in {NameOf(i) : i \in DOMAIN tensors} |->
                   [layer |-> LayerOf(n), component |-> ComponentOf(n), shape |-> tensors[At(n)].shape,
                    params |-> IF tensors[At(n)].name.module = "rope_freqs" THEN 0 ELSE Prod(tensors[At(n)].shape),
                    bytes |-> bytes[At(n)]]]
    IN  Finalize(cfg, rows, 0)

=============================================================================
