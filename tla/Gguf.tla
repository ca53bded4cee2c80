------------------------------- MODULE Gguf -------------------------------
(***************************************************************************)
(* Reading a GGUF file (src/src/core/gguf.cpp): the walk over its metadata *)
(* and tensor directory, the unpacking of its quantized blocks and the     *)
(* renaming of its tensors.                                                *)
(*                                                                         *)
(* A file is abstracted to what the walk depends on: the type of a value   *)
(* and the lengths inside it.  A packed block is abstracted to addresses:  *)
(* unpacking says, for each weight, which scale it is multiplied by and    *)
(* from which nibble or bits of the block it is made.                      *)
(***************************************************************************)
EXTENDS Integers, Sequences, FiniteSetsExt

LOCAL INSTANCE SequencesExt

Pow2(n) == 2^n

-----------------------------------------------------------------------------
(* half_to_float, on the fields of the two formats.  A subnormal half is
   shifted until its leading bit is implicit.                              *)
Half == [sign : 0 .. 1, exp : 0 .. 31, mant : 0 .. 1023]

HalfToFloat(h) ==
    LET shift == CHOOSE k \in 1 .. 10 : h.mant * Pow2(k) \in 1024 .. 2047
        Float(e, m) == [sign |-> h.sign, exp |-> e, mant |-> m * Pow2(13)]
    IN  CASE h.exp = 0 /\ h.mant = 0 -> Float(0, 0)
          [] h.exp = 0 /\ h.mant > 0 -> Float(113 - shift, h.mant * Pow2(shift) - 1024)
          [] h.exp = 31              -> Float(255, h.mant)
          [] OTHER                   -> Float(h.exp + 112, h.mant)

(* The two denote the same number, or are both infinite, or both NaN.      *)
SameNumber(h, f) ==
    /\ f.sign = h.sign
    /\ IF h.exp = 31 THEN f.exp = 255 /\ (f.mant = 0 <=> h.mant = 0)
       ELSE IF h.exp = 0 /\ h.mant = 0 THEN f.exp = 0 /\ f.mant = 0
       ELSE LET sig == IF h.exp = 0 THEN h.mant ELSE 1024 + h.mant
                ex  == IF h.exp = 0 THEN -24 ELSE h.exp - 25
                by  == ex - (f.exp - 150)
            IN  by \in 0 .. 23 /\ sig * Pow2(by) = Pow2(23) + f.mant

-----------------------------------------------------------------------------
(* extract_legacy_quant: the 32 weights of a block.  A nibble is the pair of
   its byte and its half; MLX reads weight i from half i % 2 of byte i \div 2
   of what is written here.                                                *)
LegacyByte(k) ==
    IF k < 8 THEN <<<<2 * k, "low">>, <<2 * k + 1, "low">>>>
             ELSE <<<<2 * (k - 8), "high">>, <<2 * (k - 8) + 1, "high">>>>

LegacyNibble(i) == LegacyByte(i \div 2)[(i % 2) + 1]

LegacyBits(type) == IF type = "Q8_0" THEN 8 ELSE 4

(* What MLX computes from a raw quant, its block's scale and the bias that is
   stored with it.  The quant of Q8_0 is signed in the file.               *)
LegacyBias(type, scale, min) ==
    CASE type = "Q4_1" -> min [] type = "Q4_0" -> -8 * scale [] type = "Q8_0" -> -128 * scale
LegacyQuant(type, raw) == IF type = "Q8_0" THEN (raw + 128) % 256 ELSE raw
LegacyValue(type, scale, min, raw) ==
    scale * LegacyQuant(type, raw) + LegacyBias(type, scale, min)

(* index_gguf_quant derives the bit width from the widths of the two arrays. *)
PackedCols(type, in) == (in * LegacyBits(type)) \div 32
ScaleCols(in) == in \div 32
DerivedBits(wcols, scols) == IF scols > 0 THEN wcols \div scols ELSE 0

(* ggml's formats.                                                         *)
GgmlNibble(i) == IF i < 16 THEN <<i, "low">> ELSE <<i - 16, "high">>
GgmlValue(type, scale, min, raw) ==
    CASE type = "Q4_0" -> scale * (raw - 8)
      [] type = "Q4_1" -> scale * raw + min
      [] type = "Q8_0" -> scale * (IF raw < 128 THEN raw ELSE raw - 256)

-----------------------------------------------------------------------------
(* get_scale_min_k4, on the 12 bytes q[0..11].                             *)
GetScaleMinK4(j, q) ==
    IF j < 4 THEN <<q[j] % 64, q[j + 4] % 64>>
    ELSE <<(q[j + 4] % 16) + 16 * (q[j - 4] \div 64), q[j + 4] \div 16 + 16 * (q[j] \div 64)>>

(* ggml packs eight pairs of 6-bit fields: the first four as they are, the
   high bits of the last four on top of those.                             *)
PackScaleMinK4(sc, mn) ==
    [b \in 0 .. 11 |->
       CASE b < 4  -> sc[b] + 64 * (sc[b + 4] \div 16)
         [] b \in 4 .. 7 -> mn[b - 4] + 64 * (mn[b] \div 16)
         [] b >= 8 -> (sc[b - 4] % 16) + 16 * (mn[b - 4] % 16)]

(* dequantize_k_quant: the 256 weights of a super-block, in the order they
   are written.  scale is the index of the sub-block's scale, low the nibble
   and high the byte and first bit of what is added on top of it.          *)
Q4K == [w \in 0 .. 255 |->
    LET j == w \div 64  l == w % 32  second == w % 64 >= 32 IN
    [scale |-> 2 * j + (IF second THEN 1 ELSE 0),
     low   |-> <<16 + 32 * j + l, IF second THEN "high" ELSE "low">>,
     high  |-> <<>>]]

Q5K == [w \in 0 .. 255 |->
    LET j == w \div 64  l == w % 32  second == w % 64 >= 32 IN
    [scale |-> 2 * j + (IF second THEN 1 ELSE 0),
     low   |-> <<48 + 32 * j + l, IF second THEN "high" ELSE "low">>,
     high  |-> <<16 + l, 2 * j + (IF second THEN 1 ELSE 0)>>]]

(* A slip: the scales of the second half of a row of 32 are those of the
   first.                                                                  *)
Q6KOneScale == [w \in 0 .. 255 |->
    LET n == w \div 128  l == w % 32  part == (w % 128) \div 32 IN
    [scale |-> 8 * n + 2 * part,
     low   |-> <<64 * n + l + 32 * (part % 2), IF part < 2 THEN "low" ELSE "high">>,
     high  |-> <<128 + 32 * n + l, 2 * part>>]]

Q6K == [w \in 0 .. 255 |->
    LET n == w \div 128  l == w % 32  part == (w % 128) \div 32 IN
    [scale |-> 8 * n + l \div 16 + 2 * part,
     low   |-> <<64 * n + l + 32 * (part % 2), IF part < 2 THEN "low" ELSE "high">>,
     high  |-> <<128 + 32 * n + l, 2 * part>>]]

KQuant(type) == CASE type = "Q4_K" -> Q4K [] type = "Q5_K" -> Q5K [] type = "Q6_K" -> Q6K
BlockBytesOf(type) == CASE type = "Q4_K" -> 144 [] type = "Q5_K" -> 176 [] type = "Q6_K" -> 210

(* Where ggml keeps the low nibbles and the high bits of a super-block, how
   many bits a weight has on top, and how many weights share a scale.      *)
KLayout(type) ==
    CASE type = "Q4_K" -> [low |-> 16 .. 143, high |-> {}, bits |-> 0, group |-> 32]
      [] type = "Q5_K" -> [low |-> 48 .. 175, high |-> 16 .. 47, bits |-> 1, group |-> 32]
      [] type = "Q6_K" -> [low |-> 0 .. 127, high |-> 128 .. 191, bits |-> 2, group |-> 16]

(* Every nibble and every high bit of the block belongs to one weight, the
   weights of a group share its scale, and stand in consecutive bytes.     *)
KQuantFaithful(type) ==
    LET y == KQuant(type)  at == KLayout(type)  W == 0 .. 255 IN
    /\ {y[w].low : w \in W} = at.low \X {"low", "high"}
    /\ Cardinality({y[w].low : w \in W}) = 256
    /\ at.bits > 0 =>
         /\ {y[w].high : w \in W} = at.high \X {at.bits * i : i \in 0 .. 8 \div at.bits - 1}
         /\ Cardinality({y[w].high : w \in W}) = 256
    /\ \A w \in W : y[w].scale = w \div at.group
    /\ \A w \in W : w % at.group > 0 =>
         /\ y[w].low[1] = y[w - 1].low[1] + 1 /\ y[w].low[2] = y[w - 1].low[2]
         /\ at.bits > 0 => y[w].high[1] = y[w - 1].high[1] + 1 /\ y[w].high[2] = y[w - 1].high[2]

-----------------------------------------------------------------------------
(* unpermute_qk_rows: the GGUF row that becomes row hf.                    *)
UnpermuteRow(hf, headDim) ==
    LET half == headDim \div 2  h == hf \div headDim  rem == hf % headDim
    IN  h * headDim + (rem % half) * 2 + rem \div half

(* llama.cpp's permutation, from the row of the original to that of the file. *)
PermutedRow(hf, headDim) ==
    LET half == headDim \div 2  h == hf \div headDim
    IN  CHOOSE g \in h * headDim .. (h + 1) * headDim - 1 :
          \E a \in 0 .. half - 1, b \in 0 .. 1 :
            g = h * headDim + a * 2 + b /\ hf = h * headDim + b * half + a

-----------------------------------------------------------------------------
(* The metadata section.  A value is [type], [type 8, len] or
   [type 9, et, elems]; positions are byte offsets.                        *)
FixedWidth == [t \in 0 .. 12 |-> CASE t \in {0, 1, 7} -> 1 [] t \in {2, 3} -> 2
                                   [] t \in {4, 5, 6} -> 4 [] t \in 10 .. 12 -> 8 [] OTHER -> -1]

(* The format: a string and an array carry their lengths in front.         *)
RECURSIVE EncodedSize(_)
EncodedSize(v) ==
    CASE v.type = 8 -> 8 + v.len
      [] v.type = 9 -> 12 + FoldSeq(LAMBDA e, n : EncodedSize(e) + n, 0, v.elems)
      [] OTHER -> FixedWidth[v.type]

(* skip_array_elements jumps over fixed-width elements by its own table.   *)
(* A slip: a boolean takes four bytes.                                     *)
SkipTableBoolAsInt == <<1, 1, 2, 2, 4, 4, 4, 4, -1, -1, 8, 8, 8>>
SkipTable == <<1, 1, 2, 2, 4, 4, 4, 1, -1, -1, 8, 8, 8>>

RECURSIVE SkipMetadataValue(_, _)
SkipArrayElements(v, pos) ==
    IF v.et <= 12 /\ SkipTable[v.et + 1] > 0
    THEN pos + Len(v.elems) * SkipTable[v.et + 1]
    ELSE FoldLeft(LAMBDA p, e : SkipMetadataValue(e, p), pos, v.elems)
SkipMetadataValue(v, pos) ==
    CASE v.type \in {0, 1, 7}   -> pos + 1
      [] v.type \in {2, 3}      -> pos + 2
      [] v.type \in {4, 5, 6}   -> pos + 4
      [] v.type \in {10, 11, 12} -> pos + 8
      [] v.type = 8             -> pos + 8 + v.len
      [] v.type = 9             -> SkipArrayElements(v, pos + 12)

(* read_numeric, as far as it moves the stream.                            *)
NumericWidth(t) == CASE t \in {0, 1, 7} -> 1 [] t \in {2, 3} -> 2
                     [] t \in {4, 5, 6} -> 4 [] t \in 10 .. 12 -> 8
IsNumericType(t) == t <= 7 \/ t \in 10 .. 12

(* parse_gguf_metadata on one value: three arrays are read, the others are
   skipped.                                                                *)
ParseValue(key, v, pos) ==
    CASE v.type = 8 -> pos + 8 + v.len
      [] IsNumericType(v.type) -> pos + NumericWidth(v.type)
      [] v.type = 9 ->
           IF key \in {"tokens", "merges"} /\ v.et = 8
           THEN FoldLeft(LAMBDA p, e : p + 8 + e.len, pos + 12, v.elems)
           ELSE IF key = "token_type" /\ IsNumericType(v.et)
           THEN pos + 12 + Len(v.elems) * NumericWidth(v.et)
           ELSE SkipArrayElements(v, pos + 12)

(* The directory: n tensors, each with a name and dims, then padding.      *)
DirectoryEnd(pos, tensors) ==
    FoldLeft(LAMBDA p, t : p + 8 + t.name + 4 + 8 * t.dims + 4 + 8, pos, tensors)
DataStart(pos, alignment) == ((pos + alignment - 1) \div alignment) * alignment

(* inspect_gguf: the bytes of each tensor, from the gaps between offsets in
   the order of the offsets.                                               *)
TensorBytes(offsets, dataBytes) ==
    LET order == SortSeq([i \in 1 .. Len(offsets) |-> i], LAMBDA a, b : offsets[a] < offsets[b])
        RankOf(i) == CHOOSE k \in 1 .. Len(order) : order[k] = i
    IN  [i \in 1 .. Len(offsets) |->
           LET k == RankOf(i)
           IN  (IF k < Len(order) THEN offsets[order[k + 1]] ELSE dataBytes) - offsets[i]]

-----------------------------------------------------------------------------
(* remap_gguf_key: a tensor name is its block ("none" for the tensors outside
   the layers), its module and its suffix; <<>> for the ones that are dropped. *)
RemapModule ==
    [attn_q |-> <<"self_attn", "q_proj">>, attn_k |-> <<"self_attn", "k_proj">>,
     attn_v |-> <<"self_attn", "v_proj">>, attn_output |-> <<"self_attn", "o_proj">>,
     attn_norm |-> <<"input_layernorm">>, ffn_norm |-> <<"post_attention_layernorm">>,
     ffn_gate |-> <<"mlp", "gate_proj">>, ffn_up |-> <<"mlp", "up_proj">>,
     ffn_down |-> <<"mlp", "down_proj">>, attn_q_norm |-> <<"self_attn", "q_norm">>,
     attn_k_norm |-> <<"self_attn", "k_norm">>, ffn_gate_inp |-> <<"mlp", "gate">>,
     ffn_gate_exps |-> <<"mlp", "switch_mlp", "gate_proj">>,
     ffn_up_exps |-> <<"mlp", "switch_mlp", "up_proj">>,
     ffn_down_exps |-> <<"mlp", "switch_mlp", "down_proj">>]
RemapTop == [token_embd |-> <<"model", "embed_tokens">>, output_norm |-> <<"model", "norm">>,
             output |-> <<"lm_head">>]

(* A tensor with any other suffix is dropped, the ".bias" of a qwen2
   attention included.                                                     *)
RemapGgufKey(name) ==
    CASE name.suffix \notin {"weight", "scales", "biases"} -> <<>>
      [] name.block = "none" /\ name.module \in DOMAIN RemapTop ->
           Append(RemapTop[name.module], name.suffix)
      [] name.block # "none" /\ name.module \in DOMAIN RemapModule ->
           <<"model", "layers", name.block>> \o Append(RemapModule[name.module], name.suffix)
      [] OTHER -> <<>>
=============================================================================
