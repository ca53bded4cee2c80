--------------------------- MODULE BatchKVCache ---------------------------
(***************************************************************************)
(* The batched KV cache (src/src/cache/batch_kv_cache.cpp and the block-   *)
(* growing writer of src/src/cache/kv_quant.cpp) as operators on a value   *)
(*                                                                         *)
(*     [idx, cap, rows], a row being [lp, off, kv]                         *)
(*                                                                         *)
(* idx is the populated length and cap the allocated length of the         *)
(* sequence axis; a row has its left padding, its RoPE offset and its      *)
(* slots kv[0 .. cap-1].  One attention layer stands for all of them: the  *)
(* code runs the same surgery on every layer and on every component (K, V, *)
(* and the quantized triplets of each).                                    *)
(*                                                                         *)
(* What a slot holds is identified by what it was computed from: K and V   *)
(* of a token depend on the tokens of the row up to it, on its RoPE        *)
(* position and, in the last bits, on whether a prefill or a decode pass   *)
(* computed it, so a slot is [ids, pos, via].  Two slots are equal when    *)
(* the code may use one for the other.                                     *)
(***************************************************************************)
EXTENDS Integers, Sequences

CONSTANTS
    Step,      \* kStep, the growth unit of the sequence axis (256)
    Hybrid     \* Qwen3.5: layer 0 is a linear-attention layer and has no K/V

ASSUME StepAssumption == Step \in Nat \ {0}
ASSUME HybridAssumption == Hybrid \in BOOLEAN

Larger(a, b)  == IF a < b THEN b ELSE a
Lesser(a, b)  == IF a < b THEN a ELSE b

Zero     == [ids |-> <<>>, pos |-> 0, via |-> "zeros"]              \* mx::zeros
Padding  == [ids |-> <<"padding">>, pos |-> -1, via |-> "prefill"]  \* of a left-padding position
Garbage  == <<"garbage">>                                           \* computed from a wrong history
Zeros(n) == [i \in 0 .. n-1 |-> Zero]

(* The length of mx::slice(x, 0, stop) on an axis of length n: a negative
   stop counts from the end, and the result is clamped to the axis.        *)
SliceLen(n, stop) == Larger(0, Lesser(n, IF stop < 0 THEN stop + n ELSE stop))

(* The constructor: nothing cached, and row b starts lefts[b] before its
   first token.                                                            *)
NewCache(lefts) ==
    [idx |-> 0, cap |-> 0,
     rows |-> [b \in 1 .. Len(lefts) |->
                 [lp |-> lefts[b], off |-> -lefts[b], kv |-> Zeros(0)]]]

(* s_cap() looks at layer 0 only.                                          *)
SCap(c) == IF Hybrid THEN 0 ELSE c.cap

RoundUp(n) == ((Step + n - 1) \div Step) * Step

(* One already prefilled sequence; its RoPE offset is given.               *)
FromSingleSequence(slots, offset) ==
    [idx |-> Len(slots), cap |-> Len(slots),
     rows |-> << [lp |-> 0, off |-> offset,
                  kv |-> [i \in 0 .. Len(slots)-1 |-> slots[i+1]]] >>]

(* The first len slots of the pooled blocks, written at position 0.        *)
FromPrefix(slots, len) ==
    IF len <= 0 THEN NewCache(<<0>>)
    ELSE [idx |-> len, cap |-> RoundUp(len),
          rows |-> << [lp |-> 0, off |-> len,
                       kv |-> [i \in 0 .. RoundUp(len)-1 |->
                                 IF i < len THEN slots[i+1] ELSE Zero]] >>]

-----------------------------------------------------------------------------
(* A forward pass of n tokens per row, toks[b] being row b's.  The writer
   grows the axis when the tokens do not fit, dropping the unused tail of
   the last block first, and writes them at idx.                           *)
Kept(c, n) ==
    IF c.idx + n > c.cap /\ c.idx % Step # 0 THEN SliceLen(c.cap, c.idx) ELSE c.cap
Grown(c, n) ==
    IF c.idx + n > c.cap THEN Kept(c, n) + RoundUp(n) ELSE c.cap

(* A write that ends past the axis is cut off, and the attention over the
   slice returned throws: its mask has one column per position up to end.  *)
ForwardFits(c, n) == c.idx + n <= Grown(c, n)

(* What the mask lets row r see: the slots from its left padding to idx.
   The history they stand for, when they are the K/V of one sequence.      *)
Context(c, r) ==
    LET n == c.idx - r.lp IN
    IF n <= 0 THEN <<>>
    ELSE LET last == r.kv[c.idx - 1].ids IN
         IF Len(last) = n /\ \A j \in 1 .. n : r.kv[r.lp + j - 1].ids = SubSeq(last, 1, j)
         THEN last ELSE Garbage

(* How many of the n new positions are left padding of row r.              *)
PadSteps(c, r, n) == Lesser(n, Larger(0, r.lp - c.idx))

ForwardRow(c, r, toks, via) ==
    LET n    == Len(toks)
        skip == PadSteps(c, r, n)
        ctx  == Context(c, r)
        new(i) == IF i < r.lp THEN Padding
                  ELSE [ids |-> ctx \o SubSeq(toks, skip + 1, i - c.idx + 1),
                        pos |-> r.off + i - c.idx, via |-> via]
    IN  [r EXCEPT
          !.off = @ + n,
          !.kv  = [i \in 0 .. Grown(c, n) - 1 |->
                     IF i \in c.idx .. c.idx + n - 1 THEN new(i)
                     ELSE IF i < Kept(c, n) THEN r.kv[i] ELSE Zero]]

Forward(c, toks, via) ==
    LET n == Len(toks[1]) IN
    [idx |-> c.idx + n, cap |-> Grown(c, n),
     rows |-> [b \in 1 .. Len(c.rows) |-> ForwardRow(c, c.rows[b], toks[b], via)]]

-----------------------------------------------------------------------------
(* Batch surgery.                                                          *)
PadDummies(c, extra) ==
    [c EXCEPT !.rows = @ \o [e \in 1 .. extra |->
        [lp |-> c.idx, off |-> 0, kv |-> Zeros(c.cap)]]]

(* Keep the rows named by the sequence keep and drop the padding columns
   that they have in common.                                               *)
MinLeftPad(rs) ==
    CHOOSE m \in {rs[b].lp : b \in 1 .. Len(rs)} : \A b \in 1 .. Len(rs) : m <= rs[b].lp

Taken(c, keep) == [d \in 1 .. Len(keep) |-> c.rows[keep[d]]]

CutPadding(c, rs, m) ==
    [idx |-> c.idx - m, cap |-> Larger(0, c.cap - m),
     rows |-> [d \in 1 .. Len(rs) |->
                 [rs[d] EXCEPT !.lp = @ - m,
                               !.kv = [i \in 0 .. c.cap - m - 1 |-> rs[d].kv[i + m]]]]]

(* A slip: the common padding stays.                                       *)
FilterKeepsPadding(c, keep) == [c EXCEPT !.rows = Taken(c, keep)]

Filter(c, keep) ==
    LET rs == Taken(c, keep) IN
    IF MinLeftPad(rs) > 0 THEN CutPadding(c, rs, MinLeftPad(rs)) ELSE [c EXCEPT !.rows = rs]

(* A slip: the left padding does not follow the slots.                     *)
PadLayerKeepsLeftPad(c, maxIdx, maxSize) ==
    LET left  == maxIdx - c.idx
        room  == maxSize - c.cap - left
        len   == IF room < 0 THEN SliceLen(c.cap, c.cap + room) ELSE c.cap
        size  == left + len + Larger(0, room)
    IN  [idx |-> maxIdx, cap |-> size,
         rows |-> [b \in 1 .. Len(c.rows) |->
            [c.rows[b] EXCEPT
               !.kv = [i \in 0 .. size - 1 |->
                         IF i \in left .. left + len - 1 THEN c.rows[b].kv[i - left] ELSE Zero]]]]

(* pad_layer: right-justify at maxIdx, on an axis of length maxSize.       *)
PadLayer(c, maxIdx, maxSize) ==
    LET left  == maxIdx - c.idx
        room  == maxSize - c.cap - left
        len   == IF room < 0 THEN SliceLen(c.cap, c.cap + room) ELSE c.cap
        size  == left + len + Larger(0, room)
    IN  [idx |-> maxIdx, cap |-> size,
         rows |-> [b \in 1 .. Len(c.rows) |->
            [c.rows[b] EXCEPT
               !.lp = @ + left,
               !.kv = [i \in 0 .. size - 1 |->
                         IF i \in left .. left + len - 1 THEN c.rows[b].kv[i - left] ELSE Zero]]]]

Justified(c, d) == PadLayer(c, Larger(c.idx, d.idx), Larger(SCap(c), SCap(d)))

(* concatenate on the batch axis rejects two different sequence lengths.   *)
MergeFits(c, d) ==
    \/ Len(c.rows) = 0 \/ Len(d.rows) = 0
    \/ Justified(c, d).cap = Justified(d, c).cap

Merge(c, d) ==
    IF Len(d.rows) = 0 THEN c
    ELSE IF Len(c.rows) = 0 THEN d
    ELSE [Justified(c, d) EXCEPT !.rows = @ \o Justified(d, c).rows]

(* len slots of row b from slot left on.                                   *)
FetchRow(c, b, left, len) == [j \in 1 .. len |-> c.rows[b].kv[left + j - 1]]

(* The bucket a decode batch of n rows is padded to.                       *)
NextBucket(n) ==
    IF n <= 32
    THEN CHOOSE b \in {1, 2, 4, 8, 16, 32} :
           n <= b /\ \A a \in {1, 2, 4, 8, 16, 32} : n <= a => b <= a
    ELSE ((n + 31) \div 32) * 32
=============================================================================
