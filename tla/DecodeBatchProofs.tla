------------------------- MODULE DecodeBatchProofs -------------------------
(***************************************************************************)
(* The decode batch computes, for every request, what the request would    *)
(* compute alone: for every set of requests and prompts, every growth      *)
(* step, chunk, block size and budget, and every number of rows.           *)
(*                                                                         *)
(* The first part is about the batch surgery of BatchKVCache: pad_layer,   *)
(* merge, filter and pad_dummies move a row's slots and its left padding   *)
(* together, and a forward pass writes each row's tokens behind those it   *)
(* holds.  The second part takes each action of DecodeBatch through it.    *)
(* IInv is the inductive invariant; the theorems are at the end.           *)
(*                                                                         *)
(* What is said of the batch is said of models whose layer 0 is an         *)
(* attention layer (~Hybrid), where s_cap() is the allocated length.       *)
(***************************************************************************)
EXTENDS DecodeBatch, SeqLemmas, FiniteSetTheorems

(* A row whose slots are in S, on an axis of length cap.                   *)
Row(S, cap) == [lp : Nat, off : Int, kv : [0 .. cap-1 -> S]]

(* A cache with such rows.                                                 *)
Shaped(c, S) ==
    /\ c = [idx |-> c.idx, cap |-> c.cap, rows |-> c.rows]
    /\ c.idx \in Nat /\ c.cap \in Nat /\ c.idx <= c.cap
    /\ c.rows \in Seq(Row(S, c.cap))

(* A cache of which every row starts inside the populated part.            *)
WellFormed(c, S) ==
    /\ Shaped(c, S)
    /\ \A b \in 1 .. Len(c.rows) : c.rows[b].lp <= c.idx

(* Row s of cache d attends to what row r of cache c attends to, and is
   about to write at the same RoPE position.                               *)
SameRow(c, r, d, s) ==
    /\ d.idx - s.lp = c.idx - r.lp
    /\ s.off = r.off
    /\ \A j \in 0 .. c.idx - r.lp - 1 : s.kv[s.lp + j] = r.kv[r.lp + j]

-----------------------------------------------------------------------------
(* A row of a well-formed cache and its parts.                             *)
LEMMA RowParts ==
    ASSUME NEW S, NEW c, WellFormed(c, S), NEW b \in 1 .. Len(c.rows)
    PROVE  /\ c.rows[b] \in Row(S, c.cap)
           /\ c.rows[b].lp \in Nat /\ c.rows[b].off \in Int
           /\ c.rows[b].kv \in [0 .. c.cap - 1 -> S]
           /\ c.rows[b].lp <= c.idx
           /\ c.rows[b] = [lp |-> c.rows[b].lp, off |-> c.rows[b].off,
                           kv |-> c.rows[b].kv]
<1>1. c.rows[b] \in Row(S, c.cap)
  BY DEF WellFormed, Shaped
<1>2. c.rows[b].lp <= c.idx
  BY DEF WellFormed, Shaped
<1> QED
  BY <1>1, <1>2 DEF Row

(* The length pad_layer keeps of an axis of length cap, idx of it populated,
   that is moved right by left and fitted into maxSize.                    *)
PadLen(cap, left, maxSize) ==
    IF maxSize - cap - left < 0 THEN SliceLen(cap, cap + (maxSize - cap - left)) ELSE cap

(* The length of the axis that pad_layer leaves.                           *)
PadSize(cap, left, maxSize) ==
    left + PadLen(cap, left, maxSize) + Larger(0, maxSize - cap - left)

(* The populated part is kept and the axis gets length maxSize.            *)
PadKeeps(idx, cap, left, maxSize) ==
    /\ PadLen(cap, left, maxSize) \in Nat
    /\ idx <= PadLen(cap, left, maxSize)
    /\ PadLen(cap, left, maxSize) <= cap
    /\ left + PadLen(cap, left, maxSize) <= maxSize
    /\ PadSize(cap, left, maxSize) = maxSize

(* It is when maxSize has room for the populated part.                     *)
LEMMA PadArithmetic ==
    ASSUME NEW idx \in Nat, NEW cap \in Nat, NEW left \in Nat, NEW maxSize \in Nat,
           idx <= cap, left + idx <= maxSize
    PROVE  PadKeeps(idx, cap, left, maxSize)
<1>1. CASE maxSize - cap - left < 0
  <2>1. SliceLen(cap, cap + (maxSize - cap - left)) = maxSize - left
    BY <1>1 DEF SliceLen, Larger, Lesser
  <2>2. Larger(0, maxSize - cap - left) = 0
    BY <1>1 DEF Larger
  <2> QED BY <1>1, <2>1, <2>2 DEF PadLen, PadSize, PadKeeps
<1>2. CASE ~(maxSize - cap - left < 0)
  <2>1. Larger(0, maxSize - cap - left) = maxSize - cap - left
    BY <1>2 DEF Larger
  <2> QED BY <1>2, <2>1 DEF PadLen, PadSize, PadKeeps
<1> QED BY <1>1, <1>2

(* The slots of a row, len of them, moved right by left on a new axis.     *)
Moved(kv, left, len, size) ==
    [i \in 0 .. size - 1 |-> IF i \in left .. left + len - 1 THEN kv[i - left] ELSE Zero]

(* Moving slots keeps the ones a row attends to, from its left padding l to
   the populated length idx.                                               *)
MoveKeeps(S, idx, kv, left, len, size, l) ==
    /\ Moved(kv, left, len, size) \in [0 .. size - 1 -> S]
    /\ \A j \in 0 .. idx - l - 1 : Moved(kv, left, len, size)[(l + left) + j] = kv[l + j]

(* It does when the axis has room for them.                                *)
LEMMA MovedSlots ==
    ASSUME NEW S, Zero \in S, NEW idx \in Nat, NEW cap \in Nat, NEW left \in Nat,
           NEW len \in Nat, NEW size \in Nat, NEW l \in Nat, NEW kv \in [0 .. cap - 1 -> S],
           idx <= len, len <= cap, left + len <= size
    PROVE  MoveKeeps(S, idx, kv, left, len, size, l)
<1>1. ASSUME NEW i \in left .. left + len - 1
      PROVE  kv[i - left] \in S
  <2>1. i - left \in 0 .. cap - 1
    OBVIOUS
  <2> QED BY <2>1
<1>2. Moved(kv, left, len, size) \in [0 .. size - 1 -> S]
  BY <1>1 DEF Moved
<1>3. ASSUME NEW j \in 0 .. idx - l - 1
      PROVE  Moved(kv, left, len, size)[(l + left) + j] = kv[l + j]
  <2>1. /\ (l + left) + j \in 0 .. size - 1
        /\ (l + left) + j \in left .. left + len - 1
        /\ ((l + left) + j) - left = l + j
    OBVIOUS
  <2> QED BY <2>1 DEF Moved
<1> QED BY <1>2, <1>3 DEF MoveKeeps

(* A row with its left padding and its slots replaced.                     *)
Replaced(r, l, kv) == [r EXCEPT !.lp = l, !.kv = kv]

(* It is a row with that padding and those slots, and no other change.     *)
ReplaceKeeps(S, r, size, l, kv) ==
    /\ Replaced(r, l, kv) \in Row(S, size)
    /\ Replaced(r, l, kv).lp = l /\ Replaced(r, l, kv).kv = kv
    /\ Replaced(r, l, kv).off = r.off

(* It keeps the other fields.                                              *)
LEMMA ReplacedRow ==
    ASSUME NEW S, NEW cap, NEW size, NEW r \in Row(S, cap), NEW l \in Nat,
           NEW kv \in [0 .. size - 1 -> S]
    PROVE  ReplaceKeeps(S, r, size, l, kv)
  BY DEF Row, Replaced, ReplaceKeeps

(* What pad_layer owes to merge: the axis asked for, and every row kept.   *)
PadLayerKeeps(S, c, maxIdx, maxSize) ==
    LET p == PadLayer(c, maxIdx, maxSize) IN
    /\ WellFormed(p, S) /\ p.idx = maxIdx /\ p.cap = maxSize
    /\ Len(p.rows) = Len(c.rows)
    /\ \A b \in 1 .. Len(c.rows) : SameRow(c, c.rows[b], p, p.rows[b])

(* pad_layer with an axis that has room for every populated slot yields that
   axis exactly and keeps every row, whether it pads the tail or trims it. *)
LEMMA PadLayerKeepsRows ==
    ASSUME NEW S, Zero \in S, NEW c, WellFormed(c, S),
           NEW maxIdx \in Nat, NEW maxSize \in Nat,
           c.idx <= maxIdx, maxIdx <= maxSize
    PROVE  PadLayerKeeps(S, c, maxIdx, maxSize)
<1> DEFINE p == PadLayer(c, maxIdx, maxSize)
<1>1. PICK idx \in Nat, cap \in Nat, left \in Nat :
         idx = c.idx /\ cap = c.cap /\ left = maxIdx - c.idx
  BY DEF WellFormed, Shaped
<1>2. idx <= cap /\ left + idx = maxIdx /\ left + idx <= maxSize /\ Len(c.rows) \in Nat
  BY <1>1 DEF WellFormed, Shaped
<1>2a. PadKeeps(idx, cap, left, maxSize)
  BY <1>2, PadArithmetic
<1>2b. PICK len \in Nat : len = PadLen(cap, left, maxSize)
  BY <1>2a DEF PadKeeps
<1>3. /\ len = PadLen(cap, left, maxSize) /\ PadSize(cap, left, maxSize) = maxSize
      /\ idx <= len /\ len <= cap /\ left + len <= maxSize
  BY <1>2a, <1>2b DEF PadKeeps
<1> DEFINE rowOf(b) == Replaced(c.rows[b], c.rows[b].lp + left,
                                Moved(c.rows[b].kv, left, len, maxSize))
<1>4. p = [idx |-> maxIdx, cap |-> maxSize, rows |-> [b \in 1 .. Len(c.rows) |-> rowOf(b)]]
  <2>1. p = [idx |-> maxIdx, cap |-> PadSize(cap, left, maxSize),
             rows |-> [b \in 1 .. Len(c.rows) |->
                         Replaced(c.rows[b], c.rows[b].lp + left,
                                  Moved(c.rows[b].kv, left, PadLen(cap, left, maxSize),
                                        PadSize(cap, left, maxSize)))]]
    BY <1>1 DEF PadLayer, PadLen, PadSize, Moved, Replaced
  <2> QED BY <1>3, <2>1
<1> HIDE DEF p
<1>5. ASSUME NEW b \in 1 .. Len(c.rows)
      PROVE  /\ rowOf(b) \in Row(S, maxSize)
             /\ rowOf(b).lp = c.rows[b].lp + left
             /\ rowOf(b).off = c.rows[b].off
             /\ \A j \in 0 .. idx - c.rows[b].lp - 1 :
                   rowOf(b).kv[rowOf(b).lp + j] = c.rows[b].kv[c.rows[b].lp + j]
  <2>1. PICK r \in Row(S, cap), l \in Nat, kv \in [0 .. cap - 1 -> S] :
           r = c.rows[b] /\ l = c.rows[b].lp /\ kv = c.rows[b].kv
    BY <1>1, RowParts
  <2>2a. MoveKeeps(S, idx, kv, left, len, maxSize, l)
    BY <1>3, MovedSlots
  <2>2b. PICK m \in [0 .. maxSize - 1 -> S] : m = Moved(kv, left, len, maxSize)
    BY <2>2a DEF MoveKeeps
  <2>2. /\ m = Moved(kv, left, len, maxSize)
        /\ \A j \in 0 .. idx - l - 1 : m[(l + left) + j] = kv[l + j]
    BY <2>2a, <2>2b DEF MoveKeeps
  <2>3. PICK t \in Nat : t = l + left
    OBVIOUS
  <2>4. ReplaceKeeps(S, r, maxSize, t, m)
    BY ReplacedRow
  <2>5. rowOf(b) = Replaced(r, t, m)
    BY <2>1, <2>2, <2>3
  <2> HIDE DEF rowOf
  <2>6. /\ rowOf(b) \in Row(S, maxSize) /\ rowOf(b).lp = l + left
        /\ rowOf(b).off = r.off
        /\ \A j \in 0 .. idx - l - 1 : rowOf(b).kv[rowOf(b).lp + j] = kv[l + j]
    BY <2>2, <2>3, <2>4, <2>5 DEF ReplaceKeeps
  <2> QED BY <2>1, <2>6
<1> HIDE DEF rowOf
<1>6. p.rows = [b \in 1 .. Len(c.rows) |-> rowOf(b)] /\ p.idx = maxIdx /\ p.cap = maxSize
  BY <1>4
<1>7. p.rows \in Seq(Row(S, p.cap)) /\ Len(p.rows) = Len(c.rows)
  BY <1>2, <1>5, <1>6
<1>8. ASSUME NEW b \in 1 .. Len(c.rows)
      PROVE  p.rows[b].lp <= p.idx /\ SameRow(c, c.rows[b], p, p.rows[b])
  <2>1. p.rows[b] = rowOf(b)
    BY <1>6
  <2>2. c.rows[b].lp \in Nat /\ c.rows[b].lp <= c.idx
    BY RowParts
  <2>3. p.rows[b].lp = c.rows[b].lp + left
    BY <1>5, <2>1
  <2>4. p.idx - p.rows[b].lp = c.idx - c.rows[b].lp /\ p.rows[b].lp <= p.idx
    <3>1. PICK l \in Nat : l = c.rows[b].lp
      BY <2>2
    <3>2. l <= idx
      BY <1>1, <2>2, <3>1
    <3>3. left + idx = maxIdx
      BY <1>2
    <3>4. maxIdx - (l + left) = idx - l /\ l + left <= maxIdx
      BY <3>2, <3>3
    <3> QED BY <1>1, <1>6, <2>3, <3>1, <3>4
  <2> QED BY <1>1, <1>5, <2>1, <2>4 DEF SameRow
<1>9. WellFormed(p, S)
  <2>1. p = [idx |-> p.idx, cap |-> p.cap, rows |-> p.rows]
    BY <1>4
  <2>2. p.idx \in Nat /\ p.cap \in Nat /\ p.idx <= p.cap
    BY <1>6
  <2> QED BY <1>7, <1>8, <2>1, <2>2 DEF WellFormed, Shaped
<1> QED BY <1>6, <1>7, <1>8, <1>9 DEF p, PadLayerKeeps

-----------------------------------------------------------------------------
(* What merge owes to the rows of both caches.                             *)
MergeKeeps(S, c, d) ==
    /\ MergeFits(c, d)
    /\ WellFormed(Merge(c, d), S)
    /\ Len(Merge(c, d).rows) = Len(c.rows) + Len(d.rows)
    /\ \A b \in 1 .. Len(c.rows) : SameRow(c, c.rows[b], Merge(c, d), Merge(c, d).rows[b])
    /\ \A b \in 1 .. Len(d.rows) :
          SameRow(d, d.rows[b], Merge(c, d), Merge(c, d).rows[Len(c.rows) + b])
    /\ Len(c.rows) # 0 /\ Len(d.rows) # 0 =>
          /\ Merge(c, d).idx = Larger(c.idx, d.idx)
          /\ Merge(c, d).cap = Larger(c.cap, d.cap)

(* BatchKVCache::merge of a model whose layer 0 has K/V never throws, and the
   merged batch holds the rows of both caches, in order, each attending to
   exactly what it attended to before at the same RoPE offset: a joining
   request disturbs none that is decoding, however their lengths and the
   allocated lengths of the two caches compare.                            *)
THEOREM MergeKeepsRows ==
    ASSUME ~Hybrid, NEW S, Zero \in S, NEW c, NEW d, WellFormed(c, S), WellFormed(d, S)
    PROVE  MergeKeeps(S, c, d)
<1> SUFFICES /\ MergeFits(c, d)
             /\ WellFormed(Merge(c, d), S)
             /\ Len(Merge(c, d).rows) = Len(c.rows) + Len(d.rows)
             /\ \A b \in 1 .. Len(c.rows) : SameRow(c, c.rows[b], Merge(c, d), Merge(c, d).rows[b])
             /\ \A b \in 1 .. Len(d.rows) :
                   SameRow(d, d.rows[b], Merge(c, d), Merge(c, d).rows[Len(c.rows) + b])
             /\ Len(c.rows) # 0 /\ Len(d.rows) # 0 =>
                   /\ Merge(c, d).idx = Larger(c.idx, d.idx)
                   /\ Merge(c, d).cap = Larger(c.cap, d.cap)
  BY DEF MergeKeeps
<1>1. /\ Len(c.rows) \in Nat /\ c.idx \in Nat /\ c.cap \in Nat /\ c.idx <= c.cap
      /\ Len(d.rows) \in Nat /\ d.idx \in Nat /\ d.cap \in Nat /\ d.idx <= d.cap
  BY DEF WellFormed, Shaped
<1>2. CASE Len(d.rows) = 0
  <2>1. Merge(c, d) = c /\ MergeFits(c, d)
    BY <1>2 DEF Merge, MergeFits
  <2> QED BY <1>1, <1>2, <2>1 DEF SameRow
<1>3. CASE Len(d.rows) # 0 /\ Len(c.rows) = 0
  <2>1. Merge(c, d) = d /\ MergeFits(c, d)
    BY <1>3 DEF Merge, MergeFits
  <2> QED BY <1>1, <1>3, <2>1 DEF SameRow
<1>4. CASE Len(d.rows) # 0 /\ Len(c.rows) # 0
  <2>1. PICK i \in Nat, n \in Nat :
           /\ i = Larger(c.idx, d.idx) /\ i = Larger(d.idx, c.idx)
           /\ n = Larger(c.cap, d.cap) /\ n = Larger(d.cap, c.cap)
           /\ c.idx <= i /\ d.idx <= i /\ i <= n
    BY <1>1 DEF Larger
  <2> DEFINE p == PadLayer(c, i, n)
             q == PadLayer(d, i, n)
             m == Merge(c, d)
  <2>2. Justified(c, d) = p /\ Justified(d, c) = q
    BY <2>1 DEF Justified, SCap
  <2>3. PadLayerKeeps(S, c, i, n) /\ PadLayerKeeps(S, d, i, n)
    BY <2>1, PadLayerKeepsRows
  <2>4. /\ WellFormed(p, S) /\ p.idx = i /\ p.cap = n /\ Len(p.rows) = Len(c.rows)
        /\ \A b \in 1 .. Len(c.rows) : SameRow(c, c.rows[b], p, p.rows[b])
    BY <2>3 DEF PadLayerKeeps
  <2>5. /\ WellFormed(q, S) /\ q.idx = i /\ q.cap = n /\ Len(q.rows) = Len(d.rows)
        /\ \A b \in 1 .. Len(d.rows) : SameRow(d, d.rows[b], q, q.rows[b])
    BY <2>3 DEF PadLayerKeeps
  <2> HIDE DEF p, q
  <2>6. MergeFits(c, d)
    BY <2>2, <2>4, <2>5 DEF MergeFits
  <2>7. p = [idx |-> i, cap |-> n, rows |-> p.rows]
    BY <2>4 DEF WellFormed, Shaped
  <2>8. m = [idx |-> i, cap |-> n, rows |-> p.rows \o q.rows]
    <3>1. m = [p EXCEPT !.rows = p.rows \o q.rows]
      BY <1>4, <2>2 DEF Merge
    <3>2. \A R, X : [[idx |-> i, cap |-> n, rows |-> R] EXCEPT !.rows = X]
                       = [idx |-> i, cap |-> n, rows |-> X]
      OBVIOUS
    <3> QED BY <2>7, <3>1, <3>2
  <2> HIDE DEF m
  <2>9. p.rows \in Seq(Row(S, n)) /\ q.rows \in Seq(Row(S, n))
    BY <2>4, <2>5 DEF WellFormed, Shaped
  <2>10. /\ m.rows \in Seq(Row(S, n)) /\ Len(m.rows) = Len(c.rows) + Len(d.rows)
         /\ \A b \in 1 .. Len(c.rows) : m.rows[b] = p.rows[b]
         /\ \A b \in 1 .. Len(d.rows) : m.rows[Len(c.rows) + b] = q.rows[b]
    <3>1. PICK R \in Seq(Row(S, n)), Q \in Seq(Row(S, n)) : R = p.rows /\ Q = q.rows
      BY <2>9
    <3>2. /\ R \o Q \in Seq(Row(S, n)) /\ Len(R \o Q) = Len(R) + Len(Q)
          /\ \A b \in 1 .. Len(R) : (R \o Q)[b] = R[b]
          /\ \A b \in 1 .. Len(Q) : (R \o Q)[Len(R) + b] = Q[b]
      OBVIOUS
    <3>3. m.rows = R \o Q /\ Len(R) = Len(c.rows) /\ Len(Q) = Len(d.rows)
      BY <2>4, <2>5, <2>8, <3>1
    <3> QED BY <3>1, <3>2, <3>3
  <2>11. m.idx = i /\ m.cap = n /\ m = [idx |-> m.idx, cap |-> m.cap, rows |-> m.rows]
    BY <2>8
  <2>12. \A b \in 1 .. Len(c.rows) : SameRow(c, c.rows[b], m, m.rows[b])
    BY <2>4, <2>10, <2>11 DEF SameRow
  <2>13. \A b \in 1 .. Len(d.rows) : SameRow(d, d.rows[b], m, m.rows[Len(c.rows) + b])
    <3> SUFFICES ASSUME NEW b \in 1 .. Len(d.rows)
                 PROVE  SameRow(d, d.rows[b], m, m.rows[Len(c.rows) + b])
      OBVIOUS
    <3>1. m.rows[Len(c.rows) + b] = q.rows[b]
      BY <2>10
    <3> QED BY <2>5, <2>11, <3>1 DEF SameRow
  <2>14. ASSUME NEW b \in 1 .. Len(m.rows)
         PROVE  m.rows[b].lp <= m.idx
    <3>1. CASE b \in 1 .. Len(c.rows)
      BY <2>4, <2>10, <2>11, <3>1 DEF WellFormed, Shaped
    <3>2. CASE b \notin 1 .. Len(c.rows)
      <4>1. PICK e \in 1 .. Len(d.rows) : b = Len(c.rows) + e
        <5>1. b - Len(c.rows) \in 1 .. Len(d.rows) /\ b = Len(c.rows) + (b - Len(c.rows))
          <6>1. PICK k \in Nat, l \in Nat : k = Len(c.rows) /\ l = Len(d.rows)
            BY <1>1
          <6>2. b \in 1 .. k + l /\ b \notin 1 .. k
            BY <2>10, <3>2, <6>1
          <6>3. b - k \in 1 .. l /\ b = k + (b - k)
            BY <6>2
          <6> QED BY <6>1, <6>3
        <5> QED BY <5>1
      <4> QED BY <2>5, <2>10, <2>11, <4>1 DEF WellFormed, Shaped
    <3> QED BY <3>1, <3>2
  <2>15. WellFormed(m, S)
    BY <2>1, <2>10, <2>11, <2>14 DEF WellFormed, Shaped
  <2> QED BY <2>1, <2>6, <2>10, <2>11, <2>12, <2>13, <2>15 DEF m
<1> QED BY <1>2, <1>3, <1>4

-----------------------------------------------------------------------------
(* The slots of a row from m on, as filter's slice_axis leaves them.       *)
Cut(kv, m, size) == [i \in 0 .. size - 1 |-> kv[i + m]]

(* What a cut of m columns owes to a row with left padding l.              *)
CutKeeps(S, idx, kv, m, size, l) ==
    /\ Cut(kv, m, size) \in [0 .. size - 1 -> S]
    /\ \A j \in 0 .. idx - l - 1 : Cut(kv, m, size)[(l - m) + j] = kv[l + j]

(* Cutting no more than the left padding l keeps what a row attends to.    *)
LEMMA CutSlots ==
    ASSUME NEW S, NEW idx \in Nat, NEW cap \in Nat, NEW m \in Nat, NEW size \in Nat,
           NEW l \in Nat, NEW kv \in [0 .. cap - 1 -> S],
           m <= l, idx <= cap, size = cap - m
    PROVE  CutKeeps(S, idx, kv, m, size, l)
<1>1. ASSUME NEW i \in 0 .. size - 1
      PROVE  kv[i + m] \in S
  <2>1. i + m \in 0 .. cap - 1
    OBVIOUS
  <2> QED BY <2>1
<1>2. Cut(kv, m, size) \in [0 .. size - 1 -> S]
  BY <1>1 DEF Cut
<1>3. ASSUME NEW j \in 0 .. idx - l - 1
      PROVE  Cut(kv, m, size)[(l - m) + j] = kv[l + j]
  <2>1. (l - m) + j \in 0 .. size - 1 /\ ((l - m) + j) + m = l + j
    OBVIOUS
  <2> QED BY <2>1 DEF Cut
<1> QED BY <1>2, <1>3 DEF CutKeeps

(* min_lp is the least left padding of the rows that are kept.             *)
LEMMA MinLeftPadIsLeast ==
    ASSUME NEW rs, Len(rs) \in Nat \ {0}, \A b \in 1 .. Len(rs) : rs[b].lp \in Nat
    PROVE  /\ MinLeftPad(rs) \in Nat
           /\ \A b \in 1 .. Len(rs) : MinLeftPad(rs) <= rs[b].lp
           /\ \E b \in 1 .. Len(rs) : MinLeftPad(rs) = rs[b].lp
<1> DEFINE T == {rs[b].lp : b \in 1 .. Len(rs)}
<1>1. T \subseteq Nat
  OBVIOUS
<1>2. T # {}
  <2>1. 1 \in 1 .. Len(rs)
    OBVIOUS
  <2> QED BY <2>1
<1>3. \E x \in T : \A y \in T : x <= y
  <2> HIDE DEF T
  <2> QED BY <1>1, <1>2, LeastElement
<1>4. \E x \in T : \A b \in 1 .. Len(rs) : x <= rs[b].lp
  BY <1>3
<1>5. MinLeftPad(rs) \in T /\ \A b \in 1 .. Len(rs) : MinLeftPad(rs) <= rs[b].lp
  BY <1>4 DEF MinLeftPad
<1> QED BY <1>1, <1>5

(* What filter owes to the rows that are kept.                             *)
FilterKeeps(S, c, keep) ==
    /\ WellFormed(Filter(c, keep), S)
    /\ Len(Filter(c, keep).rows) = Len(keep)
    /\ \A k \in 1 .. Len(keep) :
          SameRow(c, c.rows[keep[k]], Filter(c, keep), Filter(c, keep).rows[k])
    /\ \E k \in 1 .. Len(keep) : Filter(c, keep).rows[k].lp = 0
    /\ Filter(c, keep).cap - Filter(c, keep).idx = c.cap - c.idx

(* BatchKVCache::filter keeps exactly the rows it is asked to keep, in the
   order given, each attending to what it attended to before at the same
   RoPE offset, and leaves no padding column that all of them share: an
   eviction disturbs no row that goes on decoding.                         *)
THEOREM FilterKeepsRows ==
    ASSUME NEW S, NEW c, WellFormed(c, S), NEW keep \in Seq(1 .. Len(c.rows)), keep # <<>>
    PROVE  FilterKeeps(S, c, keep)
<1> SUFFICES /\ WellFormed(Filter(c, keep), S)
             /\ Len(Filter(c, keep).rows) = Len(keep)
             /\ \A k \in 1 .. Len(keep) :
                   SameRow(c, c.rows[keep[k]], Filter(c, keep), Filter(c, keep).rows[k])
             /\ \E k \in 1 .. Len(keep) : Filter(c, keep).rows[k].lp = 0
             /\ Filter(c, keep).cap - Filter(c, keep).idx = c.cap - c.idx
  BY DEF FilterKeeps
<1> DEFINE rs == Taken(c, keep)
           f == Filter(c, keep)
<1>1. /\ c.idx \in Nat /\ c.cap \in Nat /\ c.idx <= c.cap /\ Len(c.rows) \in Nat
      /\ Len(keep) \in Nat \ {0} /\ \A k \in 1 .. Len(keep) : keep[k] \in 1 .. Len(c.rows)
  BY DEF WellFormed, Shaped
<1>2. rs \in Seq(Row(S, c.cap)) /\ Len(rs) = Len(keep)
  <2>1. \A k \in 1 .. Len(keep) : c.rows[keep[k]] \in Row(S, c.cap)
    BY <1>1, RowParts
  <2> QED BY <1>1, <2>1 DEF Taken
<1>3. \A k \in 1 .. Len(keep) : rs[k] = c.rows[keep[k]]
  BY DEF Taken
<1>4. \A k \in 1 .. Len(keep) : rs[k].lp \in Nat /\ rs[k].lp <= c.idx
  <2>1. ASSUME NEW k \in 1 .. Len(keep)
        PROVE  c.rows[keep[k]].lp \in Nat /\ c.rows[keep[k]].lp <= c.idx
    <3>1. PICK b \in 1 .. Len(c.rows) : b = keep[k]
      BY <1>1
    <3> QED BY <3>1, RowParts
  <2> QED BY <1>3, <2>1
<1>5. PICK m \in Nat : m = MinLeftPad(rs)
  <2> HIDE DEF rs
  <2> QED BY <1>1, <1>2, <1>4, MinLeftPadIsLeast
<1>6. /\ \A k \in 1 .. Len(keep) : m <= rs[k].lp
      /\ \E k \in 1 .. Len(keep) : m = rs[k].lp
  <2> HIDE DEF rs
  <2> QED BY <1>1, <1>2, <1>4, <1>5, MinLeftPadIsLeast
<1>7. CASE m = 0
  <2>1. f = [c EXCEPT !.rows = rs]
    <3>1. ~(MinLeftPad(rs) > 0)
      BY <1>5, <1>7
    <3> QED BY <3>1 DEF Filter
  <2>2. c = [idx |-> c.idx, cap |-> c.cap, rows |-> c.rows]
    BY DEF WellFormed, Shaped
  <2> HIDE DEF rs, f
  <2>3. f = [idx |-> c.idx, cap |-> c.cap, rows |-> rs]
    <3>1. \A i, n, R, X : [[idx |-> i, cap |-> n, rows |-> R] EXCEPT !.rows = X]
                             = [idx |-> i, cap |-> n, rows |-> X]
      OBVIOUS
    <3> QED BY <2>1, <2>2, <3>1
  <2>4. f.idx = c.idx /\ f.cap = c.cap /\ f.rows = rs
    BY <2>3
  <2>5. WellFormed(f, S)
    BY <1>1, <1>2, <1>4, <2>3, <2>4 DEF WellFormed, Shaped
  <2>6. \A k \in 1 .. Len(keep) : SameRow(c, c.rows[keep[k]], f, f.rows[k])
    BY <1>3, <2>4 DEF SameRow
  <2> QED BY <1>2, <1>6, <1>7, <2>4, <2>5, <2>6 DEF f
<1>8. CASE m > 0
  <2>1. PICK idx \in Nat, cap \in Nat, size \in Nat :
           /\ idx = c.idx /\ cap = c.cap /\ size = cap - m /\ idx <= cap /\ m <= idx
           /\ Larger(0, c.cap - m) = size
    <3>1. \E k \in 1 .. Len(keep) : m = rs[k].lp /\ rs[k].lp <= c.idx
      BY <1>4, <1>6
    <3>2. m <= c.idx
      BY <3>1
    <3>3. c.cap - m \in Nat /\ Larger(0, c.cap - m) = c.cap - m
      BY <1>1, <3>2 DEF Larger
    <3> QED BY <1>1, <3>2, <3>3
  <2> DEFINE rowOf(k) == Replaced(rs[k], rs[k].lp - m, Cut(rs[k].kv, m, size))
  <2>2. f = [idx |-> idx - m, cap |-> size, rows |-> [k \in 1 .. Len(keep) |-> rowOf(k)]]
    <3>1. f = [idx |-> c.idx - m, cap |-> Larger(0, c.cap - m),
               rows |-> [k \in 1 .. Len(rs) |->
                          Replaced(rs[k], rs[k].lp - m, Cut(rs[k].kv, m, c.cap - m))]]
      <4>1. MinLeftPad(rs) > 0 /\ MinLeftPad(rs) = m
        BY <1>5, <1>8
      <4>2. f = CutPadding(c, rs, m)
        BY <4>1 DEF Filter
      <4> HIDE DEF rs, f
      <4> QED BY <4>2 DEF CutPadding, Replaced, Cut
    <3> HIDE DEF rs, f
    <3> QED BY <1>2, <2>1, <3>1
  <2> HIDE DEF rs, f
  <2>3. ASSUME NEW k \in 1 .. Len(keep)
        PROVE  /\ rowOf(k) \in Row(S, size)
               /\ rowOf(k).lp = rs[k].lp - m /\ rowOf(k).lp <= idx - m
               /\ (idx - m) - rowOf(k).lp = idx - rs[k].lp
               /\ rowOf(k).off = rs[k].off
               /\ \A j \in 0 .. idx - rs[k].lp - 1 :
                     rowOf(k).kv[rowOf(k).lp + j] = rs[k].kv[rs[k].lp + j]
    <3>1. PICK r \in Row(S, cap), l \in Nat, kv \in [0 .. cap - 1 -> S] :
             r = rs[k] /\ l = rs[k].lp /\ kv = rs[k].kv
      <4>1. rs[k] \in Row(S, cap)
        BY <1>2, <2>1
      <4> QED BY <4>1 DEF Row
    <3>2. m <= l /\ l <= idx
      BY <1>4, <1>6, <2>1, <3>1
    <3>3. CutKeeps(S, idx, kv, m, size, l)
      <4>1. m <= l /\ idx <= cap /\ size = cap - m
        BY <2>1, <3>2
      <4> QED BY <4>1, CutSlots
    <3>4. PICK v \in [0 .. size - 1 -> S], t \in Nat : v = Cut(kv, m, size) /\ t = l - m
      BY <3>2, <3>3 DEF CutKeeps
    <3>5. ReplaceKeeps(S, r, size, t, v)
      BY ReplacedRow
    <3>6. rowOf(k) = Replaced(r, t, v)
      BY <3>1, <3>4
    <3> HIDE DEF rowOf
    <3>7. \A j \in 0 .. idx - l - 1 : v[t + j] = kv[l + j]
      BY <3>3, <3>4 DEF CutKeeps
    <3>8. t = l - m /\ t <= idx - m /\ (idx - m) - t = idx - l
      BY <3>2, <3>4
    <3>9. /\ rowOf(k) \in Row(S, size) /\ rowOf(k).lp = t /\ rowOf(k).kv = v
          /\ rowOf(k).off = r.off
      BY <3>5, <3>6 DEF ReplaceKeeps
    <3>10. /\ rowOf(k).lp = rs[k].lp - m /\ rowOf(k).lp <= idx - m
           /\ (idx - m) - rowOf(k).lp = idx - rs[k].lp
      BY <3>1, <3>8, <3>9
    <3>11. \A j \in 0 .. idx - rs[k].lp - 1 :
              rowOf(k).kv[rowOf(k).lp + j] = rs[k].kv[rs[k].lp + j]
      BY <3>1, <3>7, <3>9
    <3> QED BY <3>1, <3>9, <3>10, <3>11
  <2> HIDE DEF rowOf
  <2>4. f.idx = idx - m /\ f.cap = size /\ f.rows = [k \in 1 .. Len(keep) |-> rowOf(k)]
    BY <2>2
  <2>5. f.rows \in Seq(Row(S, size)) /\ Len(f.rows) = Len(keep)
    BY <1>1, <2>3, <2>4
  <2>6. \A k \in 1 .. Len(keep) : f.rows[k] = rowOf(k)
    BY <2>4
  <2>7. \A k \in 1 .. Len(keep) : SameRow(c, c.rows[keep[k]], f, f.rows[k])
    <3>1. ASSUME NEW k \in 1 .. Len(keep)
          PROVE  SameRow(c, rs[k], f, rowOf(k))
      BY <2>1, <2>3, <2>4 DEF SameRow
    <3> QED BY <1>3, <2>6, <3>1
  <2>8. WellFormed(f, S)
    <3>1. f = [idx |-> f.idx, cap |-> f.cap, rows |-> f.rows]
      BY <2>2
    <3>2. f.idx \in Nat /\ f.cap \in Nat /\ f.idx <= f.cap
      BY <2>1, <2>4
    <3> QED BY <2>3, <2>4, <2>5, <2>6, <3>1, <3>2 DEF WellFormed, Shaped
  <2>9. \E k \in 1 .. Len(keep) : f.rows[k].lp = 0
    <3>1. PICK k \in 1 .. Len(keep) : m = rs[k].lp
      BY <1>6
    <3>2. f.rows[k].lp = rs[k].lp - m
      BY <2>3, <2>6
    <3> QED BY <3>1, <3>2
  <2>10. f.cap - f.idx = c.cap - c.idx
    <3>1. (cap - m) - (idx - m) = cap - idx
      OBVIOUS
    <3> QED BY <2>1, <2>4, <3>1
  <2> QED BY <2>5, <2>7, <2>8, <2>9, <2>10 DEF f
<1> QED BY <1>7, <1>8

-----------------------------------------------------------------------------
(* What pad_dummies owes to the rows of the batch.                         *)
DummiesKeep(S, c, extra) ==
    /\ WellFormed(PadDummies(c, extra), S)
    /\ Len(PadDummies(c, extra).rows) = Len(c.rows) + extra
    /\ PadDummies(c, extra).idx = c.idx /\ PadDummies(c, extra).cap = c.cap
    /\ \A b \in 1 .. Len(c.rows) : PadDummies(c, extra).rows[b] = c.rows[b]
    /\ \A e \in 1 .. extra : PadDummies(c, extra).rows[Len(c.rows) + e].lp = c.idx

(* BatchKVCache::pad_dummies leaves the real rows as they are, and the dummy
   rows it appends are all padding, so they attend to nothing.             *)
THEOREM PadDummiesKeepsRows ==
    ASSUME NEW S, Zero \in S, NEW c, WellFormed(c, S), NEW extra \in Nat
    PROVE  DummiesKeep(S, c, extra)
<1> SUFFICES /\ WellFormed(PadDummies(c, extra), S)
             /\ Len(PadDummies(c, extra).rows) = Len(c.rows) + extra
             /\ PadDummies(c, extra).idx = c.idx /\ PadDummies(c, extra).cap = c.cap
             /\ \A b \in 1 .. Len(c.rows) : PadDummies(c, extra).rows[b] = c.rows[b]
             /\ \A e \in 1 .. extra : PadDummies(c, extra).rows[Len(c.rows) + e].lp = c.idx
  BY DEF DummiesKeep
<1> DEFINE dummy == [lp |-> c.idx, off |-> 0, kv |-> Zeros(c.cap)]
           D == [e \in 1 .. extra |-> dummy]
           p == PadDummies(c, extra)
<1>1. /\ c.idx \in Nat /\ c.cap \in Nat /\ c.idx <= c.cap /\ c.rows \in Seq(Row(S, c.cap))
      /\ c = [idx |-> c.idx, cap |-> c.cap, rows |-> c.rows]
      /\ \A b \in 1 .. Len(c.rows) : c.rows[b].lp <= c.idx
  BY DEF WellFormed, Shaped
<1>2. dummy \in Row(S, c.cap) /\ dummy.lp = c.idx
  <2>1. Zeros(c.cap) \in [0 .. c.cap - 1 -> S]
    BY DEF Zeros
  <2> QED BY <1>1, <2>1 DEF Row
<1>3. p = [c EXCEPT !.rows = c.rows \o D]
  BY DEF PadDummies
<1> HIDE DEF dummy
<1>4. D \in Seq(Row(S, c.cap)) /\ Len(D) = extra /\ \A e \in 1 .. extra : D[e] = dummy
  BY <1>2
<1> HIDE DEF D, p
<1>5. p = [idx |-> c.idx, cap |-> c.cap, rows |-> c.rows \o D]
  <2>1. \A i, n, R, X : [[idx |-> i, cap |-> n, rows |-> R] EXCEPT !.rows = X]
                           = [idx |-> i, cap |-> n, rows |-> X]
    OBVIOUS
  <2> QED BY <1>1, <1>3, <2>1
<1>6. PICK k \in Nat, R \in Seq(Row(S, c.cap)), Q \in Seq(Row(S, c.cap)) :
         k = Len(R) /\ R = c.rows /\ Q = D
  BY <1>1, <1>4
<1>7. /\ R \o Q \in Seq(Row(S, c.cap)) /\ Len(R \o Q) = Len(R) + Len(Q)
      /\ \A b \in 1 .. Len(R) : (R \o Q)[b] = R[b]
      /\ \A b \in 1 .. Len(Q) : (R \o Q)[Len(R) + b] = Q[b]
  OBVIOUS
<1>8. /\ p.idx = c.idx /\ p.cap = c.cap /\ p.rows = R \o Q
      /\ p = [idx |-> p.idx, cap |-> p.cap, rows |-> p.rows]
  BY <1>5, <1>6
<1>9. Len(Q) = extra /\ \A e \in 1 .. extra : Q[e].lp = c.idx
  BY <1>2, <1>4, <1>6
<1>10. /\ Len(p.rows) = k + extra
       /\ \A b \in 1 .. k : p.rows[b] = c.rows[b]
       /\ \A e \in 1 .. extra : p.rows[k + e].lp = c.idx
  <2> DEFINE X == R \o Q
             kq == Len(Q)
             kr == Len(R)
  <2>1. Len(X) = kr + kq
    BY <1>7
  <2>2. \A b \in 1 .. kr : X[b] = R[b]
    BY <1>7
  <2>3. \A b \in 1 .. kq : X[kr + b] = Q[b]
    BY <1>7
  <2>4. kr = k /\ kq = extra /\ p.rows = X /\ R = c.rows
    BY <1>6, <1>8, <1>9
  <2> HIDE DEF X, kq, kr
  <2>5. Len(p.rows) = k + extra
    BY <2>1, <2>4
  <2>6. \A b \in 1 .. k : p.rows[b] = c.rows[b]
    BY <2>2, <2>4
  <2>7. \A e \in 1 .. extra : p.rows[k + e].lp = c.idx
    BY <2>3, <2>4, <1>9
  <2> QED BY <2>5, <2>6, <2>7
<1>11. ASSUME NEW b \in 1 .. k + extra
       PROVE  p.rows[b].lp <= c.idx
  <2>1. CASE b \in 1 .. k
    BY <1>1, <1>6, <1>10, <2>1
  <2>2. CASE b \notin 1 .. k
    <3>1. b - k \in 1 .. extra /\ b = k + (b - k)
      BY <2>2
    <3>2. p.rows[b].lp = c.idx
      BY <1>10, <3>1
    <3> QED BY <1>1, <3>2
  <2> QED BY <2>1, <2>2
<1>12. WellFormed(p, S)
  BY <1>1, <1>7, <1>8, <1>10, <1>11 DEF WellFormed, Shaped
<1> QED BY <1>6, <1>8, <1>10, <1>12 DEF p
-----------------------------------------------------------------------------
(* The growth of the axis.                                                 *)

(* A number of tokens rounded up to whole growth steps.                    *)
LEMMA RoundUpFacts ==
    ASSUME NEW n \in Nat
    PROVE  /\ RoundUp(n) \in Nat /\ n <= RoundUp(n) /\ RoundUp(n) < n + Step
           /\ n > 0 => Step <= RoundUp(n)
<1>1. Step \in Nat \ {0}
  BY StepAssumption
<1>2. PICK q \in Nat : q = (Step + n - 1) \div Step /\ q * Step <= Step + n - 1
                       /\ Step + n - 1 < q * Step + Step
  <2>1. \A a \in Nat : /\ a \div Step \in Nat /\ (a \div Step) * Step <= a
                       /\ a < (a \div Step) * Step + Step
    BY <1>1
  <2>2. Step + n - 1 \in Nat
    BY <1>1
  <2> QED BY <2>1, <2>2
<1>3. RoundUp(n) = q * Step
  BY <1>2 DEF RoundUp
<1>4. q * Step \in Nat
  BY <1>1
<1>5. n > 0 => Step <= q * Step
  <2>1. n > 0 => q # 0
    BY <1>1, <1>2
  <2>2. q # 0 => Step <= q * Step
    BY <1>1
  <2> QED BY <2>1, <2>2
<1> QED BY <1>1, <1>2, <1>3, <1>4, <1>5

(* It is monotone.                                                         *)
LEMMA RoundUpMonotone ==
    ASSUME NEW n \in Nat, NEW w \in Nat, n <= w
    PROVE  RoundUp(n) <= RoundUp(w)
<1>1. Step \in Nat \ {0}
  BY StepAssumption
<1>2. \A a \in Nat : /\ a \div Step \in Nat /\ (a \div Step) * Step <= a
                     /\ a < (a \div Step) * Step + Step
  BY <1>1
<1>3. PICK q \in Nat : q = (Step + n - 1) \div Step /\ q * Step <= Step + n - 1
  BY <1>1, <1>2
<1>4. PICK p \in Nat : p = (Step + w - 1) \div Step /\ Step + w - 1 < p * Step + Step
  BY <1>1, <1>2
<1>5. q * Step < (p + 1) * Step
  <2>1. (p + 1) * Step = p * Step + Step
    BY <1>1
  <2>2. p * Step \in Nat /\ q * Step \in Nat
    BY <1>1
  <2> QED BY <1>1, <1>3, <1>4, <2>1, <2>2
<1>6. q <= p
  <2>1. \A x, y \in Nat : y <= x => y * Step <= x * Step
    BY <1>1
  <2>2. ~(p + 1 <= q)
    <3>1. p + 1 \in Nat /\ (p + 1) * Step \in Nat /\ q * Step \in Nat
      BY <1>1
    <3> QED BY <1>5, <2>1, <3>1
  <2> QED BY <2>2
<1>7. q * Step <= p * Step
  BY <1>1, <1>6
<1> QED BY <1>3, <1>4, <1>7 DEF RoundUp

(* The axis grows to hold n more tokens and keeps what is populated.       *)
LEMMA GrowthFacts ==
    ASSUME NEW c, c.idx \in Nat, c.cap \in Nat, c.idx <= c.cap, NEW n \in Nat
    PROVE  /\ Kept(c, n) \in Nat /\ c.idx <= Kept(c, n) /\ Kept(c, n) <= c.cap
           /\ Grown(c, n) \in Nat /\ Kept(c, n) <= Grown(c, n) /\ c.idx + n <= Grown(c, n)
<1>1. RoundUp(n) \in Nat /\ n <= RoundUp(n)
  BY RoundUpFacts
<1>2. SliceLen(c.cap, c.idx) = c.idx
  BY DEF SliceLen, Larger, Lesser
<1>3. Kept(c, n) \in {c.cap, c.idx}
  BY <1>2 DEF Kept
<1>4. Kept(c, n) \in Nat /\ c.idx <= Kept(c, n) /\ Kept(c, n) <= c.cap
  BY <1>3
<1>5. CASE c.idx + n > c.cap
  <2>1. Grown(c, n) = Kept(c, n) + RoundUp(n)
    BY <1>5 DEF Grown
  <2> QED BY <1>1, <1>4, <2>1
<1>6. CASE ~(c.idx + n > c.cap)
  <2>1. Grown(c, n) = c.cap
    BY <1>6 DEF Grown
  <2> QED BY <1>4, <1>6, <2>1
<1> QED BY <1>5, <1>6

(* A pass of at most w tokens leaves less than w's whole steps unpopulated, if
   that was so before.                                                     *)
LEMMA GrowthIsTight ==
    ASSUME NEW c, c.idx \in Nat, c.cap \in Nat, c.idx <= c.cap,
           NEW n \in Nat \ {0}, NEW w \in Nat, n <= w, c.cap - c.idx < RoundUp(w)
    PROVE  Grown(c, n) - (c.idx + n) < RoundUp(w)
<1>1. PICK i \in Nat, k \in Nat, g \in Nat, t \in Nat, st \in Nat :
         /\ i = c.idx /\ k = c.cap /\ g = RoundUp(n) /\ t = RoundUp(w) /\ st = Step
  BY RoundUpFacts, StepAssumption
<1>2. n <= g /\ g < n + st /\ st <= t /\ g <= t /\ i <= k /\ k - i < t
  <2>1. w > 0
    OBVIOUS
  <2> QED BY <1>1, <2>1, RoundUpFacts, RoundUpMonotone
<1>3. CASE i + n > k /\ i % Step # 0
  <2>1. SliceLen(k, i) = i
    BY <1>2 DEF SliceLen, Larger, Lesser
  <2>2. Kept(c, n) = i /\ Grown(c, n) = i + g
    BY <1>1, <1>3, <2>1 DEF Kept, Grown
  <2>3. (i + g) - (i + n) < t
    BY <1>2
  <2> QED BY <1>1, <2>2, <2>3
<1>4. CASE i + n > k /\ ~(i % Step # 0)
  <2>1. Kept(c, n) = k /\ Grown(c, n) = k + g
    BY <1>1, <1>4 DEF Kept, Grown
  <2>2. (k + g) - (i + n) < t
    BY <1>2, <1>4
  <2> QED BY <1>1, <2>1, <2>2
<1>5. CASE ~(i + n > k)
  <2>1. Grown(c, n) = k
    BY <1>1, <1>5 DEF Grown
  <2>2. k - (i + n) < t
    BY <1>2
  <2> QED BY <1>1, <2>1, <2>2
<1> QED BY <1>3, <1>4, <1>5

-----------------------------------------------------------------------------
(* A forward pass.                                                         *)

(* Slots with tokens of T, computed in the ways V.                         *)
SlotsOver(T, V) == [ids : Seq(T), pos : Int, via : V]

(* The tokens and passes that every cache needs.                           *)
SlotTypes(T, V) == {"padding", "garbage"} \subseteq T /\ {"zeros", "prefill"} \subseteq V

(* The zeros of a fresh axis and a left-padding position are such slots.   *)
LEMMA BlankSlots ==
    ASSUME NEW T, NEW V, SlotTypes(T, V)
    PROVE  Zero \in SlotsOver(T, V) /\ Padding \in SlotsOver(T, V) /\ Garbage \in Seq(T)
<1>1. <<>> \in Seq(T) /\ <<"padding">> \in Seq(T) /\ <<"garbage">> \in Seq(T)
  BY DEF SlotTypes
<1> QED BY <1>1 DEF SlotTypes, SlotsOver, Zero, Padding, Garbage

(* What a row attends to stands for a sequence of tokens.                  *)
LEMMA ContextType ==
    ASSUME NEW T, NEW V, SlotTypes(T, V), NEW c, NEW r, c.idx \in Nat, c.cap \in Nat,
           c.idx <= c.cap, r.lp \in Nat, r.kv \in [0 .. c.cap - 1 -> SlotsOver(T, V)]
    PROVE  Context(c, r) \in Seq(T)
<1>1. CASE c.idx - r.lp <= 0
  BY <1>1 DEF Context
<1>2. CASE ~(c.idx - r.lp <= 0)
  <2>1. c.idx - 1 \in 0 .. c.cap - 1
    BY <1>2
  <2>2. r.kv[c.idx - 1].ids \in Seq(T)
    BY <2>1 DEF SlotsOver
  <2>3. Garbage \in Seq(T)
    BY BlankSlots
  <2> QED BY <1>2, <2>2, <2>3 DEF Context
<1> QED BY <1>1, <1>2

(* The slots that a pass leaves in row r.                                  *)
NewSlot(c, r, toks, via, i) ==
    IF i < r.lp THEN Padding
    ELSE [ids |-> Context(c, r) \o SubSeq(toks, PadSteps(c, r, Len(toks)) + 1, i - c.idx + 1),
          pos |-> r.off + i - c.idx, via |-> via]

(* The slots of a row after a pass.                                        *)
FedSlots(c, r, toks, via) ==
    [i \in 0 .. Grown(c, Len(toks)) - 1 |->
       IF i \in c.idx .. c.idx + Len(toks) - 1 THEN NewSlot(c, r, toks, via, i)
       ELSE IF i < Kept(c, Len(toks)) THEN r.kv[i] ELSE Zero]

(* A pass writes its tokens behind what a row holds, moves its RoPE offset on
   and touches nothing else.                                               *)
FedRow(c, r, toks, via, s, S) ==
    /\ s \in Row(S, Grown(c, Len(toks)))
    /\ s.lp = r.lp /\ s.off = r.off + Len(toks)
    /\ \A i \in 0 .. c.idx - 1 : s.kv[i] = r.kv[i]
    /\ \A i \in c.idx .. c.idx + Len(toks) - 1 : s.kv[i] = NewSlot(c, r, toks, via, i)

(* That is what ForwardRow does.                                           *)
LEMMA ForwardRowFacts ==
    ASSUME ~Hybrid, NEW T, NEW V, SlotTypes(T, V), NEW c, c.idx \in Nat, c.cap \in Nat,
           c.idx <= c.cap, NEW r \in Row(SlotsOver(T, V), c.cap), NEW toks \in Seq(T), NEW via \in V
    PROVE  FedRow(c, r, toks, via, ForwardRow(c, r, toks, via), SlotsOver(T, V))
<1> DEFINE S == SlotsOver(T, V)
           n == Len(toks)
           s == ForwardRow(c, r, toks, via)
           kv == FedSlots(c, r, toks, via)
<1>1. /\ n \in Nat /\ r.lp \in Nat /\ r.off \in Int /\ r.kv \in [0 .. c.cap - 1 -> S]
      /\ r = [lp |-> r.lp, off |-> r.off, kv |-> r.kv]
  BY DEF Row
<1>2. /\ Kept(c, n) \in Nat /\ c.idx <= Kept(c, n) /\ Kept(c, n) <= c.cap
      /\ Grown(c, n) \in Nat /\ Kept(c, n) <= Grown(c, n) /\ c.idx + n <= Grown(c, n)
  BY <1>1, GrowthFacts
<1>3. \A i \in c.idx .. c.idx + n - 1 : NewSlot(c, r, toks, via, i) \in S
  <2> SUFFICES ASSUME NEW i \in c.idx .. c.idx + n - 1
               PROVE  NewSlot(c, r, toks, via, i) \in S
    OBVIOUS
  <2>1. CASE i < r.lp
    BY <2>1, BlankSlots DEF NewSlot
  <2>2. CASE ~(i < r.lp)
    <3>1. Context(c, r) \in Seq(T)
      BY <1>1, ContextType
    <3>2. PICK k \in Nat : k = PadSteps(c, r, n)
      <4>1. \A x \in Int, y \in Nat : Lesser(y, Larger(0, x)) \in Nat
        BY DEF Larger, Lesser
      <4>2. r.lp - c.idx \in Int
        BY <1>1
      <4> QED BY <1>1, <4>1, <4>2 DEF PadSteps
    <3>3. PICK a \in Int, b \in Int : a = k + 1 /\ b = i - c.idx + 1 /\ 1 <= a /\ b <= n
      BY <1>1, SMTT(30)
    <3>4. SubSeq(toks, a, b) \in Seq(T)
      BY <1>1, <3>3
    <3>5. Context(c, r) \o SubSeq(toks, a, b) \in Seq(T)
      BY <3>1, <3>4
    <3>6. r.off + i - c.idx \in Int
      BY <1>1
    <3> QED BY <2>2, <3>2, <3>3, <3>5, <3>6 DEF NewSlot, SlotsOver
  <2> QED BY <2>1, <2>2
<1>4. kv \in [0 .. Grown(c, n) - 1 -> S]
  <2>1. Zero \in S
    BY BlankSlots
  <2>2. \A i \in 0 .. Grown(c, n) - 1 : i < Kept(c, n) => r.kv[i] \in S
    <3>1. \A i \in 0 .. Grown(c, n) - 1 : i < Kept(c, n) => i \in 0 .. c.cap - 1
      BY <1>2
    <3> QED BY <1>1, <3>1
  <2> HIDE DEF S
  <2> QED BY <1>3, <2>1, <2>2 DEF FedSlots
<1>5. s = [lp |-> r.lp, off |-> r.off + n, kv |-> kv]
  <2>1. s = [r EXCEPT !.off = r.off + n, !.kv = kv]
    BY DEF ForwardRow, FedSlots, NewSlot
  <2>2. s = [[r EXCEPT !.off = r.off + n] EXCEPT !.kv = kv]
    BY <2>1, Zenon
  <2>3. \A a, b, d, x : [[lp |-> a, off |-> b, kv |-> d] EXCEPT !.off = x]
                        = [lp |-> a, off |-> x, kv |-> d]
    OBVIOUS
  <2>4. \A a, b, d, x : [[lp |-> a, off |-> b, kv |-> d] EXCEPT !.kv = x]
                        = [lp |-> a, off |-> b, kv |-> x]
    OBVIOUS
  <2> HIDE DEF s, kv, n
  <2> QED BY <1>1, <2>2, <2>3, <2>4
<1>6. \A i \in 0 .. c.idx - 1 : kv[i] = r.kv[i]
  <2>1. \A i \in 0 .. c.idx - 1 : /\ i \in 0 .. Grown(c, n) - 1 /\ i < Kept(c, n)
                                  /\ i \notin c.idx .. c.idx + n - 1
    BY <1>1, <1>2
  <2> QED BY <2>1 DEF FedSlots
<1>7. \A i \in c.idx .. c.idx + n - 1 : kv[i] = NewSlot(c, r, toks, via, i)
  <2>1. \A i \in c.idx .. c.idx + n - 1 : i \in 0 .. Grown(c, n) - 1
    BY <1>1, <1>2
  <2> QED BY <2>1 DEF FedSlots
<1> HIDE DEF s, kv
<1>8. s.lp = r.lp /\ s.off = r.off + n /\ s.kv = kv
  BY <1>5
<1>9. s \in Row(S, Grown(c, n))
  <2>1. r.off + n \in Int
    BY <1>1
  <2> QED BY <1>1, <1>4, <1>5, <2>1 DEF Row
<1> QED BY <1>6, <1>7, <1>8, <1>9 DEF FedRow, s

(* What a pass of n tokens per row owes to the rows.                       *)
ForwardKeeps(S, c, toks, n, via) ==
    LET f == Forward(c, toks, via) IN
    /\ Shaped(f, S)
    /\ f.idx = c.idx + n /\ f.cap = Grown(c, n) /\ Len(f.rows) = Len(c.rows)
    /\ \A b \in 1 .. Len(c.rows) :
          FedRow(c, c.rows[b], toks[b], via, f.rows[b], S)

(* A pass of n tokens per row over a cache of models with K/V in layer 0: it grows
   the axis as needed and every row gets its tokens.                       *)
LEMMA ForwardFacts ==
    ASSUME ~Hybrid, NEW T, NEW V, SlotTypes(T, V), NEW c, Shaped(c, SlotsOver(T, V)),
           NEW toks \in Seq(Seq(T)), Len(toks) = Len(c.rows), NEW n \in Nat, Len(toks[1]) = n,
           \A b \in 1 .. Len(toks) : Len(toks[b]) = n, NEW via \in V
    PROVE  ForwardKeeps(SlotsOver(T, V), c, toks, n, via)
<1> DEFINE S == SlotsOver(T, V)
           f == Forward(c, toks, via)
           g(b) == ForwardRow(c, c.rows[b], toks[b], via)
<1>1. /\ c.idx \in Nat /\ c.cap \in Nat /\ c.idx <= c.cap /\ c.rows \in Seq(Row(S, c.cap))
      /\ Len(c.rows) \in Nat
  BY DEF Shaped
<1>2. f = [idx |-> c.idx + n, cap |-> Grown(c, n), rows |-> [b \in 1 .. Len(c.rows) |-> g(b)]]
  BY DEF Forward
<1>3. \A b \in 1 .. Len(c.rows) : FedRow(c, c.rows[b], toks[b], via, g(b), S)
  <2> SUFFICES ASSUME NEW b \in 1 .. Len(c.rows)
               PROVE  FedRow(c, c.rows[b], toks[b], via, g(b), S)
    OBVIOUS
  <2>1. c.rows[b] \in Row(S, c.cap) /\ toks[b] \in Seq(T)
    BY <1>1
  <2> HIDE DEF S
  <2> QED BY <1>1, <2>1, ForwardRowFacts DEF S
<1> HIDE DEF f, g, S
<1>4. /\ f.idx = c.idx + n /\ f.cap = Grown(c, n)
      /\ f.rows = [b \in 1 .. Len(c.rows) |-> g(b)]
      /\ f = [idx |-> f.idx, cap |-> f.cap, rows |-> f.rows]
  BY <1>2
<1>5. \A b \in 1 .. Len(c.rows) : g(b) \in Row(S, f.cap)
  BY <1>3, <1>4 DEF FedRow
<1>6. f.rows \in Seq(Row(S, f.cap)) /\ Len(f.rows) = Len(c.rows)
  BY <1>1, <1>4, <1>5
<1>7. f.idx \in Nat /\ f.cap \in Nat /\ f.idx <= f.cap
  BY <1>1, <1>4, GrowthFacts
<1>8. \A b \in 1 .. Len(c.rows) : FedRow(c, c.rows[b], toks[b], via, f.rows[b], S)
  BY <1>3, <1>4
<1>9. Shaped(f, S)
  BY <1>4, <1>6, <1>7 DEF Shaped
<1> QED BY <1>4, <1>6, <1>8, <1>9 DEF f, S, ForwardKeeps

-----------------------------------------------------------------------------
(* The slots of a batch and what a row of it holds.                        *)

(* A stretch of a sequence.                                                *)
LEMMA SliceFacts ==
    ASSUME NEW T, NEW s \in Seq(T), NEW a \in Nat \ {0}, NEW b \in Int, b <= Len(s), a <= b + 1
    PROVE  /\ SubSeq(s, a, b) \in Seq(T) /\ Len(SubSeq(s, a, b)) = b - a + 1
           /\ \A k \in 1 .. b - a + 1 : SubSeq(s, a, b)[k] = s[a + k - 1]
<1>1. SubSeq(s, a, b) \in Seq(T)
  OBVIOUS
<1>2. Len(SubSeq(s, a, b)) = b - a + 1
  OBVIOUS
<1>3. \A k \in 1 .. b - a + 1 : SubSeq(s, a, b)[k] = s[a + k - 1]
  OBVIOUS
<1> QED BY <1>1, <1>2, <1>3

(* A prefix of one.                                                        *)
LEMMA PrefixFacts ==
    ASSUME NEW T, NEW s \in Seq(T), NEW m \in Nat, m <= Len(s)
    PROVE  /\ SubSeq(s, 1, m) \in Seq(T) /\ Len(SubSeq(s, 1, m)) = m
           /\ \A k \in 1 .. m : SubSeq(s, 1, m)[k] = s[k]
<1>1. SubSeq(s, 1, m) \in Seq(T)
  OBVIOUS
<1>2. Len(SubSeq(s, 1, m)) = m
  OBVIOUS
<1>3. \A k \in 1 .. m : SubSeq(s, 1, m)[k] = s[k]
  OBVIOUS
<1> QED BY <1>1, <1>2, <1>3

(* Two sequences with the same elements are the same.                      *)
LEMMA SameElements ==
    ASSUME NEW T, NEW s \in Seq(T), NEW t \in Seq(T), Len(s) = Len(t),
           \A k \in 1 .. Len(s) : s[k] = t[k]
    PROVE  s = t
  BY SeqEqual

(* The prefix of a prefix.                                                 *)
LEMMA PrefixOfPrefix ==
    ASSUME NEW T, NEW s \in Seq(T), NEW m \in Nat, m <= Len(s), NEW j \in Nat, j <= m
    PROVE  SubSeq(SubSeq(s, 1, m), 1, j) = SubSeq(s, 1, j)
<1> DEFINE p == SubSeq(s, 1, m)
<1>1. p \in Seq(T) /\ Len(p) = m /\ \A k \in 1 .. m : p[k] = s[k]
  BY PrefixFacts
<1> HIDE DEF p
<1>2. /\ SubSeq(p, 1, j) \in Seq(T) /\ Len(SubSeq(p, 1, j)) = j
      /\ \A k \in 1 .. j : SubSeq(p, 1, j)[k] = s[k]
  <2>1. /\ SubSeq(p, 1, j) \in Seq(T) /\ Len(SubSeq(p, 1, j)) = j
        /\ \A k \in 1 .. j : SubSeq(p, 1, j)[k] = p[k]
    BY <1>1, PrefixFacts
  <2> QED BY <1>1, <2>1
<1>3. /\ SubSeq(s, 1, j) \in Seq(T) /\ Len(SubSeq(s, 1, j)) = j
      /\ \A k \in 1 .. j : SubSeq(s, 1, j)[k] = s[k]
  BY PrefixFacts
<1>4. SubSeq(p, 1, j) = SubSeq(s, 1, j)
  BY <1>2, <1>3, SameElements
<1> QED BY <1>4 DEF p

(* The first m elements of s, then the elements of a stretch of t that are the
   next ones of s, are the first m + k of s.                               *)
LEMMA PrefixGrows ==
    ASSUME NEW T, NEW s \in Seq(T), NEW t \in Seq(T), NEW m \in Nat, NEW a \in Nat, NEW b \in Nat,
           a <= b, b <= Len(t), m + (b - a) <= Len(s),
           \A k \in 1 .. b - a : t[a + k] = s[m + k]
    PROVE  SubSeq(s, 1, m) \o SubSeq(t, a + 1, b) = SubSeq(s, 1, m + (b - a))
<1> DEFINE p == SubSeq(s, 1, m)
<1>1. p \in Seq(T) /\ Len(p) = m /\ \A k \in 1 .. m : p[k] = s[k]
  BY PrefixFacts
<1> HIDE DEF p
<1>2. PICK n \in Nat : n = b - a
  OBVIOUS
<1>3. PICK q : /\ q = SubSeq(t, a + 1, b) /\ q \in Seq(T) /\ Len(q) = n
               /\ \A k \in 1 .. n : q[k] = s[m + k]
  <2>1. SubSeq(t, a + 1, b) \in Seq(T)
    OBVIOUS
  <2>2. Len(SubSeq(t, a + 1, b)) = n
    BY <1>2
  <2>3. \A k \in 1 .. n : SubSeq(t, a + 1, b)[k] = t[a + k]
    BY <1>2
  <2>4. \A k \in 1 .. n : t[a + k] = s[m + k]
    BY <1>2
  <2> QED BY <2>1, <2>2, <2>3, <2>4
<1> DEFINE w == SubSeq(s, 1, m + n)
<1>4. w \in Seq(T) /\ Len(w) = m + n /\ \A k \in 1 .. m + n : w[k] = s[k]
  <2>1. m + n \in Nat /\ m + n <= Len(s)
    BY <1>2
  <2> QED BY <2>1, PrefixFacts
<1> HIDE DEF w
<1>5. /\ p \o q \in Seq(T) /\ Len(p \o q) = m + n
      /\ \A k \in 1 .. m + n : (p \o q)[k] = IF k <= m THEN p[k] ELSE q[k - m]
  <2>1. /\ p \o q \in Seq(T) /\ Len(p \o q) = Len(p) + Len(q)
        /\ \A k \in 1 .. Len(p) + Len(q) : (p \o q)[k] = IF k <= Len(p) THEN p[k] ELSE q[k - Len(p)]
    <3>1. p \in Seq(T) /\ q \in Seq(T)
      BY <1>1, <1>3
    <3> QED BY ONLY <3>1, ConcatProperties
  <2> QED BY <1>1, <1>3, <2>1
<1>6. \A k \in 1 .. m + n : (p \o q)[k] = w[k]
  <2> SUFFICES ASSUME NEW k \in 1 .. m + n
               PROVE  (p \o q)[k] = w[k]
    OBVIOUS
  <2>1. CASE k <= m
    <3>1. k \in 1 .. m
      BY <2>1
    <3>2. (p \o q)[k] = p[k]
      BY <1>5, <2>1
    <3> QED BY <1>1, <1>4, <3>1, <3>2
  <2>2. CASE ~(k <= m)
    <3>1. k - m \in 1 .. n /\ m + (k - m) = k
      BY <2>2
    <3>2. (p \o q)[k] = q[k - m]
      BY <1>5, <2>2
    <3>3. q[k - m] = s[m + (k - m)]
      BY <1>3, <3>1
    <3> QED BY <1>4, <3>1, <3>2, <3>3
  <2> QED BY <2>1, <2>2
<1>7. p \o q = w
  BY <1>4, <1>5, <1>6, SameElements
<1> QED BY <1>2, <1>3, <1>7 DEF p, w

-----------------------------------------------------------------------------
(* What a slot may hold.                                                   *)
SlotToken == Token \cup {"garbage"}

(* The passes that write a slot.                                           *)
Pass == {"zeros", "prefill", "decode"}

(* A slot of the cache of this engine.                                     *)
Slot == SlotsOver(SlotToken, Pass)

(* The slot of logical token j of request r with history ids.              *)
SlotOf(r, ids, j) ==
    [ids |-> SubSeq(ids, 1, j + 1), pos |-> Position(r, j),
     via |-> IF j < Len(Prompt[r]) THEN "prefill" ELSE "decode"]

(* Row row of cache c holds the first n tokens of ids; nothing when n is
   negative and the row is still in its left padding.                      *)
Spans(c, row, r, ids, n) ==
    /\ c.idx - row.lp = n
    /\ \A j \in 0 .. n - 1 : row.kv[row.lp + j] = SlotOf(r, ids, j)

(* These are slots in the sense of the batch surgery.                      *)
LEMMA SlotFacts ==
    SlotTypes(SlotToken, Pass) /\ Token \subseteq SlotToken /\ Zero \in Slot
<1>1. SlotTypes(SlotToken, Pass) /\ Token \subseteq SlotToken
  BY DEF SlotTypes, SlotToken, Pass, Token
<1> QED BY <1>1, BlankSlots DEF Slot

(* The mask lets a row see the history it holds.                           *)
LEMMA ContextOf ==
    ASSUME NEW c, NEW row, NEW r, NEW ids \in Seq(Token), NEW m \in Nat \ {0}, m <= Len(ids),
           c.idx \in Nat, row.lp \in Nat, Spans(c, row, r, ids, m)
    PROVE  Context(c, row) = SubSeq(ids, 1, m)
<1>1. PICK i \in Nat, l \in Nat : i = c.idx /\ l = row.lp /\ i - l = m
  BY DEF Spans
<1>2. \A j \in 0 .. m - 1 : row.kv[l + j].ids = SubSeq(ids, 1, j + 1)
  <2>1. \A j \in 0 .. m - 1 : row.kv[l + j] = SlotOf(r, ids, j)
    BY <1>1 DEF Spans
  <2>2. \A j : SlotOf(r, ids, j).ids = SubSeq(ids, 1, j + 1)
    BY DEF SlotOf
  <2> QED BY <2>1, <2>2
<1>3. row.kv[i - 1].ids = SubSeq(ids, 1, m)
  <2>1. m - 1 \in 0 .. m - 1 /\ l + (m - 1) = i - 1 /\ (m - 1) + 1 = m
    BY <1>1
  <2> QED BY <1>2, <2>1
<1>4. Len(SubSeq(ids, 1, m)) = m
  BY SliceFacts
<1>5. \A j \in 1 .. m : row.kv[l + j - 1].ids = SubSeq(SubSeq(ids, 1, m), 1, j)
  <2> SUFFICES ASSUME NEW j \in 1 .. m
               PROVE  row.kv[l + j - 1].ids = SubSeq(SubSeq(ids, 1, m), 1, j)
    OBVIOUS
  <2>1. j - 1 \in 0 .. m - 1 /\ l + (j - 1) = l + j - 1 /\ (j - 1) + 1 = j
    OBVIOUS
  <2>2. row.kv[l + j - 1].ids = SubSeq(ids, 1, j)
    BY <1>2, <2>1
  <2>3. SubSeq(SubSeq(ids, 1, m), 1, j) = SubSeq(ids, 1, j)
    BY PrefixOfPrefix
  <2> QED BY <2>2, <2>3
<1>6. ~(m <= 0)
  OBVIOUS
<1> QED BY <1>1, <1>3, <1>4, <1>5, <1>6 DEF Context

(* The tokens of a pass are the next ones of ids, and the pass computes what a
   single-stream run would.                                                *)
NextOf(row, r, ids, m, toks, via) ==
    /\ m + Len(toks) <= Len(ids)
    /\ \A i \in 1 .. Len(toks) : m + i >= 1 => toks[i] = ids[m + i]
    /\ \A j \in Nat : m <= j /\ j < m + Len(toks) =>
          /\ row.off + (j - m) = Position(r, j)
          /\ via = IF j < Len(Prompt[r]) THEN "prefill" ELSE "decode"

(* Then the row holds them afterwards, behind what it held.                *)
LEMMA SpanForward ==
    ASSUME NEW c, NEW row, NEW r, NEW ids \in Seq(Token), NEW m \in Int, NEW toks \in Seq(Token),
           NEW via, NEW f, NEW s, NEW S,
           c.idx \in Nat, row.lp \in Nat, row.off \in Int, f.idx = c.idx + Len(toks),
           Spans(c, row, r, ids, m), FedRow(c, row, toks, via, s, S),
           NextOf(row, r, ids, m, toks, via)
    PROVE  Spans(f, s, r, ids, m + Len(toks))
<1>1. PICK i0 \in Nat, l \in Nat, n \in Nat, o \in Int :
         i0 = c.idx /\ l = row.lp /\ n = Len(toks) /\ i0 - l = m /\ o = row.off
  BY DEF Spans
<1>0. i0 - l = m
  BY <1>1
<1>2. f.idx - s.lp = m + n
  <2>1. f.idx = i0 + n /\ s.lp = l
    BY <1>1 DEF FedRow
  <2>2. (i0 + n) - l = m + n
    BY <1>0
  <2> QED BY <2>1, <2>2
<1>3. /\ m + n <= Len(ids)
      /\ \A i \in 1 .. n : m + i >= 1 => toks[i] = ids[m + i]
      /\ \A j \in Nat : m <= j /\ j < m + n =>
            /\ o + (j - m) = Position(r, j)
            /\ via = IF j < Len(Prompt[r]) THEN "prefill" ELSE "decode"
  BY <1>1 DEF NextOf
<1>4. ASSUME NEW j \in 0 .. m + n - 1
      PROVE  s.kv[s.lp + j] = SlotOf(r, ids, j)
  <2>1. PICK i \in Nat : i = l + j /\ s.lp + j = i
    <3>1. s.lp = l
      BY <1>1 DEF FedRow
    <3> QED BY <3>1
  <2>a. i = l + j
    BY <2>1
  <2>2. CASE j < m
    <3>1. i \in 0 .. i0 - 1 /\ j \in 0 .. m - 1
      BY <1>0, <2>a, <2>2
    <3>2. s.kv[i] = row.kv[i]
      BY <1>1, <3>1 DEF FedRow
    <3> QED BY <1>1, <2>1, <3>1, <3>2 DEF Spans
  <2>3. CASE ~(j < m)
    <3>1. i \in i0 .. i0 + n - 1 /\ ~(i < l) /\ i - i0 = j - m /\ o + i - i0 = o + (j - m)
      BY <1>0, <2>a, <2>3
    <3>2. s.kv[i] = NewSlot(c, row, toks, via, i)
      BY <1>1, <3>1 DEF FedRow
    <3>3. NewSlot(c, row, toks, via, i) =
            [ids |-> Context(c, row) \o SubSeq(toks, PadSteps(c, row, n) + 1, i - i0 + 1),
             pos |-> o + i - i0, via |-> via]
      BY <1>1, <3>1 DEF NewSlot
    <3>4. o + i - i0 = Position(r, j) /\ via = IF j < Len(Prompt[r]) THEN "prefill" ELSE "decode"
      <4>1. j \in Nat /\ m <= j /\ j < m + n
        BY <2>3
      <4>2. /\ o + (j - m) = Position(r, j)
            /\ via = IF j < Len(Prompt[r]) THEN "prefill" ELSE "decode"
        BY <1>3, <4>1
      <4> QED BY <3>1, <4>2
    <3>5. Context(c, row) \o SubSeq(toks, PadSteps(c, row, n) + 1, i - i0 + 1)
            = SubSeq(ids, 1, j + 1)
      <4>1. CASE m >= 1
        <5>1. Context(c, row) = SubSeq(ids, 1, m)
          <6>1. m \in Nat \ {0} /\ m <= Len(ids)
            BY <1>3, <4>1
          <6> QED BY <6>1, ContextOf, Zenon
        <5>2. PadSteps(c, row, n) = 0
          <6>1. Larger(0, l - i0) = 0 /\ Lesser(n, 0) = 0
            BY <1>1, <4>1, SMTT(30) DEF Larger, Lesser
          <6> QED BY <1>1, <6>1 DEF PadSteps
        <5>3. PICK b \in Nat : b = i - i0 + 1 /\ b <= n /\ m + (b - 0) = j + 1
          BY <3>1
        <5>4. \A k \in 1 .. b - 0 : toks[0 + k] = ids[m + k]
          BY <1>3, <4>1, <5>3
        <5>5. SubSeq(ids, 1, m) \o SubSeq(toks, 0 + 1, b) = SubSeq(ids, 1, m + (b - 0))
          <6>1. m \in Nat /\ b <= Len(toks) /\ m + (b - 0) <= Len(ids)
            BY <1>1, <1>3, <4>1, <5>3
          <6> QED BY <5>4, <6>1, PrefixGrows
        <5> QED BY <5>1, <5>2, <5>3, <5>5
      <4>2. CASE ~(m >= 1)
        <5>1. PICK a \in Nat : a = -m /\ a = l - i0
          BY <1>0, <4>2
        <5>2. Context(c, row) = <<>>
          BY <1>1, <4>2 DEF Context
        <5>3. PadSteps(c, row, n) = a
          <6>1. a < n
            BY <5>1
          <6>2. Larger(0, l - i0) = a /\ Lesser(n, a) = a
            BY <5>1, <6>1 DEF Larger, Lesser
          <6> QED BY <1>1, <6>2 DEF PadSteps
        <5>4. PICK b \in Nat : b = i - i0 + 1 /\ a <= b /\ b <= n /\ 0 + (b - a) = j + 1
          BY <3>1, <5>1
        <5>5. \A k \in 1 .. b - a : toks[a + k] = ids[0 + k]
          <6> SUFFICES ASSUME NEW k \in 1 .. b - a
                       PROVE  toks[a + k] = ids[0 + k]
            OBVIOUS
          <6>1. a + k \in 1 .. n /\ m + (a + k) = 0 + k /\ m + (a + k) >= 1
            BY <5>1, <5>4
          <6> QED BY <1>3, <6>1
        <5>6. SubSeq(ids, 1, 0) \o SubSeq(toks, a + 1, b) = SubSeq(ids, 1, 0 + (b - a))
          <6>1. b <= Len(toks) /\ 0 + (b - a) <= Len(ids)
            BY <1>1, <1>3, <5>4
          <6> QED BY <5>4, <5>5, <6>1, PrefixGrows
        <5>7. SubSeq(ids, 1, 0) = <<>>
          OBVIOUS
        <5> QED BY <5>2, <5>3, <5>4, <5>6, <5>7
      <4> QED BY <4>1, <4>2
    <3> QED BY <2>1, <3>2, <3>3, <3>4, <3>5 DEF SlotOf
  <2> QED BY <2>2, <2>3
<1> QED BY <1>1, <1>2, <1>4 DEF Spans

-----------------------------------------------------------------------------
(* Admission into the batch.                                               *)

(* Less than w slots are allocated and not populated, and not every row is
   padded.                                                                 *)
Tight(c, w) ==
    /\ c.cap - c.idx < w
    /\ \E b \in 1 .. Len(c.rows) : c.rows[b].lp = 0

(* What the worker keeps of a row.                                         *)
RowState == [req : Request, hist : Seq(Token), fin : BOOLEAN]

(* Row k of cache c holds the history of row, but for the token that is fed
   next; a cancelled row may hold that one too.                            *)
RowExact(c, k, row) ==
    /\ Len(row.hist) > Len(Prompt[row.req])
    /\ \E n \in {Len(row.hist) - 1, Len(row.hist)} :
         /\ row.fin \/ n = Len(row.hist) - 1
         /\ Spans(c, k, row.req, row.hist, n)
         /\ k.off = Position(row.req, n)

(* The batch: well formed, one cache row per row of the worker, every row
   exact, and no looser than w.                                            *)
BatchOK(c, rs, w) ==
    /\ WellFormed(c, Slot)
    /\ rs \in Seq(RowState) /\ Len(c.rows) = Len(rs)
    /\ \A b \in 1 .. Len(rs) : RowExact(c, c.rows[b], rs[b])
    /\ rs # <<>> => Tight(c, w)

(* Surgery that keeps what a row attends to keeps what it holds.           *)
LEMMA SameSpans ==
    ASSUME NEW c, NEW k, NEW d, NEW s, SameRow(c, k, d, s), NEW r, NEW ids, NEW n,
           Spans(c, k, r, ids, n)
    PROVE  Spans(d, s, r, ids, n)
<1>1. d.idx - s.lp = n
  BY Zenon DEF SameRow, Spans
<1>2. c.idx - k.lp - 1 = n - 1
  BY Zenon DEF Spans
<1>3. \A j \in 0 .. n - 1 : s.kv[s.lp + j] = SlotOf(r, ids, j)
  BY <1>2, Zenon DEF SameRow, Spans
<1> QED BY <1>1, <1>3, Zenon DEF Spans

(* So it keeps a row exact.                                                *)
LEMMA SameExact ==
    ASSUME NEW c, NEW k, NEW d, NEW s, SameRow(c, k, d, s), NEW row, RowExact(c, k, row)
    PROVE  RowExact(d, s, row)
<1>1. PICK n \in {Len(row.hist) - 1, Len(row.hist)} :
         /\ row.fin \/ n = Len(row.hist) - 1
         /\ Spans(c, k, row.req, row.hist, n)
         /\ k.off = Position(row.req, n)
  BY Zenon DEF RowExact
<1>2. Spans(d, s, row.req, row.hist, n)
  BY <1>1, SameSpans, Zenon
<1>3. s.off = Position(row.req, n)
  BY <1>1, Zenon DEF SameRow
<1> QED BY <1>1, <1>2, <1>3, Zenon DEF RowExact

(* A longer history says the same of the tokens that are held.             *)
LEMMA SpansAgree ==
    ASSUME NEW c, NEW k, NEW r, NEW ids \in Seq(Token), NEW n \in Nat, Spans(c, k, r, ids, n),
           NEW more \in Seq(Token), n <= Len(ids), n <= Len(more),
           \A i \in 1 .. n : more[i] = ids[i]
    PROVE  Spans(c, k, r, more, n)
<1>1. ASSUME NEW j \in 0 .. n - 1
      PROVE  SlotOf(r, ids, j) = SlotOf(r, more, j)
  <2>1. PICK m \in Nat : m = j + 1 /\ m <= Len(ids) /\ m <= Len(more) /\ m <= n
    OBVIOUS
  <2>2. /\ SubSeq(ids, 1, m) \in Seq(Token) /\ Len(SubSeq(ids, 1, m)) = m
        /\ \A i \in 1 .. m : SubSeq(ids, 1, m)[i] = ids[i]
    BY <2>1, PrefixFacts
  <2>3. /\ SubSeq(more, 1, m) \in Seq(Token) /\ Len(SubSeq(more, 1, m)) = m
        /\ \A i \in 1 .. m : SubSeq(more, 1, m)[i] = more[i]
    BY <2>1, PrefixFacts
  <2>4. \A i \in 1 .. m : more[i] = ids[i]
    BY <2>1
  <2>5. SubSeq(ids, 1, m) = SubSeq(more, 1, m)
    BY <2>2, <2>3, <2>4, SameElements
  <2> QED BY <2>1, <2>5 DEF SlotOf
<1> QED BY <1>1 DEF Spans

(* A prompt is a nonempty sequence of tokens.                              *)
LEMMA PromptType ==
    ASSUME NEW r \in Request
    PROVE  Prompt[r] \in Seq(Token) /\ Len(Prompt[r]) \in Nat \ {0} /\ "g" \in Token
           /\ "padding" \in Token
<1>1. Prompt[r] \in Seq(Token) /\ Len(Prompt[r]) > 0
  BY RequestAssumption
<1>2. Len(Prompt[r]) \in Nat
  BY <1>1
<1>3. "g" \in Token /\ "padding" \in Token
  BY DEF Token
<1> QED BY <1>1, <1>2, <1>3

(* The axis of two merged caches is no looser than theirs.                 *)
LEMMA MergeTight ==
    ASSUME ~Hybrid, NEW c, NEW d, WellFormed(c, Slot), WellFormed(d, Slot), NEW w \in Nat,
           Len(c.rows) # 0 => Tight(c, w), Tight(d, w)
    PROVE  Tight(Merge(c, d), w)
<1>1. Len(d.rows) # 0
  <2>1. PICK b \in 1 .. Len(d.rows) : d.rows[b].lp = 0
    BY DEF Tight
  <2>2. Len(d.rows) \in Nat
    BY DEF WellFormed, Shaped
  <2> QED BY <2>2
<1>2. CASE Len(c.rows) = 0
  <2>1. Merge(c, d) = d
    BY <1>1, <1>2 DEF Merge
  <2> QED BY <2>1
<1>3. CASE Len(c.rows) # 0
  <2> DEFINE m == Merge(c, d)
  <2>1. /\ m.idx = Larger(c.idx, d.idx) /\ m.cap = Larger(c.cap, d.cap)
        /\ WellFormed(m, Slot) /\ Len(m.rows) = Len(c.rows) + Len(d.rows)
        /\ \A b \in 1 .. Len(c.rows) : SameRow(c, c.rows[b], m, m.rows[b])
        /\ \A b \in 1 .. Len(d.rows) : SameRow(d, d.rows[b], m, m.rows[Len(c.rows) + b])
    <3>1. Zero \in Slot
      BY SlotFacts
    <3>2. MergeKeeps(Slot, c, d)
      BY <3>1, MergeKeepsRows
    <3> QED BY <1>1, <1>3, <3>2 DEF MergeKeeps
  <2> HIDE DEF m
  <2>2. PICK ci \in Nat, cc \in Nat, di \in Nat, dc \in Nat, mi \in Nat, mc \in Nat, k \in Nat, h \in Nat :
           /\ ci = c.idx /\ cc = c.cap /\ di = d.idx /\ dc = d.cap /\ mi = m.idx /\ mc = m.cap
           /\ k = Len(c.rows) /\ h = Len(d.rows) /\ mi = Larger(ci, di) /\ mc = Larger(cc, dc)
           /\ cc - ci < w /\ dc - di < w
    <3>1. /\ c.idx \in Nat /\ c.cap \in Nat /\ d.idx \in Nat /\ d.cap \in Nat
          /\ m.idx \in Nat /\ m.cap \in Nat /\ Len(c.rows) \in Nat /\ Len(d.rows) \in Nat
      BY <2>1 DEF WellFormed, Shaped
    <3>2. c.cap - c.idx < w /\ d.cap - d.idx < w
      BY <1>3 DEF Tight
    <3> QED BY <2>1, <3>1, <3>2
  <2>3. mc - mi < w
    <3>1. mi = Larger(ci, di) /\ mc = Larger(cc, dc) /\ cc - ci < w /\ dc - di < w
      BY <2>2
    <3> QED BY ONLY <3>1, ci \in Nat, cc \in Nat, di \in Nat, dc \in Nat, w \in Nat DEF Larger
  <2>4. CASE di < ci
    <3>1. PICK b \in 1 .. k : c.rows[b].lp = 0
      BY <1>3, <2>2 DEF Tight
    <3>a. Len(m.rows) = k + h
      BY <2>1, <2>2
    <3>2. SameRow(c, c.rows[b], m, m.rows[b]) /\ b \in 1 .. Len(m.rows)
      <4>1. b \in 1 .. k + h
        OBVIOUS
      <4>2. b \in 1 .. Len(c.rows)
        BY <2>2
      <4> QED BY <2>1, <3>a, <4>1, <4>2
    <3>3. m.rows[b].lp \in Nat
      BY <2>1, <3>2, RowParts
    <3>4. mi - m.rows[b].lp = ci - 0
      BY <2>2, <3>1, <3>2 DEF SameRow
    <3>5. mi = ci
      BY <2>2, <2>4 DEF Larger
    <3>6. m.rows[b].lp = 0
      BY <3>3, <3>4, <3>5
    <3> QED BY <2>2, <2>3, <3>2, <3>6 DEF Tight, m
  <2>5. CASE ~(di < ci)
    <3>1. PICK b \in 1 .. h : d.rows[b].lp = 0
      BY <2>2 DEF Tight
    <3>a. Len(m.rows) = k + h
      BY <2>1, <2>2
    <3>2. SameRow(d, d.rows[b], m, m.rows[k + b]) /\ k + b \in 1 .. Len(m.rows)
      <4>0. k + b \in 1 .. k + h
        OBVIOUS
      <4>1. b \in 1 .. Len(d.rows)
        BY <2>2
      <4>2. SameRow(d, d.rows[b], m, m.rows[Len(c.rows) + b])
        BY <2>1, <4>1
      <4> QED BY <2>2, <3>a, <4>0, <4>2
    <3>3. m.rows[k + b].lp \in Nat
      BY <2>1, <3>2, RowParts
    <3>4. mi - m.rows[k + b].lp = di - 0
      BY <2>2, <3>1, <3>2 DEF SameRow
    <3>5. mi = di
      BY <2>2, <2>5 DEF Larger
    <3>6. m.rows[k + b].lp = 0
      BY <3>3, <3>4, <3>5
    <3> QED BY <2>2, <2>3, <3>2, <3>6 DEF Tight, m
  <2> QED BY <2>4, <2>5
<1> QED BY <1>2, <1>3

(* A fresh cache that holds its rows becomes part of the batch.            *)
LEMMA AdoptKeeps ==
    ASSUME ~Hybrid, NEW c, NEW rs, NEW w \in Nat, BatchOK(c, rs, w),
           NEW d, WellFormed(d, Slot), Tight(d, w),
           NEW new \in Seq(RowState), Len(d.rows) = Len(new),
           \A b \in 1 .. Len(new) : RowExact(d, d.rows[b], new[b])
    PROVE  MergeFits(c, d) /\ BatchOK(Merge(c, d), rs \o new, w)
<1> DEFINE m == Merge(c, d)
           a == rs \o new
<1>1. /\ WellFormed(c, Slot) /\ rs \in Seq(RowState) /\ Len(c.rows) = Len(rs)
      /\ \A b \in 1 .. Len(rs) : RowExact(c, c.rows[b], rs[b])
      /\ rs # <<>> => Tight(c, w)
  BY DEF BatchOK
<1>2. Zero \in Slot
  BY SlotFacts
<1>3. /\ MergeFits(c, d) /\ WellFormed(m, Slot) /\ Len(m.rows) = Len(c.rows) + Len(d.rows)
      /\ \A b \in 1 .. Len(c.rows) : SameRow(c, c.rows[b], m, m.rows[b])
      /\ \A b \in 1 .. Len(d.rows) : SameRow(d, d.rows[b], m, m.rows[Len(c.rows) + b])
  <2>1. MergeKeeps(Slot, c, d)
    BY <1>1, <1>2, MergeKeepsRows
  <2> QED BY <2>1 DEF MergeKeeps
<1>4. Tight(m, w)
  <2>1. Len(c.rows) # 0 => rs # <<>>
    BY <1>1
  <2> QED BY <1>1, <2>1, MergeTight
<1> HIDE DEF m
<1>5. PICK k \in Nat, h \in Nat : k = Len(rs) /\ h = Len(new)
  BY <1>1
<1>6. /\ a \in Seq(RowState) /\ Len(a) = k + h
      /\ \A b \in 1 .. k + h : a[b] = IF b <= k THEN rs[b] ELSE new[b - k]
  BY <1>1, <1>5, ConcatProperties
<1> HIDE DEF a
<1>7. Len(m.rows) = k + h
  BY <1>1, <1>3, <1>5
<1>8. ASSUME NEW b \in 1 .. k + h
      PROVE  RowExact(m, m.rows[b], a[b])
  <2>1. CASE b <= k
    <3>1. b \in 1 .. Len(rs) /\ a[b] = rs[b]
      BY <1>5, <1>6, <2>1
    <3>2. SameRow(c, c.rows[b], m, m.rows[b]) /\ RowExact(c, c.rows[b], rs[b])
      BY <1>1, <1>3, <3>1
    <3> QED BY <3>1, <3>2, SameExact
  <2>2. CASE ~(b <= k)
    <3>1. PICK e \in 1 .. h : e = b - k /\ k + e = b
      BY <2>2
    <3>2. a[b] = new[e]
      BY <1>6, <2>2, <3>1
    <3>3. SameRow(d, d.rows[e], m, m.rows[b]) /\ RowExact(d, d.rows[e], new[e])
      BY <1>1, <1>3, <1>5, <3>1
    <3> QED BY <3>2, <3>3, SameExact
  <2> QED BY <2>1, <2>2
<1>9. BatchOK(m, a, w)
  BY <1>3, <1>4, <1>6, <1>7, <1>8 DEF BatchOK
<1> QED BY <1>3, <1>9 DEF m, a

(* The rows of a finished prefill start with their prompt.                 *)
LEMMA NewRowsExact ==
    ASSUME NEW reqs \in Seq(Request), NEW fins \in [1 .. Len(reqs) -> BOOLEAN], NEW d,
           \A b \in 1 .. Len(reqs) :
              /\ Spans(d, d.rows[b], reqs[b], Prompt[reqs[b]], Len(Prompt[reqs[b]]))
              /\ d.rows[b].off = Position(reqs[b], Len(Prompt[reqs[b]]))
    PROVE  /\ NewRows(reqs, fins) \in Seq(RowState) /\ Len(NewRows(reqs, fins)) = Len(reqs)
           /\ \A b \in 1 .. Len(reqs) : RowExact(d, d.rows[b], NewRows(reqs, fins)[b])
<1> DEFINE fresh(b) == [req |-> reqs[b], hist |-> Append(Prompt[reqs[b]], "g"),
                        fin |-> fins[b] \/ MaxGen = 1]
           new == NewRows(reqs, fins)
<1>0. new = [b \in 1 .. Len(reqs) |-> fresh(b)]
  BY DEF NewRows
<1>1. ASSUME NEW b \in 1 .. Len(reqs)
      PROVE  fresh(b) \in RowState /\ RowExact(d, d.rows[b], fresh(b))
  <2>1. PICK r \in Request : r = reqs[b]
    OBVIOUS
  <2> DEFINE p == Prompt[r]
             ids == Append(p, "g")
  <2>2. p \in Seq(Token) /\ Len(p) \in Nat \ {0} /\ "g" \in Token
    BY PromptType
  <2>3. ids \in Seq(Token) /\ Len(ids) = Len(p) + 1 /\ \A i \in 1 .. Len(p) : ids[i] = p[i]
    BY <2>2, AppendProperties
  <2>4. (fins[b] \/ MaxGen = 1) \in BOOLEAN
    BY Zenon
  <2>5. Spans(d, d.rows[b], r, p, Len(p)) /\ d.rows[b].off = Position(r, Len(p))
    BY <2>1
  <2> HIDE DEF p, ids
  <2>6. Spans(d, d.rows[b], r, ids, Len(p))
    <3>1. PICK n \in Nat : n = Len(p) /\ n <= Len(p) /\ n <= Len(ids)
      BY <2>2, <2>3
    <3>2. Spans(d, d.rows[b], r, p, n) /\ \A i \in 1 .. n : ids[i] = p[i]
      BY <2>3, <2>5, <3>1
    <3>3. Spans(d, d.rows[b], r, ids, n)
      BY <2>2, <2>3, <3>1, <3>2, SpansAgree
    <3> QED BY <3>1, <3>3
  <2>7. fresh(b) = [req |-> r, hist |-> ids, fin |-> fins[b] \/ MaxGen = 1]
    BY <2>1 DEF p, ids
  <2> HIDE DEF fresh
  <2>8. fresh(b) \in RowState /\ fresh(b).hist = ids /\ fresh(b).req = r
    BY <2>3, <2>4, <2>7 DEF RowState
  <2>9. Len(ids) - 1 = Len(p) /\ Len(ids) > Len(p)
    BY <2>2, <2>3
  <2>10. RowExact(d, d.rows[b], fresh(b))
    BY <2>5, <2>6, <2>8, <2>9 DEF RowExact, p
  <2> QED BY <2>8, <2>10
<1> HIDE DEF fresh, new
<1>2. Len(reqs) \in Nat
  OBVIOUS
<1>3. new \in Seq(RowState) /\ Len(new) = Len(reqs) /\ \A b \in 1 .. Len(reqs) : new[b] = fresh(b)
  BY <1>0, <1>1, <1>2
<1> QED BY <1>1, <1>3 DEF new

(* A finished prefill joins the batch.                                     *)
LEMMA AdmitKeeps ==
    ASSUME ~Hybrid, NEW c, NEW rs, NEW w \in Nat, BatchOK(c, rs, w),
           NEW d, WellFormed(d, Slot), Tight(d, w),
           NEW reqs \in Seq(Request), Len(d.rows) = Len(reqs),
           NEW fins \in [1 .. Len(reqs) -> BOOLEAN],
           \A b \in 1 .. Len(reqs) :
              /\ Spans(d, d.rows[b], reqs[b], Prompt[reqs[b]], Len(Prompt[reqs[b]]))
              /\ d.rows[b].off = Position(reqs[b], Len(Prompt[reqs[b]]))
    PROVE  MergeFits(c, d) /\ BatchOK(Merge(c, d), rs \o NewRows(reqs, fins), w)
<1>1. /\ NewRows(reqs, fins) \in Seq(RowState) /\ Len(NewRows(reqs, fins)) = Len(reqs)
      /\ \A b \in 1 .. Len(reqs) : RowExact(d, d.rows[b], NewRows(reqs, fins)[b])
  BY NewRowsExact
<1>2. PICK new \in Seq(RowState) : new = NewRows(reqs, fins)
  BY <1>1
<1>3. Len(d.rows) = Len(new) /\ \A b \in 1 .. Len(new) : RowExact(d, d.rows[b], new[b])
  BY <1>1, <1>2
<1>4. MergeFits(c, d) /\ BatchOK(Merge(c, d), rs \o new, w)
  BY <1>3, AdoptKeeps
<1> QED BY <1>2, <1>4

-----------------------------------------------------------------------------
(* Eviction.                                                               *)

(* An increasing sequence of n of the numbers up to n is all of them.      *)
LEMMA IncreasingIsIdentity ==
    ASSUME NEW n \in Nat, NEW k \in [1 .. n -> 1 .. n],
           \A i, j \in 1 .. n : i < j => k[i] < k[j]
    PROVE  \A i \in 1 .. n : k[i] = i
<1> DEFINE U == {i \in Nat : i \in 1 .. n => k[i] >= i}
           V == {i \in Nat : i < n => k[n - i] <= n - i}
<1>0. \A i \in 1 .. n : k[i] \in Nat /\ k[i] >= 1 /\ k[i] <= n
  OBVIOUS
<1>1. \A i \in Nat : i \in U
  <2>1. 0 \in U
    OBVIOUS
  <2>2. ASSUME NEW i \in Nat, i \in U
        PROVE  i + 1 \in U
    <3> SUFFICES ASSUME i + 1 \in 1 .. n
                 PROVE  k[i + 1] >= i + 1
      OBVIOUS
    <3>1. CASE i = 0
      BY <1>0, <3>1
    <3>2. CASE i # 0
      <4>1. i \in 1 .. n /\ i < i + 1
        BY <3>2
      <4>2. k[i] >= i /\ k[i] < k[i + 1]
        BY <2>2, <4>1
      <4> QED BY <1>0, <4>1, <4>2
    <3> QED BY <3>1, <3>2
  <2> HIDE DEF U
  <2> QED BY <2>1, <2>2, SetInduction
<1>2. \A i \in Nat : i \in V
  <2>1. 0 \in V
    BY <1>0
  <2>2. ASSUME NEW i \in Nat, i \in V
        PROVE  i + 1 \in V
    <3> SUFFICES ASSUME i + 1 < n
                 PROVE  k[n - (i + 1)] <= n - (i + 1)
      OBVIOUS
    <3>1. PICK a \in 1 .. n, b \in 1 .. n : a = n - (i + 1) /\ b = n - i /\ a < b /\ b = a + 1
      OBVIOUS
    <3>2. k[a] < k[b] /\ k[b] <= b
      BY <2>2, <3>1
    <3>3. k[a] <= a
      BY <1>0, <3>1, <3>2
    <3> QED BY <3>1, <3>3
  <2> HIDE DEF V
  <2> QED BY <2>1, <2>2, SetInduction
<1> SUFFICES ASSUME NEW i \in 1 .. n
             PROVE  k[i] = i
  OBVIOUS
<1>3. k[i] >= i
  BY <1>1
<1>4. k[i] <= i
  <2>1. n - i \in Nat /\ n - i < n /\ n - (n - i) = i
    OBVIOUS
  <2>2. n - i \in V
    BY <1>2, <2>1
  <2> QED BY <2>1, <2>2
<1> QED BY <1>0, <1>3, <1>4

-----------------------------------------------------------------------------
(* evict_finished: the rows that go on.                                    *)
Numbers(n) == [b \in 1 .. n |-> b]

(* The rows that have not finished.                                        *)
Going(rs) == {b \in DOMAIN rs : ~rs[b].fin}

(* keep names rows in order that have not finished, all of them when it is as
   long as the batch.                                                      *)
LEMMA KeptRows ==
    ASSUME NEW rs \in Seq(RowState), NEW keep, keep = Keep(Numbers(Len(rs)), Going(rs))
    PROVE  /\ keep \in Seq(1 .. Len(rs))
           /\ \A i \in 1 .. Len(keep) : ~rs[keep[i]].fin
           /\ Len(keep) = Len(rs) => \A i \in 1 .. Len(keep) : keep[i] = i
<1>1. PICK n \in Nat : n = Len(rs) /\ DOMAIN rs = 1 .. n
  OBVIOUS
<1> DEFINE s == Numbers(n)
           T == Going(rs)
           A == 1 .. n
<1>2. s \in Seq(A) /\ Len(s) = n /\ \A b \in 1 .. n : s[b] = b
  BY DEF Numbers
<1>3. \A b \in T : ~rs[b].fin
  BY DEF Going
<1> HIDE DEF s, T, A
<1>4. keep = Keep(s, T)
  BY <1>1 DEF s, T
<1>5. keep \in Seq(A) /\ \E e : Embeds(e, keep, s, T, Len(s))
  BY <1>2, <1>4, KeepEmbeds
<1>6. PICK e : Embeds(e, keep, s, T, n)
  BY <1>2, <1>5
<1>7. PICK k \in Nat : k = Len(keep)
  BY <1>5
<1>8. /\ e \in [1 .. k -> 1 .. n]
      /\ \A i, j \in 1 .. k : i < j => e[i] < e[j]
      /\ \A i \in 1 .. k : keep[i] = s[e[i]] /\ s[e[i]] \in T
  BY <1>6, <1>7 DEF Embeds
<1>9. \A i \in 1 .. k : keep[i] = e[i] /\ e[i] \in T
  BY <1>2, <1>8
<1>10. \A i \in 1 .. k : ~rs[keep[i]].fin
  BY <1>3, <1>9
<1>11. k = n => \A i \in 1 .. k : keep[i] = i
  <2> SUFFICES ASSUME k = n
               PROVE  \A i \in 1 .. n : keep[i] = i
    OBVIOUS
  <2>1. e \in [1 .. n -> 1 .. n] /\ \A i, j \in 1 .. n : i < j => e[i] < e[j]
    BY <1>8
  <2>2. \A i \in 1 .. n : e[i] = i
    BY <2>1, IncreasingIsIdentity
  <2> QED BY <1>9, <2>2
<1> QED BY <1>1, <1>5, <1>7, <1>10, <1>11 DEF A

(* The cache without rows.                                                 *)
LEMMA NoCacheFits ==
    ASSUME NEW w
    PROVE  BatchOK(NoCache, <<>>, w)
<1>1. <<>> \in Seq(RowState) /\ Len(<<>>) = 0 /\ \A S : <<>> \in Seq(S)
  OBVIOUS
<1>2. NoCache.idx = 0 /\ NoCache.cap = 0 /\ NoCache.rows = <<>>
  BY DEF NoCache
<1>3. NoCache = [idx |-> NoCache.idx, cap |-> NoCache.cap, rows |-> NoCache.rows]
  BY DEF NoCache
<1>4. Shaped(NoCache, Slot)
  BY <1>1, <1>2, <1>3 DEF Shaped
<1> QED BY <1>1, <1>2, <1>4 DEF BatchOK, WellFormed

(* Eviction keeps the batch.                                               *)
LEMMA EvictKeeps ==
    ASSUME NEW c, NEW rs, NEW w \in Nat, BatchOK(c, rs, w),
           NEW keep, keep = Keep(Numbers(Len(rs)), Going(rs)),
           NEW left, left = [d \in 1 .. Len(keep) |-> rs[keep[d]]],
           NEW d, d = IF Len(keep) = Len(rs) THEN c
                      ELSE IF keep = <<>> THEN NoCache ELSE Filter(c, keep)
    PROVE  BatchOK(d, left, w) /\ \A b \in 1 .. Len(left) : ~left[b].fin
<1>1. /\ WellFormed(c, Slot) /\ rs \in Seq(RowState) /\ Len(c.rows) = Len(rs)
      /\ \A b \in 1 .. Len(rs) : RowExact(c, c.rows[b], rs[b])
      /\ rs # <<>> => Tight(c, w)
  BY DEF BatchOK
<1>2. /\ keep \in Seq(1 .. Len(rs))
      /\ \A i \in 1 .. Len(keep) : ~rs[keep[i]].fin
      /\ Len(keep) = Len(rs) => \A i \in 1 .. Len(keep) : keep[i] = i
  BY <1>1, KeptRows
<1>3. PICK n \in Nat, k \in Nat : n = Len(rs) /\ k = Len(keep)
  BY <1>1, <1>2
<1>4. \A i \in 1 .. k : keep[i] \in 1 .. n /\ rs[keep[i]] \in RowState
  BY <1>1, <1>2, <1>3
<1>5. left \in Seq(RowState) /\ Len(left) = k /\ \A i \in 1 .. k : left[i] = rs[keep[i]]
  BY <1>3, <1>4
<1>6. \A b \in 1 .. Len(left) : ~left[b].fin
  BY <1>2, <1>3, <1>5
<1>7. CASE k = n
  <2>1. \A i \in 1 .. n : left[i] = rs[i]
    BY <1>2, <1>3, <1>5, <1>7
  <2>2. left = rs
    <3>1. Len(left) = Len(rs) /\ \A i \in 1 .. Len(left) : left[i] = rs[i]
      BY <1>3, <1>5, <1>7, <2>1
    <3> QED BY <1>1, <1>5, <3>1, SameElements
  <2>3. d = c
    BY <1>3, <1>7
  <2> QED BY <1>6, <2>2, <2>3
<1>8. CASE k # n /\ keep = <<>>
  <2>1. d = NoCache
    BY <1>3, <1>8
  <2>2. k = 0
    BY <1>3, <1>8
  <2>3. left = <<>>
    BY <1>5, <2>2
  <2> QED BY <1>6, <2>1, <2>3, NoCacheFits
<1>9. CASE k # n /\ keep # <<>>
  <2>1. d = Filter(c, keep)
    BY <1>3, <1>9
  <2>2. keep \in Seq(1 .. Len(c.rows))
    BY <1>1, <1>2
  <2>3. FilterKeeps(Slot, c, keep)
    BY <1>1, <1>9, <2>2, FilterKeepsRows
  <2>4. /\ WellFormed(d, Slot) /\ Len(d.rows) = k
        /\ \A i \in 1 .. k : SameRow(c, c.rows[keep[i]], d, d.rows[i])
        /\ \E i \in 1 .. k : d.rows[i].lp = 0
        /\ d.cap - d.idx = c.cap - c.idx
    BY <1>3, <2>1, <2>3 DEF FilterKeeps
  <2>5. \A i \in 1 .. k : RowExact(d, d.rows[i], left[i])
    <3> SUFFICES ASSUME NEW i \in 1 .. k
                 PROVE  RowExact(d, d.rows[i], left[i])
      OBVIOUS
    <3>1. SameRow(c, c.rows[keep[i]], d, d.rows[i]) /\ left[i] = rs[keep[i]]
      BY <1>5, <2>4
    <3>2. RowExact(c, c.rows[keep[i]], rs[keep[i]])
      BY <1>1, <1>3, <1>4
    <3> QED BY <3>1, <3>2, SameExact
  <2>6. Tight(d, w)
    <3>1. rs # <<>>
      BY <1>1, <1>3, <1>4, <2>4
    <3>2. c.cap - c.idx < w
      BY <1>1, <3>1 DEF Tight
    <3>3. d.cap - d.idx < w
      BY <2>4, <3>2
    <3> QED BY <2>4, <3>3 DEF Tight
  <2>7. BatchOK(d, left, w)
    BY <1>5, <2>4, <2>5, <2>6 DEF BatchOK
  <2> QED BY <1>6, <2>7
<1> QED BY <1>7, <1>8, <1>9

-----------------------------------------------------------------------------
(* decode_step.                                                            *)

(* A batch fits its bucket.                                                *)
LEMMA BucketFits ==
    ASSUME NEW n \in Nat
    PROVE  NextBucket(n) \in Nat /\ n <= NextBucket(n)
<1>1. CASE n <= 32
  <2> DEFINE B == {1, 2, 4, 8, 16, 32}
             P(b) == n <= b /\ \A a \in B : n <= a => b <= a
  <2>1. \E b \in B : P(b)
    <3>1. CASE n <= 1
      <4>1. P(1)
        BY <3>1
      <4> QED BY <4>1
    <3>2. CASE 1 < n /\ n <= 2
      <4>1. P(2)
        BY <3>2
      <4> QED BY <4>1
    <3>3. CASE 2 < n /\ n <= 4
      <4>1. P(4)
        BY <3>3
      <4> QED BY <4>1
    <3>4. CASE 4 < n /\ n <= 8
      <4>1. P(8)
        BY <3>4
      <4> QED BY <4>1
    <3>5. CASE 8 < n /\ n <= 16
      <4>1. P(16)
        BY <3>5
      <4> QED BY <4>1
    <3>6. CASE 16 < n /\ n <= 32
      <4>1. P(32)
        BY <3>6
      <4> QED BY <4>1
    <3> QED BY <1>1, <3>1, <3>2, <3>3, <3>4, <3>5, <3>6
  <2>2. NextBucket(n) = CHOOSE b \in B : P(b)
    BY <1>1 DEF NextBucket
  <2>3. NextBucket(n) \in B /\ P(NextBucket(n))
    <3> HIDE DEF B, P
    <3> QED BY <2>1, <2>2
  <2> QED BY <2>3
<1>2. CASE ~(n <= 32)
  <2>1. NextBucket(n) = ((n + 31) \div 32) * 32
    BY <1>2 DEF NextBucket
  <2>2. ((n + 31) \div 32) * 32 \in Nat /\ n <= ((n + 31) \div 32) * 32
    OBVIOUS
  <2> QED BY <2>1, <2>2
<1> QED BY <1>1, <1>2

-----------------------------------------------------------------------------
(* Decode steps.                                                           *)

(* Beyond the prompt, positions follow each other.                         *)
LEMMA NextPosition ==
    ASSUME NEW r \in Request, NEW m \in Nat, Len(Prompt[r]) <= m
    PROVE  Position(r, m) \in Int /\ Position(r, m + 1) = Position(r, m) + 1
<1>1. PICK l \in Nat : l = Len(Prompt[r]) /\ l <= m
  BY PromptType
<1>2. CASE r \in Image
  <2>1. PICK o \in Nat : o = DecodeOffset[r]
    BY <1>2, RequestAssumption
  <2>2. Position(r, m) = o + m - l /\ Position(r, m + 1) = o + (m + 1) - l
    <3>1. m >= Len(Prompt[r]) /\ m + 1 >= Len(Prompt[r])
      BY <1>1
    <3>2. Position(r, m) = DecodeOffset[r] + m - Len(Prompt[r])
      BY <1>2, <3>1 DEF Position
    <3>3. Position(r, m + 1) = DecodeOffset[r] + (m + 1) - Len(Prompt[r])
      BY <1>2, <3>1 DEF Position
    <3> QED BY <1>1, <2>1, <3>2, <3>3
  <2> QED BY <2>2
<1>3. CASE r \notin Image
  <2>1. Position(r, m) = m /\ Position(r, m + 1) = m + 1
    BY <1>3 DEF Position
  <2> QED BY <2>1
<1> QED BY <1>2, <1>3

(* A row that was fed its last token holds its history, whatever comes of the
   token.                                                                  *)
LEMMA DecodedExact ==
    ASSUME NEW c, NEW k, NEW row \in RowState, ~row.fin, RowExact(c, k, row),
           c.idx \in Nat, k.lp \in Nat, k.off \in Int, NEW f, f.idx = c.idx + 1, NEW s, NEW S,
           FedRow(c, k, <<Last(row.hist)>>, "decode", s, S),
           NEW out \in {"go", "stop", "cancel"}
    PROVE  Decoded(row, out) \in RowState /\ RowExact(f, s, Decoded(row, out))
<1>1. PICK r \in Request, ids \in Seq(Token), p \in Nat, n \in Nat :
         r = row.req /\ ids = row.hist /\ p = Len(Prompt[r]) /\ n = Len(ids)
  BY PromptType DEF RowState
<1>2. p < n /\ Spans(c, k, r, ids, n - 1) /\ k.off = Position(r, n - 1)
  BY <1>1 DEF RowExact
<1>3. PICK m \in Nat : m = n - 1 /\ m + 1 = n /\ p <= m
  BY <1>2
<1> DEFINE toks == <<Last(row.hist)>>
<1>4. toks \in Seq(Token) /\ Len(toks) = 1 /\ toks[1] = ids[n]
  <2>1. ids[n] \in Token
    BY <1>1, <1>3
  <2>2. Last(row.hist) = ids[n]
    BY <1>1 DEF Last
  <2> QED BY <2>1, <2>2
<1>t. FedRow(c, k, toks, "decode", s, S)
  OBVIOUS
<1> HIDE DEF toks
<1>5. Spans(c, k, r, ids, m) /\ k.off = Position(r, m)
  BY <1>2, <1>3
<1>6. Position(r, m) \in Int /\ Position(r, n) = Position(r, m) + 1
  BY <1>1, <1>3, NextPosition
<1>7. NextOf(k, r, ids, m, toks, "decode")
  <2>1. m + Len(toks) <= Len(ids)
    BY <1>1, <1>3, <1>4
  <2>2. \A i \in 1 .. Len(toks) : m + i >= 1 => toks[i] = ids[m + i]
    <3>1. \A i \in 1 .. Len(toks) : i = 1
      BY <1>4
    <3>2. toks[1] = ids[m + 1]
      BY <1>3, <1>4
    <3> QED BY <3>1, <3>2
  <2>3. ASSUME NEW j \in Nat, m <= j /\ j < m + Len(toks)
        PROVE  /\ k.off + (j - m) = Position(r, j)
               /\ "decode" = IF j < Len(Prompt[r]) THEN "prefill" ELSE "decode"
    <3>1. j = m
      BY <1>4, <2>3
    <3>2. k.off + (m - m) = Position(r, m)
      BY <1>5, <1>6
    <3>3. ~(m < Len(Prompt[r]))
      BY <1>1, <1>3
    <3> QED BY <3>1, <3>2, <3>3
  <2> QED BY <2>1, <2>2, <2>3 DEF NextOf
<1>8. Spans(f, s, r, ids, n)
  <2>1. f.idx = c.idx + Len(toks) /\ FedRow(c, k, toks, "decode", s, S)
    BY <1>4, <1>t
  <2>2. Spans(f, s, r, ids, m + Len(toks))
    <3>1. m \in Int
      OBVIOUS
    <3> QED BY <1>4, <1>5, <1>7, <2>1, <3>1, SpanForward, Zenon
  <2> QED BY <1>3, <1>4, <2>2
<1>9. s.off = Position(r, n)
  <2>1. s.off = k.off + Len(toks)
    BY <1>t DEF FedRow
  <2> QED BY <1>4, <1>5, <1>6, <2>1
<1>10. PICK x : row = [req |-> r, hist |-> ids, fin |-> x]
  <2>1. row = [req |-> r, hist |-> ids, fin |-> row.fin]
    BY <1>1 DEF RowState
  <2> QED BY <2>1, Zenon
<1>11. CASE out = "cancel"
  <2>1. Decoded(row, out) = [req |-> r, hist |-> ids, fin |-> TRUE]
    <3>1. Decoded(row, out) = [row EXCEPT !.fin = TRUE]
      BY <1>11 DEF Decoded
    <3>2. \A a, b, u, v : [[req |-> a, hist |-> b, fin |-> u] EXCEPT !.fin = v]
                            = [req |-> a, hist |-> b, fin |-> v]
      OBVIOUS
    <3> QED BY <1>10, <3>1, <3>2, Zenon
  <2>2. PICK d : d = Decoded(row, out)
    OBVIOUS
  <2>3. d.req = r /\ d.hist = ids /\ d.fin = TRUE /\ d \in RowState
    BY <2>1, <2>2 DEF RowState
  <2>4. Len(d.hist) > Len(Prompt[d.req]) /\ Len(d.hist) = n
    BY <1>1, <1>2, <2>3
  <2>5. RowExact(f, s, d)
    BY <1>8, <1>9, <2>3, <2>4 DEF RowExact
  <2> QED BY <2>2, <2>3, <2>5
<1>12. CASE out # "cancel"
  <2> DEFINE more == Append(ids, "g")
             fin == (out = "stop" \/ Len(row.hist) + 1 - Len(Prompt[row.req]) >= MaxGen)
  <2>1. Decoded(row, out) = [req |-> r, hist |-> more, fin |-> fin]
    <3>1. Decoded(row, out) = [[row EXCEPT !.hist = more] EXCEPT !.fin = fin]
      BY <1>1, <1>12, Zenon DEF Decoded
    <3>2. \A a, b, u, v : [[req |-> a, hist |-> b, fin |-> u] EXCEPT !.fin = v]
                            = [req |-> a, hist |-> b, fin |-> v]
      OBVIOUS
    <3>3. \A a, b, u, v : [[req |-> a, hist |-> b, fin |-> u] EXCEPT !.hist = v]
                            = [req |-> a, hist |-> v, fin |-> u]
      OBVIOUS
    <3> HIDE DEF more, fin
    <3> QED BY <1>10, <3>1, <3>2, <3>3, Zenon
  <2>2. fin \in BOOLEAN
    BY Zenon
  <2>3. /\ more \in Seq(Token) /\ Len(more) = n + 1 /\ \A i \in 1 .. n : more[i] = ids[i]
    <3>1. "g" \in Token
      BY PromptType
    <3> QED BY <1>1, <3>1, AppendProperties
  <2> HIDE DEF more, fin
  <2>4. PICK d : d = Decoded(row, out)
    OBVIOUS
  <2>5. d.req = r /\ d.hist = more /\ d.fin = fin /\ d \in RowState
    BY <2>1, <2>2, <2>3, <2>4 DEF RowState
  <2>6. Spans(f, s, r, more, n)
    <3>1. n <= Len(ids) /\ n <= Len(more)
      BY <1>1, <2>3
    <3> QED BY <1>8, <2>3, <3>1, SpansAgree
  <2>7. Len(d.hist) > Len(Prompt[d.req]) /\ Len(d.hist) - 1 = n
    <3>1. n + 1 > p /\ (n + 1) - 1 = n
      BY <1>2
    <3> QED BY <1>1, <2>3, <2>5, <3>1
  <2>8. RowExact(f, s, d)
    BY <1>9, <2>5, <2>6, <2>7 DEF RowExact
  <2> QED BY <2>4, <2>5, <2>8
<1> QED BY <1>11, <1>12

(* The tokens of a decode step, with B rows and extra dummies.             *)
FedTokens(rs, B, extra) ==
    [b \in 1 .. B + extra |-> << IF b <= B THEN Last(rs[b].hist) ELSE "padding" >>]

(* What the pass of a decode step owes to the B rows it decodes.           *)
PassKeeps(c, rs, ch, B, extra, padded, after) ==
    /\ ForwardFits(padded, 1)
    /\ WellFormed(after, Slot) /\ Len(after.rows) = B + extra
    /\ after.idx = c.idx + 1 /\ after.cap - after.idx < RoundUp(ch)
    /\ \E b \in 1 .. B : after.rows[b].lp = 0
    /\ \A b \in 1 .. B :
          FedRow(padded, c.rows[b], <<Last(rs[b].hist)>>, "decode", after.rows[b], Slot)
    /\ padded.idx = c.idx

(* The pass fits its axis and yields a tight, well-formed cache.           *)
LEMMA DecodePass ==
    ASSUME ~Hybrid, NEW c, NEW rs, NEW ch \in Nat \ {0}, BatchOK(c, rs, RoundUp(ch)), rs # <<>>,
           NEW B \in Nat, B = Len(rs), NEW extra \in Nat,
           NEW padded, padded = PadDummies(c, extra),
           NEW fed, fed = FedTokens(rs, B, extra),
           NEW after, after = Forward(padded, fed, "decode")
    PROVE  PassKeeps(c, rs, ch, B, extra, padded, after)
<1>1. /\ WellFormed(c, Slot) /\ rs \in Seq(RowState) /\ Len(c.rows) = B
      /\ \A b \in 1 .. B : RowExact(c, c.rows[b], rs[b])
      /\ Tight(c, RoundUp(ch))
  BY DEF BatchOK
<1>2. DummiesKeep(Slot, c, extra)
  BY <1>1, SlotFacts, PadDummiesKeepsRows
<1>3. /\ WellFormed(padded, Slot) /\ Len(padded.rows) = B + extra
      /\ padded.idx = c.idx /\ padded.cap = c.cap
      /\ \A b \in 1 .. B : padded.rows[b] = c.rows[b]
      /\ \A e \in 1 .. extra : padded.rows[B + e].lp = c.idx
  BY <1>1, <1>2 DEF DummiesKeep
<1>4. /\ c.idx \in Nat /\ c.cap \in Nat /\ c.idx <= c.cap
      /\ Shaped(padded, Slot) /\ \A b \in 1 .. B + extra : padded.rows[b].lp <= padded.idx
  BY <1>1, <1>3 DEF WellFormed, Shaped
<1>5. B >= 1
  BY <1>1
<1>6. \A b \in 1 .. B + extra : fed[b] \in Seq(SlotToken) /\ Len(fed[b]) = 1
  <2> SUFFICES ASSUME NEW b \in 1 .. B + extra
               PROVE  fed[b] \in Seq(SlotToken) /\ Len(fed[b]) = 1
    OBVIOUS
  <2>1. PICK t : t = (IF b <= B THEN Last(rs[b].hist) ELSE "padding") /\ fed[b] = <<t>>
    BY DEF FedTokens
  <2>2. CASE b <= B
    <3>1. b \in 1 .. B /\ t = Last(rs[b].hist)
      BY <2>1, <2>2
    <3>2. RowExact(c, c.rows[b], rs[b]) /\ rs[b] \in RowState
      BY <1>1, <3>1
    <3>3. PICK h \in Seq(Token) : h = rs[b].hist /\ rs[b].req \in Request
      BY <3>2 DEF RowState
    <3>4. Len(h) > Len(Prompt[rs[b].req])
      BY <3>2, <3>3 DEF RowExact
    <3>5. Len(h) \in 1 .. Len(h)
      BY <3>3, <3>4, PromptType
    <3>6. t \in Token
      BY <3>1, <3>3, <3>5 DEF Last
    <3>7. t \in SlotToken
      BY <3>6, SlotFacts
    <3> QED BY <2>1, <3>7
  <2>3. CASE ~(b <= B)
    <3>1. t \in SlotToken
      BY <2>1, <2>3 DEF SlotToken, Token
    <3> QED BY <2>1, <3>1
  <2> QED BY <2>2, <2>3
<1>7. fed \in Seq(Seq(SlotToken)) /\ Len(fed) = B + extra
  <2>1. fed = [b \in 1 .. B + extra |-> fed[b]]
    BY DEF FedTokens
  <2>2. B + extra \in Nat /\ \A b \in 1 .. B + extra : fed[b] \in Seq(SlotToken)
    BY <1>6
  <2>3. fed \in [1 .. B + extra -> Seq(SlotToken)]
    BY <2>1, <2>2
  <2> QED BY <2>2, <2>3
<1>8. ForwardKeeps(Slot, padded, fed, 1, "decode")
  <2>1. Len(fed) = Len(padded.rows) /\ Len(fed[1]) = 1 /\ \A b \in 1 .. Len(fed) : Len(fed[b]) = 1
    <3>1. 1 \in 1 .. B + extra
      BY <1>5
    <3> QED BY <1>3, <1>6, <1>7, <3>1
  <2>2. "decode" \in Pass
    BY DEF Pass
  <2>3. Shaped(padded, SlotsOver(SlotToken, Pass))
    BY <1>4 DEF Slot
  <2> QED BY <1>7, <2>1, <2>2, <2>3, SlotFacts, ForwardFacts DEF Slot
<1>9. /\ Shaped(after, Slot) /\ Len(after.rows) = B + extra
      /\ after.idx = c.idx + 1 /\ after.cap = Grown(padded, 1)
      /\ \A b \in 1 .. B + extra :
            FedRow(padded, padded.rows[b], fed[b], "decode", after.rows[b], Slot)
  BY <1>3, <1>8 DEF ForwardKeeps
<1>10. \A b \in 1 .. B + extra : after.rows[b].lp = padded.rows[b].lp
  BY <1>9 DEF FedRow
<1>11. WellFormed(after, Slot)
  <2>1. ASSUME NEW b \in 1 .. B + extra
        PROVE  after.rows[b].lp <= after.idx
    <3>1. padded.rows[b].lp \in Nat
      BY <1>3, RowParts
    <3>2. PICK l \in Nat, i \in Nat : l = after.rows[b].lp /\ i = c.idx /\ l <= i
      BY <1>3, <1>4, <1>10, <3>1
    <3>3. l <= i + 1
      BY <3>2
    <3> QED BY <1>9, <3>2, <3>3
  <2> QED BY <1>9, <2>1 DEF WellFormed
<1>12. after.cap - after.idx < RoundUp(ch)
  <2>1. c.cap - c.idx < RoundUp(ch)
    BY <1>1 DEF Tight
  <2>2. /\ padded.idx \in Nat /\ padded.cap \in Nat /\ padded.idx <= padded.cap
        /\ padded.cap - padded.idx < RoundUp(ch)
    BY <1>3, <1>4, <2>1
  <2>3. 1 \in Nat \ {0} /\ 1 <= ch /\ ch \in Nat
    OBVIOUS
  <2>4. Grown(padded, 1) - (padded.idx + 1) < RoundUp(ch)
    BY <2>2, <2>3, GrowthIsTight
  <2> QED BY <1>3, <1>9, <2>4
<1>13. ForwardFits(padded, 1)
  BY <1>3, <1>4, GrowthFacts DEF ForwardFits
<1>14. \E b \in 1 .. B : after.rows[b].lp = 0
  <2>1. PICK b \in 1 .. B : c.rows[b].lp = 0
    BY <1>1 DEF Tight
  <2>2. b \in 1 .. B + extra
    OBVIOUS
  <2> QED BY <1>3, <1>10, <2>1, <2>2
<1>15. \A b \in 1 .. B :
          FedRow(padded, c.rows[b], <<Last(rs[b].hist)>>, "decode", after.rows[b], Slot)
  <2> SUFFICES ASSUME NEW b \in 1 .. B
               PROVE  FedRow(padded, c.rows[b], <<Last(rs[b].hist)>>, "decode", after.rows[b], Slot)
    OBVIOUS
  <2>1. b \in 1 .. B + extra /\ b <= B
    OBVIOUS
  <2>2. fed[b] = <<Last(rs[b].hist)>>
    BY <2>1 DEF FedTokens
  <2> QED BY <1>3, <1>9, <2>1, <2>2
<1> QED BY <1>3, <1>9, <1>11, <1>12, <1>13, <1>14, <1>15 DEF PassKeeps

(* A decode step keeps the batch.                                          *)
LEMMA DecodeKeeps ==
    ASSUME ~Hybrid, NEW c, NEW rs, NEW ch \in Nat \ {0}, BatchOK(c, rs, RoundUp(ch)), rs # <<>>,
           \A b \in 1 .. Len(rs) : ~rs[b].fin,
           NEW B \in Nat, B = Len(rs), NEW extra \in Nat,
           NEW padded, padded = PadDummies(c, extra),
           NEW fed, fed = FedTokens(rs, B, extra),
           NEW after, after = Forward(padded, fed, "decode"),
           NEW out \in [1 .. B -> {"go", "stop", "cancel"}],
           NEW d, d = IF extra > 0 THEN Filter(after, Numbers(B)) ELSE after,
           NEW new, new = [b \in 1 .. B |-> Decoded(rs[b], out[b])]
    PROVE  BatchOK(d, new, RoundUp(ch))
<1>1. /\ WellFormed(c, Slot) /\ rs \in Seq(RowState) /\ Len(c.rows) = B
      /\ \A b \in 1 .. B : RowExact(c, c.rows[b], rs[b])
  BY DEF BatchOK
<1>2. /\ WellFormed(after, Slot) /\ Len(after.rows) = B + extra
      /\ after.idx = c.idx + 1 /\ after.cap - after.idx < RoundUp(ch)
      /\ \E b \in 1 .. B : after.rows[b].lp = 0
      /\ \A b \in 1 .. B :
            FedRow(padded, c.rows[b], <<Last(rs[b].hist)>>, "decode", after.rows[b], Slot)
      /\ padded.idx = c.idx
  <2>1. PassKeeps(c, rs, ch, B, extra, padded, after)
    BY DecodePass
  <2> QED BY <2>1 DEF PassKeeps
<1>3. \A b \in 1 .. B : new[b] \in RowState /\ RowExact(after, after.rows[b], new[b])
  <2> SUFFICES ASSUME NEW b \in 1 .. B
               PROVE  new[b] \in RowState /\ RowExact(after, after.rows[b], new[b])
    OBVIOUS
  <2>1. PICK row \in RowState, o \in {"go", "stop", "cancel"}, k \in {c.rows[b]} :
           row = rs[b] /\ ~row.fin /\ o = out[b] /\ k = c.rows[b]
    BY <1>1
  <2>2. RowExact(padded, k, row)
    BY <1>1, <1>2, <2>1 DEF RowExact, Spans
  <2>3. k.lp \in Nat /\ k.off \in Int /\ c.idx \in Nat
    BY <1>1, <2>1, RowParts DEF WellFormed, Shaped
  <2>4. FedRow(padded, k, <<Last(row.hist)>>, "decode", after.rows[b], Slot)
    BY <1>2, <2>1
  <2>5. padded.idx \in Nat /\ after.idx = padded.idx + 1
    BY <1>2, <2>3
  <2>6. Decoded(row, o) \in RowState /\ RowExact(after, after.rows[b], Decoded(row, o))
    BY <2>1, <2>2, <2>3, <2>4, <2>5, DecodedExact
  <2> QED BY <2>1, <2>6
<1>4. new \in Seq(RowState) /\ Len(new) = B
  <2>1. new \in [1 .. B -> RowState]
    BY <1>3
  <2> QED BY <2>1
<1>5. CASE extra > 0
  <2> DEFINE keep == Numbers(B)
  <2>1. /\ keep \in Seq(1 .. Len(after.rows)) /\ Len(keep) = B /\ keep # <<>>
        /\ \A b \in 1 .. B : keep[b] = b
    <3>1. \A b \in 1 .. B : b \in 1 .. B + extra
      OBVIOUS
    <3>2. B # 0
      BY <1>1
    <3>3. keep \in [1 .. B -> 1 .. B + extra] /\ \A b \in 1 .. B : keep[b] = b
      BY <3>1 DEF Numbers
    <3>4. keep \in Seq(1 .. B + extra) /\ Len(keep) = B
      BY <3>3
    <3>5. keep # <<>>
      BY <3>2, <3>4
    <3> QED BY <1>2, <3>3, <3>4, <3>5
  <2>2. d = Filter(after, keep)
    BY <1>5
  <2> HIDE DEF keep
  <2>3. FilterKeeps(Slot, after, keep)
    BY <1>2, <2>1, FilterKeepsRows
  <2>4. /\ WellFormed(d, Slot) /\ Len(d.rows) = B
        /\ \A b \in 1 .. B : SameRow(after, after.rows[b], d, d.rows[b])
        /\ \E b \in 1 .. B : d.rows[b].lp = 0
        /\ d.cap - d.idx = after.cap - after.idx
    BY <2>1, <2>2, <2>3 DEF FilterKeeps
  <2>5. \A b \in 1 .. B : RowExact(d, d.rows[b], new[b])
    BY <1>3, <2>4, SameExact
  <2>6. Tight(d, RoundUp(ch))
    <3>1. d.cap - d.idx < RoundUp(ch)
      BY <1>2, <2>4
    <3> QED BY <2>4, <3>1 DEF Tight
  <2> QED BY <1>4, <2>4, <2>5, <2>6 DEF BatchOK
<1>6. CASE ~(extra > 0)
  <2>1. d = after /\ Len(d.rows) = B
    BY <1>2, <1>6
  <2>2. Tight(d, RoundUp(ch))
    BY <1>2, <2>1 DEF Tight
  <2> QED BY <1>2, <1>3, <1>4, <2>1, <2>2 DEF BatchOK
<1> QED BY <1>5, <1>6

-----------------------------------------------------------------------------
(* Prefill in chunks.                                                      *)

(* The requests without an image.                                          *)
Text == Request \ Image

(* The tokens toks end with those of prompt p.                             *)
Feeds(toks, p) ==
    \A i \in 1 .. Len(toks) :
       i + (Len(p) - Len(toks)) >= 1 => toks[i] = p[i + (Len(p) - Len(toks))]

(* A prefill unit: as many token rows, all of one length, as cache rows and
   requests, each ending with the prompt of its request.                   *)
UnitShape(u) ==
    /\ u = [reqs |-> u.reqs, pos |-> u.pos, toks |-> u.toks, cache |-> u.cache]
    /\ u.reqs \in Seq(Text) /\ u.reqs # <<>>
    /\ u.toks \in Seq(Seq(Token)) /\ Len(u.toks) = Len(u.reqs)
    /\ \A b \in 1 .. Len(u.toks) : Len(u.toks[b]) = Len(u.toks[1])
    /\ \A b \in 1 .. Len(u.toks) : Feeds(u.toks[b], Prompt[u.reqs[b]])
    /\ u.pos \in Nat /\ u.pos <= Len(u.toks[1])
    /\ Shaped(u.cache, Slot) /\ Len(u.cache.rows) = Len(u.reqs)

(* A row of a unit holds what was fed of its prompt.                       *)
UnitRow(u, b) ==
    LET r == u.reqs[b]
        n == Len(Prompt[r]) - (Len(u.toks[b]) - u.pos)
    IN  Spans(u.cache, u.cache.rows[b], r, Prompt[r], n) /\ u.cache.rows[b].off = n

(* A unit that has absorbed exactly the tokens up to its position.         *)
UnitHolds(u, w) ==
    /\ UnitShape(u)
    /\ \A b \in 1 .. Len(u.reqs) : UnitRow(u, b)
    /\ Tight(u.cache, w)

(* And has a token left to compute logits from.                            *)
UnitOK(u, w) == UnitHolds(u, w) /\ u.pos < Len(u.toks[1])

(* A text request has its tokens at consecutive positions.                 *)
LEMMA TextFacts ==
    /\ Text \subseteq Request
    /\ \A r \in Text, j \in Int : Position(r, j) = j
<1>1. Text \subseteq Request /\ \A r \in Text : r \notin Image
  BY DEF Text
<1> QED BY <1>1 DEF Position

(* The tokens of a chunk: the next n of every row.                         *)
ChunkOf(u, n) == [b \in 1 .. Len(u.reqs) |-> SubSeq(u.toks[b], u.pos + 1, u.pos + n)]

(* What is next in a row of a unit.                                        *)
LEMMA ChunkRow ==
    ASSUME NEW u, UnitShape(u), NEW n \in Nat, u.pos + n <= Len(u.toks[1]),
           NEW b \in 1 .. Len(u.reqs), NEW m \in Int, NEW r, r = u.reqs[b],
           m = Len(Prompt[r]) - (Len(u.toks[b]) - u.pos), u.cache.rows[b].off = m
    PROVE  /\ ChunkOf(u, n)[b] \in Seq(Token) /\ Len(ChunkOf(u, n)[b]) = n
           /\ NextOf(u.cache.rows[b], r, Prompt[r], m, ChunkOf(u, n)[b], "prefill")
<1>1. PICK t \in Seq(Token), q \in Nat, pos \in Nat, p \in Seq(Token), l \in Nat :
         /\ t = u.toks[b] /\ q = Len(t) /\ pos = u.pos /\ p = Prompt[r] /\ l = Len(p)
         /\ q = Len(u.toks[1]) /\ Feeds(t, p) /\ r \in Text
  <2>1. b \in 1 .. Len(u.toks) /\ r \in Text
    BY DEF UnitShape
  <2>2. u.toks[b] \in Seq(Token) /\ Len(u.toks[b]) = Len(u.toks[1]) /\ u.pos \in Nat
        /\ Feeds(u.toks[b], Prompt[r])
    BY <2>1 DEF UnitShape
  <2>3. Prompt[r] \in Seq(Token) /\ Len(Prompt[r]) \in Nat
    BY <2>1, TextFacts, PromptType
  <2>4. Len(u.toks[b]) \in Nat /\ Len(u.toks[1]) \in Nat
    BY <2>2
  <2> QED BY <2>1, <2>2, <2>3, <2>4, Zenon
<1>2. pos + n <= q /\ m = l - (q - pos)
  BY <1>1
<1> DEFINE x == ChunkOf(u, n)[b]
<1>3. x = SubSeq(t, pos + 1, pos + n)
  BY <1>1 DEF ChunkOf
<1> HIDE DEF x
<1>4. x \in Seq(Token) /\ Len(x) = n /\ \A i \in 1 .. n : x[i] = t[pos + i]
  <2>2. pos + n <= Len(t)
    BY <1>1, <1>2
  <2>1. SubSeq(t, pos + 1, pos + n) \in Seq(Token)
    BY <2>2
  <2>3. Len(SubSeq(t, pos + 1, pos + n)) = n
    BY <2>2
  <2>4. \A i \in 1 .. n : SubSeq(t, pos + 1, pos + n)[i] = t[pos + i]
    BY <2>2
  <2> QED BY <1>3, <2>1, <2>3, <2>4
<1>5. m + Len(x) <= Len(p)
  <2>1. m + n <= l
    BY ONLY <1>2, m \in Int, l \in Nat, q \in Nat, pos \in Nat, n \in Nat
  <2> QED BY <1>1, <1>4, <2>1
<1>6. ASSUME NEW i \in 1 .. n, m + i >= 1
      PROVE  x[i] = p[m + i]
  <2>1. pos + i \in 1 .. q /\ (pos + i) + (l - q) = m + i
    BY ONLY <1>2, m \in Int, l \in Nat, q \in Nat, pos \in Nat, n \in Nat, i \in 1 .. n
  <2>2. t[pos + i] = p[(pos + i) + (l - q)]
    BY <1>1, <1>6, <2>1 DEF Feeds
  <2> QED BY <1>4, <2>1, <2>2
<1>7. ASSUME NEW j \in Nat, m <= j, j < m + n
      PROVE  /\ u.cache.rows[b].off + (j - m) = Position(r, j)
             /\ j < Len(Prompt[r])
  <2>1. m + (j - m) = j /\ Position(r, j) = j
    BY <1>1, TextFacts
  <2>2. j < l
    BY <1>2, <1>7
  <2> QED BY <1>1, <2>1, <2>2
<1>8. NextOf(u.cache.rows[b], r, p, m, x, "prefill")
  <2>1. \A i \in 1 .. Len(x) : m + i >= 1 => x[i] = p[m + i]
    BY <1>4, <1>6
  <2>2. \A j \in Nat : m <= j /\ j < m + Len(x) =>
           /\ u.cache.rows[b].off + (j - m) = Position(r, j)
           /\ "prefill" = IF j < Len(Prompt[r]) THEN "prefill" ELSE "decode"
    BY <1>4, <1>7
  <2> QED BY <1>5, <2>1, <2>2 DEF NextOf
<1> QED BY <1>1, <1>4, <1>8 DEF x

(* Unit u when n more tokens are fed and its cache is f.                   *)
Advanced(u, n, f) == [u EXCEPT !.pos = @ + n, !.cache = f]

(* A chunk of n tokens leaves a unit that holds them.                      *)
LEMMA ChunkKeeps ==
    ASSUME ~Hybrid, NEW ch \in Nat \ {0}, NEW u, UnitHolds(u, RoundUp(ch)),
           NEW n \in Nat \ {0}, n <= ch, u.pos + n <= Len(u.toks[1]),
           NEW f, f = Forward(u.cache, ChunkOf(u, n), "prefill"),
           NEW v, v = Advanced(u, n, f)
    PROVE  /\ UnitHolds(v, RoundUp(ch)) /\ v.pos = u.pos + n /\ v.cache = f
           /\ v.reqs = u.reqs /\ v.toks = u.toks
<1>1. /\ u = [reqs |-> u.reqs, pos |-> u.pos, toks |-> u.toks, cache |-> u.cache]
      /\ u.reqs \in Seq(Text) /\ u.reqs # <<>>
      /\ u.toks \in Seq(Seq(Token)) /\ Len(u.toks) = Len(u.reqs)
      /\ \A b \in 1 .. Len(u.toks) : Len(u.toks[b]) = Len(u.toks[1])
      /\ \A b \in 1 .. Len(u.toks) : Feeds(u.toks[b], Prompt[u.reqs[b]])
      /\ u.pos \in Nat /\ u.pos <= Len(u.toks[1])
      /\ Shaped(u.cache, Slot) /\ Len(u.cache.rows) = Len(u.reqs)
  BY DEF UnitHolds, UnitShape
<1>2. v = [reqs |-> u.reqs, pos |-> u.pos + n, toks |-> u.toks, cache |-> f]
  <2>1. v = [[u EXCEPT !.pos = u.pos + n] EXCEPT !.cache = f]
    BY Zenon DEF Advanced
  <2>2. \A a, b, x, y, z : [[reqs |-> a, pos |-> b, toks |-> x, cache |-> y] EXCEPT !.pos = z]
                         = [reqs |-> a, pos |-> z, toks |-> x, cache |-> y]
    OBVIOUS
  <2>3. \A a, b, x, y, z : [[reqs |-> a, pos |-> b, toks |-> x, cache |-> y] EXCEPT !.cache = z]
                         = [reqs |-> a, pos |-> b, toks |-> x, cache |-> z]
    OBVIOUS
  <2>4. PICK a, b, x, y : /\ u = [reqs |-> a, pos |-> b, toks |-> x, cache |-> y]
                          /\ a = u.reqs /\ x = u.toks
    BY <1>1, Zenon
  <2> QED BY <2>1, <2>2, <2>3, <2>4, Zenon
<1>3. v.reqs = u.reqs /\ v.pos = u.pos + n /\ v.toks = u.toks /\ v.cache = f
  BY <1>2
<1>4. PICK B \in Nat \ {0}, pos \in Nat, q \in Nat :
         B = Len(u.reqs) /\ pos = u.pos /\ q = Len(u.toks[1]) /\ pos + n <= q
  <2>1. 1 \in 1 .. Len(u.toks)
    BY <1>1
  <2>2. u.toks[1] \in Seq(Token)
    BY <1>1, <2>1
  <2>3. Len(u.toks[1]) \in Nat /\ Len(u.reqs) \in Nat \ {0}
    BY <1>1, <2>2
  <2> QED BY <1>1, <2>3, Zenon
<1> DEFINE x == ChunkOf(u, n)
           k(b) == u.cache.rows[b]
           m(b) == Len(Prompt[u.reqs[b]]) - (Len(u.toks[b]) - u.pos)
<1>5. ASSUME NEW b \in 1 .. B
      PROVE  /\ m(b) \in Int /\ Spans(u.cache, k(b), u.reqs[b], Prompt[u.reqs[b]], m(b))
             /\ k(b).off = m(b) /\ u.reqs[b] \in Text
             /\ Prompt[u.reqs[b]] \in Seq(Token)
  <2>1. u.reqs[b] \in Text /\ u.toks[b] \in Seq(Token)
    BY <1>1, <1>4
  <2>2. Prompt[u.reqs[b]] \in Seq(Token)
    BY <2>1, TextFacts, PromptType
  <2>3. UnitRow(u, b)
    BY <1>4 DEF UnitHolds
  <2>4. m(b) \in Int
    <3>1. Len(Prompt[u.reqs[b]]) \in Nat /\ Len(u.toks[b]) \in Nat /\ u.pos \in Nat
      BY <1>1, <2>1, <2>2, SMTT(30)
    <3>2. \A i, j, h \in Nat : i - (j - h) \in Int
      OBVIOUS
    <3> QED BY <3>1, <3>2, Zenon
  <2> QED BY <2>1, <2>2, <2>3, <2>4 DEF UnitRow
<1>6. ASSUME NEW b \in 1 .. B
      PROVE  /\ x[b] \in Seq(Token) /\ Len(x[b]) = n
             /\ NextOf(k(b), u.reqs[b], Prompt[u.reqs[b]], m(b), x[b], "prefill")
  <2>1. UnitShape(u) /\ b \in 1 .. Len(u.reqs)
    BY <1>4 DEF UnitHolds
  <2>2. PICK i \in Int : i = m(b)
    BY <1>5
  <2>3. k(b).off = i /\ i = Len(Prompt[u.reqs[b]]) - (Len(u.toks[b]) - u.pos)
    BY <1>5, <2>2
  <2>4. /\ x[b] \in Seq(Token) /\ Len(x[b]) = n
        /\ NextOf(k(b), u.reqs[b], Prompt[u.reqs[b]], i, x[b], "prefill")
    BY <2>1, <2>3, ChunkRow
  <2> QED BY <2>2, <2>4
<1>7. x = [b \in 1 .. B |-> x[b]]
  BY <1>4 DEF ChunkOf
<1> HIDE DEF x, k, m
<1>8. x \in Seq(Seq(SlotToken)) /\ Len(x) = B
  <2>1. \A b \in 1 .. B : x[b] \in Seq(SlotToken)
    BY <1>6, SlotFacts
  <2>2. x \in [1 .. B -> Seq(SlotToken)]
    BY <1>7, <2>1
  <2> QED BY <2>2
<1>9. ForwardKeeps(Slot, u.cache, x, n, "prefill")
  <2>1. Len(x) = Len(u.cache.rows) /\ Len(x[1]) = n /\ \A b \in 1 .. Len(x) : Len(x[b]) = n
    <3>1. 1 \in 1 .. B
      OBVIOUS
    <3> QED BY <1>1, <1>4, <1>6, <1>8, <3>1
  <2>2. "prefill" \in Pass /\ n \in Nat
    BY DEF Pass
  <2>3. Shaped(u.cache, SlotsOver(SlotToken, Pass))
    BY <1>1 DEF Slot
  <2> QED BY <1>8, <2>1, <2>2, <2>3, SlotFacts, ForwardFacts DEF Slot
<1>10. /\ Shaped(f, Slot) /\ Len(f.rows) = B
       /\ f.idx = u.cache.idx + n /\ f.cap = Grown(u.cache, n)
       /\ \A b \in 1 .. B : FedRow(u.cache, k(b), x[b], "prefill", f.rows[b], Slot)
  BY <1>1, <1>4, <1>9 DEF ForwardKeeps, x, k
<1>11. /\ u.cache.idx \in Nat /\ u.cache.cap \in Nat /\ u.cache.idx <= u.cache.cap
       /\ \A b \in 1 .. B : k(b).lp \in Nat /\ k(b).off \in Int
  <2>1. /\ u.cache.idx \in Nat /\ u.cache.cap \in Nat /\ u.cache.idx <= u.cache.cap
        /\ u.cache.rows \in Seq(Row(Slot, u.cache.cap))
    BY <1>1 DEF Shaped
  <2>2. \A b \in 1 .. B : u.cache.rows[b] \in Row(Slot, u.cache.cap)
    BY <1>1, <1>4, <2>1, SMTT(30)
  <2>3. \A b \in 1 .. B : u.cache.rows[b].lp \in Nat /\ u.cache.rows[b].off \in Int
    BY <2>2 DEF Row
  <2> QED BY <2>1, <2>3 DEF k
<1>12. ASSUME NEW b \in 1 .. B
       PROVE  UnitRow(v, b)
  <2>1. PICK i \in Int, r \in Text, p \in Seq(Token), t \in Seq(Token), o \in Int :
           i = m(b) /\ r = u.reqs[b] /\ p = Prompt[r] /\ t = x[b] /\ o = k(b).off
    BY <1>5, <1>6, <1>11
  <2>2. /\ Spans(u.cache, k(b), r, p, i) /\ o = i /\ Len(t) = n
        /\ NextOf(k(b), r, p, i, t, "prefill")
        /\ FedRow(u.cache, k(b), t, "prefill", f.rows[b], Slot)
        /\ f.idx = u.cache.idx + Len(t)
    BY <1>5, <1>6, <1>10, <2>1
  <2>3. Spans(f, f.rows[b], r, p, i + Len(t))
    BY <1>11, <2>2, SpanForward
  <2>4. f.rows[b].off = i + n
    <3>1. f.rows[b].off = k(b).off + Len(t)
      BY <2>2 DEF FedRow
    <3> QED BY <2>1, <2>2, <3>1
  <2>5. Len(Prompt[r]) - (Len(u.toks[b]) - (u.pos + n)) = i + n
    <3>1. u.toks[b] \in Seq(Token)
      BY <1>1, <1>4
    <3>2. PICK a \in Nat, e \in Nat : a = Len(p) /\ e = Len(u.toks[b])
      <4>1. Len(p) \in Nat /\ Len(u.toks[b]) \in Nat
        BY <3>1
      <4> QED BY <4>1, Zenon
    <3>3. i = a - (e - pos)
      BY <1>4, <2>1, <3>2 DEF m
    <3>4. a - (e - (pos + n)) = i + n
      BY <3>3
    <3> QED BY <1>4, <2>1, <3>2, <3>4
  <2> QED BY <1>3, <2>1, <2>2, <2>3, <2>4, <2>5 DEF UnitRow
<1>13. Tight(f, RoundUp(ch))
  <2>1. Tight(u.cache, RoundUp(ch))
    BY DEF UnitHolds
  <2>2. PICK b \in 1 .. B : k(b).lp = 0
    BY <1>1, <1>4, <2>1 DEF Tight, k
  <2>3. f.rows[b].lp = 0
    BY <1>10, <2>2 DEF FedRow
  <2>4. u.cache.cap - u.cache.idx < RoundUp(ch) /\ ch \in Nat
    BY <2>1 DEF Tight
  <2>5. Grown(u.cache, n) - (u.cache.idx + n) < RoundUp(ch)
    BY <1>11, <2>4, GrowthIsTight
  <2>6. f.cap - f.idx < RoundUp(ch)
    BY <1>10, <2>5
  <2> QED BY <1>10, <2>3, <2>6 DEF Tight
<1>14. UnitShape(v)
  <2>1. v.pos \in Nat /\ v.pos <= Len(v.toks[1])
    BY <1>3, <1>4
  <2>2. v = [reqs |-> v.reqs, pos |-> v.pos, toks |-> v.toks, cache |-> v.cache]
    BY <1>2, <1>3
  <2>3. Shaped(v.cache, Slot) /\ Len(v.cache.rows) = Len(v.reqs)
    BY <1>3, <1>4, <1>10
  <2>4. /\ v.reqs \in Seq(Text) /\ v.reqs # <<>>
        /\ v.toks \in Seq(Seq(Token)) /\ Len(v.toks) = Len(v.reqs)
    BY <1>1, <1>3
  <2>5. /\ \A b \in 1 .. Len(v.toks) : Len(v.toks[b]) = Len(v.toks[1])
        /\ \A b \in 1 .. Len(v.toks) : Feeds(v.toks[b], Prompt[v.reqs[b]])
    BY <1>1, <1>3
  <2> QED BY <2>1, <2>2, <2>3, <2>4, <2>5 DEF UnitShape
<1>15. UnitHolds(v, RoundUp(ch))
  <2>1. \A b \in 1 .. Len(v.reqs) : UnitRow(v, b)
    BY <1>3, <1>4, <1>12
  <2>2. Tight(v.cache, RoundUp(ch))
    BY <1>3, <1>13
  <2> QED BY <1>14, <2>1, <2>2 DEF UnitHolds
<1> QED BY <1>3, <1>15

(* A unit that was fed to the end holds the prompts of its requests.       *)
LEMMA UnitDone ==
    ASSUME NEW w \in Nat, NEW u, UnitHolds(u, w), u.pos = Len(u.toks[1])
    PROVE  /\ WellFormed(u.cache, Slot) /\ Tight(u.cache, w)
           /\ u.reqs \in Seq(Request) /\ Len(u.cache.rows) = Len(u.reqs)
           /\ \A b \in 1 .. Len(u.reqs) :
                 LET r == u.reqs[b] IN
                 /\ Spans(u.cache, u.cache.rows[b], r, Prompt[r], Len(Prompt[r]))
                 /\ u.cache.rows[b].off = Position(r, Len(Prompt[r]))
<1>1. /\ u.reqs \in Seq(Text) /\ u.toks \in Seq(Seq(Token)) /\ Len(u.toks) = Len(u.reqs)
      /\ \A b \in 1 .. Len(u.toks) : Len(u.toks[b]) = Len(u.toks[1])
      /\ Shaped(u.cache, Slot) /\ Len(u.cache.rows) = Len(u.reqs) /\ u.pos \in Nat
      /\ Tight(u.cache, w)
  BY DEF UnitHolds, UnitShape
<1>2. u.reqs \in Seq(Request)
  BY <1>1, TextFacts
<1>3. ASSUME NEW b \in 1 .. Len(u.reqs), NEW r, r = u.reqs[b]
      PROVE  /\ Spans(u.cache, u.cache.rows[b], r, Prompt[r], Len(Prompt[r]))
             /\ u.cache.rows[b].off = Position(r, Len(Prompt[r]))
             /\ u.cache.rows[b].lp <= u.cache.idx
  <2>1. r \in Text /\ Len(Prompt[r]) \in Nat
    BY <1>1, <1>3, TextFacts, PromptType
  <2>2. PICK l \in Nat : l = Len(Prompt[r])
    BY <2>1
  <2>3. UnitRow(u, b)
    BY DEF UnitHolds
  <2>4. Len(Prompt[r]) - (Len(u.toks[b]) - u.pos) = l
    <3>1. Len(u.toks[b]) = u.pos
      BY <1>1
    <3> QED BY <1>1, <2>2, <3>1
  <2>5. Spans(u.cache, u.cache.rows[b], r, Prompt[r], l) /\ u.cache.rows[b].off = l
    BY <1>3, <2>3, <2>4 DEF UnitRow
  <2>6. Position(r, l) = l
    BY <2>1, TextFacts
  <2>7. u.cache.rows[b].lp <= u.cache.idx
    <3>1. u.cache.rows[b].lp \in Nat /\ u.cache.idx \in Nat
      <4>1. u.cache.idx \in Nat /\ u.cache.rows \in Seq(Row(Slot, u.cache.cap))
        BY <1>1 DEF Shaped
      <4>2. u.cache.rows[b] \in Row(Slot, u.cache.cap)
        BY <1>1, <4>1
      <4> QED BY <4>1, <4>2 DEF Row
    <3>2. u.cache.idx - u.cache.rows[b].lp = l
      BY <2>5 DEF Spans
    <3> QED BY <3>1, <3>2
  <2> QED BY <2>2, <2>5, <2>6, <2>7
<1>4. WellFormed(u.cache, Slot)
  BY <1>1, <1>3 DEF WellFormed
<1> QED BY <1>1, <1>2, <1>3, <1>4

-----------------------------------------------------------------------------
(* The block pool.                                                         *)

(* A sequence without repetitions has as many elements as positions.       *)
LEMMA DistinctLength ==
    ASSUME NEW A, NEW s \in Seq(A), Distinct(s)
    PROVE  Cardinality(Range(s)) = Len(s)
<1>1. PICK n \in Nat : n = Len(s) /\ DOMAIN s = 1 .. n
  OBVIOUS
<1>2. s \in [1 .. n -> Range(s)]
  BY <1>1 DEF Range
<1>3. IsInjective(s)
  BY <1>1 DEF Distinct, IsInjective
<1>4. \A y \in Range(s) : \E x \in 1 .. n : s[x] = y
  BY <1>1 DEF Range
<1>5. s \in Bijection(1 .. n, Range(s))
  BY <1>2, <1>3, <1>4 DEF Bijection, Injection, Surjection
<1>6. ExistsBijection(1 .. n, Range(s))
  BY <1>5 DEF ExistsBijection
<1>7. Cardinality(Range(s)) = n
  BY <1>6, FS_CountingElements
<1> QED BY <1>1, <1>7

-----------------------------------------------------------------------------
(* A pooled block: it is what its key says.                                *)
BlockFor(k, bs) ==
    [j \in 1 .. bs |-> LET n == Len(k) - bs + j IN
                       [ids |-> SubSeq(k, 1, n), pos |-> n - 1, via |-> "prefill"]]

(* The entry of key k.                                                     *)
EntryFor(k, bs) == [key |-> k, block |-> BlockFor(k, bs)]

(* The entries that a pool may have.                                       *)
Entry(bs) == {EntryFor(k, bs) : k \in Seq(Token)}

(* A pool of such blocks, one per key, within the budget.                  *)
PoolOK(pool, bs, bytes) ==
    /\ pool \in Seq(Entry(bs)) /\ Distinct(pool)
    /\ bytes # 0 => Len(pool) * BlockBytes <= bytes

(* An entry is made from its key.                                          *)
LEMMA EntryFacts ==
    ASSUME NEW bs, NEW e \in Entry(bs)
    PROVE  /\ e.key \in Seq(Token) /\ e = EntryFor(e.key, bs) /\ e.block = BlockFor(e.key, bs)
           /\ e = [key |-> e.key, block |-> e.block]
<1>1. PICK k \in Seq(Token) : e = EntryFor(k, bs)
  BY DEF Entry
<1>2. e = [key |-> k, block |-> BlockFor(k, bs)]
  BY <1>1 DEF EntryFor
<1>3. e.key = k /\ e.block = BlockFor(k, bs)
  BY <1>2
<1> QED BY <1>1, <1>2, <1>3

(* The range of a pool, by either name.                                    *)
LEMMA PoolRange ==
    ASSUME NEW A, NEW pool \in Seq(A)
    PROVE  ToSet(pool) = Range(pool) /\ Range(pool) \subseteq A
  BY DEF ToSet, Range

(* The block of a pooled key is its entry's.                               *)
LEMMA BlockOfKey ==
    ASSUME NEW bs, NEW pool \in Seq(Entry(bs)), NEW k \in Pooled(pool)
    PROVE  /\ k \in Seq(Token) /\ BlockOf(pool, k) = BlockFor(k, bs)
           /\ [key |-> k, block |-> BlockOf(pool, k)] = EntryFor(k, bs)
           /\ EntryFor(k, bs) \in Range(pool)
<1>1. PICK e \in ToSet(pool) : e.key = k
  BY DEF Pooled
<1>2. PICK x : x = (CHOOSE y \in ToSet(pool) : y.key = k) /\ x \in ToSet(pool) /\ x.key = k
  BY <1>1
<1>3. x \in Entry(bs) /\ x \in Range(pool)
  BY <1>2, PoolRange
<1>4. k \in Seq(Token) /\ x = EntryFor(k, bs) /\ x.block = BlockFor(k, bs)
  BY <1>2, <1>3, EntryFacts
<1>5. BlockOf(pool, k) = BlockFor(k, bs)
  BY <1>2, <1>4 DEF BlockOf
<1> QED BY <1>3, <1>4, <1>5 DEF EntryFor

(* Entries of different keys are different.                                *)
LEMMA EntryKey ==
    ASSUME NEW bs, NEW k, NEW h, EntryFor(k, bs) = EntryFor(h, bs)
    PROVE  k = h
<1>1. EntryFor(k, bs).key = k /\ EntryFor(h, bs).key = h
  BY DEF EntryFor
<1> QED BY <1>1

(* BlockPool::get of pooled keys, none of them twice, reorders the pool.   *)
LEMMA BumpKeeps ==
    ASSUME NEW bs, NEW bytes, NEW pool, PoolOK(pool, bs, bytes),
           NEW ks \in Seq(Pooled(pool)), Distinct(ks)
    PROVE  PoolOK(Bump(pool, ks), bs, bytes) /\ Range(Bump(pool, ks)) = Range(pool)
<1> DEFINE A == Entry(bs)
           T == {e \in ToSet(pool) : e.key \notin ToSet(ks)}
           a == [i \in 1 .. Len(ks) |-> [key |-> ks[Len(ks) + 1 - i],
                                         block |-> BlockOf(pool, ks[Len(ks) + 1 - i])]]
           z == Keep(pool, T)
<1>1. pool \in Seq(A) /\ Distinct(pool)
  BY DEF PoolOK
<1>2. PICK n \in Nat : n = Len(ks) /\ DOMAIN ks = 1 .. n
  OBVIOUS
<1>3. \A i \in 1 .. n : n + 1 - i \in 1 .. n
  OBVIOUS
<1>4. \A i \in 1 .. n : ks[n + 1 - i] \in Pooled(pool)
  BY <1>2, <1>3
<1>5. \A i \in 1 .. n : a[i] = EntryFor(ks[n + 1 - i], bs) /\ a[i] \in Range(pool)
  BY <1>1, <1>2, <1>4, BlockOfKey
<1>6. Range(pool) \subseteq A /\ ToSet(pool) = Range(pool)
  BY <1>1, PoolRange
<1>7. Bump(pool, ks) = a \o z
  BY DEF Bump
<1>8. a = [i \in 1 .. n |-> a[i]]
  BY <1>2
<1> HIDE DEF a, A
<1>9. a \in Seq(A) /\ Len(a) = n
  <2>1. a \in [1 .. n -> A]
    BY <1>5, <1>6, <1>8
  <2> QED BY <2>1
<1>10. Distinct(a)
  <2> SUFFICES ASSUME NEW i \in 1 .. n, NEW j \in 1 .. n, a[i] = a[j]
               PROVE  i = j
    BY <1>9 DEF Distinct
  <2>1. ks[n + 1 - i] = ks[n + 1 - j]
    BY <1>5, EntryKey
  <2>2. n + 1 - i = n + 1 - j
    BY <1>2, <1>3, <2>1 DEF Distinct
  <2> QED BY <2>2
<1>11. Range(z) = Range(pool) \cap T /\ z \in Seq(A) /\ Distinct(z)
  <2> HIDE DEF T
  <2> QED BY <1>1, KeepRange, KeepEmbeds, KeepDistinct DEF z
<1>12. \A e \in Range(a) : e \in Range(pool) /\ e.key \in ToSet(ks)
  <2> SUFFICES ASSUME NEW i \in 1 .. n
               PROVE  a[i] \in Range(pool) /\ a[i].key \in ToSet(ks)
    BY <1>9 DEF Range
  <2>1. a[i].key = ks[n + 1 - i]
    <3>1. \A k : EntryFor(k, bs).key = k
      BY DEF EntryFor
    <3> QED BY <1>5, <3>1
  <2> QED BY <1>2, <1>3, <1>5, <2>1 DEF ToSet
<1>13. \A e \in Range(pool) : e.key \in ToSet(ks) => e \in Range(a)
  <2> SUFFICES ASSUME NEW e \in Range(pool), e.key \in ToSet(ks)
               PROVE  e \in Range(a)
    OBVIOUS
  <2>1. PICK j \in 1 .. n : e.key = ks[j]
    BY <1>2 DEF ToSet
  <2>2. n + 1 - j \in 1 .. n /\ n + 1 - (n + 1 - j) = j
    OBVIOUS
  <2>3. a[n + 1 - j] = EntryFor(ks[j], bs)
    BY <1>5, <2>2
  <2>4. e = EntryFor(ks[j], bs)
    BY <1>6, <2>1, EntryFacts DEF A
  <2> QED BY <1>9, <2>2, <2>3, <2>4 DEF Range
<1>14. Range(a) \cap Range(z) = {} /\ Range(a) \cup Range(z) = Range(pool)
  BY <1>6, <1>11, <1>12, <1>13
<1> HIDE DEF z
<1>15. a \o z \in Seq(A) /\ Range(a \o z) = Range(pool) /\ Distinct(a \o z)
  <2>1. a \o z \in Seq(A) /\ Range(a \o z) = Range(a) \cup Range(z)
    BY <1>9, <1>11, ConcatDistinct
  <2>2. Distinct(a \o z)
    BY <1>9, <1>10, <1>11, <1>14, ConcatDistinct
  <2> QED BY <1>14, <2>1, <2>2
<1>16. Len(a \o z) = Len(pool)
  BY <1>1, <1>15, DistinctLength
<1>17. PoolOK(a \o z, bs, bytes)
  BY <1>15, <1>16 DEF PoolOK, A
<1> QED BY <1>7, <1>15, <1>17

(* BlockPool::insert keeps the pool.                                       *)
LEMMA InsertKeeps ==
    ASSUME NEW bs, PoolBytes \in Nat, NEW pool, PoolOK(pool, bs, PoolBytes), NEW e \in Entry(bs)
    PROVE  PoolOK(Insert(pool, e), bs, PoolBytes)
<1>1. pool \in Seq(Entry(bs)) /\ Distinct(pool) /\ Len(pool) \in Nat
  BY DEF PoolOK
<1>2. CASE e.key \in Pooled(pool) \/ (PoolBytes # 0 /\ BlockBytes > PoolBytes)
  BY <1>2 DEF Insert
<1>3. CASE ~(e.key \in Pooled(pool) \/ (PoolBytes # 0 /\ BlockBytes > PoolBytes))
  <2> DEFINE A == Entry(bs)
             g == <<e>> \o pool
             over == PoolBytes # 0 /\ Len(g) * BlockBytes > PoolBytes
  <2>1. <<e>> \in Seq(A) /\ Distinct(<<e>>) /\ Range(<<e>>) = {e}
    BY DEF Distinct, Range
  <2>2. e \notin Range(pool)
    <3>1. e \in ToSet(pool) => e.key \in Pooled(pool)
      BY DEF Pooled
    <3> QED BY <1>1, <1>3, <3>1, PoolRange
  <2>3. g \in Seq(A) /\ Distinct(g)
    <3> HIDE DEF A
    <3> QED BY <1>1, <2>1, <2>2, ConcatDistinct DEF A
  <2>4. PICK n \in Nat : n = Len(pool) /\ Len(g) = n + 1
    BY <1>1
  <2>5. Insert(pool, e) = IF over THEN Front(g) ELSE g
    BY <1>3 DEF Insert
  <2> HIDE DEF g, A
  <2>6. CASE over
    <3> DEFINE f == Front(g)
    <3>1. f = SubSeq(g, 1, n)
      BY <2>4 DEF Front
    <3>2. f \in Seq(A) /\ Len(f) = n /\ \A i \in 1 .. n : f[i] = g[i]
      BY <2>3, <2>4, <3>1, PrefixFacts
    <3>3. Distinct(f)
      BY <2>3, <2>4, <3>2 DEF Distinct
    <3> HIDE DEF f
    <3>4. PoolBytes # 0 => Len(f) * BlockBytes <= PoolBytes
      BY <2>4, <3>2 DEF PoolOK
    <3> QED BY <2>5, <2>6, <3>2, <3>3, <3>4 DEF PoolOK, f, A
  <2>7. CASE ~over
    <3>1. PoolBytes # 0 => Len(g) * BlockBytes <= PoolBytes
      <4>1. Len(g) * BlockBytes \in Nat
        BY <2>4, BoundAssumption
      <4> QED BY <2>7, <4>1
    <3> QED BY <2>3, <2>5, <2>7, <3>1 DEF PoolOK, A
  <2> QED BY <2>6, <2>7
<1> QED BY <1>2, <1>3

-----------------------------------------------------------------------------
(* Matching a prompt in the pool.                                          *)

(* The engine's options are numbers, and a chunk has a token.              *)
LEMMA EngineFacts ==
    ASSUME engine \in Engine
    PROVE  /\ BlockSize \in Nat /\ PoolBytes \in Nat /\ PrefillChunk \in Nat
           /\ Chunk \in Nat \ {0}
<1>1. BlockSize \in Nat /\ PoolBytes \in Nat /\ PrefillChunk \in Nat
  BY EngineAssumption DEF BlockSize, PoolBytes, PrefillChunk
<1>2. PrefillStep \in Nat \ {0}
  BY BoundAssumption
<1> QED BY <1>1, <1>2 DEF Chunk

(* The block boundaries of a sequence of length l.                         *)
LEMMA BlockBounds ==
    ASSUME NEW bs \in Nat \ {0}, NEW l \in Nat, NEW b \in 1 .. l \div bs
    PROVE  /\ b * bs \in Nat \ {0} /\ (b - 1) * bs \in Nat
           /\ b * bs = (b - 1) * bs + bs /\ b * bs <= l
<1>1. (l \div bs) \in Nat /\ (l \div bs) * bs <= l
  OBVIOUS
<1>2. PICK q \in Nat : q = l \div bs /\ q * bs <= l /\ b <= q
  BY <1>1
<1>3. b \in Nat \ {0} /\ b - 1 \in Nat
  BY <1>2
<1>4. b * bs \in Nat \ {0} /\ (b - 1) * bs \in Nat /\ b * bs = (b - 1) * bs + bs
  BY <1>3
<1>5. b * bs <= q * bs
  BY <1>2, <1>3
<1>6. q * bs \in Nat
  OBVIOUS
<1> QED BY <1>2, <1>4, <1>5, <1>6

(* Different blocks end at different places.                               *)
LEMMA BlockOrder ==
    ASSUME NEW bs \in Nat \ {0}, NEW a \in Nat, NEW b \in Nat, a * bs = b * bs
    PROVE  a = b
  OBVIOUS

(* The keys of the blocks of ids: their lengths tell them apart.           *)
LEMMA KeyFacts ==
    ASSUME BlockSize \in Nat \ {0}, NEW ids \in Seq(Token),
           NEW b \in 1 .. Len(ids) \div BlockSize
    PROVE  Key(ids, b) \in Seq(Token) /\ Len(Key(ids, b)) = b * BlockSize
<1>1. b * BlockSize \in Nat /\ b * BlockSize <= Len(ids)
  BY BlockBounds, SMTT(30)
<1> QED BY <1>1, PrefixFacts DEF Key

(* PrefixCache::match finds leading blocks that are pooled.                *)
LEMMA MatchFacts ==
    ASSUME BlockSize \in Nat, NEW ids \in Seq(Token), NEW pool
    PROVE  /\ MatchBlocks(pool, ids) \in Nat
           /\ BlockSize = 0 => MatchBlocks(pool, ids) = 0
           /\ BlockSize # 0 =>
                /\ MatchBlocks(pool, ids) <= Len(ids) \div BlockSize
                /\ \A b \in 1 .. MatchBlocks(pool, ids) : Key(ids, b) \in Pooled(pool)
<1>1. CASE BlockSize = 0
  BY <1>1 DEF MatchBlocks
<1>2. CASE BlockSize # 0
  <2>1. PICK K \in Nat : K = Len(ids) \div BlockSize
    BY <1>2
  <2> DEFINE In(b) == Key(ids, b) \in Pooled(pool)
             P(n) == (\A b \in 1 .. n : In(b)) /\ (n = K \/ ~In(n + 1))
             T == {n \in 0 .. K : n = K \/ ~In(n + 1)}
  <2>2. PICK n \in T : \A y \in T : n <= y
    <3>1. T \subseteq Nat /\ K \in T
      OBVIOUS
    <3> HIDE DEF T
    <3> QED BY <3>1, LeastElement
  <2>3. ASSUME NEW b \in 1 .. n
        PROVE  In(b)
    <3>1. b - 1 \in 0 .. K /\ ~(n <= b - 1) /\ b - 1 # K /\ (b - 1) + 1 = b
      OBVIOUS
    <3>2. b - 1 \notin T
      BY <2>2, <3>1
    <3> QED BY <3>1, <3>2
  <2>4. n \in 0 .. K /\ P(n)
    BY <2>3
  <2>5. MatchBlocks(pool, ids) = CHOOSE x \in 0 .. K : P(x)
    BY <1>2, <2>1 DEF MatchBlocks
  <2>6. MatchBlocks(pool, ids) \in 0 .. K /\ P(MatchBlocks(pool, ids))
    <3> HIDE DEF P
    <3> QED BY <2>4, <2>5
  <2> QED BY <1>2, <2>1, <2>6
<1> QED BY <1>1, <1>2

(* The matched blocks save tokens but never the last one.                  *)
LEMMA MatchTokensFacts ==
    ASSUME BlockSize \in Nat, NEW ids \in Seq(Token), Len(ids) > 0, NEW pool
    PROVE  /\ MatchTokens(pool, ids) \in Nat /\ MatchTokens(pool, ids) < Len(ids)
           /\ MatchTokens(pool, ids) <= MatchBlocks(pool, ids) * BlockSize
<1>1. PICK n \in Nat, l \in Nat \ {0}, x \in Nat :
         n = MatchBlocks(pool, ids) /\ l = Len(ids) /\ x = n * BlockSize
  <2>1. MatchBlocks(pool, ids) \in Nat
    BY MatchFacts
  <2>2. MatchBlocks(pool, ids) * BlockSize \in Nat
    BY <2>1
  <2>3. Len(ids) \in Nat \ {0}
    OBVIOUS
  <2> QED BY <2>1, <2>2, <2>3, Zenon
<1>2. MatchTokens(pool, ids) = Larger(0, Lesser(x, l - 1))
  BY <1>1 DEF MatchTokens
<1>3. /\ Larger(0, Lesser(x, l - 1)) \in Nat /\ Larger(0, Lesser(x, l - 1)) < l
      /\ Larger(0, Lesser(x, l - 1)) <= x
  BY DEF Larger, Lesser
<1> QED BY <1>1, <1>2, <1>3

(* A match reorders the pool.                                              *)
LEMMA MatchKeepsPool ==
    ASSUME BlockSize \in Nat, NEW ids \in Seq(Token), NEW bytes, NEW pool,
           PoolOK(pool, BlockSize, bytes)
    PROVE  PoolOK(MatchPool(pool, ids), BlockSize, bytes)
<1> DEFINE n == MatchBlocks(pool, ids)
           ks == [b \in 1 .. n |-> Key(ids, b)]
<1>1. /\ n \in Nat /\ (BlockSize = 0 => n = 0)
      /\ BlockSize # 0 => /\ n <= Len(ids) \div BlockSize
                          /\ \A b \in 1 .. n : Key(ids, b) \in Pooled(pool)
  BY MatchFacts
<1>2. MatchPool(pool, ids) = Bump(pool, ks)
  BY DEF MatchPool
<1> HIDE DEF n
<1>3. \A b \in 1 .. n : Key(ids, b) \in Pooled(pool)
  BY <1>1
<1>4. ks \in Seq(Pooled(pool)) /\ Len(ks) = n
  BY <1>1, <1>3
<1>5. Distinct(ks)
  <2> SUFFICES ASSUME NEW i \in 1 .. n, NEW j \in 1 .. n, Key(ids, i) = Key(ids, j)
               PROVE  i = j
    BY <1>4 DEF Distinct
  <2>1. BlockSize \in Nat \ {0}
    BY <1>1
  <2>2. i \in 1 .. Len(ids) \div BlockSize /\ j \in 1 .. Len(ids) \div BlockSize
    <3>1. Len(ids) \div BlockSize \in Nat
      BY <2>1
    <3> QED BY <1>1, <2>1, <3>1
  <2>3. i * BlockSize = j * BlockSize
    BY <2>1, <2>2, KeyFacts
  <2> QED BY <2>1, <2>3, BlockOrder
<1> HIDE DEF ks
<1> QED BY <1>2, <1>4, <1>5, BumpKeeps

-----------------------------------------------------------------------------
(* What a match returns.                                                   *)

(* The slot that a prefill of ids computes for its j-th token, in a text
   prompt.                                                                 *)
PrefillSlot(ids, j) == [ids |-> SubSeq(ids, 1, j), pos |-> j - 1, via |-> "prefill"]

(* The slots of the first len tokens of ids.                               *)
ExactSlots(slots, ids, len) ==
    /\ slots \in Seq(Slot) /\ Len(slots) = len
    /\ \A j \in 1 .. len : slots[j] = PrefillSlot(ids, j)

(* They are slots.                                                         *)
LEMMA PrefillSlotType ==
    ASSUME NEW ids \in Seq(Token), NEW j \in 1 .. Len(ids)
    PROVE  PrefillSlot(ids, j) \in Slot
<1>1. SubSeq(ids, 1, j) \in Seq(Token)
  BY PrefixFacts
<1>2. SubSeq(ids, 1, j) \in Seq(SlotToken)
  BY <1>1, SlotFacts
<1>3. j - 1 \in Int /\ "prefill" \in Pass
  BY DEF Pass
<1> QED BY <1>2, <1>3 DEF PrefillSlot, Slot, SlotsOver

(* A block of ids is what a prefill computes for its tokens.               *)
LEMMA BlockExact ==
    ASSUME NEW bs \in Nat \ {0}, bs = BlockSize, NEW ids \in Seq(Token),
           NEW b \in 1 .. Len(ids) \div bs
    PROVE  /\ BlockFor(Key(ids, b), bs) \in Seq(Slot) /\ Len(BlockFor(Key(ids, b), bs)) = bs
           /\ \A j \in 1 .. bs : BlockFor(Key(ids, b), bs)[j] = PrefillSlot(ids, (b - 1) * bs + j)
<1>1. PICK l \in Nat, hi \in Nat, lo \in Nat :
         /\ l = Len(ids) /\ hi = b * bs /\ lo = (b - 1) * bs /\ hi = lo + bs /\ hi <= l
  BY BlockBounds
<1> DEFINE k == Key(ids, b)
           f == BlockFor(k, bs)
<1>2. k = SubSeq(ids, 1, hi)
  BY <1>1 DEF Key
<1>3. Len(k) = hi /\ k \in Seq(Token)
  BY <1>1, <1>2, PrefixFacts
<1>4. \A j \in 1 .. bs : f[j] = [ids |-> SubSeq(k, 1, Len(k) - bs + j),
                                 pos |-> (Len(k) - bs + j) - 1, via |-> "prefill"]
  BY DEF BlockFor
<1>5. f = [j \in 1 .. bs |-> f[j]]
  BY DEF BlockFor
<1> HIDE DEF k, f
<1>6. ASSUME NEW j \in 1 .. bs
      PROVE  f[j] = PrefillSlot(ids, lo + j) /\ f[j] \in Slot
  <2>1. PICK n \in Nat : n = lo + j /\ n <= hi /\ hi - bs + j = n /\ n >= 1
    BY <1>1
  <2>2. f[j] = [ids |-> SubSeq(k, 1, n), pos |-> n - 1, via |-> "prefill"]
    BY <1>3, <1>4, <2>1
  <2>3. SubSeq(k, 1, n) = SubSeq(ids, 1, n)
    BY <1>1, <1>2, <2>1, PrefixOfPrefix
  <2>4. f[j] = PrefillSlot(ids, n)
    BY <2>2, <2>3 DEF PrefillSlot
  <2>5. n \in 1 .. Len(ids)
    BY <1>1, <2>1
  <2> QED BY <2>1, <2>4, <2>5, PrefillSlotType
<1>7. f \in Seq(Slot) /\ Len(f) = bs
  <2>1. f \in [1 .. bs -> Slot]
    BY <1>5, <1>6
  <2> QED BY <2>1
<1> QED BY <1>1, <1>6, <1>7 DEF f, k

-----------------------------------------------------------------------------
(* g flattens the prefixes of s up to length n.                            *)
FlattenTo(g, s, n) ==
    g = [i \in 1 .. n |-> IF i = 1 THEN s[i] ELSE g[i - 1] \o s[i]]

(* The recursion of FlattenSeq is well founded.                            *)
LEMMA FlattenExists ==
    ASSUME NEW s, NEW n \in Nat
    PROVE  \E g : FlattenTo(g, s, n)
<1> DEFINE S == {m \in Nat : \E g : FlattenTo(g, s, m)}
<1>1. 0 \in S
  <2>1. FlattenTo([i \in 1 .. 0 |-> <<>>], s, 0)
    BY DEF FlattenTo
  <2> QED BY <2>1
<1>2. ASSUME NEW m \in Nat, m \in S PROVE m + 1 \in S
  <2>1. PICK g : FlattenTo(g, s, m)
    BY <1>2
  <2> DEFINE h == [i \in 1 .. m + 1 |-> IF i <= m THEN g[i]
                     ELSE IF i = 1 THEN s[i] ELSE g[m] \o s[i]]
  <2>2. \A i \in 1 .. m : g[i] = IF i = 1 THEN s[i] ELSE g[i - 1] \o s[i]
    BY <2>1 DEF FlattenTo
  <2>3. \A i \in 1 .. m + 1 : h[i] = IF i = 1 THEN s[i] ELSE h[i - 1] \o s[i]
    BY <2>2
  <2>4. FlattenTo(h, s, m + 1)
    <3>1. h = [i \in 1 .. m + 1 |-> h[i]]
      OBVIOUS
    <3> HIDE DEF h
    <3> QED BY <2>3, <3>1 DEF FlattenTo
  <2> QED BY <2>4
<1> HIDE DEF S
<1>3. n \in S
  BY <1>1, <1>2, SetInduction
<1> QED BY <1>3 DEF S

(* One more block of exact slots.                                          *)
LEMMA ExactConcat ==
    ASSUME NEW ids, NEW a \in Nat, NEW n \in Nat, NEW s, ExactSlots(s, ids, a),
           NEW t \in Seq(Slot), Len(t) = n, \A j \in 1 .. n : t[j] = PrefillSlot(ids, a + j)
    PROVE  ExactSlots(s \o t, ids, a + n)
<1>1. s \in Seq(Slot) /\ Len(s) = a /\ \A j \in 1 .. a : s[j] = PrefillSlot(ids, j)
  BY DEF ExactSlots
<1>2. /\ s \o t \in Seq(Slot) /\ Len(s \o t) = Len(s) + Len(t)
      /\ \A j \in 1 .. Len(s) + Len(t) : (s \o t)[j] = IF j <= Len(s) THEN s[j] ELSE t[j - Len(s)]
  <2>1. s \in Seq(Slot) /\ t \in Seq(Slot)
    BY <1>1
  <2> QED BY ONLY <2>1, ConcatProperties
<1> DEFINE u == s \o t
<1>3. u \in Seq(Slot) /\ Len(u) = a + n
      /\ \A j \in 1 .. a + n : u[j] = IF j <= a THEN s[j] ELSE t[j - a]
  BY <1>1, <1>2
<1> HIDE DEF u
<1>4. ASSUME NEW j \in 1 .. a + n
      PROVE  u[j] = PrefillSlot(ids, j)
  <2>1. CASE j <= a
    <3>1. j \in 1 .. a /\ u[j] = s[j]
      BY <1>3, <2>1
    <3> QED BY <1>1, <3>1
  <2>2. CASE ~(j <= a)
    <3>1. PICK i \in 1 .. n : i = j - a /\ a + i = j
      BY <2>2
    <3>2. u[j] = t[i]
      BY <1>3, <2>2, <3>1
    <3> QED BY <3>1, <3>2
  <2> QED BY <2>1, <2>2
<1> QED BY <1>3, <1>4 DEF ExactSlots, u

(* The slots of a match are what a prefill would compute.                  *)
LEMMA MatchSlotsExact ==
    ASSUME NEW bs \in Nat \ {0}, bs = BlockSize, NEW ids \in Seq(Token), NEW bytes, NEW pool,
           PoolOK(pool, bs, bytes), NEW n \in Nat \ {0}, n = MatchBlocks(pool, ids)
    PROVE  ExactSlots(MatchSlots(pool, ids), ids, n * bs)
<1> DEFINE s == [b \in 1 .. n |-> BlockOf(pool, Key(ids, b))]
           g == CHOOSE x : FlattenTo(x, s, n)
<1>1. /\ n <= Len(ids) \div bs /\ \A b \in 1 .. n : Key(ids, b) \in Pooled(pool)
      /\ Len(ids) \div bs \in Nat
  BY MatchFacts
<1>2. ASSUME NEW b \in 1 .. n
      PROVE  /\ s[b] \in Seq(Slot) /\ Len(s[b]) = bs
             /\ \A j \in 1 .. bs : s[b][j] = PrefillSlot(ids, (b - 1) * bs + j)
  <2>1. b \in 1 .. Len(ids) \div bs
    BY <1>1
  <2>2. pool \in Seq(Entry(bs))
    BY DEF PoolOK
  <2>3. s[b] = BlockFor(Key(ids, b), bs)
    BY <1>1, <2>2, BlockOfKey
  <2> HIDE DEF s
  <2>4. /\ BlockFor(Key(ids, b), bs) \in Seq(Slot) /\ Len(BlockFor(Key(ids, b), bs)) = bs
        /\ \A j \in 1 .. bs : BlockFor(Key(ids, b), bs)[j] = PrefillSlot(ids, (b - 1) * bs + j)
    BY <2>1, BlockExact, ZenonT(30)
  <2> QED BY <2>3, <2>4
<1>3. Len(s) = n
  OBVIOUS
<1>4. MatchSlots(pool, ids) = g[n]
  <2>1. MatchSlots(pool, ids) = FlattenSeq(s)
    BY DEF MatchSlots
  <2>2. FlattenSeq(s) = g[n]
    <3> HIDE DEF s
    <3> QED BY <1>3 DEF FlattenSeq, FlattenTo
  <2> QED BY <2>1, <2>2
<1> HIDE DEF s
<1>5. FlattenTo(g, s, n)
  BY FlattenExists
<1> HIDE DEF g
<1>6. \A i \in 1 .. n : g[i] = IF i = 1 THEN s[i] ELSE g[i - 1] \o s[i]
  BY <1>5 DEF FlattenTo
<1> DEFINE U == {i \in Nat : i \in 1 .. n => ExactSlots(g[i], ids, i * bs)}
<1>7. 0 \in U
  OBVIOUS
<1>8. ASSUME NEW i \in Nat, i \in U
      PROVE  i + 1 \in U
  <2> SUFFICES ASSUME i + 1 \in 1 .. n
               PROVE  ExactSlots(g[i + 1], ids, (i + 1) * bs)
    OBVIOUS
  <2>1. /\ s[i + 1] \in Seq(Slot) /\ Len(s[i + 1]) = bs
        /\ \A j \in 1 .. bs : s[i + 1][j] = PrefillSlot(ids, (i + 1 - 1) * bs + j)
    BY <1>2
  <2>2. PICK a \in Nat : a = i * bs /\ (i + 1) * bs = a + bs
    OBVIOUS
  <2>3. \A j \in 1 .. bs : s[i + 1][j] = PrefillSlot(ids, a + j)
    <3>1. i + 1 - 1 = i
      OBVIOUS
    <3> QED BY <2>1, <2>2, <3>1
  <2>4. CASE i = 0
    <3>1. g[1] = s[1]
      BY <1>6
    <3>2. a = 0 /\ a + bs = bs /\ i + 1 = 1 /\ \A j \in 1 .. bs : 0 + j = j
      BY <2>2, <2>4
    <3>3. ExactSlots(s[1], ids, bs)
      BY <2>1, <2>3, <3>2 DEF ExactSlots
    <3> QED BY <2>2, <3>1, <3>2, <3>3
  <2>5. CASE i # 0
    <3>1. i \in 1 .. n /\ i + 1 # 1 /\ i + 1 - 1 = i
      BY <2>5
    <3>2. g[i + 1] = g[i] \o s[i + 1]
      <4>1. PICK k \in 1 .. n : k = i + 1 /\ k # 1 /\ k - 1 = i
        BY <3>1
      <4>2. g[k] = g[k - 1] \o s[k]
        BY <1>6, <4>1
      <4> QED BY <4>1, <4>2
    <3>3. ExactSlots(g[i], ids, a)
      BY <1>8, <2>2, <3>1
    <3>4. ExactSlots(g[i] \o s[i + 1], ids, a + bs)
      BY <2>1, <2>3, <3>3, ExactConcat
    <3> QED BY <2>2, <3>2, <3>4
  <2> QED BY <2>4, <2>5
<1> HIDE DEF U
<1>9. n \in U
  BY <1>7, <1>8, SetInduction
<1> QED BY <1>4, <1>9 DEF U

-----------------------------------------------------------------------------
(* The units of an admission.                                              *)

(* Rounding up adds less than any chunk's growth.                          *)
LEMMA RoundUpTight ==
    ASSUME NEW t \in Nat, NEW ch \in Nat \ {0}
    PROVE  RoundUp(t) \in Nat /\ t <= RoundUp(t) /\ RoundUp(t) - t < RoundUp(ch) /\ RoundUp(ch) \in Nat
<1>1. PICK a \in Nat, w \in Nat, st \in Nat : a = RoundUp(t) /\ w = RoundUp(ch) /\ st = Step
  BY RoundUpFacts, StepAssumption
<1>2. t <= a /\ a < t + st /\ st <= w
  BY <1>1, RoundUpFacts
<1>3. a - t < w
  BY <1>2
<1> QED BY <1>1, <1>2, <1>3

(* A prefix hit: the unit holds the matched tokens and feeds the rest.     *)
LEMMA WarmUnitOK ==
    ASSUME BlockSize \in Nat, NEW bytes, NEW pool, PoolOK(pool, BlockSize, bytes),
           NEW r \in Text, MatchTokens(pool, Prompt[r]) > 0, NEW ch \in Nat \ {0}
    PROVE  UnitOK(WarmUnit(pool, r), RoundUp(ch))
<1>1. PICK p \in Seq(Token), l \in Nat \ {0}, t \in Nat \ {0},
              x \in {MatchSlots(pool, Prompt[r])} :
         /\ p = Prompt[r] /\ l = Len(p) /\ t = MatchTokens(pool, p) /\ t < l
         /\ x = MatchSlots(pool, p) /\ r \in Request
  <2>1. Prompt[r] \in Seq(Token) /\ Len(Prompt[r]) \in Nat \ {0} /\ r \in Request
    BY TextFacts, PromptType
  <2>2. Len(Prompt[r]) > 0
    BY <2>1
  <2>3. MatchTokens(pool, Prompt[r]) \in Nat /\ MatchTokens(pool, Prompt[r]) < Len(Prompt[r])
    BY <2>1, <2>2, MatchTokensFacts
  <2>4. MatchTokens(pool, Prompt[r]) \in Nat \ {0}
    BY <2>3
  <2> QED BY <2>1, <2>3, <2>4, Zenon
<1>2. \A j \in 1 .. t : x[j] = PrefillSlot(p, j) /\ x[j] \in Slot
  <2>1. PICK n \in Nat : n = MatchBlocks(pool, p) /\ (BlockSize = 0 => n = 0)
    BY MatchFacts
  <2>2. t <= n * BlockSize
    <3>1. Len(p) > 0
      BY <1>1
    <3> QED BY <1>1, <2>1, <3>1, MatchTokensFacts
  <2>3. BlockSize # 0 /\ n # 0
    BY <2>1, <2>2
  <2>4. PICK bs \in Nat \ {0} : bs = BlockSize
    BY <2>3
  <2>5. n \in Nat \ {0} /\ PoolOK(pool, bs, bytes)
    BY <2>3, <2>4
  <2>6. ExactSlots(x, p, n * bs)
    BY <1>1, <2>1, <2>4, <2>5, MatchSlotsExact
  <2>7. PICK nb \in Nat : nb = n * bs /\ t <= nb
    <3>1. n * bs \in Nat
      OBVIOUS
    <3> QED BY <2>2, <2>4, <3>1
  <2>8. ExactSlots(x, p, nb)
    BY <2>6, <2>7
  <2>9. \A j \in 1 .. t : j \in 1 .. nb
    BY <2>7
  <2>10. /\ x \in Seq(Slot) /\ Len(x) = nb /\ \A j \in 1 .. nb : x[j] = PrefillSlot(p, j)
    BY <2>8 DEF ExactSlots
  <2> QED BY <2>9, <2>10
<1> DEFINE u == WarmUnit(pool, r)
           toks == SubSeq(p, t + 1, l)
           kv == [i \in 0 .. RoundUp(t) - 1 |-> IF i < t THEN x[i + 1] ELSE Zero]
           row == [lp |-> 0, off |-> t, kv |-> kv]
           c == [idx |-> t, cap |-> RoundUp(t), rows |-> <<row>>]
<1>3. RoundUp(t) \in Nat /\ t <= RoundUp(t) /\ RoundUp(t) - t < RoundUp(ch)
  BY RoundUpTight
<1>4. kv \in [0 .. RoundUp(t) - 1 -> Slot] /\ \A j \in 0 .. t - 1 : kv[j] = PrefillSlot(p, j + 1)
  <2>1. \A i \in 0 .. RoundUp(t) - 1 : i < t => i + 1 \in 1 .. t
    BY <1>3
  <2>2. Zero \in Slot
    BY SlotFacts
  <2>3. \A j \in 0 .. t - 1 : j \in 0 .. RoundUp(t) - 1 /\ j < t /\ j + 1 \in 1 .. t
    BY <1>3
  <2> QED BY <1>2, <2>1, <2>2, <2>3
<1>5. u = [reqs |-> <<r>>, pos |-> 0, toks |-> <<toks>>, cache |-> c]
  <2>1. ~(t <= 0)
    OBVIOUS
  <2> QED BY <1>1, <2>1 DEF WarmUnit, FromPrefix
<1>6. toks \in Seq(Token) /\ Len(toks) = l - t /\ \A i \in 1 .. l - t : toks[i] = p[t + i]
  <2>1. toks \in Seq(Token)
    BY <1>1
  <2>2. Len(toks) = l - t
    BY <1>1
  <2>3. \A i \in 1 .. l - t : toks[i] = p[t + i]
    BY <1>1, SMTT(30)
  <2> QED BY <2>1, <2>2, <2>3
<1> HIDE DEF kv, toks
<1>7. row \in Row(Slot, RoundUp(t)) /\ row.lp = 0 /\ row.off = t /\ row.kv = kv
  <2>1. \A S : <<>> \in Seq(S)
    OBVIOUS
  <2> QED BY <1>4, <2>1 DEF Row
<1> HIDE DEF row
<1>8. /\ c.idx = t /\ c.cap = RoundUp(t) /\ c.rows = <<row>>
      /\ c = [idx |-> c.idx, cap |-> c.cap, rows |-> c.rows]
  OBVIOUS
<1> HIDE DEF c, u
<1>9. Shaped(c, Slot) /\ Len(c.rows) = 1 /\ c.rows[1] = row
  <2>1. <<row>> \in Seq(Row(Slot, RoundUp(t))) /\ Len(<<row>>) = 1 /\ <<row>>[1] = row
    BY <1>7
  <2> QED BY <1>3, <1>8, <2>1 DEF Shaped
<1>10. /\ u.reqs = <<r>> /\ u.pos = 0 /\ u.toks = <<toks>> /\ u.cache = c
       /\ u = [reqs |-> u.reqs, pos |-> u.pos, toks |-> u.toks, cache |-> u.cache]
  BY <1>5
<1>11. /\ u.reqs \in Seq(Text) /\ u.reqs # <<>> /\ Len(u.reqs) = 1 /\ u.reqs[1] = r
       /\ u.toks \in Seq(Seq(Token)) /\ Len(u.toks) = 1 /\ u.toks[1] = toks
  BY <1>6, <1>10
<1>12. Feeds(toks, p)
  <2> SUFFICES ASSUME NEW i \in 1 .. l - t
               PROVE  toks[i] = p[i + (l - (l - t))]
    BY <1>1, <1>6 DEF Feeds
  <2>1. i + (l - (l - t)) = t + i
    OBVIOUS
  <2> QED BY <1>6, <2>1
<1>13. UnitShape(u)
  <2>1. \A b \in 1 .. Len(u.toks) : b = 1
    BY <1>11
  <2>2. u.pos \in Nat /\ u.pos <= Len(u.toks[1])
    BY <1>1, <1>6, <1>10, <1>11
  <2>3. \A b \in 1 .. Len(u.toks) : Feeds(u.toks[b], Prompt[u.reqs[b]])
    BY <1>1, <1>11, <1>12, <2>1
  <2> QED BY <1>9, <1>10, <1>11, <2>1, <2>2, <2>3 DEF UnitShape
<1>14. UnitRow(u, 1)
  <2>1. Len(Prompt[r]) - (Len(toks) - 0) = t
    BY <1>1, <1>6
  <2>2. ASSUME NEW j \in 0 .. t - 1
        PROVE  row.kv[row.lp + j] = SlotOf(r, p, j)
    <3>1. row.lp + j = j /\ (j + 1) - 1 = j /\ j < l
      BY <1>1, <1>7
    <3>2. Position(r, j) = j
      BY TextFacts
    <3>3. PrefillSlot(p, j + 1) = SlotOf(r, p, j)
      BY <1>1, <3>1, <3>2 DEF PrefillSlot, SlotOf
    <3> QED BY <1>4, <1>7, <3>1, <3>3
  <2>3. c.idx - row.lp = t
    BY <1>7, <1>8
  <2>4. Spans(c, row, r, p, t)
    BY <2>2, <2>3 DEF Spans
  <2> QED BY <1>1, <1>7, <1>9, <1>10, <1>11, <2>1, <2>4 DEF UnitRow
<1>15. Tight(c, RoundUp(ch))
  <2>1. c.cap - c.idx < RoundUp(ch)
    BY <1>3, <1>8
  <2> QED BY <1>7, <1>9, <2>1 DEF Tight
<1>16. UnitHolds(u, RoundUp(ch))
  <2>1. \A b \in 1 .. Len(u.reqs) : UnitRow(u, b)
    BY <1>11, <1>14
  <2> QED BY <1>10, <1>13, <1>15, <2>1 DEF UnitHolds
<1>17. u.pos < Len(u.toks[1])
  BY <1>1, <1>6, <1>10, <1>11
<1> QED BY <1>16, <1>17 DEF UnitOK, u

-----------------------------------------------------------------------------
(* The longest of several prompts.                                         *)
LEMMA LongestPrompt ==
    ASSUME NEW reqs \in Seq(Request), reqs # <<>>
    PROVE  \E i \in 1 .. Len(reqs) : \A j \in 1 .. Len(reqs) :
              Len(Prompt[reqs[j]]) <= Len(Prompt[reqs[i]])
<1>1. PICK n \in Nat \ {0} : n = Len(reqs)
  OBVIOUS
<1> DEFINE f(i) == Len(Prompt[reqs[i]])
           U == {m \in Nat : m \in 1 .. n => \E i \in 1 .. m : \A j \in 1 .. m : f(j) <= f(i)}
<1>2. \A i \in 1 .. n : f(i) \in Nat
  BY <1>1, PromptType
<1> HIDE DEF f
<1>3. 0 \in U
  OBVIOUS
<1>4. ASSUME NEW m \in Nat, m \in U
      PROVE  m + 1 \in U
  <2> SUFFICES ASSUME m + 1 \in 1 .. n
               PROVE  \E i \in 1 .. m + 1 : \A j \in 1 .. m + 1 : f(j) <= f(i)
    OBVIOUS
  <2>1. CASE m = 0
    <3>1. 1 \in 1 .. n /\ \A j \in 1 .. m + 1 : j = 1
      BY <2>1
    <3>2. f(1) <= f(1)
      BY <1>2, <3>1
    <3> QED BY <2>1, <3>1, <3>2
  <2>2. CASE m # 0
    <3>1. PICK i \in 1 .. m : \A j \in 1 .. m : f(j) <= f(i)
      BY <1>4, <2>2
    <3>2. i \in 1 .. n /\ \A j \in 1 .. m + 1 : j \in 1 .. n /\ (j \in 1 .. m \/ j = m + 1)
      OBVIOUS
    <3>3. CASE f(m + 1) <= f(i)
      <4>1. \A j \in 1 .. m + 1 : f(j) <= f(i)
        BY <3>1, <3>2, <3>3
      <4> QED BY <4>1
    <3>4. CASE ~(f(m + 1) <= f(i))
      <4>1. f(m + 1) \in Nat /\ f(i) \in Nat /\ f(i) <= f(m + 1)
        BY <1>2, <3>2, <3>4
      <4>2. \A j \in 1 .. m + 1 : f(j) <= f(m + 1)
        <5> SUFFICES ASSUME NEW j \in 1 .. m + 1
                     PROVE  f(j) <= f(m + 1)
          OBVIOUS
        <5>1. f(j) \in Nat
          BY <1>2, <3>2
        <5>2. CASE j \in 1 .. m
          <6>1. f(j) <= f(i)
            BY <3>1, <5>2
          <6> QED BY <4>1, <5>1, <6>1
        <5>3. CASE j = m + 1
          BY <5>1, <5>3
        <5> QED BY <3>2, <5>2, <5>3
      <4>3. m + 1 \in 1 .. m + 1
        OBVIOUS
      <4> QED BY <4>2, <4>3
    <3> QED BY <3>3, <3>4
  <2> QED BY <2>1, <2>2
<1> HIDE DEF U
<1>5. n \in U
  BY <1>3, <1>4, SetInduction
<1> QED BY <1>1, <1>5 DEF U, f

(* The cold unit: nothing is held yet, and every row is fed its left padding
   and then its prompt.                                                    *)
LEMMA ColdUnitOK ==
    ASSUME NEW reqs \in Seq(Text), reqs # <<>>, NEW ch \in Nat \ {0}
    PROVE  UnitOK(ColdUnit(reqs), RoundUp(ch))
<1> DEFINE n == Len(reqs)
<1>1. n \in Nat \ {0} /\ n = Len(reqs)
  OBVIOUS
<1> HIDE DEF n
<1>2. reqs \in Seq(Request) /\ \A b \in 1 .. n : reqs[b] \in Text /\ reqs[b] \in Request
  BY <1>1, TextFacts
<1>3. \A b \in 1 .. n : Prompt[reqs[b]] \in Seq(Token) /\ Len(Prompt[reqs[b]]) \in Nat \ {0}
  BY <1>2, PromptType
<1> DEFINE M == {Len(Prompt[r]) : r \in ToSet(reqs)}
           pMax == CHOOSE m \in M : \A r \in ToSet(reqs) : Len(Prompt[r]) <= m
<1>4. /\ \A b \in 1 .. n : reqs[b] \in ToSet(reqs)
      /\ \A r \in ToSet(reqs) : \E b \in 1 .. n : r = reqs[b]
  <2>1. DOMAIN reqs = 1 .. n
    BY <1>1
  <2> QED BY <2>1 DEF ToSet
<1>5. PICK top \in 1 .. n : pMax = Len(Prompt[reqs[top]])
                            /\ \A b \in 1 .. n : Len(Prompt[reqs[b]]) <= pMax
  <2>1. PICK i \in 1 .. n : \A j \in 1 .. n : Len(Prompt[reqs[j]]) <= Len(Prompt[reqs[i]])
    BY <1>1, <1>2, LongestPrompt
  <2>2. Len(Prompt[reqs[i]]) \in M /\ \A r \in ToSet(reqs) : Len(Prompt[r]) <= Len(Prompt[reqs[i]])
    BY <1>4, <2>1
  <2>3. pMax \in M /\ \A r \in ToSet(reqs) : Len(Prompt[r]) <= pMax
    BY <2>2
  <2>4. PICK r \in ToSet(reqs) : pMax = Len(Prompt[r])
    BY <2>3
  <2> QED BY <1>4, <2>3, <2>4
<1>6. pMax \in Nat \ {0}
  BY <1>3, <1>5
<1> HIDE DEF pMax, M
<1> DEFINE pads == [b \in 1 .. n |-> pMax - Len(Prompt[reqs[b]])]
           left(b) == [j \in 1 .. pads[b] |-> "padding"]
           toks == [b \in 1 .. n |-> left(b) \o Prompt[reqs[b]]]
           row(b) == [lp |-> pads[b], off |-> -pads[b], kv |-> Zeros(0)]
           c == [idx |-> 0, cap |-> 0, rows |-> [b \in 1 .. n |-> row(b)]]
           u == ColdUnit(reqs)
<1>7. \A b \in 1 .. n : pads[b] \in Nat /\ pads[b] = pMax - Len(Prompt[reqs[b]])
  <2> SUFFICES ASSUME NEW b \in 1 .. n
               PROVE  pMax - Len(Prompt[reqs[b]]) \in Nat
    OBVIOUS
  <2>1. Len(Prompt[reqs[b]]) \in Nat /\ Len(Prompt[reqs[b]]) <= pMax
    BY <1>3, <1>5
  <2> QED BY <1>6, <2>1
<1>8. pads[top] = 0
  BY <1>3, <1>5, <1>7
<1>9. Len(pads) = n
  BY <1>1
<1>10. u = [reqs |-> reqs, pos |-> 0, toks |-> toks, cache |-> c]
  <2>1. NewCache(pads) = c
    BY <1>9, Zenon DEF NewCache
  <2> HIDE DEF c
  <2>2. ColdUnit(reqs) = [reqs |-> reqs, pos |-> 0, toks |-> toks, cache |-> NewCache(pads)]
    BY Zenon DEF ColdUnit, pMax, M, n
  <2> QED BY <2>1, <2>2, Zenon
<1> HIDE DEF pads, u
<1>11. ASSUME NEW b \in 1 .. n
       PROVE  /\ toks[b] \in Seq(Token) /\ Len(toks[b]) = pMax
              /\ Feeds(toks[b], Prompt[reqs[b]])
  <2>1. PICK p \in Seq(Token), l \in Nat, k \in Nat :
           p = Prompt[reqs[b]] /\ l = Len(p) /\ k = pads[b] /\ k + l = pMax
    <3>1. Prompt[reqs[b]] \in Seq(Token) /\ Len(Prompt[reqs[b]]) \in Nat /\ pads[b] \in Nat
      BY <1>3, <1>7
    <3>2. pads[b] + Len(Prompt[reqs[b]]) = pMax
      BY <1>6, <1>7, <3>1
    <3> QED BY <3>1, <3>2
  <2>2. PICK x \in Seq(Token) : Len(x) = k /\ x = [j \in 1 .. k |-> "padding"]
    <3> DEFINE y == [j \in 1 .. k |-> "padding"]
    <3>1. y \in Seq(Token) /\ Len(y) = k
      BY DEF Token
    <3> QED BY <3>1
  <2>3. toks[b] = x \o p
    BY <2>1, <2>2
  <2>4. /\ x \o p \in Seq(Token) /\ Len(x \o p) = k + l
        /\ \A i \in 1 .. k + l : (x \o p)[i] = IF i <= k THEN x[i] ELSE p[i - k]
    <3>1. Len(x) + Len(p) = k + l
      BY <2>1, <2>2
    <3>2. /\ x \o p \in Seq(Token) /\ Len(x \o p) = Len(x) + Len(p)
          /\ \A i \in 1 .. Len(x) + Len(p) : (x \o p)[i] = IF i <= Len(x) THEN x[i] ELSE p[i - Len(x)]
      <4>1. x \in Seq(Token) /\ p \in Seq(Token)
        OBVIOUS
      <4> QED BY ONLY <4>1, ConcatProperties
    <3> QED BY <2>2, <3>1, <3>2
  <2> HIDE DEF toks
  <2>5. Feeds(toks[b], p)
    <3> SUFFICES ASSUME NEW i \in 1 .. k + l, i + (l - (k + l)) >= 1
                 PROVE  (x \o p)[i] = p[i + (l - (k + l))]
      BY <2>1, <2>3, <2>4, SMTT(30) DEF Feeds
    <3>1. i + (l - (k + l)) = i - k /\ ~(i <= k)
      OBVIOUS
    <3> QED BY <2>4, <3>1
  <2> QED BY <2>1, <2>3, <2>4, <2>5
<1>12. ASSUME NEW b \in 1 .. n
       PROVE  row(b) \in Row(Slot, 0) /\ row(b).lp = pads[b] /\ row(b).off = -pads[b]
  <2>1. Zeros(0) \in [0 .. 0 - 1 -> Slot]
    BY SlotFacts DEF Zeros
  <2>2. pads[b] \in Nat /\ -pads[b] \in Int
    BY <1>7
  <2>3. <<>> \in Seq(Slot)
    OBVIOUS
  <2> QED BY <2>1, <2>2, <2>3 DEF Row
<1>13. toks \in Seq(Seq(Token)) /\ Len(toks) = n
  <2>1. \A b \in 1 .. n : toks[b] \in Seq(Token)
    BY <1>11
  <2>2. toks \in [1 .. n -> Seq(Token)]
    BY <2>1
  <2> HIDE DEF toks
  <2>3. n \in Nat
    BY <1>1
  <2> QED BY ONLY <2>2, <2>3
<1>14. /\ u.reqs = reqs /\ u.pos = 0 /\ u.toks = toks /\ u.cache = c
       /\ u = [reqs |-> u.reqs, pos |-> u.pos, toks |-> u.toks, cache |-> u.cache]
  BY <1>10
<1> HIDE DEF toks, row
<1>15. /\ c.idx = 0 /\ c.cap = 0 /\ c.rows \in Seq(Row(Slot, 0)) /\ Len(c.rows) = n
       /\ \A b \in 1 .. n : c.rows[b] = row(b)
       /\ c = [idx |-> c.idx, cap |-> c.cap, rows |-> c.rows]
  BY <1>1, <1>12
<1> HIDE DEF c
<1>16. Shaped(c, Slot)
  BY <1>15 DEF Shaped
<1>17. UnitShape(u)
  <2>1. \A b \in 1 .. n : Len(toks[b]) = Len(toks[1])
    BY <1>1, <1>11
  <2>2. u.pos \in Nat /\ u.pos <= Len(u.toks[1])
    BY <1>1, <1>6, <1>11, <1>14
  <2>3. \A b \in 1 .. n : Feeds(toks[b], Prompt[reqs[b]])
    BY <1>11
  <2> QED BY <1>1, <1>13, <1>14, <1>15, <1>16, <2>1, <2>2, <2>3, Zenon DEF UnitShape
<1>18. ASSUME NEW b \in 1 .. n
       PROVE  UnitRow(u, b)
  <2>1. PICK l \in Nat, k \in Nat :
           l = Len(Prompt[reqs[b]]) /\ k = pads[b] /\ k = pMax - l
    BY <1>3, <1>7
  <2>2. l - (pMax - 0) = -k /\ 0 - k = -k /\ 0 .. -k - 1 = {}
    BY <1>6, <2>1
  <2>3. c.rows[b].lp = k /\ c.rows[b].off = -k
    BY <1>12, <1>15, <2>1
  <2>4. Spans(c, c.rows[b], reqs[b], Prompt[reqs[b]], -k)
    BY <1>15, <2>2, <2>3 DEF Spans
  <2>5. Len(toks[b]) = pMax
    BY <1>11
  <2>6. Len(Prompt[u.reqs[b]]) - (Len(u.toks[b]) - u.pos) = -k
    BY <1>14, <2>1, <2>2, <2>5
  <2> QED BY <1>14, <2>3, <2>4, <2>6 DEF UnitRow
<1>19. Tight(c, RoundUp(ch))
  <2>1. RoundUp(ch) \in Nat /\ ch <= RoundUp(ch)
    BY RoundUpTight
  <2>2. c.cap - c.idx < RoundUp(ch)
    BY <1>15, <2>1
  <2>3. c.rows[top].lp = 0
    BY <1>8, <1>12, <1>15
  <2> QED BY <1>15, <2>2, <2>3 DEF Tight
<1>20. UnitHolds(u, RoundUp(ch))
  BY <1>1, <1>14, <1>17, <1>18, <1>19 DEF UnitHolds
<1>21. u.pos < Len(u.toks[1])
  BY <1>1, <1>6, <1>11, <1>14
<1> QED BY <1>20, <1>21 DEF UnitOK, u

-----------------------------------------------------------------------------
(* The units that are as they should be, as a set.                         *)
Units(w) ==
    {u \in [reqs : Seq(Text), pos : Nat, toks : Seq(Seq(Token)),
            cache : [idx : Nat, cap : Nat, rows : UNION {Seq(Row(Slot, n)) : n \in Nat}]] :
       UnitOK(u, w)}

(* It has every such unit.                                                 *)
LEMMA UnitMember ==
    ASSUME NEW w, NEW u, UnitOK(u, w)
    PROVE  u \in Units(w)
<1>1. PICK reqs, pos, toks, c :
         /\ u = [reqs |-> reqs, pos |-> pos, toks |-> toks, cache |-> c]
         /\ reqs \in Seq(Text) /\ pos \in Nat /\ toks \in Seq(Seq(Token)) /\ Shaped(c, Slot)
  BY Zenon DEF UnitOK, UnitHolds, UnitShape
<1>2. PICK idx, cap, rs :
         /\ c = [idx |-> idx, cap |-> cap, rows |-> rs]
         /\ idx \in Nat /\ cap \in Nat /\ rs \in Seq(Row(Slot, cap))
  BY <1>1, Zenon DEF Shaped
<1>3. rs \in UNION {Seq(Row(Slot, n)) : n \in Nat}
  BY <1>2
<1>4. c \in [idx : Nat, cap : Nat, rows : UNION {Seq(Row(Slot, n)) : n \in Nat}]
  BY <1>2, <1>3
<1> QED BY <1>1, <1>4 DEF Units

(* One request of split_prefix.                                            *)
SplitStep(s, r) ==
    [pool |-> MatchPool(s.pool, Prompt[r]),
     warm |-> IF MatchTokens(s.pool, Prompt[r]) > 0
              THEN Append(s.warm, WarmUnit(s.pool, r)) ELSE s.warm,
     cold |-> IF MatchTokens(s.pool, Prompt[r]) > 0
              THEN s.cold ELSE Append(s.cold, r)]

(* The results of split_prefix after each request.                         *)
SplitTo(g, pool, reqs, n) ==
    g = [i \in 0 .. n |-> IF i = 0 THEN [pool |-> pool, warm |-> <<>>, cold |-> <<>>]
                          ELSE SplitStep(g[i - 1], reqs[i])]

(* The recursion of split_prefix is well founded.                          *)
LEMMA SplitExists ==
    ASSUME NEW pool, NEW reqs, NEW n \in Nat
    PROVE  \E g : SplitTo(g, pool, reqs, n)
<1> DEFINE S == {m \in Nat : \E g : SplitTo(g, pool, reqs, m)}
           first == [pool |-> pool, warm |-> <<>>, cold |-> <<>>]
<1>1. 0 \in S
  <2>1. SplitTo([i \in 0 .. 0 |-> first], pool, reqs, 0)
    BY DEF SplitTo
  <2> QED BY <2>1
<1>2. ASSUME NEW m \in Nat, m \in S PROVE m + 1 \in S
  <2>1. PICK g : SplitTo(g, pool, reqs, m)
    BY <1>2
  <2> DEFINE h == [i \in 0 .. m + 1 |-> IF i <= m THEN g[i] ELSE SplitStep(g[m], reqs[i])]
  <2>2. \A i \in 0 .. m : g[i] = IF i = 0 THEN first ELSE SplitStep(g[i - 1], reqs[i])
    BY <2>1 DEF SplitTo
  <2> HIDE DEF first
  <2>3. \A i \in 0 .. m + 1 : h[i] = IF i = 0 THEN first ELSE SplitStep(h[i - 1], reqs[i])
    <3> SUFFICES ASSUME NEW i \in 0 .. m + 1
                 PROVE  h[i] = IF i = 0 THEN first ELSE SplitStep(h[i - 1], reqs[i])
      OBVIOUS
    <3>1. CASE i <= m
      <4>1. h[i] = g[i] /\ (i # 0 => h[i - 1] = g[i - 1])
        BY <3>1
      <4> QED BY <2>2, <3>1, <4>1
    <3>2. CASE ~(i <= m)
      <4>1. h[i] = SplitStep(g[m], reqs[i]) /\ i # 0 /\ h[i - 1] = g[m]
        BY <3>2
      <4> QED BY <4>1
    <3> QED BY <3>1, <3>2
  <2>4. SplitTo(h, pool, reqs, m + 1)
    <3>1. h = [i \in 0 .. m + 1 |-> h[i]]
      OBVIOUS
    <3> HIDE DEF h
    <3> QED BY <2>3, <3>1 DEF SplitTo, first
  <2> QED BY <2>4
<1> HIDE DEF S
<1>3. n \in S
  BY <1>1, <1>2, SetInduction
<1> QED BY <1>3 DEF S

(* What split_prefix returns: a good pool, good warm units, cold requests. *)
SplitOK(s, w) ==
    /\ PoolOK(s.pool, BlockSize, PoolBytes) /\ s.warm \in Seq(Units(w)) /\ s.cold \in Seq(Text)

(* One more request keeps that.                                            *)
LEMMA SplitStepKeeps ==
    ASSUME BlockSize \in Nat, NEW ch \in Nat \ {0}, NEW s, SplitOK(s, RoundUp(ch)), NEW r \in Text
    PROVE  SplitOK(SplitStep(s, r), RoundUp(ch))
<1> DEFINE t == SplitStep(s, r)
           ids == Prompt[r]
           hit == MatchTokens(s.pool, ids) > 0
<1>1. /\ t.pool = MatchPool(s.pool, ids)
      /\ t.warm = IF hit THEN Append(s.warm, WarmUnit(s.pool, r)) ELSE s.warm
      /\ t.cold = IF hit THEN s.cold ELSE Append(s.cold, r)
  BY DEF SplitStep
<1>2. PoolOK(s.pool, BlockSize, PoolBytes) /\ s.warm \in Seq(Units(RoundUp(ch))) /\ s.cold \in Seq(Text)
  BY DEF SplitOK
<1>3. ids \in Seq(Token)
  BY TextFacts, PromptType
<1> HIDE DEF t, ids
<1>4. PoolOK(t.pool, BlockSize, PoolBytes)
  BY <1>1, <1>2, <1>3, MatchKeepsPool
<1>5. t.warm \in Seq(Units(RoundUp(ch)))
  <2>1. hit => WarmUnit(s.pool, r) \in Units(RoundUp(ch))
    BY <1>2, WarmUnitOK, UnitMember DEF ids
  <2> HIDE DEF hit
  <2> QED BY <1>1, <1>2, <2>1
<1>6. t.cold \in Seq(Text)
  <2> HIDE DEF hit
  <2> QED BY <1>1, <1>2
<1> QED BY <1>4, <1>5, <1>6 DEF SplitOK, t

(* split_prefix: each prefix hit becomes a unit that holds the matched
   tokens, and matching only reorders the pool.                            *)
LEMMA SplitKeeps ==
    ASSUME BlockSize \in Nat, NEW ch \in Nat \ {0}, NEW reqs \in Seq(Text),
           PoolOK(lru, BlockSize, PoolBytes)
    PROVE  SplitOK(SplitPrefix(reqs), RoundUp(ch))
<1> DEFINE n == Len(reqs)
           g == CHOOSE x : SplitTo(x, lru, reqs, n)
           first == [pool |-> lru, warm |-> <<>>, cold |-> <<>>]
           U == {i \in Nat : i <= n => SplitOK(g[i], RoundUp(ch))}
<1>1. n \in Nat
  OBVIOUS
<1>2. SplitTo(g, lru, reqs, n)
  BY <1>1, SplitExists
<1>3. SplitPrefix(reqs) = g[n]
  BY DEF SplitPrefix, SplitTo, SplitStep
<1> HIDE DEF g
<1>4. \A i \in 0 .. n : g[i] = IF i = 0 THEN first ELSE SplitStep(g[i - 1], reqs[i])
  BY <1>1, <1>2 DEF SplitTo
<1>5. 0 \in U
  <2>1. first.pool = lru /\ first.warm = <<>> /\ first.cold = <<>>
    OBVIOUS
  <2>2. g[0] = first
    BY <1>1, <1>4
  <2> HIDE DEF first
  <2>3. <<>> \in Seq(Units(RoundUp(ch))) /\ <<>> \in Seq(Text)
    OBVIOUS
  <2>4. SplitOK(first, RoundUp(ch))
    BY <2>1, <2>3, Zenon DEF SplitOK
  <2> QED BY <2>2, <2>4
<1>6. ASSUME NEW i \in Nat, i \in U
      PROVE  i + 1 \in U
  <2> SUFFICES ASSUME i + 1 <= n
               PROVE  SplitOK(g[i + 1], RoundUp(ch))
    OBVIOUS
  <2>1. PICK k \in 1 .. n : k = i + 1 /\ k - 1 = i /\ k # 0
    BY <1>1
  <2> HIDE DEF first
  <2>2. g[k] = SplitStep(g[k - 1], reqs[k])
    BY <1>1, <1>4, <2>1
  <2>3. SplitOK(g[i], RoundUp(ch)) /\ reqs[k] \in Text
    BY <1>1, <1>6
  <2> QED BY <2>1, <2>2, <2>3, SplitStepKeeps
<1> HIDE DEF U
<1>7. n \in U
  BY <1>1, <1>5, <1>6, SetInduction
<1> QED BY <1>1, <1>3, <1>7 DEF U

-----------------------------------------------------------------------------
(* Harvest.                                                                *)

(* A shorter sequence has no more blocks.                                  *)
LEMMA FewerBlocks ==
    ASSUME NEW bs \in Nat \ {0}, NEW a \in Nat, NEW l \in Nat, a <= l
    PROVE  (a \div bs) \in Nat /\ a \div bs <= l \div bs
<1>1. /\ (a \div bs) \in Nat /\ (a \div bs) * bs <= a
      /\ (l \div bs) \in Nat /\ l < (l \div bs) * bs + bs
  OBVIOUS
<1>2. PICK q \in Nat, Q \in Nat : q = a \div bs /\ Q = l \div bs /\ q * bs <= a /\ l < Q * bs + bs
  BY <1>1
<1>3. ~(Q + 1 <= q)
  <2> SUFFICES ASSUME Q + 1 <= q PROVE FALSE
    OBVIOUS
  <2>1. (Q + 1) * bs <= q * bs
    OBVIOUS
  <2>2. (Q + 1) * bs = Q * bs + bs /\ Q * bs \in Nat /\ q * bs \in Nat
    OBVIOUS
  <2> QED BY <1>2, <2>1, <2>2
<1> QED BY <1>2, <1>3

(* The entry that harvest makes of block b.                                *)
HarvestEntry(ids, slots, b) ==
    [key |-> Key(ids, b), block |-> SubSeq(slots, (b-1) * BlockSize + 1, b * BlockSize)]

(* It is what its key says.                                                *)
LEMMA HarvestEntryFits ==
    ASSUME NEW bs \in Nat \ {0}, bs = BlockSize, NEW ids \in Seq(Token), NEW len \in Nat,
           len <= Len(ids), NEW slots, ExactSlots(slots, ids, len), NEW b \in 1 .. len \div bs
    PROVE  HarvestEntry(ids, slots, b) \in Entry(bs)
<1>1. PICK hi \in Nat, lo \in Nat : hi = b * bs /\ lo = (b - 1) * bs /\ hi = lo + bs /\ hi <= len
  BY BlockBounds
<1>2. b \in 1 .. Len(ids) \div bs
  <2>1. Len(ids) \in Nat /\ len \div bs \in Nat /\ len \div bs <= Len(ids) \div bs
        /\ Len(ids) \div bs \in Nat
    BY FewerBlocks, SMTT(30)
  <2> QED BY <2>1
<1> DEFINE k == Key(ids, b)
           f == BlockFor(k, bs)
           x == SubSeq(slots, lo + 1, hi)
<1>3. /\ f \in Seq(Slot) /\ Len(f) = bs
      /\ \A j \in 1 .. bs : f[j] = PrefillSlot(ids, lo + j)
  BY <1>1, <1>2, BlockExact
<1>4. k \in Seq(Token)
  BY <1>2, KeyFacts
<1>5. slots \in Seq(Slot) /\ Len(slots) = len /\ \A j \in 1 .. len : slots[j] = PrefillSlot(ids, j)
  BY DEF ExactSlots
<1>6. x \in Seq(Slot) /\ Len(x) = bs /\ \A j \in 1 .. bs : x[j] = slots[lo + j]
  BY <1>1, <1>5, SliceFacts
<1>7. HarvestEntry(ids, slots, b) = [key |-> k, block |-> x]
  BY <1>1 DEF HarvestEntry
<1> HIDE DEF k, f, x
<1>8. \A j \in 1 .. bs : x[j] = f[j]
  <2>1. \A j \in 1 .. bs : lo + j \in 1 .. len
    BY <1>1
  <2> QED BY <1>3, <1>5, <1>6, <2>1
<1>9. x = f
  BY <1>3, <1>6, <1>8, SameElements
<1> QED BY <1>4, <1>7, <1>9 DEF Entry, EntryFor, f

(* The pools after each block of a harvest.                                *)
HarvestTo(g, pool, ids, slots, fresh, n) ==
    g = [b \in 0 .. n |-> IF b = 0 THEN pool
                          ELSE IF b \notin fresh THEN g[b-1]
                          ELSE Insert(g[b-1], HarvestEntry(ids, slots, b))]

(* The recursion of harvest is well founded.                               *)
LEMMA HarvestExists ==
    ASSUME NEW pool, NEW ids, NEW slots, NEW fresh, NEW n \in Nat
    PROVE  \E g : HarvestTo(g, pool, ids, slots, fresh, n)
<1> DEFINE S == {m \in Nat : \E g : HarvestTo(g, pool, ids, slots, fresh, m)}
           step(p, i) == IF i \notin fresh THEN p ELSE Insert(p, HarvestEntry(ids, slots, i))
<1>1. 0 \in S
  <2>1. HarvestTo([i \in 0 .. 0 |-> pool], pool, ids, slots, fresh, 0)
    BY DEF HarvestTo
  <2> QED BY <2>1
<1>2. ASSUME NEW m \in Nat, m \in S PROVE m + 1 \in S
  <2>1. PICK g : HarvestTo(g, pool, ids, slots, fresh, m)
    BY <1>2
  <2> DEFINE h == [i \in 0 .. m + 1 |-> IF i <= m THEN g[i] ELSE step(g[m], i)]
  <2>2. \A i \in 0 .. m : g[i] = IF i = 0 THEN pool ELSE step(g[i - 1], i)
    BY <2>1 DEF HarvestTo
  <2> HIDE DEF step
  <2>3. \A i \in 0 .. m + 1 : h[i] = IF i = 0 THEN pool ELSE step(h[i - 1], i)
    <3> SUFFICES ASSUME NEW i \in 0 .. m + 1
                 PROVE  h[i] = IF i = 0 THEN pool ELSE step(h[i - 1], i)
      OBVIOUS
    <3>1. CASE i <= m
      <4>1. h[i] = g[i] /\ (i # 0 => h[i - 1] = g[i - 1])
        BY <3>1
      <4> QED BY <2>2, <3>1, <4>1
    <3>2. CASE ~(i <= m)
      <4>1. h[i] = step(g[m], i) /\ i # 0 /\ h[i - 1] = g[m]
        BY <3>2
      <4> QED BY <4>1
    <3> QED BY <3>1, <3>2
  <2>4. HarvestTo(h, pool, ids, slots, fresh, m + 1)
    <3>1. h = [i \in 0 .. m + 1 |-> h[i]]
      OBVIOUS
    <3> HIDE DEF h
    <3> QED BY <2>3, <3>1 DEF HarvestTo, step
  <2> QED BY <2>4
<1> HIDE DEF S
<1>3. n \in S
  BY <1>1, <1>2, SetInduction
<1> QED BY <1>3 DEF S

(* PrefixCache::harvest of the slots of a prompt keeps the pool.           *)
LEMMA HarvestKeeps ==
    ASSUME NEW bs \in Nat \ {0}, bs = BlockSize, PoolBytes \in Nat, NEW pool,
           PoolOK(pool, bs, PoolBytes), NEW ids \in Seq(Token), NEW len \in Nat,
           len <= Len(ids), NEW slots, ExactSlots(slots, ids, len)
    PROVE  PoolOK(Harvest(pool, ids, len, slots), bs, PoolBytes)
<1> DEFINE full == Lesser(len, Len(ids)) \div BlockSize
           fresh == {b \in 1 .. full : Key(ids, b) \notin Pooled(pool)}
           g == CHOOSE x : HarvestTo(x, pool, ids, slots, fresh, full)
           U == {i \in Nat : i <= full => PoolOK(g[i], bs, PoolBytes)}
<1>1. full = len \div bs /\ full \in Nat
  <2>1. Lesser(len, Len(ids)) = len
    BY DEF Lesser
  <2>2. len \div bs \in Nat
    OBVIOUS
  <2> QED BY <2>1, <2>2
<1>2. Harvest(pool, ids, len, slots) = g[full]
  BY DEF Harvest, HarvestTo, HarvestEntry
<1> HIDE DEF fresh, full
<1>3. HarvestTo(g, pool, ids, slots, fresh, full)
  BY <1>1, HarvestExists
<1> HIDE DEF g
<1>4. \A b \in 0 .. full : g[b] = IF b = 0 THEN pool
                                  ELSE IF b \notin fresh THEN g[b-1]
                                  ELSE Insert(g[b-1], HarvestEntry(ids, slots, b))
  BY <1>1, <1>3 DEF HarvestTo
<1>5. 0 \in U
  <2>1. g[0] = pool
    BY <1>1, <1>4
  <2> QED BY <2>1
<1>6. ASSUME NEW i \in Nat, i \in U
      PROVE  i + 1 \in U
  <2> SUFFICES ASSUME i + 1 <= full
               PROVE  PoolOK(g[i + 1], bs, PoolBytes)
    OBVIOUS
  <2>1. PICK k \in 1 .. full : k = i + 1 /\ k - 1 = i /\ k # 0
    BY <1>1
  <2>2. PoolOK(g[i], bs, PoolBytes)
    BY <1>1, <1>6
  <2>3. g[k] = IF k \notin fresh THEN g[k - 1] ELSE Insert(g[k - 1], HarvestEntry(ids, slots, k))
    BY <1>1, <1>4, <2>1
  <2>4. HarvestEntry(ids, slots, k) \in Entry(bs)
    BY <1>1, HarvestEntryFits
  <2>5. PoolOK(Insert(g[i], HarvestEntry(ids, slots, k)), bs, PoolBytes)
    BY <2>2, <2>4, InsertKeeps
  <2> QED BY <2>1, <2>2, <2>3, <2>5
<1> HIDE DEF U
<1>7. full \in U
  BY <1>1, <1>5, <1>6, SetInduction
<1> QED BY <1>1, <1>2, <1>7 DEF U

-----------------------------------------------------------------------------
(* The pool after row b of harvest_finished, p being the one before it.    *)
HarvestStep(p, b) ==
    IF ~rows[b].fin \/ rows[b].req \in Image \/ HarvestLen(b) < BlockSize
    THEN p
    ELSE Harvest(p, rows[b].hist, HarvestLen(b),
                 FetchRow(cache, b, cache.rows[b].lp, HarvestLen(b)))

(* What a text row of the batch gives: the slots of its prompt.            *)
LEMMA HarvestedSlots ==
    ASSUME NEW w, BatchOK(cache, rows, w), NEW b \in 1 .. Len(rows), rows[b].req \notin Image
    PROVE  /\ rows[b].hist \in Seq(Token) /\ HarvestLen(b) \in Nat
           /\ HarvestLen(b) <= Len(rows[b].hist)
           /\ ExactSlots(FetchRow(cache, b, cache.rows[b].lp, HarvestLen(b)),
                         rows[b].hist, HarvestLen(b))
<1> DEFINE k == cache.rows[b]
           r == rows[b].req
           ids == rows[b].hist
           l == Len(ids)
           L == Len(Prompt[r])
           idx == cache.idx
           lp == k.lp
<1>1. PICK n \in Int :
         /\ r \in Request /\ ids \in Seq(Token) /\ l \in Nat /\ L \in Nat /\ idx \in Nat
         /\ lp \in Nat /\ l > L /\ n \in {l - 1, l} /\ Spans(cache, k, r, ids, n)
  <2>1. rows[b] \in RowState
    BY DEF BatchOK
  <2>2. /\ rows[b].req \in Request /\ rows[b].hist \in Seq(Token) /\ Len(rows[b].hist) \in Nat
    BY <2>1 DEF RowState
  <2>3. Len(Prompt[rows[b].req]) \in Nat
    BY <2>2, PromptType
  <2>4. RowExact(cache, cache.rows[b], rows[b])
    BY DEF BatchOK
  <2>5. PICK n \in {Len(rows[b].hist) - 1, Len(rows[b].hist)} :
           Spans(cache, cache.rows[b], rows[b].req, rows[b].hist, n)
    BY <2>4 DEF RowExact
  <2>6. n \in Int
    BY <2>2, <2>5
  <2>7. Len(rows[b].hist) > Len(Prompt[rows[b].req])
    BY <2>4 DEF RowExact
  <2>8. cache.idx \in Nat /\ cache.rows[b].lp \in Nat
    <3>1. cache.idx \in Nat /\ cache.rows \in Seq(Row(Slot, cache.cap)) /\ b \in 1 .. Len(cache.rows)
      BY DEF BatchOK, WellFormed, Shaped
    <3>2. cache.rows[b] \in Row(Slot, cache.cap)
      BY <3>1
    <3> QED BY <3>1, <3>2 DEF Row
  <2> QED BY <2>2, <2>3, <2>5, <2>6, <2>7, <2>8
<1>2. idx - lp = n /\ \A j \in 0 .. n - 1 : k.kv[lp + j] = SlotOf(r, ids, j)
  BY <1>1 DEF Spans
<1>3. n >= L
  BY <1>1
<1>4. HarvestLen(b) = L
  <2>1. HarvestLen(b) = Lesser(idx - lp, L)
    BY <1>1 DEF HarvestLen
  <2> HIDE DEF idx, lp, L
  <2> QED BY <1>1, <1>2, <1>3, <2>1 DEF Lesser
<1>5. ASSUME NEW j \in 1 .. L
      PROVE  k.kv[lp + j - 1] = PrefillSlot(ids, j) /\ PrefillSlot(ids, j) \in Slot
  <2> HIDE DEF L, lp, ids, l
  <2>1. PICK i \in Nat : i = j - 1 /\ i \in 0 .. n - 1 /\ lp + j - 1 = lp + i /\ i + 1 = j /\ i < L
    BY <1>1, <1>3
  <2>2. Position(r, i) = i
    BY <1>1 DEF Position
  <2>3. SlotOf(r, ids, i) = PrefillSlot(ids, j)
    BY <1>1, <2>1, <2>2 DEF SlotOf, PrefillSlot, L
  <2>4. j \in 1 .. Len(ids)
    BY <1>1 DEF l
  <2> QED BY <1>1, <1>2, <2>1, <2>3, <2>4, PrefillSlotType
<1> DEFINE x == [j \in 1 .. L |-> k.kv[lp + j - 1]]
<1>6. FetchRow(cache, b, cache.rows[b].lp, HarvestLen(b)) = x
  BY <1>1, <1>4 DEF FetchRow
<1>7. x \in [1 .. L -> Slot] /\ \A j \in 1 .. L : x[j] = PrefillSlot(ids, j)
  BY <1>5
<1> HIDE DEF x
<1>8. ExactSlots(x, ids, L)
  <2>1. x \in Seq(Slot) /\ Len(x) = L
    BY <1>1, <1>7, SMTT(30)
  <2> QED BY <1>7, <2>1 DEF ExactSlots
<1> QED BY <1>1, <1>4, <1>6, <1>8

(* The pools after each row of harvest_finished.                           *)
FinishedTo(g, n) ==
    g = [b \in 0 .. n |-> IF b = 0 THEN lru ELSE HarvestStep(g[b-1], b)]

(* The recursion of harvest_finished is well founded.                      *)
LEMMA FinishedExists ==
    ASSUME NEW n \in Nat
    PROVE  \E g : FinishedTo(g, n)
<1> DEFINE S == {m \in Nat : \E g : FinishedTo(g, m)}
<1>1. 0 \in S
  <2>1. FinishedTo([i \in 0 .. 0 |-> lru], 0)
    BY DEF FinishedTo
  <2> QED BY <2>1
<1>2. ASSUME NEW m \in Nat, m \in S PROVE m + 1 \in S
  <2>1. PICK g : FinishedTo(g, m)
    BY <1>2
  <2> DEFINE h == [i \in 0 .. m + 1 |-> IF i <= m THEN g[i] ELSE HarvestStep(g[m], i)]
  <2>2. \A i \in 0 .. m : g[i] = IF i = 0 THEN lru ELSE HarvestStep(g[i - 1], i)
    BY <2>1 DEF FinishedTo
  <2>3. \A i \in 0 .. m + 1 : h[i] = IF i = 0 THEN lru ELSE HarvestStep(h[i - 1], i)
    <3> SUFFICES ASSUME NEW i \in 0 .. m + 1
                 PROVE  h[i] = IF i = 0 THEN lru ELSE HarvestStep(h[i - 1], i)
      OBVIOUS
    <3>1. CASE i <= m
      <4>1. h[i] = g[i] /\ (i # 0 => h[i - 1] = g[i - 1])
        BY <3>1
      <4> QED BY <2>2, <3>1, <4>1
    <3>2. CASE ~(i <= m)
      <4>1. h[i] = HarvestStep(g[m], i) /\ i # 0 /\ h[i - 1] = g[m]
        BY <3>2
      <4> QED BY <4>1
    <3> QED BY <3>1, <3>2
  <2>4. FinishedTo(h, m + 1)
    <3>1. h = [i \in 0 .. m + 1 |-> h[i]]
      OBVIOUS
    <3> HIDE DEF h
    <3> QED BY <2>3, <3>1 DEF FinishedTo
  <2> QED BY <2>4
<1> HIDE DEF S
<1>3. n \in S
  BY <1>1, <1>2, SetInduction
<1> QED BY <1>3 DEF S

(* harvest_finished keeps the pool: of every finished row it takes the K/V
   that the prefill of the prompt computed.                                *)
LEMMA FinishedKeeps ==
    ASSUME BlockSize \in Nat, PoolBytes \in Nat, NEW w, BatchOK(cache, rows, w),
           PoolOK(lru, BlockSize, PoolBytes)
    PROVE  PoolOK(HarvestFinished, BlockSize, PoolBytes)
<1>1. CASE BlockSize = 0
  BY <1>1 DEF HarvestFinished
<1>2. CASE BlockSize # 0
  <2>1. PICK bs \in Nat \ {0} : bs = BlockSize
    BY <1>2
  <2> DEFINE n == Len(rows)
             g == CHOOSE x : FinishedTo(x, n)
             U == {i \in Nat : i <= n => PoolOK(g[i], bs, PoolBytes)}
  <2>2. n \in Nat
    BY DEF BatchOK
  <2>3. HarvestFinished = g[n]
    BY <1>2 DEF HarvestFinished, FinishedTo, HarvestStep
  <2>4. FinishedTo(g, n)
    BY <2>2, FinishedExists
  <2> HIDE DEF g
  <2>5. \A b \in 0 .. n : g[b] = IF b = 0 THEN lru ELSE HarvestStep(g[b-1], b)
    BY <2>2, <2>4 DEF FinishedTo
  <2>6. 0 \in U
    <3>1. g[0] = lru
      BY <2>2, <2>5
    <3> QED BY <2>1, <3>1
  <2>7. ASSUME NEW i \in Nat, i \in U
        PROVE  i + 1 \in U
    <3> SUFFICES ASSUME i + 1 <= n
                 PROVE  PoolOK(g[i + 1], bs, PoolBytes)
      OBVIOUS
    <3>1. PICK k \in 1 .. n : k = i + 1 /\ k - 1 = i /\ k # 0
      BY <2>2
    <3>2. PoolOK(g[i], bs, PoolBytes)
      BY <2>2, <2>7
    <3>3. g[k] = HarvestStep(g[i], k)
      BY <2>2, <2>5, <3>1
    <3>4. CASE ~rows[k].fin \/ rows[k].req \in Image \/ HarvestLen(k) < BlockSize
      BY <3>1, <3>2, <3>3, <3>4 DEF HarvestStep
    <3>5. CASE ~(~rows[k].fin \/ rows[k].req \in Image \/ HarvestLen(k) < BlockSize)
      <4> DEFINE len == HarvestLen(k)
                 ids == rows[k].hist
                 slots == FetchRow(cache, k, cache.rows[k].lp, len)
      <4>1. g[k] = Harvest(g[i], ids, len, slots)
        BY <3>3, <3>5 DEF HarvestStep
      <4>2. ids \in Seq(Token) /\ len \in Nat /\ len <= Len(ids) /\ ExactSlots(slots, ids, len)
        BY <3>5, HarvestedSlots
      <4> HIDE DEF len, ids, slots
      <4>3. PoolOK(Harvest(g[i], ids, len, slots), bs, PoolBytes)
        BY <2>1, <3>2, <4>2, HarvestKeeps
      <4> QED BY <3>1, <4>1, <4>3
    <3> QED BY <3>4, <3>5
  <2> HIDE DEF U
  <2>8. n \in U
    BY <2>2, <2>6, <2>7, SetInduction
  <2> QED BY <2>1, <2>2, <2>3, <2>8 DEF U
<1> QED BY <1>1, <1>2

-----------------------------------------------------------------------------
(* The inductive invariant and its steps.                                  *)

(* The growth of one forward pass bounds what is allocated and unused.     *)
W == RoundUp(Chunk)

(* The inductive invariant.                                                *)
IInv ==
    /\ engine \in Engine
    /\ pc \in {"take", "dispatch", "prefill", "evict1", "decode", "evict2"}
    /\ incoming \in Seq(Request) /\ gen \in Seq(Text)
    /\ BatchOK(cache, rows, W)
    /\ pc = "decode" => rows # <<>> /\ \A b \in 1 .. Len(rows) : ~rows[b].fin
    /\ pending \in Seq(Units(W))
    /\ PoolOK(lru, BlockSize, PoolBytes)

(* The options of an engine do not change.                                 *)
LEMMA EngineStays ==
    ASSUME UNCHANGED engine
    PROVE  /\ BlockSize' = BlockSize /\ PoolBytes' = PoolBytes
           /\ PrefillChunk' = PrefillChunk /\ W' = W
<1>1. BlockSize' = BlockSize /\ PoolBytes' = PoolBytes /\ PrefillChunk' = PrefillChunk
  BY DEF BlockSize, PoolBytes, PrefillChunk
<1>2. Chunk' = Chunk
  BY <1>1 DEF Chunk
<1> QED BY <1>1, <1>2 DEF W

(* The invariant says of the engine's options that they are numbers.       *)
LEMMA InvFacts ==
    ASSUME IInv
    PROVE  /\ BlockSize \in Nat /\ PoolBytes \in Nat /\ PrefillChunk \in Nat
           /\ Chunk \in Nat \ {0} /\ W = RoundUp(Chunk) /\ W \in Nat \ {0}
<1>1. /\ BlockSize \in Nat /\ PoolBytes \in Nat /\ PrefillChunk \in Nat /\ Chunk \in Nat \ {0}
  BY EngineFacts DEF IInv
<1>2. RoundUp(Chunk) \in Nat /\ Chunk <= RoundUp(Chunk)
  BY <1>1, RoundUpTight
<1>3. RoundUp(Chunk) # 0
  BY <1>1, <1>2
<1> QED BY <1>1, <1>2, <1>3 DEF W

(* It holds of the worker that has not started.                            *)
LEMMA InvInit ==
    Init => IInv
<1> SUFFICES ASSUME Init PROVE IInv
  OBVIOUS
<1>1. engine \in Engine /\ pc = "take" /\ incoming = <<>> /\ gen = <<>> /\ pending = <<>>
      /\ cache = NoCache /\ rows = <<>> /\ lru = <<>>
  BY DEF Init
<1>2. BatchOK(cache, rows, W)
  BY <1>1, NoCacheFits
<1>3. BlockSize \in Nat /\ PoolBytes \in Nat
  BY <1>1, EngineFacts
<1>4. PoolOK(lru, BlockSize, PoolBytes)
  <2>1. <<>> \in Seq(Entry(BlockSize)) /\ Distinct(<<>>)
    BY DEF Distinct
  <2>2. Len(<<>>) * BlockBytes <= PoolBytes
    <3>1. 0 * BlockBytes = 0 /\ Len(<<>>) = 0
      BY BoundAssumption
    <3> QED BY <1>3, <3>1
  <2> QED BY <1>1, <2>1, <2>2 DEF PoolOK
<1>5. incoming \in Seq(Request) /\ gen \in Seq(Text) /\ pending \in Seq(Units(W))
  BY <1>1
<1> QED BY <1>1, <1>2, <1>4, <1>5 DEF IInv

(* What run takes from the scheduler are requests.                         *)
LEMMA TakenRequests ==
    ASSUME engine \in Engine, Take
    PROVE  incoming' \in Seq(Request)
<1>1. engine.serves \subseteq Request /\ PrefillBatch \in Nat
  BY EngineAssumption, BoundAssumption
<1>2. \A s \in Arrivals : \E m \in 0 .. PrefillBatch : s \in [1 .. m -> engine.serves]
  BY DEF Arrivals, SeqOf
<1>3. \A s \in Arrivals : s \in Seq(Request)
  BY <1>1, <1>2
<1>4. <<>> \in Seq(Request)
  OBVIOUS
<1>5. incoming' \in Arrivals \/ incoming' = <<>>
  BY DEF Take
<1> QED BY <1>3, <1>4, <1>5

(* What is dispatched as text has no image.                                *)
LEMMA DispatchedRequests ==
    ASSUME incoming \in Seq(Request), gen \in Seq(Text), DispatchText
    PROVE  incoming' \in Seq(Request) /\ gen' \in Seq(Text)
<1>1. incoming # <<>> /\ Head(incoming) \in Text
  BY DEF DispatchText, Text
<1> QED BY <1>1 DEF DispatchText

(* Taking requests moves only them and the program counter.                *)
LEMMA TakeKeeps ==
    ASSUME IInv, Take, UNCHANGED engine
    PROVE  IInv'
<1>1. W' = W /\ BlockSize' = BlockSize /\ PoolBytes' = PoolBytes
  BY EngineStays
<1>2. incoming' \in Seq(Request)
  BY TakenRequests DEF IInv
<1>3. pc' = "dispatch" /\ UNCHANGED <<gen, pending, cache, rows, lru, engine>>
  BY DEF Take
<1> QED BY <1>1, <1>2, <1>3 DEF IInv

(* Dispatching a text request moves only the request.                      *)
LEMMA DispatchTextKeeps ==
    ASSUME IInv, DispatchText, UNCHANGED engine
    PROVE  IInv'
<1>1. W' = W /\ BlockSize' = BlockSize /\ PoolBytes' = PoolBytes
  BY EngineStays
<1>2. incoming' \in Seq(Request) /\ gen' \in Seq(Text)
  BY DispatchedRequests DEF IInv
<1>3. UNCHANGED <<pc, pending, cache, rows, lru, engine>>
  BY DEF DispatchText
<1> QED BY <1>1, <1>2, <1>3 DEF IInv

(* With nothing to prefill the worker goes on.                             *)
LEMMA NothingPendingKeeps ==
    ASSUME IInv, NothingPending, UNCHANGED engine
    PROVE  IInv'
<1>1. W' = W /\ BlockSize' = BlockSize /\ PoolBytes' = PoolBytes
  BY EngineStays
<1>2. pc' = "evict1" /\ UNCHANGED <<incoming, gen, pending, cache, rows, lru, engine>>
  BY DEF NothingPending
<1> QED BY <1>1, <1>2 DEF IInv

(* The batch with the rows of a fresh cache: the merge does not throw.     *)
LEMMA AdoptStep ==
    ASSUME ~Hybrid, NEW w \in Nat, BatchOK(cache, rows, w),
           NEW d, WellFormed(d, Slot), Tight(d, w),
           NEW reqs \in Seq(Request), Len(d.rows) = Len(reqs),
           \A b \in 1 .. Len(reqs) :
              /\ Spans(d, d.rows[b], reqs[b], Prompt[reqs[b]], Len(Prompt[reqs[b]]))
              /\ d.rows[b].off = Position(reqs[b], Len(Prompt[reqs[b]])),
           NEW next, Adopt(d, reqs, next)
    PROVE  BatchOK(cache', rows', w) /\ pc' = next
<1>1. \A fins \in [1 .. Len(reqs) -> BOOLEAN] :
         MergeFits(cache, d) /\ BatchOK(Merge(cache, d), rows \o NewRows(reqs, fins), w)
  BY AdmitKeeps
<1>2. MergeFits(cache, d)
  <2>1. [i \in 1 .. Len(reqs) |-> TRUE] \in [1 .. Len(reqs) -> BOOLEAN]
    OBVIOUS
  <2> QED BY <1>1, <2>1
<1>3. /\ cache' = Merge(cache, d) /\ pc' = next
      /\ \E fins \in [1 .. Len(reqs) -> BOOLEAN] : rows' = rows \o NewRows(reqs, fins)
  BY <1>2 DEF Adopt
<1> QED BY <1>1, <1>3

(* The prefill of an image prompt holds the prompt, and decoding goes on at
   the position that M-RoPE gives.                                         *)
LEMMA MultimodalHolds ==
    ASSUME NEW r \in Image, NEW w \in Nat \ {0}, NEW d, d = PrefillMultimodal(r)
    PROVE  /\ WellFormed(d, Slot) /\ Tight(d, w) /\ Len(d.rows) = 1
           /\ Spans(d, d.rows[1], r, Prompt[r], Len(Prompt[r]))
           /\ d.rows[1].off = Position(r, Len(Prompt[r]))
<1>1. r \in Request /\ DecodeOffset[r] \in Nat
  BY RequestAssumption
<1>2. PICK p \in Seq(Token), l \in Nat \ {0} : p = Prompt[r] /\ l = Len(p)
  BY <1>1, PromptType
<1> DEFINE slots == [i \in 1 .. l |-> PrefillSlot(p, i)]
           kv == [i \in 0 .. l - 1 |-> slots[i + 1]]
           row == [lp |-> 0, off |-> DecodeOffset[r], kv |-> kv]
<1>3. Len(slots) = l
  OBVIOUS
<1>4. d = FromSingleSequence(slots, DecodeOffset[r])
  BY <1>2 DEF PrefillMultimodal, PrefillSlot
<1>5. d = [idx |-> l, cap |-> l, rows |-> <<row>>]
  <2> HIDE DEF slots
  <2> QED BY <1>3, <1>4 DEF FromSingleSequence
<1>6. \A j \in 0 .. l - 1 : kv[j] = PrefillSlot(p, j + 1) /\ kv[j] \in Slot
  <2> SUFFICES ASSUME NEW j \in 0 .. l - 1
               PROVE  kv[j] = PrefillSlot(p, j + 1) /\ PrefillSlot(p, j + 1) \in Slot
    OBVIOUS
  <2>1. j + 1 \in 1 .. l /\ j + 1 \in 1 .. Len(p)
    BY <1>2
  <2> QED BY <2>1, PrefillSlotType
<1>7. kv \in [0 .. l - 1 -> Slot]
  BY <1>6
<1> HIDE DEF kv, slots
<1>8. row \in Row(Slot, l) /\ row.lp = 0 /\ row.off = DecodeOffset[r] /\ row.kv = kv
  <2>1. <<>> \in Seq(Slot)
    OBVIOUS
  <2> QED BY <1>1, <1>7, <2>1 DEF Row
<1> HIDE DEF row
<1>9. /\ d.idx = l /\ d.cap = l /\ d.rows = <<row>>
      /\ d = [idx |-> d.idx, cap |-> d.cap, rows |-> d.rows]
  BY <1>5
<1>10. Len(d.rows) = 1 /\ d.rows[1] = row /\ d.rows \in Seq(Row(Slot, l))
  BY <1>8, <1>9
<1>11. WellFormed(d, Slot)
  <2>1. Shaped(d, Slot)
    BY <1>9, <1>10 DEF Shaped
  <2> QED BY <1>8, <1>9, <1>10, <2>1 DEF WellFormed
<1>12. Tight(d, w)
  BY <1>8, <1>9, <1>10 DEF Tight
<1>13. Spans(d, row, r, p, l)
  <2>1. ASSUME NEW j \in 0 .. l - 1
        PROVE  row.kv[row.lp + j] = SlotOf(r, p, j)
    <3>1. row.lp + j = j /\ (j + 1) - 1 = j /\ j < l /\ ~(j >= l)
      BY <1>8
    <3>2. Position(r, j) = j
      BY <1>2, <3>1 DEF Position
    <3>3. PrefillSlot(p, j + 1) = SlotOf(r, p, j)
      BY <1>2, <3>1, <3>2 DEF PrefillSlot, SlotOf
    <3> QED BY <1>6, <1>8, <3>1, <3>3
  <2>2. d.idx - row.lp = l
    BY <1>8, <1>9
  <2> QED BY <2>1, <2>2 DEF Spans
<1>14. Position(r, l) = DecodeOffset[r]
  BY <1>1, <1>2 DEF Position
<1> QED BY <1>2, <1>8, <1>10, <1>11, <1>12, <1>13, <1>14

(* An image request is prefilled and merged, or dropped before the merge.  *)
LEMMA AdmitMultimodalKeeps ==
    ASSUME ~Hybrid, IInv, AdmitMultimodal, UNCHANGED engine
    PROVE  IInv'
<1>1. W' = W /\ BlockSize' = BlockSize /\ PoolBytes' = PoolBytes
  BY EngineStays
<1>2. W \in Nat \ {0}
  BY InvFacts
<1> DEFINE r == Head(incoming)
           d == PrefillMultimodal(r)
           reqs == <<r>>
<1>3. r \in Image /\ incoming \in Seq(Request) /\ incoming # <<>> /\ pc = "dispatch"
  BY DEF AdmitMultimodal, IInv
<1>4. incoming' \in Seq(Request)
  BY <1>3 DEF AdmitMultimodal
<1>5. BatchOK(cache', rows', W) /\ pc' = pc
  <2>1. CASE Adopt(d, reqs, pc)
    <3>1. /\ WellFormed(d, Slot) /\ Tight(d, W) /\ Len(d.rows) = 1
          /\ Spans(d, d.rows[1], r, Prompt[r], Len(Prompt[r]))
          /\ d.rows[1].off = Position(r, Len(Prompt[r]))
      BY <1>2, <1>3, MultimodalHolds
    <3>2. reqs \in Seq(Request) /\ Len(reqs) = 1 /\ reqs[1] = r
      BY <1>3
    <3> HIDE DEF d, reqs
    <3>3. \A b \in 1 .. Len(reqs) :
             /\ Spans(d, d.rows[b], reqs[b], Prompt[reqs[b]], Len(Prompt[reqs[b]]))
             /\ d.rows[b].off = Position(reqs[b], Len(Prompt[reqs[b]]))
      <4>1. \A b \in 1 .. Len(reqs) : b = 1
        BY <3>2
      <4> QED BY <3>1, <3>2, <4>1
    <3>4. BatchOK(cache, rows, W)
      BY DEF IInv
    <3>5. Len(d.rows) = Len(reqs)
      BY <3>1, <3>2
    <3> QED BY <1>2, <2>1, <3>1, <3>2, <3>3, <3>4, <3>5, AdoptStep
  <2>2. CASE UNCHANGED <<pc, cache, rows>>
    BY <2>2 DEF IInv
  <2> QED BY <2>1, <2>2 DEF AdmitMultimodal
<1>6. UNCHANGED <<gen, pending, lru, engine>>
  BY DEF AdmitMultimodal
<1>7. pc' # "decode" /\ pc' = "dispatch"
  BY <1>3, <1>5
<1> HIDE DEF r, d, reqs
<1> QED BY <1>1, <1>4, <1>5, <1>6, <1>7 DEF IInv

(* The admitted requests become units: hits that hold what the pool gave,
   and one cold unit.                                                      *)
LEMMA EnqueueAdmissionsKeeps ==
    ASSUME IInv, EnqueueAdmissions, UNCHANGED engine
    PROVE  IInv'
<1>1. W' = W /\ BlockSize' = BlockSize /\ PoolBytes' = PoolBytes
  BY EngineStays
<1>2. BlockSize \in Nat /\ Chunk \in Nat \ {0} /\ W = RoundUp(Chunk)
  BY InvFacts
<1>3. gen \in Seq(Text) /\ pending \in Seq(Units(W)) /\ PoolOK(lru, BlockSize, PoolBytes)
  BY DEF IInv
<1> DEFINE s == SplitPrefix(gen)
           cold == IF s.cold = <<>> THEN <<>> ELSE << ColdUnit(s.cold) >>
<1>4. PoolOK(s.pool, BlockSize, PoolBytes) /\ s.warm \in Seq(Units(W)) /\ s.cold \in Seq(Text)
  <2>1. SplitOK(s, W)
    BY <1>2, <1>3, SplitKeeps
  <2> HIDE DEF s
  <2> QED BY <2>1 DEF SplitOK
<1>5. /\ lru' = s.pool /\ gen' = <<>> /\ pc' = "prefill"
      /\ pending' = IF PrefillChunk > 0 THEN pending \o s.warm \o cold ELSE cold \o s.warm
      /\ UNCHANGED <<incoming, cache, rows>>
  BY DEF EnqueueAdmissions
<1> HIDE DEF s
<1>6. cold \in Seq(Units(W))
  <2>1. CASE s.cold = <<>>
    BY <2>1
  <2>2. CASE s.cold # <<>>
    <3>1. UnitOK(ColdUnit(s.cold), W)
      BY <1>2, <1>4, <2>2, ColdUnitOK
    <3>2. ColdUnit(s.cold) \in Units(W)
      BY <3>1, UnitMember
    <3> QED BY <2>2, <3>2
  <2> QED BY <2>1, <2>2
<1> HIDE DEF cold
<1>7. pending' \in Seq(Units(W))
  <2>1. cold \o s.warm \in Seq(Units(W)) /\ pending \o s.warm \in Seq(Units(W))
    BY <1>3, <1>4, <1>6
  <2>2. pending \o s.warm \o cold \in Seq(Units(W))
    BY <1>6, <2>1
  <2> QED BY <1>5, <2>1, <2>2
<1>8. PoolOK(lru', BlockSize, PoolBytes) /\ gen' \in Seq(Text)
  BY <1>4, <1>5
<1> QED BY <1>1, <1>5, <1>7, <1>8 DEF IInv

(* A chunk of a prefill; the last one admits its rows.                     *)
LEMMA PrefillKeeps ==
    ASSUME ~Hybrid, IInv, Prefill, UNCHANGED engine
    PROVE  IInv'
<1>1. W' = W /\ BlockSize' = BlockSize /\ PoolBytes' = PoolBytes
  BY EngineStays
<1>2. Chunk \in Nat \ {0} /\ W = RoundUp(Chunk) /\ W \in Nat
  BY InvFacts
<1> DEFINE u == Head(pending)
           n == Lesser(Chunk, Len(u.toks[1]) - u.pos)
           f == Forward(u.cache, ChunkOf(u, n), "prefill")
           next == Advanced(u, n, f)
<1>3. pc = "prefill" /\ pending # <<>> /\ pending \in Seq(Units(W)) /\ BatchOK(cache, rows, W)
  BY DEF Prefill, IInv
<1>4. u \in Units(W) /\ Tail(pending) \in Seq(Units(W))
  BY <1>3
<1>5. \/ /\ next.pos < Len(u.toks[1]) /\ pending' = <<next>> \o Tail(pending)
         /\ pc' = AfterPrefill(pending') /\ UNCHANGED <<cache, rows>>
      \/ /\ ~(next.pos < Len(u.toks[1])) /\ pending' = Tail(pending)
         /\ Adopt(next.cache, u.reqs, AfterPrefill(pending'))
  BY Zenon DEF Prefill, ChunkOf, Advanced
<1>6. UNCHANGED <<incoming, gen, lru, engine>>
  BY DEF Prefill
<1> HIDE DEF u
<1>7. UnitOK(u, W)
  BY <1>4 DEF Units
<1>8. UnitHolds(u, W) /\ u.pos \in Nat /\ Len(u.toks[1]) \in Nat /\ u.pos < Len(u.toks[1])
  <2>1. UnitHolds(u, W) /\ UnitShape(u) /\ u.pos < Len(u.toks[1])
    BY <1>7 DEF UnitOK, UnitHolds
  <2>2. u.pos \in Nat /\ u.toks \in Seq(Seq(Token)) /\ u.reqs \in Seq(Text) /\ u.reqs # <<>>
        /\ Len(u.toks) = Len(u.reqs)
    BY <2>1 DEF UnitShape
  <2>3. u.toks[1] \in Seq(Token)
    BY <2>2
  <2>4. Len(u.toks[1]) \in Nat
    BY <2>3
  <2> QED BY <2>1, <2>2, <2>4
<1>9. n \in Nat \ {0} /\ n <= Chunk /\ u.pos + n <= Len(u.toks[1])
  BY <1>2, <1>8 DEF Lesser
<1> HIDE DEF n, f
<1>10. /\ UnitHolds(next, W) /\ next.pos = u.pos + n /\ next.cache = f
       /\ next.reqs = u.reqs /\ next.toks = u.toks
  <2>1. UnitHolds(u, RoundUp(Chunk)) /\ f = Forward(u.cache, ChunkOf(u, n), "prefill")
        /\ next = Advanced(u, n, f)
    BY <1>2, <1>8 DEF f
  <2> HIDE DEF next
  <2>2. /\ UnitHolds(next, RoundUp(Chunk)) /\ next.pos = u.pos + n /\ next.cache = f
        /\ next.reqs = u.reqs /\ next.toks = u.toks
    BY <1>2, <1>9, <2>1, ChunkKeeps
  <2> QED BY <1>2, <2>2
<1> HIDE DEF next
<1>11. AfterPrefill(pending') \in {"prefill", "evict1"}
  BY DEF AfterPrefill
<1>12. CASE /\ next.pos < Len(u.toks[1]) /\ pending' = <<next>> \o Tail(pending)
            /\ pc' = AfterPrefill(pending') /\ UNCHANGED <<cache, rows>>
  <2>1. UnitOK(next, W)
    BY <1>10, <1>12 DEF UnitOK
  <2>2. next \in Units(W)
    BY <2>1, UnitMember
  <2>3. pending' \in Seq(Units(W))
    BY <1>4, <1>12, <2>2
  <2> QED BY <1>1, <1>6, <1>11, <1>12, <2>3 DEF IInv
<1>13. CASE /\ ~(next.pos < Len(u.toks[1])) /\ pending' = Tail(pending)
            /\ Adopt(next.cache, u.reqs, AfterPrefill(pending'))
  <2>1. next.pos = Len(next.toks[1])
    BY <1>8, <1>9, <1>10, <1>13
  <2>2. /\ WellFormed(next.cache, Slot) /\ Tight(next.cache, W)
        /\ next.reqs \in Seq(Request) /\ Len(next.cache.rows) = Len(next.reqs)
        /\ \A b \in 1 .. Len(next.reqs) :
              LET r == next.reqs[b] IN
              /\ Spans(next.cache, next.cache.rows[b], r, Prompt[r], Len(Prompt[r]))
              /\ next.cache.rows[b].off = Position(r, Len(Prompt[r]))
    BY <1>2, <1>10, <2>1, UnitDone
  <2>3. Adopt(next.cache, next.reqs, AfterPrefill(pending'))
    BY <1>10, <1>13
  <2>4. BatchOK(cache', rows', W) /\ pc' = AfterPrefill(pending')
    BY <1>2, <1>3, <2>2, <2>3, AdoptStep
  <2>5. pending' \in Seq(Units(W))
    BY <1>4, <1>13
  <2> QED BY <1>1, <1>6, <1>11, <2>4, <2>5 DEF IInv
<1> QED BY <1>5, <1>12, <1>13

(* Finished rows are harvested and leave; a decode step follows only when
   a row is left, and none that is left has finished.                      *)
LEMMA EvictFinishedKeeps ==
    ASSUME IInv, EvictFinished, UNCHANGED engine
    PROVE  IInv'
<1>1. W' = W /\ BlockSize' = BlockSize /\ PoolBytes' = PoolBytes
  BY EngineStays
<1>2. BlockSize \in Nat /\ PoolBytes \in Nat /\ W \in Nat
  BY InvFacts
<1>3. BatchOK(cache, rows, W) /\ PoolOK(lru, BlockSize, PoolBytes)
  BY DEF IInv
<1> DEFINE keep == Keep(Numbers(Len(rows)), Going(rows))
           left == [d \in 1 .. Len(keep) |-> rows[keep[d]]]
           c == IF Len(keep) = Len(rows) THEN cache
                ELSE IF keep = <<>> THEN NoCache ELSE Filter(cache, keep)
<1>4. /\ lru' = HarvestFinished /\ rows' = left /\ cache' = c
      /\ pc' = IF pc = "evict1" /\ rows' # <<>> THEN "decode" ELSE "take"
      /\ UNCHANGED <<incoming, gen, pending>>
  BY Zenon DEF EvictFinished, Numbers, Going
<1>5. BatchOK(c, left, W) /\ \A b \in 1 .. Len(left) : ~left[b].fin
  BY <1>2, <1>3, EvictKeeps
<1> HIDE DEF left, c
<1>6. PoolOK(lru', BlockSize, PoolBytes)
  BY <1>2, <1>3, <1>4, FinishedKeeps
<1>7. pc' \in {"decode", "take"} /\ (pc' = "decode" => rows' # <<>>)
  BY <1>4
<1>8. BatchOK(cache', rows', W) /\ \A b \in 1 .. Len(rows') : ~rows'[b].fin
  BY <1>4, <1>5
<1> QED BY <1>1, <1>4, <1>6, <1>7, <1>8 DEF IInv

(* A decode step never runs past the axis, and every row gets its token.   *)
LEMMA DecodeStepKeeps ==
    ASSUME ~Hybrid, IInv, DecodeStep, UNCHANGED engine
    PROVE  IInv'
<1>1. W' = W /\ BlockSize' = BlockSize /\ PoolBytes' = PoolBytes
  BY EngineStays
<1>2. Chunk \in Nat \ {0} /\ W = RoundUp(Chunk)
  BY InvFacts
<1>3. /\ pc = "decode" /\ BatchOK(cache, rows, W) /\ rows # <<>>
      /\ \A b \in 1 .. Len(rows) : ~rows[b].fin
  BY DEF DecodeStep, IInv
<1> DEFINE B == Len(rows)
           extra == NextBucket(B) - B
           padded == PadDummies(cache, extra)
           fed == FedTokens(rows, B, extra)
           after == Forward(padded, fed, "decode")
           c == IF extra > 0 THEN Filter(after, Numbers(B)) ELSE after
<1>4. IF ~ForwardFits(padded, 1)
      THEN pc' = "thrown" /\ UNCHANGED <<cache, rows>>
      ELSE /\ \E out \in [1 .. B -> {"go", "stop", "cancel"}] :
                rows' = [b \in 1 .. B |-> Decoded(rows[b], out[b])]
           /\ cache' = c
           /\ pc' = "evict2"
  BY Zenon DEF DecodeStep, FedTokens, Numbers
<1>5. UNCHANGED <<incoming, gen, pending, lru, engine>>
  BY DEF DecodeStep
<1>6. B \in Nat
  BY <1>3 DEF BatchOK
<1>7. extra \in Nat
  BY <1>6, BucketFits
<1> HIDE DEF extra
<1>8. PassKeeps(cache, rows, Chunk, B, extra, padded, after)
  BY <1>2, <1>3, <1>6, <1>7, DecodePass
<1>9. ForwardFits(padded, 1)
  BY <1>8 DEF PassKeeps
<1>10. PICK out \in [1 .. B -> {"go", "stop", "cancel"}] :
          /\ rows' = [b \in 1 .. B |-> Decoded(rows[b], out[b])]
          /\ cache' = c /\ pc' = "evict2"
  BY <1>4, <1>9
<1>11. BatchOK(cache', rows', W)
  <2>1. BatchOK(cache, rows, RoundUp(Chunk))
    BY <1>2, <1>3
  <2> DEFINE new == [b \in 1 .. B |-> Decoded(rows[b], out[b])]
  <2>2. /\ B = Len(rows) /\ padded = PadDummies(cache, extra)
        /\ fed = FedTokens(rows, B, extra) /\ after = Forward(padded, fed, "decode")
        /\ c = IF extra > 0 THEN Filter(after, Numbers(B)) ELSE after
        /\ new = [b \in 1 .. B |-> Decoded(rows[b], out[b])]
    BY Zenon
  <2> HIDE DEF c, after, padded, fed, new, B
  <2>3. BatchOK(c, new, RoundUp(Chunk))
    BY <1>2, <1>3, <1>6, <1>7, <2>1, <2>2, DecodeKeeps, SMTT(30) DEF B
  <2> QED BY <1>2, <1>10, <2>3 DEF new
<1> HIDE DEF c, after, padded, fed
<1> QED BY <1>1, <1>5, <1>10, <1>11 DEF IInv

(* Every step keeps the invariant.                                         *)
LEMMA InvNext ==
    ASSUME ~Hybrid, IInv, [Next]_vars
    PROVE  IInv'
<1>1. CASE Next
  <2>1. UNCHANGED engine
    BY <1>1 DEF Next
  <2>2. CASE Take
    BY <2>1, <2>2, TakeKeeps
  <2>3. CASE DispatchText
    BY <2>1, <2>3, DispatchTextKeeps
  <2>4. CASE AdmitMultimodal
    BY <2>1, <2>4, AdmitMultimodalKeeps
  <2>5. CASE EnqueueAdmissions
    BY <2>1, <2>5, EnqueueAdmissionsKeeps
  <2>6. CASE Prefill
    BY <2>1, <2>6, PrefillKeeps
  <2>7. CASE NothingPending
    BY <2>1, <2>7, NothingPendingKeeps
  <2>8. CASE EvictFinished
    BY <2>1, <2>8, EvictFinishedKeeps
  <2>9. CASE DecodeStep
    BY <2>1, <2>9, DecodeStepKeeps
  <2> QED BY <1>1, <2>2, <2>3, <2>4, <2>5, <2>6, <2>7, <2>8, <2>9 DEF Next
<1>2. CASE UNCHANGED vars
  <2>1. UNCHANGED <<engine, pc, incoming, gen, pending, cache, rows, lru>>
    BY <1>2 DEF vars
  <2>2. W' = W /\ BlockSize' = BlockSize /\ PoolBytes' = PoolBytes
    BY <2>1, EngineStays
  <2> QED BY <2>1, <2>2 DEF IInv
<1> QED BY <1>1, <1>2

-----------------------------------------------------------------------------
(* What follows from the invariant.                                        *)

(* What the invariant says of a row of the batch.                          *)
LEMMA RowFacts ==
    ASSUME NEW w, BatchOK(cache, rows, w), NEW b \in 1 .. Len(rows)
    PROVE  /\ cache.rows[b].lp \in Nat /\ cache.idx \in Nat /\ cache.idx <= cache.cap
           /\ rows[b].req \in Request /\ rows[b].hist \in Seq(Token) /\ rows[b].fin \in BOOLEAN
           /\ Len(rows[b].hist) > Len(Prompt[rows[b].req])
           /\ \E n \in {Len(rows[b].hist) - 1, Len(rows[b].hist)} :
                 /\ rows[b].fin \/ n = Len(rows[b].hist) - 1
                 /\ Spans(cache, cache.rows[b], rows[b].req, rows[b].hist, n)
                 /\ cache.rows[b].off = Position(rows[b].req, n)
<1>1. /\ WellFormed(cache, Slot) /\ rows \in Seq(RowState) /\ Len(cache.rows) = Len(rows)
      /\ RowExact(cache, cache.rows[b], rows[b])
  BY DEF BatchOK
<1>2. cache.rows[b].lp \in Nat /\ cache.idx \in Nat /\ cache.idx <= cache.cap
  <2>1. b \in 1 .. Len(cache.rows)
    BY <1>1
  <2> QED BY <1>1, <2>1, RowParts DEF WellFormed, Shaped
<1>3. rows[b] \in RowState
  BY <1>1
<1>4. rows[b].req \in Request /\ rows[b].hist \in Seq(Token) /\ rows[b].fin \in BOOLEAN
  BY <1>3 DEF RowState
<1> QED BY <1>1, <1>2, <1>4, Zenon DEF RowExact

(* A row that spans a history holds it.                                    *)
LEMMA SpansHolds ==
    ASSUME NEW c, NEW row, NEW r, NEW ids, NEW n, Spans(c, row, r, ids, n),
           row.off = Position(r, n), c.idx <= c.cap
    PROVE  Holds(c, row, r, ids, n)
  BY Zenon DEF Spans, Holds, SlotOf

(* The batch is exact, in the terms of the property.                       *)
LEMMA InvBatchRowsExact ==
    IInv => BatchRowsExact
<1> SUFFICES ASSUME IInv PROVE BatchRowsExact
  OBVIOUS
<1>1. BatchOK(cache, rows, W)
  BY DEF IInv
<1>2. Len(cache.rows) = Len(rows) /\ DOMAIN rows = 1 .. Len(rows)
  BY <1>1 DEF BatchOK
<1>3. ASSUME NEW b \in 1 .. Len(rows)
      PROVE  \E n \in {Len(rows[b].hist) - 1, Len(rows[b].hist)} :
                /\ rows[b].fin \/ n = Len(rows[b].hist) - 1
                /\ Holds(cache, cache.rows[b], rows[b].req, rows[b].hist, n)
  BY <1>1, RowFacts, SpansHolds, Zenon
<1> QED BY <1>2, <1>3, Zenon DEF BatchRowsExact

(* So are the prefills in flight.                                          *)
LEMMA InvPendingRowsExact ==
    IInv => PendingRowsExact
<1> SUFFICES ASSUME IInv PROVE PendingRowsExact
  OBVIOUS
<1>1. pending \in Seq(Units(W)) /\ DOMAIN pending = 1 .. Len(pending)
  BY DEF IInv
<1>2. ASSUME NEW p \in Units(W), NEW b \in DOMAIN p.reqs, NEW r, r = p.reqs[b],
             NEW n, n = Len(Prompt[r]) - (Len(p.toks[b]) - p.pos)
      PROVE  /\ p.pos < Len(p.toks[b])
             /\ Holds(p.cache, p.cache.rows[b], r, Prompt[r], n)
  <2>1. UnitShape(p) /\ p.pos < Len(p.toks[1]) /\ \A d \in 1 .. Len(p.reqs) : UnitRow(p, d)
    BY DEF Units, UnitOK, UnitHolds
  <2>2. /\ p.reqs \in Seq(Text) /\ p.toks \in Seq(Seq(Token)) /\ Len(p.toks) = Len(p.reqs)
        /\ \A d \in 1 .. Len(p.toks) : Len(p.toks[d]) = Len(p.toks[1])
        /\ p.pos \in Nat /\ Shaped(p.cache, Slot)
    BY <2>1 DEF UnitShape
  <2>3. b \in 1 .. Len(p.reqs) /\ b \in 1 .. Len(p.toks)
    BY <2>2
  <2>4. p.pos < Len(p.toks[b])
    BY <2>1, <2>2, <2>3
  <2>5. r \in Text /\ p.toks[b] \in Seq(Token)
    BY <1>2, <2>2, <2>3
  <2>6. n \in Int
    <3>1. Len(Prompt[r]) \in Nat /\ Len(p.toks[b]) \in Nat /\ p.pos \in Nat
      BY <2>2, <2>5, TextFacts, PromptType
    <3> QED BY <1>2, <3>1
  <2>7. Spans(p.cache, p.cache.rows[b], r, Prompt[r], n) /\ p.cache.rows[b].off = n
    BY <1>2, <2>1, <2>3 DEF UnitRow
  <2>8. Position(r, n) = n
    BY <2>5, <2>6, TextFacts
  <2>9. p.cache.idx <= p.cache.cap
    BY <2>2 DEF Shaped
  <2> QED BY <2>4, <2>7, <2>8, <2>9, SpansHolds, Zenon
<1>3. \A u \in DOMAIN pending : pending[u] \in Units(W)
  BY <1>1
<1> QED BY <1>2, <1>3, Zenon DEF PendingRowsExact

(* A batch that is no looser than W is tight.                              *)
LEMMA InvCacheTight ==
    IInv => CacheTight
<1> SUFFICES ASSUME IInv, rows # <<>>
             PROVE  /\ \E b \in DOMAIN cache.rows : cache.rows[b].lp = 0
                    /\ cache.cap - cache.idx < RoundUp(Chunk)
  BY DEF CacheTight
<1>1. Tight(cache, W) /\ WellFormed(cache, Slot)
  BY DEF IInv, BatchOK
<1>2. DOMAIN cache.rows = 1 .. Len(cache.rows)
  BY <1>1 DEF WellFormed, Shaped
<1> QED BY <1>1, <1>2 DEF Tight, W

(* A pool of blocks that are what their keys say, one per key.             *)
LEMMA PoolOKExact ==
    ASSUME PoolOK(lru, BlockSize, PoolBytes)
    PROVE  PoolExact
<1>1. /\ lru \in Seq(Entry(BlockSize)) /\ Distinct(lru)
      /\ PoolBytes # 0 => Len(lru) * BlockBytes <= PoolBytes
  BY DEF PoolOK
<1> DEFINE E == Entry(BlockSize)
<1>2. ToSet(lru) = Range(lru) /\ Range(lru) \subseteq E
  BY <1>1, PoolRange
<1>3. \A e \in ToSet(lru) : e.block = BlockFor(e.key, BlockSize)
  BY <1>2, EntryFacts
<1>4. PICK n \in Nat : n = Len(lru) /\ DOMAIN lru = 1 .. n
  BY <1>1
<1>5. \A i \in 1 .. n : lru[i] \in E
  BY <1>1, <1>4
<1>6. \A i \in 1 .. n : lru[i].key \in Seq(Token) /\ lru[i] = EntryFor(lru[i].key, BlockSize)
  BY <1>5, EntryFacts
<1> HIDE DEF E
<1> DEFINE ks == [i \in 1 .. n |-> lru[i].key]
<1>7. ks \in Seq(Seq(Token)) /\ Len(ks) = n /\ \A i \in 1 .. n : ks[i] = lru[i].key
  BY <1>6
<1>8. Range(ks) = Pooled(lru)
  <2>1. DOMAIN ks = 1 .. n
    OBVIOUS
  <2>2. Range(ks) = {lru[i].key : i \in 1 .. n}
    BY <2>1 DEF Range
  <2>3. ToSet(lru) = {lru[i] : i \in 1 .. n}
    BY <1>4 DEF ToSet
  <2>4. Pooled(lru) = {lru[i].key : i \in 1 .. n}
    BY <2>3 DEF Pooled
  <2> QED BY <2>2, <2>4
<1> HIDE DEF ks
<1>9. Distinct(ks)
  <2> SUFFICES ASSUME NEW i \in 1 .. n, NEW j \in 1 .. n, lru[i].key = lru[j].key
               PROVE  i = j
    BY <1>7 DEF Distinct
  <2>1. lru[i] = lru[j]
    BY <1>6, Zenon
  <2> QED BY <1>1, <1>4, <2>1 DEF Distinct
<1>10. Cardinality(Pooled(lru)) = Len(lru)
  BY <1>4, <1>7, <1>8, <1>9, DistinctLength
<1>11. \A e \in ToSet(lru) :
          e.block = [j \in 1 .. BlockSize |->
                       LET m == Len(e.key) - BlockSize + j IN
                       [ids |-> SubSeq(e.key, 1, m), pos |-> m - 1, via |-> "prefill"]]
  BY <1>3, Zenon DEF BlockFor
<1> QED BY <1>1, <1>10, <1>11, Zenon DEF PoolExact

(* The invariant has the types.                                            *)
LEMMA InvTypeOK ==
    IInv => TypeOK
<1> SUFFICES ASSUME IInv PROVE TypeOK
  OBVIOUS
<1>1. /\ pc \in {"take", "dispatch", "prefill", "evict1", "decode", "evict2"}
      /\ incoming \in Seq(Request) /\ gen \in Seq(Request)
  <2>1. \A s \in Seq(Text) : s \in Seq(Request)
    BY TextFacts
  <2> QED BY <2>1 DEF IInv
<1>2. ASSUME NEW c, Shaped(c, Slot)
      PROVE  /\ CacheType(c) /\ DOMAIN c.rows = 1 .. Len(c.rows)
             /\ \A b \in DOMAIN c.rows : c.rows[b].lp \in Nat
  <2>1. c.idx \in Nat /\ c.cap \in Nat /\ c.rows \in Seq(Row(Slot, c.cap))
    BY <1>2 DEF Shaped
  <2>2. DOMAIN c.rows = 1 .. Len(c.rows)
    BY <2>1
  <2>3. ASSUME NEW b \in DOMAIN c.rows
        PROVE  c.rows[b].lp \in Nat /\ c.rows[b].off \in Int /\ DOMAIN c.rows[b].kv = 0 .. c.cap - 1
    <3>1. c.rows[b] \in Row(Slot, c.cap)
      BY <2>1
    <3> QED BY <3>1 DEF Row
  <2> QED BY <2>1, <2>2, <2>3 DEF CacheType
<1>3. BatchOK(cache, rows, W)
  BY DEF IInv
<1>4. /\ Shaped(cache, Slot) /\ Len(cache.rows) = Len(rows) /\ rows \in Seq(RowState)
      /\ DOMAIN rows = 1 .. Len(rows)
  BY <1>3 DEF BatchOK, WellFormed
<1>5. CacheType(cache) /\ DOMAIN cache.rows = 1 .. Len(rows)
  BY <1>2, <1>4
<1>6. ASSUME NEW b \in 1 .. Len(rows)
      PROVE  /\ cache.rows[b].lp < cache.idx /\ cache.rows[b].off \in Nat
             /\ rows[b].req \in Request /\ rows[b].fin \in BOOLEAN
  <2>1. /\ cache.rows[b].lp \in Nat /\ cache.idx \in Nat
        /\ rows[b].req \in Request /\ rows[b].hist \in Seq(Token) /\ rows[b].fin \in BOOLEAN
        /\ Len(rows[b].hist) > Len(Prompt[rows[b].req])
    BY <1>3, RowFacts, Zenon
  <2>2. PICK n \in {Len(rows[b].hist) - 1, Len(rows[b].hist)} :
           /\ Spans(cache, cache.rows[b], rows[b].req, rows[b].hist, n)
           /\ cache.rows[b].off = Position(rows[b].req, n)
    BY <1>3, RowFacts, Zenon
  <2>3. PICK l \in Nat \ {0} : l = Len(Prompt[rows[b].req])
    BY <2>1, PromptType
  <2>4. n \in Nat /\ n >= l
    <3>1. Len(rows[b].hist) \in Nat
      BY <2>1
    <3> QED BY <2>1, <2>2, <2>3, <3>1
  <2>5. cache.idx - cache.rows[b].lp = n
    BY <2>2 DEF Spans
  <2>6. cache.rows[b].lp < cache.idx
    BY <2>1, <2>3, <2>4, <2>5
  <2>7. Position(rows[b].req, n) \in Nat
    <3>1. CASE rows[b].req \in Image
      <4>1. PICK o \in Nat : o = DecodeOffset[rows[b].req]
        BY <3>1, RequestAssumption
      <4>2. Position(rows[b].req, n) = o + n - l
        BY <2>3, <2>4, <3>1, <4>1 DEF Position
      <4> QED BY <2>3, <2>4, <4>2
    <3>2. CASE rows[b].req \notin Image
      BY <2>4, <3>2 DEF Position
    <3> QED BY <3>1, <3>2
  <2> QED BY <2>1, <2>2, <2>6, <2>7
<1>7. ASSUME NEW u \in DOMAIN pending
      PROVE  /\ pending[u].reqs \in Seq(Request) /\ pending[u].pos \in Nat
             /\ CacheType(pending[u].cache)
  <2>1. PICK p \in Units(W) : p = pending[u]
    BY DEF IInv
  <2>2. UnitShape(p)
    BY DEF Units, UnitOK, UnitHolds
  <2>3. p.reqs \in Seq(Text) /\ p.pos \in Nat /\ Shaped(p.cache, Slot)
    BY <2>2 DEF UnitShape
  <2>4. p.reqs \in Seq(Request)
    BY <2>3, TextFacts
  <2> QED BY <1>2, <2>1, <2>3, <2>4
<1> QED BY <1>1, <1>4, <1>5, <1>6, <1>7 DEF TypeOK

-----------------------------------------------------------------------------
(* The invariant holds of every reachable state.                           *)
LEMMA InvHolds ==
    ASSUME ~Hybrid
    PROVE  Spec => []IInv
<1>1. Init => IInv
  BY InvInit
<1>2. IInv /\ [Next]_vars => IInv'
  BY InvNext
<1> QED BY <1>1, <1>2, PTL DEF Spec

(* Every row, of the batch or of a prefill in flight, has exactly the K/V
   of its own tokens at its own positions.                                 *)
THEOREM RowsAreExact ==
    ASSUME ~Hybrid
    PROVE  Spec => []RowsExact
<1>1. IInv => RowsExact
  BY InvBatchRowsExact, InvPendingRowsExact DEF RowsExact
<1> QED BY <1>1, InvHolds, PTL

(* The batch never carries a column that is padding for every row, nor more
   unused slots than one forward pass allocates: eviction gives the memory of
   the long rows back (batch_kv_cache.cpp, filter and the growing writer). *)
THEOREM CacheIsTight ==
    ASSUME ~Hybrid
    PROVE  Spec => []CacheTight
  BY InvCacheTight, InvHolds, PTL

(* What is needed of the pool when there is none: a hybrid model has no
   prefix cache, and its batch is out of reach of the invariant.           *)
PoolInv ==
    /\ engine \in Engine /\ incoming \in Seq(Request) /\ gen \in Seq(Text)
    /\ PoolOK(lru, BlockSize, PoolBytes)

(* A hybrid model keeps it.                                                *)
LEMMA HybridPool ==
    ASSUME Hybrid, PoolInv, [Next]_vars
    PROVE  PoolInv'
<1>1. UNCHANGED engine
  BY DEF Next, vars
<1>2. BlockSize' = BlockSize /\ PoolBytes' = PoolBytes
  BY <1>1, EngineStays
<1>3. BlockSize = 0
  <2>1. engine.blockSize \in Nat /\ ~(engine.blockSize > 0)
    BY EngineAssumption DEF PoolInv
  <2> QED BY <2>1 DEF BlockSize
<1>4. CASE UNCHANGED <<incoming, gen, lru>>
  BY <1>1, <1>2, <1>4 DEF PoolInv
<1>5. CASE Take
  <2>1. incoming' \in Seq(Request)
    BY <1>5, TakenRequests DEF PoolInv
  <2>2. UNCHANGED <<gen, lru>>
    BY <1>5 DEF Take
  <2> QED BY <1>1, <1>2, <2>1, <2>2 DEF PoolInv
<1>6. CASE DispatchText
  <2>1. incoming' \in Seq(Request) /\ gen' \in Seq(Text)
    BY <1>6, DispatchedRequests DEF PoolInv
  <2>2. UNCHANGED lru
    BY <1>6 DEF DispatchText
  <2> QED BY <1>1, <1>2, <2>1, <2>2 DEF PoolInv
<1>7. CASE AdmitMultimodal
  <2>1. incoming' \in Seq(Request) /\ UNCHANGED <<gen, lru>>
    BY <1>7 DEF AdmitMultimodal, PoolInv
  <2> QED BY <1>1, <1>2, <2>1 DEF PoolInv
<1>8. CASE EnqueueAdmissions
  <2>1. BlockSize \in Nat /\ gen \in Seq(Text) /\ PoolOK(lru, BlockSize, PoolBytes)
    BY EngineFacts DEF PoolInv
  <2>2. 1 \in Nat \ {0}
    OBVIOUS
  <2>3. SplitOK(SplitPrefix(gen), RoundUp(1))
    BY <2>1, <2>2, SplitKeeps
  <2>4. PoolOK(SplitPrefix(gen).pool, BlockSize, PoolBytes)
    BY <2>3 DEF SplitOK
  <2>5. lru' = SplitPrefix(gen).pool /\ gen' = <<>> /\ UNCHANGED incoming
    BY <1>8 DEF EnqueueAdmissions
  <2>6. gen' \in Seq(Text)
    BY <2>5
  <2> QED BY <1>1, <1>2, <2>4, <2>5, <2>6 DEF PoolInv
<1>9. CASE EvictFinished
  <2>1. UNCHANGED <<incoming, gen, lru>>
    BY <1>3, <1>9 DEF EvictFinished, HarvestFinished
  <2> QED BY <1>4, <2>1
<1>10. CASE Prefill \/ NothingPending \/ DecodeStep
  <2>1. UNCHANGED <<incoming, gen, lru>>
    BY <1>10 DEF Prefill, NothingPending, DecodeStep
  <2> QED BY <1>4, <2>1
<1> QED BY <1>4, <1>5, <1>6, <1>7, <1>8, <1>9, <1>10 DEF Next, vars

(* A pooled block holds what a prefill of its key's tokens computes, there is
   one per key and they fit the budget: harvest never pools a generated
   token's K/V, an image's or padding (prefix_cache.cpp, worker.cpp
   harvest_finished).  Of every model, hybrid ones included.               *)
THEOREM PoolIsExact ==
    Spec => []PoolExact
<1> DEFINE Inv == PoolInv /\ (~Hybrid => IInv)
<1>1. Inv => PoolExact
  BY PoolOKExact DEF PoolInv
<1>2. IInv => PoolInv
  BY DEF IInv, PoolInv
<1>3. Init => Inv
  BY <1>2, InvInit
<1>4. Inv /\ [Next]_vars => Inv'
  <2> SUFFICES ASSUME PoolInv, ~Hybrid => IInv, [Next]_vars
               PROVE  Inv'
    OBVIOUS
  <2>1. CASE Hybrid
    BY <2>1, HybridPool
  <2>2. CASE ~Hybrid
    <3>1. IInv'
      BY <2>2, InvNext
    <3>2. IInv' => PoolInv'
      BY DEF IInv, PoolInv
    <3> QED BY <3>1, <3>2
  <2> QED BY <2>1, <2>2
<1> HIDE DEF Inv
<1> QED BY <1>1, <1>3, <1>4, PTL DEF Spec

(* Type correctness; every row of the batch has a token and a nonnegative
   next position.                                                          *)
THEOREM BatchTypes ==
    ASSUME ~Hybrid
    PROVE  Spec => []TypeOK
  BY InvTypeOK, InvHolds, PTL

(* No merge and no forward pass ever throws.                               *)
THEOREM NeverThrows ==
    ASSUME ~Hybrid
    PROVE  Spec => [](pc # "thrown")
<1>1. IInv => pc # "thrown"
  BY DEF IInv
<1> QED BY <1>1, InvHolds, PTL
=============================================================================
