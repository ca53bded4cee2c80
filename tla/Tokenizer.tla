----------------------------- MODULE Tokenizer -----------------------------
(***************************************************************************)
(* The tokenizers (src/src/tokenizer): byte-level BPE (bpe.cpp),           *)
(* SentencePiece BPE (spm.cpp), the wrapper that picks between them, the   *)
(* streaming detokenizer and the chat templates (tokenizer.cpp).           *)
(*                                                                         *)
(* A text is a sequence of bytes, a symbol of a vocabulary a sequence of   *)
(* code points.  The Unicode classes are given for the ASCII characters    *)
(* the instances use.                                                      *)
(***************************************************************************)
EXTENDS Integers, Sequences, FiniteSetsExt

LOCAL INSTANCE SequencesExt

-----------------------------------------------------------------------------
(* append_utf8 and decode_utf8.                                            *)
Cont(x) == 128 + (x % 64)
AppendUtf8(cp) ==
    CASE cp < 128   -> <<cp>>
      [] cp \in 128 .. 2047 -> <<192 + cp \div 64, Cont(cp)>>
      [] cp \in 2048 .. 65535 -> <<224 + cp \div 4096, Cont(cp \div 64), Cont(cp)>>
      [] cp > 65535 -> <<240 + cp \div 262144, Cont(cp \div 4096), Cont(cp \div 64), Cont(cp)>>

(* The code point at position i and the bytes it takes; an invalid lead or a
   truncated sequence is one raw byte.                                     *)
DecodeAt(s, i) ==
    LET c == s[i]  At(k) == s[i + k] % 64 IN
    CASE c \div 32 = 6  /\ i + 1 <= Len(s) -> [value |-> (c % 32) * 64 + At(1), len |-> 2]
      [] c \div 16 = 14 /\ i + 2 <= Len(s) ->
           [value |-> (c % 16) * 4096 + At(1) * 64 + At(2), len |-> 3]
      [] c \div 8 = 30  /\ i + 3 <= Len(s) ->
           [value |-> (c % 8) * 262144 + At(1) * 4096 + At(2) * 64 + At(3), len |-> 4]
      [] OTHER -> [value |-> c, len |-> 1]

RECURSIVE DecodeFrom(_, _)
DecodeFrom(s, i) ==
    IF i > Len(s) THEN <<>>
    ELSE <<[cp |-> DecodeAt(s, i).value, off |-> i]>> \o DecodeFrom(s, i + DecodeAt(s, i).len)
DecodeUtf8(s) == DecodeFrom(s, 1)
CodePoints(s) == [k \in 1 .. Len(DecodeUtf8(s)) |-> DecodeUtf8(s)[k].cp]

(* The GPT-2 alphabet: every byte has a printable code point of its own.   *)
Printable == (33 .. 126) \cup (161 .. 172) \cup (174 .. 255)
ToUni == [b \in 0 .. 255 |->
            IF b \in Printable THEN b ELSE 256 + Cardinality((0 .. b - 1) \ Printable)]
FromUni == [c \in 0 .. 511 |-> IF \E b \in 0 .. 255 : ToUni[b] = c
                               THEN CHOOSE b \in 0 .. 255 : ToUni[b] = c ELSE -1]

-----------------------------------------------------------------------------
(* match_piece.                                                            *)
IsLetter(c) == c \in (65 .. 90) \cup (97 .. 122)
IsNumber(c) == c \in 48 .. 57
IsSpace(c) == c \in (9 .. 13) \cup {32}
IsNewline(c) == c \in {10, 13}
IsSymbol(c) == ~IsSpace(c) /\ ~IsLetter(c) /\ ~IsNumber(c)
Lower(c) == IF c \in 65 .. 90 THEN c + 32 ELSE c
Contractions == {<<115>>, <<116>>, <<114, 101>>, <<118, 101>>, <<109>>, <<108, 108>>, <<100>>}

(* The end (exclusive) of the run of characters in a class that starts at p. *)
RunEnd(cp, p, Class(_)) ==
    Min({k \in p .. Len(cp) + 1 : k > Len(cp) \/ ~Class(cp[k])})

(* A slip: a run of spaces in front of a word is one piece with no space left
   for the word.                                                           *)
MatchSpacesWhole(cp, p) == RunEnd(cp, p, IsSpace) - p

(* Alternatives 5 to 7: up to the last newline of the run; else the run, less
   one character when something follows.                                   *)
MatchSpaces(cp, p) ==
    LET end == RunEnd(cp, p, IsSpace)
        newlines == {k \in p .. end - 1 : IsNewline(cp[k])}
    IN  IF newlines # {} THEN Max(newlines) + 1 - p
        ELSE IF end > Len(cp) \/ end - p < 2 THEN end - p ELSE end - 1 - p

MatchPiece(cp, p, digitRunMax) ==
    LET c == cp[p]
        contracted == {w \in Contractions : c = 39 /\ p + Len(w) <= Len(cp)
                         /\ \A k \in 1 .. Len(w) : Lower(cp[p + k]) = w[k]}
        lead == IF ~IsNewline(c) /\ ~IsLetter(c) /\ ~IsNumber(c) THEN p + 1 ELSE p
        sym  == IF c = 32 THEN p + 1 ELSE p
    IN  IF contracted # {} THEN Len(CHOOSE w \in contracted : TRUE) + 1
        ELSE IF lead <= Len(cp) /\ IsLetter(cp[lead]) THEN RunEnd(cp, lead, IsLetter) - p
        ELSE IF IsNumber(c) THEN Min({RunEnd(cp, p, IsNumber) - p, digitRunMax})
        ELSE IF sym <= Len(cp) /\ IsSymbol(cp[sym])
        THEN RunEnd(cp, RunEnd(cp, sym, IsSymbol), IsNewline) - p
        ELSE IF IsSpace(c) THEN MatchSpaces(cp, p)
        ELSE 1

(* The regular expression the comment above match_piece gives: alternative
   alt matches s[1..n] in the text s.  A regex engine takes the first
   alternative that matches, and these are greedy.                         *)
All(s, a, b, Class(_)) == \A k \in a .. b : Class(s[k])
AltMatches(alt, s, n, digitRunMax) ==
    CASE alt = 1 -> s[1] = 39 /\ [k \in 1 .. n - 1 |-> Lower(s[k + 1])] \in Contractions
      [] alt = 2 -> \E l \in 0 .. 1 : l < n /\ All(s, l + 1, n, IsLetter)
                      /\ (l = 1 => ~IsNewline(s[1]) /\ ~IsLetter(s[1]) /\ ~IsNumber(s[1]))
      [] alt = 3 -> n <= digitRunMax /\ All(s, 1, n, IsNumber)
      [] alt = 4 -> \E l \in 0 .. 1, e \in 1 .. n : l < e /\ (l = 1 => s[1] = 32)
                      /\ All(s, l + 1, e, IsSymbol) /\ All(s, e + 1, n, IsNewline)
      [] alt = 5 -> \E e \in 0 .. n - 1 : All(s, 1, e, IsSpace) /\ All(s, e + 1, n, IsNewline)
      [] alt = 6 -> All(s, 1, n, IsSpace) /\ (n = Len(s) \/ IsSpace(s[n + 1]))
      [] alt = 7 -> All(s, 1, n, IsSpace)
RegexPiece(s, digitRunMax) ==
    LET Lengths(alt) == {n \in 1 .. Len(s) : AltMatches(alt, s, n, digitRunMax)}
        alts == {alt \in 1 .. 7 : Lengths(alt) # {}}
    IN  IF alts = {} THEN 1 ELSE Max(Lengths(Min(alts)))

-----------------------------------------------------------------------------
(* The merge loop.  ranks maps a pair of symbols to its rank.              *)
PairAt(syms, i) == <<syms[i], syms[i + 1]>>
Mergeable(ranks, syms) == {i \in 1 .. Len(syms) - 1 : PairAt(syms, i) \in DOMAIN ranks}
BestPair(ranks, syms) ==
    LET at == CHOOSE i \in Mergeable(ranks, syms) :
                \A k \in Mergeable(ranks, syms) : ranks[PairAt(syms, i)] <= ranks[PairAt(syms, k)]
    IN  PairAt(syms, at)

RECURSIVE MergePass(_, _)
MergePass(syms, pair) ==
    IF Len(syms) < 2 THEN syms
    ELSE IF PairAt(syms, 1) = pair
    THEN <<syms[1] \o syms[2]>> \o MergePass(SubSeq(syms, 3, Len(syms)), pair)
    ELSE <<syms[1]>> \o MergePass(Tail(syms), pair)

RECURSIVE MergeLoop(_, _)
MergeLoop(ranks, syms) ==
    IF Mergeable(ranks, syms) = {} THEN syms
    ELSE MergeLoop(ranks, MergePass(syms, BestPair(ranks, syms)))

(* BPE itself: one merge at a time, the leftmost of the lowest rank.       *)
RECURSIVE MergeOneByOne(_, _)
MergeOneByOne(ranks, syms) ==
    LET m == Mergeable(ranks, syms)
        best == Min({ranks[PairAt(syms, i)] : i \in m})
        at == Min({i \in m : ranks[PairAt(syms, i)] = best})
    IN  IF m = {} THEN syms
        ELSE MergeOneByOne(ranks, SubSeq(syms, 1, at - 1) \o <<syms[at] \o syms[at + 1]>>
                                  \o SubSeq(syms, at + 2, Len(syms)))

Singles(s) == [k \in 1 .. Len(s) |-> <<s[k]>>]
IdsOf(t, syms) ==
    LET known == SelectSeq(syms, LAMBDA y : y \in DOMAIN t.tokenToId)
    IN  [k \in 1 .. Len(known) |-> t.tokenToId[known[k]]]

(* bpe_piece: a piece that is a token is not merged.                       *)
BpePiece(t, piece) ==
    IF piece \in DOMAIN t.tokenToId THEN <<t.tokenToId[piece]>>
    ELSE IdsOf(t, MergeLoop(t.ranks, Singles(piece)))

(* encode_plain: pieces of the code points, mapped byte by byte.           *)
RECURSIVE PiecesFrom(_, _, _)
PiecesFrom(t, d, p) ==
    IF p > Len(d) THEN <<>>
    ELSE LET n == MatchPiece([k \in 1 .. Len(d) |-> d[k].cp], p, t.digitRunMax)
         IN  <<[from |-> p, to |-> p + n - 1]>> \o PiecesFrom(t, d, p + n)
BpeEncodePlain(t, s) ==
    LET d == DecodeUtf8(s)
        End(k) == IF k = Len(d) THEN Len(s) ELSE d[k + 1].off - 1
        Mapped(pc) == LET raw == SubSeq(s, d[pc.from].off, End(pc.to))
                      IN  [k \in 1 .. Len(raw) |-> ToUni[raw[k]]]
        pieces == PiecesFrom(t, d, 1)
    IN  FlattenSeq([k \in 1 .. Len(pieces) |-> BpePiece(t, Mapped(pieces[k]))])

-----------------------------------------------------------------------------
(* SentencePiece.  The metaspace stands for a space.                       *)
Metaspace == 9601

(* utf8_chars: what a lead byte announces, when that many bytes are left.  *)
RECURSIVE Utf8CharsFrom(_, _)
Utf8CharsFrom(s, i) ==
    LET left == Len(s) - i + 1
        len == IF s[i] >= 240 /\ left >= 4 THEN 4
               ELSE IF s[i] >= 224 /\ left >= 3 THEN 3
               ELSE IF s[i] >= 192 /\ left >= 2 THEN 2 ELSE 1
    IN  IF i > Len(s) THEN <<>>
        ELSE <<SubSeq(s, i, i + len - 1)>> \o Utf8CharsFrom(s, i + len)

(* emit_symbol: byte fallback, and unk for a byte that has no token.  Symbols
   are UTF-8 here.                                                         *)
EmitSymbol(t, sym) ==
    LET Fallback(b) == IF b \in DOMAIN t.byteFallback THEN <<t.byteFallback[b]>>
                       ELSE IF t.unk >= 0 THEN <<t.unk>> ELSE <<>>
    IN  IF sym \in DOMAIN t.tokenToId THEN <<t.tokenToId[sym]>>
        ELSE FlattenSeq([k \in 1 .. Len(sym) |-> Fallback(sym[k])])

SpmEncodePlain(t, s) ==
    LET normalized == FlattenSeq([k \in 1 .. Len(s) |->
                        IF s[k] = 32 THEN AppendUtf8(Metaspace) ELSE <<s[k]>>])
        syms == MergeLoop(t.ranks, Utf8CharsFrom(normalized, 1))
    IN  FlattenSeq([k \in 1 .. Len(syms) |-> EmitSymbol(t, syms[k])])

-----------------------------------------------------------------------------
(* encode: the literals of the added tokens split the text, longest first.
   A segment is [special, id] or [special, from, to].                      *)
LiteralAt(s, i, lit) == lit # <<>> /\ i + Len(lit) - 1 <= Len(s) /\ SubSeq(s, i, i + Len(lit) - 1) = lit
FirstLiteral(t, s, i) ==
    SelectInSeq(t.special, LAMBDA a : LiteralAt(s, i, a.lit))

Plain(from, to) == IF from > to THEN <<>> ELSE <<[special |-> FALSE, from |-> from, to |-> to]>>
RECURSIVE SegmentsFrom(_, _, _, _)
SegmentsFrom(t, s, i, runStart) ==
    IF i > Len(s) THEN Plain(runStart, Len(s))
    ELSE LET k == FirstLiteral(t, s, i) IN
         IF k = 0 THEN SegmentsFrom(t, s, i + 1, runStart)
         ELSE LET after == i + Len(t.special[k].lit)
              IN  Plain(runStart, i - 1) \o <<[special |-> TRUE, from |-> i, to |-> after - 1,
                                               id |-> t.special[k].id]>>
                  \o SegmentsFrom(t, s, after, after)

BackendEncode(t, s) ==
    LET segs == SegmentsFrom(t, s, 1, 1)
        Ids(g) == IF g.special THEN <<g.id>>
                  ELSE IF t.kind = "bpe" THEN BpeEncodePlain(t, SubSeq(s, g.from, g.to))
                  ELSE SpmEncodePlain(t, SubSeq(s, g.from, g.to))
    IN  FlattenSeq([k \in 1 .. Len(segs) |-> Ids(segs[k])])

(* Tokenizer::encode prepends the BOS.                                     *)
Encode(t, s) == (IF t.bos >= 0 THEN <<t.bos>> ELSE <<>>) \o BackendEncode(t, s)

(* Leftmost and longest: no literal begins inside a plain segment, and a
   special one is the longest literal of its place.                        *)
IsSegmentation(t, s, segs) ==
    LET Literals(i) == {k \in DOMAIN t.special : LiteralAt(s, i, t.special[k].lit)} IN
    /\ \A k \in 1 .. Len(segs) :
         /\ segs[k].from = (IF k = 1 THEN 1 ELSE segs[k - 1].to + 1)
         /\ IF segs[k].special
            THEN /\ \E a \in Literals(segs[k].from) : t.special[a].id = segs[k].id
                 /\ segs[k].to = segs[k].from - 1
                                 + Max({Len(t.special[a].lit) : a \in Literals(segs[k].from)})
            ELSE \A i \in segs[k].from .. segs[k].to : Literals(i) = {}
    /\ s # <<>> => segs # <<>> /\ Last(segs).to = Len(s)

-----------------------------------------------------------------------------
(* decode.                                                                 *)
BpeDecode(t, ids) ==
    LET Bytes(id) == IF id \notin DOMAIN t.idToToken \/ id \in t.specialIds THEN <<>>
                     ELSE SelectSeq([k \in 1 .. Len(t.idToToken[id]) |-> FromUni[t.idToToken[id][k]]],
                                    LAMBDA b : b >= 0)
    IN  FlattenSeq([k \in 1 .. Len(ids) |-> Bytes(ids[k])])

RECURSIVE Unspaced(_)
Unspaced(s) ==
    IF s = <<>> THEN <<>>
    ELSE IF LiteralAt(s, 1, AppendUtf8(Metaspace)) THEN <<32>> \o Unspaced(SubSeq(s, 4, Len(s)))
    ELSE <<s[1]>> \o Unspaced(Tail(s))

SpmDecode(t, ids) ==
    LET Step(a, id) == IF id \in t.byteIds THEN [a EXCEPT !.pending = Append(@, t.byteOf[id])]
                       ELSE [out |-> a.out \o a.pending \o Unspaced(t.idToToken[id]), pending |-> <<>>]
        kept == SelectSeq(ids, LAMBDA id : id \in DOMAIN t.idToToken \ t.specialIds)
        end == FoldLeft(Step, [out |-> <<>>, pending |-> <<>>], kept)
    IN  end.out \o end.pending

(* Tokenizer::decode leaves the special tokens out before the backend does. *)
Decode(t, ids) ==
    LET keep == SelectSeq(ids, LAMBDA id : id \notin t.specialIds)
    IN  IF t.kind = "bpe" THEN BpeDecode(t, keep) ELSE SpmDecode(t, keep)

-----------------------------------------------------------------------------
(* Construction.  A blob is what parsing tokenizer.json yields.            *)
IsBpe(b) == b.type = "BPE" /\ b.decoder = "ByteLevel"
IsSpm(b) == b.type = "BPE" /\ b.byteFallback /\ b.decoder = "ByteFallback"

LongestFirst(added) == SortSeq(added, LAMBDA a, b : Len(a.lit) > Len(b.lit))
(* emplace keeps the first rank of a pair that is listed twice.            *)
MergeRanks(merges) ==
    [m \in ToSet(merges) |-> Min({k \in DOMAIN merges : merges[k] = m}) - 1]

(* The two from_blob.  An added token takes its content over from the
   vocabulary; the <0xNN> tokens are looked up before that.                *)
BpeFromBlob(b) ==
    LET lits == {b.added[k].lit : k \in DOMAIN b.added}
        tokenToId == [y \in DOMAIN b.vocab \cup lits |->
                        IF y \in lits THEN b.added[Max({k \in DOMAIN b.added : b.added[k].lit = y})].id
                        ELSE b.vocab[y]]
        ids == {tokenToId[y] : y \in DOMAIN tokenToId}
    IN  [kind |-> "bpe", tokenToId |-> tokenToId, ranks |-> MergeRanks(b.merges),
         idToToken |-> [id \in ids |-> CHOOSE y \in DOMAIN tokenToId : tokenToId[y] = id],
         special |-> LongestFirst(b.added),
         specialIds |-> {b.added[k].id : k \in {j \in DOMAIN b.added : b.added[j].special}},
         digitRunMax |-> IF b.cap3 THEN 3 ELSE 1, bos |-> -1, unk |-> b.unk,
         byteFallback |-> <<>>, byteIds |-> {}, byteOf |-> <<>>]
SpmFromBlob(b) ==
    LET bytes == {x \in DOMAIN b.byteTokens : b.byteTokens[x] \in DOMAIN b.vocab}
        IdOf(x) == b.vocab[b.byteTokens[x]]
        byteIds == {IdOf(x) : x \in bytes}
    IN  [BpeFromBlob(b) EXCEPT
           !.kind = "spm", !.byteFallback = [x \in bytes |-> IdOf(x)], !.byteIds = byteIds,
           !.byteOf = [id \in byteIds |-> CHOOSE x \in bytes : IdOf(x) = id]]
FromBlob(b) == IF IsBpe(b) THEN BpeFromBlob(b) ELSE SpmFromBlob(b)

(* make_backend: which pipeline reads a blob, or none.                     *)
BackendOf(b) == IF IsBpe(b) THEN "bpe" ELSE IF IsSpm(b) THEN "spm" ELSE "unsupported"

(* tokens is dense, from id 0; type 3 (control) and 4 (user defined) are the
   added tokens, both left out of a decoded text.                          *)
FromGguf(tokens, merges, types, pre) ==
    LET ids == 0 .. Len(tokens) - 1
        added == {id \in ids : id < Len(types) /\ types[id + 1] \in {3, 4}}
        order == SetToSortSeq(added, LAMBDA a, b : a < b)
    IN  [kind |-> "bpe",
         tokenToId |-> [y \in ToSet(tokens) |-> Min({k \in DOMAIN tokens : tokens[k] = y}) - 1],
         idToToken |-> [id \in ids |-> tokens[id + 1]], ranks |-> MergeRanks(merges),
         special |-> LongestFirst([k \in 1 .. Len(order) |->
                       [lit |-> tokens[order[k] + 1], id |-> order[k], special |-> TRUE]]),
         specialIds |-> added, digitRunMax |-> IF pre \in {"llama-bpe", "llama3"} THEN 3 ELSE 1,
         bos |-> -1, unk |-> -1, byteFallback |-> <<>>, byteIds |-> {}, byteOf |-> <<>>]
GgufSupported(tokens, pre) == pre \in {"llama-bpe", "llama3", "gpt2", "qwen2"} /\ tokens # <<>>

(* effective_bos_id.  p: whether the post-processor prepends the id; c: what
   tokenizer_config.json says ("absent" when there is no such file).       *)
EffectiveBos(bos, p, c) ==
    IF bos >= 0 /\ p THEN bos
    ELSE IF c \in {"no bos", "null bos"} THEN -1 ELSE bos

-----------------------------------------------------------------------------
(* StreamingDetokenizer.                                                   *)
IsCont(b) == b \in 128 .. 191
Need(lead) == IF lead < 128 THEN 1 ELSE IF lead < 224 THEN 2 ELSE IF lead < 240 THEN 3 ELSE 4

Utf8CompleteLen(s) ==
    LET leads == {i \in 1 .. Len(s) : i = 1 \/ ~IsCont(s[i])} IN
    IF s = <<>> THEN 0
    ELSE LET start == Max(leads)
         IN  IF Len(s) - start + 1 >= Need(s[start]) THEN Len(s) ELSE start - 1

(* d is [ids, emitted]; add returns the new state and the piece of text.   *)
DetokAdd(t, d, id) ==
    LET ids == Append(d.ids, id)
        full == Decode(t, ids)
        complete == Utf8CompleteLen(full)
    IN  IF complete <= d.emitted THEN [d |-> [d EXCEPT !.ids = ids], text |-> <<>>]
        ELSE [d |-> [ids |-> ids, emitted |-> complete],
              text |-> SubSeq(full, d.emitted + 1, complete)]
DetokFinish(t, d) ==
    LET full == Decode(t, d.ids)
    IN  [d |-> [d EXCEPT !.emitted = Len(full)], text |-> SubSeq(full, d.emitted + 1, Len(full))]

(* Whole characters, and a beginning of such a text.                       *)
RECURSIVE IsUtf8(_)
IsUtf8(s) ==
    s = <<>> \/ /\ ~IsCont(s[1]) /\ Need(s[1]) <= Len(s)
                /\ \A k \in 2 .. Need(s[1]) : IsCont(s[k])
                /\ IsUtf8(SubSeq(s, Need(s[1]) + 1, Len(s)))
IsUtf8Prefix(s) ==
    \E n \in 0 .. Min({3, Len(s)}) :
      LET rest == SubSeq(s, Len(s) - n + 1, Len(s)) IN
      /\ IsUtf8(SubSeq(s, 1, Len(s) - n))
      /\ n > 0 => ~IsCont(rest[1]) /\ Need(rest[1]) > n /\ \A k \in 2 .. n : IsCont(rest[k])
=============================================================================
