---------------------------- MODULE DecodeBatch ----------------------------
(***************************************************************************)
(* What the worker's loop (src/src/runtime/worker.cpp) does to the decode  *)
(* batch: admission through the prefix cache (src/src/cache/prefix_cache,  *)
(* block_pool), prefill in chunks or monolithic (src/src/runtime/          *)
(* batching.cpp), merge into the batch, decode steps padded to a bucket,   *)
(* harvest and eviction.  Module Serving models the same loop with the     *)
(* queues and threads around it; here the batch itself is concrete, built  *)
(* from the operators of BatchKVCache, and everything runs on one thread.  *)
(*                                                                         *)
(* A request stands for every request with its prompt: once evicted it may *)
(* arrive again.  Block keys are the token prefixes that chain_hash        *)
(* digests, so two prefixes never collide; the pool's SSD tier is not part *)
(* of this module.                                                         *)
(***************************************************************************)
EXTENDS BatchKVCache, SeqOps, FiniteSets, SequencesExt

CONSTANTS
    Request,       \* the requests
    Prompt,        \* per request, its prompt_ids
    Image,         \* the multimodal requests
    DecodeOffset,  \* per image request, its first decode position
    MaxGen,        \* max_tokens
    PrefillBatch,  \* kPrefillBatchSize
    PrefillStep,   \* kPrefillStepSize, the chunk of a monolithic prefill
    BlockBytes,    \* bytes of a block
    Engine         \* the engines to look at: [prefillChunk, blockSize, poolBytes, serves]

(* The tokens of the prompts, of generation and of left padding.            *)
Token == {"g", "padding"} \cup UNION {ToSet(Prompt[r]) : r \in Request}

ASSUME RequestAssumption ==
    /\ \A r \in Request : Prompt[r] \in Seq(Token) /\ Len(Prompt[r]) > 0
    /\ Image \subseteq Request
    /\ \A r \in Image : DecodeOffset[r] \in Nat
ASSUME BoundAssumption ==
    /\ {MaxGen, PrefillBatch, PrefillStep, BlockBytes} \subseteq Nat \ {0}
(* validate_prefix_cache refuses vision and hybrid models; a hybrid model
   runs its text tower only.                                               *)
ASSUME EngineAssumption ==
    \A e \in Engine :
        /\ e.serves \subseteq Request
        /\ {e.prefillChunk, e.blockSize, e.poolBytes} \subseteq Nat
        /\ e.blockSize > 0 => e.serves \cap Image = {} /\ ~Hybrid
        /\ Hybrid => e.serves \cap Image = {}

VARIABLES
    engine,    \* the options the engine was created with, and the requests it gets
    pc,        \* where the worker is in run()
    incoming,  \* requests taken from the scheduler, not yet dispatched
    gen,       \* text requests of this round
    pending,   \* pending_ (monolithic: what admit() has left to prefill)
    cache,     \* cache_; no rows = null
    rows,      \* reqs_, history_, finished_: [req, hist, fin]
    lru        \* the pool: [key, block] entries, most recently used first

vars == <<engine, pc, incoming, gen, pending, cache, rows, lru>>

NoCache == [idx |-> 0, cap |-> 0, rows |-> <<>>]

(* prefill_chunk_ (0 = monolithic), the prefix cache's block in tokens (0 =
   no prefix cache) and the budget of the block pool (0 = unbounded).      *)
PrefillChunk == engine.prefillChunk
BlockSize    == engine.blockSize
PoolBytes    == engine.poolBytes

Init ==
    /\ engine \in Engine
    /\ pc = "take" /\ incoming = <<>> /\ gen = <<>> /\ pending = <<>>
    /\ cache = NoCache /\ rows = <<>> /\ lru = <<>>

-----------------------------------------------------------------------------
(* The block pool and the prefix cache over it.                            *)
Pooled(pool) == {e.key : e \in ToSet(pool)}
BlockOf(pool, k) == (CHOOSE e \in ToSet(pool) : e.key = k).block
Key(ids, b) == SubSeq(ids, 1, b * BlockSize)

(* BlockPool::get of the keys ks, in order, all present: each moves to the
   front.                                                                  *)
Bump(pool, ks) ==
    [i \in 1 .. Len(ks) |-> [key |-> ks[Len(ks) + 1 - i],
                             block |-> BlockOf(pool, ks[Len(ks) + 1 - i])]]
    \o Keep(pool, {e \in ToSet(pool) : e.key \notin ToSet(ks)})

(* BlockPool::insert and evict_to_budget.  Blocks have one size, so the
   budget is a number of blocks and one victim at the back is enough.      *)
Insert(pool, entry) ==
    IF entry.key \in Pooled(pool) \/ (PoolBytes # 0 /\ BlockBytes > PoolBytes)
    THEN pool
    ELSE LET grown == <<entry>> \o pool IN
         IF PoolBytes # 0 /\ Len(grown) * BlockBytes > PoolBytes
         THEN Front(grown) ELSE grown

(* PrefixCache::match: the number of leading blocks of ids in the pool, and
   how many tokens they save; the last token is always recomputed.         *)
MatchBlocks(pool, ids) ==
    IF BlockSize = 0 THEN 0
    ELSE CHOOSE n \in 0 .. Len(ids) \div BlockSize :
           /\ \A b \in 1 .. n : Key(ids, b) \in Pooled(pool)
           /\ n = Len(ids) \div BlockSize \/ Key(ids, n + 1) \notin Pooled(pool)

MatchTokens(pool, ids) == Larger(0, Lesser(MatchBlocks(pool, ids) * BlockSize, Len(ids) - 1))
MatchSlots(pool, ids) ==
    FlattenSeq([b \in 1 .. MatchBlocks(pool, ids) |-> BlockOf(pool, Key(ids, b))])
MatchPool(pool, ids) ==
    Bump(pool, [b \in 1 .. MatchBlocks(pool, ids) |-> Key(ids, b)])

(* PrefixCache::harvest of the first len tokens of ids, whose slots are
   given: the blocks that are not pooled yet, in order.                    *)
Harvest(pool, ids, len, slots) ==
    LET full == Lesser(len, Len(ids)) \div BlockSize
        fresh == {b \in 1 .. full : Key(ids, b) \notin Pooled(pool)}
        after[b \in 0 .. full] ==
            IF b = 0 THEN pool
            ELSE IF b \notin fresh THEN after[b-1]
            ELSE Insert(after[b-1],
                        [key |-> Key(ids, b),
                         block |-> SubSeq(slots, (b-1) * BlockSize + 1, b * BlockSize)])
    IN  after[full]

-----------------------------------------------------------------------------
(* The requests that may arrive: those not in flight.                      *)
InFlight == {rows[b].req : b \in DOMAIN rows}
            \cup UNION {ToSet(pending[u].reqs) : u \in DOMAIN pending}
Arrivals == {s \in SeqOf(engine.serves \ InFlight, PrefillBatch) : IsInjective(s)}

(* run: take requests, none while a prefill is pending, at least one when
   there is nothing else to do.                                            *)
Take ==
    /\ pc = "take"
    /\ \E s \in IF pending = <<>> THEN Arrivals ELSE {<<>>} :
          /\ rows = <<>> /\ pending = <<>> => s # <<>>
          /\ incoming' = s
    /\ pc' = "dispatch"
    /\ UNCHANGED <<gen, pending, cache, rows, lru>>

DispatchText ==
    /\ pc = "dispatch" /\ incoming # <<>> /\ Head(incoming) \notin Image
    /\ gen' = Append(gen, Head(incoming))
    /\ incoming' = Tail(incoming)
    /\ UNCHANGED <<pc, pending, cache, rows, lru>>

(* register_rows: the first token of each row; the row may finish with it. *)
NewRows(reqs, fins) ==
    [i \in 1 .. Len(reqs) |->
       [req |-> reqs[i], hist |-> Append(Prompt[reqs[i]], "g"),
        fin |-> fins[i] \/ MaxGen = 1]]

(* The fresh cache becomes the batch or is merged into it, and its rows are
   registered; a merge that throws ends the worker thread.                 *)
Adopt(fresh, reqs, next) ==
    IF MergeFits(cache, fresh)
    THEN /\ cache' = Merge(cache, fresh)
         /\ \E fins \in [1 .. Len(reqs) -> BOOLEAN] : rows' = rows \o NewRows(reqs, fins)
         /\ pc' = next
    ELSE pc' = "thrown" /\ UNCHANGED <<cache, rows>>

(* prefill_multimodal_batched: the single-stream prefill of an image prompt,
   adopted as a batch of one.  Decoding continues past the largest M-RoPE
   position, not past the length.                                          *)
PrefillMultimodal(r) ==
    FromSingleSequence([i \in 1 .. Len(Prompt[r]) |->
                          [ids |-> SubSeq(Prompt[r], 1, i), pos |-> i - 1, via |-> "prefill"]],
                       DecodeOffset[r])

(* admit_multimodal; a failure before the merge only drops the request.    *)
AdmitMultimodal ==
    /\ pc = "dispatch" /\ incoming # <<>> /\ Head(incoming) \in Image
    /\ \/ Adopt(PrefillMultimodal(Head(incoming)), <<Head(incoming)>>, pc)
       \/ UNCHANGED <<pc, cache, rows>>
    /\ incoming' = Tail(incoming)
    /\ UNCHANGED <<gen, pending, lru>>

(* enqueue_admissions and the head of admit: a prefix hit is a unit of its
   own, seeded from the pool; the cold prompts share a left-padded unit.   *)
WarmUnit(pool, r) ==
    [reqs |-> <<r>>, pos |-> 0,
     toks |-> << SubSeq(Prompt[r], MatchTokens(pool, Prompt[r]) + 1, Len(Prompt[r])) >>,
     cache |-> FromPrefix(MatchSlots(pool, Prompt[r]), MatchTokens(pool, Prompt[r]))]

ColdUnit(reqs) ==
    LET pMax == CHOOSE m \in {Len(Prompt[r]) : r \in ToSet(reqs)} :
                  \A r \in ToSet(reqs) : Len(Prompt[r]) <= m
        pads == [b \in 1 .. Len(reqs) |-> pMax - Len(Prompt[reqs[b]])]
    IN  [reqs |-> reqs, pos |-> 0,
         toks |-> [b \in 1 .. Len(reqs) |->
                     [j \in 1 .. pads[b] |-> "padding"] \o Prompt[reqs[b]]],
         cache |-> NewCache(pads)]

(* split_prefix: each request is matched in turn, which reorders the pool. *)
SplitPrefix(reqs) ==
    LET split[i \in 0 .. Len(reqs)] ==
          IF i = 0 THEN [pool |-> lru, warm |-> <<>>, cold |-> <<>>]
          ELSE LET s == split[i-1]
                   ids == Prompt[reqs[i]]
               IN  [pool |-> MatchPool(s.pool, ids),
                    warm |-> IF MatchTokens(s.pool, ids) > 0
                             THEN Append(s.warm, WarmUnit(s.pool, reqs[i])) ELSE s.warm,
                    cold |-> IF MatchTokens(s.pool, ids) > 0
                             THEN s.cold ELSE Append(s.cold, reqs[i])]
    IN  split[Len(reqs)]

EnqueueAdmissions ==
    /\ pc = "dispatch" /\ incoming = <<>>
    /\ LET s == SplitPrefix(gen)
           cold == IF s.cold = <<>> THEN <<>> ELSE << ColdUnit(s.cold) >>
       IN  /\ lru' = s.pool
           /\ pending' = IF PrefillChunk > 0 THEN pending \o s.warm \o cold
                         ELSE cold \o s.warm
    /\ gen' = <<>>
    /\ pc' = "prefill"
    /\ UNCHANGED <<incoming, cache, rows>>

(* advance_chunked_prefill: one chunk of the first unit; the last chunk
   admits its rows.  A monolithic admission runs its chunks in a row.      *)
Chunk == IF PrefillChunk > 0 THEN PrefillChunk ELSE PrefillStep
AfterPrefill(left) == IF PrefillChunk = 0 /\ left # <<>> THEN "prefill" ELSE "evict1"

Prefill ==
    /\ pc = "prefill" /\ pending # <<>>
    /\ LET u == Head(pending)
           n == Lesser(Chunk, Len(u.toks[1]) - u.pos)
           fed == [b \in 1 .. Len(u.reqs) |-> SubSeq(u.toks[b], u.pos + 1, u.pos + n)]
           next == [u EXCEPT !.pos = @ + n, !.cache = Forward(u.cache, fed, "prefill")]
       IN  IF next.pos < Len(u.toks[1])
           THEN /\ pending' = <<next>> \o Tail(pending)
                /\ pc' = AfterPrefill(pending')
                /\ UNCHANGED <<cache, rows>>
           ELSE /\ pending' = Tail(pending)
                /\ Adopt(next.cache, u.reqs, AfterPrefill(pending'))
    /\ UNCHANGED <<incoming, gen, lru>>

NothingPending ==
    /\ pc = "prefill" /\ pending = <<>>
    /\ pc' = "evict1"
    /\ UNCHANGED <<incoming, gen, pending, cache, rows, lru>>

(* A slip: the generated tokens' K/V is pooled too.                        *)
HarvestLenWhole(b) == cache.idx - cache.rows[b].lp

(* harvest_finished: the prompt's span of each finished row goes to the
   pool, in row order.                                                     *)
HarvestLen(b) == Lesser(cache.idx - cache.rows[b].lp, Len(Prompt[rows[b].req]))

HarvestFinished ==
    LET pool[b \in 0 .. Len(rows)] ==
          IF b = 0 THEN lru
          ELSE IF ~rows[b].fin \/ rows[b].req \in Image \/ HarvestLen(b) < BlockSize
          THEN pool[b-1]
          ELSE Harvest(pool[b-1], rows[b].hist, HarvestLen(b),
                       FetchRow(cache, b, cache.rows[b].lp, HarvestLen(b)))
    IN  IF BlockSize = 0 THEN lru ELSE pool[Len(rows)]

(* evict_finished: harvest, then drop the finished rows from the cache and
   from the row vectors.  With no row left the cache is released.          *)
EvictFinished ==
    /\ pc \in {"evict1", "evict2"}
    /\ lru' = HarvestFinished
    /\ LET keep == Keep([b \in 1 .. Len(rows) |-> b], {b \in DOMAIN rows : ~rows[b].fin})
       IN  /\ rows' = [d \in 1 .. Len(keep) |-> rows[keep[d]]]
           /\ cache' = IF Len(keep) = Len(rows) THEN cache
                       ELSE IF keep = <<>> THEN NoCache
                       ELSE Filter(cache, keep)
    /\ pc' = IF pc = "evict1" /\ rows' # <<>> THEN "decode" ELSE "take"
    /\ UNCHANGED <<incoming, gen, pending>>

(* decode_step: pad to the bucket, one token per row, trim.  A row goes on,
   finishes with its token, or was cancelled and drops the token.          *)
Decoded(row, outcome) ==
    IF outcome = "cancel" THEN [row EXCEPT !.fin = TRUE]
    ELSE [row EXCEPT !.hist = Append(@, "g"),
                     !.fin = \/ outcome = "stop"
                             \/ Len(row.hist) + 1 - Len(Prompt[row.req]) >= MaxGen]

DecodeStep ==
    /\ pc = "decode"
    /\ LET B == Len(rows)
           extra == NextBucket(B) - B
           padded == PadDummies(cache, extra)
           fed == [b \in 1 .. B + extra |-> << IF b <= B THEN Last(rows[b].hist) ELSE "padding" >>]
           after == Forward(padded, fed, "decode")
       IN  IF ~ForwardFits(padded, 1)
           THEN pc' = "thrown" /\ UNCHANGED <<cache, rows>>
           ELSE /\ \E out \in [1 .. B -> {"go", "stop", "cancel"}] :
                     rows' = [b \in 1 .. B |-> Decoded(rows[b], out[b])]
                /\ cache' = IF extra > 0 THEN Filter(after, [b \in 1 .. B |-> b]) ELSE after
                /\ pc' = "evict2"
    /\ UNCHANGED <<incoming, gen, pending, lru>>

Next ==
    /\ \/ Take \/ DispatchText \/ AdmitMultimodal \/ EnqueueAdmissions
       \/ Prefill \/ NothingPending \/ EvictFinished \/ DecodeStep
    /\ UNCHANGED engine

Spec == Init /\ [][Next]_vars

-----------------------------------------------------------------------------
(* Each row of the batch and of a pending prefill has one slot per column of
   the allocated axis; a row of the batch starts inside the populated part,
   and the next token's RoPE position is not negative.                     *)
CacheType(c) ==
    /\ c.idx \in Nat /\ c.cap \in Nat
    /\ \A b \in DOMAIN c.rows :
          c.rows[b].lp \in Nat /\ c.rows[b].off \in Int /\ DOMAIN c.rows[b].kv = 0 .. c.cap - 1
TypeOK ==
    /\ pc \in {"take", "dispatch", "prefill", "evict1", "decode", "evict2", "thrown"}
    /\ incoming \in Seq(Request) /\ gen \in Seq(Request)
    /\ CacheType(cache)
    /\ \A b \in DOMAIN cache.rows : cache.rows[b].lp < cache.idx /\ cache.rows[b].off \in Nat
    /\ \A u \in DOMAIN pending :
          pending[u].reqs \in Seq(Request) /\ pending[u].pos \in Nat /\ CacheType(pending[u].cache)
    /\ \A b \in DOMAIN rows : rows[b].req \in Request /\ rows[b].fin \in BOOLEAN

(* Position of logical token j (from 0) of a request: the RoPE position a
   single-stream run gives it.                                             *)
Position(r, j) ==
    IF r \in Image /\ j >= Len(Prompt[r]) THEN DecodeOffset[r] + j - Len(Prompt[r]) ELSE j

(* Row row of cache c holds exactly the first n tokens of ids for request r,
   where a single-stream run would have them, and is about to write the
   next one at the next position.                                          *)
Holds(c, row, r, ids, n) ==
    /\ c.idx - row.lp = n /\ c.idx <= c.cap
    /\ \A j \in 0 .. n - 1 :
          row.kv[row.lp + j] =
             [ids |-> SubSeq(ids, 1, j + 1), pos |-> Position(r, j),
              via |-> IF j < Len(Prompt[r]) THEN "prefill" ELSE "decode"]
    /\ row.off = Position(r, n)

(* A row of the decode batch attends to the K/V of its own history, at the
   positions a single-stream run gives them, whatever was merged, padded,
   filtered and re-justified around it: all of the history but the token
   that is fed next.  A cancelled row also holds the token it was fed.     *)
BatchRowsExact ==
    /\ Len(cache.rows) = Len(rows)
    /\ \A b \in DOMAIN rows :
          \E n \in {Len(rows[b].hist) - 1, Len(rows[b].hist)} :
             /\ rows[b].fin \/ n = Len(rows[b].hist) - 1
             /\ Holds(cache, cache.rows[b], rows[b].req, rows[b].hist, n)

(* A prefill in flight has absorbed exactly the tokens up to its position,
   for a row seeded from the prefix pool too, and has at least one token
   left to compute logits from.                                            *)
PendingRowsExact ==
    \A u \in DOMAIN pending : \A b \in DOMAIN pending[u].reqs :
        LET p == pending[u]
            r == p.reqs[b]
            n == Len(Prompt[r]) - (Len(p.toks[b]) - p.pos)
        IN  /\ p.pos < Len(p.toks[b])
            /\ n > 0 => Holds(p.cache, p.cache.rows[b], r, Prompt[r], n)

(* Both: at every stage of its way a request computes what it would compute
   alone (worker.cpp:375-402, batch_kv_cache.cpp:199-299).                 *)
RowsExact == BatchRowsExact /\ PendingRowsExact

(* A pooled block holds the K/V of the tokens its key digests, at the
   positions that a prompt starting with them needs, as a prefill would
   compute it; the entries are distinct and within the budget.             *)
PoolExact ==
    /\ \A e \in ToSet(lru) :
          e.block = [j \in 1 .. BlockSize |->
                       LET n == Len(e.key) - BlockSize + j IN
                       [ids |-> SubSeq(e.key, 1, n), pos |-> n - 1, via |-> "prefill"]]
    /\ Cardinality(Pooled(lru)) = Len(lru)
    /\ PoolBytes # 0 => Len(lru) * BlockBytes <= PoolBytes

(* The batch never carries a column that is padding for every row, and the
   allocated axis exceeds the populated one by less than the growth of one
   forward pass: evicting the long rows gives their memory back.           *)
CacheTight ==
    rows # <<>> =>
        /\ \E b \in DOMAIN cache.rows : cache.rows[b].lp = 0
        /\ cache.cap - cache.idx < RoundUp(Chunk)
=============================================================================
