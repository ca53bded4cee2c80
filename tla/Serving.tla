------------------------------ MODULE Serving ------------------------------
(***************************************************************************)
(* Continuous batching: the worker's loop (src/src/runtime/worker.cpp)     *)
(* between the scheduler's waiting queue and the threads that consume the  *)
(* requests through the C ABI (src/src/capi/mlxforge.cpp), the HTTP server *)
(* (src/src/server/http_server.cpp) and Engine::embed.                     *)
(*                                                                         *)
(* Two components are used through what they promise: a token or log-prob  *)
(* queue is a bounded FIFO channel (module Channel, which SpscQueue        *)
(* implements), so its content is the count of items sent and received;    *)
(* and next_waiting returns when there is something to take or a stop      *)
(* (module Scheduler shows that no wakeup is lost).                        *)
(*                                                                         *)
(* The numeric work is abstracted to its outcome: a sampled token either   *)
(* ends the sequence or does not, a prefix-cache match has some length, an *)
(* image or embedding forward succeeds or throws.  A step of the worker    *)
(* runs from one access of state shared with another thread to the next,   *)
(* or is shorter; what only the worker sees is updated where convenient    *)
(* inside that interval.                                                   *)
(***************************************************************************)
EXTENDS SeqOps, FiniteSets

CONSTANTS
    Request,        \* the requests that may be submitted
    Job,            \* per request: what is asked and through which interface
    Capacity,       \* capacity of a token or log-prob queue (1024)
    MaxWaiting,     \* bound of the waiting queue (0 = unbounded)
    PrefillBatch,   \* kPrefillBatchSize (8)
    PrefillChunk,   \* prefill_chunk_ (0 = monolithic admission)
    MatchLengths    \* possible prefix matches ({0}: no prefix cache)

Kinds == {"text", "vision", "embed"}
Apis == {"capi", "blocking", "sse"}
JobType == [kind : Kinds, api : Apis, logprobs : BOOLEAN,
            maxTokens : Nat \ {0}, prompt : Nat \ {0}]

ASSUME JobAssumption == Job \in [Request -> JobType]
ASSUME BoundsAssumption ==
    /\ Capacity \in Nat \ {0}
    /\ MaxWaiting \in Nat
    /\ PrefillBatch \in Nat \ {0}
    /\ PrefillChunk \in Nat
    /\ MatchLengths \subseteq Nat /\ 0 \in MatchLengths

VARIABLES
    \* scheduler
    waiting,     \* waiting_
    stop,        \* stop_
    \* worker thread
    pc,          \* where the worker is in run()
    ret,         \* where it goes when the row loop or the closing loop is over
    incoming,    \* requests taken from the scheduler, not yet dispatched
    gen,         \* text requests of this round
    groups,      \* monolithic admission: groups of rows not yet registered
    pending,     \* pending_: chunked prefills, [reqs, left]
    rows,        \* reqs_, produced_, finished_: [req, produced, finished]
    cur,         \* row index of the row loop
    closing,     \* rows whose queues evict_finished (or an early end) closes
    active,      \* active_batch_
    completed,   \* requests_completed_
    emitted,     \* completion_tokens_total_
    unstamped,   \* completions whose first_token_time was never set
    \* shared with the request's own thread
    tokens,      \* Request::tokens
    logprobs,    \* Request::logprobs
    cancelled,   \* Request::cancelled
    reason,      \* Request::finish_reason
    \* the request's own thread
    client,      \* where it is
    atCancel     \* history: tokens pushed when cancelled was first set (or -1)

schedVars   == <<waiting, stop>>
loopVars    == <<pc, ret, cur>>
admitVars   == <<incoming, gen, groups, pending>>
metricVars  == <<active, completed, emitted, unstamped>>
workerVars  == <<loopVars, admitVars, rows, closing, metricVars>>
requestVars == <<tokens, logprobs, cancelled, reason>>
clientVars  == <<client, atCancel>>
vars == <<schedVars, workerVars, requestVars, clientVars>>

-----------------------------------------------------------------------------
(* A queue seen through module Channel: the items are anonymous.           *)
EmptyQueue   == [sent |-> 0, got |-> 0, closed |-> FALSE]
QueueType    == [sent : Nat, got : Nat, closed : BOOLEAN]
HasItem(c)   == c.got < c.sent
CanPush(c)   == c.closed \/ c.sent - c.got < Capacity
PushItem(c)  == IF c.closed THEN c ELSE [c EXCEPT !.sent = @ + 1]
PopItem(c)   == IF HasItem(c) THEN [c EXCEPT !.got = @ + 1] ELSE c
CloseItem(c) == [c EXCEPT !.closed = TRUE]

(* params.top_logprobs >= 0.  The server switches log-probs off for an image
   request; the C ABI takes them from the caller for every request.        *)
Logprobs(r) ==
    /\ Job[r].logprobs
    /\ Job[r].kind # "embed"
    /\ Job[r].kind = "vision" => Job[r].api = "capi"

(* The request's thread pops a log-prob after each token.  A C ABI handle
   does so for the text requests that asked; submit_mm leaves it off.      *)
PopsLogprobs(r) ==
    /\ Logprobs(r)
    /\ Job[r].api = "capi" => Job[r].kind = "text"

Reasons == {"", "stop", "length", "cancel", "embed", "error"}
WorkerPC == {"load", "top", "more", "dispatch", "admit", "prefill", "row", "push",
             "pushLogprob", "evict1", "evict2", "closeTokens", "closeLogprobs",
             "decode", "publish", "exited"}
ClientPC == {"new", "rejected", "reading", "readLogprob", "sending",
             "draining", "drainLogprob", "gone", "done"}
RowType  == [req : Request, produced : Nat, finished : BOOLEAN]
UnitType == [reqs : Seq(Request), left : Nat]

TypeOK ==
    /\ waiting \in Seq(Request) /\ stop \in BOOLEAN
    /\ pc \in WorkerPC
    /\ ret \in {"none", "dispatch", "admit", "evict1", "evict2", "decode", "publish", "top"}
    /\ cur \in Nat
    /\ incoming \in Seq(Request) /\ gen \in Seq(Request)
    /\ groups \in Seq(Seq(Request))
    /\ pending \in Seq(UnitType)
    /\ rows \in Seq(RowType)
    /\ closing \in Seq(RowType)
    /\ active \in Nat /\ completed \in Nat /\ emitted \in Nat /\ unstamped \in Nat
    /\ tokens \in [Request -> QueueType]
    /\ logprobs \in [Request -> QueueType]
    /\ cancelled \in [Request -> BOOLEAN]
    /\ reason \in [Request -> Reasons]
    /\ client \in [Request -> ClientPC]
    /\ atCancel \in [Request -> Int]

Init ==
    /\ waiting = <<>> /\ stop = FALSE
    /\ pc = "load" /\ ret = "none" /\ cur = 1
    /\ incoming = <<>> /\ gen = <<>> /\ groups = <<>> /\ pending = <<>>
    /\ rows = <<>> /\ closing = <<>>
    /\ active = 0 /\ completed = 0 /\ emitted = 0 /\ unstamped = 0
    /\ tokens = [r \in Request |-> EmptyQueue]
    /\ logprobs = [r \in Request |-> EmptyQueue]
    /\ cancelled = [r \in Request |-> FALSE]
    /\ reason = [r \in Request |-> ""]
    /\ client = [r \in Request |-> "new"]
    /\ atCancel = [r \in Request |-> -1]

-----------------------------------------------------------------------------
(* The requests' threads.                                                  *)

(* Scheduler::submit.  The streaming handler then writes its first frame;
   every other caller goes to its pop loop.  The engine is stopped after its
   callers: the server's listener has returned (apps/mlxforge.cpp:199), and a
   C ABI engine is destroyed after its last submit.  Module Scheduler has the
   submits that come later.                                                *)
Submit(r) ==
    /\ client[r] = "new"
    /\ ~stop
    /\ IF MaxWaiting > 0 /\ Len(waiting) >= MaxWaiting
       THEN /\ client' = [client EXCEPT ![r] = "rejected"]
            /\ UNCHANGED waiting
       ELSE /\ waiting' = Append(waiting, r)
            /\ client' = [client EXCEPT ![r] =
                            IF Job[r].api = "sse" THEN "sending" ELSE "reading"]
    /\ UNCHANGED <<stop, workerVars, requestVars, atCancel>>

(* Where a client goes once a token (and its log-prob) is in hand: the SSE
   handler writes a frame, the others pop again.                           *)
Handled(r, from) ==
    IF from \in {"draining", "drainLogprob"} THEN "draining"
    ELSE IF Job[r].api = "sse" THEN "sending" ELSE "reading"

(* A slip in mlxforge_request_free: the drain forgets the log-probs.        *)
PopTokenDrainsNoLogprobs(r) ==
    /\ client[r] \in {"reading", "draining"}
    /\ HasItem(tokens[r])
    /\ tokens' = [tokens EXCEPT ![r] = PopItem(@)]
    /\ client' = [client EXCEPT ![r] =
                    IF PopsLogprobs(r) /\ @ = "reading" THEN "readLogprob"
                    ELSE Handled(r, @)]
    /\ UNCHANGED <<schedVars, workerVars, logprobs, cancelled, reason, atCancel>>

PopToken(r) ==
    /\ client[r] \in {"reading", "draining"}
    /\ HasItem(tokens[r])
    /\ tokens' = [tokens EXCEPT ![r] = PopItem(@)]
    /\ client' = [client EXCEPT ![r] =
                    IF ~PopsLogprobs(r) THEN Handled(r, @)
                    ELSE IF @ = "reading" THEN "readLogprob" ELSE "drainLogprob"]
    /\ UNCHANGED <<schedVars, workerVars, logprobs, cancelled, reason, atCancel>>

PopLogprob(r) ==
    /\ client[r] \in {"readLogprob", "drainLogprob"}
    /\ HasItem(logprobs[r]) \/ logprobs[r].closed
    /\ logprobs' = [logprobs EXCEPT ![r] = PopItem(@)]
    /\ client' = [client EXCEPT ![r] = Handled(r, @)]
    /\ UNCHANGED <<schedVars, workerVars, tokens, cancelled, reason, atCancel>>

(* pop returns false: the stream is over.                                  *)
PopEnd(r) ==
    /\ client[r] \in {"reading", "draining"}
    /\ ~HasItem(tokens[r])
    /\ tokens[r].closed
    /\ client' = [client EXCEPT ![r] = "done"]
    /\ UNCHANGED <<schedVars, workerVars, requestVars, atCancel>>

SetCancelled(r) ==
    /\ cancelled' = [cancelled EXCEPT ![r] = TRUE]
    /\ atCancel' = IF cancelled[r] THEN atCancel
                   ELSE [atCancel EXCEPT ![r] = tokens[r].sent]

(* mlxforge_request_cancel, from any thread, also during a blocked next.   *)
Cancel(r) ==
    /\ Job[r].api = "capi"
    /\ client[r] \in {"reading", "readLogprob"}
    /\ ~cancelled[r]
    /\ SetCancelled(r)
    /\ UNCHANGED <<schedVars, workerVars, tokens, logprobs, reason, client>>

(* mlxforge_request_free on a running request: cancel, then drain.         *)
Free(r) ==
    /\ Job[r].api = "capi"
    /\ client[r] = "reading"
    /\ SetCancelled(r)
    /\ client' = [client EXCEPT ![r] = "draining"]
    /\ UNCHANGED <<schedVars, workerVars, tokens, logprobs, reason>>

(* The SSE handler writes a frame; a failed write means the client is gone:
   it sets cancelled and returns without popping again.                    *)
SendFrame(r) ==
    /\ client[r] = "sending"
    /\ client' = [client EXCEPT ![r] = "reading"]
    /\ UNCHANGED <<schedVars, workerVars, requestVars, atCancel>>

SendFails(r) ==
    /\ client[r] = "sending"
    /\ SetCancelled(r)
    /\ client' = [client EXCEPT ![r] = "gone"]
    /\ UNCHANGED <<schedVars, workerVars, tokens, logprobs, reason>>

(* Worker::stop sets the scheduler's flag; the join is waiting for pc to be
   "exited".                                                               *)
Stop ==
    /\ ~stop
    /\ stop' = TRUE
    /\ UNCHANGED <<waiting, workerVars, requestVars, clientVars>>

-----------------------------------------------------------------------------
(* The worker: taking requests.                                            *)

(* run() up to ready_: the model is loaded.                                *)
Load ==
    /\ pc = "load"
    /\ pc' = "top"
    /\ UNCHANGED <<schedVars, ret, cur, admitVars, rows, closing, metricVars,
                   requestVars, clientVars>>

Smaller(m, n) == IF m <= n THEN m ELSE n

(* take_waiting(max), appended to incoming.                                *)
Take(max) ==
    LET n == Smaller(max, Len(waiting))
    IN  /\ incoming' = incoming \o SubSeq(waiting, 1, n)
        /\ waiting' = SubSeq(waiting, n + 1, Len(waiting))

(* Nothing to decode or prefill: block for a request ...                   *)
NextWaiting ==
    /\ pc = "top"
    /\ rows = <<>> /\ pending = <<>>
    /\ waiting # <<>>
    /\ Take(1)
    /\ pc' = "more"
    /\ UNCHANGED <<stop, ret, cur, gen, groups, pending, rows, closing, metricVars,
                   requestVars, clientVars>>

(* ... and take what else is ready ...                                     *)
TakeMore ==
    /\ pc = "more"
    /\ Take(PrefillBatch - 1)
    /\ pc' = "dispatch"
    /\ UNCHANGED <<stop, ret, cur, gen, groups, pending, rows, closing, metricVars,
                   requestVars, clientVars>>

(* A slip: the loop ends on a stop although rows are still decoding.        *)
ExitWithRows ==
    /\ pc = "top"
    /\ waiting = <<>> /\ stop
    /\ pc' = "exited"
    /\ UNCHANGED <<schedVars, ret, cur, admitVars, rows, closing, metricVars,
                   requestVars, clientVars>>

(* ... or end the loop: stopping and drained.                              *)
Exit ==
    /\ pc = "top"
    /\ rows = <<>> /\ pending = <<>>
    /\ waiting = <<>> /\ stop
    /\ pc' = "exited"
    /\ UNCHANGED <<schedVars, ret, cur, admitVars, rows, closing, metricVars,
                   requestVars, clientVars>>

(* A running batch is topped up without blocking, unless a prefill is in
   flight: then no admission is taken (see AdvanceChunkedPrefill).         *)
TopUp ==
    /\ pc = "top"
    /\ rows # <<>> /\ pending = <<>>
    /\ Take(PrefillBatch)
    /\ pc' = "dispatch"
    /\ UNCHANGED <<stop, ret, cur, gen, groups, pending, rows, closing, metricVars,
                   requestVars, clientVars>>

-----------------------------------------------------------------------------
(* The worker: admission.                                                  *)

FreshRow(r) == [req |-> r, produced |-> 0, finished |-> FALSE]
FreshRows(s) == [i \in 1 .. Len(s) |-> FreshRow(s[i])]

(* register_rows: the rows join the batch, then the row loop handles the
   first token of each of them.                                            *)
RegisterRows(s, back) ==
    /\ rows' = rows \o FreshRows(s)
    /\ cur' = Len(rows) + 1
    /\ ret' = back
    /\ pc' = "row"

(* A request that never joins the batch is ended here and now.             *)
EndEarly(r, why) ==
    /\ reason' = [reason EXCEPT ![r] = why]
    /\ closing' = <<FreshRow(r)>>
    /\ pc' = "closeTokens"
    /\ ret' = "dispatch"

HandleEmbedding ==
    /\ pc = "dispatch"
    /\ incoming # <<>> /\ Job[Head(incoming)].kind = "embed"
    /\ \E why \in {"embed", "error"} : EndEarly(Head(incoming), why)
    /\ incoming' = Tail(incoming)
    /\ UNCHANGED <<schedVars, cur, gen, groups, pending, rows, metricVars,
                   tokens, logprobs, cancelled, clientVars>>

(* admit_multimodal: whatever can throw comes before the batch is touched. *)
AdmitMultimodal ==
    /\ pc = "dispatch"
    /\ incoming # <<>> /\ Job[Head(incoming)].kind = "vision"
    /\ incoming' = Tail(incoming)
    /\ \/ /\ RegisterRows(<<Head(incoming)>>, "dispatch")
          /\ UNCHANGED <<reason, closing>>
       \/ /\ EndEarly(Head(incoming), "error")
          /\ UNCHANGED <<rows, cur>>
    /\ UNCHANGED <<schedVars, gen, groups, pending, metricVars,
                   tokens, logprobs, cancelled, clientVars>>

CollectText ==
    /\ pc = "dispatch"
    /\ incoming # <<>> /\ Job[Head(incoming)].kind = "text"
    /\ gen' = Append(gen, Head(incoming))
    /\ incoming' = Tail(incoming)
    /\ UNCHANGED <<schedVars, loopVars, groups, pending, rows, closing, metricVars,
                   requestVars, clientVars>>

(* split_prefix: a match is shorter than the prompt (at least one token is
   always prefilled); 0 is a miss.                                         *)
Matches(s) ==
    {m \in [{s[i] : i \in 1 .. Len(s)} -> MatchLengths] :
        \A r \in DOMAIN m : m[r] < Job[r].prompt}
Warm(s, m) == Keep(s, {r \in DOMAIN m : m[r] > 0})
(* A slip in the split: a warm request is also prefilled with the cold ones. *)
ColdAndWarm(s, m) == Keep(s, {r \in DOMAIN m : m[r] >= 0})
Cold(s, m) == Keep(s, {r \in DOMAIN m : m[r] = 0})

LongestPrompt(s) ==
    CHOOSE n \in {Job[s[i]].prompt : i \in 1 .. Len(s)} :
        \A i \in 1 .. Len(s) : Job[s[i]].prompt <= n

(* enqueue_admissions: a unit per warm request with its uncached suffix, then
   one unit for the cold ones, left-padded to the longest prompt.          *)
WarmUnits(w, m) ==
    [i \in 1 .. Len(w) |-> [reqs |-> <<w[i]>>, left |-> Job[w[i]].prompt - m[w[i]]]]
ColdUnits(c) ==
    IF c = <<>> THEN <<>> ELSE <<[reqs |-> c, left |-> LongestPrompt(c)]>>

EnqueueAdmissions ==
    /\ pc = "dispatch"
    /\ incoming = <<>> /\ gen # <<>>
    /\ PrefillChunk > 0
    /\ \E m \in Matches(gen) :
         pending' = pending \o WarmUnits(Warm(gen, m), m) \o ColdUnits(Cold(gen, m))
    /\ gen' = <<>>
    /\ pc' = "prefill"
    /\ UNCHANGED <<schedVars, ret, cur, incoming, groups, rows, closing, metricVars,
                   requestVars, clientVars>>

(* admit: the cold requests prefill as one group, then each warm request.  *)
ColdGroups(c) == IF c = <<>> THEN <<>> ELSE <<c>>
WarmGroups(w) == [i \in 1 .. Len(w) |-> <<w[i]>>]

Admit ==
    /\ pc = "dispatch"
    /\ incoming = <<>> /\ gen # <<>>
    /\ PrefillChunk = 0
    /\ \E m \in Matches(gen) :
         groups' = ColdGroups(Cold(gen, m)) \o WarmGroups(Warm(gen, m))
    /\ gen' = <<>>
    /\ pc' = "admit"
    /\ UNCHANGED <<schedVars, ret, cur, incoming, pending, rows, closing, metricVars,
                   requestVars, clientVars>>

AdmitGroup ==
    /\ pc = "admit"
    /\ groups # <<>>
    /\ groups' = Tail(groups)
    /\ RegisterRows(Head(groups), "admit")
    /\ UNCHANGED <<schedVars, incoming, gen, pending, closing, metricVars,
                   requestVars, clientVars>>

(* A slip: an iteration that admitted nothing new skips the decode step.    *)
AdmissionSkipsDecode ==
    /\ \/ pc = "dispatch" /\ incoming = <<>> /\ gen = <<>>
       \/ pc = "admit" /\ groups = <<>>
    /\ pc' = "top"
    /\ UNCHANGED <<schedVars, ret, cur, admitVars, rows, closing, metricVars,
                   requestVars, clientVars>>

(* Nothing (more) to admit in this round, and no prefill in flight.        *)
AdmissionDone ==
    /\ \/ pc = "dispatch" /\ incoming = <<>> /\ gen = <<>>
       \/ pc = "admit" /\ groups = <<>>
    /\ pc' = "evict1"
    /\ UNCHANGED <<schedVars, ret, cur, admitVars, rows, closing, metricVars,
                   requestVars, clientVars>>

(* advance_chunked_prefill: one chunk of the oldest unit; with its last chunk
   the unit's rows join the batch.                                         *)
AdvanceChunkedPrefill ==
    /\ pc \in {"top", "prefill"}
    /\ pending # <<>>
    /\ LET unit == Head(pending)
       IN  IF unit.left > PrefillChunk
           THEN /\ pending' = [pending EXCEPT ![1].left = @ - PrefillChunk]
                /\ pc' = "evict1"
                /\ UNCHANGED <<rows, cur, ret>>
           ELSE /\ pending' = Tail(pending)
                /\ RegisterRows(unit.reqs, "evict1")
    /\ UNCHANGED <<schedVars, incoming, gen, groups, closing, metricVars,
                   requestVars, clientVars>>

-----------------------------------------------------------------------------
(* The worker: one sampled token per row, the loops of register_rows and
   decode_step.                                                            *)

(* On to the next row, or out of the loop.                                 *)
NextRow ==
    IF cur < Len(rows)
    THEN cur' = cur + 1 /\ pc' = "row" /\ UNCHANGED ret
    ELSE cur' = 1 /\ pc' = ret /\ ret' = "none"

FinishRow(why) ==
    /\ rows' = [rows EXCEPT ![cur].finished = TRUE]
    /\ reason' = [reason EXCEPT ![rows[cur].req] = why]
    /\ NextRow

(* (decode_step's skip of finished rows never applies: evict_finished has just
   removed them, and a row of this loop is visited once.)                  *)
RowCancelled ==
    /\ pc = "row"
    /\ cancelled[rows[cur].req]
    /\ FinishRow("cancel")
    /\ UNCHANGED <<schedVars, admitVars, closing, metricVars,
                   tokens, logprobs, cancelled, clientVars>>

(* consume, on an EOS id: nothing is emitted.                              *)
RowEos ==
    /\ pc = "row"
    /\ ~cancelled[rows[cur].req]
    /\ FinishRow("stop")
    /\ UNCHANGED <<schedVars, admitVars, closing, metricVars,
                   tokens, logprobs, cancelled, clientVars>>

(* A slip: cancelled is not looked at before a token is emitted.            *)
RowTokenUnchecked ==
    /\ pc = "row"
    /\ pc' = "push"
    /\ UNCHANGED <<schedVars, ret, cur, admitVars, rows, closing, metricVars,
                   requestVars, clientVars>>

(* consume, on any other id: past the check of cancelled, before the push. *)
RowToken ==
    /\ pc = "row"
    /\ ~cancelled[rows[cur].req]
    /\ pc' = "push"
    /\ UNCHANGED <<schedVars, ret, cur, admitVars, rows, closing, metricVars,
                   requestVars, clientVars>>

(* A slip: one token more than max_tokens.                                  *)
CountTokenOffByOne ==
    LET row == rows[cur]
    IN  IF row.produced + 1 > Job[row.req].maxTokens
        THEN /\ rows' = [rows EXCEPT ![cur].produced = @ + 1, ![cur].finished = TRUE]
             /\ reason' = [reason EXCEPT ![row.req] = "length"]
        ELSE /\ rows' = [rows EXCEPT ![cur].produced = @ + 1]
             /\ UNCHANGED reason

(* After the push(es): count the token, finish on max_tokens.              *)
CountToken ==
    LET row == rows[cur]
    IN  IF row.produced + 1 >= Job[row.req].maxTokens
        THEN /\ rows' = [rows EXCEPT ![cur].produced = @ + 1, ![cur].finished = TRUE]
             /\ reason' = [reason EXCEPT ![row.req] = "length"]
        ELSE /\ rows' = [rows EXCEPT ![cur].produced = @ + 1]
             /\ UNCHANGED reason

(* req.tokens.push(id), blocking while the queue is full.                  *)
PushToken ==
    /\ pc = "push"
    /\ LET r == rows[cur].req
       IN  /\ CanPush(tokens[r])
           /\ tokens' = [tokens EXCEPT ![r] = PushItem(@)]
           /\ IF Logprobs(r)
              THEN pc' = "pushLogprob" /\ UNCHANGED <<rows, reason, cur, ret>>
              ELSE CountToken /\ NextRow
    /\ UNCHANGED <<schedVars, admitVars, closing, metricVars,
                   logprobs, cancelled, clientVars>>

(* req.logprobs.push(lp), blocking while that queue is full.               *)
PushLogprob ==
    /\ pc = "pushLogprob"
    /\ LET r == rows[cur].req
       IN  /\ CanPush(logprobs[r])
           /\ logprobs' = [logprobs EXCEPT ![r] = PushItem(@)]
    /\ CountToken
    /\ NextRow
    /\ UNCHANGED <<schedVars, admitVars, closing, metricVars,
                   tokens, cancelled, clientVars>>

-----------------------------------------------------------------------------
(* The worker: eviction, decoding, the end of an iteration.                *)

(* evict_finished: the finished rows leave the batch; their queues are closed
   in row order, each after the metrics that count it.                     *)
CloseAll(batch, next) ==
    /\ closing' = batch
    /\ IF batch = <<>> THEN pc' = next /\ ret' = "none"
                       ELSE pc' = "closeTokens" /\ ret' = next

(* A slip: an emptied batch always takes the early continue.                *)
EvictSkipsPublish ==
    /\ pc \in {"evict1", "evict2"}
    /\ rows' = Keep(rows, {row \in RowType : ~row.finished})
    /\ CloseAll(Keep(rows, {row \in RowType : row.finished}),
                IF \A i \in 1 .. Len(rows) : rows[i].finished THEN "top"
                ELSE IF pc = "evict2" THEN "publish" ELSE "decode")
    /\ UNCHANGED <<schedVars, cur, admitVars, metricVars, requestVars, clientVars>>

(* The first call of an iteration is followed by the decode step, or by the
   next iteration if no row is left; the second by publishing the metrics. *)
EvictFinished ==
    /\ pc \in {"evict1", "evict2"}
    /\ rows' = Keep(rows, {row \in RowType : ~row.finished})
    /\ CloseAll(Keep(rows, {row \in RowType : row.finished}),
                IF pc = "evict2" THEN "publish"
                ELSE IF \A i \in 1 .. Len(rows) : rows[i].finished THEN "top" ELSE "decode")
    /\ UNCHANGED <<schedVars, cur, admitVars, metricVars, requestVars, clientVars>>

CountCompletion(row) ==
    IF ret = "dispatch"
    THEN UNCHANGED <<completed, emitted, unstamped>>
    ELSE /\ completed' = completed + 1
         /\ emitted' = emitted + row.produced
         /\ unstamped' = unstamped + (IF row.produced = 0 THEN 1 ELSE 0)

(* A slip: only the log-prob queue is closed.                               *)
CloseTokensForgotten ==
    /\ pc = "closeTokens"
    /\ CountCompletion(Head(closing))
    /\ pc' = "closeLogprobs"
    /\ UNCHANGED <<schedVars, ret, cur, admitVars, rows, closing, active,
                   tokens, logprobs, cancelled, reason, clientVars>>

CloseTokens ==
    /\ pc = "closeTokens"
    /\ CountCompletion(Head(closing))
    /\ tokens' = [tokens EXCEPT ![Head(closing).req] = CloseItem(@)]
    /\ pc' = "closeLogprobs"
    /\ UNCHANGED <<schedVars, ret, cur, admitVars, rows, closing, active,
                   logprobs, cancelled, reason, clientVars>>

CloseLogprobs ==
    /\ pc = "closeLogprobs"
    /\ logprobs' = [logprobs EXCEPT ![Head(closing).req] = CloseItem(@)]
    /\ CloseAll(Tail(closing), ret)
    /\ UNCHANGED <<schedVars, cur, admitVars, rows, metricVars,
                   tokens, cancelled, reason, clientVars>>

DecodeStep ==
    /\ pc = "decode"
    /\ pc' = "row"
    /\ ret' = "evict2"
    /\ UNCHANGED <<schedVars, cur, admitVars, rows, closing, metricVars,
                   requestVars, clientVars>>

Publish ==
    /\ pc = "publish"
    /\ active' = Len(rows)
    /\ pc' = "top"
    /\ UNCHANGED <<schedVars, ret, cur, admitVars, rows, closing,
                   completed, emitted, unstamped, requestVars, clientVars>>

-----------------------------------------------------------------------------
Client(r) ==
    \/ PopToken(r)
    \/ PopLogprob(r)
    \/ PopEnd(r)
    \/ SendFrame(r)
    \/ SendFails(r)

Worker ==
    \/ Load
    \/ NextWaiting
    \/ TakeMore
    \/ Exit
    \/ TopUp
    \/ HandleEmbedding
    \/ AdmitMultimodal
    \/ CollectText
    \/ EnqueueAdmissions
    \/ Admit
    \/ AdmitGroup
    \/ AdmissionDone
    \/ AdvanceChunkedPrefill
    \/ RowCancelled
    \/ RowEos
    \/ RowToken
    \/ PushToken
    \/ PushLogprob
    \/ EvictFinished
    \/ CloseTokens
    \/ CloseLogprobs
    \/ DecodeStep
    \/ Publish

(* Every thread has run to its end.                                        *)
Terminated ==
    /\ pc = "exited"
    /\ \A r \in Request : client[r] \in {"new", "rejected", "gone", "done"}
    /\ UNCHANGED vars

Next ==
    \/ \E r \in Request : Submit(r) \/ Cancel(r) \/ Free(r) \/ Client(r)
    \/ Stop
    \/ Worker
    \/ Terminated

Spec == Init /\ [][Next]_vars

(* The worker runs when it can, and a request's thread that can pop or whose
   write is due goes on.  Submitting, cancelling, freeing, disconnecting and
   stopping are up to the callers.                                         *)
FairSpec ==
    /\ Spec
    /\ WF_vars(Worker)
    /\ \A r \in Request : WF_vars(Client(r))

-----------------------------------------------------------------------------
Accepted(r) == client[r] \notin {"new", "rejected"}
Ended(r) == tokens[r].closed

(* How often a request occurs in what the worker and the scheduler hold.   *)
InSeq(s, r)   == Cardinality({i \in 1 .. Len(s) : s[i] = r})
InRows(s, r)  == Cardinality({i \in 1 .. Len(s) : s[i].req = r})
InGroups(r)   == Cardinality({i \in 1 .. Len(groups) : InSeq(groups[i], r) > 0})
InPending(r)  == Cardinality({i \in 1 .. Len(pending) : InSeq(pending[i].reqs, r) > 0})
InClosing(r)  == InRows(closing, r)
                 - (IF pc = "closeLogprobs" /\ Head(closing).req = r THEN 1 ELSE 0)
Occurrences(r) ==
    InSeq(waiting, r) + InSeq(incoming, r) + InSeq(gen, r) + InGroups(r)
    + InPending(r) + InRows(rows, r) + InClosing(r)

(* From the accepting submit to the close of its stream a request is in
   exactly one place on its way (waiting, taken, prefilling, in the batch,
   being closed), and afterwards nowhere: admission splits, chunked prefills
   and the compaction of the batch (worker.cpp:630-648) lose and duplicate
   nothing.                                                                *)
ExactlyOnePlace ==
    \A r \in Request :
        Occurrences(r) = IF Accepted(r) /\ ~Ended(r) THEN 1 ELSE 0

(* Tokens and log-probs stay in lockstep on both sides of the queues: the
   n-th record popped belongs to the n-th token.                           *)
LogprobLockstep ==
    \A r \in Request :
        PopsLogprobs(r) =>
            /\ tokens[r].sent - logprobs[r].sent =
                 IF pc = "pushLogprob" /\ rows[cur].req = r THEN 1 ELSE 0
            /\ tokens[r].got - logprobs[r].got =
                 IF client[r] \in {"readLogprob", "drainLogprob"} THEN 1 ELSE 0

(* After cancelled is set at most one more token is pushed: the one for which
   the worker had already passed its check (worker.cpp:439, 543).          *)
CancelIsPrompt ==
    \A r \in Request : cancelled[r] => tokens[r].sent <= atCancel[r] + 1

(* /health's active_batch is exact whenever the worker is about to look for
   work, although the early continue (worker.cpp:265) skips its update.    *)
ActiveBatchExact == pc = "top" => active = Len(rows)

(* requests_completed counts each request that left the batch, and counts it
   no later than its stream ends.                                          *)
CompletedRequests ==
    {r \in Request : Ended(r) /\ reason[r] \in {"stop", "length", "cancel"}}
CompletedExact == completed = Cardinality(CompletedRequests)

(* completion_tokens_total is the number of tokens the completed requests
   emitted: neither the EOS nor a token of an unfinished row is counted.   *)
CompletedTokens == UNION {{r} \X (1 .. tokens[r].sent) : r \in CompletedRequests}
EmittedExact == emitted = Cardinality(CompletedTokens)

(* The completions that ended before their first token are averaged with a
   first_token_time nobody set; they are the only ones.                    *)
UntimedRequests == {r \in CompletedRequests : tokens[r].sent = 0}
UntimedExact == unstamped = Cardinality(UntimedRequests)

(* What /health and /metrics report (worker.cpp:265-278, 598-614): the batch,
   the completions and the tokens are those there are, and what mixes an
   unset time into the averages is exactly the requests without a token.   *)
MetricsExact == ActiveBatchExact /\ CompletedExact /\ EmittedExact /\ UntimedExact

(* When the worker's loop is over no accepted request is left open, so no
   caller is left in a pop that never returns.                             *)
ExitDrains == pc = "exited" => \A r \in Request : Accepted(r) => Ended(r)

(* The serving loop keeps what a caller of submit() is promised.           *)
Lifecycle == INSTANCE RequestLifecycle WITH
    MaxTokens <- [r \in Request |-> Job[r].maxTokens],
    Generates <- {r \in Request : Job[r].kind # "embed"},
    phase     <- [r \in Request |->
                    IF ~Accepted(r) THEN client[r]
                    ELSE IF Ended(r) THEN "closed" ELSE "open"],
    emitted   <- [r \in Request |-> tokens[r].sent],
    received  <- [r \in Request |-> tokens[r].got],
    why       <- reason,
    told      <- [r \in Request |-> client[r] = "done"]

KeepsLifecycle == Lifecycle!Spec

(* Every accepted request comes to its end, on both sides: its stream is
   closed (worker.cpp:616), and its caller gets out of the pop loop, told the
   end, unless it was a connection that went away.                         *)
RequestEnds ==
    \A r \in Request : Accepted(r) ~> (Ended(r) /\ client[r] \in {"done", "gone"})

(* mlxforge_request_free comes back from its drain (mlxforge.cpp:511).      *)
FreeReturns == \A r \in Request : (client[r] = "draining") ~> (client[r] = "done")

(* After a broken connection the worker evicts the request
   (http_server.cpp:154).                                                  *)
DisconnectEvicts == \A r \in Request : (client[r] = "gone") ~> Ended(r)

(* stop() comes back: the worker drains and its loop ends.                 *)
StopTerminates == stop ~> (pc = "exited")
=============================================================================
