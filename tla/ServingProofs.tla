--------------------------- MODULE ServingProofs ---------------------------
(***************************************************************************)
(* The theorems about module Serving, from its core invariant (module      *)
(* ServingInvariant): that a request is in one place and the exit drains   *)
(* follow from it directly.  The others add what they need to it:          *)
(*   Queues      pops never overtake pushes, log-probs end after tokens;   *)
(*   Prompt      what a cancelled request may still get;                   *)
(*   Completions, Tally, Leaving, Counted                                  *)
(*               the metrics against the requests they count.              *)
(* For these only the effect of a step on one request matters, and         *)
(* WorkerSteps reduces every action of the worker to one of six effects.   *)
(* The same six give the refinement of RequestLifecycle.                   *)
(***************************************************************************)
EXTENDS ServingInvariant

-----------------------------------------------------------------------------
(* Counting occurrences.                                                   *)

(* A set of positions of which no two differ.                              *)
LEMMA AtMostOne ==
    ASSUME NEW n, NEW S \in SUBSET (1 .. n), \A i, j \in S : i = j
    PROVE  Cardinality(S) = IF S = {} THEN 0 ELSE 1
<1>1. CASE S = {}
  BY <1>1, FS_EmptySet
<1>2. CASE S # {}
  <2>1. PICK i \in S : TRUE
    BY <1>2
  <2>2. S = {i}
    BY <2>1
  <2> QED BY <1>2, <2>2, FS_Singleton
<1> QED BY <1>1, <1>2

(* A sequence without repetitions holds an element once or not at all.   *)
LEMMA CountInSeq ==
    ASSUME NEW A, NEW s \in Seq(A), Distinct(s), NEW r
    PROVE  InSeq(s, r) = IF r \in Range(s) THEN 1 ELSE 0
<1> DEFINE S == {i \in 1 .. Len(s) : s[i] = r}
<1>1. S \in SUBSET (1 .. Len(s)) /\ \A i, j \in S : i = j
  BY DEF Distinct
<1>2. S = {} <=> r \notin Range(s)
  <2>1. DOMAIN s = 1 .. Len(s)
    OBVIOUS
  <2> QED BY <2>1 DEF Range
<1> HIDE DEF S
<1>3. Cardinality(S) = IF S = {} THEN 0 ELSE 1
  BY <1>1, AtMostOne
<1> QED BY <1>2, <1>3 DEF InSeq, S

(* The same for the rows of a batch.                                     *)
LEMMA CountInRows ==
    ASSUME NEW rs, OneRowEach(rs), NEW r
    PROVE  InRows(rs, r) = IF r \in ReqSet(rs) THEN 1 ELSE 0
<1> DEFINE S == {i \in 1 .. Len(rs) : rs[i].req = r}
<1>1. S \in SUBSET (1 .. Len(rs)) /\ \A i, j \in S : i = j
  BY DEF OneRowEach
<1>2. S = {} <=> r \notin ReqSet(rs)
  BY DEF ReqSet
<1> HIDE DEF S
<1>3. Cardinality(S) = IF S = {} THEN 0 ELSE 1
  BY <1>1, AtMostOne
<1> QED BY <1>2, <1>3 DEF InRows, S

(* The same for groups that have no request in common.                   *)
LEMMA CountInGroups ==
    ASSUME NEW A, NEW f \in Seq(Seq(A)), Apart(f), NEW r
    PROVE  Cardinality({i \in 1 .. Len(f) : InSeq(f[i], r) > 0}) =
               IF r \in Members(f) THEN 1 ELSE 0
<1> DEFINE S == {i \in 1 .. Len(f) : InSeq(f[i], r) > 0}
<1>1. \A i \in 1 .. Len(f) : InSeq(f[i], r) > 0 <=> r \in Range(f[i])
  <2> SUFFICES ASSUME NEW i \in 1 .. Len(f) PROVE InSeq(f[i], r) > 0 <=> r \in Range(f[i])
    OBVIOUS
  <2>1. f[i] \in Seq(A) /\ Distinct(f[i])
    BY DEF Apart
  <2>2. InSeq(f[i], r) = IF r \in Range(f[i]) THEN 1 ELSE 0
    BY <2>1, CountInSeq
  <2> QED BY <2>2
<1>2. S \in SUBSET (1 .. Len(f)) /\ \A i, j \in S : i = j
  BY <1>1 DEF Apart
<1>3. S = {} <=> r \notin Members(f)
  BY <1>1 DEF Members
<1> HIDE DEF S
<1>4. Cardinality(S) = IF S = {} THEN 0 ELSE 1
  BY <1>2, AtMostOne
<1> QED BY <1>3, <1>4 DEF S

(* What of closing is counted is what is still to be closed.               *)
LEMMA CountInClosing ==
    ASSUME Control, Places, NEW r
    PROVE  InClosing(r) = IF r \in ReqSet(ToClose) THEN 1 ELSE 0
<1>0. closing \in Seq(RowType) /\ OneRowEach(closing)
  BY DEF Control, TypeOK, Places, Once
<1>1. InRows(closing, r) = IF r \in ReqSet(closing) THEN 1 ELSE 0
  BY <1>0, CountInRows
<1>2. CASE pc = "closeLogprobs"
  <2>1. closing # <<>>
    BY <1>2 DEF Control, Loops, CloseLoop
  <2>2. /\ ReqSet(closing) = {Head(closing).req} \cup ReqSet(Tail(closing))
        /\ Head(closing).req \notin ReqSet(Tail(closing))
    BY <1>0, <2>1, RowsTail
  <2>3. ToClose = Tail(closing)
    BY <1>2 DEF ToClose
  <2>4. InClosing(r) = InRows(closing, r) - (IF Head(closing).req = r THEN 1 ELSE 0)
    BY <1>2 DEF InClosing
  <2>5. CASE Head(closing).req = r
    BY <1>1, <2>2, <2>3, <2>4, <2>5
  <2>6. CASE Head(closing).req # r
    <3>1. r \in ReqSet(closing) <=> r \in ReqSet(ToClose)
      BY <2>2, <2>3, <2>6
    <3>2. InClosing(r) = InRows(closing, r) - 0
      BY <2>4, <2>6
    <3> QED BY <1>1, <3>1, <3>2
  <2> QED BY <2>5, <2>6
<1>3. CASE pc # "closeLogprobs"
  <2>1. ToClose = closing /\ InClosing(r) = InRows(closing, r) - 0
    BY <1>3 DEF ToClose, InClosing
  <2> QED BY <1>1, <2>1
<1> QED BY <1>2, <1>3

(* Sets that partition O hold an element as often as O does.               *)
LEMMA PartitionCounts ==
    ASSUME NEW W, NEW I, NEW G, NEW Q, NEW P, NEW R, NEW C, NEW O,
           Partition(W, I, G, Q, P, R, C, O), NEW r,
           NEW w, NEW i, NEW g, NEW q, NEW p, NEW x, NEW c,
           w = (IF r \in W THEN 1 ELSE 0), i = (IF r \in I THEN 1 ELSE 0),
           g = (IF r \in G THEN 1 ELSE 0), q = (IF r \in Q THEN 1 ELSE 0),
           p = (IF r \in P THEN 1 ELSE 0), x = (IF r \in R THEN 1 ELSE 0),
           c = (IF r \in C THEN 1 ELSE 0)
    PROVE  w + i + g + q + p + x + c = IF r \in O THEN 1 ELSE 0
<1>1. /\ r \in O <=> r \in W \/ r \in I \/ r \in G \/ r \in Q \/ r \in P \/ r \in R \/ r \in C
      /\ r \in W => ~(r \in I \/ r \in G \/ r \in Q \/ r \in P \/ r \in R \/ r \in C)
      /\ r \in I => ~(r \in G \/ r \in Q \/ r \in P \/ r \in R \/ r \in C)
      /\ r \in G => ~(r \in Q \/ r \in P \/ r \in R \/ r \in C)
      /\ r \in Q => ~(r \in P \/ r \in R \/ r \in C)
      /\ r \in P => ~(r \in R \/ r \in C)
      /\ r \in R => ~(r \in C)
  BY DEF Partition
<1> QED BY <1>1

(* Admission splits, chunked prefills, the row loop, the compaction of the
   batch and the closing of streams lose no request and duplicate none: an
   accepted request whose stream is open is in exactly one place.          *)
THEOREM NoRequestLostOrDoubled == Spec => []ExactlyOnePlace
<1>1. Core => ExactlyOnePlace
  <2> SUFFICES ASSUME Core, NEW r \in Request
               PROVE  Occurrences(r) = IF Accepted(r) /\ ~Ended(r) THEN 1 ELSE 0
    BY DEF ExactlyOnePlace
  <2>0. /\ waiting \in Seq(Request) /\ incoming \in Seq(Request) /\ gen \in Seq(Request)
        /\ groups \in Seq(Seq(Request)) /\ pending \in Seq(UnitType)
        /\ Control /\ Places /\ Once
    BY DEF Core, Control, TypeOK, Places
  <2>1. /\ InSeq(waiting, r) = (IF r \in Range(waiting) THEN 1 ELSE 0)
        /\ InSeq(incoming, r) = (IF r \in Range(incoming) THEN 1 ELSE 0)
        /\ InSeq(gen, r) = (IF r \in Range(gen) THEN 1 ELSE 0)
    BY <2>0, CountInSeq DEF Once
  <2>2. InGroups(r) = (IF r \in Members(groups) THEN 1 ELSE 0)
    BY <2>0, CountInGroups DEF Once, InGroups
  <2>3. InPending(r) = (IF r \in Members(UnitReqs(pending)) THEN 1 ELSE 0)
    <3> DEFINE f == UnitReqs(pending)
    <3>1. f \in Seq(Seq(Request)) /\ Apart(f)
      BY <2>0, UnitsAsGroups DEF Once
    <3>2. Len(f) = Len(pending) /\ \A i \in 1 .. Len(pending) : f[i] = pending[i].reqs
      BY <2>0 DEF UnitReqs
    <3>3. {i \in 1 .. Len(pending) : InSeq(pending[i].reqs, r) > 0} =
             {i \in 1 .. Len(f) : InSeq(f[i], r) > 0}
      BY <3>2
    <3> HIDE DEF f
    <3>4. Cardinality({i \in 1 .. Len(f) : InSeq(f[i], r) > 0}) = IF r \in Members(f) THEN 1 ELSE 0
      BY <3>1, CountInGroups
    <3> QED BY <3>3, <3>4 DEF InPending, f
  <2>4. InRows(rows, r) = (IF r \in ReqSet(rows) THEN 1 ELSE 0)
    BY <2>0, CountInRows DEF Once
  <2>5. InClosing(r) = (IF r \in ReqSet(ToClose) THEN 1 ELSE 0)
    BY <2>0, CountInClosing
  <2>6. Partition(Range(waiting), Range(incoming), Range(gen), Members(groups),
                  Members(UnitReqs(pending)), ReqSet(rows), ReqSet(ToClose), Open)
    BY <2>0 DEF Places
  <2>7. Occurrences(r) = IF r \in Open THEN 1 ELSE 0
    BY <2>1, <2>2, <2>3, <2>4, <2>5, <2>6, PartitionCounts DEF Occurrences
  <2>8. r \in Open <=> Accepted(r) /\ ~Ended(r)
    BY DEF Open
  <2> QED BY <2>7, <2>8
<1> QED BY <1>1, CoreInvariant, PTL

(* Worker::stop drains: when the loop is over no accepted request is left
   with an open stream.                                                    *)
THEOREM StopDrains == Spec => []ExitDrains
<1>1. Core => ExitDrains
  <2> SUFFICES ASSUME Core, pc = "exited" PROVE Open = {}
    BY DEF ExitDrains, Open
  <2>1. ~RowLoop /\ ~CloseLoop /\ Home = "exited" /\ ToClose = closing
    BY DEF RowLoop, CloseLoop, Home, ToClose
  <2>2. /\ waiting = <<>> /\ incoming = <<>> /\ gen = <<>> /\ groups = <<>> /\ pending = <<>>
        /\ rows = <<>> /\ closing = <<>>
    BY <2>1 DEF Core, Control, Loops, Locals
  <2>3. /\ Range(waiting) = {} /\ Range(incoming) = {} /\ Range(gen) = {}
    BY <2>2, EmptyDistinct
  <2>4. UnitReqs(pending) = <<>>
    BY <2>2 DEF UnitReqs
  <2>5. Members(groups) = {} /\ Members(UnitReqs(pending)) = {}
    BY <2>2, <2>4 DEF Members
  <2>6. ReqSet(rows) = {} /\ ReqSet(ToClose) = {}
    BY <2>1, <2>2 DEF ReqSet
  <2> QED BY <2>3, <2>5, <2>6 DEF Core, Places, Partition
<1> QED BY <1>1, CoreInvariant, PTL

-----------------------------------------------------------------------------
(***************************************************************************)
(* What the worker's steps do to the requests, seen from outside: at most  *)
(* one request is touched, in one of six ways.                             *)
(***************************************************************************)
AwayFromPush == pc # "pushLogprob" /\ pc' # "pushLogprob"

(* Nothing; a row that goes on to its push was not cancelled.               *)
Silent ==
    /\ UNCHANGED <<requestVars, clientVars, completed, emitted, unstamped>>
    /\ AwayFromPush
    /\ pc # "closeLogprobs" /\ pc' # "closeLogprobs"
    /\ pc' = "push" => ~cancelled[rows'[cur'].req]

(* The finish reason is decided, and agrees with what was emitted.          *)
Decided(x) ==
    /\ x \in Open /\ reason[x] = ""
    /\ \/ Job[x].kind = "embed" /\ reason' \in {[reason EXCEPT ![x] = w] : w \in {"embed", "error"}}
       \/ /\ Job[x].kind # "embed" /\ tokens[x].sent = 0
          /\ reason' = [reason EXCEPT ![x] = "error"]
       \/ /\ Job[x].kind # "embed" /\ tokens[x].sent < Job[x].maxTokens
          /\ reason' \in {[reason EXCEPT ![x] = w] : w \in {"stop", "cancel"}}
    /\ AwayFromPush /\ pc' # "push"
    /\ pc # "closeLogprobs" /\ pc' # "closeLogprobs"
    /\ UNCHANGED <<tokens, logprobs, cancelled, clientVars, completed, emitted, unstamped>>

(* A token goes out; the last allowed one decides the reason, at once when no
   log-prob follows it.                                                     *)
TokenPushed(x) ==
    /\ x \in Open /\ reason[x] = "" /\ Job[x].kind # "embed"
    /\ tokens[x].sent < Job[x].maxTokens
    /\ tokens' = [tokens EXCEPT ![x] = PushItem(@)]
    /\ pc = "push" /\ rows[cur].req = x
    /\ IF Logprobs(x)
       THEN pc' = "pushLogprob" /\ rows'[cur'].req = x /\ reason' = reason
       ELSE /\ pc' \notin {"pushLogprob", "push", "closeLogprobs"}
            /\ \/ reason' = reason
               \/ /\ tokens[x].sent + 1 = Job[x].maxTokens
                  /\ reason' = [reason EXCEPT ![x] = "length"]
    /\ UNCHANGED <<logprobs, cancelled, clientVars, completed, emitted, unstamped>>

(* Its log-prob follows; the row is finished if that was the last token. *)
LogprobPushed(x) ==
    /\ x \in Open /\ reason[x] = "" /\ Job[x].kind # "embed"
    /\ pc = "pushLogprob" /\ rows[cur].req = x
    /\ logprobs' = [logprobs EXCEPT ![x] = PushItem(@)]
    /\ \/ reason' = reason
       \/ tokens[x].sent = Job[x].maxTokens /\ reason' = [reason EXCEPT ![x] = "length"]
    /\ pc' \notin {"pushLogprob", "push", "closeLogprobs"}
    /\ UNCHANGED <<tokens, cancelled, clientVars, completed, emitted, unstamped>>

(* The stream ends, counted if the request was in the batch.                *)
StreamClosed(x) ==
    /\ x \in Open /\ reason[x] # ""
    /\ tokens' = [tokens EXCEPT ![x] = CloseItem(@)]
    /\ completed' = completed + (IF reason[x] \in Ran THEN 1 ELSE 0)
    /\ pc = "closeTokens" /\ pc' = "closeLogprobs" /\ closing' = closing /\ Head(closing).req = x
    /\ emitted' = emitted + (IF reason[x] \in Ran THEN Head(closing).produced ELSE 0)
    /\ unstamped' = unstamped + (IF reason[x] \in Ran /\ Head(closing).produced = 0 THEN 1 ELSE 0)
    /\ UNCHANGED <<logprobs, cancelled, reason, clientVars>>

(* The log-prob queue is closed after the tokens.                        *)
LogprobsClosed(x) ==
    /\ pc = "closeLogprobs" /\ Head(closing).req = x
    /\ logprobs' = [logprobs EXCEPT ![x] = CloseItem(@)]
    /\ pc' \notin {"pushLogprob", "push", "closeLogprobs"}
    /\ UNCHANGED <<tokens, cancelled, reason, clientVars, completed, emitted, unstamped>>

(* The row the row loop is at.                                             *)
LEMMA CurrentRow ==
    ASSUME Core, pc \in {"row", "push", "pushLogprob"}
    PROVE  /\ cur \in 1 .. Len(rows) /\ rows[cur] \in RowType /\ rows[cur].produced \in Nat
           /\ rows[cur].req \in Request /\ rows[cur].req \in Open
           /\ reason[rows[cur].req] = "" /\ Job[rows[cur].req].kind # "embed"
           /\ Job[rows[cur].req].maxTokens \in Nat
           /\ rows[cur].produced < Job[rows[cur].req].maxTokens
           /\ pc # "pushLogprob" => tokens[rows[cur].req].sent = rows[cur].produced
           /\ pc = "pushLogprob" => tokens[rows[cur].req].sent = rows[cur].produced + 1
           /\ ret \in {"dispatch", "admit", "evict1", "evict2"}
<1>1. RowLoop /\ cur \in 1 .. Len(rows) /\ ret \in {"dispatch", "admit", "evict1", "evict2"}
  BY DEF Core, Control, Loops, RowLoop
<1>2. rows \in Seq(RowType) /\ cur \in Nat
  BY DEF Core, Control, TypeOK
<1>3. rows[cur] \in RowType
  BY <1>1, <1>2
<1>4. rows[cur].produced \in Nat /\ rows[cur].req \in Request
  BY <1>3 DEF RowType
<1>5. rows[cur].req \in Open
  <2>1. rows[cur].req \in ReqSet(rows)
    BY <1>1 DEF ReqSet
  <2> QED BY <2>1, PlacesSets DEF Core, Started
<1>6. ~rows[cur].finished
  <2>1. cur >= cur
    BY <1>2
  <2> QED BY <1>1, <2>1 DEF Core, Stages, Batch
<1>7. /\ reason[rows[cur].req] = "" /\ Job[rows[cur].req].kind # "embed"
      /\ rows[cur].produced < Job[rows[cur].req].maxTokens
  BY <1>1, <1>6 DEF Core, Stages, Batch
<1>8. Job[rows[cur].req].maxTokens \in Nat
  BY <1>4, JobAssumption DEF JobType
<1>9. tokens[rows[cur].req].sent = rows[cur].produced + (IF pc = "pushLogprob" /\ cur = cur THEN 1 ELSE 0)
  BY <1>1 DEF Core, Stages, Batch
<1>10. pc # "pushLogprob" => tokens[rows[cur].req].sent = rows[cur].produced
  <2>1. ASSUME pc # "pushLogprob" PROVE tokens[rows[cur].req].sent = rows[cur].produced + 0
    BY <1>9, <2>1
  <2> QED BY <1>4, <2>1
<1>11. pc = "pushLogprob" => tokens[rows[cur].req].sent = rows[cur].produced + 1
  BY <1>9
<1> QED BY <1>1, <1>3, <1>4, <1>5, <1>7, <1>8, <1>10, <1>11

(* Leaving a row, the loop goes on at the next one or where it came from.   *)
LEMMA AfterRow ==
    ASSUME Core, pc \in {"row", "push", "pushLogprob"}, NextRow
    PROVE  pc' \notin {"pushLogprob", "push", "closeLogprobs", "closeTokens"}
<1>1. ret \in {"dispatch", "admit", "evict1", "evict2"}
  BY CurrentRow
<1> QED BY <1>1 DEF NextRow

(* The request at the head of incoming, which never joins the batch.        *)
LEMMA EarlyEnd ==
    ASSUME Core, pc = "dispatch", incoming # <<>>, NEW why \in {"embed", "error"},
           EndEarly(Head(incoming), why),
           why = "error" \/ Job[Head(incoming)].kind = "embed",
           UNCHANGED <<tokens, logprobs, cancelled, clientVars, completed, emitted, unstamped>>
    PROVE  \E x \in Request : Decided(x)
<1>1. incoming \in Seq(Request)
  BY DEF Core, Control, TypeOK
<1>2. PICK x \in Request : x = Head(incoming) /\ x \in Range(incoming)
  BY <1>1, TailDistinct
<1>3. x \in Fresh /\ x \in Open
  BY <1>2, PlacesSets DEF Core, Fresh
<1>4. tokens[x].sent = 0 /\ reason[x] = ""
  BY <1>3 DEF Core, Stages, Unstarted
<1>5. reason' = [reason EXCEPT ![x] = why] /\ pc' = "closeTokens"
  BY <1>2 DEF EndEarly
<1>6. \/ Job[x].kind = "embed" /\ reason' \in {[reason EXCEPT ![x] = w] : w \in {"embed", "error"}}
      \/ /\ Job[x].kind # "embed" /\ tokens[x].sent = 0
         /\ reason' = [reason EXCEPT ![x] = "error"]
  BY <1>2, <1>4, <1>5
<1>7. AwayFromPush /\ pc' # "push" /\ pc # "closeLogprobs" /\ pc' # "closeLogprobs"
  BY <1>5 DEF AwayFromPush
<1> QED BY <1>3, <1>4, <1>6, <1>7 DEF Decided

(* A row that stops or is cancelled.                                       *)
LEMMA RowEnds ==
    ASSUME Core, pc = "row", NEW why \in {"stop", "cancel"}, FinishRow(why),
           UNCHANGED <<tokens, logprobs, cancelled, clientVars, completed, emitted, unstamped>>
    PROVE  \E x \in Request : Decided(x)
<1>1. PICK x \in Request : x = rows[cur].req
  BY CurrentRow
<1>2. /\ x \in Open /\ reason[x] = "" /\ Job[x].kind # "embed"
      /\ tokens[x].sent < Job[x].maxTokens
  BY <1>1, CurrentRow
<1>3. reason' = [reason EXCEPT ![x] = why] /\ NextRow
  BY <1>1 DEF FinishRow
<1>4. pc' \notin {"pushLogprob", "push", "closeLogprobs"}
  BY <1>3, AfterRow
<1>5. reason' \in {[reason EXCEPT ![x] = w] : w \in {"stop", "cancel"}}
  BY <1>3
<1> QED BY <1>2, <1>4, <1>5 DEF Decided, AwayFromPush

(* The reason that counting a token decides.                               *)
LEMMA Counting ==
    ASSUME Core, pc \in {"row", "push", "pushLogprob"}, CountToken
    PROVE  \/ reason' = reason
           \/ /\ rows[cur].produced + 1 = Job[rows[cur].req].maxTokens
              /\ reason' = [reason EXCEPT ![rows[cur].req] = "length"]
<1>1. /\ rows[cur].produced \in Nat /\ Job[rows[cur].req].maxTokens \in Nat
      /\ rows[cur].produced < Job[rows[cur].req].maxTokens
  BY CurrentRow
<1>2. CASE rows[cur].produced + 1 >= Job[rows[cur].req].maxTokens
  <2>1. reason' = [reason EXCEPT ![rows[cur].req] = "length"]
    BY <1>2 DEF CountToken
  <2>2. rows[cur].produced + 1 = Job[rows[cur].req].maxTokens
    BY <1>1, <1>2
  <2> QED BY <2>1, <2>2
<1>3. CASE ~(rows[cur].produced + 1 >= Job[rows[cur].req].maxTokens)
  BY <1>3 DEF CountToken
<1> QED BY <1>2, <1>3

(* To a request every step of the worker is one of the six kinds above:
   silent, a reason decided, a token or log-prob pushed, a stream or its
   log-probs closed.                                                     *)
LEMMA WorkerSteps ==
    ASSUME Core, Worker
    PROVE  \/ Silent
           \/ \E x \in Request : \/ Decided(x) \/ TokenPushed(x) \/ LogprobPushed(x)
                                 \/ StreamClosed(x) \/ LogprobsClosed(x)
<1>1. CASE Load \/ NextWaiting \/ TakeMore \/ Exit \/ TopUp \/ CollectText \/ EnqueueAdmissions \/ Admit
  <2>1. /\ UNCHANGED <<requestVars, clientVars, completed, emitted, unstamped>>
        /\ pc' \in {"top", "more", "dispatch", "exited", "prefill", "admit"}
        /\ pc \in {"load", "top", "more", "dispatch"}
    BY <1>1 DEF Load, NextWaiting, TakeMore, Exit, TopUp, CollectText, EnqueueAdmissions, Admit,
                metricVars, loopVars
  <2> QED BY <2>1 DEF Silent, AwayFromPush
<1>2. CASE AdmitGroup \/ AdmissionDone \/ DecodeStep \/ Publish
  <2>1. /\ UNCHANGED <<requestVars, clientVars, completed, emitted, unstamped>>
        /\ pc' \in {"row", "evict1", "top"}
        /\ pc \in {"admit", "dispatch", "decode", "publish"}
    BY <1>2 DEF AdmitGroup, AdmissionDone, DecodeStep, Publish, metricVars, RegisterRows
  <2> QED BY <2>1 DEF Silent, AwayFromPush
<1>3. CASE AdvanceChunkedPrefill
  <2>1. /\ UNCHANGED <<requestVars, clientVars, completed, emitted, unstamped>>
        /\ pc' \in {"row", "evict1"} /\ pc \in {"top", "prefill"}
    BY <1>3 DEF AdvanceChunkedPrefill, metricVars, RegisterRows
  <2> QED BY <2>1 DEF Silent, AwayFromPush
<1>4. CASE EvictFinished
  <2>1. /\ UNCHANGED <<requestVars, clientVars, completed, emitted, unstamped>>
        /\ pc' \in {"closeTokens", "publish", "top", "decode"} /\ pc \in {"evict1", "evict2"}
    BY <1>4 DEF EvictFinished, metricVars, CloseAll
  <2> QED BY <2>1 DEF Silent, AwayFromPush
<1>5. CASE RowToken
  <2>1. /\ UNCHANGED <<requestVars, clientVars, completed, emitted, unstamped, rows, cur>>
        /\ pc' = "push" /\ pc = "row" /\ ~cancelled[rows[cur].req]
    BY <1>5 DEF RowToken, metricVars
  <2>2. ~cancelled[rows'[cur'].req]
    BY <2>1
  <2>3. AwayFromPush /\ pc # "closeLogprobs" /\ pc' # "closeLogprobs"
    BY <2>1 DEF AwayFromPush
  <2> QED BY <2>1, <2>2, <2>3 DEF Silent
<1>6. CASE HandleEmbedding
  <2>1. /\ pc = "dispatch" /\ incoming # <<>> /\ Job[Head(incoming)].kind = "embed"
        /\ UNCHANGED <<tokens, logprobs, cancelled, clientVars, completed, emitted, unstamped>>
    BY <1>6 DEF HandleEmbedding, metricVars
  <2>2. PICK why \in {"embed", "error"} : EndEarly(Head(incoming), why)
    BY <1>6 DEF HandleEmbedding
  <2> QED BY <2>1, <2>2, EarlyEnd
<1>7. CASE AdmitMultimodal
  <2>1. /\ pc = "dispatch" /\ incoming # <<>>
        /\ UNCHANGED <<tokens, logprobs, cancelled, clientVars, completed, emitted, unstamped>>
    BY <1>7 DEF AdmitMultimodal, metricVars
  <2>2. CASE EndEarly(Head(incoming), "error")
    BY <2>1, <2>2, EarlyEnd
  <2>3. CASE RegisterRows(<<Head(incoming)>>, "dispatch") /\ UNCHANGED <<reason, closing>>
    <3>1. pc' = "row"
      BY <2>3 DEF RegisterRows
    <3> QED BY <2>1, <2>3, <3>1 DEF Silent, AwayFromPush, requestVars
  <2> QED BY <1>7, <2>2, <2>3 DEF AdmitMultimodal
<1>8. CASE RowCancelled
  <2>1. /\ pc = "row" /\ FinishRow("cancel")
        /\ UNCHANGED <<tokens, logprobs, cancelled, clientVars, completed, emitted, unstamped>>
    BY <1>8 DEF RowCancelled, metricVars
  <2> QED BY <2>1, RowEnds
<1>9. CASE RowEos
  <2>1. /\ pc = "row" /\ FinishRow("stop")
        /\ UNCHANGED <<tokens, logprobs, cancelled, clientVars, completed, emitted, unstamped>>
    BY <1>9 DEF RowEos, metricVars
  <2> QED BY <2>1, RowEnds
<1>10. CASE PushToken
  <2>1. pc = "push" /\ UNCHANGED <<logprobs, cancelled, clientVars, completed, emitted, unstamped>>
    BY <1>10 DEF PushToken, metricVars
  <2>2. PICK x \in Request : x = rows[cur].req
    BY <2>1, CurrentRow
  <2>3. /\ x \in Open /\ reason[x] = "" /\ Job[x].kind # "embed"
        /\ tokens[x].sent = rows[cur].produced /\ tokens[x].sent < Job[x].maxTokens
    BY <2>1, <2>2, CurrentRow
  <2>4. tokens' = [tokens EXCEPT ![x] = PushItem(@)]
    BY <1>10, <2>2 DEF PushToken
  <2>5. CASE Logprobs(x)
    <3>1. pc' = "pushLogprob" /\ UNCHANGED <<rows, reason, cur>>
      BY <1>10, <2>2, <2>5 DEF PushToken
    <3> QED BY <2>1, <2>2, <2>3, <2>4, <2>5, <3>1 DEF TokenPushed
  <2>6. CASE ~Logprobs(x)
    <3>1. CountToken /\ NextRow
      BY <1>10, <2>2, <2>6 DEF PushToken
    <3>2. pc' \notin {"pushLogprob", "push", "closeLogprobs"}
      BY <2>1, <3>1, AfterRow
    <3>3. \/ reason' = reason
          \/ tokens[x].sent + 1 = Job[x].maxTokens /\ reason' = [reason EXCEPT ![x] = "length"]
      BY <2>1, <2>2, <2>3, <3>1, Counting
    <3> QED BY <2>1, <2>2, <2>3, <2>4, <2>6, <3>2, <3>3 DEF TokenPushed
  <2> QED BY <2>5, <2>6
<1>11. CASE PushLogprob
  <2>1. pc = "pushLogprob" /\ CountToken /\ NextRow /\ UNCHANGED <<tokens, cancelled, clientVars, completed, emitted, unstamped>>
    BY <1>11 DEF PushLogprob, metricVars
  <2>2. PICK x \in Request : x = rows[cur].req
    BY <2>1, CurrentRow
  <2>3. /\ x \in Open /\ reason[x] = "" /\ Job[x].kind # "embed"
        /\ tokens[x].sent = rows[cur].produced + 1
    BY <2>1, <2>2, CurrentRow
  <2>4. logprobs' = [logprobs EXCEPT ![x] = PushItem(@)]
    BY <1>11, <2>2 DEF PushLogprob
  <2>5. pc' \notin {"pushLogprob", "push", "closeLogprobs"}
    BY <2>1, AfterRow
  <2>6. \/ reason' = reason
        \/ tokens[x].sent = Job[x].maxTokens /\ reason' = [reason EXCEPT ![x] = "length"]
    BY <2>1, <2>2, <2>3, Counting
  <2> QED BY <2>1, <2>2, <2>3, <2>4, <2>5, <2>6 DEF LogprobPushed
<1>12. CASE CloseTokens
  <2>1. /\ pc = "closeTokens" /\ pc' = "closeLogprobs" /\ CountCompletion(Head(closing))
        /\ UNCHANGED <<closing, logprobs, cancelled, reason, clientVars>>
    BY <1>12 DEF CloseTokens
  <2>2. closing \in Seq(RowType) /\ closing # <<>>
    BY <2>1 DEF Core, Control, TypeOK, Loops, CloseLoop
  <2>3. Head(closing) \in RowType /\ Head(closing) = closing[1] /\ 1 \in 1 .. Len(closing)
    BY <2>2, RowsTail
  <2>4. PICK x \in Request : x = Head(closing).req
    BY <2>3 DEF RowType
  <2>5. x \in Open
    <3>1. ReqSet(ToClose) = ReqSet(closing) /\ x \in ReqSet(closing)
      BY <2>1, <2>3, <2>4 DEF ToClose, ReqSet
    <3> QED BY <3>1, PlacesSets DEF Core, Started
  <2>6. reason[x] \in IF ret = "dispatch" THEN {"embed", "error"} ELSE Ran
    BY <2>3, <2>4 DEF Core, Stages, Closed
  <2>7. completed \in Nat /\ emitted \in Nat /\ unstamped \in Nat
    BY DEF Core, Control, TypeOK
  <2>8. /\ completed' = completed + (IF reason[x] \in Ran THEN 1 ELSE 0)
        /\ emitted' = emitted + (IF reason[x] \in Ran THEN Head(closing).produced ELSE 0)
        /\ unstamped' = unstamped + (IF reason[x] \in Ran /\ Head(closing).produced = 0 THEN 1 ELSE 0)
    <3>1. CASE ret = "dispatch"
      <4>1. reason[x] \notin Ran /\ completed' = completed /\ emitted' = emitted /\ unstamped' = unstamped
        BY <2>1, <2>6, <3>1 DEF Ran, CountCompletion
      <4> QED BY <2>7, <4>1
    <3>2. CASE ret # "dispatch"
      BY <2>1, <2>6, <3>2 DEF CountCompletion
    <3> QED BY <3>1, <3>2
  <2>9. reason[x] # ""
    BY <2>6 DEF Ran
  <2>10. tokens' = [tokens EXCEPT ![x] = CloseItem(@)]
    BY <1>12, <2>4 DEF CloseTokens
  <2> QED BY <2>1, <2>4, <2>5, <2>8, <2>9, <2>10 DEF StreamClosed
<1>13. CASE CloseLogprobs
  <2>1. pc = "closeLogprobs" /\ UNCHANGED <<tokens, cancelled, reason, clientVars, completed, emitted, unstamped>>
    BY <1>13 DEF CloseLogprobs, metricVars
  <2>2. /\ closing \in Seq(RowType) /\ closing # <<>>
        /\ ret \in {"dispatch", "decode", "top", "publish"}
    BY <2>1 DEF Core, Control, TypeOK, Loops, CloseLoop
  <2>3. PICK x \in Request : x = Head(closing).req
    BY <2>2, RowsTail DEF RowType
  <2>4. logprobs' = [logprobs EXCEPT ![x] = CloseItem(@)]
    BY <1>13, <2>3 DEF CloseLogprobs
  <2>5. pc' \notin {"pushLogprob", "push", "closeLogprobs"}
    BY <1>13, <2>2 DEF CloseLogprobs, CloseAll
  <2> QED BY <2>1, <2>3, <2>4, <2>5 DEF LogprobsClosed
<1> QED BY <1>1, <1>2, <1>3, <1>4, <1>5, <1>6, <1>7, <1>8, <1>9, <1>10, <1>11, <1>12, <1>13 DEF Worker

-----------------------------------------------------------------------------
(* The queues of a request: no more is taken than was put in, and the log-prob
   queue is closed after the token queue.                                  *)
Queues ==
    /\ \A r \in Request : /\ tokens[r].got <= tokens[r].sent
                          /\ logprobs[r].closed => tokens[r].closed
    /\ pc = "closeLogprobs" => tokens[Head(closing).req].closed

(* The threads of the requests leave the worker where it is.               *)
LEMMA CallersLeaveWorker ==
    ASSUME \/ \E r \in Request : Submit(r) \/ Cancel(r) \/ Free(r) \/ Client(r)
           \/ Stop \/ UNCHANGED vars \/ Terminated
    PROVE  UNCHANGED <<workerVars, reason>>
<1>1. CASE \E r \in Request : Submit(r) \/ Cancel(r) \/ Free(r)
  BY <1>1 DEF Submit, Cancel, Free, requestVars
<1>2. CASE \E r \in Request : Client(r)
  BY <1>2 DEF Client, PopToken, PopLogprob, PopEnd, SendFrame, SendFails, requestVars
<1>3. CASE Stop \/ UNCHANGED vars \/ Terminated
  BY <1>3 DEF Stop, Terminated, vars, requestVars
<1> QED BY <1>1, <1>2, <1>3

(* What a request's thread does to the queues.                             *)
LEMMA CallersAndQueues ==
    ASSUME Core,
           \/ \E r \in Request : Submit(r) \/ Cancel(r) \/ Free(r) \/ Client(r)
           \/ Stop \/ UNCHANGED vars \/ Terminated
    PROVE  \/ UNCHANGED <<tokens, logprobs>>
           \/ \E r \in Request : PopToken(r) \/ PopLogprob(r)
<1>1. CASE \E r \in Request : Submit(r) \/ Cancel(r) \/ Free(r)
  BY <1>1 DEF Submit, Cancel, Free, requestVars
<1>2. CASE \E r \in Request : PopEnd(r) \/ SendFrame(r) \/ SendFails(r)
  BY <1>2 DEF PopEnd, SendFrame, SendFails, requestVars
<1>3. CASE Stop \/ UNCHANGED vars \/ Terminated
  BY <1>3 DEF Stop, Terminated, vars, requestVars
<1> QED BY <1>1, <1>2, <1>3 DEF Client

(* Only the worker pushes and closes.                                      *)
LEMMA CallersKeepSent ==
    ASSUME Core,
           \/ \E r \in Request : Submit(r) \/ Cancel(r) \/ Free(r) \/ Client(r)
           \/ Stop \/ UNCHANGED vars \/ Terminated
    PROVE  \A r \in Request : tokens'[r].sent = tokens[r].sent /\ tokens'[r].closed = tokens[r].closed
<1>0. tokens \in [Request -> QueueType]
  BY DEF Core, Control, TypeOK
<1>1. CASE UNCHANGED <<tokens, logprobs>>
  BY <1>1
<1>2. ASSUME NEW q \in Request, PopLogprob(q) PROVE tokens' = tokens
  BY <1>2 DEF PopLogprob
<1>3. ASSUME NEW q \in Request, PopToken(q), NEW r \in Request
      PROVE  tokens'[r].sent = tokens[r].sent /\ tokens'[r].closed = tokens[r].closed
  <2>1. tokens' = [tokens EXCEPT ![q] = PopItem(@)]
    BY <1>3 DEF PopToken
  <2>2. tokens'[r] = tokens[r] \/ tokens'[r] = PopItem(tokens[r])
    BY <1>0, <2>1
  <2> QED BY <1>0, <2>2, QueueTypes
<1> QED BY <1>1, <1>2, <1>3, CallersAndQueues

(* Nothing has been pushed, popped or closed at first.                   *)
LEMMA QueuesInit == Init => Queues
<1> SUFFICES ASSUME Init PROVE Queues
  OBVIOUS
<1>1. \A r \in Request : /\ tokens[r].got = 0 /\ tokens[r].sent = 0 /\ ~logprobs[r].closed
  BY DEF Init, EmptyQueue
<1>2. pc # "closeLogprobs"
  BY DEF Init
<1> QED BY <1>1, <1>2 DEF Queues

(* No step pops what was not pushed, or closes log-probs before tokens.  *)
LEMMA QueuesStep == Core /\ Queues /\ [Next]_vars => Queues'
<1> SUFFICES ASSUME Core, Queues, [Next]_vars PROVE Queues'
  OBVIOUS
<1>0. tokens \in [Request -> QueueType] /\ logprobs \in [Request -> QueueType]
  BY DEF Core, Control, TypeOK
<1>a. \A r \in Request : /\ tokens[r] \in QueueType /\ logprobs[r] \in QueueType
                         /\ tokens[r].sent \in Nat /\ tokens[r].got \in Nat
                         /\ tokens[r].got <= tokens[r].sent
                         /\ logprobs[r].closed => tokens[r].closed
  BY <1>0, QueueTypes DEF Queues
<1>1. CASE Worker
  <2>1. CASE Silent
    BY <2>1 DEF Queues, Silent, requestVars
  <2>2. ASSUME NEW x \in Request, Decided(x) PROVE Queues'
    BY <2>2 DEF Queues, Decided
  <2>3. ASSUME NEW x \in Request, TokenPushed(x) PROVE Queues'
    <3>1. /\ tokens' = [tokens EXCEPT ![x] = PushItem(@)] /\ pc' # "closeLogprobs"
          /\ logprobs' = logprobs
      BY <2>3 DEF TokenPushed
    <3>2. /\ tokens'[x] = PushItem(tokens[x]) /\ \A r \in Request : r # x => tokens'[r] = tokens[r]
      BY <1>0, <3>1
    <3>3. tokens'[x].got <= tokens'[x].sent /\ tokens'[x].closed = tokens[x].closed
      BY <1>a, <3>2, QueueTypes
    <3> QED BY <1>a, <3>1, <3>2, <3>3 DEF Queues
  <2>4. ASSUME NEW x \in Request, LogprobPushed(x) PROVE Queues'
    <3>1. /\ logprobs' = [logprobs EXCEPT ![x] = PushItem(@)] /\ pc' # "closeLogprobs"
          /\ tokens' = tokens
      BY <2>4 DEF LogprobPushed
    <3>2. /\ logprobs'[x] = PushItem(logprobs[x])
          /\ \A r \in Request : r # x => logprobs'[r] = logprobs[r]
      BY <1>0, <3>1
    <3>3. logprobs'[x].closed = logprobs[x].closed
      BY <1>a, <3>2, QueueTypes
    <3> QED BY <1>a, <3>1, <3>2, <3>3 DEF Queues
  <2>5. ASSUME NEW x \in Request, StreamClosed(x) PROVE Queues'
    <3>1. /\ tokens' = [tokens EXCEPT ![x] = CloseItem(@)] /\ Head(closing').req = x
          /\ logprobs' = logprobs
      BY <2>5 DEF StreamClosed
    <3>2. /\ tokens'[x] = CloseItem(tokens[x]) /\ \A r \in Request : r # x => tokens'[r] = tokens[r]
      BY <1>0, <3>1
    <3>3. /\ tokens'[x].got = tokens[x].got /\ tokens'[x].sent = tokens[x].sent /\ tokens'[x].closed
      BY <1>a, <3>2, QueueTypes
    <3> QED BY <1>a, <3>1, <3>2, <3>3 DEF Queues
  <2>6. ASSUME NEW x \in Request, LogprobsClosed(x) PROVE Queues'
    <3>1. /\ logprobs' = [logprobs EXCEPT ![x] = CloseItem(@)] /\ pc' # "closeLogprobs"
          /\ tokens' = tokens /\ tokens[x].closed
      BY <2>6 DEF LogprobsClosed, Queues
    <3>2. \A r \in Request : r # x => logprobs'[r] = logprobs[r]
      BY <1>0, <3>1
    <3> QED BY <1>a, <3>1, <3>2 DEF Queues
  <2> QED BY <1>1, <2>1, <2>2, <2>3, <2>4, <2>5, <2>6, WorkerSteps
<1>2. CASE ~Worker
  <2>0. \/ \E r \in Request : Submit(r) \/ Cancel(r) \/ Free(r) \/ Client(r)
        \/ Stop \/ UNCHANGED vars \/ Terminated
    BY <1>2 DEF Next
  <2>1. UNCHANGED <<pc, closing>>
    BY <2>0, CallersLeaveWorker DEF workerVars, loopVars
  <2>2. CASE UNCHANGED <<tokens, logprobs>>
    BY <2>1, <2>2 DEF Queues
  <2>3. ASSUME NEW x \in Request, PopToken(x) PROVE Queues'
    <3>1. tokens' = [tokens EXCEPT ![x] = PopItem(@)] /\ logprobs' = logprobs
      BY <2>3 DEF PopToken
    <3>2. tokens'[x] = PopItem(tokens[x]) /\ \A r \in Request : r # x => tokens'[r] = tokens[r]
      BY <1>0, <3>1
    <3>3. tokens'[x].got <= tokens'[x].sent /\ tokens'[x].closed = tokens[x].closed
      BY <1>a, <3>2, QueueTypes
    <3>4. \A r \in Request : tokens'[r].closed = tokens[r].closed
      BY <3>2, <3>3
    <3>5. pc = "closeLogprobs" => Head(closing).req \in Request
      <4>1. closing \in Seq(RowType) /\ (pc = "closeLogprobs" => closing # <<>>)
        BY DEF Core, Control, TypeOK, Loops, CloseLoop
      <4> QED BY <4>1, RowsTail DEF RowType
    <3> QED BY <1>a, <2>1, <3>1, <3>2, <3>3, <3>4, <3>5 DEF Queues
  <2>4. ASSUME NEW x \in Request, PopLogprob(x) PROVE Queues'
    <3>1. logprobs' = [logprobs EXCEPT ![x] = PopItem(@)] /\ tokens' = tokens
      BY <2>4 DEF PopLogprob
    <3>2. logprobs'[x] = PopItem(logprobs[x]) /\ \A r \in Request : r # x => logprobs'[r] = logprobs[r]
      BY <1>0, <3>1
    <3>3. logprobs'[x].closed = logprobs[x].closed
      BY <1>a, <3>2, QueueTypes
    <3> QED BY <1>a, <2>1, <3>1, <3>2, <3>3 DEF Queues
  <2> QED BY <2>0, <2>2, <2>3, <2>4, CallersAndQueues
<1> QED BY <1>1, <1>2

-----------------------------------------------------------------------------
(* Log-probs in lockstep with tokens, on both sides of the queues.         *)
LEMMA LockstepInit == Init => LogprobLockstep
<1> SUFFICES ASSUME Init, NEW r \in Request
             PROVE  /\ tokens[r].sent - logprobs[r].sent =
                         IF pc = "pushLogprob" /\ rows[cur].req = r THEN 1 ELSE 0
                    /\ tokens[r].got - logprobs[r].got =
                         IF client[r] \in {"readLogprob", "drainLogprob"} THEN 1 ELSE 0
  BY DEF LogprobLockstep
<1>1. /\ tokens[r].sent = 0 /\ logprobs[r].sent = 0 /\ tokens[r].got = 0 /\ logprobs[r].got = 0
      /\ pc # "pushLogprob" /\ client[r] = "new"
  BY DEF Init, EmptyQueue
<1> QED BY <1>1

(* Between its two pushes the worker is one token ahead, between its two
   pops the caller is; every other step moves both or neither.           *)
LEMMA LockstepStep == Core /\ Queues /\ LogprobLockstep /\ [Next]_vars => LogprobLockstep'
<1> SUFFICES ASSUME Core, Queues, LogprobLockstep, [Next]_vars, NEW r \in Request, PopsLogprobs(r)
             PROVE  /\ tokens'[r].sent - logprobs'[r].sent =
                         IF pc' = "pushLogprob" /\ rows'[cur'].req = r THEN 1 ELSE 0
                    /\ tokens'[r].got - logprobs'[r].got =
                         IF client'[r] \in {"readLogprob", "drainLogprob"} THEN 1 ELSE 0
  BY DEF LogprobLockstep
<1> DEFINE at == pc = "pushLogprob" /\ rows[cur].req = r
           half(p) == p \in {"readLogprob", "drainLogprob"}
<1>0. /\ tokens \in [Request -> QueueType] /\ logprobs \in [Request -> QueueType]
      /\ client \in [Request -> ClientPC]
  BY DEF Core, Control, TypeOK
<1>a. /\ tokens[r] \in QueueType /\ logprobs[r] \in QueueType
      /\ tokens[r].sent \in Nat /\ tokens[r].got \in Nat /\ tokens[r].got <= tokens[r].sent
      /\ logprobs[r].sent \in Nat /\ logprobs[r].got \in Nat
      /\ logprobs[r].closed => tokens[r].closed
  BY <1>0, QueueTypes DEF Queues
<1>b. /\ tokens[r].sent - logprobs[r].sent = IF at THEN 1 ELSE 0
      /\ tokens[r].got - logprobs[r].got = IF half(client[r]) THEN 1 ELSE 0
  BY DEF LogprobLockstep
<1>c. \A x \in Open : x \in Request /\ ~tokens[x].closed
  BY DEF Open, Ended
<1>d. ASSUME tokens'[r].sent = tokens[r].sent, tokens'[r].got = tokens[r].got,
             logprobs'[r].sent = logprobs[r].sent, logprobs'[r].got = logprobs[r].got,
             client' = client, at' <=> at
      PROVE  /\ tokens'[r].sent - logprobs'[r].sent = IF at' THEN 1 ELSE 0
             /\ tokens'[r].got - logprobs'[r].got = IF half(client'[r]) THEN 1 ELSE 0
  BY <1>b, <1>d
<1>1. CASE Worker
  <2>1. CASE Silent
    <3>1. UNCHANGED <<tokens, logprobs, client>> /\ ~at /\ ~at'
      BY <2>1 DEF Silent, AwayFromPush, requestVars, clientVars
    <3> QED BY <1>d, <3>1
  <2>2. ASSUME NEW x \in Request, Decided(x)
        PROVE  UNCHANGED <<tokens, logprobs, client>> /\ ~at /\ ~at'
    BY <2>2 DEF Decided, AwayFromPush, clientVars
  <2>3. ASSUME NEW x \in Request, TokenPushed(x)
        PROVE  /\ tokens'[r].sent - logprobs'[r].sent = IF at' THEN 1 ELSE 0
               /\ tokens'[r].got - logprobs'[r].got = IF half(client'[r]) THEN 1 ELSE 0
    <3>1. /\ tokens' = [tokens EXCEPT ![x] = PushItem(@)] /\ UNCHANGED <<logprobs, client>>
          /\ ~at /\ ~tokens[x].closed
      BY <1>c, <2>3 DEF TokenPushed, clientVars
    <3>2. CASE x = r
      <4>1. Logprobs(r)
        BY DEF PopsLogprobs
      <4>2. at'
        BY <2>3, <3>2, <4>1 DEF TokenPushed
      <4>3. tokens'[r] = PushItem(tokens[r])
        BY <1>0, <3>1, <3>2
      <4>4. tokens'[r].sent = tokens[r].sent + 1 /\ tokens'[r].got = tokens[r].got
        BY <1>a, <3>1, <3>2, <4>3, QueueTypes
      <4> QED BY <1>a, <1>b, <3>1, <4>2, <4>4
    <3>3. CASE x # r
      <4>1. tokens'[r] = tokens[r]
        BY <1>0, <3>1, <3>3
      <4>2. ~at'
        BY <2>3, <3>3 DEF TokenPushed
      <4> QED BY <1>d, <3>1, <4>1, <4>2
    <3> QED BY <3>2, <3>3
  <2>4. ASSUME NEW x \in Request, LogprobPushed(x)
        PROVE  /\ tokens'[r].sent - logprobs'[r].sent = IF at' THEN 1 ELSE 0
               /\ tokens'[r].got - logprobs'[r].got = IF half(client'[r]) THEN 1 ELSE 0
    <3>1. /\ logprobs' = [logprobs EXCEPT ![x] = PushItem(@)] /\ UNCHANGED <<tokens, client>>
          /\ ~at' /\ ~tokens[x].closed
      BY <1>c, <2>4 DEF LogprobPushed, clientVars
    <3>2. CASE x = r
      <4>1. at
        BY <2>4, <3>2 DEF LogprobPushed
      <4>2. logprobs'[r] = PushItem(logprobs[r]) /\ ~logprobs[r].closed
        BY <1>0, <1>a, <3>1, <3>2
      <4>3. logprobs'[r].sent = logprobs[r].sent + 1 /\ logprobs'[r].got = logprobs[r].got
        BY <1>a, <4>2, QueueTypes
      <4> QED BY <1>a, <1>b, <3>1, <4>1, <4>3
    <3>3. CASE x # r
      <4>1. logprobs'[r] = logprobs[r]
        BY <1>0, <3>1, <3>3
      <4>2. ~at
        BY <2>4, <3>3 DEF LogprobPushed
      <4> QED BY <1>d, <3>1, <4>1, <4>2
    <3> QED BY <3>2, <3>3
  <2>5. ASSUME NEW x \in Request, StreamClosed(x)
        PROVE  /\ tokens'[r].sent - logprobs'[r].sent = IF at' THEN 1 ELSE 0
               /\ tokens'[r].got - logprobs'[r].got = IF half(client'[r]) THEN 1 ELSE 0
    <3>1. /\ tokens' = [tokens EXCEPT ![x] = CloseItem(@)] /\ UNCHANGED <<logprobs, client>>
          /\ ~at' /\ ~at
      BY <2>5 DEF StreamClosed, clientVars
    <3>2. tokens'[r] = tokens[r] \/ tokens'[r] = CloseItem(tokens[r])
      BY <1>0, <3>1
    <3>3. tokens'[r].sent = tokens[r].sent /\ tokens'[r].got = tokens[r].got
      BY <1>a, <3>2, QueueTypes
    <3> QED BY <1>d, <3>1, <3>3
  <2>6. ASSUME NEW x \in Request, LogprobsClosed(x)
        PROVE  /\ tokens'[r].sent - logprobs'[r].sent = IF at' THEN 1 ELSE 0
               /\ tokens'[r].got - logprobs'[r].got = IF half(client'[r]) THEN 1 ELSE 0
    <3>1. /\ logprobs' = [logprobs EXCEPT ![x] = CloseItem(@)] /\ UNCHANGED <<tokens, client>>
          /\ ~at' /\ ~at
      BY <2>6 DEF LogprobsClosed, clientVars
    <3>2. logprobs'[r] = logprobs[r] \/ logprobs'[r] = CloseItem(logprobs[r])
      BY <1>0, <3>1
    <3>3. logprobs'[r].sent = logprobs[r].sent /\ logprobs'[r].got = logprobs[r].got
      BY <1>a, <3>2, QueueTypes
    <3> QED BY <1>d, <3>1, <3>3
  <2> QED BY <1>1, <1>d, <2>1, <2>2, <2>3, <2>4, <2>5, <2>6, WorkerSteps
<1>2. CASE ~Worker
  <2>0. \/ \E q \in Request : Submit(q) \/ Cancel(q) \/ Free(q) \/ Client(q)
        \/ Stop \/ UNCHANGED vars \/ Terminated
    BY <1>2 DEF Next
  <2>1. UNCHANGED <<pc, rows, cur>>
    BY <2>0, CallersLeaveWorker DEF workerVars, loopVars
  <2>2. at' <=> at
    BY <2>1
  <2>a. ASSUME tokens' = tokens, logprobs' = logprobs, half(client'[r]) <=> half(client[r])
        PROVE  /\ tokens'[r].sent - logprobs'[r].sent = IF at' THEN 1 ELSE 0
               /\ tokens'[r].got - logprobs'[r].got = IF half(client'[r]) THEN 1 ELSE 0
    BY <1>b, <2>2, <2>a
  <2>3. CASE Stop \/ UNCHANGED vars \/ Terminated
    <3>1. UNCHANGED <<tokens, logprobs, client>>
      BY <2>3 DEF Stop, Terminated, vars, requestVars, clientVars
    <3> QED BY <2>a, <3>1
  <2>4. ASSUME NEW q \in Request,
               Submit(q) \/ Cancel(q) \/ Free(q) \/ PopEnd(q) \/ SendFrame(q) \/ SendFails(q)
        PROVE  tokens' = tokens /\ logprobs' = logprobs /\ (half(client'[r]) <=> half(client[r]))
    <3>1. CASE Cancel(q)
      BY <3>1 DEF Cancel
    <3>2. CASE ~Cancel(q)
      <4>1. /\ tokens' = tokens /\ logprobs' = logprobs
            /\ ~half(client[q])
            /\ \E to \in {"rejected", "sending", "reading", "draining", "done", "gone"} :
                  client' = [client EXCEPT ![q] = to]
        BY <2>4, <3>2 DEF Submit, Free, PopEnd, SendFrame, SendFails, requestVars
      <4> QED BY <1>0, <4>1
    <3> QED BY <3>1, <3>2
  <2>5. ASSUME NEW q \in Request, PopToken(q)
        PROVE  /\ tokens'[r].sent - logprobs'[r].sent = IF at' THEN 1 ELSE 0
               /\ tokens'[r].got - logprobs'[r].got = IF half(client'[r]) THEN 1 ELSE 0
    <3>1. /\ tokens' = [tokens EXCEPT ![q] = PopItem(@)] /\ logprobs' = logprobs
          /\ HasItem(tokens[q]) /\ client[q] \in {"reading", "draining"}
          /\ \A o \in Request : o # q => client'[o] = client[o]
      BY <1>0, <2>5 DEF PopToken
    <3>2. CASE q = r
      <4>1. tokens'[r] = PopItem(tokens[r]) /\ tokens[r].got < tokens[r].sent
        BY <1>0, <3>1, <3>2 DEF HasItem
      <4>2. tokens'[r].sent = tokens[r].sent /\ tokens'[r].got = tokens[r].got + 1
        BY <1>a, <4>1, QueueTypes
      <4>3. half(client'[r]) /\ ~half(client[r])
        <5>1. client' = [client EXCEPT ![r] = IF @ = "reading" THEN "readLogprob" ELSE "drainLogprob"]
          BY <2>5, <3>2 DEF PopToken
        <5> QED BY <1>0, <3>1, <3>2, <5>1
      <4> QED BY <1>a, <1>b, <2>2, <3>1, <4>2, <4>3
    <3>3. CASE q # r
      <4>1. tokens'[r] = tokens[r] /\ client'[r] = client[r]
        BY <1>0, <3>1, <3>3
      <4> QED BY <1>b, <2>2, <3>1, <4>1
    <3> QED BY <3>2, <3>3
  <2>6. ASSUME NEW q \in Request, PopLogprob(q)
        PROVE  /\ tokens'[r].sent - logprobs'[r].sent = IF at' THEN 1 ELSE 0
               /\ tokens'[r].got - logprobs'[r].got = IF half(client'[r]) THEN 1 ELSE 0
    <3>1. /\ logprobs' = [logprobs EXCEPT ![q] = PopItem(@)] /\ tokens' = tokens
          /\ HasItem(logprobs[q]) \/ logprobs[q].closed
          /\ half(client[q])
          /\ client' = [client EXCEPT ![q] = Handled(q, @)]
      BY <2>6 DEF PopLogprob
    <3>2. CASE q = r
      (* The record is there: its token was popped before it.               *)
      <4>1. logprobs[r].got < logprobs[r].sent
        <5>1. CASE at
          <6>1. r \in Open
            BY <5>1, CurrentRow
          <6>2. ~logprobs[r].closed
            BY <1>a, <1>c, <6>1
          <6> QED BY <3>1, <3>2, <6>2 DEF HasItem
        <5>2. CASE ~at
          BY <1>a, <1>b, <3>1, <3>2, <5>2
        <5> QED BY <5>1, <5>2
      <4>2. logprobs'[r] = PopItem(logprobs[r])
        BY <1>0, <3>1, <3>2
      <4>3. logprobs'[r].sent = logprobs[r].sent /\ logprobs'[r].got = logprobs[r].got + 1
        BY <1>a, <4>1, <4>2, QueueTypes
      <4>4. ~half(client'[r])
        BY <1>0, <3>1, <3>2 DEF Handled
      <4> QED BY <1>a, <1>b, <2>2, <3>1, <3>2, <4>3, <4>4
    <3>3. CASE q # r
      <4>1. logprobs'[r] = logprobs[r] /\ client'[r] = client[r]
        BY <1>0, <3>1, <3>3
      <4> QED BY <1>b, <2>2, <3>1, <4>1
    <3> QED BY <3>2, <3>3
  <2> QED BY <2>0, <2>a, <2>3, <2>4, <2>5, <2>6 DEF Client
<1> QED BY <1>1, <1>2

(* The log-prob a caller pops after its n-th token is the n-th one: the two
   queues of a request are filled and emptied in step, whichever of the two
   threads is ahead.                                                       *)
THEOREM LogprobsMatchTokens == Spec => []LogprobLockstep
<1>1. Init => Queues /\ LogprobLockstep
  BY QueuesInit, LockstepInit
<1>2. Core /\ (Queues /\ LogprobLockstep) /\ [Next]_vars => (Queues /\ LogprobLockstep)'
  BY QueuesStep, LockstepStep
<1> QED BY <1>1, <1>2, CoreInvariant, PTL DEF Spec

-----------------------------------------------------------------------------
(* Cancellation.  Past its check of cancelled and before the push the worker
   has not yet pushed a token since cancelled was set.                     *)
Prompt ==
    /\ CancelIsPrompt
    /\ \A r \in Request :
          cancelled[r] /\ pc = "push" /\ rows[cur].req = r => tokens[r].sent <= atCancel[r]

(* Once cancelled is set a request gets at most the one token the worker
   had already decided to push.                                          *)
LEMMA PromptStep == Core /\ Prompt /\ [Next]_vars => Prompt'
<1> SUFFICES ASSUME Core, Prompt, [Next]_vars, NEW r \in Request, cancelled'[r]
             PROVE  /\ tokens'[r].sent <= atCancel'[r] + 1
                    /\ pc' = "push" /\ rows'[cur'].req = r => tokens'[r].sent <= atCancel'[r]
  BY DEF Prompt, CancelIsPrompt
<1>0. /\ tokens \in [Request -> QueueType] /\ cancelled \in [Request -> BOOLEAN]
      /\ atCancel \in [Request -> Int]
  BY DEF Core, Control, TypeOK
<1>a. tokens[r] \in QueueType /\ tokens[r].sent \in Nat /\ atCancel[r] \in Int
  BY <1>0, QueueTypes
<1>b. cancelled[r] => /\ tokens[r].sent <= atCancel[r] + 1
                      /\ pc = "push" /\ rows[cur].req = r => tokens[r].sent <= atCancel[r]
  BY DEF Prompt, CancelIsPrompt
<1>1. CASE Worker
  <2>0. cancelled[r] /\ atCancel' = atCancel
    BY <1>1, WorkerSteps DEF Silent, Decided, TokenPushed, LogprobPushed, StreamClosed,
                             LogprobsClosed, requestVars, clientVars
  <2>1. CASE Silent
    <3>1. tokens' = tokens /\ ~(pc' = "push" /\ rows'[cur'].req = r)
      BY <2>0, <2>1 DEF Silent, requestVars
    <3> QED BY <1>b, <2>0, <3>1
  <2>2. ASSUME NEW x \in Request, TokenPushed(x)
        PROVE  tokens'[r].sent <= atCancel[r] + 1 /\ pc' # "push"
    <3>1. /\ tokens' = [tokens EXCEPT ![x] = PushItem(@)] /\ pc' # "push"
          /\ pc = "push" /\ rows[cur].req = x
      BY <2>2 DEF TokenPushed
    <3>2. CASE x = r
      <4>1. tokens[r].sent <= atCancel[r]
        BY <1>b, <2>0, <3>1, <3>2
      <4>2. tokens'[r] = PushItem(tokens[r])
        BY <1>0, <3>1, <3>2
      <4>3. tokens'[r].sent = tokens[r].sent \/ tokens'[r].sent = tokens[r].sent + 1
        BY <1>a, <4>2, QueueTypes
      <4> QED BY <1>a, <3>1, <4>1, <4>3
    <3>3. CASE x # r
      BY <1>0, <1>b, <2>0, <3>1, <3>3
    <3> QED BY <3>2, <3>3
  <2>3. ASSUME NEW x \in Request, Decided(x) \/ LogprobPushed(x) \/ LogprobsClosed(x)
        PROVE  tokens' = tokens /\ pc' # "push"
    BY <2>3 DEF Decided, LogprobPushed, LogprobsClosed
  <2>4. ASSUME NEW x \in Request, StreamClosed(x)
        PROVE  tokens'[r].sent = tokens[r].sent /\ pc' # "push"
    <3>1. tokens' = [tokens EXCEPT ![x] = CloseItem(@)] /\ pc' # "push"
      BY <2>4 DEF StreamClosed
    <3>2. tokens'[r] = tokens[r] \/ tokens'[r] = CloseItem(tokens[r])
      BY <1>0, <3>1
    <3> QED BY <1>a, <3>1, <3>2, QueueTypes
  <2> QED BY <1>1, <1>b, <2>0, <2>1, <2>2, <2>3, <2>4, WorkerSteps
<1>2. CASE ~Worker
  <2>0. \/ \E q \in Request : Submit(q) \/ Cancel(q) \/ Free(q) \/ Client(q)
        \/ Stop \/ UNCHANGED vars \/ Terminated
    BY <1>2 DEF Next
  <2>1. UNCHANGED <<pc, rows, cur>>
    BY <2>0, CallersLeaveWorker DEF workerVars, loopVars
  <2>2. tokens'[r].sent = tokens[r].sent
    BY <2>0, CallersKeepSent
  <2>3. \/ UNCHANGED <<cancelled, atCancel>>
        \/ \E q \in Request : SetCancelled(q)
    <3>1. CASE \E q \in Request : Cancel(q) \/ Free(q) \/ SendFails(q)
      BY <3>1 DEF Cancel, Free, SendFails
    <3>2. CASE \E q \in Request : Submit(q) \/ PopToken(q) \/ PopLogprob(q) \/ PopEnd(q) \/ SendFrame(q)
      BY <3>2 DEF Submit, PopToken, PopLogprob, PopEnd, SendFrame, requestVars
    <3>3. CASE Stop \/ UNCHANGED vars \/ Terminated
      BY <3>3 DEF Stop, Terminated, vars, requestVars, clientVars
    <3> QED BY <2>0, <3>1, <3>2, <3>3 DEF Client
  <2>4. CASE UNCHANGED <<cancelled, atCancel>>
    BY <1>b, <2>1, <2>2, <2>4
  <2>5. ASSUME NEW q \in Request, SetCancelled(q)
        PROVE  \/ cancelled[r] /\ atCancel'[r] = atCancel[r]
               \/ atCancel'[r] = tokens[r].sent
    <3>1. CASE cancelled[q]
      <4>1. atCancel' = atCancel /\ cancelled' = [cancelled EXCEPT ![q] = TRUE]
        BY <2>5, <3>1 DEF SetCancelled
      <4>2. q = r \/ cancelled'[r] = cancelled[r]
        BY <1>0, <4>1
      <4> QED BY <3>1, <4>1, <4>2
    <3>2. CASE ~cancelled[q]
      <4>1. /\ atCancel' = [atCancel EXCEPT ![q] = tokens[q].sent]
            /\ cancelled' = [cancelled EXCEPT ![q] = TRUE]
        BY <2>5, <3>2 DEF SetCancelled
      <4>2. CASE q = r
        BY <1>0, <4>1, <4>2
      <4>3. CASE q # r
        <5>1. atCancel'[r] = atCancel[r]
          BY <1>0, <4>1, <4>3
        <5>2. cancelled'[r] = cancelled[r]
          BY <1>0, <4>1, <4>3
        <5> QED BY <5>1, <5>2
      <4> QED BY <4>2, <4>3
    <3> QED BY <3>1, <3>2
  <2>6. CASE cancelled[r] /\ atCancel'[r] = atCancel[r]
    BY <1>b, <2>1, <2>2, <2>6
  <2>7. CASE atCancel'[r] = tokens[r].sent
    BY <1>a, <2>2, <2>7
  <2> QED BY <2>3, <2>4, <2>5, <2>6, <2>7
<1> QED BY <1>1, <1>2

(* Cancelling, freeing a handle or losing the connection stops a request after
   at most one more token, wherever the worker is when the flag is set.    *)
THEOREM CancelStopsTheStream == Spec => []CancelIsPrompt
<1>1. Init => Prompt
  BY DEF Init, Prompt, CancelIsPrompt
<1>2. Core /\ Prompt /\ [Next]_vars => Prompt'
  BY PromptStep
<1>3. Prompt => CancelIsPrompt
  BY DEF Prompt
<1> QED BY <1>1, <1>2, <1>3, CoreInvariant, PTL DEF Spec

-----------------------------------------------------------------------------
(* The count of completed requests.                                        *)
Completions == IsFiniteSet(CompletedRequests) /\ CompletedExact

(* Closing the tokens of a request that ran is what counts it, and it
   happens once.                                                         *)
LEMMA CompletionsStep == Core /\ Completions /\ [Next]_vars => Completions'
<1> SUFFICES ASSUME Core, Completions, [Next]_vars PROVE Completions'
  OBVIOUS
<1> DEFINE Done(r) == Ended(r) /\ reason[r] \in Ran
           D == {r \in Request : Done(r)}
<1>0. tokens \in [Request -> QueueType] /\ reason \in [Request -> Reasons] /\ completed \in Nat
  BY DEF Core, Control, TypeOK
<1>a. D = CompletedRequests /\ D' = CompletedRequests'
  BY DEF CompletedRequests, Ran
<1>b. IsFiniteSet(D) /\ completed = Cardinality(D)
  BY <1>a DEF Completions, CompletedExact
<1>c. ASSUME completed' = completed, \A r \in Request : tokens'[r].closed = tokens[r].closed,
             \A r \in Request : tokens[r].closed => reason'[r] = reason[r]
      PROVE  Completions'
  <2>1. D' = D
    BY <1>c DEF Ended
  <2> QED BY <1>a, <1>b, <1>c, <2>1 DEF Completions, CompletedExact
<1>1. CASE Worker
  <2>1. CASE Silent
    BY <1>c, <2>1 DEF Silent, requestVars
  <2>2. ASSUME NEW x \in Request, Decided(x) \/ LogprobPushed(x) PROVE Completions'
    <3>1. completed' = completed /\ tokens' = tokens /\ ~tokens[x].closed
      BY <2>2 DEF Decided, LogprobPushed, Open, Ended
    <3>2. reason' = reason \/ \E w : reason' = [reason EXCEPT ![x] = w]
      BY <2>2 DEF Decided, LogprobPushed
    <3>3. \A r \in Request : r # x => reason'[r] = reason[r]
      BY <1>0, <3>2
    <3> QED BY <1>c, <3>1, <3>3
  <2>3. ASSUME NEW x \in Request, TokenPushed(x) PROVE Completions'
    <3>1. /\ completed' = completed /\ tokens' = [tokens EXCEPT ![x] = PushItem(@)]
          /\ ~tokens[x].closed
      BY <2>3 DEF TokenPushed, Open, Ended
    <3>2. reason' = reason \/ \E w : reason' = [reason EXCEPT ![x] = w]
      BY <2>3 DEF TokenPushed
    <3>3. \A r \in Request : r # x => reason'[r] = reason[r]
      BY <1>0, <3>2
    <3>4. \A r \in Request : tokens'[r] = tokens[r] \/ tokens'[r] = PushItem(tokens[r])
      BY <1>0, <3>1
    <3>5. \A r \in Request : tokens'[r].closed = tokens[r].closed
      BY <1>0, <3>4, QueueTypes
    <3> QED BY <1>c, <3>1, <3>3, <3>5
  <2>4. ASSUME NEW x \in Request, LogprobsClosed(x) PROVE Completions'
    BY <1>c, <2>4 DEF LogprobsClosed
  <2>5. ASSUME NEW x \in Request, StreamClosed(x) PROVE Completions'
    <3>1. /\ completed' = completed + (IF reason[x] \in Ran THEN 1 ELSE 0)
          /\ tokens' = [tokens EXCEPT ![x] = CloseItem(@)] /\ reason' = reason
          /\ ~tokens[x].closed
      BY <2>5 DEF StreamClosed, Open, Ended
    <3>2. tokens'[x] = CloseItem(tokens[x]) /\ \A r \in Request : r # x => tokens'[r] = tokens[r]
      BY <1>0, <3>1
    <3>3. tokens'[x].closed
      BY <1>0, <3>2, QueueTypes
    <3>4. x \notin D
      BY <3>1 DEF Ended
    <3>5. D' = IF reason[x] \in Ran THEN D \cup {x} ELSE D
      BY <3>1, <3>2, <3>3 DEF Ended
    <3> HIDE DEF D
    <3>6. CASE reason[x] \in Ran
      <4>1. IsFiniteSet(D \cup {x}) /\ Cardinality(D \cup {x}) = Cardinality(D) + 1
        BY <1>b, <3>4, FS_AddElement
      <4> QED BY <1>a, <1>b, <3>1, <3>5, <3>6, <4>1 DEF Completions, CompletedExact
    <3>7. CASE reason[x] \notin Ran
      BY <1>0, <1>a, <1>b, <3>1, <3>5, <3>7 DEF Completions, CompletedExact
    <3> QED BY <3>6, <3>7
  <2> QED BY <1>1, <2>1, <2>2, <2>3, <2>4, <2>5, WorkerSteps
<1>2. CASE ~Worker
  <2>0. \/ \E q \in Request : Submit(q) \/ Cancel(q) \/ Free(q) \/ Client(q)
        \/ Stop \/ UNCHANGED vars \/ Terminated
    BY <1>2 DEF Next
  <2>1. UNCHANGED <<completed, reason>>
    BY <2>0, CallersLeaveWorker DEF workerVars, metricVars
  <2>2. \A r \in Request : tokens'[r].closed = tokens[r].closed
    BY <2>0, CallersKeepSent
  <2> QED BY <1>c, <2>1, <2>2
<1> QED BY <1>1, <1>2

(* requests_completed counts exactly the requests that left the batch with
   their stream closed, whatever their number.                             *)
THEOREM CompletedIsExact == Spec => []CompletedExact
<1>1. Init => Completions
  <2> SUFFICES ASSUME Init PROVE Completions
    OBVIOUS
  <2>1. CompletedRequests = {} /\ completed = 0
    BY DEF Init, EmptyQueue, CompletedRequests, Ended
  <2> QED BY <2>1, FS_EmptySet DEF Completions, CompletedExact
<1>2. Core /\ Completions /\ [Next]_vars => Completions'
  BY CompletionsStep
<1>3. Completions => CompletedExact
  BY DEF Completions
<1> QED BY <1>1, <1>2, <1>3, CoreInvariant, PTL DEF Spec

-----------------------------------------------------------------------------
(* What the requests' callers see: the refinement of RequestLifecycle.     *)
Phase(r) == IF ~Accepted(r) THEN client[r] ELSE IF Ended(r) THEN "closed" ELSE "open"
LcPhase    == [r \in Request |-> Phase(r)]
LcEmitted  == [r \in Request |-> tokens[r].sent]
LcReceived == [r \in Request |-> tokens[r].got]
LcTold     == [r \in Request |-> client[r] = "done"]

(* The actions of RequestLifecycle, in these terms.                        *)
LEMMA LifecycleActions ==
    ASSUME NEW x \in Request
    PROVE  /\ /\ LcPhase[x] = "new" /\ LcPhase' = [LcPhase EXCEPT ![x] = "open"]
              /\ UNCHANGED <<LcEmitted, LcReceived, reason, LcTold>>
              => Lifecycle!Accept(x)
           /\ /\ LcPhase[x] = "new" /\ LcPhase' = [LcPhase EXCEPT ![x] = "rejected"]
              /\ UNCHANGED <<LcEmitted, LcReceived, reason, LcTold>>
              => Lifecycle!Reject(x)
           /\ /\ Job[x].kind # "embed" /\ LcPhase[x] = "open" /\ reason[x] = ""
              /\ LcEmitted[x] < Job[x].maxTokens
              /\ LcEmitted' = [LcEmitted EXCEPT ![x] = @ + 1]
              /\ \/ reason' = reason
                 \/ /\ LcEmitted[x] + 1 = Job[x].maxTokens
                    /\ reason' = [reason EXCEPT ![x] = "length"]
              /\ UNCHANGED <<LcPhase, LcReceived, LcTold>>
              => Lifecycle!Emit(x)
           /\ /\ LcPhase[x] = "open" /\ reason[x] # "" /\ LcPhase' = [LcPhase EXCEPT ![x] = "closed"]
              /\ UNCHANGED <<LcEmitted, LcReceived, reason, LcTold>>
              => Lifecycle!Close(x)
           /\ /\ LcReceived[x] < LcEmitted[x]
              /\ LcReceived' = [LcReceived EXCEPT ![x] = @ + 1]
              /\ UNCHANGED <<LcPhase, LcEmitted, reason, LcTold>>
              => Lifecycle!Deliver(x)
           /\ /\ LcPhase[x] = "closed" /\ LcReceived[x] = LcEmitted[x]
              /\ LcTold' = [LcTold EXCEPT ![x] = TRUE]
              /\ UNCHANGED <<LcPhase, LcEmitted, LcReceived, reason>>
              => Lifecycle!Tell(x)
           /\ UNCHANGED <<LcPhase, LcEmitted, LcReceived, reason, LcTold>>
              => UNCHANGED Lifecycle!lcVars
<1> QED BY DEF Lifecycle!Accept, Lifecycle!Reject, Lifecycle!Emit, Lifecycle!Close, Lifecycle!Deliver,
           Lifecycle!Tell, Lifecycle!lcVars, LcPhase, LcEmitted, LcReceived, LcTold, Phase

(* Deciding: the reason is one that what was emitted allows.               *)
LEMMA LifecycleDecide ==
    ASSUME NEW x \in Request, NEW w, LcPhase[x] = "open", reason[x] = "",
           reason' = [reason EXCEPT ![x] = w],
           \/ Job[x].kind = "embed" /\ w \in {"embed", "error"}
           \/ Job[x].kind # "embed" /\ LcEmitted[x] = 0 /\ w = "error"
           \/ Job[x].kind # "embed" /\ LcEmitted[x] < Job[x].maxTokens /\ w \in {"stop", "cancel"}
           \/ Job[x].kind # "embed" /\ ~(LcEmitted[x] < Job[x].maxTokens) /\ w = "length",
           UNCHANGED <<LcPhase, LcEmitted, LcReceived, LcTold>>
    PROVE  Lifecycle!Decide(x)
<1>1. w \in Lifecycle!Reason(x)
  BY DEF Lifecycle!Reason, LcEmitted
<1>2. UNCHANGED <<LcPhase, LcEmitted, LcReceived, LcTold>>
  OBVIOUS
<1> QED BY <1>1, <1>2 DEF Lifecycle!Decide, LcPhase, LcEmitted, LcReceived, LcTold, Phase

(* The worker's steps.                                                     *)
LEMMA WorkerRefines ==
    ASSUME Core, Worker
    PROVE  [Lifecycle!Next]_(Lifecycle!lcVars)
<1>0. /\ tokens \in [Request -> QueueType] /\ reason \in [Request -> Reasons]
  BY DEF Core, Control, TypeOK
<1>a. \A r \in Request : /\ LcPhase[r] = Phase(r) /\ LcEmitted[r] = tokens[r].sent
                         /\ LcReceived[r] = tokens[r].got /\ tokens[r] \in QueueType
                         /\ tokens[r].sent \in Nat /\ Job[r].maxTokens \in Nat
  BY <1>0, QueueTypes, JobAssumption DEF LcPhase, LcEmitted, LcReceived, JobType
<1>b. \A x \in Open : x \in Request /\ LcPhase[x] = "open" /\ ~tokens[x].closed /\ Accepted(x)
  BY <1>a DEF Open, Phase, Ended
<1>c. ASSUME UNCHANGED <<tokens, client>> PROVE UNCHANGED <<LcPhase, LcEmitted, LcReceived, LcTold>>
  BY <1>c DEF LcPhase, LcEmitted, LcReceived, LcTold, Phase, Accepted, Ended
<1>d. UNCHANGED <<LcPhase, LcEmitted, LcReceived, reason, LcTold>> => UNCHANGED Lifecycle!lcVars
  BY DEF Lifecycle!lcVars, LcPhase, LcEmitted, LcReceived, LcTold, Phase
<1>1. CASE Silent
  <2>1. UNCHANGED <<tokens, client, reason>>
    BY <1>1 DEF Silent, requestVars, clientVars
  <2> QED BY <1>c, <1>d, <2>1
<1>2. ASSUME NEW x \in Request, Decided(x) PROVE Lifecycle!Decide(x)
  <2>1. /\ x \in Open /\ reason[x] = "" /\ UNCHANGED <<tokens, client>>
    BY <1>2 DEF Decided, clientVars
  <2>2. LcEmitted[x] = tokens[x].sent /\ LcPhase[x] = "open"
    BY <1>a, <1>b, <2>1
  <2>3. UNCHANGED <<LcPhase, LcEmitted, LcReceived, LcTold>>
    BY <1>c, <2>1
  <2>4. \/ \E w \in {"embed", "error"} : Job[x].kind = "embed" /\ reason' = [reason EXCEPT ![x] = w]
        \/ Job[x].kind # "embed" /\ tokens[x].sent = 0 /\ reason' = [reason EXCEPT ![x] = "error"]
        \/ \E w \in {"stop", "cancel"} : /\ Job[x].kind # "embed" /\ tokens[x].sent < Job[x].maxTokens
                                         /\ reason' = [reason EXCEPT ![x] = w]
    BY <1>2 DEF Decided
  <2> QED BY <2>1, <2>2, <2>3, <2>4, LifecycleDecide
<1>3. ASSUME NEW x \in Request, TokenPushed(x) PROVE Lifecycle!Emit(x)
  <2>1. /\ x \in Open /\ reason[x] = "" /\ Job[x].kind # "embed" /\ tokens[x].sent < Job[x].maxTokens
        /\ tokens' = [tokens EXCEPT ![x] = PushItem(@)] /\ client' = client
        /\ \/ reason' = reason
           \/ tokens[x].sent + 1 = Job[x].maxTokens /\ reason' = [reason EXCEPT ![x] = "length"]
    BY <1>3 DEF TokenPushed, clientVars
  <2>2. tokens'[x] = PushItem(tokens[x]) /\ \A r \in Request : r # x => tokens'[r] = tokens[r]
    BY <1>0, <2>1
  <2>3. /\ tokens'[x].sent = tokens[x].sent + 1 /\ tokens'[x].got = tokens[x].got
        /\ tokens'[x].closed = tokens[x].closed
    <3>1. tokens[x] \in QueueType /\ ~tokens[x].closed
      BY <1>a, <1>b, <2>1
    <3> QED BY <2>2, <3>1, QueueTypes
  <2>4. \A r \in Request : tokens'[r].got = tokens[r].got /\ tokens'[r].closed = tokens[r].closed
    BY <2>2, <2>3
  <2>5. UNCHANGED <<LcPhase, LcReceived, LcTold>>
    BY <2>1, <2>4 DEF LcPhase, LcReceived, LcTold, Phase, Accepted, Ended
  <2>6. LcEmitted' = [LcEmitted EXCEPT ![x] = @ + 1]
    BY <2>2, <2>3 DEF LcEmitted
  <2>7. LcEmitted[x] = tokens[x].sent /\ LcPhase[x] = "open"
    BY <1>a, <1>b, <2>1
  <2> QED BY <2>1, <2>5, <2>6, <2>7, LifecycleActions
<1>4. ASSUME NEW x \in Request, LogprobPushed(x) PROVE Lifecycle!Decide(x) \/ UNCHANGED Lifecycle!lcVars
  <2>1. /\ x \in Open /\ reason[x] = "" /\ Job[x].kind # "embed" /\ UNCHANGED <<tokens, client>>
        /\ \/ reason' = reason
           \/ tokens[x].sent = Job[x].maxTokens /\ reason' = [reason EXCEPT ![x] = "length"]
    BY <1>4 DEF LogprobPushed, clientVars
  <2>2. UNCHANGED <<LcPhase, LcEmitted, LcReceived, LcTold>>
    BY <1>c, <2>1
  <2>3. CASE reason' = reason
    BY <1>d, <2>2, <2>3
  <2>4. CASE tokens[x].sent = Job[x].maxTokens /\ reason' = [reason EXCEPT ![x] = "length"]
    <3>1. ~(LcEmitted[x] < Job[x].maxTokens) /\ LcPhase[x] = "open"
      <4>1. LcEmitted[x] = tokens[x].sent /\ tokens[x].sent \in Nat /\ Job[x].maxTokens \in Nat
        BY <1>a
      <4>2. LcPhase[x] = "open"
        BY <1>b, <2>1
      <4> QED BY <2>4, <4>1, <4>2
    <3> QED BY <2>1, <2>2, <2>4, <3>1, LifecycleDecide
  <2> QED BY <2>1, <2>3, <2>4
<1>5. ASSUME NEW x \in Request, StreamClosed(x) PROVE Lifecycle!Close(x)
  <2>1. /\ x \in Open /\ reason[x] # "" /\ tokens' = [tokens EXCEPT ![x] = CloseItem(@)]
        /\ client' = client /\ reason' = reason
    BY <1>5 DEF StreamClosed, clientVars
  <2>2. tokens'[x] = CloseItem(tokens[x]) /\ \A r \in Request : r # x => tokens'[r] = tokens[r]
    BY <1>0, <2>1
  <2>3. tokens'[x].sent = tokens[x].sent /\ tokens'[x].got = tokens[x].got /\ tokens'[x].closed
    BY <1>a, <2>2, QueueTypes
  <2>4. \A r \in Request : Accepted(r)' = Accepted(r)
    BY <2>1 DEF Accepted
  <2>5. UNCHANGED <<LcEmitted, LcReceived, LcTold>>
    <3>1. \A r \in Request : tokens'[r].sent = tokens[r].sent /\ tokens'[r].got = tokens[r].got
      BY <2>2, <2>3
    <3>2. client' = client
      BY <2>1
    <3> QED BY <3>1, <3>2 DEF LcEmitted, LcReceived, LcTold
  <2>6. \A r \in Request : Phase(r)' = IF r = x THEN "closed" ELSE Phase(r)
    <3>1. \A r \in Request : r # x => Phase(r)' = Phase(r)
      BY <2>1, <2>2, <2>4 DEF Phase, Ended
    <3>2. Phase(x)' = "closed"
      BY <1>b, <2>1, <2>3, <2>4 DEF Phase, Ended
    <3> QED BY <3>1, <3>2
  <2>7. LcPhase' = [LcPhase EXCEPT ![x] = "closed"]
    BY <2>6 DEF LcPhase
  <2>8. LcPhase[x] = "open"
    BY <1>b, <2>1
  <2> QED BY <2>1, <2>5, <2>7, <2>8, LifecycleActions
<1>6. ASSUME NEW x \in Request, LogprobsClosed(x) PROVE UNCHANGED Lifecycle!lcVars
  <2>1. UNCHANGED <<tokens, client, reason>>
    BY <1>6 DEF LogprobsClosed, clientVars
  <2> QED BY <1>c, <1>d, <2>1
<1> QED BY <1>1, <1>2, <1>3, <1>4, <1>5, <1>6, WorkerSteps DEF Lifecycle!Next

(* The steps of the requests' threads, and stop().                          *)
LEMMA CallersRefine ==
    ASSUME Core, Queues,
           \/ \E r \in Request : Submit(r) \/ Cancel(r) \/ Free(r) \/ Client(r)
           \/ Stop \/ UNCHANGED vars \/ Terminated
    PROVE  [Lifecycle!Next]_(Lifecycle!lcVars)
<1>0. tokens \in [Request -> QueueType] /\ client \in [Request -> ClientPC] /\ reason' = reason
  BY CallersLeaveWorker DEF Core, Control, TypeOK
<1>a. \A r \in Request : /\ LcPhase[r] = Phase(r) /\ LcEmitted[r] = tokens[r].sent
                         /\ LcReceived[r] = tokens[r].got /\ tokens[r] \in QueueType
                         /\ tokens[r].sent \in Nat /\ tokens[r].got \in Nat
                         /\ tokens[r].got <= tokens[r].sent
  BY <1>0, QueueTypes DEF LcPhase, LcEmitted, LcReceived, Queues
<1>b. UNCHANGED <<LcPhase, LcEmitted, LcReceived, reason, LcTold>> => UNCHANGED Lifecycle!lcVars
  BY DEF Lifecycle!lcVars, LcPhase, LcEmitted, LcReceived, LcTold, Phase
(* A thread that moves on inside its loop.                                  *)
<1>c. ASSUME NEW x \in Request, NEW to, client' = [client EXCEPT ![x] = to],
             client[x] \notin {"new", "rejected", "done"}, to \notin {"new", "rejected", "done"},
             \A r \in Request : tokens'[r].closed = tokens[r].closed
      PROVE  UNCHANGED <<LcPhase, LcTold>>
  <2>1. client'[x] = to /\ \A r \in Request : r # x => client'[r] = client[r]
    BY <1>0, <1>c
  <2>2. \A r \in Request : (client'[r] = "done") = (client[r] = "done")
    BY <1>c, <2>1
  <2>3. \A r \in Request : Phase(r)' = Phase(r)
    BY <1>c, <2>1 DEF Phase, Accepted, Ended
  <2> QED BY <2>2, <2>3 DEF LcPhase, LcTold
<1>d. ASSUME tokens' = tokens PROVE UNCHANGED <<LcEmitted, LcReceived>>
  BY <1>d DEF LcEmitted, LcReceived
<1>1. CASE Stop \/ UNCHANGED vars \/ Terminated
  <2>1. UNCHANGED <<tokens, client>>
    BY <1>1 DEF Stop, Terminated, vars, requestVars, clientVars
  <2>2. UNCHANGED <<LcPhase, LcTold>>
    BY <2>1 DEF LcPhase, LcTold, Phase, Accepted, Ended
  <2> QED BY <1>0, <1>b, <1>d, <2>1, <2>2
<1>2. ASSUME NEW x \in Request, Submit(x) PROVE Lifecycle!Accept(x) \/ Lifecycle!Reject(x)
  <2>1. /\ client[x] = "new" /\ tokens' = tokens
        /\ \E to \in {"rejected", "sending", "reading"} : client' = [client EXCEPT ![x] = to]
    BY <1>2 DEF Submit, requestVars
  <2>2. PICK to \in {"rejected", "sending", "reading"} : client' = [client EXCEPT ![x] = to]
    BY <2>1
  <2>3. client'[x] = to /\ \A r \in Request : r # x => client'[r] = client[r]
    BY <1>0, <2>2
  <2>4. ~tokens[x].closed
    <3>1. tokens[x] = EmptyQueue
      BY <2>1 DEF Core, Stages, Unstarted, Accepted
    <3> QED BY <3>1 DEF EmptyQueue
  <2>5. \A r \in Request : (client'[r] = "done") = (client[r] = "done")
    BY <2>1, <2>3
  <2>6. UNCHANGED <<LcEmitted, LcReceived, LcTold>>
    BY <1>d, <2>1, <2>5 DEF LcTold
  <2>7. \A r \in Request : r # x => Phase(r)' = Phase(r)
    BY <2>1, <2>3 DEF Phase, Accepted, Ended
  <2>8. Phase(x) = "new" /\ Phase(x)' = IF to = "rejected" THEN "rejected" ELSE "open"
    BY <2>1, <2>3, <2>4 DEF Phase, Accepted, Ended
  <2>9. LcPhase' = [LcPhase EXCEPT ![x] = IF to = "rejected" THEN "rejected" ELSE "open"]
    BY <2>7, <2>8 DEF LcPhase
  <2> QED BY <1>0, <1>a, <2>6, <2>8, <2>9, LifecycleActions
<1>3. ASSUME NEW x \in Request, Cancel(x) PROVE UNCHANGED Lifecycle!lcVars
  <2>1. UNCHANGED <<tokens, client>>
    BY <1>3 DEF Cancel
  <2>2. UNCHANGED <<LcPhase, LcTold>>
    BY <2>1 DEF LcPhase, LcTold, Phase, Accepted, Ended
  <2> QED BY <1>0, <1>b, <1>d, <2>1, <2>2
<1>4. ASSUME NEW x \in Request, Free(x) \/ SendFrame(x) \/ SendFails(x) \/ PopLogprob(x)
      PROVE  UNCHANGED Lifecycle!lcVars
  <2>1. /\ tokens' = tokens /\ client[x] \in {"reading", "sending", "readLogprob", "drainLogprob"}
        /\ \E to \in {"draining", "reading", "gone", "sending"} : client' = [client EXCEPT ![x] = to]
    BY <1>4 DEF Free, SendFrame, SendFails, PopLogprob, Handled, requestVars
  <2>2. UNCHANGED <<LcPhase, LcTold>>
    BY <1>c, <2>1
  <2> QED BY <1>0, <1>b, <1>d, <2>1, <2>2
<1>5. ASSUME NEW x \in Request, PopToken(x) PROVE Lifecycle!Deliver(x)
  <2>1. /\ tokens' = [tokens EXCEPT ![x] = PopItem(@)] /\ tokens[x].got < tokens[x].sent
        /\ client[x] \in {"reading", "draining"}
        /\ \E to \in {"readLogprob", "drainLogprob", "draining", "reading", "sending"} :
              client' = [client EXCEPT ![x] = to]
    BY <1>5 DEF PopToken, Handled, HasItem
  <2>2. tokens'[x] = PopItem(tokens[x]) /\ \A r \in Request : r # x => tokens'[r] = tokens[r]
    BY <1>0, <2>1
  <2>3. /\ tokens'[x].sent = tokens[x].sent /\ tokens'[x].got = tokens[x].got + 1
        /\ tokens'[x].closed = tokens[x].closed
    BY <1>a, <2>1, <2>2, QueueTypes
  <2>4. \A r \in Request : tokens'[r].sent = tokens[r].sent /\ tokens'[r].closed = tokens[r].closed
    BY <2>2, <2>3
  <2>5. UNCHANGED <<LcPhase, LcTold>>
    BY <1>c, <2>1, <2>4
  <2>6. LcEmitted' = LcEmitted
    BY <2>4 DEF LcEmitted
  <2>7. LcReceived' = [LcReceived EXCEPT ![x] = @ + 1]
    BY <2>2, <2>3 DEF LcReceived
  <2>8. LcReceived[x] < LcEmitted[x]
    BY <1>a, <2>1
  <2> QED BY <1>0, <2>5, <2>6, <2>7, <2>8, LifecycleActions
<1>6. ASSUME NEW x \in Request, PopEnd(x) PROVE Lifecycle!Tell(x)
  <2>1. /\ client' = [client EXCEPT ![x] = "done"] /\ tokens' = tokens
        /\ client[x] \in {"reading", "draining"}
        /\ ~(tokens[x].got < tokens[x].sent) /\ tokens[x].closed
    BY <1>6 DEF PopEnd, HasItem, requestVars
  <2>2. client'[x] = "done" /\ \A r \in Request : r # x => client'[r] = client[r]
    BY <1>0, <2>1
  <2>3. LcReceived[x] = LcEmitted[x]
    <3>1. tokens[x].got = tokens[x].sent
      BY <1>a, <2>1
    <3> QED BY <1>a, <3>1
  <2>4. \A r \in Request : Phase(r)' = Phase(r)
    BY <2>1, <2>2 DEF Phase, Accepted, Ended
  <2>5. LcPhase' = LcPhase
    BY <2>4 DEF LcPhase
  <2>6. LcPhase[x] = "closed"
    BY <1>a, <2>1 DEF Phase, Accepted, Ended
  <2>7. LcTold' = [LcTold EXCEPT ![x] = TRUE]
    BY <2>2 DEF LcTold
  <2> QED BY <1>0, <1>d, <2>1, <2>3, <2>5, <2>6, <2>7, LifecycleActions
<1> QED BY <1>1, <1>2, <1>3, <1>4, <1>5, <1>6 DEF Client, Lifecycle!Next

(* Whatever the batch around it does, a request is accepted or rejected once,
   emits at most max_tokens tokens, gets one reason that agrees with them, is
   closed only then, and its caller receives every token before the end.   *)
THEOREM ServingKeepsLifecycle == Spec => KeepsLifecycle
<1>1. Init => Lifecycle!Init
  <2> SUFFICES ASSUME Init PROVE Lifecycle!Init
    OBVIOUS
  <2>1. \A r \in Request : client[r] = "new" /\ tokens[r].sent = 0 /\ tokens[r].got = 0
    BY DEF Init, EmptyQueue
  <2>2. reason = [r \in Request |-> ""]
    BY DEF Init
  <2> QED BY <2>1, <2>2 DEF Lifecycle!Init, Accepted
<1>2. Core /\ Queues /\ [Next]_vars => [Lifecycle!Next]_(Lifecycle!lcVars)
  <2> SUFFICES ASSUME Core, Queues, [Next]_vars PROVE [Lifecycle!Next]_(Lifecycle!lcVars)
    OBVIOUS
  <2>1. CASE Worker
    BY <2>1, WorkerRefines
  <2>2. CASE ~Worker
    BY <2>2, CallersRefine DEF Next
  <2> QED BY <2>1, <2>2
<1> QED BY <1>1, <1>2, QueuesInit, QueuesStep, CoreInvariant, PTL DEF Spec, KeepsLifecycle, Lifecycle!Spec

-----------------------------------------------------------------------------
(* The size of the batch.  Until the second eviction of an iteration the rows
   counted by the last Publish are still there, at the front and unfinished. *)
Counted ==
    /\ Home \in {"load", "top", "more", "dispatch", "admit", "prefill", "evict1"} =>
          active <= Len(rows) /\ \A i \in 1 .. active : ~rows[i].finished
    /\ RowLoop /\ ret # "evict2" => cur > active
    /\ Home \in {"load", "top"} => active = Len(rows)

(* The row loop changes no row but the current one.                        *)
LEMMA OtherRowsKept ==
    ASSUME Core, pc \in {"row", "push", "pushLogprob"},
           CountToken \/ \E why \in Ran : FinishRow(why)
    PROVE  Len(rows') = Len(rows) /\ \A i \in 1 .. Len(rows) : i # cur => rows'[i] = rows[i]
<1>1. PICK c \in 1 .. Len(rows) : c = cur
  BY CurrentRow
<1>2. rows \in Seq(RowType) /\ rows[c] \in RowType /\ rows[c].produced \in Nat
  BY <1>1, CurrentRow DEF Core, Control, TypeOK
<1>3. rows[c].produced + 1 \in Nat
  BY <1>2
<1>4. PICK one : one = [rows[c] EXCEPT !.produced = @ + 1]
  OBVIOUS
<1>5. one \in RowType
  BY <1>2, <1>3, <1>4 DEF RowType
<1>6. PICK last : last = [one EXCEPT !.finished = TRUE]
  OBVIOUS
<1>7. last \in RowType
  BY <1>5, <1>6 DEF RowType
<1>8. PICK over : over = [rows[c] EXCEPT !.finished = TRUE]
  OBVIOUS
<1>9. over \in RowType
  BY <1>2, <1>8 DEF RowType
<1>10. \E row \in RowType : rows' = [rows EXCEPT ![c] = row]
  <2>1. CASE CountToken
    <3>1. CASE rows[c].produced + 1 >= Job[rows[c].req].maxTokens
      <4>1. rows' = [rows EXCEPT ![c] = last]
        BY <1>1, <1>2, <1>4, <1>6, <2>1, <3>1 DEF CountToken
      <4> QED BY <1>7, <4>1
    <3>2. CASE ~(rows[c].produced + 1 >= Job[rows[c].req].maxTokens)
      <4>1. rows' = [rows EXCEPT ![c] = one]
        BY <1>1, <1>2, <1>4, <2>1, <3>2 DEF CountToken
      <4> QED BY <1>5, <4>1
    <3> QED BY <3>1, <3>2
  <2>2. CASE \E why \in Ran : FinishRow(why)
    <3>1. rows' = [rows EXCEPT ![c] = over]
      BY <1>1, <1>8, <2>2 DEF FinishRow
    <3> QED BY <1>9, <3>1
  <2> QED BY <2>1, <2>2
<1>11. PICK row \in RowType : rows' = [rows EXCEPT ![c] = row]
  BY <1>10
<1> DEFINE changed == [rows EXCEPT ![c] = row]
<1>12. /\ Len(changed) = Len(rows)
       /\ \A i \in 1 .. Len(rows) : changed[i] = IF i = c THEN row ELSE rows[i]
  BY <1>2, ExceptSeq
<1>13. rows' = changed
  BY <1>11
<1> HIDE DEF changed
<1> QED BY <1>1, <1>12, <1>13

(* The worker's steps.                                                     *)
LEMMA CountedWorker ==
    ASSUME Core, Core', Counted, Worker
    PROVE  Counted'
<1> DEFINE early == {"load", "top", "more", "dispatch", "admit", "prefill", "evict1"}
<1>0. /\ rows \in Seq(RowType) /\ rows' \in Seq(RowType) /\ Len(rows) \in Nat /\ Len(rows') \in Nat
      /\ active \in Nat /\ cur \in Nat /\ Loops /\ Batch /\ Batch'
  <2>1. /\ rows \in Seq(RowType) /\ rows' \in Seq(RowType) /\ active \in Nat /\ cur \in Nat
    BY DEF Core, Control, TypeOK
  <2>2. Loops /\ Batch /\ Batch'
    BY DEF Core, Control, Stages
  <2>3. Len(rows) \in Nat /\ Len(rows') \in Nat
    BY <2>1
  <2> QED BY <2>1, <2>2, <2>3
(* Steps outside the loops that change neither rows nor the count.          *)
<1>a. ASSUME UNCHANGED <<rows, active>>, ~RowLoop', Home' \in early => Home \in early,
             Home' \in {"load", "top"} => Home \in {"load", "top"}
      PROVE  Counted'
  BY <1>a DEF Counted
<1>1. CASE Load \/ NextWaiting \/ TakeMore \/ Exit \/ TopUp \/ CollectText \/ EnqueueAdmissions \/ Admit
           \/ AdmissionDone
  <2>1. /\ UNCHANGED <<rows, active>>
        /\ pc \in {"load", "top", "more", "dispatch", "admit"}
        /\ pc' \in {"top", "more", "dispatch", "exited", "prefill", "admit", "evict1"}
        /\ pc' = "top" => pc = "load"
    BY <1>1 DEF Load, NextWaiting, TakeMore, Exit, TopUp, CollectText, EnqueueAdmissions, Admit,
                AdmissionDone, metricVars, loopVars
  <2>2. ~RowLoop' /\ Home = pc /\ Home' = pc'
    BY <2>1 DEF RowLoop, CloseLoop, Home
  <2> QED BY <1>a, <2>1, <2>2
<1>2. ASSUME NEW why, EndEarly(Head(incoming), why), pc = "dispatch", UNCHANGED <<rows, active>>
      PROVE  Counted'
  <2>1. ~RowLoop' /\ Home = "dispatch" /\ Home' = "dispatch"
    BY <1>2 DEF RowLoop, CloseLoop, Home, EndEarly
  <2> QED BY <1>2, <1>a, <2>1
<1>3. ASSUME NEW s \in Seq(Request), NEW back \in {"dispatch", "admit", "evict1"},
             RegisterRows(s, back), pc \in {"dispatch", "admit", "top", "prefill"}, active' = active
      PROVE  Counted'
  <2>1. Home' = back /\ RowLoop' /\ Home \in early /\ cur' = Len(rows) + 1
    BY <1>3 DEF RowLoop, CloseLoop, Home, RegisterRows
  <2>2. /\ Len(rows') = Len(rows) + Len(s) /\ \A i \in 1 .. Len(rows) : rows'[i] = rows[i]
    <3> DEFINE j == rows \o FreshRows(s)
    <3>1. Len(j) = Len(rows) + Len(s) /\ \A i \in 1 .. Len(rows) : j[i] = rows[i]
      BY <1>0, RowsJoin
    <3>2. rows' = j
      BY <1>3 DEF RegisterRows
    <3> HIDE DEF j
    <3> QED BY <3>1, <3>2
  <2>3. active <= Len(rows) /\ \A i \in 1 .. active : ~rows[i].finished
    BY <2>1 DEF Counted
  <2>4. Len(s) \in Nat
    OBVIOUS
  <2>5. active <= Len(rows') /\ cur' > active
    BY <1>0, <2>1, <2>2, <2>3, <2>4
  <2>6. \A i \in 1 .. active : i \in 1 .. Len(rows)
    BY <1>0, <2>3
  <2>7. \A i \in 1 .. active : ~rows'[i].finished
    BY <2>2, <2>3, <2>6
  <2> QED BY <1>3, <2>1, <2>5, <2>7 DEF Counted
<1>4. CASE HandleEmbedding
  BY <1>2, <1>4 DEF HandleEmbedding, metricVars
<1>5. CASE AdmitMultimodal
  <2>1. pc = "dispatch" /\ active' = active /\ incoming # <<>>
    BY <1>5 DEF AdmitMultimodal, metricVars
  <2>2. CASE EndEarly(Head(incoming), "error") /\ UNCHANGED <<rows, cur>>
    BY <1>2, <2>1, <2>2
  <2>3. CASE RegisterRows(<<Head(incoming)>>, "dispatch")
    <3>1. Head(incoming) \in Request
      BY <2>1, TailDistinct DEF Core, Control, TypeOK
    <3> DEFINE s == <<Head(incoming)>>
    <3>2. s \in Seq(Request) /\ RegisterRows(s, "dispatch")
      BY <2>3, <3>1
    <3> HIDE DEF s
    <3> QED BY <1>3, <2>1, <3>2
  <2> QED BY <1>5, <2>2, <2>3 DEF AdmitMultimodal
<1>6. CASE AdmitGroup
  <2>1. pc = "admit" /\ active' = active /\ groups # <<>> /\ RegisterRows(Head(groups), "admit")
    BY <1>6 DEF AdmitGroup, metricVars
  <2>2. groups \in Seq(Seq(Request))
    BY DEF Core, Control, TypeOK
  <2>3. Head(groups) \in Seq(Request)
    BY <2>1, <2>2, GroupsTail
  <2> QED BY <1>3, <2>1, <2>3
<1>7. CASE AdvanceChunkedPrefill
  <2>1. pc \in {"top", "prefill"} /\ active' = active /\ pending # <<>>
    BY <1>7 DEF AdvanceChunkedPrefill, metricVars
  <2>2. CASE Head(pending).left > PrefillChunk
    <3>1. pc' = "evict1" /\ rows' = rows
      BY <1>7, <2>2 DEF AdvanceChunkedPrefill
    <3>2. ~RowLoop' /\ Home = pc /\ Home' = "evict1"
      BY <2>1, <3>1 DEF RowLoop, CloseLoop, Home
    <3> QED BY <1>a, <2>1, <3>1, <3>2
  <2>3. CASE ~(Head(pending).left > PrefillChunk)
    <3>1. RegisterRows(Head(pending).reqs, "evict1")
      BY <1>7, <2>3 DEF AdvanceChunkedPrefill
    <3>2. pending \in Seq(UnitType)
      BY DEF Core, Control, TypeOK
    <3>3. Head(pending) \in UnitType
      BY <2>1, <3>2, UnitsAsGroups
    <3>4. Head(pending).reqs \in Seq(Request)
      BY <3>3 DEF UnitType
    <3> QED BY <1>3, <2>1, <3>1, <3>4
  <2> QED BY <2>2, <2>3
<1>8. CASE RowToken
  <2>1. /\ UNCHANGED <<rows, active, cur, ret>> /\ RowLoop /\ RowLoop' /\ Home' = Home
    BY <1>8 DEF RowToken, metricVars, RowLoop, CloseLoop, Home
  <2> QED BY <2>1 DEF Counted
(* A row is done with.                                                      *)
<1>9. ASSUME pc \in {"row", "push", "pushLogprob"}, NextRow,
             CountToken \/ \E why \in Ran : FinishRow(why), active' = active
      PROVE  Counted'
  <2>1. /\ cur \in 1 .. Len(rows) /\ ret \in {"dispatch", "admit", "evict1", "evict2"}
        /\ RowLoop /\ Home = ret
    BY <1>9, CurrentRow DEF RowLoop, Home
  <2>2. Len(rows') = Len(rows) /\ \A i \in 1 .. Len(rows) : i # cur => rows'[i] = rows[i]
    BY <1>9, OtherRowsKept
  <2>3. \/ cur' = cur + 1 /\ pc' = "row" /\ ret' = ret
        \/ cur' = 1 /\ pc' = ret
    BY <1>9 DEF NextRow
  <2>4. Home' = ret /\ (RowLoop' => cur' = cur + 1 /\ ret' = ret)
    BY <2>1, <2>3 DEF RowLoop, CloseLoop, Home
  <2>5. CASE ret = "evict2"
    BY <2>4, <2>5 DEF Counted
  <2>6. CASE ret # "evict2"
    <3>1. /\ active <= Len(rows) /\ \A i \in 1 .. active : ~rows[i].finished
          /\ cur > active
      BY <2>1, <2>6 DEF Counted
    <3>2. \A i \in 1 .. active : i # cur /\ i \in 1 .. Len(rows)
      BY <1>0, <3>1
    <3>3. \A i \in 1 .. active : ~rows'[i].finished
      BY <2>2, <3>1, <3>2
    <3>4. active <= Len(rows') /\ cur + 1 > active
      BY <1>0, <2>2, <3>1
    <3> QED BY <1>9, <2>1, <2>4, <3>3, <3>4 DEF Counted
  <2> QED BY <2>5, <2>6
<1>10. CASE RowCancelled \/ RowEos
  <2>1. pc = "row" /\ active' = active /\ \E why \in Ran : FinishRow(why)
    BY <1>10 DEF RowCancelled, RowEos, metricVars, Ran
  <2>2. NextRow
    BY <2>1 DEF FinishRow
  <2> QED BY <1>9, <2>1, <2>2
<1>11. CASE PushToken
  <2>1. pc = "push" /\ active' = active
    BY <1>11 DEF PushToken, metricVars
  <2>2. CASE Logprobs(rows[cur].req)
    <3>1. pc' = "pushLogprob" /\ UNCHANGED <<rows, cur, ret>>
      BY <1>11, <2>2 DEF PushToken
    <3>2. RowLoop /\ RowLoop' /\ Home' = Home
      BY <2>1, <3>1 DEF RowLoop, CloseLoop, Home
    <3> QED BY <2>1, <3>1, <3>2 DEF Counted
  <2>3. CASE ~Logprobs(rows[cur].req)
    <3>1. CountToken /\ NextRow
      BY <1>11, <2>3 DEF PushToken
    <3> QED BY <1>9, <2>1, <3>1
  <2> QED BY <2>2, <2>3
<1>12. CASE PushLogprob
  <2>1. pc = "pushLogprob" /\ active' = active /\ CountToken /\ NextRow
    BY <1>12 DEF PushLogprob, metricVars
  <2> QED BY <1>9, <2>1
<1>13. CASE EvictFinished
  <2> DEFINE stay == Keep(rows, {row \in RowType : ~row.finished})
             all == \A i \in 1 .. Len(rows) : rows[i].finished
  <2>1. /\ pc \in {"evict1", "evict2"} /\ rows' = stay /\ active' = active
        /\ pc' \in {"publish", "top", "decode", "closeTokens"}
        /\ pc' = "closeTokens" => ret' \in {"publish", "top", "decode"}
        /\ pc' = "top" \/ (pc' = "closeTokens" /\ ret' = "top") => pc = "evict1" /\ all
    BY <1>13 DEF EvictFinished, CloseAll, metricVars
  <2>2. ~RowLoop' /\ Home' \in {"publish", "top", "decode"} /\ Home = pc
        /\ (Home' = "top" => pc = "evict1" /\ all)
    BY <2>1 DEF RowLoop, CloseLoop, Home
  <2>3. CASE Home' = "top"
    (* No counted row is finished, so none was counted and none is left.     *)
    <3>1. all /\ active <= Len(rows) /\ \A i \in 1 .. active : ~rows[i].finished
      BY <2>2, <2>3 DEF Counted
    <3>2. active = 0
      <4>1. CASE active >= 1
        <5>1. 1 \in 1 .. Len(rows) /\ 1 \in 1 .. active
          BY <1>0, <3>1, <4>1
        <5> QED BY <3>1, <5>1
      <4> QED BY <1>0, <4>1
    <3>3. stay = <<>>
      BY <1>0, <3>1, RowsSplit
    <3>4. Len(rows') = 0
      <4> HIDE DEF stay
      <4> QED BY <2>1, <3>3
    <3>5. \A i \in 1 .. 0 : FALSE
      OBVIOUS
    <3> QED BY <2>1, <2>2, <3>2, <3>4, <3>5 DEF Counted
  <2>4. CASE Home' # "top"
    BY <2>2, <2>4 DEF Counted
  <2> QED BY <2>3, <2>4
<1>14. CASE CloseTokens
  <2>1. UNCHANGED <<rows, active>> /\ ~RowLoop' /\ Home' = Home
    BY <1>14 DEF CloseTokens, RowLoop, CloseLoop, Home
  <2> QED BY <1>a, <2>1
<1>15. CASE CloseLogprobs
  <2>1. /\ pc = "closeLogprobs" /\ UNCHANGED <<rows, active>>
        /\ pc' = ret \/ (pc' = "closeTokens" /\ ret' = ret)
    BY <1>15 DEF CloseLogprobs, CloseAll, metricVars
  <2>2. ret \in {"dispatch", "decode", "top", "publish"}
    BY <1>0, <2>1 DEF Loops, CloseLoop
  <2>3. ~RowLoop' /\ Home' = Home
    BY <2>1, <2>2 DEF RowLoop, CloseLoop, Home
  <2> QED BY <1>a, <2>1, <2>3
<1>16. CASE DecodeStep
  <2>1. Home' = "evict2" /\ ret' = "evict2"
    BY <1>16 DEF DecodeStep, RowLoop, Home
  <2> QED BY <2>1 DEF Counted
<1>17. CASE Publish
  <2>1. /\ active' = Len(rows) /\ rows' = rows /\ ~RowLoop' /\ Home = "publish"
    BY <1>17 DEF Publish, RowLoop, CloseLoop, Home
  <2>2. \A i \in 1 .. Len(rows) : ~rows[i].finished
    BY <1>0, <2>1 DEF Batch
  <2>3. active' <= Len(rows)
    BY <1>0, <2>1
  <2> QED BY <2>1, <2>2, <2>3 DEF Counted
<1> QED BY <1>1, <1>4, <1>5, <1>6, <1>7, <1>8, <1>10, <1>11, <1>12, <1>13, <1>14, <1>15, <1>16, <1>17
        DEF Worker

(* The published number of rows is stale only inside the loop body.      *)
LEMMA CountedStep == Core /\ Core' /\ Counted /\ [Next]_vars => Counted'
<1> SUFFICES ASSUME Core, Core', Counted, [Next]_vars PROVE Counted'
  OBVIOUS
<1>1. CASE Worker
  BY <1>1, CountedWorker
<1>2. CASE ~Worker
  <2>1. UNCHANGED <<pc, ret, cur, rows, active>>
    BY <1>2, CallersLeaveWorker DEF Next, workerVars, loopVars, metricVars
  <2> QED BY <2>1 DEF Counted, Home, RowLoop, CloseLoop
<1> QED BY <1>1, <1>2

(* active_batch is exact whenever the worker looks for work, although the early
   continue of an iteration that lost every row skips its update.          *)
THEOREM ActiveIsExact == Spec => []ActiveBatchExact
<1>1. Init => Counted
  <2> SUFFICES ASSUME Init PROVE Counted
    OBVIOUS
  <2>1. rows = <<>> /\ active = 0 /\ pc = "load" /\ Len(<<>>) = 0
    BY DEF Init
  <2>2. ~RowLoop
    BY <2>1 DEF RowLoop
  <2>3. \A i \in 1 .. 0 : FALSE
    OBVIOUS
  <2> QED BY <2>1, <2>2, <2>3 DEF Counted
<1>2. Core /\ Core' /\ Counted /\ [Next]_vars => Counted'
  BY CountedStep
<1>3. Counted => ActiveBatchExact
  <2>1. pc = "top" => Home = "top"
    BY DEF Home, RowLoop, CloseLoop
  <2> QED BY <2>1 DEF Counted, ActiveBatchExact
<1> QED BY <1>1, <1>2, <1>3, CoreInvariant, PTL DEF Spec

-----------------------------------------------------------------------------
(* The tokens of the completed requests.  A row being closed has produced what
   its request has pushed.                                                 *)
Leaving ==
    ret # "dispatch" => \A i \in 1 .. Len(closing) : closing[i].produced = tokens[closing[i].req].sent

(* What a row has produced does not change once it is being closed.      *)
LEMMA LeavingStep == Core /\ Core' /\ Leaving /\ [Next]_vars => Leaving'
<1> SUFFICES ASSUME Core, Core', Leaving, [Next]_vars PROVE Leaving'
  OBVIOUS
<1>0. /\ tokens \in [Request -> QueueType] /\ rows \in Seq(RowType) /\ closing \in Seq(RowType)
      /\ closing' \in Seq(RowType)
  BY DEF Core, Control, TypeOK
<1>a. \A i \in 1 .. Len(closing) : closing[i].req \in Request
  <2>1. \A i \in 1 .. Len(closing) : closing[i] \in RowType
    BY <1>0
  <2> QED BY <2>1 DEF RowType
<1>b. ASSUME closing' = closing, pc \notin {"closeTokens", "closeLogprobs"} PROVE Leaving'
  <2>1. closing' = <<>>
    BY <1>b DEF Core, Control, Loops, CloseLoop
  <2>2. \A i \in 1 .. Len(<<>>) : FALSE
    OBVIOUS
  <2> QED BY <2>1, <2>2 DEF Leaving
<1>1. CASE Worker
  <2>1. CASE \/ Load \/ NextWaiting \/ TakeMore \/ Exit \/ TopUp \/ CollectText \/ EnqueueAdmissions
             \/ Admit \/ AdmitGroup \/ AdmissionDone \/ AdvanceChunkedPrefill \/ DecodeStep \/ Publish
    <3>1. closing' = closing /\ pc \notin {"closeTokens", "closeLogprobs"}
      BY <2>1 DEF Load, NextWaiting, TakeMore, Exit, TopUp, CollectText, EnqueueAdmissions,
                  Admit, AdmitGroup, AdmissionDone, AdvanceChunkedPrefill, DecodeStep, Publish
    <3> QED BY <1>b, <3>1
  <2>2. CASE RowCancelled \/ RowEos \/ RowToken \/ PushToken \/ PushLogprob
    <3>1. closing' = closing /\ pc \notin {"closeTokens", "closeLogprobs"}
      BY <2>2 DEF RowCancelled, RowEos, RowToken, PushToken, PushLogprob
    <3> QED BY <1>b, <3>1
  <2>3. CASE HandleEmbedding
    BY <2>3 DEF HandleEmbedding, EndEarly, Leaving
  <2>4. CASE AdmitMultimodal
    <3>1. \/ closing' = closing /\ pc \notin {"closeTokens", "closeLogprobs"}
          \/ ret' = "dispatch"
      BY <2>4 DEF AdmitMultimodal, EndEarly
    <3> QED BY <1>b, <3>1 DEF Leaving
  <2>5. CASE EvictFinished
    <3> DEFINE leave == Keep(rows, {row \in RowType : row.finished})
    <3>1. closing' = leave /\ tokens' = tokens /\ pc # "pushLogprob"
      BY <2>5 DEF EvictFinished, CloseAll, requestVars
    <3>2. \A i \in 1 .. Len(leave) : \E k \in 1 .. Len(rows) : leave[i] = rows[k]
      BY <1>0, RowsSplit
    <3> HIDE DEF leave
    <3>3. ASSUME NEW k \in 1 .. Len(rows) PROVE rows[k].produced = tokens[rows[k].req].sent
      <4>1. tokens[rows[k].req].sent = rows[k].produced + 0
        BY <3>1 DEF Core, Stages, Batch
      <4>2. rows[k] \in RowType
        BY <1>0
      <4>3. rows[k].produced \in Nat
        BY <4>2 DEF RowType
      <4> QED BY <4>1, <4>3
    <3>4. \A i \in 1 .. Len(closing') : closing'[i].produced = tokens'[closing'[i].req].sent
      <4> SUFFICES ASSUME NEW i \in 1 .. Len(closing')
                   PROVE  closing'[i].produced = tokens'[closing'[i].req].sent
        OBVIOUS
      <4>1. PICK k \in 1 .. Len(rows) : closing'[i] = rows[k]
        BY <3>1, <3>2
      <4> QED BY <3>1, <3>3, <4>1
    <3> QED BY <3>4 DEF Leaving
  <2>6. CASE CloseTokens
    <3>1. /\ tokens' = [tokens EXCEPT ![Head(closing).req] = CloseItem(@)]
          /\ UNCHANGED <<closing, ret>>
      BY <2>6 DEF CloseTokens
    <3>2. \A r \in Request : tokens'[r] = tokens[r] \/ tokens'[r] = CloseItem(tokens[r])
      BY <1>0, <3>1
    <3>3. \A r \in Request : tokens'[r].sent = tokens[r].sent
      BY <1>0, <3>2, QueueTypes
    <3> QED BY <1>a, <3>1, <3>3 DEF Leaving
  <2>7. CASE CloseLogprobs
    <3>1. /\ closing' = Tail(closing) /\ tokens' = tokens /\ pc = "closeLogprobs"
          /\ ret' = ret \/ closing' = <<>>
      BY <2>7 DEF CloseLogprobs, CloseAll
    <3>2. closing # <<>>
      BY <3>1 DEF Core, Control, Loops, CloseLoop
    <3>3. \A i \in 1 .. Len(closing') : \E k \in 1 .. Len(closing) : closing'[i] = closing[k]
      BY <1>0, <3>1, <3>2, RowsTail
    <3>4. CASE ret' = ret
      BY <3>1, <3>3, <3>4 DEF Leaving
    <3>5. CASE closing' = <<>>
      <4>1. \A i \in 1 .. Len(<<>>) : FALSE
        OBVIOUS
      <4> QED BY <3>5, <4>1 DEF Leaving
    <3> QED BY <3>1, <3>4, <3>5
  <2> QED BY <1>1, <2>1, <2>2, <2>3, <2>4, <2>5, <2>6, <2>7 DEF Worker
<1>2. CASE ~Worker
  <2>0. \/ \E q \in Request : Submit(q) \/ Cancel(q) \/ Free(q) \/ Client(q)
        \/ Stop \/ UNCHANGED vars \/ Terminated
    BY <1>2 DEF Next
  <2>1. UNCHANGED <<ret, closing>>
    BY <2>0, CallersLeaveWorker DEF workerVars, loopVars
  <2>2. \A r \in Request : tokens'[r].sent = tokens[r].sent
    BY <2>0, CallersKeepSent
  <2> QED BY <1>a, <2>1, <2>2 DEF Leaving
<1> QED BY <1>1, <1>2

(* The row being closed, if it was in the batch.                           *)
LEMMA ClosedRow ==
    ASSUME Core, Leaving, pc = "closeTokens", reason[Head(closing).req] \in Ran
    PROVE  Head(closing).produced = tokens[Head(closing).req].sent
<1>1. closing \in Seq(RowType) /\ closing # <<>>
  BY DEF Core, Control, TypeOK, Loops, CloseLoop
<1>2. Head(closing) = closing[1] /\ 1 \in 1 .. Len(closing)
  BY <1>1, RowsTail
<1>3. ret # "dispatch"
  <2>1. ret = "dispatch" => reason[Head(closing).req] \in {"embed", "error"}
    BY <1>2 DEF Core, Stages, Closed
  <2> QED BY <2>1 DEF Ran
<1> QED BY <1>2, <1>3 DEF Leaving

(* As many tokens as there are numbers up to n.                            *)
LEMMA TokensOfOne ==
    ASSUME NEW x, NEW n \in Nat
    PROVE  IsFiniteSet({x} \X (1 .. n)) /\ Cardinality({x} \X (1 .. n)) = n
<1> DEFINE S == 1 .. n
           T == {x} \X S
           f == [i \in S |-> <<x, i>>]
<1>1. IsFiniteSet(S) /\ Cardinality(S) = n
  <2>1. /\ IsFiniteSet(1 .. n) /\ Cardinality(1 .. n) = IF 1 > n THEN 0 ELSE n - 1 + 1
    BY FS_Interval
  <2> QED BY <2>1
<1> HIDE DEF S
<1>2. f \in Bijection(S, T)
  <2>1. f \in [S -> T]
    OBVIOUS
  <2>2. \A a, b \in S : f[a] = f[b] => a = b
    OBVIOUS
  <2>3. \A t \in T : \E s \in S : f[s] = t
    OBVIOUS
  <2> HIDE DEF f, T
  <2> QED BY <2>1, <2>2, <2>3 DEF Bijection, Injection, Surjection, IsInjective
<1>3. ExistsBijection(S, T)
  BY <1>2 DEF ExistsBijection
<1> HIDE DEF T
<1>4. IsFiniteSet(T) /\ Cardinality(T) = Cardinality(S)
  BY <1>1, <1>3, FS_Bijection
<1> QED BY <1>1, <1>4 DEF T, S

(* The count of emitted tokens, and that it counts a finite set.         *)
Tally == IsFiniteSet(CompletedTokens) /\ EmittedExact

(* Closing a request adds to emitted the tokens it has pushed.           *)
LEMMA TallyStep == Core /\ Leaving /\ Tally /\ [Next]_vars => Tally'
<1> SUFFICES ASSUME Core, Leaving, Tally, [Next]_vars PROVE Tally'
  OBVIOUS
<1>0. tokens \in [Request -> QueueType] /\ reason \in [Request -> Reasons] /\ emitted \in Nat
  BY DEF Core, Control, TypeOK
<1>a. IsFiniteSet(CompletedTokens) /\ emitted = Cardinality(CompletedTokens)
  BY DEF Tally, EmittedExact
<1>b. ASSUME emitted' = emitted, \A r \in Request : tokens'[r].closed = tokens[r].closed,
             \A r \in Request : tokens[r].closed => /\ reason'[r] = reason[r]
                                                    /\ tokens'[r].sent = tokens[r].sent
      PROVE  Tally'
  <2>1. CompletedRequests' = CompletedRequests
    BY <1>b DEF CompletedRequests, Ended
  <2>2. \A r \in CompletedRequests : tokens'[r].sent = tokens[r].sent
    BY <1>b DEF CompletedRequests, Ended
  <2>3. CompletedTokens' = CompletedTokens
    BY <2>1, <2>2 DEF CompletedTokens
  <2> QED BY <1>a, <1>b, <2>3 DEF Tally, EmittedExact
<1>1. CASE Worker
  <2>1. CASE Silent
    BY <1>b, <2>1 DEF Silent, requestVars
  <2>2. ASSUME NEW x \in Request, Decided(x) \/ LogprobPushed(x) PROVE Tally'
    <3>1. emitted' = emitted /\ tokens' = tokens /\ ~tokens[x].closed
      BY <2>2 DEF Decided, LogprobPushed, Open, Ended
    <3>2. reason' = reason \/ \E w : reason' = [reason EXCEPT ![x] = w]
      BY <2>2 DEF Decided, LogprobPushed
    <3>3. \A r \in Request : r # x => reason'[r] = reason[r]
      BY <1>0, <3>2
    <3> QED BY <1>b, <3>1, <3>3
  <2>3. ASSUME NEW x \in Request, TokenPushed(x) PROVE Tally'
    <3>1. /\ emitted' = emitted /\ tokens' = [tokens EXCEPT ![x] = PushItem(@)]
          /\ ~tokens[x].closed
      BY <2>3 DEF TokenPushed, Open, Ended
    <3>2. reason' = reason \/ \E w : reason' = [reason EXCEPT ![x] = w]
      BY <2>3 DEF TokenPushed
    <3>3. \A r \in Request : r # x => reason'[r] = reason[r] /\ tokens'[r] = tokens[r]
      BY <1>0, <3>1, <3>2
    <3>4. \A r \in Request : tokens'[r] = tokens[r] \/ tokens'[r] = PushItem(tokens[r])
      BY <1>0, <3>1
    <3>5. \A r \in Request : tokens'[r].closed = tokens[r].closed
      BY <1>0, <3>4, QueueTypes
    <3> QED BY <1>b, <3>1, <3>3, <3>5
  <2>4. ASSUME NEW x \in Request, LogprobsClosed(x) PROVE Tally'
    BY <1>b, <2>4 DEF LogprobsClosed
  <2>5. ASSUME NEW x \in Request, StreamClosed(x) PROVE Tally'
    <3>1. /\ emitted' = emitted + (IF reason[x] \in Ran THEN Head(closing).produced ELSE 0)
          /\ tokens' = [tokens EXCEPT ![x] = CloseItem(@)] /\ reason' = reason
          /\ ~tokens[x].closed /\ pc = "closeTokens" /\ x = Head(closing).req
      BY <2>5 DEF StreamClosed, Open, Ended
    <3>2. tokens'[x] = CloseItem(tokens[x]) /\ \A r \in Request : r # x => tokens'[r] = tokens[r]
      BY <1>0, <3>1
    <3>3. tokens'[x].closed /\ tokens'[x].sent = tokens[x].sent /\ tokens[x].sent \in Nat
      BY <1>0, <3>2, QueueTypes
    <3>4. x \notin CompletedRequests
      BY <3>1 DEF CompletedRequests, Ended
    <3>5. CompletedRequests' = IF reason[x] \in Ran THEN CompletedRequests \cup {x} ELSE CompletedRequests
      BY <3>1, <3>2, <3>3 DEF CompletedRequests, Ended, Ran
    <3>6. \A r \in Request : tokens'[r].sent = tokens[r].sent
      BY <3>2, <3>3
    <3>7. CASE reason[x] \in Ran
      <4> DEFINE new == {x} \X (1 .. tokens[x].sent)
      <4>1. CompletedTokens' = CompletedTokens \cup new
        BY <3>5, <3>6, <3>7 DEF CompletedTokens, CompletedRequests
      <4>2. CompletedTokens \cap new = {}
        BY <3>4 DEF CompletedTokens
      <4>3. IsFiniteSet(new) /\ Cardinality(new) = tokens[x].sent
        BY <3>3, TokensOfOne
      <4> HIDE DEF new
      <4>4. /\ IsFiniteSet(CompletedTokens \cup new)
            /\ Cardinality(CompletedTokens \cup new) = emitted + tokens[x].sent - Cardinality({})
        BY <1>a, <4>2, <4>3, FS_Union
      <4>5. Cardinality({}) = 0
        BY FS_EmptySet
      <4>6. Head(closing).produced = tokens[x].sent
        BY <3>1, <3>7, ClosedRow
      <4>7. emitted' = Cardinality(CompletedTokens')
        BY <1>0, <3>1, <3>3, <3>7, <4>1, <4>4, <4>5, <4>6
      <4> QED BY <4>1, <4>4, <4>7 DEF Tally, EmittedExact
    <3>8. CASE reason[x] \notin Ran
      <4>1. CompletedTokens' = CompletedTokens
        BY <3>5, <3>6, <3>8 DEF CompletedTokens, CompletedRequests
      <4>2. emitted' = emitted
        BY <1>0, <3>1, <3>8
      <4> QED BY <1>a, <4>1, <4>2 DEF Tally, EmittedExact
    <3> QED BY <3>7, <3>8
  <2> QED BY <1>1, <2>1, <2>2, <2>3, <2>4, <2>5, WorkerSteps
<1>2. CASE ~Worker
  <2>0. \/ \E q \in Request : Submit(q) \/ Cancel(q) \/ Free(q) \/ Client(q)
        \/ Stop \/ UNCHANGED vars \/ Terminated
    BY <1>2 DEF Next
  <2>1. UNCHANGED <<emitted, reason>>
    BY <2>0, CallersLeaveWorker DEF workerVars, metricVars
  <2>2. \A r \in Request : tokens'[r].sent = tokens[r].sent /\ tokens'[r].closed = tokens[r].closed
    BY <2>0, CallersKeepSent
  <2> QED BY <1>b, <2>1, <2>2
<1> QED BY <1>1, <1>2

(* The count of completions without a token, and that they are finite.     *)
Untimed == IsFiniteSet(UntimedRequests) /\ UntimedExact

(* Closing a request that ran adds to it when the row has produced nothing. *)
LEMMA UntimedStep == Core /\ Leaving /\ Untimed /\ [Next]_vars => Untimed'
<1> SUFFICES ASSUME Core, Leaving, Untimed, [Next]_vars PROVE Untimed'
  OBVIOUS
<1> DEFINE D == {r \in Request : Ended(r) /\ reason[r] \in Ran /\ tokens[r].sent = 0}
<1>0. tokens \in [Request -> QueueType] /\ reason \in [Request -> Reasons] /\ unstamped \in Nat
  BY DEF Core, Control, TypeOK
<1>a. D = UntimedRequests /\ D' = UntimedRequests'
  BY DEF UntimedRequests, CompletedRequests, Ran
<1>b. IsFiniteSet(D) /\ unstamped = Cardinality(D)
  BY <1>a DEF Untimed, UntimedExact
<1>c. ASSUME unstamped' = unstamped, \A r \in Request : tokens'[r].closed = tokens[r].closed,
             \A r \in Request : tokens[r].closed => /\ reason'[r] = reason[r]
                                                    /\ tokens'[r].sent = tokens[r].sent
      PROVE  Untimed'
  <2>1. D' = D
    BY <1>c DEF Ended
  <2> QED BY <1>a, <1>b, <1>c, <2>1 DEF Untimed, UntimedExact
<1>1. CASE Worker
  <2>1. CASE Silent
    BY <1>c, <2>1 DEF Silent, requestVars
  <2>2. ASSUME NEW x \in Request, Decided(x) \/ LogprobPushed(x) PROVE Untimed'
    <3>1. unstamped' = unstamped /\ tokens' = tokens /\ ~tokens[x].closed
      BY <2>2 DEF Decided, LogprobPushed, Open, Ended
    <3>2. reason' = reason \/ \E w : reason' = [reason EXCEPT ![x] = w]
      BY <2>2 DEF Decided, LogprobPushed
    <3>3. \A r \in Request : r # x => reason'[r] = reason[r]
      BY <1>0, <3>2
    <3> QED BY <1>c, <3>1, <3>3
  <2>3. ASSUME NEW x \in Request, TokenPushed(x) PROVE Untimed'
    <3>1. /\ unstamped' = unstamped /\ tokens' = [tokens EXCEPT ![x] = PushItem(@)]
          /\ ~tokens[x].closed
      BY <2>3 DEF TokenPushed, Open, Ended
    <3>2. reason' = reason \/ \E w : reason' = [reason EXCEPT ![x] = w]
      BY <2>3 DEF TokenPushed
    <3>3. \A r \in Request : r # x => reason'[r] = reason[r] /\ tokens'[r] = tokens[r]
      BY <1>0, <3>1, <3>2
    <3>4. \A r \in Request : tokens'[r] = tokens[r] \/ tokens'[r] = PushItem(tokens[r])
      BY <1>0, <3>1
    <3>5. \A r \in Request : tokens'[r].closed = tokens[r].closed
      BY <1>0, <3>4, QueueTypes
    <3> QED BY <1>c, <3>1, <3>3, <3>5
  <2>4. ASSUME NEW x \in Request, LogprobsClosed(x) PROVE Untimed'
    BY <1>c, <2>4 DEF LogprobsClosed
  <2>5. ASSUME NEW x \in Request, StreamClosed(x) PROVE Untimed'
    <3> DEFINE none == reason[x] \in Ran /\ tokens[x].sent = 0
    <3>1. /\ unstamped' = unstamped + (IF reason[x] \in Ran /\ Head(closing).produced = 0 THEN 1 ELSE 0)
          /\ tokens' = [tokens EXCEPT ![x] = CloseItem(@)] /\ reason' = reason
          /\ ~tokens[x].closed /\ pc = "closeTokens" /\ x = Head(closing).req
      BY <2>5 DEF StreamClosed, Open, Ended
    <3>2. tokens'[x] = CloseItem(tokens[x]) /\ \A r \in Request : r # x => tokens'[r] = tokens[r]
      BY <1>0, <3>1
    <3>3. tokens'[x].closed /\ tokens'[x].sent = tokens[x].sent
      BY <1>0, <3>2, QueueTypes
    <3>4. x \notin D
      BY <3>1 DEF Ended
    <3>5. D' = IF none THEN D \cup {x} ELSE D
      BY <3>1, <3>2, <3>3 DEF Ended
    <3>6. unstamped' = unstamped + (IF none THEN 1 ELSE 0)
      <4>1. reason[x] \in Ran => Head(closing).produced = tokens[x].sent
        BY <3>1, ClosedRow
      <4> QED BY <3>1, <4>1
    <3> HIDE DEF D, none
    <3>7. CASE none
      <4>1. IsFiniteSet(D \cup {x}) /\ Cardinality(D \cup {x}) = Cardinality(D) + 1
        BY <1>b, <3>4, FS_AddElement
      <4> QED BY <1>a, <1>b, <3>5, <3>6, <3>7, <4>1 DEF Untimed, UntimedExact
    <3>8. CASE ~none
      BY <1>0, <1>a, <1>b, <3>5, <3>6, <3>8 DEF Untimed, UntimedExact
    <3> QED BY <3>7, <3>8
  <2> QED BY <1>1, <2>1, <2>2, <2>3, <2>4, <2>5, WorkerSteps
<1>2. CASE ~Worker
  <2>0. \/ \E q \in Request : Submit(q) \/ Cancel(q) \/ Free(q) \/ Client(q)
        \/ Stop \/ UNCHANGED vars \/ Terminated
    BY <1>2 DEF Next
  <2>1. UNCHANGED <<unstamped, reason>>
    BY <2>0, CallersLeaveWorker DEF workerVars, metricVars
  <2>2. \A r \in Request : tokens'[r].sent = tokens[r].sent /\ tokens'[r].closed = tokens[r].closed
    BY <2>0, CallersKeepSent
  <2> QED BY <1>c, <2>1, <2>2
<1> QED BY <1>1, <1>2

(* What /health and /metrics report is exact: the batch whenever the worker
   looks for work, the completions, their tokens and the completions that
   enter the averages without a time always.                               *)
THEOREM MetricsAreExact == Spec => []MetricsExact
<1>1. Init => Leaving /\ Tally /\ Untimed
  <2> SUFFICES ASSUME Init PROVE Leaving /\ Tally /\ Untimed
    OBVIOUS
  <2>1. CompletedRequests = {} /\ emitted = 0 /\ unstamped = 0 /\ closing = <<>>
    BY DEF Init, EmptyQueue, CompletedRequests, Ended
  <2>2. CompletedTokens = {} /\ UntimedRequests = {}
    BY <2>1 DEF CompletedTokens, UntimedRequests
  <2>3. \A i \in 1 .. Len(<<>>) : FALSE
    OBVIOUS
  <2> QED BY <2>1, <2>2, <2>3, FS_EmptySet DEF Leaving, Tally, EmittedExact, Untimed, UntimedExact
<1>2. Core /\ Core' /\ (Leaving /\ Tally /\ Untimed) /\ [Next]_vars => (Leaving /\ Tally /\ Untimed)'
  BY LeavingStep, TallyStep, UntimedStep
<1>3. Leaving /\ Tally /\ Untimed => EmittedExact /\ UntimedExact
  BY DEF Tally, Untimed
<1>4. ActiveBatchExact /\ CompletedExact /\ EmittedExact /\ UntimedExact => MetricsExact
  BY DEF MetricsExact
<1>5. Spec => [](EmittedExact /\ UntimedExact)
  BY <1>1, <1>2, <1>3, CoreInvariant, PTL DEF Spec
<1> QED BY <1>4, <1>5, ActiveIsExact, CompletedIsExact, PTL
=============================================================================
