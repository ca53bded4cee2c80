-------------------------- MODULE ServingInvariant --------------------------
(***************************************************************************)
(* Proofs about module Serving, for any requests, any number of them and   *)
(* any sizes of queues, batches and chunks.                                *)
(*                                                                         *)
(* The argument is built in layers, each inductive given the ones before:  *)
(*   Control  the types, and which of the worker's local collections are   *)
(*            empty where in its loop;                                     *)
(*   Places   the collections have no request in common, repeat none, and  *)
(*            together hold exactly the requests that are open;            *)
(*   Stages   what is known of a request in each of them: nothing is       *)
(*            emitted and no reason decided before it is a row, a row has  *)
(*            pushed what it has produced, a request being closed has its  *)
(*            reason.                                                      *)
(* Module ServingProofs derives the theorems from them.                    *)
(***************************************************************************)
EXTENDS Serving, SeqLemmas, FiniteSetTheorems

RowLoop   == pc \in {"row", "push", "pushLogprob"}
CloseLoop == pc \in {"closeTokens", "closeLogprobs"}

(* Where in run() the worker is, when the two inner loops are taken as part of
   the place they return to.                                               *)
Home == IF RowLoop \/ CloseLoop THEN ret ELSE pc

(* The requests of a batch, and that none has two rows.                    *)
ReqSet(rs)     == {rs[i].req : i \in 1 .. Len(rs)}
OneRowEach(rs) == \A i, j \in 1 .. Len(rs) : rs[i].req = rs[j].req => i = j

(* The requests in a sequence of groups, and that the groups are not empty and
   have none in common.                                                    *)
Members(f) == UNION {Range(f[i]) : i \in 1 .. Len(f)}
Apart(f) ==
    /\ \A i \in 1 .. Len(f) : f[i] # <<>> /\ Distinct(f[i])
    /\ \A i, j \in 1 .. Len(f) : i # j => Range(f[i]) \cap Range(f[j]) = {}
UnitReqs(p) == [i \in 1 .. Len(p) |-> p[i].reqs]

(* What of closing is still to be closed.                                  *)
ToClose == IF pc = "closeLogprobs" THEN Tail(closing) ELSE closing

(* The requests the server owes an end: submitted and not yet closed.    *)
Open == {r \in Request : Accepted(r) /\ ~Ended(r)}

-----------------------------------------------------------------------------
(* The two inner loops: where each returns to, and its collection outside
   it.                                                                   *)
Loops ==
    /\ RowLoop => cur \in 1 .. Len(rows) /\ ret \in {"dispatch", "admit", "evict1", "evict2"}
    /\ CloseLoop => closing # <<>> /\ ret \in {"dispatch", "decode", "top", "publish"}
    /\ ~RowLoop => cur = 1
    /\ ~CloseLoop => closing = <<>>

(* What is empty where in run(): the locals of an iteration outside it, and
   everything when the worker leaves.                                    *)
Locals ==
    /\ Home \notin {"more", "dispatch"} => incoming = <<>> /\ gen = <<>>
    /\ Home # "admit" => groups = <<>>
    /\ Home \in {"more", "dispatch", "admit"} => pending = <<>>
    /\ Home = "decode" => rows # <<>>
    /\ pc = "exited" => stop /\ waiting = <<>> /\ rows = <<>> /\ pending = <<>>

(* No group or prefill unit is without a request.                        *)
Nonempty ==
    /\ \A i \in 1 .. Len(groups) : groups[i] # <<>>
    /\ \A i \in 1 .. Len(pending) : pending[i].reqs # <<>>

(* The first layer.                                                      *)
Control == TypeOK /\ Loops /\ Locals /\ Nonempty

-----------------------------------------------------------------------------
(* Sets that make up O, no two with a common element.                      *)
Partition(W, I, G, Q, P, R, C, O) ==
    /\ O = W \cup I \cup G \cup Q \cup P \cup R \cup C
    /\ W \cap (I \cup G \cup Q \cup P \cup R \cup C) = {}
    /\ I \cap (G \cup Q \cup P \cup R \cup C) = {}
    /\ G \cap (Q \cup P \cup R \cup C) = {}
    /\ Q \cap (P \cup R \cup C) = {}
    /\ P \cap (R \cup C) = {}
    /\ R \cap C = {}

(* No collection holds a request twice.                                  *)
Once ==
    /\ Distinct(waiting) /\ Distinct(incoming) /\ Distinct(gen)
    /\ Apart(groups) /\ Apart(UnitReqs(pending))
    /\ OneRowEach(rows) /\ OneRowEach(closing)

(* The second layer: every open request is in exactly one collection.    *)
Places ==
    /\ Once
    /\ Partition(Range(waiting), Range(incoming), Range(gen), Members(groups),
                 Members(UnitReqs(pending)), ReqSet(rows), ReqSet(ToClose), Open)
    /\ \A r \in Request : Ended(r) => Accepted(r)

-----------------------------------------------------------------------------
(* Requests by how far they have come: being prefilled, without a row yet,
   with a row or being closed.                                           *)
Prefilling == Range(gen) \cup Members(groups) \cup Members(UnitReqs(pending))
Fresh == Range(waiting) \cup Range(incoming) \cup Prefilling
Started == ReqSet(rows) \cup ReqSet(ToClose)

(* The reasons of a request that was in the batch.                       *)
Ran == {"stop", "length", "cancel"}

(* Nothing is pushed or decided for a request before it has a row.       *)
Unstarted ==
    /\ \A r \in Request : ~Accepted(r) => tokens[r] = EmptyQueue /\ reason[r] = ""
    /\ \A r \in Fresh : tokens[r].sent = 0 /\ reason[r] = ""
    /\ \A r \in Prefilling : Job[r].kind # "embed"

(* A row has pushed what it produced, and has a reason exactly when
   finished.                                                             *)
Batch ==
    /\ \A i \in 1 .. Len(rows) :
          /\ Job[rows[i].req].kind # "embed"
          /\ tokens[rows[i].req].sent =
               rows[i].produced + (IF pc = "pushLogprob" /\ i = cur THEN 1 ELSE 0)
          /\ ~rows[i].finished => /\ reason[rows[i].req] = ""
                                  /\ rows[i].produced < Job[rows[i].req].maxTokens
          /\ rows[i].finished => reason[rows[i].req] \in Ran
          /\ RowLoop /\ i >= cur => ~rows[i].finished
          /\ Home \in {"load", "top", "decode", "publish"} => ~rows[i].finished

(* What is being closed has its reason: an early end from the dispatch, a
   reason of a row otherwise.                                            *)
Closed ==
    \A i \in 1 .. Len(closing) :
        reason[closing[i].req] \in IF ret = "dispatch" THEN {"embed", "error"} ELSE Ran

(* The third layer.                                                      *)
Stages == Unstarted /\ Batch /\ Closed

-----------------------------------------------------------------------------
(* The operators the worker's steps are built from.                        *)

(* register_rows: the batch with the fresh rows of s appended.             *)
LEMMA RowsJoin ==
    ASSUME NEW rs \in Seq(RowType), NEW s \in Seq(Request)
    PROVE  LET j == rs \o FreshRows(s) IN
           /\ j \in Seq(RowType) /\ Len(j) = Len(rs) + Len(s)
           /\ \A i \in 1 .. Len(rs) : j[i] = rs[i]
           /\ \A i \in 1 .. Len(j) : i > Len(rs) =>
                 j[i].req \in Range(s) /\ j[i].produced = 0 /\ ~j[i].finished
           /\ ReqSet(j) = ReqSet(rs) \cup Range(s)
           /\ OneRowEach(rs) /\ Distinct(s) /\ ReqSet(rs) \cap Range(s) = {} => OneRowEach(j)
<1> DEFINE f == FreshRows(s)
           j == rs \o f
           m == Len(rs)
           n == Len(s)
<1>1. /\ f \in Seq(RowType) /\ Len(f) = n /\ m \in Nat /\ n \in Nat
      /\ \A i \in 1 .. n : /\ f[i].req = s[i] /\ f[i].produced = 0 /\ f[i].finished = FALSE
                           /\ s[i] \in Request
      /\ DOMAIN s = 1 .. n
  BY DEF FreshRows, FreshRow, RowType
<1>2. /\ j \in Seq(RowType) /\ Len(j) = m + n
      /\ \A i \in 1 .. m + n : j[i] = IF i <= m THEN rs[i] ELSE f[i - m]
  <2> HIDE DEF f
  <2>1. f \in Seq(RowType)
    BY <1>1
  <2>2. /\ j \in Seq(RowType) /\ Len(j) = Len(rs) + Len(f)
        /\ \A i \in 1 .. Len(rs) + Len(f) : j[i] = IF i <= Len(rs) THEN rs[i] ELSE f[i - Len(rs)]
    BY <2>1, ConcatProperties
  <2> QED BY <1>1, <2>2
<1> HIDE DEF f, j, m, n
<1>3. \A i \in 1 .. m : i \in 1 .. m + n /\ j[i] = rs[i]
  BY <1>1, <1>2
<1>4. ASSUME NEW i \in 1 .. m + n, i > m
      PROVE  /\ i - m \in 1 .. n /\ j[i].req = s[i - m]
             /\ j[i].produced = 0 /\ j[i].finished = FALSE
  <2>1. i - m \in 1 .. n /\ ~(i <= m)
    BY <1>1, <1>4
  <2> QED BY <1>1, <1>2, <2>1
<1>5. ASSUME NEW i \in 1 .. n PROVE m + i \in 1 .. m + n /\ j[m + i].req = s[i]
  <2>0. m \in Nat /\ n \in Nat
    BY <1>1
  <2>1. PICK k \in 1 .. m + n : k = m + i /\ k > m /\ k - m = i
    BY <2>0
  <2>2. j[k].req = s[k - m]
    BY <1>4, <2>1
  <2> QED BY <2>1, <2>2
<1>6. \A i \in 1 .. m + n : i > m => j[i].req \in Range(s)
  BY <1>1, <1>4 DEF Range
<1>7. ReqSet(j) = ReqSet(rs) \cup Range(s)
  <2>1. \A x : x \in ReqSet(rs) => x \in ReqSet(j)
    BY <1>2, <1>3 DEF ReqSet, m
  <2>2. \A x : x \in Range(s) => x \in ReqSet(j)
    BY <1>1, <1>2, <1>5 DEF ReqSet, Range
  <2>3. ASSUME NEW i \in 1 .. m + n PROVE j[i].req \in ReqSet(rs) \cup Range(s)
    <3>1. CASE i <= m
      <4>1. i \in 1 .. m
        BY <1>1, <3>1
      <4>2. j[i] = rs[i]
        BY <1>3, <4>1
      <4> QED BY <4>1, <4>2 DEF ReqSet, m
    <3>2. CASE ~(i <= m)
      BY <1>1, <1>6, <3>2
    <3> QED BY <3>1, <3>2
  <2> QED BY <1>2, <2>1, <2>2, <2>3 DEF ReqSet
<1>8. ASSUME OneRowEach(rs), Distinct(s), ReqSet(rs) \cap Range(s) = {},
             NEW i \in 1 .. m + n, NEW k \in 1 .. m + n, j[i].req = j[k].req
      PROVE  i = k
  <2>0. \A l \in 1 .. m + n : l <= m => l \in 1 .. m /\ j[l] = rs[l] /\ j[l].req \in ReqSet(rs)
    BY <1>1, <1>3 DEF ReqSet, m
  <2>1. CASE i <= m /\ k <= m
    BY <1>8, <2>0, <2>1 DEF OneRowEach, m
  <2>2. CASE ~(i <= m) /\ ~(k <= m)
    <3>1. i - m \in 1 .. n /\ k - m \in 1 .. n /\ s[i - m] = s[k - m]
      <4>1. i > m /\ k > m
        BY <1>1, <2>2
      <4>2. i - m \in 1 .. n /\ j[i].req = s[i - m]
        BY <1>4, <4>1
      <4>3. k - m \in 1 .. n /\ j[k].req = s[k - m]
        BY <1>4, <4>1
      <4> QED BY <1>8, <4>2, <4>3
    <3>2. i - m = k - m
      BY <1>8, <3>1 DEF Distinct, n
    <3> QED BY <1>1, <3>2
  <2>3. CASE i <= m /\ ~(k <= m)
    <3>1. j[i].req \in ReqSet(rs) /\ j[k].req \in Range(s)
      BY <1>1, <1>6, <2>0, <2>3
    <3> QED BY <1>8, <3>1
  <2>4. CASE ~(i <= m) /\ k <= m
    <3>1. j[k].req \in ReqSet(rs) /\ j[i].req \in Range(s)
      BY <1>1, <1>6, <2>0, <2>4
    <3> QED BY <1>8, <3>1
  <2> QED BY <2>1, <2>2, <2>3, <2>4
<1>9. OneRowEach(rs) /\ Distinct(s) /\ ReqSet(rs) \cap Range(s) = {} => OneRowEach(j)
  BY <1>2, <1>8 DEF OneRowEach
<1> QED BY <1>2, <1>3, <1>4, <1>6, <1>7, <1>9 DEF f, j, m, n

(* The compaction of the batch: each request with a row is in exactly one of
   the part that stays and the part that leaves.                           *)
LEMMA RowsSplit ==
    ASSUME NEW rs \in Seq(RowType)
    PROVE  LET stay  == Keep(rs, {row \in RowType : ~row.finished})
               leave == Keep(rs, {row \in RowType : row.finished}) IN
           /\ stay \in Seq(RowType) /\ leave \in Seq(RowType)
           /\ \A i \in 1 .. Len(stay) :
                 ~stay[i].finished /\ \E k \in 1 .. Len(rs) : stay[i] = rs[k]
           /\ \A i \in 1 .. Len(leave) :
                 leave[i].finished /\ \E k \in 1 .. Len(rs) : leave[i] = rs[k]
           /\ ReqSet(stay) \cup ReqSet(leave) = ReqSet(rs)
           /\ OneRowEach(rs) => /\ OneRowEach(stay) /\ OneRowEach(leave)
                                /\ ReqSet(stay) \cap ReqSet(leave) = {}
           /\ (\A i \in 1 .. Len(rs) : rs[i].finished) <=> stay = <<>>
<1> DEFINE T1 == {row \in RowType : ~row.finished}
           T2 == {row \in RowType : row.finished}
           a == Keep(rs, T1)
           z == Keep(rs, T2)
<1>1. /\ a \in Seq(RowType) /\ DOMAIN a = 1 .. Len(a) /\ Len(a) \in Nat
      /\ z \in Seq(RowType) /\ DOMAIN z = 1 .. Len(z)
      /\ DOMAIN rs = 1 .. Len(rs) /\ \A i \in 1 .. Len(rs) : rs[i] \in RowType
  <2> HIDE DEF T1, T2
  <2> QED BY KeepEmbeds
<1>2. Range(a) = Range(rs) \cap T1 /\ Range(z) = Range(rs) \cap T2
  <2> HIDE DEF T1, T2
  <2> QED BY KeepRange
<1>0. \E d \in [1 .. Len(z) -> 1 .. Len(rs)] :
              /\ \A i \in 1 .. Len(z) : z[i] = rs[d[i]]
              /\ \A i, j \in 1 .. Len(z) : d[i] = d[j] => i = j
  <2> HIDE DEF T1, T2
  <2> QED BY KeepPositions
<1>3. PICK e \in [1 .. Len(a) -> 1 .. Len(rs)] :
              /\ \A i \in 1 .. Len(a) : a[i] = rs[e[i]]
              /\ \A i, j \in 1 .. Len(a) : e[i] = e[j] => i = j
  <2> HIDE DEF T1, T2
  <2> QED BY KeepPositions
<1>4. PICK d \in [1 .. Len(z) -> 1 .. Len(rs)] :
              /\ \A i \in 1 .. Len(z) : z[i] = rs[d[i]]
              /\ \A i, j \in 1 .. Len(z) : d[i] = d[j] => i = j
  BY <1>0
<1> HIDE DEF a, z
<1>5. \A i \in 1 .. Len(a) : a[i] \in Range(rs) /\ ~a[i].finished
  BY <1>1, <1>2 DEF Range
<1>6. \A i \in 1 .. Len(z) : z[i] \in Range(rs) /\ z[i].finished
  BY <1>1, <1>2 DEF Range
<1>7. /\ \A i \in 1 .. Len(a) : \E k \in 1 .. Len(rs) : a[i] = rs[k]
      /\ \A i \in 1 .. Len(z) : \E k \in 1 .. Len(rs) : z[i] = rs[k]
  BY <1>3, <1>4
<1>8. ReqSet(a) \cup ReqSet(z) = ReqSet(rs)
  <2>1. \A x : x \in ReqSet(a) \/ x \in ReqSet(z) => x \in ReqSet(rs)
    <3>1. ASSUME NEW i \in 1 .. Len(a) PROVE a[i].req \in ReqSet(rs)
      <4>1. PICK k \in 1 .. Len(rs) : a[i] = rs[k]
        BY <1>7
      <4> QED BY <4>1 DEF ReqSet
    <3>2. ASSUME NEW i \in 1 .. Len(z) PROVE z[i].req \in ReqSet(rs)
      <4>1. PICK k \in 1 .. Len(rs) : z[i] = rs[k]
        BY <1>7
      <4> QED BY <4>1 DEF ReqSet
    <3>3. ReqSet(a) \subseteq ReqSet(rs)
      BY <3>1 DEF ReqSet
    <3>4. ReqSet(z) \subseteq ReqSet(rs)
      BY <3>2 DEF ReqSet
    <3> QED BY <3>3, <3>4
  <2>2. ASSUME NEW i \in 1 .. Len(rs) PROVE rs[i].req \in ReqSet(a) \cup ReqSet(z)
    <3>1. rs[i] \in Range(a) \/ rs[i] \in Range(z)
      BY <1>1, <1>2 DEF Range
    <3>2. (\E k \in 1 .. Len(a) : a[k] = rs[i]) \/ (\E k \in 1 .. Len(z) : z[k] = rs[i])
      BY <1>1, <3>1 DEF Range
    <3> QED BY <3>2 DEF ReqSet
  <2> QED BY <2>1, <2>2 DEF ReqSet
<1>9. ASSUME OneRowEach(rs)
      PROVE  OneRowEach(a) /\ OneRowEach(z) /\ ReqSet(a) \cap ReqSet(z) = {}
  <2>1. OneRowEach(a)
    BY <1>3, <1>9 DEF OneRowEach
  <2>2. OneRowEach(z)
    <3> SUFFICES ASSUME NEW i \in 1 .. Len(z), NEW j \in 1 .. Len(z), z[i].req = z[j].req
                 PROVE  i = j
      BY DEF OneRowEach
    <3>1. d[i] \in 1 .. Len(rs) /\ d[j] \in 1 .. Len(rs) /\ rs[d[i]].req = rs[d[j]].req
      BY <1>4
    <3>2. d[i] = d[j]
      BY <1>9, <3>1 DEF OneRowEach
    <3> QED BY <1>4, <3>2
  <2>3. ASSUME NEW i \in 1 .. Len(a), NEW j \in 1 .. Len(z), a[i].req = z[j].req PROVE FALSE
    <3>1. e[i] \in 1 .. Len(rs) /\ d[j] \in 1 .. Len(rs) /\ rs[e[i]].req = rs[d[j]].req
      BY <1>3, <1>4, <2>3
    <3>2. e[i] = d[j]
      BY <1>9, <3>1 DEF OneRowEach
    <3>3. a[i] = z[j]
      BY <1>3, <1>4, <3>2
    <3> QED BY <1>5, <1>6, <3>3
  <2> QED BY <2>1, <2>2, <2>3 DEF ReqSet
<1>10. (\A i \in 1 .. Len(rs) : rs[i].finished) <=> a = <<>>
  <2>1. ASSUME \A i \in 1 .. Len(rs) : rs[i].finished PROVE a = <<>>
    <3>1. \A i \in 1 .. Len(a) : FALSE
      BY <1>5, <1>7, <2>1
    <3>2. Len(a) = 0
      BY <1>1, <3>1
    <3> QED BY <1>1, <3>2, EmptySeq
  <2>2. ASSUME a = <<>>, NEW i \in 1 .. Len(rs) PROVE rs[i].finished
    <3>1. rs[i] \notin Range(a)
      BY <1>1, <2>2 DEF Range
    <3> QED BY <1>1, <1>2, <3>1 DEF Range
  <2> QED BY <2>1, <2>2
<1> QED BY <1>1, <1>5, <1>6, <1>7, <1>8, <1>9, <1>10 DEF a, z

(* A row that is changed and still belongs to its request.                 *)
LEMMA RowChanged ==
    ASSUME NEW rs \in Seq(RowType), NEW c \in 1 .. Len(rs), NEW row \in RowType,
           row.req = rs[c].req
    PROVE  LET n == [rs EXCEPT ![c] = row] IN
           /\ n \in Seq(RowType) /\ Len(n) = Len(rs) /\ n[c] = row
           /\ \A i \in 1 .. Len(rs) : n[i].req = rs[i].req
           /\ \A i \in 1 .. Len(rs) : i # c => n[i] = rs[i]
           /\ ReqSet(n) = ReqSet(rs)
           /\ OneRowEach(rs) => OneRowEach(n)
<1> DEFINE n == [rs EXCEPT ![c] = row]
<1>1. /\ n \in Seq(RowType) /\ Len(n) = Len(rs)
      /\ \A i \in 1 .. Len(rs) : n[i] = IF i = c THEN row ELSE rs[i]
  BY ExceptSeq
<1> HIDE DEF n
<1>2. \A i \in 1 .. Len(rs) : n[i].req = rs[i].req
  BY <1>1
<1>3. ReqSet(n) = ReqSet(rs)
  BY <1>1, <1>2 DEF ReqSet
<1>4. OneRowEach(rs) => OneRowEach(n)
  BY <1>1, <1>2 DEF OneRowEach
<1> QED BY <1>1, <1>2, <1>3, <1>4 DEF n

(* The rows being closed, taken apart at the first.                        *)
LEMMA RowsTail ==
    ASSUME NEW rs \in Seq(RowType), rs # <<>>
    PROVE  /\ Head(rs) \in RowType /\ Tail(rs) \in Seq(RowType) /\ Head(rs) = rs[1]
           /\ 1 \in 1 .. Len(rs)
           /\ \A i \in 1 .. Len(Tail(rs)) : \E k \in 1 .. Len(rs) : Tail(rs)[i] = rs[k]
           /\ ReqSet(rs) = {Head(rs).req} \cup ReqSet(Tail(rs))
           /\ OneRowEach(rs) => OneRowEach(Tail(rs)) /\ Head(rs).req \notin ReqSet(Tail(rs))
<1> DEFINE t == Tail(rs)
           h == Head(rs)
<1>1. /\ h \in RowType /\ t \in Seq(RowType) /\ Len(t) = Len(rs) - 1
      /\ \A i \in 1 .. Len(t) : t[i] = rs[i + 1]
      /\ h = rs[1]
  BY HeadTailProperties
<1>2. Len(rs) \in Nat \ {0}
  BY EmptySeq
<1> HIDE DEF t, h
<1>3. \A i \in 1 .. Len(t) : i + 1 \in 1 .. Len(rs) /\ i + 1 # 1 /\ t[i] = rs[i + 1]
  BY <1>1, <1>2
<1>4. 1 \in 1 .. Len(rs)
  BY <1>2
<1>5. ASSUME NEW i \in 1 .. Len(rs) PROVE rs[i].req = h.req \/ rs[i].req \in ReqSet(t)
  <2>1. CASE i = 1
    BY <1>1, <2>1
  <2>2. CASE i # 1
    <3>1. PICK j \in 1 .. Len(t) : j + 1 = i
      <4>1. i - 1 \in 1 .. Len(t) /\ i - 1 + 1 = i
        BY <1>1, <1>2, <2>2
      <4> QED BY <4>1
    <3>2. t[j] = rs[i]
      BY <1>3, <3>1
    <3> QED BY <3>2 DEF ReqSet
  <2> QED BY <2>1, <2>2
<1>6. ReqSet(rs) = {h.req} \cup ReqSet(t)
  <2>1. h.req \in ReqSet(rs)
    BY <1>1, <1>4 DEF ReqSet
  <2>2. \A x \in ReqSet(t) : x \in ReqSet(rs)
    BY <1>3 DEF ReqSet
  <2>3. \A x \in ReqSet(rs) : x = h.req \/ x \in ReqSet(t)
    BY <1>5 DEF ReqSet
  <2> QED BY <2>1, <2>2, <2>3
<1>7. ASSUME OneRowEach(rs) PROVE OneRowEach(t) /\ h.req \notin ReqSet(t)
  <2>1. ASSUME NEW i \in 1 .. Len(t), NEW j \in 1 .. Len(t), t[i].req = t[j].req PROVE i = j
    <3>1. i + 1 = j + 1
      BY <1>3, <1>7, <2>1 DEF OneRowEach
    <3> QED BY <3>1
  <2>2. ASSUME NEW i \in 1 .. Len(t) PROVE t[i].req # h.req
    <3>1. i + 1 \in 1 .. Len(rs) /\ i + 1 # 1 /\ t[i] = rs[i + 1] /\ 1 \in 1 .. Len(rs)
      BY <1>3, <1>4
    <3> QED BY <1>1, <1>7, <3>1 DEF OneRowEach
  <2> QED BY <2>1, <2>2 DEF OneRowEach, ReqSet
<1> QED BY <1>1, <1>3, <1>4, <1>6, <1>7 DEF t, h

(* No rows, and the one row of a request that is ended early.              *)
LEMMA FewRows ==
    /\ ReqSet(<<>>) = {} /\ OneRowEach(<<>>)
    /\ \A r \in Request : /\ <<FreshRow(r)>> \in Seq(RowType) /\ <<FreshRow(r)>> # <<>>
                          /\ FreshRow(r).req = r
                          /\ ReqSet(<<FreshRow(r)>>) = {r} /\ OneRowEach(<<FreshRow(r)>>)
<1>1. ReqSet(<<>>) = {} /\ OneRowEach(<<>>)
  BY DEF ReqSet, OneRowEach
<1>2. ASSUME NEW r \in Request
      PROVE  /\ <<FreshRow(r)>> \in Seq(RowType) /\ <<FreshRow(r)>> # <<>>
             /\ FreshRow(r).req = r
             /\ ReqSet(<<FreshRow(r)>>) = {r} /\ OneRowEach(<<FreshRow(r)>>)
  <2> DEFINE f == FreshRow(r)
  <2>1. f \in RowType /\ f.req = r
    BY DEF FreshRow, RowType
  <2> HIDE DEF f
  <2>2. <<f>> \in Seq(RowType) /\ <<f>> # <<>> /\ Len(<<f>>) = 1 /\ <<f>>[1] = f
    BY <2>1
  <2> DEFINE o == <<f>>
  <2> HIDE DEF o
  <2>3. ReqSet(o) = {r} /\ OneRowEach(o)
    BY <2>1, <2>2 DEF ReqSet, OneRowEach, o
  <2> QED BY <2>1, <2>2, <2>3 DEF f, o
<1> QED BY <1>1, <1>2

(* A family of groups without its first.                                   *)
LEMMA GroupsTail ==
    ASSUME NEW f \in Seq(Seq(Request)), f # <<>>
    PROVE  /\ Head(f) \in Seq(Request) /\ Tail(f) \in Seq(Seq(Request)) /\ 1 \in 1 .. Len(f)
           /\ Head(f) = f[1]
           /\ \A i \in 1 .. Len(Tail(f)) : \E k \in 1 .. Len(f) : Tail(f)[i] = f[k]
           /\ Members(f) = Range(Head(f)) \cup Members(Tail(f))
           /\ Apart(f) => /\ Apart(Tail(f)) /\ Head(f) # <<>> /\ Distinct(Head(f))
                          /\ Range(Head(f)) \cap Members(Tail(f)) = {}
<1> DEFINE t == Tail(f)
           h == Head(f)
<1>1. /\ h \in Seq(Request) /\ t \in Seq(Seq(Request)) /\ Len(t) = Len(f) - 1
      /\ \A i \in 1 .. Len(t) : t[i] = f[i + 1]
      /\ h = f[1]
  BY HeadTailProperties
<1>2. Len(f) \in Nat \ {0}
  BY EmptySeq
<1> HIDE DEF t, h
<1>3. \A i \in 1 .. Len(t) : i + 1 \in 1 .. Len(f) /\ i + 1 # 1 /\ t[i] = f[i + 1]
  BY <1>1, <1>2
<1>4. 1 \in 1 .. Len(f)
  BY <1>2
<1>5. ASSUME NEW i \in 1 .. Len(f), i # 1 PROVE \E k \in 1 .. Len(t) : t[k] = f[i]
  <2>1. i - 1 \in 1 .. Len(t) /\ i - 1 + 1 = i
    BY <1>1, <1>2, <1>5
  <2>2. PICK k \in 1 .. Len(t) : k + 1 = i
    BY <2>1
  <2> QED BY <1>3, <2>2
<1>6. Members(f) = Range(h) \cup Members(t)
  <2>1. ASSUME NEW x \in Members(f) PROVE x \in Range(h) \/ x \in Members(t)
    <3>1. PICK i \in 1 .. Len(f) : x \in Range(f[i])
      BY DEF Members
    <3>2. CASE i = 1
      BY <1>1, <3>1, <3>2
    <3>3. CASE i # 1
      BY <1>5, <3>1, <3>3 DEF Members
    <3> QED BY <3>2, <3>3
  <2>2. \A x \in Range(h) : x \in Members(f)
    BY <1>1, <1>4 DEF Members
  <2>3. \A x \in Members(t) : x \in Members(f)
    <3> SUFFICES ASSUME NEW i \in 1 .. Len(t), NEW x \in Range(t[i]) PROVE x \in Members(f)
      BY DEF Members
    <3>1. PICK k \in 1 .. Len(f) : t[i] = f[k]
      BY <1>3
    <3> QED BY <3>1 DEF Members
  <2> QED BY <2>1, <2>2, <2>3
<1>7. ASSUME Apart(f)
      PROVE  /\ Apart(t) /\ h # <<>> /\ Distinct(h) /\ Range(h) \cap Members(t) = {}
  <2>1. h # <<>> /\ Distinct(h)
    BY <1>1, <1>4, <1>7 DEF Apart
  <2>2. \A i \in 1 .. Len(t) : t[i] # <<>> /\ Distinct(t[i])
    BY <1>3, <1>7 DEF Apart
  <2>3. ASSUME NEW i \in 1 .. Len(t), NEW j \in 1 .. Len(t), i # j
        PROVE  Range(t[i]) \cap Range(t[j]) = {}
    <3>1. i + 1 # j + 1 /\ i + 1 \in 1 .. Len(f) /\ j + 1 \in 1 .. Len(f)
      BY <1>3, <2>3
    <3>2. t[i] = f[i + 1] /\ t[j] = f[j + 1]
      BY <1>3
    <3> QED BY <1>7, <3>1, <3>2 DEF Apart
  <2>4. ASSUME NEW i \in 1 .. Len(t) PROVE Range(h) \cap Range(t[i]) = {}
    <3>1. 1 # i + 1 /\ i + 1 \in 1 .. Len(f) /\ t[i] = f[i + 1]
      BY <1>3
    <3> QED BY <1>1, <1>4, <1>7, <3>1 DEF Apart
  <2>5. Range(h) \cap Members(t) = {}
    BY <2>4 DEF Members
  <2> QED BY <2>1, <2>2, <2>3, <2>5 DEF Apart
<1> QED BY <1>1, <1>3, <1>4, <1>6, <1>7 DEF t, h

(* Two families one after the other.                                       *)
LEMMA GroupsConcat ==
    ASSUME NEW f \in Seq(Seq(Request)), NEW g \in Seq(Seq(Request))
    PROVE  /\ f \o g \in Seq(Seq(Request))
           /\ Members(f \o g) = Members(f) \cup Members(g)
           /\ Apart(f) /\ Apart(g) /\ Members(f) \cap Members(g) = {} => Apart(f \o g)
<1> DEFINE u == f \o g
           m == Len(f)
           n == Len(g)
<1>1. /\ u \in Seq(Seq(Request)) /\ Len(u) = m + n
      /\ \A i \in 1 .. m + n : u[i] = IF i <= m THEN f[i] ELSE g[i - m]
  BY ConcatProperties
<1>2. m \in Nat /\ n \in Nat
  OBVIOUS
<1> HIDE DEF u, m, n
<1>3. \A i \in 1 .. m : i \in 1 .. m + n /\ u[i] = f[i]
  BY <1>1, <1>2
<1>4. ASSUME NEW i \in 1 .. n PROVE \E k \in 1 .. m + n : u[k] = g[i]
  <2>1. PICK k \in 1 .. m + n : k = m + i /\ ~(k <= m) /\ k - m = i
    BY <1>2
  <2> QED BY <1>1, <2>1
<1>5. ASSUME NEW k \in 1 .. m + n, ~(k <= m) PROVE k - m \in 1 .. n /\ u[k] = g[k - m]
  BY <1>1, <1>2, <1>5
<1>6. ASSUME NEW k \in 1 .. m + n, k <= m PROVE k \in 1 .. m /\ u[k] = f[k]
  BY <1>1, <1>2, <1>6
<1>7. ASSUME NEW k \in 1 .. m + n
      PROVE  IF k <= m THEN Range(u[k]) \subseteq Members(f) ELSE Range(u[k]) \subseteq Members(g)
  <2>1. CASE k <= m
    BY <1>6, <2>1 DEF Members, m
  <2>2. CASE ~(k <= m)
    BY <1>5, <2>2 DEF Members, n
  <2> QED BY <2>1, <2>2
<1>8. Members(u) = Members(f) \cup Members(g)
  <2>1. \A x \in Members(u) : x \in Members(f) \cup Members(g)
    BY <1>1, <1>7 DEF Members
  <2>2. \A x \in Members(f) : x \in Members(u)
    BY <1>1, <1>3 DEF Members, m
  <2>3. \A x \in Members(g) : x \in Members(u)
    <3> SUFFICES ASSUME NEW i \in 1 .. n, NEW x \in Range(g[i]) PROVE x \in Members(u)
      BY DEF Members, n
    <3>1. PICK k \in 1 .. m + n : u[k] = g[i]
      BY <1>4
    <3> QED BY <1>1, <3>1 DEF Members
  <2> QED BY <2>1, <2>2, <2>3
<1>9. ASSUME Apart(f), Apart(g), Members(f) \cap Members(g) = {} PROVE Apart(u)
  <2>1. ASSUME NEW k \in 1 .. m + n PROVE u[k] # <<>> /\ Distinct(u[k])
    <3>1. CASE k <= m
      BY <1>6, <1>9, <3>1 DEF Apart, m
    <3>2. CASE ~(k <= m)
      BY <1>5, <1>9, <3>2 DEF Apart, n
    <3> QED BY <3>1, <3>2
  <2>2. ASSUME NEW i \in 1 .. m + n, NEW k \in 1 .. m + n, i # k
        PROVE  Range(u[i]) \cap Range(u[k]) = {}
    <3>1. CASE i <= m /\ k <= m
      <4>1. i \in 1 .. m /\ u[i] = f[i] /\ k \in 1 .. m /\ u[k] = f[k]
        BY <1>6, <3>1
      <4> QED BY <1>9, <2>2, <4>1 DEF Apart, m
    <3>2. CASE ~(i <= m) /\ ~(k <= m)
      <4>1. i - m \in 1 .. n /\ u[i] = g[i - m] /\ k - m \in 1 .. n /\ u[k] = g[k - m]
        BY <1>5, <3>2
      <4>2. i - m # k - m
        BY <1>2, <2>2
      <4> QED BY <1>9, <4>1, <4>2 DEF Apart, n
    <3>3. CASE (i <= m) # (k <= m)
      <4>1. \/ Range(u[i]) \subseteq Members(f) /\ Range(u[k]) \subseteq Members(g)
            \/ Range(u[i]) \subseteq Members(g) /\ Range(u[k]) \subseteq Members(f)
        BY <1>7, <3>3
      <4> QED BY <1>9, <4>1
    <3> QED BY <3>1, <3>2, <3>3
  <2> QED BY <1>1, <2>1, <2>2 DEF Apart
<1> QED BY <1>1, <1>8, <1>9 DEF u

(* A group for each warm request, and one for all the cold ones.           *)
LEMMA WarmAndColdGroups ==
    ASSUME NEW w \in Seq(Request), Distinct(w)
    PROVE  /\ WarmGroups(w) \in Seq(Seq(Request)) /\ Apart(WarmGroups(w))
           /\ Members(WarmGroups(w)) = Range(w)
           /\ ColdGroups(w) \in Seq(Seq(Request)) /\ Apart(ColdGroups(w))
           /\ Members(ColdGroups(w)) = Range(w)
<1> DEFINE f == WarmGroups(w)
<1>1. /\ f \in Seq(Seq(Request)) /\ Len(f) = Len(w) /\ Len(w) \in Nat /\ DOMAIN w = 1 .. Len(w)
      /\ \A i \in 1 .. Len(w) : f[i] = <<w[i]>>
  BY DEF WarmGroups
<1> HIDE DEF f
<1>2. \A x : <<x>> # <<>> /\ Len(<<x>>) = 1 /\ <<x>>[1] = x /\ DOMAIN <<x>> = 1 .. 1
  OBVIOUS
<1>3. \A x : Range(<<x>>) = {x} /\ Distinct(<<x>>)
  <2> SUFFICES ASSUME NEW x PROVE Range(<<x>>) = {x} /\ Distinct(<<x>>)
    OBVIOUS
  <2> QED BY DEF Range, Distinct
<1>4. \A i \in 1 .. Len(f) : f[i] # <<>> /\ Distinct(f[i]) /\ Range(f[i]) = {w[i]}
  <2> SUFFICES ASSUME NEW i \in 1 .. Len(f)
               PROVE  f[i] # <<>> /\ Distinct(f[i]) /\ Range(f[i]) = {w[i]}
    OBVIOUS
  <2>1. f[i] = <<w[i]>>
    BY <1>1
  <2>2. PICK x : x = w[i]
    OBVIOUS
  <2>3. <<x>> # <<>> /\ Distinct(<<x>>) /\ Range(<<x>>) = {x}
    BY <1>2, <1>3
  <2> QED BY <2>1, <2>2, <2>3
<1>5. Apart(f)
  <2>1. ASSUME NEW i \in 1 .. Len(f), NEW j \in 1 .. Len(f), i # j
        PROVE  Range(f[i]) \cap Range(f[j]) = {}
    <3>1. w[i] # w[j]
      BY <1>1, <2>1 DEF Distinct
    <3> QED BY <1>4, <3>1
  <2>2. \A i \in 1 .. Len(f) : f[i] # <<>> /\ Distinct(f[i])
    BY <1>4
  <2> QED BY <2>1, <2>2 DEF Apart
<1>6. Members(f) = Range(w)
  <2>1. \A x : x \in Members(f) <=> \E i \in 1 .. Len(f) : x \in Range(f[i])
    BY DEF Members
  <2>2. \A x : x \in Range(w) <=> \E i \in 1 .. Len(f) : x = w[i]
    BY <1>1 DEF Range
  <2>3. \A x : x \in Members(f) <=> x \in Range(w)
    <3>1. \A i \in 1 .. Len(f) : \A x : x \in Range(f[i]) <=> x = w[i]
      BY <1>4
    <3> HIDE DEF f
    <3> QED BY <2>1, <2>2, <3>1, Zenon
  <2> QED BY <2>3
<1>7. /\ ColdGroups(w) \in Seq(Seq(Request)) /\ Apart(ColdGroups(w))
      /\ Members(ColdGroups(w)) = Range(w)
  <2>1. CASE w = <<>>
    <3>1. ColdGroups(w) = <<>>
      BY <2>1 DEF ColdGroups
    <3>2. Apart(<<>>) /\ Members(<<>>) = {} /\ <<>> \in Seq(Seq(Request))
      BY DEF Apart, Members
    <3> QED BY <2>1, <3>1, <3>2, EmptyDistinct
  <2>2. CASE w # <<>>
    <3> DEFINE o == <<w>>
    <3>1. ColdGroups(w) = o
      BY <2>2 DEF ColdGroups
    <3>2. o \in Seq(Seq(Request)) /\ Len(o) = 1 /\ o[1] = w
      OBVIOUS
    <3> HIDE DEF o
    <3>3. Apart(o)
      BY <2>2, <3>2 DEF Apart
    <3>4. Members(o) = Range(w)
      BY <3>2 DEF Members
    <3> QED BY <3>1, <3>2, <3>3, <3>4
  <2> QED BY <2>1, <2>2
<1> QED BY <1>1, <1>5, <1>6, <1>7 DEF f

(* split_prefix: every request of s is either warm or cold.                *)
LEMMA PrefixSplit ==
    ASSUME NEW s \in Seq(Request), Distinct(s), NEW m \in Matches(s)
    PROVE  /\ Warm(s, m) \in Seq(Request) /\ Distinct(Warm(s, m))
           /\ Cold(s, m) \in Seq(Request) /\ Distinct(Cold(s, m))
           /\ Range(Warm(s, m)) \cup Range(Cold(s, m)) = Range(s)
           /\ Range(Warm(s, m)) \cap Range(Cold(s, m)) = {}
<1> DEFINE T1 == {r \in DOMAIN m : m[r] > 0}
           T2 == {r \in DOMAIN m : m[r] = 0}
<1>1. DOMAIN m = Range(s) /\ \A r \in Range(s) : m[r] \in Nat
  <2>1. m \in [{s[i] : i \in 1 .. Len(s)} -> MatchLengths]
    BY DEF Matches
  <2>2. {s[i] : i \in 1 .. Len(s)} = Range(s)
    BY DEF Range
  <2> QED BY <2>1, <2>2, BoundsAssumption
<1>2. T1 \cup T2 = Range(s) /\ T1 \cap T2 = {}
  BY <1>1
<1> HIDE DEF T1, T2
<1>3. Keep(s, T1) \in Seq(Request) /\ Range(Keep(s, T1)) = Range(s) \cap T1 /\ Distinct(Keep(s, T1))
  BY KeepEmbeds, KeepRange, KeepDistinct
<1>4. Keep(s, T2) \in Seq(Request) /\ Range(Keep(s, T2)) = Range(s) \cap T2 /\ Distinct(Keep(s, T2))
  BY KeepEmbeds, KeepRange, KeepDistinct
<1>5. Warm(s, m) = Keep(s, T1) /\ Cold(s, m) = Keep(s, T2)
  BY DEF Warm, Cold, T1, T2
<1> QED BY <1>2, <1>3, <1>4, <1>5

(* The longest prompt of a group is that of one of its requests.           *)
LEMMA LongestExists ==
    ASSUME NEW s \in Seq(Request), s # <<>>
    PROVE  LongestPrompt(s) \in Nat
<1> DEFINE p(i) == Job[s[i]].prompt
           S == {n \in Nat : n + 1 <= Len(s) =>
                   \E k \in 1 .. n + 1 : \A i \in 1 .. n + 1 : p(i) <= p(k)}
<1>1. Len(s) \in Nat \ {0}
  BY EmptySeq
<1>2. \A i \in 1 .. Len(s) : p(i) \in Nat
  BY JobAssumption DEF JobType
<1> HIDE DEF p
<1>3. 0 \in S
  BY <1>1, <1>2
<1>4. ASSUME NEW n \in Nat, n \in S PROVE n + 1 \in S
  <2> SUFFICES ASSUME n + 1 + 1 <= Len(s)
               PROVE  \E k \in 1 .. n + 1 + 1 : \A i \in 1 .. n + 1 + 1 : p(i) <= p(k)
    OBVIOUS
  <2>1. PICK k \in 1 .. n + 1 : \A i \in 1 .. n + 1 : p(i) <= p(k)
    BY <1>1, <1>4
  <2>2. PICK l \in 1 .. Len(s) : l = n + 1 + 1
    BY <1>1
  <2>3. \A i \in 1 .. l : i \in 1 .. n + 1 \/ i = l
    BY <2>2
  <2>4. \A i \in 1 .. l : p(i) \in Nat
    BY <1>2, <2>2
  <2>5. k \in 1 .. l /\ l \in 1 .. l
    BY <2>2
  <2>6. CASE p(l) <= p(k)
    BY <2>1, <2>2, <2>3, <2>5, <2>6
  <2>7. CASE ~(p(l) <= p(k))
    <3>1. p(k) \in Nat /\ p(l) \in Nat /\ p(k) <= p(l)
      BY <2>4, <2>5, <2>7
    <3>2. ASSUME NEW i \in 1 .. l PROVE p(i) <= p(l)
      <4>1. p(i) \in Nat
        BY <2>4
      <4>2. CASE i \in 1 .. n + 1
        <5>1. p(i) <= p(k)
          BY <2>1, <4>2
        <5> HIDE DEF p
        <5> QED BY <3>1, <4>1, <5>1
      <4>3. CASE i = l
        <5> HIDE DEF p
        <5> QED BY <4>1, <4>3
      <4> QED BY <2>3, <4>2, <4>3
    <3> QED BY <2>2, <2>5, <3>2
  <2> QED BY <2>6, <2>7
<1> HIDE DEF S
<1>5. \A n \in Nat : n \in S
  BY <1>3, <1>4, SetInduction
<1>6. PICK k \in 1 .. Len(s) : \A i \in 1 .. Len(s) : p(i) <= p(k)
  <2>1. Len(s) - 1 \in S /\ Len(s) - 1 + 1 = Len(s)
    BY <1>1, <1>5
  <2> QED BY <1>1, <2>1 DEF S
<1> DEFINE X == {Job[s[i]].prompt : i \in 1 .. Len(s)}
<1>7. \E n \in X : \A i \in 1 .. Len(s) : Job[s[i]].prompt <= n
  BY <1>6 DEF p
<1>8. LongestPrompt(s) \in X
  BY <1>7 DEF LongestPrompt
<1>9. \A x \in X : x \in Nat
  BY <1>2 DEF p
<1> QED BY <1>8, <1>9

(* The units of chunked prefill and the groups they stand for.             *)
LEMMA UnitsAsGroups ==
    /\ \A p \in Seq(UnitType) :
          UnitReqs(p) \in Seq(Seq(Request)) /\ Len(UnitReqs(p)) = Len(p)
    /\ \A p \in Seq(UnitType) : p # <<>> =>
          /\ UnitReqs(p) # <<>> /\ Head(UnitReqs(p)) = Head(p).reqs
          /\ UnitReqs(Tail(p)) = Tail(UnitReqs(p)) /\ Tail(p) \in Seq(UnitType)
          /\ Head(p) \in UnitType
<1>1. ASSUME NEW p \in Seq(UnitType)
      PROVE  /\ UnitReqs(p) \in Seq(Seq(Request)) /\ Len(UnitReqs(p)) = Len(p)
             /\ \A i \in 1 .. Len(p) : UnitReqs(p)[i] = p[i].reqs
  <2>1. \A i \in 1 .. Len(p) : p[i].reqs \in Seq(Request)
    <3>1. \A i \in 1 .. Len(p) : p[i] \in UnitType
      OBVIOUS
    <3> QED BY <3>1 DEF UnitType
  <2> QED BY <2>1 DEF UnitReqs
<1>2. ASSUME NEW p \in Seq(UnitType), p # <<>>
      PROVE  /\ UnitReqs(p) # <<>> /\ Head(UnitReqs(p)) = Head(p).reqs
             /\ UnitReqs(Tail(p)) = Tail(UnitReqs(p)) /\ Tail(p) \in Seq(UnitType)
             /\ Head(p) \in UnitType
  <2> DEFINE u == UnitReqs(p)
             t == Tail(p)
  <2>1. /\ Head(p) \in UnitType /\ t \in Seq(UnitType) /\ Len(t) = Len(p) - 1
        /\ \A i \in 1 .. Len(t) : t[i] = p[i + 1]
        /\ Head(p) = p[1]
    BY <1>2, HeadTailProperties
  <2>2. Len(p) \in Nat \ {0}
    BY <1>2, EmptySeq
  <2>3. u \in Seq(Seq(Request)) /\ Len(u) = Len(p) /\ \A i \in 1 .. Len(p) : u[i] = p[i].reqs
    BY <1>1
  <2>4. /\ UnitReqs(t) \in Seq(Seq(Request)) /\ Len(UnitReqs(t)) = Len(t)
        /\ \A i \in 1 .. Len(t) : UnitReqs(t)[i] = t[i].reqs
    BY <1>1, <2>1
  <2> HIDE DEF u, t
  <2>5. u # <<>>
    BY <2>2, <2>3
  <2>6. /\ Tail(u) \in Seq(Seq(Request)) /\ Len(Tail(u)) = Len(u) - 1
        /\ \A i \in 1 .. Len(Tail(u)) : Tail(u)[i] = u[i + 1]
        /\ Head(u) = u[1]
    BY <2>3, <2>5, HeadTailProperties
  <2>7. Head(u) = Head(p).reqs
    BY <2>1, <2>2, <2>3, <2>6
  <2>8. ASSUME NEW i \in 1 .. Len(t) PROVE UnitReqs(t)[i] = Tail(u)[i]
    <3>1. i \in 1 .. Len(Tail(u)) /\ i + 1 \in 1 .. Len(p)
      BY <2>1, <2>2, <2>3, <2>6
    <3>2. Tail(u)[i] = p[i + 1].reqs
      BY <2>3, <2>6, <3>1
    <3> QED BY <2>1, <2>4, <3>2
  <2>9. UnitReqs(t) = Tail(u)
    BY <2>1, <2>3, <2>4, <2>6, <2>8, SeqEqual
  <2> QED BY <2>1, <2>5, <2>7, <2>9 DEF u, t
<1> QED BY <1>1, <1>2

-----------------------------------------------------------------------------
(* Control: types, and what is empty where.                                *)

(* TypeOK, the worker's half and the requests' half.                     *)
WorkerTypes ==
    /\ waiting \in Seq(Request) /\ stop \in BOOLEAN
    /\ pc \in WorkerPC
    /\ ret \in {"none", "dispatch", "admit", "evict1", "evict2", "decode", "publish", "top"}
    /\ cur \in Nat
    /\ incoming \in Seq(Request) /\ gen \in Seq(Request)
    /\ groups \in Seq(Seq(Request))
    /\ pending \in Seq(UnitType)
    /\ rows \in Seq(RowType)
    /\ closing \in Seq(RowType)
    /\ active \in Nat /\ completed \in Nat /\ emitted \in Nat /\ unstamped \in Nat

RequestTypes ==
    /\ tokens \in [Request -> QueueType]
    /\ logprobs \in [Request -> QueueType]
    /\ cancelled \in [Request -> BOOLEAN]
    /\ reason \in [Request -> Reasons]
    /\ client \in [Request -> ClientPC]
    /\ atCancel \in [Request -> Int]

(* The type invariant in its two halves.                                   *)
LEMMA TypeHalves ==
    /\ TypeOK <=> WorkerTypes /\ RequestTypes
    /\ TypeOK' <=> WorkerTypes' /\ RequestTypes'
BY DEF TypeOK, WorkerTypes, RequestTypes

(* The first state.                                                        *)
LEMMA ControlInit == Init => Control
<1> SUFFICES ASSUME Init PROVE Control
  OBVIOUS
<1>1. WorkerTypes
  <2>1. /\ <<>> \in Seq(Request) /\ <<>> \in Seq(Seq(Request))
        /\ <<>> \in Seq(UnitType) /\ <<>> \in Seq(RowType)
    BY EmptySeq
  <2>2. pc \in WorkerPC
    BY DEF Init, WorkerPC
  <2> QED BY <2>1, <2>2 DEF Init, WorkerTypes
<1>2. RequestTypes
  <2>1. EmptyQueue \in QueueType
    BY DEF EmptyQueue, QueueType
  <2>2. "" \in Reasons /\ "new" \in ClientPC /\ -1 \in Int
    BY DEF Reasons, ClientPC
  <2> QED BY <2>1, <2>2 DEF Init, RequestTypes
<1>3. Loops
  BY DEF Init, Loops, RowLoop, CloseLoop
<1>4. Locals
  BY DEF Init, Locals, Home, RowLoop, CloseLoop
<1>5. Nonempty
  <2>1. \A i \in 1 .. Len(<<>>) : FALSE
    OBVIOUS
  <2> QED BY <2>1 DEF Init, Nonempty
<1> QED BY <1>1, <1>2, <1>3, <1>4, <1>5, TypeHalves DEF Control

(* Queues keep their type.                                                 *)
LEMMA QueueTypes ==
    ASSUME NEW c \in QueueType
    PROVE  /\ c.sent \in Nat /\ c.got \in Nat /\ c.closed \in BOOLEAN
           /\ PushItem(c) \in QueueType /\ PopItem(c) \in QueueType /\ CloseItem(c) \in QueueType
           /\ PushItem(c).got = c.got /\ PushItem(c).closed = c.closed
           /\ PushItem(c).sent = IF c.closed THEN c.sent ELSE c.sent + 1
           /\ PopItem(c).sent = c.sent /\ PopItem(c).closed = c.closed
           /\ PopItem(c).got = IF c.got < c.sent THEN c.got + 1 ELSE c.got
           /\ CloseItem(c).sent = c.sent /\ CloseItem(c).got = c.got /\ CloseItem(c).closed
<1>1. c.sent \in Nat /\ c.got \in Nat /\ c.closed \in BOOLEAN
  BY DEF QueueType
<1>2. ASSUME NEW n \in Nat
      PROVE  /\ [c EXCEPT !.sent = n] \in QueueType /\ [c EXCEPT !.sent = n].sent = n
             /\ [c EXCEPT !.sent = n].got = c.got /\ [c EXCEPT !.sent = n].closed = c.closed
  BY DEF QueueType
<1>3. ASSUME NEW n \in Nat
      PROVE  /\ [c EXCEPT !.got = n] \in QueueType /\ [c EXCEPT !.got = n].got = n
             /\ [c EXCEPT !.got = n].sent = c.sent /\ [c EXCEPT !.got = n].closed = c.closed
  BY DEF QueueType
<1>4. /\ CloseItem(c) \in QueueType
      /\ CloseItem(c).sent = c.sent /\ CloseItem(c).got = c.got /\ CloseItem(c).closed
  BY DEF QueueType, CloseItem
<1>5. /\ PushItem(c) \in QueueType
      /\ PushItem(c).got = c.got /\ PushItem(c).closed = c.closed
      /\ PushItem(c).sent = IF c.closed THEN c.sent ELSE c.sent + 1
  <2>1. CASE c.closed
    BY <2>1 DEF PushItem
  <2>2. CASE ~c.closed
    <3>1. PushItem(c) = [c EXCEPT !.sent = c.sent + 1] /\ c.sent + 1 \in Nat
      BY <1>1, <2>2 DEF PushItem
    <3> QED BY <1>2, <2>2, <3>1
  <2> QED BY <2>1, <2>2
<1>6. /\ PopItem(c) \in QueueType
      /\ PopItem(c).sent = c.sent /\ PopItem(c).closed = c.closed
      /\ PopItem(c).got = IF c.got < c.sent THEN c.got + 1 ELSE c.got
  <2>1. CASE ~(c.got < c.sent)
    BY <2>1 DEF PopItem, HasItem
  <2>2. CASE c.got < c.sent
    <3>1. PopItem(c) = [c EXCEPT !.got = c.got + 1] /\ c.got + 1 \in Nat
      BY <1>1, <2>2 DEF PopItem, HasItem
    <3> QED BY <1>3, <2>2, <3>1
  <2> QED BY <2>1, <2>2
<1> QED BY <1>1, <1>4, <1>5, <1>6

(* What the requests' threads do to the types of what they share.          *)
LEMMA RequestTypesKept ==
    ASSUME TypeOK, NEW r \in Request
    PROVE  /\ Submit(r) \/ Cancel(r) \/ Free(r) \/ Client(r) => RequestTypes'
           /\ Submit(r) => UNCHANGED <<stop, workerVars, requestVars, atCancel>>
           /\ Cancel(r) \/ Free(r) \/ Client(r) => UNCHANGED <<schedVars, workerVars>>
<1> USE TypeHalves
<1>0. \A from : Handled(r, from) \in ClientPC
  BY DEF Handled, ClientPC
<1>1. tokens[r] \in QueueType /\ logprobs[r] \in QueueType
  BY DEF RequestTypes
<1>2. SetCancelled(r) => /\ cancelled' \in [Request -> BOOLEAN]
                         /\ atCancel' \in [Request -> Int]
  BY <1>1, QueueTypes DEF SetCancelled, RequestTypes
<1>3. PopItem(tokens[r]) \in QueueType /\ PopItem(logprobs[r]) \in QueueType
  BY <1>1, QueueTypes
<1>4. Submit(r) => RequestTypes' /\ UNCHANGED <<stop, workerVars, requestVars, atCancel>>
  BY DEF Submit, RequestTypes, requestVars, ClientPC
<1>5. Cancel(r) => RequestTypes' /\ UNCHANGED <<schedVars, workerVars>>
  BY <1>2 DEF Cancel, RequestTypes
<1>6. Free(r) => RequestTypes' /\ UNCHANGED <<schedVars, workerVars>>
  BY <1>2 DEF Free, RequestTypes, ClientPC
<1>7. PopToken(r) => RequestTypes' /\ UNCHANGED <<schedVars, workerVars>>
  BY <1>0, <1>3 DEF PopToken, RequestTypes, ClientPC
<1>8. PopLogprob(r) => RequestTypes' /\ UNCHANGED <<schedVars, workerVars>>
  BY <1>0, <1>3 DEF PopLogprob, RequestTypes
<1>9. PopEnd(r) => RequestTypes' /\ UNCHANGED <<schedVars, workerVars>>
  BY DEF PopEnd, RequestTypes, ClientPC, requestVars
<1>10. SendFrame(r) => RequestTypes' /\ UNCHANGED <<schedVars, workerVars>>
  BY DEF SendFrame, RequestTypes, ClientPC, requestVars
<1>11. SendFails(r) => RequestTypes' /\ UNCHANGED <<schedVars, workerVars>>
  BY <1>2 DEF SendFails, RequestTypes, ClientPC
<1> QED BY <1>4, <1>5, <1>6, <1>7, <1>8, <1>9, <1>10, <1>11 DEF Client

(* The requests' threads and stop().                                       *)
LEMMA ControlCallers ==
    ASSUME Control
    PROVE  /\ \A r \in Request : Submit(r) \/ Cancel(r) \/ Free(r) \/ Client(r) => Control'
           /\ Stop => Control'
           /\ UNCHANGED vars => Control'
<1>0. TypeOK /\ WorkerTypes /\ RequestTypes
  BY TypeHalves DEF Control
<1>1. ASSUME NEW r \in Request, Submit(r) PROVE Control'
  <2>1. RequestTypes' /\ UNCHANGED <<stop, workerVars>> /\ ~stop
    BY <1>0, <1>1, RequestTypesKept DEF Submit
  <2>2. waiting' \in Seq(Request)
    <3>1. waiting' = waiting \/ waiting' = Append(waiting, r)
      BY <1>1 DEF Submit
    <3>2. waiting \in Seq(Request)
      BY <1>0 DEF WorkerTypes
    <3>3. Append(waiting, r) \in Seq(Request)
      BY <3>2, AppendProperties
    <3> QED BY <3>1, <3>2, <3>3
  <2>3. WorkerTypes'
    BY <1>0, <2>1, <2>2 DEF WorkerTypes, workerVars, loopVars, admitVars, metricVars
  <2>4. Loops' /\ Nonempty'
    BY <2>1 DEF Control, Loops, Nonempty, RowLoop, CloseLoop, workerVars, loopVars, admitVars
  <2>5. Locals'
    BY <2>1 DEF Control, Locals, Home, RowLoop, CloseLoop, workerVars, loopVars, admitVars
  <2> QED BY <2>1, <2>3, <2>4, <2>5, TypeHalves DEF Control
<1>2. ASSUME RequestTypes', UNCHANGED <<schedVars, workerVars>> PROVE Control'
  <2>3. WorkerTypes'
    BY <1>0, <1>2 DEF WorkerTypes, schedVars, workerVars, loopVars, admitVars, metricVars
  <2>4. Loops' /\ Nonempty'
    BY <1>2 DEF Control, Loops, Nonempty, RowLoop, CloseLoop, schedVars, workerVars, loopVars, admitVars
  <2>5. Locals'
    BY <1>2 DEF Control, Locals, Home, RowLoop, CloseLoop, schedVars, workerVars, loopVars, admitVars
  <2> QED BY <1>2, <2>3, <2>4, <2>5, TypeHalves DEF Control
<1>3. ASSUME NEW r \in Request, Cancel(r) \/ Free(r) \/ Client(r) PROVE Control'
  BY <1>0, <1>2, <1>3, RequestTypesKept
<1>4. ASSUME Stop PROVE Control'
  <2>1. RequestTypes'
    BY <1>0, <1>4 DEF Stop, RequestTypes, requestVars, clientVars
  <2>2. UNCHANGED <<waiting, workerVars>> /\ stop' = TRUE
    BY <1>4 DEF Stop
  <2>3. WorkerTypes'
    BY <1>0, <2>2 DEF WorkerTypes, workerVars, loopVars, admitVars, metricVars
  <2>4. Loops' /\ Nonempty'
    BY <2>2 DEF Control, Loops, Nonempty, RowLoop, CloseLoop, workerVars, loopVars, admitVars
  <2>5. Locals'
    BY <2>2 DEF Control, Locals, Home, RowLoop, CloseLoop, workerVars, loopVars, admitVars
  <2> QED BY <2>1, <2>3, <2>4, <2>5, TypeHalves DEF Control
<1>5. ASSUME UNCHANGED vars PROVE Control'
  <2>1. RequestTypes'
    BY <1>0, <1>5 DEF vars, RequestTypes, requestVars, clientVars
  <2> QED BY <1>2, <1>5, <2>1 DEF vars
<1> QED BY <1>1, <1>3, <1>4, <1>5

(* take_waiting: what is taken and what stays.                             *)
LEMMA TakeSplits ==
    ASSUME WorkerTypes, NEW max \in Nat, Take(max)
    PROVE  /\ incoming' \in Seq(Request) /\ waiting' \in Seq(Request)
           /\ Distinct(waiting) =>
                /\ Distinct(waiting')
                /\ \E taken \in Seq(Request) :
                      /\ incoming' = incoming \o taken /\ Distinct(taken)
                      /\ Range(taken) \cup Range(waiting') = Range(waiting)
                      /\ Range(taken) \cap Range(waiting') = {}
<1> DEFINE n == Smaller(max, Len(waiting))
           a == SubSeq(waiting, 1, n)
           z == SubSeq(waiting, n + 1, Len(waiting))
<1>0. waiting \in Seq(Request) /\ incoming \in Seq(Request) /\ Len(waiting) \in Nat
  BY DEF WorkerTypes
<1>1. n \in 0 .. Len(waiting)
  BY <1>0 DEF Smaller
<1>2. incoming' = incoming \o a /\ waiting' = z
  BY DEF Take
<1> HIDE DEF n
<1>3. a \in Seq(Request) /\ z \in Seq(Request)
  BY <1>0, <1>1, SubSeqProperties
<1>4. Distinct(waiting) => /\ Distinct(a) /\ Distinct(z)
                           /\ Range(a) \cup Range(z) = Range(waiting)
                           /\ Range(a) \cap Range(z) = {}
  BY <1>0, <1>1, CutInTwo
<1> HIDE DEF a, z
<1>5. incoming \o a \in Seq(Request)
  BY <1>0, <1>3, ConcatProperties
<1> QED BY <1>2, <1>3, <1>4, <1>5

(* register_rows, as seen by Control.                                      *)
LEMMA RegisterControl ==
    ASSUME WorkerTypes, NEW s \in Seq(Request), s # <<>>,
           NEW back \in {"dispatch", "admit", "evict1"}, RegisterRows(s, back)
    PROVE  /\ rows' \in Seq(RowType) /\ rows' # <<>>
           /\ pc' = "row" /\ ret' = back /\ cur' \in Nat /\ cur' \in 1 .. Len(rows')
<1>1. rows \in Seq(RowType) /\ Len(rows) \in Nat /\ Len(s) \in Nat \ {0}
  BY EmptySeq DEF WorkerTypes
<1>2. rows' = rows \o FreshRows(s) /\ cur' = Len(rows) + 1 /\ pc' = "row" /\ ret' = back
  BY DEF RegisterRows
<1>3. rows' \in Seq(RowType) /\ Len(rows') = Len(rows) + Len(s)
  BY <1>1, <1>2, RowsJoin
<1>4. rows' # <<>> /\ cur' \in Nat /\ cur' \in 1 .. Len(rows')
  BY <1>1, <1>2, <1>3
<1> QED BY <1>2, <1>3, <1>4

(* The pending units after enqueue_admissions, and the groups after admit.  *)
LEMMA AdmissionUnits ==
    ASSUME NEW s \in Seq(Request), Distinct(s), NEW m \in Matches(s)
    PROVE  LET u == <<>> \o WarmUnits(Warm(s, m), m) \o ColdUnits(Cold(s, m))
               g == ColdGroups(Cold(s, m)) \o WarmGroups(Warm(s, m)) IN
           /\ u \in Seq(UnitType) /\ Apart(UnitReqs(u)) /\ Members(UnitReqs(u)) = Range(s)
           /\ g \in Seq(Seq(Request)) /\ Apart(g) /\ Members(g) = Range(s)
<1> DEFINE w == Warm(s, m)
           c == Cold(s, m)
           wu == WarmUnits(w, m)
           cu == ColdUnits(c)
<1>1. /\ w \in Seq(Request) /\ Distinct(w) /\ c \in Seq(Request) /\ Distinct(c)
      /\ Range(w) \cup Range(c) = Range(s) /\ Range(w) \cap Range(c) = {}
  BY PrefixSplit
<1>2. \A i \in 1 .. Len(w) : Job[w[i]].prompt - m[w[i]] \in Nat
  <2>1. m \in [Range(s) -> MatchLengths] /\ \A r \in Range(s) : m[r] < Job[r].prompt
    <3>1. {s[i] : i \in 1 .. Len(s)} = Range(s)
      BY DEF Range
    <3> QED BY <3>1 DEF Matches
  <2> HIDE DEF w, c
  <2>2. \A i \in 1 .. Len(w) : w[i] \in Range(w) /\ w[i] \in Request
    BY <1>1 DEF Range
  <2>3. \A i \in 1 .. Len(w) : w[i] \in Range(s)
    BY <1>1, <2>2
  <2>4. \A r \in Request : Job[r].prompt \in Nat
    BY JobAssumption DEF JobType
  <2>5. \A r \in Range(s) : m[r] \in Nat
    BY <2>1, BoundsAssumption
  <2>6. ASSUME NEW i \in 1 .. Len(w) PROVE Job[w[i]].prompt - m[w[i]] \in Nat
    <3>1. w[i] \in Range(s) /\ w[i] \in Request
      BY <2>2, <2>3
    <3>2. Job[w[i]].prompt \in Nat /\ m[w[i]] \in Nat /\ m[w[i]] < Job[w[i]].prompt
      BY <2>1, <2>4, <2>5, <3>1
    <3> QED BY <3>2
  <2> QED BY <2>6
<1> HIDE DEF w, c
<1>3. /\ wu \in Seq(UnitType) /\ Len(wu) = Len(w)
      /\ \A i \in 1 .. Len(w) : wu[i].reqs = <<w[i]>>
  <2>1. \A i \in 1 .. Len(w) : <<w[i]>> \in Seq(Request)
    BY <1>1
  <2>2. \A i \in 1 .. Len(w) : [reqs |-> <<w[i]>>, left |-> Job[w[i]].prompt - m[w[i]]] \in UnitType
    BY <1>2, <2>1 DEF UnitType
  <2> QED BY <1>1, <2>2 DEF WarmUnits
<1>4. /\ cu \in Seq(UnitType)
      /\ IF c = <<>> THEN cu = <<>> ELSE Len(cu) = 1 /\ cu[1].reqs = c
  <2>1. CASE c = <<>>
    BY <2>1 DEF ColdUnits
  <2>2. CASE c # <<>>
    <3> DEFINE u == [reqs |-> c, left |-> LongestPrompt(c)]
    <3>1. u \in UnitType /\ u.reqs = c
      BY <1>1, <2>2, LongestExists DEF UnitType
    <3>2. cu = <<u>>
      BY <2>2 DEF ColdUnits
    <3> HIDE DEF u
    <3>3. <<u>> \in Seq(UnitType) /\ Len(<<u>>) = 1 /\ <<u>>[1] = u
      BY <3>1
    <3> HIDE DEF cu
    <3> QED BY <2>2, <3>1, <3>2, <3>3
  <2> QED BY <2>1, <2>2
<1> HIDE DEF wu, cu
<1> DEFINE u == <<>> \o wu \o cu
<1>5. /\ u \in Seq(UnitType) /\ Len(u) = Len(wu) + Len(cu)
      /\ \A i \in 1 .. Len(wu) + Len(cu) : u[i] = IF i <= Len(wu) THEN wu[i] ELSE cu[i - Len(wu)]
  <2>1. <<>> \o wu = wu
    BY <1>3, ConcatEmptySeq
  <2>2. wu \in Seq(UnitType) /\ cu \in Seq(UnitType)
    BY <1>3, <1>4
  <2>3. /\ wu \o cu \in Seq(UnitType) /\ Len(wu \o cu) = Len(wu) + Len(cu)
        /\ \A i \in 1 .. Len(wu) + Len(cu) :
              (wu \o cu)[i] = IF i <= Len(wu) THEN wu[i] ELSE cu[i - Len(wu)]
    BY <2>2, ConcatProperties
  <2> QED BY <2>1, <2>3
<1> HIDE DEF u
<1> DEFINE h == WarmGroups(w) \o ColdGroups(c)
<1>6. /\ WarmGroups(w) \in Seq(Seq(Request)) /\ Apart(WarmGroups(w))
      /\ Members(WarmGroups(w)) = Range(w)
      /\ ColdGroups(c) \in Seq(Seq(Request)) /\ Apart(ColdGroups(c))
      /\ Members(ColdGroups(c)) = Range(c)
  BY <1>1, WarmAndColdGroups
<1>7. h \in Seq(Seq(Request)) /\ Apart(h) /\ Members(h) = Range(s)
  BY <1>1, <1>6, GroupsConcat
<1>8. /\ ColdGroups(c) \o WarmGroups(w) \in Seq(Seq(Request))
      /\ Apart(ColdGroups(c) \o WarmGroups(w)) /\ Members(ColdGroups(c) \o WarmGroups(w)) = Range(s)
  <2> DEFINE cg == ColdGroups(c)
             wg == WarmGroups(w)
  <2>1. cg \in Seq(Seq(Request)) /\ wg \in Seq(Seq(Request)) /\ Apart(cg) /\ Apart(wg)
    BY <1>6
  <2>2. Members(cg) \cap Members(wg) = {} /\ Members(cg) \cup Members(wg) = Range(s)
    BY <1>1, <1>6
  <2> HIDE DEF cg, wg
  <2>3. cg \o wg \in Seq(Seq(Request)) /\ Apart(cg \o wg) /\ Members(cg \o wg) = Range(s)
    BY <2>1, <2>2, GroupsConcat
  <2> QED BY <2>3 DEF cg, wg
<1>9. UnitReqs(u) = h
  <2>1. /\ Len(WarmGroups(w)) = Len(w) /\ Len(w) \in Nat
        /\ \A i \in 1 .. Len(w) : WarmGroups(w)[i] = <<w[i]>>
    BY <1>1 DEF WarmGroups
  <2>2. IF c = <<>> THEN Len(ColdGroups(c)) = 0 ELSE Len(ColdGroups(c)) = 1 /\ ColdGroups(c)[1] = c
    BY DEF ColdGroups
  <2>3. Len(ColdGroups(c)) = Len(cu) /\ Len(cu) \in Nat
        /\ \A i \in 1 .. Len(cu) : ColdGroups(c)[i] = cu[i].reqs
    <3>1. CASE c = <<>>
      BY <1>4, <2>2, <3>1
    <3>2. CASE c # <<>>
      <4>1. Len(cu) = 1 /\ Len(ColdGroups(c)) = 1 /\ ColdGroups(c)[1] = cu[1].reqs
        BY <1>4, <2>2, <3>2
      <4>2. \A i \in 1 .. Len(cu) : i = 1
        BY <4>1
      <4> QED BY <4>1, <4>2
    <3> QED BY <3>1, <3>2
  <2>4. /\ Len(h) = Len(w) + Len(cu)
        /\ \A i \in 1 .. Len(w) + Len(cu) :
              h[i] = IF i <= Len(w) THEN WarmGroups(w)[i] ELSE ColdGroups(c)[i - Len(w)]
    <3>1. /\ Len(h) = Len(WarmGroups(w)) + Len(ColdGroups(c))
          /\ \A i \in 1 .. Len(WarmGroups(w)) + Len(ColdGroups(c)) :
              h[i] = IF i <= Len(WarmGroups(w)) THEN WarmGroups(w)[i]
                     ELSE ColdGroups(c)[i - Len(WarmGroups(w))]
      BY <1>6, ConcatProperties
    <3> QED BY <2>1, <2>3, <3>1
  <2> HIDE DEF h
  <2>5. UnitReqs(u) \in Seq(Seq(Request)) /\ Len(UnitReqs(u)) = Len(u)
    BY <1>5, UnitsAsGroups
  <2>6. ASSUME NEW i \in 1 .. Len(u) PROVE UnitReqs(u)[i] = h[i]
    <3>1. i \in 1 .. Len(w) + Len(cu) /\ UnitReqs(u)[i] = u[i].reqs
      BY <1>3, <1>5 DEF UnitReqs
    <3>2. CASE i <= Len(w)
      <4>1. i \in 1 .. Len(w)
        BY <2>1, <3>1, <3>2
      <4> QED BY <1>3, <1>5, <2>1, <2>4, <3>1, <3>2, <4>1
    <3>3. CASE ~(i <= Len(w))
      <4>1. i - Len(w) \in 1 .. Len(cu)
        BY <2>1, <2>3, <3>1, <3>3
      <4>2. u[i] = cu[i - Len(w)] /\ h[i] = ColdGroups(c)[i - Len(w)]
        BY <1>3, <1>5, <2>4, <3>1, <3>3
      <4> QED BY <2>3, <3>1, <4>1, <4>2
    <3> QED BY <3>2, <3>3
  <2>7. Len(h) = Len(u)
    BY <1>3, <1>5, <2>4
  <2> QED BY <1>7, <2>5, <2>6, <2>7, SeqEqual
<1> QED BY <1>5, <1>7, <1>8, <1>9 DEF u, wu, cu, w, c

(* The worker's steps.                                                     *)
LEMMA ControlWorker ==
    ASSUME Control, Distinct(gen), Worker
    PROVE  Control'
<1> USE DEF Home, RowLoop, CloseLoop
<1>0. WorkerTypes /\ RequestTypes /\ Loops /\ Locals /\ Nonempty
  BY TypeHalves DEF Control
<1>a. pc \in WorkerPC /\ waiting \in Seq(Request) /\ incoming \in Seq(Request)
      /\ gen \in Seq(Request) /\ groups \in Seq(Seq(Request)) /\ pending \in Seq(UnitType)
      /\ rows \in Seq(RowType) /\ closing \in Seq(RowType) /\ cur \in Nat
      /\ completed \in Nat /\ emitted \in Nat /\ unstamped \in Nat
  BY <1>0 DEF WorkerTypes
<1>b. ASSUME UNCHANGED <<requestVars, clientVars>> PROVE RequestTypes'
  BY <1>0, <1>b DEF RequestTypes, requestVars, clientVars
<1>c. ASSUME UNCHANGED <<groups, pending>> PROVE Nonempty'
  BY <1>0, <1>c DEF Nonempty
<1>d. ASSUME WorkerTypes', RequestTypes', Loops', Locals', Nonempty' PROVE Control'
  BY <1>d, TypeHalves DEF Control
<1>1. CASE Load
  <2>1. WorkerTypes'
    BY <1>0, <1>1 DEF Load, WorkerTypes, WorkerPC, schedVars, admitVars, metricVars
  <2>2. Loops' /\ Locals'
    BY <1>0, <1>1 DEF Load, Loops, Locals, schedVars, admitVars
  <2> QED BY <1>1, <1>b, <1>c, <1>d, <2>1, <2>2 DEF Load, admitVars
<1>2. CASE NextWaiting
  <2>1. incoming' \in Seq(Request) /\ waiting' \in Seq(Request)
    BY <1>0, <1>2, TakeSplits DEF NextWaiting
  <2>2. WorkerTypes'
    BY <1>0, <1>2, <2>1 DEF NextWaiting, WorkerTypes, WorkerPC, metricVars
  <2>3. Loops' /\ Locals'
    BY <1>0, <1>2 DEF NextWaiting, Loops, Locals
  <2> QED BY <1>2, <1>b, <1>c, <1>d, <2>2, <2>3 DEF NextWaiting
<1>3. CASE TakeMore
  <2>0. PrefillBatch - 1 \in Nat
    BY BoundsAssumption
  <2>1. incoming' \in Seq(Request) /\ waiting' \in Seq(Request)
    BY <1>0, <1>3, <2>0, TakeSplits DEF TakeMore
  <2>2. WorkerTypes'
    BY <1>0, <1>3, <2>1 DEF TakeMore, WorkerTypes, WorkerPC, metricVars
  <2>3. Loops' /\ Locals'
    BY <1>0, <1>3 DEF TakeMore, Loops, Locals
  <2> QED BY <1>3, <1>b, <1>c, <1>d, <2>2, <2>3 DEF TakeMore
<1>4. CASE Exit
  <2>1. WorkerTypes'
    BY <1>0, <1>4 DEF Exit, WorkerTypes, WorkerPC, schedVars, admitVars, metricVars
  <2>2. Loops' /\ Locals'
    BY <1>0, <1>4 DEF Exit, Loops, Locals, schedVars, admitVars
  <2> QED BY <1>4, <1>b, <1>c, <1>d, <2>1, <2>2 DEF Exit, admitVars
<1>5. CASE TopUp
  <2>0. PrefillBatch \in Nat
    BY BoundsAssumption
  <2>1. incoming' \in Seq(Request) /\ waiting' \in Seq(Request)
    BY <1>0, <1>5, <2>0, TakeSplits DEF TopUp
  <2>2. WorkerTypes'
    BY <1>0, <1>5, <2>1 DEF TopUp, WorkerTypes, WorkerPC, metricVars
  <2>3. Loops' /\ Locals'
    BY <1>0, <1>5 DEF TopUp, Loops, Locals
  <2> QED BY <1>5, <1>b, <1>c, <1>d, <2>2, <2>3 DEF TopUp
<1>6. ASSUME NEW why \in Reasons, pc = "dispatch", incoming # <<>>, EndEarly(Head(incoming), why),
             incoming' = Tail(incoming),
             UNCHANGED <<schedVars, cur, gen, groups, pending, rows, metricVars,
                         tokens, logprobs, cancelled, clientVars>>
      PROVE  Control'
  <2>1. Head(incoming) \in Request /\ Tail(incoming) \in Seq(Request)
    BY <1>a, <1>6, HeadTailProperties
  <2>2. closing' \in Seq(RowType) /\ closing' # <<>> /\ pc' = "closeTokens" /\ ret' = "dispatch"
    BY <1>6, <2>1, FewRows DEF EndEarly
  <2>3. WorkerTypes'
    BY <1>0, <1>6, <2>1, <2>2 DEF WorkerTypes, WorkerPC, schedVars, metricVars
  <2>4. RequestTypes'
    BY <1>0, <1>6 DEF RequestTypes, EndEarly, clientVars
  <2>5. Loops' /\ Locals'
    BY <1>0, <1>6, <2>2 DEF Loops, Locals
  <2> QED BY <1>6, <1>c, <1>d, <2>3, <2>4, <2>5
<1>7. CASE HandleEmbedding
  <2>1. PICK why \in {"embed", "error"} : EndEarly(Head(incoming), why)
    BY <1>7 DEF HandleEmbedding
  <2>2. why \in Reasons
    BY DEF Reasons
  <2> QED BY <1>6, <1>7, <2>1, <2>2 DEF HandleEmbedding
<1>8. CASE AdmitMultimodal
  <2>0. pc = "dispatch" /\ incoming # <<>> /\ incoming' = Tail(incoming)
        /\ UNCHANGED <<schedVars, gen, groups, pending, metricVars,
                       tokens, logprobs, cancelled, clientVars>>
    BY <1>8 DEF AdmitMultimodal
  <2>1. CASE EndEarly(Head(incoming), "error") /\ UNCHANGED <<rows, cur>>
    <3>1. "error" \in Reasons
      BY DEF Reasons
    <3> QED BY <1>6, <2>0, <2>1, <3>1
  <2>2. CASE RegisterRows(<<Head(incoming)>>, "dispatch") /\ UNCHANGED <<reason, closing>>
    <3>1. Head(incoming) \in Request /\ Tail(incoming) \in Seq(Request)
      BY <1>a, <2>0, HeadTailProperties
    <3>2. <<Head(incoming)>> \in Seq(Request) /\ <<Head(incoming)>> # <<>>
      BY <3>1
    <3>3. /\ rows' \in Seq(RowType) /\ rows' # <<>> /\ pc' = "row" /\ ret' = "dispatch"
          /\ cur' \in Nat /\ cur' \in 1 .. Len(rows')
      BY <1>0, <2>2, <3>2, RegisterControl
    <3>4. WorkerTypes'
      BY <1>0, <2>0, <2>2, <3>1, <3>3 DEF WorkerTypes, WorkerPC, schedVars, metricVars
    <3>5. RequestTypes'
      BY <1>0, <2>0, <2>2 DEF RequestTypes, clientVars
    <3>6. Loops' /\ Locals'
      BY <1>0, <2>0, <2>2, <3>3 DEF Loops, Locals
    <3> QED BY <1>c, <1>d, <2>0, <3>4, <3>5, <3>6
  <2> QED BY <1>8, <2>1, <2>2 DEF AdmitMultimodal
<1>9. CASE CollectText
  <2>1. Head(incoming) \in Request /\ Tail(incoming) \in Seq(Request)
    BY <1>a, <1>9, HeadTailProperties DEF CollectText
  <2>2. gen' \in Seq(Request)
    BY <1>a, <1>9, <2>1, AppendProperties DEF CollectText
  <2>3. WorkerTypes'
    BY <1>0, <1>9, <2>1, <2>2 DEF CollectText, WorkerTypes, schedVars, loopVars, metricVars
  <2>4. Loops' /\ Locals'
    BY <1>0, <1>9 DEF CollectText, Loops, Locals, schedVars, loopVars
  <2> QED BY <1>9, <1>b, <1>c, <1>d, <2>3, <2>4 DEF CollectText
<1>10. CASE EnqueueAdmissions
  <2>1. PICK m \in Matches(gen) :
          pending' = pending \o WarmUnits(Warm(gen, m), m) \o ColdUnits(Cold(gen, m))
    BY <1>10 DEF EnqueueAdmissions
  <2>2. pending = <<>> /\ pc = "dispatch"
    BY <1>0, <1>10 DEF EnqueueAdmissions, Locals
  <2>3. pending' \in Seq(UnitType) /\ Apart(UnitReqs(pending'))
    BY <1>a, <2>1, <2>2, AdmissionUnits
  <2>4. \A i \in 1 .. Len(pending') : pending'[i].reqs # <<>>
    <3>1. Len(UnitReqs(pending')) = Len(pending')
      BY <2>3, UnitsAsGroups
    <3> QED BY <2>3, <3>1 DEF Apart, UnitReqs
  <2>5. WorkerTypes'
    BY <1>0, <1>10, <2>3, EmptySeq DEF EnqueueAdmissions, WorkerTypes, WorkerPC, schedVars, metricVars
  <2>6. Loops' /\ Locals'
    BY <1>0, <1>10 DEF EnqueueAdmissions, Loops, Locals, schedVars
  <2>7. Nonempty'
    BY <1>0, <1>10, <2>4 DEF EnqueueAdmissions, Nonempty
  <2> QED BY <1>10, <1>b, <1>d, <2>5, <2>6, <2>7 DEF EnqueueAdmissions
<1>11. CASE Admit
  <2>1. PICK m \in Matches(gen) :
          groups' = ColdGroups(Cold(gen, m)) \o WarmGroups(Warm(gen, m))
    BY <1>11 DEF Admit
  <2>2. groups' \in Seq(Seq(Request)) /\ Apart(groups')
    BY <1>a, <2>1, AdmissionUnits
  <2>3. WorkerTypes'
    BY <1>0, <1>11, <2>2, EmptySeq DEF Admit, WorkerTypes, WorkerPC, schedVars, metricVars
  <2>4. Loops' /\ Locals'
    BY <1>0, <1>11 DEF Admit, Loops, Locals, schedVars
  <2>5. Nonempty'
    BY <1>0, <1>11, <2>2 DEF Admit, Nonempty, Apart
  <2> QED BY <1>11, <1>b, <1>d, <2>3, <2>4, <2>5 DEF Admit
<1>12. CASE AdmitGroup
  <2>1. /\ Head(groups) \in Seq(Request) /\ Tail(groups) \in Seq(Seq(Request))
        /\ Head(groups) = groups[1] /\ 1 \in 1 .. Len(groups)
        /\ \A i \in 1 .. Len(Tail(groups)) : \E k \in 1 .. Len(groups) : Tail(groups)[i] = groups[k]
    BY <1>a, <1>12, GroupsTail DEF AdmitGroup
  <2>2. Head(groups) # <<>>
    BY <1>0, <2>1 DEF Nonempty
  <2>3. /\ rows' \in Seq(RowType) /\ rows' # <<>> /\ pc' = "row" /\ ret' = "admit"
        /\ cur' \in Nat /\ cur' \in 1 .. Len(rows')
    BY <1>0, <1>12, <2>1, <2>2, RegisterControl DEF AdmitGroup
  <2>4. WorkerTypes'
    BY <1>0, <1>12, <2>1, <2>3 DEF AdmitGroup, WorkerTypes, WorkerPC, schedVars, metricVars
  <2>5. Loops' /\ Locals'
    BY <1>0, <1>12, <2>3 DEF AdmitGroup, Loops, Locals, schedVars
  <2>6. Nonempty'
    BY <1>0, <1>12, <2>1 DEF AdmitGroup, Nonempty
  <2> QED BY <1>12, <1>b, <1>d, <2>4, <2>5, <2>6 DEF AdmitGroup
<1>13. CASE AdmissionDone
  <2>1. WorkerTypes'
    BY <1>0, <1>13 DEF AdmissionDone, WorkerTypes, WorkerPC, schedVars, admitVars, metricVars
  <2>2. Loops' /\ Locals'
    BY <1>0, <1>13 DEF AdmissionDone, Loops, Locals, schedVars, admitVars
  <2> QED BY <1>13, <1>b, <1>c, <1>d, <2>1, <2>2 DEF AdmissionDone, admitVars
<1>14. CASE AdvanceChunkedPrefill
  <2>0. /\ pc \in {"top", "prefill"} /\ pending # <<>>
        /\ UNCHANGED <<schedVars, incoming, gen, groups, closing, metricVars,
                       requestVars, clientVars>>
    BY <1>14 DEF AdvanceChunkedPrefill
  <2>1. /\ Head(pending) \in UnitType /\ Tail(pending) \in Seq(UnitType) /\ Head(pending) = pending[1]
        /\ 1 \in 1 .. Len(pending) /\ Len(Tail(pending)) = Len(pending) - 1
        /\ \A i \in 1 .. Len(Tail(pending)) : Tail(pending)[i] = pending[i + 1]
    <3>1. Len(pending) \in Nat \ {0}
      BY <1>a, <2>0, EmptySeq
    <3> QED BY <1>a, <2>0, <3>1, HeadTailProperties
  <2>2. CASE Head(pending).left > PrefillChunk
    <3>1. /\ pending' = [pending EXCEPT ![1].left = @ - PrefillChunk]
          /\ pc' = "evict1" /\ UNCHANGED <<rows, cur, ret>>
      BY <1>14, <2>2 DEF AdvanceChunkedPrefill
    <3>2. /\ [pending[1] EXCEPT !.left = @ - PrefillChunk] \in UnitType
          /\ [pending[1] EXCEPT !.left = @ - PrefillChunk].reqs = pending[1].reqs
      <4>1. pending[1].left - PrefillChunk \in Nat
        BY <2>1, <2>2, BoundsAssumption DEF UnitType
      <4> QED BY <2>1, <4>1 DEF UnitType
    <3>3. /\ pending' \in Seq(UnitType) /\ Len(pending') = Len(pending)
          /\ \A i \in 1 .. Len(pending) : pending'[i].reqs = pending[i].reqs
      <4> DEFINE u == [pending[1] EXCEPT !.left = @ - PrefillChunk]
      <4>1. pending' = [pending EXCEPT ![1] = u]
        BY <3>1
      <4> HIDE DEF u
      <4>2. u \in UnitType /\ u.reqs = pending[1].reqs
        BY <3>2 DEF u
      <4> QED BY <1>a, <2>1, <4>1, <4>2, ExceptSeq
    <3>4. WorkerTypes'
      BY <1>0, <2>0, <3>1, <3>3 DEF WorkerTypes, WorkerPC, schedVars, metricVars
    <3>5. Loops' /\ Locals'
      BY <1>0, <2>0, <3>1 DEF Loops, Locals, schedVars
    <3>6. Nonempty'
      BY <1>0, <2>0, <3>3 DEF Nonempty
    <3> QED BY <1>b, <1>d, <2>0, <3>4, <3>5, <3>6
  <2>3. CASE ~(Head(pending).left > PrefillChunk)
    <3>1. pending' = Tail(pending) /\ RegisterRows(Head(pending).reqs, "evict1")
      BY <1>14, <2>3 DEF AdvanceChunkedPrefill
    <3>2. Head(pending).reqs \in Seq(Request) /\ Head(pending).reqs # <<>>
      BY <1>0, <2>1 DEF UnitType, Nonempty
    <3>3. /\ rows' \in Seq(RowType) /\ rows' # <<>> /\ pc' = "row" /\ ret' = "evict1"
          /\ cur' \in Nat /\ cur' \in 1 .. Len(rows')
      BY <1>0, <3>1, <3>2, RegisterControl
    <3>4. WorkerTypes'
      BY <1>0, <2>0, <2>1, <3>1, <3>3 DEF WorkerTypes, WorkerPC, schedVars, metricVars
    <3>5. Loops' /\ Locals'
      BY <1>0, <2>0, <3>3 DEF Loops, Locals, schedVars
    <3>6. Nonempty'
      <4>1. ASSUME NEW i \in 1 .. Len(pending') PROVE pending'[i].reqs # <<>>
        <5>1. i + 1 \in 1 .. Len(pending) /\ pending'[i] = pending[i + 1]
          BY <1>a, <2>1, <3>1
        <5> QED BY <1>0, <5>1 DEF Nonempty
      <4> QED BY <1>0, <2>0, <4>1 DEF Nonempty
    <3> QED BY <1>b, <1>d, <2>0, <3>4, <3>5, <3>6
  <2> QED BY <2>2, <2>3
<1>15. ASSUME pc \in {"row", "push", "pushLogprob"}, NextRow, Len(rows') = Len(rows),
              rows' \in Seq(RowType), RequestTypes',
              UNCHANGED <<schedVars, admitVars, closing, metricVars>>
       PROVE  Control'
  <2>0. cur \in 1 .. Len(rows) /\ ret \in {"dispatch", "admit", "evict1", "evict2"}
        /\ closing = <<>> /\ Len(rows) \in Nat
    BY <1>0, <1>a, <1>15 DEF Loops
  <2>1. CASE cur < Len(rows)
    <3>1. cur' = cur + 1 /\ pc' = "row" /\ ret' = ret /\ cur' \in 1 .. Len(rows')
      BY <1>15, <2>0, <2>1 DEF NextRow
    <3>2. WorkerTypes'
      BY <1>0, <1>15, <3>1 DEF WorkerTypes, WorkerPC, schedVars, admitVars, metricVars
    <3>3. Loops'
      BY <1>15, <2>0, <3>1 DEF Loops
    <3>4. Locals'
      BY <1>0, <1>15, <2>0, <3>1 DEF Locals, schedVars, admitVars
    <3> QED BY <1>15, <1>c, <1>d, <3>2, <3>3, <3>4 DEF admitVars
  <2>2. CASE ~(cur < Len(rows))
    <3>1. cur' = 1 /\ pc' = ret /\ ret' = "none"
      BY <1>15, <2>2 DEF NextRow
    <3>2. WorkerTypes'
      BY <1>0, <1>15, <2>0, <3>1 DEF WorkerTypes, WorkerPC, schedVars, admitVars, metricVars
    <3>3. Loops'
      BY <1>15, <2>0, <3>1 DEF Loops
    <3>4. Locals'
      BY <1>0, <1>15, <2>0, <3>1 DEF Locals, schedVars, admitVars
    <3> QED BY <1>15, <1>c, <1>d, <3>2, <3>3, <3>4 DEF admitVars
  <2> QED BY <2>1, <2>2
<1>16. ASSUME pc \in {"row", "push", "pushLogprob"}
       PROVE  /\ cur \in 1 .. Len(rows) /\ rows[cur] \in RowType /\ rows[cur].req \in Request
              /\ rows[cur].produced \in Nat
  <2>1. cur \in 1 .. Len(rows)
    BY <1>0, <1>16 DEF Loops
  <2>2. rows[cur] \in RowType
    BY <1>a, <2>1
  <2> QED BY <2>1, <2>2 DEF RowType
<1>17. ASSUME pc \in {"row", "push", "pushLogprob"}, NEW why \in Reasons, FinishRow(why)
       PROVE  rows' \in Seq(RowType) /\ Len(rows') = Len(rows) /\ reason' \in [Request -> Reasons]
  <2> DEFINE row == [rows[cur] EXCEPT !.finished = TRUE]
  <2>1. row \in RowType
    BY <1>16, <1>17 DEF RowType
  <2>2. rows' = [rows EXCEPT ![cur] = row]
    BY <1>17 DEF FinishRow
  <2> HIDE DEF row
  <2>3. rows' \in Seq(RowType) /\ Len(rows') = Len(rows)
    BY <1>a, <1>16, <1>17, <2>1, <2>2, ExceptSeq
  <2>4. reason' \in [Request -> Reasons]
    BY <1>0, <1>17 DEF FinishRow, RequestTypes
  <2> QED BY <2>3, <2>4
<1>18. ASSUME pc \in {"row", "push", "pushLogprob"}, CountToken
       PROVE  rows' \in Seq(RowType) /\ Len(rows') = Len(rows) /\ reason' \in [Request -> Reasons]
  <2> DEFINE one == [rows[cur] EXCEPT !.produced = @ + 1]
             last == [one EXCEPT !.finished = TRUE]
  <2>1. one \in RowType /\ last \in RowType
    <3>1. rows[cur] \in RowType /\ rows[cur].produced + 1 \in Nat
      BY <1>16, <1>18
    <3>2. one \in RowType
      BY <3>1 DEF RowType
    <3> HIDE DEF one
    <3> QED BY <3>2 DEF RowType
  <2>2. \/ rows' = [rows EXCEPT ![cur] = one] /\ reason' = reason
        \/ rows' = [rows EXCEPT ![cur] = last] /\ reason' = [reason EXCEPT ![rows[cur].req] = "length"]
    BY <1>a, <1>16, <1>18 DEF CountToken
  <2> HIDE DEF one, last
  <2>3. rows' \in Seq(RowType) /\ Len(rows') = Len(rows)
    <3>1. cur \in 1 .. Len(rows)
      BY <1>16, <1>18
    <3>2. /\ [rows EXCEPT ![cur] = one] \in Seq(RowType)
          /\ Len([rows EXCEPT ![cur] = one]) = Len(rows)
      BY <1>a, <2>1, <3>1, ExceptSeq
    <3>3. /\ [rows EXCEPT ![cur] = last] \in Seq(RowType)
          /\ Len([rows EXCEPT ![cur] = last]) = Len(rows)
      BY <1>a, <2>1, <3>1, ExceptSeq
    <3> QED BY <2>2, <3>2, <3>3
  <2>4. reason' \in [Request -> Reasons]
    BY <1>0, <2>2 DEF RequestTypes, Reasons
  <2> QED BY <2>3, <2>4
<1>19. CASE RowCancelled
  <2>0. "cancel" \in Reasons /\ FinishRow("cancel") /\ NextRow /\ pc = "row"
    BY <1>19 DEF RowCancelled, FinishRow, Reasons
  <2>1. rows' \in Seq(RowType) /\ Len(rows') = Len(rows) /\ reason' \in [Request -> Reasons]
    BY <1>17, <2>0
  <2>2. RequestTypes'
    BY <1>0, <1>19, <2>1 DEF RowCancelled, RequestTypes, clientVars
  <2> QED BY <1>15, <1>19, <2>0, <2>1, <2>2 DEF RowCancelled
<1>20. CASE RowEos
  <2>0. "stop" \in Reasons /\ FinishRow("stop") /\ NextRow /\ pc = "row"
    BY <1>20 DEF RowEos, FinishRow, Reasons
  <2>1. rows' \in Seq(RowType) /\ Len(rows') = Len(rows) /\ reason' \in [Request -> Reasons]
    BY <1>17, <2>0
  <2>2. RequestTypes'
    BY <1>0, <1>20, <2>1 DEF RowEos, RequestTypes, clientVars
  <2> QED BY <1>15, <1>20, <2>0, <2>1, <2>2 DEF RowEos
<1>21. CASE RowToken
  <2>1. WorkerTypes'
    BY <1>0, <1>21 DEF RowToken, WorkerTypes, WorkerPC, schedVars, admitVars, metricVars
  <2>2. Loops' /\ Locals'
    BY <1>0, <1>21 DEF RowToken, Loops, Locals, schedVars, admitVars
  <2> QED BY <1>21, <1>b, <1>c, <1>d, <2>1, <2>2 DEF RowToken, admitVars
<1>22. CASE PushToken
  <2>0. /\ pc = "push" /\ tokens' = [tokens EXCEPT ![rows[cur].req] = PushItem(@)]
        /\ UNCHANGED <<schedVars, admitVars, closing, metricVars, logprobs, cancelled, clientVars>>
    BY <1>22 DEF PushToken
  <2>1. tokens' \in [Request -> QueueType]
    <3>1. tokens[rows[cur].req] \in QueueType
      BY <1>0, <1>16, <2>0 DEF RequestTypes
    <3>2. PushItem(tokens[rows[cur].req]) \in QueueType
      BY <3>1, QueueTypes
    <3> QED BY <1>0, <2>0, <3>2 DEF RequestTypes
  <2>2. CASE Logprobs(rows[cur].req)
    <3>1. pc' = "pushLogprob" /\ UNCHANGED <<rows, reason, cur, ret>>
      BY <1>22, <2>2 DEF PushToken
    <3>2. WorkerTypes'
      BY <1>0, <2>0, <3>1 DEF WorkerTypes, WorkerPC, schedVars, admitVars, metricVars
    <3>3. RequestTypes'
      BY <1>0, <2>0, <2>1, <3>1 DEF RequestTypes, clientVars
    <3>4. Loops' /\ Locals'
      BY <1>0, <2>0, <3>1 DEF Loops, Locals, schedVars, admitVars
    <3> QED BY <1>c, <1>d, <2>0, <3>2, <3>3, <3>4 DEF admitVars
  <2>3. CASE ~Logprobs(rows[cur].req)
    <3>1. CountToken /\ NextRow
      BY <1>22, <2>3 DEF PushToken
    <3>2. rows' \in Seq(RowType) /\ Len(rows') = Len(rows) /\ reason' \in [Request -> Reasons]
      BY <1>18, <2>0, <3>1
    <3>3. RequestTypes'
      BY <1>0, <2>0, <2>1, <3>2 DEF RequestTypes, clientVars
    <3> QED BY <1>15, <2>0, <3>1, <3>2, <3>3
  <2> QED BY <2>2, <2>3
<1>23. CASE PushLogprob
  <2>0. /\ pc = "pushLogprob" /\ logprobs' = [logprobs EXCEPT ![rows[cur].req] = PushItem(@)]
        /\ CountToken /\ NextRow
        /\ UNCHANGED <<schedVars, admitVars, closing, metricVars, tokens, cancelled, clientVars>>
    BY <1>23 DEF PushLogprob
  <2>1. logprobs' \in [Request -> QueueType]
    <3>1. logprobs[rows[cur].req] \in QueueType
      BY <1>0, <1>16, <2>0 DEF RequestTypes
    <3>2. PushItem(logprobs[rows[cur].req]) \in QueueType
      BY <3>1, QueueTypes
    <3> QED BY <1>0, <2>0, <3>2 DEF RequestTypes
  <2>2. rows' \in Seq(RowType) /\ Len(rows') = Len(rows) /\ reason' \in [Request -> Reasons]
    BY <1>18, <2>0
  <2>3. RequestTypes'
    BY <1>0, <2>0, <2>1, <2>2 DEF RequestTypes, clientVars
  <2> QED BY <1>15, <2>0, <2>2, <2>3
<1>24. ASSUME NEW batch \in Seq(RowType), NEW next \in {"dispatch", "decode", "top", "publish"},
              CloseAll(batch, next)
       PROVE  /\ closing' \in Seq(RowType)
              /\ \/ closing' = <<>> /\ pc' = next /\ ret' = "none"
                 \/ closing' # <<>> /\ pc' = "closeTokens" /\ ret' = next
  BY <1>24 DEF CloseAll
<1>25. CASE EvictFinished
  <2> DEFINE stay == Keep(rows, {row \in RowType : ~row.finished})
             leave == Keep(rows, {row \in RowType : row.finished})
             next == IF pc = "evict2" THEN "publish"
                     ELSE IF \A i \in 1 .. Len(rows) : rows[i].finished THEN "top" ELSE "decode"
  <2>0. /\ pc \in {"evict1", "evict2"} /\ rows' = stay /\ CloseAll(leave, next)
        /\ UNCHANGED <<schedVars, cur, admitVars, metricVars, requestVars, clientVars>>
    BY <1>25 DEF EvictFinished
  <2>1. /\ stay \in Seq(RowType) /\ leave \in Seq(RowType)
        /\ (\A i \in 1 .. Len(rows) : rows[i].finished) <=> stay = <<>>
    BY <1>a, RowsSplit
  <2>2. next \in {"decode", "top", "publish"} /\ (next = "decode" => stay # <<>>)
    BY <2>1
  <2> HIDE DEF next, stay, leave
  <2>3. /\ closing' \in Seq(RowType)
        /\ \/ closing' = <<>> /\ pc' = next /\ ret' = "none"
           \/ closing' # <<>> /\ pc' = "closeTokens" /\ ret' = next
    BY <1>24, <2>0, <2>1, <2>2
  <2>4. WorkerTypes'
    BY <1>0, <2>0, <2>1, <2>2, <2>3 DEF WorkerTypes, WorkerPC, schedVars, admitVars, metricVars
  <2>5. Loops'
    BY <1>0, <2>0, <2>2, <2>3 DEF Loops
  <2>6. Locals'
    BY <1>0, <2>0, <2>1, <2>2, <2>3 DEF Locals, schedVars, admitVars
  <2> QED BY <1>b, <1>c, <1>d, <2>0, <2>4, <2>5, <2>6 DEF admitVars
<1>26. ASSUME pc \in {"closeTokens", "closeLogprobs"}
       PROVE  /\ closing # <<>> /\ ret \in {"dispatch", "decode", "top", "publish"}
              /\ Head(closing) \in RowType /\ Head(closing).req \in Request
              /\ Head(closing).produced \in Nat /\ Tail(closing) \in Seq(RowType)
  <2>1. closing # <<>> /\ ret \in {"dispatch", "decode", "top", "publish"}
    BY <1>0, <1>26 DEF Loops
  <2>2. Head(closing) \in RowType /\ Tail(closing) \in Seq(RowType)
    BY <1>a, <2>1, HeadTailProperties
  <2> QED BY <2>1, <2>2 DEF RowType
<1>27. CASE CloseTokens
  <2>0. /\ pc = "closeTokens" /\ pc' = "closeLogprobs"
        /\ tokens' = [tokens EXCEPT ![Head(closing).req] = CloseItem(@)]
        /\ CountCompletion(Head(closing))
        /\ UNCHANGED <<schedVars, ret, cur, admitVars, rows, closing, active,
                       logprobs, cancelled, reason, clientVars>>
    BY <1>27 DEF CloseTokens
  <2>1. tokens' \in [Request -> QueueType]
    <3>1. tokens[Head(closing).req] \in QueueType
      BY <1>0, <1>26, <2>0 DEF RequestTypes
    <3>2. CloseItem(tokens[Head(closing).req]) \in QueueType
      BY <3>1, QueueTypes
    <3> QED BY <1>0, <2>0, <3>2 DEF RequestTypes
  <2>2. completed' \in Nat /\ emitted' \in Nat /\ unstamped' \in Nat
    <3>1. Head(closing).produced \in Nat
      BY <1>26, <2>0
    <3>2. CASE ret = "dispatch"
      BY <1>a, <2>0, <3>2 DEF CountCompletion
    <3>3. CASE ret # "dispatch"
      <4>1. /\ completed' = completed + 1
            /\ emitted' = emitted + Head(closing).produced
            /\ unstamped' = unstamped \/ unstamped' = unstamped + 1
        BY <1>a, <2>0, <3>3 DEF CountCompletion
      <4>2. completed \in Nat /\ emitted \in Nat /\ unstamped \in Nat
        BY <1>a
      <4> QED BY <3>1, <4>1, <4>2
    <3> QED BY <3>2, <3>3
  <2>3. WorkerTypes'
    BY <1>0, <2>0, <2>2 DEF WorkerTypes, WorkerPC, schedVars, admitVars
  <2>4. RequestTypes'
    BY <1>0, <2>0, <2>1 DEF RequestTypes, clientVars
  <2>5. Loops' /\ Locals'
    BY <1>0, <2>0 DEF Loops, Locals, schedVars, admitVars
  <2> QED BY <1>c, <1>d, <2>0, <2>3, <2>4, <2>5 DEF admitVars
<1>28. CASE CloseLogprobs
  <2>0. /\ pc = "closeLogprobs" /\ CloseAll(Tail(closing), ret)
        /\ logprobs' = [logprobs EXCEPT ![Head(closing).req] = CloseItem(@)]
        /\ UNCHANGED <<schedVars, cur, admitVars, rows, metricVars,
                       tokens, cancelled, reason, clientVars>>
    BY <1>28 DEF CloseLogprobs
  <2>1. logprobs' \in [Request -> QueueType]
    <3>1. logprobs[Head(closing).req] \in QueueType
      BY <1>0, <1>26, <2>0 DEF RequestTypes
    <3>2. CloseItem(logprobs[Head(closing).req]) \in QueueType
      BY <3>1, QueueTypes
    <3> QED BY <1>0, <2>0, <3>2 DEF RequestTypes
  <2>2. ret \in {"dispatch", "decode", "top", "publish"} /\ Tail(closing) \in Seq(RowType)
    BY <1>26, <2>0
  <2>3. /\ closing' \in Seq(RowType)
        /\ \/ closing' = <<>> /\ pc' = ret /\ ret' = "none"
           \/ closing' # <<>> /\ pc' = "closeTokens" /\ ret' = ret
    BY <1>24, <2>0, <2>2
  <2>4. WorkerTypes'
    BY <1>0, <2>0, <2>2, <2>3 DEF WorkerTypes, WorkerPC, schedVars, admitVars, metricVars
  <2>5. RequestTypes'
    BY <1>0, <2>0, <2>1 DEF RequestTypes, clientVars
  <2>6. Loops'
    BY <1>0, <2>0, <2>2, <2>3 DEF Loops
  <2>7. Locals'
    BY <1>0, <2>0, <2>2, <2>3 DEF Locals, schedVars, admitVars
  <2> QED BY <1>c, <1>d, <2>0, <2>4, <2>5, <2>6, <2>7 DEF admitVars
<1>29. CASE DecodeStep
  <2>0. rows # <<>> /\ cur = 1 /\ 1 \in 1 .. Len(rows)
    <3>1. rows # <<>> /\ cur = 1
      BY <1>0, <1>29 DEF DecodeStep, Loops, Locals
    <3>2. Len(rows) \in Nat \ {0}
      BY <1>a, <3>1, EmptySeq
    <3> QED BY <3>1, <3>2
  <2>1. WorkerTypes'
    BY <1>0, <1>29 DEF DecodeStep, WorkerTypes, WorkerPC, schedVars, admitVars, metricVars
  <2>2. Loops' /\ Locals'
    BY <1>0, <1>29, <2>0 DEF DecodeStep, Loops, Locals, schedVars, admitVars
  <2> QED BY <1>29, <1>b, <1>c, <1>d, <2>1, <2>2 DEF DecodeStep, admitVars
<1>30. CASE Publish
  <2>1. WorkerTypes'
    BY <1>0, <1>30 DEF Publish, WorkerTypes, WorkerPC, schedVars, admitVars
  <2>2. Loops' /\ Locals'
    BY <1>0, <1>30 DEF Publish, Loops, Locals, schedVars, admitVars
  <2> QED BY <1>30, <1>b, <1>c, <1>d, <2>1, <2>2 DEF Publish, admitVars
<1> QED BY <1>1, <1>2, <1>3, <1>4, <1>5, <1>7, <1>8, <1>9, <1>10, <1>11, <1>12, <1>13, <1>14,
           <1>19, <1>20, <1>21, <1>22, <1>23, <1>25, <1>27, <1>28, <1>29, <1>30 DEF Worker

-----------------------------------------------------------------------------
(* Places: how a step moves requests from one collection to the next.      *)

(* take_waiting: some of W go to I.                                        *)
LEMMA MoveTaken ==
    ASSUME NEW W, NEW I, NEW G, NEW Q, NEW P, NEW R, NEW C, NEW O, NEW W2, NEW X,
           Partition(W, I, G, Q, P, R, C, O), X \cup W2 = W, X \cap W2 = {}
    PROVE  Partition(W2, I \cup X, G, Q, P, R, C, O) /\ I \cap X = {}
BY DEF Partition

(* The first of I goes to C, to R or to G.                                 *)
LEMMA MoveFirst ==
    ASSUME NEW W, NEW I, NEW G, NEW Q, NEW P, NEW R, NEW C, NEW O, NEW I2, NEW x,
           Partition(W, I, G, Q, P, R, C, O), I = {x} \cup I2, x \notin I2
    PROVE  /\ C = {} => Partition(W, I2, G, Q, P, R, {x}, O)
           /\ Partition(W, I2, G, Q, P, R \cup {x}, C, O)
           /\ Partition(W, I2, G \cup {x}, Q, P, R, C, O)
           /\ x \notin R /\ x \notin G
BY DEF Partition

(* All of G go to Q or to P.                                               *)
LEMMA MoveAdmitted ==
    ASSUME NEW W, NEW I, NEW G, NEW Q, NEW P, NEW R, NEW C, NEW O,
           Partition(W, I, G, Q, P, R, C, O)
    PROVE  /\ Q = {} => Partition(W, I, {}, G, P, R, C, O)
           /\ P = {} => Partition(W, I, {}, Q, G, R, C, O)
BY DEF Partition

(* Some of Q go to R.                                                      *)
LEMMA MoveGroup ==
    ASSUME NEW W, NEW I, NEW G, NEW Q, NEW P, NEW R, NEW C, NEW O, NEW X, NEW Y,
           Partition(W, I, G, Q, P, R, C, O), Q = X \cup Y, X \cap Y = {}
    PROVE  Partition(W, I, G, Y, P, R \cup X, C, O) /\ R \cap X = {}
BY DEF Partition

(* Some of P go to R.                                                      *)
LEMMA MoveUnit ==
    ASSUME NEW W, NEW I, NEW G, NEW Q, NEW P, NEW R, NEW C, NEW O, NEW X, NEW Y,
           Partition(W, I, G, Q, P, R, C, O), P = X \cup Y, X \cap Y = {}
    PROVE  Partition(W, I, G, Q, Y, R \cup X, C, O) /\ R \cap X = {}
BY DEF Partition

(* evict_finished: R is cut in two.                                        *)
LEMMA MoveEvicted ==
    ASSUME NEW W, NEW I, NEW G, NEW Q, NEW P, NEW R, NEW C, NEW O, NEW X, NEW Y,
           Partition(W, I, G, Q, P, R, C, O), C = {}, X \cup Y = R, X \cap Y = {}
    PROVE  Partition(W, I, G, Q, P, X, Y, O)
BY DEF Partition

(* A request is closed and leaves.                                         *)
LEMMA MoveClosed ==
    ASSUME NEW W, NEW I, NEW G, NEW Q, NEW P, NEW R, NEW C, NEW O, NEW C2, NEW x,
           Partition(W, I, G, Q, P, R, C, O), C = {x} \cup C2, x \notin C2
    PROVE  Partition(W, I, G, Q, P, R, C2, O \ {x})
BY DEF Partition

(* A request is accepted.                                                  *)
LEMMA MoveAccepted ==
    ASSUME NEW W, NEW I, NEW G, NEW Q, NEW P, NEW R, NEW C, NEW O, NEW x,
           Partition(W, I, G, Q, P, R, C, O), x \notin O
    PROVE  Partition(W \cup {x}, I, G, Q, P, R, C, O \cup {x}) /\ x \notin W
BY DEF Partition

(* The first state.                                                        *)
LEMMA PlacesInit == Init => Places
<1> SUFFICES ASSUME Init PROVE Places
  OBVIOUS
<1>1. /\ Range(waiting) = {} /\ Range(incoming) = {} /\ Range(gen) = {}
      /\ Distinct(waiting) /\ Distinct(incoming) /\ Distinct(gen)
  BY EmptyDistinct DEF Init
<1>2. \A i \in 1 .. Len(<<>>) : FALSE
  OBVIOUS
<1>3. UnitReqs(pending) = <<>>
  <2>1. pending = <<>> /\ <<>> \in Seq(UnitType) /\ Len(<<>>) = 0
    BY EmptySeq DEF Init
  <2>2. UnitReqs(<<>>) \in Seq(Seq(Request)) /\ Len(UnitReqs(<<>>)) = Len(<<>>)
    BY <2>1, UnitsAsGroups
  <2> QED BY <2>1, <2>2, EmptySeq
<1>4. Members(<<>>) = {} /\ Apart(<<>>)
  BY <1>2 DEF Members, Apart
<1>5. ReqSet(rows) = {} /\ OneRowEach(rows) /\ ReqSet(ToClose) = {} /\ OneRowEach(closing)
  BY FewRows DEF Init, ToClose
<1>6. Open = {}
  BY DEF Open, Accepted, Init
<1>7. \A r \in Request : ~Ended(r)
  BY DEF Init, Ended, EmptyQueue
<1>8. Partition({}, {}, {}, {}, {}, {}, {}, {})
  BY DEF Partition
<1>9. Once
  BY <1>1, <1>3, <1>4, <1>5 DEF Once, Init
<1>10. Partition(Range(waiting), Range(incoming), Range(gen), Members(groups),
                 Members(UnitReqs(pending)), ReqSet(rows), ReqSet(ToClose), Open)
  BY <1>1, <1>3, <1>4, <1>5, <1>6, <1>8 DEF Init
<1> QED BY <1>7, <1>9, <1>10 DEF Places

(* What the requests' threads leave alone: which requests are accepted and
   which have ended.                                                       *)
LEMMA CallersKeepOpen ==
    ASSUME TypeOK, NEW r \in Request, Cancel(r) \/ Free(r) \/ Client(r)
    PROVE  /\ \A q \in Request : Accepted(q)' <=> Accepted(q)
           /\ \A q \in Request : Ended(q)' <=> Ended(q)
<1>1. /\ tokens[r] \in QueueType /\ tokens \in [Request -> QueueType]
      /\ client \in [Request -> ClientPC]
  BY DEF TypeOK
<1>2. PopItem(tokens[r]).closed = tokens[r].closed
  BY <1>1, QueueTypes
<1>3. \A q \in Request : Ended(q)' <=> Ended(q)
  <2>1. tokens' = tokens \/ tokens' = [tokens EXCEPT ![r] = PopItem(@)]
    BY DEF Cancel, Free, Client, PopToken, PopLogprob, PopEnd, SendFrame, SendFails, requestVars
  <2>2. \A q \in Request : tokens'[q].closed = tokens[q].closed
    BY <1>1, <1>2, <2>1
  <2> QED BY <2>2 DEF Ended
<1>4. \A from : Handled(r, from) \notin {"new", "rejected"}
  BY DEF Handled
<1>5. \/ client' = client
      \/ client[r] \notin {"new", "rejected"} /\ \E to : to \notin {"new", "rejected"} /\ client' = [client EXCEPT ![r] = to]
  <2>1. CASE Cancel(r)
    BY <2>1 DEF Cancel
  <2>2. CASE Free(r)
    BY <2>2 DEF Free
  <2>3. CASE PopToken(r)
    BY <1>4, <2>3 DEF PopToken
  <2>4. CASE PopLogprob(r)
    BY <1>4, <2>4 DEF PopLogprob
  <2>5. CASE PopEnd(r)
    BY <2>5 DEF PopEnd
  <2>6. CASE SendFrame(r)
    BY <2>6 DEF SendFrame
  <2>7. CASE SendFails(r)
    BY <2>7 DEF SendFails
  <2> QED BY <2>1, <2>2, <2>3, <2>4, <2>5, <2>6, <2>7 DEF Client
<1>6. \A q \in Request : Accepted(q)' <=> Accepted(q)
  BY <1>1, <1>5 DEF Accepted
<1> QED BY <1>3, <1>6

(* A step that leaves the collections, and the ends of the requests, alone. *)
LEMMA PlacesKept ==
    ASSUME Places, UNCHANGED <<waiting, incoming, gen, groups, pending, rows, ToClose, closing>>,
           \A q \in Request : Accepted(q)' <=> Accepted(q),
           \A q \in Request : Ended(q)' <=> Ended(q)
    PROVE  Places'
<1>1. Open' = Open
  BY DEF Open
<1>2. Once'
  BY DEF Places, Once
<1>3. (Partition(Range(waiting), Range(incoming), Range(gen), Members(groups),
                 Members(UnitReqs(pending)), ReqSet(rows), ReqSet(ToClose), Open))'
  BY <1>1 DEF Places
<1> QED BY <1>2, <1>3 DEF Places

(* The requests' threads and stop().                                       *)
LEMMA PlacesCallers ==
    ASSUME Control, Places
    PROVE  /\ \A r \in Request : Submit(r) \/ Cancel(r) \/ Free(r) \/ Client(r) => Places'
           /\ Stop => Places'
           /\ UNCHANGED vars => Places'
<1>0. TypeOK /\ WorkerTypes /\ RequestTypes
  BY TypeHalves DEF Control
<1>1. ASSUME NEW r \in Request, Submit(r) PROVE Places'
  <2>1. UNCHANGED <<incoming, gen, groups, pending, rows, closing, pc, tokens>>
    BY <1>1 DEF Submit, workerVars, loopVars, admitVars, requestVars
  <2>2. ToClose' = ToClose
    BY <2>1 DEF ToClose
  <2>3. \A q \in Request : Ended(q)' <=> Ended(q)
    BY <2>1 DEF Ended
  <2>4. CASE MaxWaiting > 0 /\ Len(waiting) >= MaxWaiting
    <3>1. waiting' = waiting /\ client' = [client EXCEPT ![r] = "rejected"] /\ client[r] = "new"
      BY <1>1, <2>4 DEF Submit
    <3>2. \A q \in Request : Accepted(q)' <=> Accepted(q)
      BY <1>0, <3>1 DEF Accepted, RequestTypes
    <3> QED BY <2>1, <2>2, <2>3, <3>1, <3>2, PlacesKept
  <2>5. CASE ~(MaxWaiting > 0 /\ Len(waiting) >= MaxWaiting)
    <3>1. /\ waiting' = Append(waiting, r) /\ client[r] = "new"
          /\ \E to \in {"sending", "reading"} : client' = [client EXCEPT ![r] = to]
      BY <1>1, <2>5 DEF Submit
    <3>2. /\ \A q \in Request : q # r => (Accepted(q)' <=> Accepted(q))
          /\ Accepted(r)' /\ ~Accepted(r)
      BY <1>0, <3>1 DEF Accepted, RequestTypes
    <3>3. ~Ended(r)
      BY <3>2 DEF Places
    <3>4. Open' = Open \cup {r} /\ r \notin Open
      BY <2>3, <3>2, <3>3 DEF Open
    <3>5. waiting \in Seq(Request) /\ Distinct(waiting)
      BY <1>0 DEF WorkerTypes, Places, Once
    <3> DEFINE W == Range(waiting)
               I == Range(incoming)
               G == Range(gen)
               Q == Members(groups)
               P == Members(UnitReqs(pending))
               R == ReqSet(rows)
               C == ReqSet(ToClose)
    <3>6. Partition(W, I, G, Q, P, R, C, Open)
      BY DEF Places
    <3>7. Range(waiting') = W \cup {r}
      BY <3>1, <3>5, AppendRange
    <3>8. /\ I' = I /\ G' = G /\ Q' = Q /\ P' = P /\ R' = R /\ C' = C
      BY <2>1, <2>2
    <3> HIDE DEF W, I, G, Q, P, R, C
    <3>9. Partition(W \cup {r}, I, G, Q, P, R, C, Open \cup {r}) /\ r \notin W
      BY <3>4, <3>6, MoveAccepted
    <3>10. Distinct(waiting')
      BY <3>1, <3>5, <3>9, AppendDistinct DEF W
    <3>11. Once'
      BY <2>1, <3>10 DEF Places, Once
    <3>12. \A q \in Request : Ended(q)' => Accepted(q)'
      BY <2>3, <3>2 DEF Places
    <3>13. Partition(W, I, G, Q, P, R, C, Open)'
      BY <3>4, <3>7, <3>8, <3>9 DEF W
    <3> QED BY <3>11, <3>12, <3>13 DEF Places, W, I, G, Q, P, R, C
  <2> QED BY <2>4, <2>5
<1>2. ASSUME NEW r \in Request, Cancel(r) \/ Free(r) \/ Client(r) PROVE Places'
  <2>1. UNCHANGED <<schedVars, workerVars>>
    BY <1>0, <1>2, RequestTypesKept
  <2>2. UNCHANGED <<waiting, incoming, gen, groups, pending, rows, closing, pc>>
    BY <2>1 DEF schedVars, workerVars, loopVars, admitVars
  <2>3. ToClose' = ToClose
    BY <2>2 DEF ToClose
  <2>4. /\ \A q \in Request : Accepted(q)' <=> Accepted(q)
        /\ \A q \in Request : Ended(q)' <=> Ended(q)
    BY <1>0, <1>2, CallersKeepOpen
  <2> QED BY <2>2, <2>3, <2>4, PlacesKept
<1>3. ASSUME UNCHANGED <<waiting, workerVars, requestVars, clientVars>> PROVE Places'
  <2>1. UNCHANGED <<waiting, incoming, gen, groups, pending, rows, closing, pc, tokens, client>>
    BY <1>3 DEF workerVars, loopVars, admitVars, requestVars, clientVars
  <2>2. ToClose' = ToClose
    BY <2>1 DEF ToClose
  <2>3. /\ \A q \in Request : Accepted(q)' <=> Accepted(q)
        /\ \A q \in Request : Ended(q)' <=> Ended(q)
    BY <2>1 DEF Accepted, Ended
  <2> QED BY <2>1, <2>2, <2>3, PlacesKept
<1>4. Stop => Places'
  BY <1>3 DEF Stop
<1>5. UNCHANGED vars => Places'
  BY <1>3 DEF vars, schedVars
<1> QED BY <1>1, <1>2, <1>4, <1>5

(* The worker's steps.                                                     *)
LEMMA PlacesWorker ==
    ASSUME Control, Places, Worker
    PROVE  Places'
<1> DEFINE W == Range(waiting)
           I == Range(incoming)
           G == Range(gen)
           Q == Members(groups)
           P == Members(UnitReqs(pending))
           R == ReqSet(rows)
           C == ReqSet(ToClose)
<1>0. WorkerTypes /\ RequestTypes /\ Loops /\ Locals /\ Once /\ TypeOK
  BY TypeHalves DEF Control, Places
<1>a. /\ waiting \in Seq(Request) /\ incoming \in Seq(Request) /\ gen \in Seq(Request)
      /\ groups \in Seq(Seq(Request)) /\ pending \in Seq(UnitType)
      /\ rows \in Seq(RowType) /\ closing \in Seq(RowType)
      /\ UnitReqs(pending) \in Seq(Seq(Request))
  BY <1>0, UnitsAsGroups DEF WorkerTypes
<1>b. Partition(W, I, G, Q, P, R, C, Open) /\ \A r \in Request : Ended(r) => Accepted(r)
  BY DEF Places
<1>c. ASSUME UNCHANGED <<tokens, client>>
      PROVE  /\ \A q \in Request : Accepted(q)' <=> Accepted(q)
             /\ \A q \in Request : Ended(q)' <=> Ended(q)
             /\ Open' = Open
  <2>1. /\ \A q \in Request : Accepted(q)' <=> Accepted(q)
        /\ \A q \in Request : Ended(q)' <=> Ended(q)
    BY <1>c DEF Accepted, Ended
  <2> QED BY <2>1 DEF Open
<1>d. ASSUME UNCHANGED <<waiting, incoming, gen, groups, pending, rows, closing, tokens, client>>,
             pc # "closeLogprobs", pc' # "closeLogprobs"
      PROVE  Places'
  <2>1. ToClose' = ToClose
    BY <1>d DEF ToClose
  <2> QED BY <1>c, <1>d, <2>1, PlacesKept
<1>e. ASSUME Once', UNCHANGED <<tokens, client>>,
             Partition(W', I', G', Q', P', R', C', Open)
      PROVE  Places'
  <2>1. Open' = Open /\ \A r \in Request : Ended(r)' => Accepted(r)'
    BY <1>b, <1>c, <1>e
  <2> QED BY <1>e, <2>1 DEF Places
<1>f. ASSUME pc # "closeLogprobs", pc' # "closeLogprobs", closing' = closing
      PROVE  ToClose' = ToClose /\ C' = C
  BY <1>f DEF ToClose
<1>g. ReqSet(<<>>) = {} /\ Range(<<>>) = {} /\ Members(<<>>) = {}
  BY FewRows, EmptyDistinct DEF Members
<1>h. ASSUME pc \notin {"closeTokens", "closeLogprobs"} PROVE closing = <<>> /\ C = {}
  BY <1>0, <1>h, <1>g DEF Loops, CloseLoop, ToClose
<1> HIDE DEF W, I, G, Q, P, R, C
<1>1. CASE Load
  BY <1>1, <1>d DEF Load, schedVars, admitVars, requestVars, clientVars
<1>2. ASSUME NEW max \in Nat, Take(max), pc \in {"top", "more"}, pc' \in {"more", "dispatch"},
             UNCHANGED <<gen, groups, pending, rows, closing, tokens, client>>
      PROVE  Places'
  <2>1. PICK taken \in Seq(Request) :
          /\ incoming' = incoming \o taken /\ Distinct(taken)
          /\ Range(taken) \cup Range(waiting') = W
          /\ Range(taken) \cap Range(waiting') = {}
    BY <1>0, <1>2, TakeSplits DEF Once, W
  <2>2. Distinct(waiting')
    BY <1>0, <1>2, TakeSplits DEF Once
  <2>3. Partition(W', I \cup Range(taken), G, Q, P, R, C, Open) /\ I \cap Range(taken) = {}
    <3> DEFINE X == Range(taken)
               W2 == W'
    <3>1. W2 = Range(waiting')
      BY DEF W
    <3>2. X \cup W2 = W /\ X \cap W2 = {}
      BY <2>1, <3>1
    <3>3. Partition(W, I, G, Q, P, R, C, Open)
      BY <1>b
    <3> HIDE DEF X, W2
    <3>4. Partition(W2, I \cup X, G, Q, P, R, C, Open) /\ I \cap X = {}
      BY <3>2, <3>3, MoveTaken
    <3> QED BY <3>4 DEF X, W2
  <2>4. Range(incoming') = I \cup Range(taken) /\ Distinct(incoming')
    BY <1>0, <1>a, <2>1, <2>3, ConcatDistinct DEF Once, I
  <2>5. C' = C
    BY <1>2, <1>f
  <2>6. I' = I \cup Range(taken) /\ G' = G /\ Q' = Q /\ P' = P /\ R' = R
    BY <1>2, <2>4 DEF I, G, Q, P, R
  <2>7. Once'
    BY <1>0, <1>2, <2>2, <2>4 DEF Once
  <2> QED BY <1>2, <1>e, <2>3, <2>5, <2>6, <2>7
<1>3. CASE NextWaiting
  BY <1>2, <1>3 DEF NextWaiting, requestVars, clientVars
<1>4. CASE TakeMore
  <2>1. PrefillBatch - 1 \in Nat
    BY BoundsAssumption
  <2> QED BY <1>2, <1>4, <2>1 DEF TakeMore, requestVars, clientVars
<1>5. CASE TopUp
  <2>1. PrefillBatch \in Nat
    BY BoundsAssumption
  <2> QED BY <1>2, <1>5, <2>1 DEF TopUp, requestVars, clientVars
<1>6. CASE Exit
  BY <1>6, <1>d DEF Exit, schedVars, admitVars, requestVars, clientVars
<1>7. ASSUME incoming # <<>>
      PROVE  /\ Head(incoming) \in Request /\ Tail(incoming) \in Seq(Request)
             /\ I = {Head(incoming)} \cup Range(Tail(incoming))
             /\ Distinct(Tail(incoming)) /\ Head(incoming) \notin Range(Tail(incoming))
  BY <1>0, <1>7, <1>a, TailDistinct DEF I, Once
<1>8. ASSUME NEW why, pc = "dispatch", incoming # <<>>, EndEarly(Head(incoming), why),
             incoming' = Tail(incoming),
             UNCHANGED <<schedVars, gen, groups, pending, rows, tokens, client>>
      PROVE  Places'
  <2>1. closing' = <<FreshRow(Head(incoming))>> /\ pc' = "closeTokens"
    BY <1>8 DEF EndEarly
  <2>2. Partition(W, Range(Tail(incoming)), G, Q, P, R, {Head(incoming)}, Open)
    BY <1>7, <1>8, <1>b, <1>h, MoveFirst
  <2>3. C' = {Head(incoming)} /\ OneRowEach(closing')
    BY <1>7, <1>8, <2>1, FewRows DEF C, ToClose
  <2>4. W' = W /\ I' = Range(Tail(incoming)) /\ G' = G /\ Q' = Q /\ P' = P /\ R' = R
    BY <1>8 DEF W, I, G, Q, P, R, schedVars
  <2>5. Once'
    BY <1>0, <1>7, <1>8, <2>3 DEF Once, schedVars
  <2> QED BY <1>8, <1>e, <2>2, <2>3, <2>4, <2>5
<1>9. CASE HandleEmbedding
  <2>1. PICK why \in {"embed", "error"} : EndEarly(Head(incoming), why)
    BY <1>9 DEF HandleEmbedding
  <2> QED BY <1>8, <1>9, <2>1 DEF HandleEmbedding, clientVars
<1>10. ASSUME NEW s \in Seq(Request), NEW back, RegisterRows(s, back), Distinct(s), R \cap Range(s) = {}
       PROVE  /\ R' = R \cup Range(s) /\ OneRowEach(rows') /\ pc' = "row"
  <2>1. rows' = rows \o FreshRows(s) /\ pc' = "row"
    BY <1>10 DEF RegisterRows
  <2>2. ReqSet(rows') = ReqSet(rows) \cup Range(s) /\ OneRowEach(rows')
    BY <1>0, <1>10, <1>a, <2>1, RowsJoin DEF Once, R
  <2> QED BY <2>1, <2>2 DEF R
<1>11. CASE AdmitMultimodal
  <2>0. /\ pc = "dispatch" /\ incoming # <<>> /\ incoming' = Tail(incoming)
        /\ UNCHANGED <<schedVars, gen, groups, pending, tokens, client>>
    BY <1>11 DEF AdmitMultimodal, clientVars
  <2>1. CASE EndEarly(Head(incoming), "error") /\ UNCHANGED <<rows, cur>>
    BY <1>8, <2>0, <2>1
  <2>2. CASE RegisterRows(<<Head(incoming)>>, "dispatch") /\ UNCHANGED <<reason, closing>>
    <3> DEFINE s == <<Head(incoming)>>
    <3>1. s \in Seq(Request) /\ Range(s) = {Head(incoming)} /\ Distinct(s)
      <4>1. Head(incoming) \in Request
        BY <1>7, <2>0
      <4>2. s \in Seq(Request) /\ Len(s) = 1 /\ s[1] = Head(incoming) /\ DOMAIN s = 1 .. 1
        BY <4>1
      <4> HIDE DEF s
      <4> QED BY <4>2 DEF Range, Distinct
    <3> HIDE DEF s
    <3>2. /\ Partition(W, Range(Tail(incoming)), G, Q, P, R \cup {Head(incoming)}, C, Open)
          /\ Head(incoming) \notin R
      <4>1. I = {Head(incoming)} \cup Range(Tail(incoming)) /\ Head(incoming) \notin Range(Tail(incoming))
        BY <1>7, <2>0
      <4>2. Partition(W, I, G, Q, P, R, C, Open)
        BY <1>b
      <4> DEFINE I2 == Range(Tail(incoming))
      <4> HIDE DEF I2
      <4> QED BY <4>1, <4>2 DEF Partition, I2
    <3>3. R' = R \cup {Head(incoming)} /\ OneRowEach(rows') /\ pc' = "row"
      <4>1. RegisterRows(s, "dispatch") /\ R \cap Range(s) = {}
        BY <2>2, <3>1, <3>2 DEF s
      <4> QED BY <1>10, <3>1, <4>1
    <3>4. C' = C
      BY <1>f, <2>0, <2>2, <3>3
    <3>5. W' = W /\ I' = Range(Tail(incoming)) /\ G' = G /\ Q' = Q /\ P' = P
      BY <2>0 DEF W, I, G, Q, P, schedVars
    <3>6. Once'
      BY <1>0, <1>7, <2>0, <2>2, <3>3 DEF Once, schedVars
    <3> QED BY <1>e, <2>0, <3>2, <3>3, <3>4, <3>5, <3>6
  <2> QED BY <1>11, <2>1, <2>2 DEF AdmitMultimodal
<1>12. CASE CollectText
  <2>0. /\ pc = "dispatch" /\ incoming # <<>> /\ incoming' = Tail(incoming)
        /\ gen' = Append(gen, Head(incoming))
        /\ UNCHANGED <<waiting, pc, groups, pending, rows, closing, tokens, client>>
    BY <1>12 DEF CollectText, schedVars, loopVars, requestVars, clientVars
  <2>1. /\ Partition(W, Range(Tail(incoming)), G \cup {Head(incoming)}, Q, P, R, C, Open)
        /\ Head(incoming) \notin G
    <3> DEFINE x == Head(incoming)
               I2 == Range(Tail(incoming))
    <3>1. I = {x} \cup I2 /\ x \notin I2
      BY <1>7, <2>0
    <3>2. Partition(W, I, G, Q, P, R, C, Open)
      BY <1>b
    <3> HIDE DEF x, I2
    <3>3. Partition(W, I2, G \cup {x}, Q, P, R, C, Open)
      BY <3>1, <3>2, MoveFirst
    <3>4. x \notin G
      BY <3>1, <3>2 DEF Partition
    <3> QED BY <3>3, <3>4 DEF x, I2
  <2>2. Range(gen') = G \cup {Head(incoming)}
    BY <1>7, <1>a, <2>0, AppendRange DEF G
  <2>3. Distinct(gen')
    BY <1>0, <1>7, <1>a, <2>0, <2>1, AppendDistinct DEF G, Once
  <2>4. C' = C
    BY <1>f, <2>0
  <2>5. W' = W /\ I' = Range(Tail(incoming)) /\ G' = G \cup {Head(incoming)} /\ Q' = Q /\ P' = P /\ R' = R
    BY <2>0, <2>2 DEF W, I, G, Q, P, R
  <2>6. Once'
    BY <1>0, <1>7, <2>0, <2>3 DEF Once
  <2> QED BY <1>e, <2>0, <2>1, <2>4, <2>5, <2>6
<1>13. CASE EnqueueAdmissions
  <2>0. /\ pc = "dispatch" /\ pc' = "prefill" /\ gen' = <<>>
        /\ UNCHANGED <<waiting, incoming, groups, rows, closing, tokens, client>>
    BY <1>13 DEF EnqueueAdmissions, schedVars, requestVars, clientVars
  <2>1. PICK m \in Matches(gen) :
          pending' = pending \o WarmUnits(Warm(gen, m), m) \o ColdUnits(Cold(gen, m))
    BY <1>13 DEF EnqueueAdmissions
  <2>2. pending = <<>>
    BY <1>0, <2>0 DEF Locals, Home, RowLoop, CloseLoop
  <2>3. Apart(UnitReqs(pending')) /\ Members(UnitReqs(pending')) = G
    BY <1>0, <1>a, <2>1, <2>2, AdmissionUnits DEF Once, G
  <2>4. P = {}
    <3>1. UnitReqs(pending) = <<>>
      BY <1>a, <2>2, UnitsAsGroups, EmptySeq
    <3> QED BY <1>g, <3>1 DEF P
  <2>5. Partition(W, I, {}, Q, G, R, C, Open)
    BY <1>b, <2>4, MoveAdmitted
  <2>6. C' = C
    BY <1>f, <2>0
  <2>7. W' = W /\ I' = I /\ G' = {} /\ Q' = Q /\ P' = G /\ R' = R
    BY <1>g, <2>0, <2>3 DEF W, I, G, Q, P, R
  <2>8. Once'
    BY <1>0, <2>0, <2>3, EmptyDistinct DEF Once
  <2> QED BY <1>e, <2>0, <2>5, <2>6, <2>7, <2>8
<1>14. CASE Admit
  <2>0. /\ pc = "dispatch" /\ pc' = "admit" /\ gen' = <<>>
        /\ UNCHANGED <<waiting, incoming, pending, rows, closing, tokens, client>>
    BY <1>14 DEF Admit, schedVars, requestVars, clientVars
  <2>1. PICK m \in Matches(gen) :
          groups' = ColdGroups(Cold(gen, m)) \o WarmGroups(Warm(gen, m))
    BY <1>14 DEF Admit
  <2>2. Q = {}
    BY <1>0, <1>g, <2>0 DEF Locals, Home, RowLoop, CloseLoop, Q
  <2>3. Apart(groups') /\ Members(groups') = G
    BY <1>0, <1>a, <2>1, AdmissionUnits DEF Once, G
  <2>5. Partition(W, I, {}, G, P, R, C, Open)
    BY <1>b, <2>2, MoveAdmitted
  <2>6. C' = C
    BY <1>f, <2>0
  <2>7. W' = W /\ I' = I /\ G' = {} /\ Q' = G /\ P' = P /\ R' = R
    BY <1>g, <2>0, <2>3 DEF W, I, G, Q, P, R
  <2>8. Once'
    BY <1>0, <2>0, <2>3, EmptyDistinct DEF Once
  <2> QED BY <1>e, <2>0, <2>5, <2>6, <2>7, <2>8
<1>15. CASE AdmitGroup
  <2>0. /\ pc = "admit" /\ groups # <<>> /\ groups' = Tail(groups)
        /\ RegisterRows(Head(groups), "admit")
        /\ UNCHANGED <<waiting, incoming, gen, pending, closing, tokens, client>>
    BY <1>15 DEF AdmitGroup, schedVars, requestVars, clientVars
  <2>1. /\ Head(groups) \in Seq(Request) /\ Apart(Tail(groups)) /\ Distinct(Head(groups))
        /\ Q = Range(Head(groups)) \cup Members(Tail(groups))
        /\ Range(Head(groups)) \cap Members(Tail(groups)) = {}
    BY <1>0, <1>a, <2>0, GroupsTail DEF Once, Q
  <2>2. /\ Partition(W, I, G, Members(Tail(groups)), P, R \cup Range(Head(groups)), C, Open)
        /\ R \cap Range(Head(groups)) = {}
    <3>1. Partition(W, I, G, Q, P, R, C, Open)
      BY <1>b
    <3> DEFINE X == Range(Head(groups))
               Y == Members(Tail(groups))
    <3>2. Q = X \cup Y /\ X \cap Y = {}
      BY <2>1
    <3> HIDE DEF X, Y
    <3>3. Partition(W, I, G, Y, P, R \cup X, C, Open) /\ R \cap X = {}
      BY <3>1, <3>2, MoveGroup
    <3> QED BY <3>3 DEF X, Y
  <2>3. R' = R \cup Range(Head(groups)) /\ OneRowEach(rows') /\ pc' = "row"
    BY <1>10, <2>0, <2>1, <2>2
  <2>4. C' = C
    BY <1>f, <2>0, <2>3
  <2>5. W' = W /\ I' = I /\ G' = G /\ Q' = Members(Tail(groups)) /\ P' = P
    BY <2>0 DEF W, I, G, Q, P
  <2>6. Once'
    BY <1>0, <2>0, <2>1, <2>3 DEF Once
  <2> QED BY <1>e, <2>0, <2>2, <2>3, <2>4, <2>5, <2>6
<1>16. CASE AdmissionDone
  BY <1>16, <1>d DEF AdmissionDone, schedVars, admitVars, requestVars, clientVars
<1>17. CASE AdvanceChunkedPrefill
  <2>0. /\ pc \in {"top", "prefill"} /\ pending # <<>>
        /\ UNCHANGED <<waiting, incoming, gen, groups, closing, tokens, client>>
    BY <1>17 DEF AdvanceChunkedPrefill, schedVars, requestVars, clientVars
  <2>1. CASE Head(pending).left > PrefillChunk
    <3>1. /\ pending' = [pending EXCEPT ![1].left = @ - PrefillChunk]
          /\ pc' = "evict1" /\ rows' = rows
      BY <1>17, <2>1 DEF AdvanceChunkedPrefill
    <3>2. UnitReqs(pending') = UnitReqs(pending)
      <4>1. /\ DOMAIN pending = 1 .. Len(pending) /\ 1 \in 1 .. Len(pending)
            /\ pending[1] \in [reqs : Seq(Request), left : Nat]
        <5>1. Len(pending) \in Nat \ {0}
          BY <1>a, <2>0, EmptySeq
        <5>2. pending[1] \in UnitType
          BY <1>a, <5>1
        <5> QED BY <1>a, <5>1, <5>2 DEF UnitType
      <4> DEFINE u == [pending[1] EXCEPT !.left = @ - PrefillChunk]
      <4>2. u.reqs = pending[1].reqs
        BY <4>1
      <4>3. pending' = [pending EXCEPT ![1] = u]
        BY <3>1
      <4> HIDE DEF u
      <4>4. /\ Len(pending') = Len(pending)
            /\ \A i \in 1 .. Len(pending) : pending'[i].reqs = pending[i].reqs
        BY <1>a, <4>1, <4>2, <4>3
      <4> QED BY <4>4 DEF UnitReqs
    <3>3. C' = C
      BY <1>f, <2>0, <3>1
    <3>4. W' = W /\ I' = I /\ G' = G /\ Q' = Q /\ P' = P /\ R' = R
      BY <2>0, <3>1, <3>2 DEF W, I, G, Q, P, R
    <3>5. Once'
      BY <1>0, <2>0, <3>1, <3>2 DEF Once
    <3> QED BY <1>b, <1>e, <2>0, <3>3, <3>4, <3>5
  <2>2. CASE ~(Head(pending).left > PrefillChunk)
    <3> DEFINE f == UnitReqs(pending)
    <3>1. pending' = Tail(pending) /\ RegisterRows(Head(pending).reqs, "evict1")
      BY <1>17, <2>2 DEF AdvanceChunkedPrefill
    <3>2. f # <<>> /\ Head(f) = Head(pending).reqs /\ UnitReqs(Tail(pending)) = Tail(f)
      BY <1>a, <2>0, UnitsAsGroups
    <3>3. f \in Seq(Seq(Request)) /\ Apart(f) /\ P = Members(f)
      BY <1>0, <1>a DEF Once, P
    <3> HIDE DEF f
    <3>4. /\ Head(f) \in Seq(Request) /\ Apart(Tail(f)) /\ Distinct(Head(f))
          /\ P = Range(Head(f)) \cup Members(Tail(f))
          /\ Range(Head(f)) \cap Members(Tail(f)) = {}
      BY <3>2, <3>3, GroupsTail
    <3>5. /\ Partition(W, I, G, Q, Members(Tail(f)), R \cup Range(Head(f)), C, Open)
          /\ R \cap Range(Head(f)) = {}
      <4>1. Partition(W, I, G, Q, P, R, C, Open)
        BY <1>b
      <4> DEFINE X == Range(Head(f))
                 Y == Members(Tail(f))
      <4>2. P = X \cup Y /\ X \cap Y = {}
        BY <3>4
      <4> HIDE DEF X, Y
      <4>3. Partition(W, I, G, Q, Y, R \cup X, C, Open) /\ R \cap X = {}
        BY <4>1, <4>2, MoveUnit
      <4> QED BY <4>3 DEF X, Y
    <3>6. R' = R \cup Range(Head(f)) /\ OneRowEach(rows') /\ pc' = "row"
      BY <1>10, <3>1, <3>2, <3>4, <3>5
    <3>7. C' = C
      BY <1>f, <2>0, <3>6
    <3>8. UnitReqs(pending') = Tail(f)
      BY <3>1, <3>2
    <3>9. W' = W /\ I' = I /\ G' = G /\ Q' = Q /\ P' = Members(Tail(f))
      BY <2>0, <3>8 DEF W, I, G, Q, P
    <3>10. Once'
      BY <1>0, <2>0, <3>4, <3>6, <3>8 DEF Once
    <3> QED BY <1>e, <2>0, <3>5, <3>6, <3>7, <3>9, <3>10
  <2> QED BY <2>1, <2>2
<1>18. ASSUME pc \in {"row", "push", "pushLogprob"}, pc' # "closeLogprobs", R' = R,
              OneRowEach(rows) => OneRowEach(rows'),
              UNCHANGED <<waiting, incoming, gen, groups, pending, closing, client>>,
              \A q \in Request : Ended(q)' <=> Ended(q)
       PROVE  Places'
  <2>1. C' = C
    BY <1>18, <1>f
  <2>2. W' = W /\ I' = I /\ G' = G /\ Q' = Q /\ P' = P
    BY <1>18 DEF W, I, G, Q, P
  <2>3. Once'
    BY <1>0, <1>18 DEF Once
  <2>4. \A q \in Request : Accepted(q)' <=> Accepted(q)
    BY <1>18 DEF Accepted
  <2>5. Open' = Open /\ \A q \in Request : Ended(q)' => Accepted(q)'
    BY <1>18, <1>b, <2>4 DEF Open
  <2>6. Partition(W', I', G', Q', P', R', C', Open')
    BY <1>18, <1>b, <2>1, <2>2, <2>5
  <2> QED BY <2>3, <2>5, <2>6 DEF Places, W, I, G, Q, P, R, C
<1>19. ASSUME pc \in {"row", "push", "pushLogprob"}
       PROVE  cur \in 1 .. Len(rows) /\ rows[cur] \in RowType /\ ret # "closeLogprobs"
              /\ rows[cur].req \in Request
  <2>1. cur \in 1 .. Len(rows) /\ ret # "closeLogprobs"
    BY <1>0, <1>19 DEF Loops, RowLoop
  <2>2. rows[cur] \in RowType
    BY <1>a, <2>1
  <2> QED BY <2>1, <2>2 DEF RowType
<1>20. ASSUME pc \in {"row", "push", "pushLogprob"}, NEW why, FinishRow(why)
       PROVE  R' = R /\ (OneRowEach(rows) => OneRowEach(rows')) /\ pc' # "closeLogprobs"
  <2> DEFINE row == [rows[cur] EXCEPT !.finished = TRUE]
  <2>1. row \in RowType /\ row.req = rows[cur].req
    BY <1>19, <1>20 DEF RowType
  <2>2. rows' = [rows EXCEPT ![cur] = row]
    BY <1>20 DEF FinishRow
  <2> HIDE DEF row
  <2>3. ReqSet(rows') = ReqSet(rows) /\ (OneRowEach(rows) => OneRowEach(rows'))
    BY <1>19, <1>20, <1>a, <2>1, <2>2, RowChanged
  <2>4. pc' # "closeLogprobs"
    BY <1>19, <1>20 DEF FinishRow, NextRow
  <2> QED BY <2>3, <2>4 DEF R
<1>21. ASSUME pc \in {"row", "push", "pushLogprob"}, CountToken, NextRow
       PROVE  R' = R /\ (OneRowEach(rows) => OneRowEach(rows')) /\ pc' # "closeLogprobs"
  <2> DEFINE one == [rows[cur] EXCEPT !.produced = @ + 1]
             last == [one EXCEPT !.finished = TRUE]
  <2>1. one \in RowType /\ one.req = rows[cur].req /\ last \in RowType /\ last.req = rows[cur].req
    <3>1. rows[cur] \in RowType /\ rows[cur].produced + 1 \in Nat
      BY <1>19, <1>21 DEF RowType
    <3>2. one \in RowType /\ one.req = rows[cur].req
      BY <3>1 DEF RowType
    <3> HIDE DEF one
    <3> QED BY <3>2 DEF RowType
  <2>2. rows' = [rows EXCEPT ![cur] = one] \/ rows' = [rows EXCEPT ![cur] = last]
    BY <1>a, <1>19, <1>21 DEF CountToken
  <2> HIDE DEF one, last
  <2>3. ReqSet(rows') = ReqSet(rows) /\ (OneRowEach(rows) => OneRowEach(rows'))
    <3>1. CASE rows' = [rows EXCEPT ![cur] = one]
      BY <1>19, <1>21, <1>a, <2>1, <3>1, RowChanged
    <3>2. CASE rows' = [rows EXCEPT ![cur] = last]
      BY <1>19, <1>21, <1>a, <2>1, <3>2, RowChanged
    <3> QED BY <2>2, <3>1, <3>2
  <2>4. pc' # "closeLogprobs"
    BY <1>19, <1>21 DEF NextRow
  <2> QED BY <2>3, <2>4 DEF R
<1>22. CASE RowCancelled
  <2>1. /\ pc = "row" /\ FinishRow("cancel")
        /\ UNCHANGED <<waiting, incoming, gen, groups, pending, closing, client, tokens>>
    BY <1>22 DEF RowCancelled, schedVars, admitVars, clientVars
  <2>2. \A q \in Request : Ended(q)' <=> Ended(q)
    BY <2>1 DEF Ended
  <2> QED BY <1>18, <1>20, <2>1, <2>2
<1>23. CASE RowEos
  <2>1. /\ pc = "row" /\ FinishRow("stop")
        /\ UNCHANGED <<waiting, incoming, gen, groups, pending, closing, client, tokens>>
    BY <1>23 DEF RowEos, schedVars, admitVars, clientVars
  <2>2. \A q \in Request : Ended(q)' <=> Ended(q)
    BY <2>1 DEF Ended
  <2> QED BY <1>18, <1>20, <2>1, <2>2
<1>24. CASE RowToken
  BY <1>24, <1>d DEF RowToken, schedVars, admitVars, requestVars, clientVars
<1>25. CASE PushToken
  <2>1. /\ pc = "push" /\ tokens' = [tokens EXCEPT ![rows[cur].req] = PushItem(@)]
        /\ UNCHANGED <<waiting, incoming, gen, groups, pending, closing, client>>
        /\ \/ pc' = "pushLogprob" /\ rows' = rows
           \/ CountToken /\ NextRow
    BY <1>25 DEF PushToken, schedVars, admitVars, clientVars
  <2>2. \A q \in Request : Ended(q)' <=> Ended(q)
    <3>1. tokens \in [Request -> QueueType] /\ tokens[rows[cur].req] \in QueueType
      BY <1>0, <1>19, <2>1 DEF RequestTypes
    <3>2. PushItem(tokens[rows[cur].req]).closed = tokens[rows[cur].req].closed
      BY <3>1, QueueTypes
    <3> QED BY <2>1, <3>1, <3>2 DEF Ended
  <2>3. CASE pc' = "pushLogprob" /\ rows' = rows
    <3>1. R' = R
      BY <2>3 DEF R
    <3> QED BY <1>18, <2>1, <2>2, <2>3, <3>1
  <2>4. CASE CountToken /\ NextRow
    BY <1>18, <1>21, <2>1, <2>2, <2>4
  <2> QED BY <2>1, <2>3, <2>4
<1>26. CASE PushLogprob
  <2>1. /\ pc = "pushLogprob" /\ CountToken /\ NextRow
        /\ UNCHANGED <<waiting, incoming, gen, groups, pending, closing, client, tokens>>
    BY <1>26 DEF PushLogprob, schedVars, admitVars, clientVars
  <2>2. \A q \in Request : Ended(q)' <=> Ended(q)
    BY <2>1 DEF Ended
  <2> QED BY <1>18, <1>21, <2>1, <2>2
<1>27. CASE EvictFinished
  <2> DEFINE stay == Keep(rows, {row \in RowType : ~row.finished})
             leave == Keep(rows, {row \in RowType : row.finished})
  <2>0. /\ pc \in {"evict1", "evict2"} /\ rows' = stay /\ closing' = leave
        /\ pc' \in {"publish", "top", "decode", "closeTokens"}
        /\ UNCHANGED <<waiting, incoming, gen, groups, pending, tokens, client>>
    BY <1>27 DEF EvictFinished, CloseAll, schedVars, admitVars, requestVars, clientVars
  <2>1. /\ ReqSet(stay) \cup ReqSet(leave) = R /\ ReqSet(stay) \cap ReqSet(leave) = {}
        /\ OneRowEach(stay) /\ OneRowEach(leave)
    BY <1>0, <1>a, RowsSplit DEF Once, R
  <2> HIDE DEF stay, leave
  <2>2. Partition(W, I, G, Q, P, ReqSet(stay), ReqSet(leave), Open)
    BY <1>b, <1>h, <2>0, <2>1, MoveEvicted
  <2>3. W' = W /\ I' = I /\ G' = G /\ Q' = Q /\ P' = P /\ R' = ReqSet(stay)
    BY <2>0 DEF W, I, G, Q, P, R
  <2>4. C' = ReqSet(leave)
    BY <2>0 DEF C, ToClose
  <2>5. Once'
    BY <1>0, <2>0, <2>1 DEF Once
  <2> QED BY <1>e, <2>0, <2>2, <2>3, <2>4, <2>5
<1>28. ASSUME pc \in {"closeTokens", "closeLogprobs"}
       PROVE  /\ closing # <<>> /\ ret \in {"dispatch", "decode", "top", "publish"}
              /\ Head(closing).req \in Request
              /\ ReqSet(closing) = {Head(closing).req} \cup ReqSet(Tail(closing))
              /\ OneRowEach(Tail(closing)) /\ Head(closing).req \notin ReqSet(Tail(closing))
  <2>1. closing # <<>> /\ ret \in {"dispatch", "decode", "top", "publish"}
    BY <1>0, <1>28 DEF Loops, CloseLoop
  <2>2. /\ Head(closing) \in RowType
        /\ ReqSet(closing) = {Head(closing).req} \cup ReqSet(Tail(closing))
        /\ OneRowEach(Tail(closing)) /\ Head(closing).req \notin ReqSet(Tail(closing))
    BY <1>0, <1>a, <2>1, RowsTail DEF Once
  <2> QED BY <2>1, <2>2 DEF RowType
<1>29. CASE CloseTokens
  <2>x. PICK x \in Request : x = Head(closing).req
    BY <1>28, <1>29 DEF CloseTokens
  <2>0. /\ pc = "closeTokens" /\ pc' = "closeLogprobs"
        /\ tokens' = [tokens EXCEPT ![x] = CloseItem(@)]
        /\ UNCHANGED <<waiting, incoming, gen, groups, pending, rows, closing, client>>
    BY <1>29, <2>x DEF CloseTokens, schedVars, admitVars, clientVars
  <2>1. x \in Request /\ ReqSet(closing) = {x} \cup ReqSet(Tail(closing))
        /\ x \notin ReqSet(Tail(closing))
    BY <1>28, <2>0, <2>x
  <2>2. C = ReqSet(closing) /\ C' = ReqSet(Tail(closing))
    BY <2>0 DEF C, ToClose
  <2>3. Partition(W, I, G, Q, P, R, C', Open \ {x})
    BY <1>b, <2>1, <2>2, MoveClosed
  <2>4. x \in Open
    BY <1>b, <2>1, <2>2 DEF Partition
  <2>5. Ended(x)' /\ \A q \in Request : q # x => (Ended(q)' <=> Ended(q))
    <3>1. tokens \in [Request -> QueueType] /\ tokens[x] \in QueueType
      BY <1>0, <2>1 DEF RequestTypes
    <3>2. CloseItem(tokens[x]).closed
      BY <3>1, QueueTypes
    <3>3. tokens'[x] = CloseItem(tokens[x]) /\ \A q \in Request : q # x => tokens'[q] = tokens[q]
      BY <2>0, <2>1, <3>1
    <3> QED BY <3>2, <3>3 DEF Ended
  <2>6. \A q \in Request : Accepted(q)' <=> Accepted(q)
    BY <2>0 DEF Accepted
  <2>7. Open' = Open \ {x}
    <3>1. \A q \in Request : q \in Open' <=> q \in Open /\ q # x
      BY <2>1, <2>5, <2>6 DEF Open
    <3>2. Open' \subseteq Request /\ Open \subseteq Request
      BY DEF Open
    <3> QED BY <3>1, <3>2
  <2>8. \A q \in Request : Ended(q)' => Accepted(q)'
    BY <1>b, <2>4, <2>5, <2>6 DEF Open
  <2>9. W' = W /\ I' = I /\ G' = G /\ Q' = Q /\ P' = P /\ R' = R
    BY <2>0 DEF W, I, G, Q, P, R
  <2>10. Once'
    BY <1>0, <2>0 DEF Once
  <2>11. Partition(W', I', G', Q', P', R', C', Open')
    BY <2>3, <2>7, <2>9
  <2> QED BY <2>8, <2>10, <2>11 DEF Places, W, I, G, Q, P, R, C
<1>30. CASE CloseLogprobs
  <2>0. /\ pc = "closeLogprobs" /\ closing' = Tail(closing) /\ pc' \in {ret, "closeTokens"}
        /\ UNCHANGED <<waiting, incoming, gen, groups, pending, rows, tokens, client>>
    BY <1>30 DEF CloseLogprobs, CloseAll, schedVars, admitVars, clientVars
  <2>1. pc' # "closeLogprobs" /\ OneRowEach(closing')
    BY <1>28, <2>0
  <2>2. C' = C
    BY <2>0, <2>1 DEF C, ToClose
  <2>3. W' = W /\ I' = I /\ G' = G /\ Q' = Q /\ P' = P /\ R' = R
    BY <2>0 DEF W, I, G, Q, P, R
  <2>4. Once'
    BY <1>0, <2>0, <2>1 DEF Once
  <2> QED BY <1>b, <1>e, <2>0, <2>2, <2>3, <2>4
<1>31. CASE DecodeStep
  BY <1>31, <1>d DEF DecodeStep, schedVars, admitVars, requestVars, clientVars
<1>32. CASE Publish
  BY <1>32, <1>d DEF Publish, schedVars, admitVars, requestVars, clientVars
<1> QED BY <1>1, <1>3, <1>4, <1>5, <1>6, <1>9, <1>11, <1>12, <1>13, <1>14, <1>15, <1>16, <1>17,
           <1>22, <1>23, <1>24, <1>25, <1>26, <1>27, <1>29, <1>30, <1>31, <1>32 DEF Worker

(* Control and Places are inductive together.                              *)
LEMMA PlacesStep ==
    ASSUME Control, Places, [Next]_vars
    PROVE  Control' /\ Places'
<1>1. Distinct(gen)
  BY DEF Places, Once
<1>2. CASE Worker
  BY <1>1, <1>2, ControlWorker, PlacesWorker
<1>3. CASE \E r \in Request : Submit(r) \/ Cancel(r) \/ Free(r) \/ Client(r)
  BY <1>3, ControlCallers, PlacesCallers
<1>4. CASE Stop
  BY <1>4, ControlCallers, PlacesCallers
<1>5. CASE UNCHANGED vars
  BY <1>5, ControlCallers, PlacesCallers
<1>6. CASE Terminated
  BY <1>5, <1>6 DEF Terminated
<1> QED BY <1>2, <1>3, <1>4, <1>5, <1>6 DEF Next

-----------------------------------------------------------------------------
(* What Places says of the requests that have not started and of those that
   have.                                                                   *)
LEMMA PlacesSets ==
    /\ Places => /\ Fresh = Open \ Started /\ Started \subseteq Open /\ Fresh \subseteq Open
                 /\ Prefilling = Open \ (Range(waiting) \cup Range(incoming) \cup Started)
                 /\ ReqSet(rows) \cap ReqSet(ToClose) = {} /\ Open \subseteq Request
    /\ Places' => /\ Fresh' = Open' \ Started' /\ Started' \subseteq Open' /\ Fresh' \subseteq Open'
                  /\ Prefilling' = Open' \ (Range(waiting') \cup Range(incoming') \cup Started')
                  /\ ReqSet(rows') \cap ReqSet(ToClose') = {} /\ Open' \subseteq Request
<1> DEFINE W == Range(waiting)
           I == Range(incoming)
           G == Range(gen)
           Q == Members(groups)
           P == Members(UnitReqs(pending))
           R == ReqSet(rows)
           C == ReqSet(ToClose)
<1>1. ASSUME NEW w, NEW i, NEW g, NEW q, NEW p, NEW r, NEW c, NEW o,
             Partition(w, i, g, q, p, r, c, o)
      PROVE  /\ w \cup i \cup (g \cup q \cup p) = o \ (r \cup c)
             /\ r \cup c \subseteq o /\ w \cup i \cup (g \cup q \cup p) \subseteq o
             /\ g \cup q \cup p = o \ (w \cup i \cup (r \cup c))
             /\ r \cap c = {}
  BY <1>1 DEF Partition
<1>2. Places => Partition(W, I, G, Q, P, R, C, Open)
  BY DEF Places
<1>3. Places' => Partition(W', I', G', Q', P', R', C', Open')
  BY DEF Places
<1>4. Open \subseteq Request /\ Open' \subseteq Request
  BY DEF Open
<1>5. Fresh = W \cup I \cup (G \cup Q \cup P) /\ Started = R \cup C /\ Prefilling = G \cup Q \cup P
  BY DEF Fresh, Started, Prefilling
<1>6. Fresh' = W' \cup I' \cup (G' \cup Q' \cup P') /\ Started' = R' \cup C' /\ Prefilling' = G' \cup Q' \cup P'
  BY DEF Fresh, Started, Prefilling
<1> HIDE DEF W, I, G, Q, P, R, C
<1>7. Places => /\ Fresh = Open \ Started /\ Started \subseteq Open /\ Fresh \subseteq Open
                /\ Prefilling = Open \ (W \cup I \cup Started) /\ R \cap C = {}
  BY <1>1, <1>2, <1>5
<1>8. Places' => /\ Fresh' = Open' \ Started' /\ Started' \subseteq Open' /\ Fresh' \subseteq Open'
                 /\ Prefilling' = Open' \ (W' \cup I' \cup Started') /\ R' \cap C' = {}
  BY <1>1, <1>3, <1>6
<1> QED BY <1>4, <1>7, <1>8 DEF W, I, R, C

(* The first state.                                                        *)
LEMMA StagesInit == Init /\ Places => Stages
<1> SUFFICES ASSUME Init, Places PROVE Stages
  OBVIOUS
<1>1. Fresh \subseteq {} /\ Prefilling \subseteq {}
  <2>1. Open = {}
    BY DEF Open, Accepted, Init
  <2> QED BY <2>1, PlacesSets
<1>2. \A i \in 1 .. Len(<<>>) : FALSE
  OBVIOUS
<1>3. Unstarted
  BY <1>1 DEF Unstarted, Init
<1>4. Batch /\ Closed
  BY <1>2 DEF Batch, Closed, Init
<1> QED BY <1>3, <1>4 DEF Stages

(* The requests' threads and stop().                                       *)
LEMMA StagesCallers ==
    ASSUME Control, Places, Places', Stages
    PROVE  /\ \A r \in Request : Submit(r) \/ Cancel(r) \/ Free(r) \/ Client(r) => Stages'
           /\ Stop \/ UNCHANGED vars => Stages'
<1>0. TypeOK /\ WorkerTypes /\ RequestTypes /\ Unstarted /\ Batch /\ Closed
  BY TypeHalves DEF Control, Stages
<1>1. ASSUME UNCHANGED <<workerVars, reason>>, Prefilling' \subseteq Prefilling,
             \A r \in Request : tokens'[r].sent = tokens[r].sent,
             \A r \in Request : ~Accepted(r)' => ~Accepted(r) /\ tokens'[r] = tokens[r],
             \A r \in Fresh' : r \in Fresh \/ ~Accepted(r)
      PROVE  Stages'
  <2>1. UNCHANGED <<pc, ret, cur, rows, closing, reason>> /\ Home' = Home /\ RowLoop' = RowLoop
    BY <1>1 DEF workerVars, loopVars, Home, RowLoop, CloseLoop
  <2>2. \A i \in 1 .. Len(rows) : rows[i].req \in Request
    <3>1. \A i \in 1 .. Len(rows) : rows[i] \in RowType
      BY <1>0 DEF WorkerTypes
    <3> QED BY <3>1 DEF RowType
  <2>3. Batch'
    BY <1>0, <1>1, <2>1, <2>2 DEF Batch
  <2>4. Closed'
    BY <1>0, <2>1 DEF Closed
  <2>5. \A r \in Fresh' : r \in Request
    BY PlacesSets
  <2>6. \A r \in Request : ~Accepted(r) => tokens[r].sent = 0 /\ reason[r] = ""
    <3>1. EmptyQueue.sent = 0
      BY DEF EmptyQueue
    <3> QED BY <1>0, <3>1 DEF Unstarted
  <2>7. Unstarted'
    BY <1>0, <1>1, <2>1, <2>5, <2>6 DEF Unstarted
  <2> QED BY <2>3, <2>4, <2>7 DEF Stages
<1>2. ASSUME NEW r \in Request, Submit(r) PROVE Stages'
  <2>1. UNCHANGED <<workerVars, reason, tokens>> /\ UNCHANGED <<incoming, gen, groups, pending>>
    BY <1>2 DEF Submit, requestVars, workerVars, admitVars
  <2>2. Prefilling' = Prefilling
    BY <2>1 DEF Prefilling
  <2>3. \A q \in Request : ~Accepted(q)' => ~Accepted(q) /\ tokens'[q] = tokens[q]
    BY <1>0, <1>2, <2>1 DEF Submit, Accepted, RequestTypes
  <2>4. \A q \in Fresh' : q \in Fresh \/ ~Accepted(q)
    <3>1. Range(waiting') \subseteq Range(waiting) \cup {r} /\ ~Accepted(r)
      <4>1. waiting \in Seq(Request)
        BY <1>0 DEF WorkerTypes
      <4>2. waiting' = waiting \/ waiting' = Append(waiting, r)
        BY <1>2 DEF Submit
      <4>3. Range(Append(waiting, r)) = Range(waiting) \cup {r}
        BY <4>1, AppendRange
      <4> QED BY <1>2, <4>2, <4>3 DEF Submit, Accepted
    <3>2. Range(incoming') = Range(incoming)
      BY <2>1
    <3> QED BY <2>2, <3>1, <3>2 DEF Fresh
  <2> QED BY <1>1, <2>1, <2>2, <2>3, <2>4
<1>3. ASSUME NEW r \in Request, Cancel(r) \/ Free(r) \/ Client(r) PROVE Stages'
  <2>1. UNCHANGED <<schedVars, workerVars>>
    BY <1>0, <1>3, RequestTypesKept
  <2>2. reason' = reason
    BY <1>3 DEF Cancel, Free, Client, PopToken, PopLogprob, PopEnd, SendFrame, SendFails, requestVars
  <2>3. UNCHANGED <<waiting, incoming, gen, groups, pending>>
    BY <2>1 DEF schedVars, workerVars, admitVars
  <2>4. Fresh' = Fresh /\ Prefilling' = Prefilling
    BY <2>3 DEF Fresh, Prefilling
  <2>5. \A q \in Request : Accepted(q)' <=> Accepted(q)
    BY <1>0, <1>3, CallersKeepOpen
  <2>6. tokens' = tokens \/ (tokens' = [tokens EXCEPT ![r] = PopItem(@)] /\ client[r] \in {"reading", "draining"})
    BY <1>3 DEF Cancel, Free, Client, PopToken, PopLogprob, PopEnd, SendFrame, SendFails, requestVars
  <2>7. tokens \in [Request -> QueueType] /\ tokens[r] \in QueueType /\ PopItem(tokens[r]).sent = tokens[r].sent
    <3>1. tokens \in [Request -> QueueType] /\ tokens[r] \in QueueType
      BY <1>0 DEF RequestTypes
    <3> QED BY <3>1, QueueTypes
  <2>8. \A q \in Request : tokens'[q].sent = tokens[q].sent
    BY <2>6, <2>7
  <2>9. \A q \in Request : ~Accepted(q) => tokens'[q] = tokens[q]
    BY <2>6, <2>7 DEF Accepted
  <2> QED BY <1>1, <2>1, <2>2, <2>4, <2>5, <2>8, <2>9
<1>4. ASSUME UNCHANGED <<waiting, workerVars, requestVars, clientVars>> PROVE Stages'
  <2>1. UNCHANGED <<waiting, incoming, gen, groups, pending, tokens, reason, client>>
    BY <1>4 DEF workerVars, admitVars, requestVars, clientVars
  <2>2. Fresh' = Fresh /\ Prefilling' = Prefilling
    BY <2>1 DEF Fresh, Prefilling
  <2>3. \A q \in Request : Accepted(q)' <=> Accepted(q)
    BY <2>1 DEF Accepted
  <2> QED BY <1>1, <1>4, <2>1, <2>2, <2>3
<1>5. ASSUME Stop \/ UNCHANGED vars PROVE Stages'
  BY <1>4, <1>5 DEF Stop, vars, schedVars
<1> QED BY <1>2, <1>3, <1>5

(* The worker's steps.                                                     *)
LEMMA StagesWorker ==
    ASSUME Control, Places, Control', Places', Stages, Worker
    PROVE  Stages'
<1>0. /\ WorkerTypes /\ RequestTypes /\ Loops /\ Locals /\ Once
      /\ WorkerTypes' /\ RequestTypes' /\ Loops' /\ Once'
      /\ Unstarted /\ Batch /\ Closed
  BY TypeHalves DEF Control, Places, Stages
<1>a. /\ rows \in Seq(RowType) /\ closing \in Seq(RowType) /\ Len(rows) \in Nat /\ cur \in Nat
      /\ \A i \in 1 .. Len(rows) : /\ rows[i] \in RowType /\ rows[i].req \in Request
                                   /\ rows[i].produced \in Nat /\ rows[i].finished \in BOOLEAN
                                   /\ rows[i].req \in ReqSet(rows)
      /\ tokens \in [Request -> QueueType] /\ reason \in [Request -> Reasons]
      /\ \A r \in Request : Job[r].maxTokens \in Nat /\ Job[r].maxTokens > 0
  <2>1. /\ rows \in Seq(RowType) /\ closing \in Seq(RowType) /\ cur \in Nat
        /\ tokens \in [Request -> QueueType] /\ reason \in [Request -> Reasons]
    BY <1>0 DEF WorkerTypes, RequestTypes
  <2>5. Len(rows) \in Nat /\ \A i \in 1 .. Len(rows) : rows[i] \in RowType
    BY <2>1
  <2>2. \A i \in 1 .. Len(rows) : /\ rows[i].req \in Request
                                   /\ rows[i].produced \in Nat /\ rows[i].finished \in BOOLEAN
    BY <2>5 DEF RowType
  <2>3. \A i \in 1 .. Len(rows) : rows[i].req \in ReqSet(rows)
    BY DEF ReqSet
  <2>4. \A r \in Request : Job[r].maxTokens \in Nat /\ Job[r].maxTokens > 0
    BY JobAssumption DEF JobType
  <2> QED BY <2>1, <2>2, <2>3, <2>4, <2>5
<1>b. /\ Fresh = Open \ Started /\ Started \subseteq Open
      /\ Fresh' = Open' \ Started' /\ Started' \subseteq Open' /\ Fresh' \subseteq Request
      /\ Prefilling = Open \ (Range(waiting) \cup Range(incoming) \cup Started)
      /\ Prefilling' = Open' \ (Range(waiting') \cup Range(incoming') \cup Started')
      /\ ReqSet(rows) \cap ReqSet(ToClose) = {}
  BY PlacesSets
<1>c. client' = client /\ \A r \in Request : Accepted(r)' <=> Accepted(r)
  <2>1. client' = client
    BY DEF Worker, Load, NextWaiting, TakeMore, Exit, TopUp, HandleEmbedding, AdmitMultimodal,
           CollectText, EnqueueAdmissions, Admit, AdmitGroup, AdmissionDone, AdvanceChunkedPrefill,
           RowCancelled, RowEos, RowToken, PushToken, PushLogprob, EvictFinished, CloseTokens,
           CloseLogprobs, DecodeStep, Publish, clientVars
  <2> QED BY <2>1 DEF Accepted
<1>d. ASSUME tokens' = tokens PROVE Open' = Open
  BY <1>c, <1>d DEF Open, Ended
<1>e. ASSUME ~CloseLoop' PROVE Closed'
  <2>1. closing' = <<>>
    BY <1>0, <1>e DEF Loops
  <2>2. \A i \in 1 .. Len(<<>>) : FALSE
    OBVIOUS
  <2> QED BY <2>1, <2>2 DEF Closed
(* Batch, away from the push of a log-prob.                                 *)
<1>i. ASSUME pc' # "pushLogprob",
             \A i \in 1 .. Len(rows') :
                 /\ Job[rows'[i].req].kind # "embed"
                 /\ tokens'[rows'[i].req].sent = rows'[i].produced
                 /\ ~rows'[i].finished => /\ reason'[rows'[i].req] = ""
                                          /\ rows'[i].produced < Job[rows'[i].req].maxTokens
                 /\ rows'[i].finished => reason'[rows'[i].req] \in Ran
                 /\ RowLoop' /\ i >= cur' => ~rows'[i].finished
                 /\ Home' \in {"load", "top", "decode", "publish"} => ~rows'[i].finished
      PROVE  Batch'
  <2>1. rows' \in Seq(RowType)
    BY <1>0 DEF WorkerTypes
  <2>2. \A i \in 1 .. Len(rows') : rows'[i] \in RowType
    BY <2>1
  <2>3. \A i \in 1 .. Len(rows') : rows'[i].produced \in Nat
    BY <2>2 DEF RowType
  <2>4. \A i \in 1 .. Len(rows') : tokens'[rows'[i].req].sent = rows'[i].produced + 0
    <3> SUFFICES ASSUME NEW i \in 1 .. Len(rows')
                 PROVE  tokens'[rows'[i].req].sent = rows'[i].produced + 0
      OBVIOUS
    <3>1. tokens'[rows'[i].req].sent = rows'[i].produced
      BY <1>i
    <3> QED BY <2>3, <3>1
  <2> QED BY <1>i, <2>4 DEF Batch
(* Unstarted, when tokens and reason change at most for a request that has
   started, and no request goes back to be fresh.                           *)
<1>f. ASSUME NEW X, X \cap Fresh' = {}, X \subseteq Open,
             \A r \in Request \ X : tokens'[r] = tokens[r] /\ reason'[r] = reason[r],
             Fresh' \subseteq Fresh, Prefilling' \subseteq Prefilling \cup {r \in Request : Job[r].kind # "embed"}
      PROVE  Unstarted'
  <2>1. ASSUME NEW r \in Request, ~Accepted(r)' PROVE tokens'[r] = EmptyQueue /\ reason'[r] = ""
    <3>1. ~Accepted(r) /\ r \notin X
      BY <1>c, <1>f, <2>1 DEF Open
    <3> QED BY <1>0, <1>f, <3>1 DEF Unstarted
  <2>2. ASSUME NEW r \in Fresh' PROVE tokens'[r].sent = 0 /\ reason'[r] = ""
    <3>1. r \in Fresh /\ r \in Request /\ r \notin X
      BY <1>b, <1>f, <2>2
    <3> QED BY <1>0, <1>f, <3>1 DEF Unstarted
  <2>3. \A r \in Prefilling' : Job[r].kind # "embed"
    BY <1>0, <1>f DEF Unstarted
  <2> QED BY <2>1, <2>2, <2>3 DEF Unstarted
(* A step that changes no row and no queue.                                 *)
<1>g. ASSUME UNCHANGED <<rows, tokens, reason>>, ~CloseLoop, ~CloseLoop',
             pc # "pushLogprob", pc' # "pushLogprob",
             Prefilling' \subseteq Prefilling \cup {r \in Request : Job[r].kind # "embed"},
             RowLoop' \/ Home' \in {"load", "top", "decode", "publish"} =>
                 \A i \in 1 .. Len(rows) : (RowLoop' /\ i < cur') \/ ~rows[i].finished
      PROVE  Stages'
  <2>1. closing = <<>> /\ closing' = <<>>
    BY <1>0, <1>g DEF Loops
  <2>2. Started' = Started
    BY <1>g, <2>1 DEF Started, ToClose, CloseLoop
  <2>3. Fresh' = Fresh
    BY <1>b, <1>d, <1>g, <2>2
  <2>4. Unstarted'
    <3>1. {} \cap Fresh' = {} /\ {} \subseteq Open
      OBVIOUS
    <3> QED BY <1>f, <1>g, <2>3, <3>1
  <2>5. RowLoop' => cur' \in Nat
    BY <1>0 DEF WorkerTypes
  <2>6. Batch'
    <3> SUFFICES ASSUME NEW i \in 1 .. Len(rows')
                 PROVE  /\ Job[rows'[i].req].kind # "embed"
                        /\ tokens'[rows'[i].req].sent =
                             rows'[i].produced + (IF pc' = "pushLogprob" /\ i = cur' THEN 1 ELSE 0)
                        /\ ~rows'[i].finished => /\ reason'[rows'[i].req] = ""
                                                 /\ rows'[i].produced < Job[rows'[i].req].maxTokens
                        /\ rows'[i].finished => reason'[rows'[i].req] \in Ran
                        /\ RowLoop' /\ i >= cur' => ~rows'[i].finished
                        /\ Home' \in {"load", "top", "decode", "publish"} => ~rows'[i].finished
      BY DEF Batch
    <3>1. i \in 1 .. Len(rows) /\ rows' = rows
      BY <1>g
    <3>2. /\ Job[rows[i].req].kind # "embed"
          /\ tokens[rows[i].req].sent = rows[i].produced + 0
          /\ ~rows[i].finished => /\ reason[rows[i].req] = ""
                                  /\ rows[i].produced < Job[rows[i].req].maxTokens
          /\ rows[i].finished => reason[rows[i].req] \in Ran
      BY <1>0, <1>g, <3>1 DEF Batch
    <3>3. RowLoop' /\ i >= cur' => ~rows[i].finished
      BY <1>g, <2>5, <3>1
    <3>4. Home' \in {"load", "top", "decode", "publish"} => ~rows[i].finished
      <4>1. Home' \in {"load", "top", "decode", "publish"} => ~RowLoop'
        BY <1>0 DEF Home, Loops, RowLoop, CloseLoop
      <4> QED BY <1>g, <3>1, <4>1
    <3> QED BY <1>g, <3>1, <3>2, <3>3, <3>4
  <2> QED BY <1>e, <1>g, <2>4, <2>6 DEF Stages
<1>h. ASSUME UNCHANGED <<gen, groups, pending>> PROVE Prefilling' = Prefilling
  BY <1>h DEF Prefilling
<1>1. CASE Load
  <2>1. /\ UNCHANGED <<gen, groups, pending, rows, tokens, reason>>
        /\ ~CloseLoop /\ ~CloseLoop' /\ ~RowLoop' /\ Home = "load" /\ Home' = "top"
        /\ pc # "pushLogprob" /\ pc' # "pushLogprob"
    BY <1>1 DEF Load, admitVars, requestVars, CloseLoop, RowLoop, Home
  <2>2. \A i \in 1 .. Len(rows) : ~rows[i].finished
    BY <1>0, <2>1 DEF Batch
  <2> QED BY <1>g, <1>h, <2>1, <2>2
<1>2. CASE NextWaiting \/ TakeMore \/ TopUp
  <2>1. /\ UNCHANGED <<gen, groups, pending, rows, tokens, reason>>
        /\ ~CloseLoop /\ ~CloseLoop' /\ ~RowLoop' /\ Home' \in {"more", "dispatch"}
        /\ pc # "pushLogprob" /\ pc' # "pushLogprob"
    BY <1>2 DEF NextWaiting, TakeMore, TopUp, requestVars, CloseLoop, RowLoop, Home
  <2> QED BY <1>g, <1>h, <2>1
<1>3. CASE Exit \/ AdmissionDone
  <2>1. /\ UNCHANGED <<gen, groups, pending, rows, tokens, reason>>
        /\ ~CloseLoop /\ ~CloseLoop' /\ ~RowLoop' /\ Home' \in {"exited", "evict1"}
        /\ pc # "pushLogprob" /\ pc' # "pushLogprob"
    BY <1>3 DEF Exit, AdmissionDone, admitVars, requestVars, CloseLoop, RowLoop, Home
  <2> QED BY <1>g, <1>h, <2>1
<1>4. CASE CollectText
  <2>1. /\ UNCHANGED <<groups, pending, rows, tokens, reason>>
        /\ ~CloseLoop /\ ~CloseLoop' /\ ~RowLoop' /\ Home' = "dispatch"
        /\ pc # "pushLogprob" /\ pc' # "pushLogprob"
        /\ gen' = Append(gen, Head(incoming)) /\ Job[Head(incoming)].kind = "text" /\ incoming # <<>>
    BY <1>4 DEF CollectText, loopVars, requestVars, CloseLoop, RowLoop, Home
  <2>2. gen \in Seq(Request) /\ Head(incoming) \in Request
    BY <1>0, <2>1, HeadTailProperties DEF WorkerTypes
  <2>3. Range(gen') = Range(gen) \cup {Head(incoming)}
    BY <2>1, <2>2, AppendRange
  <2>4. Prefilling' \subseteq Prefilling \cup {r \in Request : Job[r].kind # "embed"}
    BY <2>1, <2>2, <2>3 DEF Prefilling
  <2> QED BY <1>g, <2>1, <2>4
<1>5. CASE EnqueueAdmissions \/ Admit
  <2>1. /\ UNCHANGED <<waiting, incoming, rows, closing, tokens, reason>>
        /\ ~CloseLoop /\ ~CloseLoop' /\ ~RowLoop' /\ Home' \in {"prefill", "admit"}
        /\ pc # "pushLogprob" /\ pc' # "pushLogprob"
    BY <1>5 DEF EnqueueAdmissions, Admit, schedVars, requestVars, CloseLoop, RowLoop, Home
  <2>2. Started' = Started
    BY <2>1 DEF Started, ToClose, CloseLoop
  <2>3. Prefilling' = Prefilling
    BY <1>b, <1>d, <2>1, <2>2
  <2> QED BY <1>g, <2>1, <2>3
<1>6. CASE DecodeStep
  <2>1. /\ UNCHANGED <<gen, groups, pending, rows, tokens, reason>>
        /\ ~CloseLoop /\ ~CloseLoop' /\ Home = "decode"
        /\ pc # "pushLogprob" /\ pc' # "pushLogprob"
    BY <1>6 DEF DecodeStep, admitVars, requestVars, CloseLoop, RowLoop, Home
  <2>2. \A i \in 1 .. Len(rows) : ~rows[i].finished
    BY <1>0, <2>1 DEF Batch
  <2> QED BY <1>g, <1>h, <2>1, <2>2
<1>7. CASE Publish
  <2>1. /\ UNCHANGED <<gen, groups, pending, rows, tokens, reason>>
        /\ ~CloseLoop /\ ~CloseLoop' /\ ~RowLoop' /\ Home = "publish"
        /\ pc # "pushLogprob" /\ pc' # "pushLogprob"
    BY <1>7 DEF Publish, admitVars, requestVars, CloseLoop, RowLoop, Home
  <2>2. \A i \in 1 .. Len(rows) : ~rows[i].finished
    BY <1>0, <2>1 DEF Batch
  <2> QED BY <1>g, <1>h, <2>1, <2>2
<1>8. CASE RowToken
  <2>1. /\ UNCHANGED <<gen, groups, pending, rows, tokens, reason, cur>>
        /\ ~CloseLoop /\ ~CloseLoop' /\ RowLoop /\ RowLoop'
        /\ pc # "pushLogprob" /\ pc' # "pushLogprob"
    BY <1>8 DEF RowToken, admitVars, requestVars, CloseLoop, RowLoop, Home
  <2>2. ASSUME NEW i \in 1 .. Len(rows) PROVE i < cur \/ ~rows[i].finished
    <3>1. i >= cur => ~rows[i].finished
      BY <1>0, <2>1 DEF Batch
    <3>2. i < cur \/ i >= cur
      BY <1>a
    <3> QED BY <3>1, <3>2
  <2> QED BY <1>g, <1>h, <2>1, <2>2
(* New rows: their requests were fresh and generate tokens.                 *)
<1>9. ASSUME NEW s \in Seq(Request), NEW back \in {"dispatch", "admit", "evict1"},
             RegisterRows(s, back), Range(s) \subseteq Fresh,
             \A r \in Range(s) : Job[r].kind # "embed",
             UNCHANGED <<tokens, reason, closing>>, ~CloseLoop, pc # "pushLogprob",
             Prefilling' \subseteq Prefilling
      PROVE  Stages'
  <2>1. rows' = rows \o FreshRows(s) /\ cur' = Len(rows) + 1 /\ ret' = back /\ pc' = "row"
    BY <1>9 DEF RegisterRows
  <2>2. /\ Len(rows') = Len(rows) + Len(s) /\ Len(s) \in Nat
        /\ \A i \in 1 .. Len(rows) : rows'[i] = rows[i]
        /\ \A i \in 1 .. Len(rows') : i > Len(rows) =>
              rows'[i].req \in Range(s) /\ rows'[i].produced = 0 /\ ~rows'[i].finished
        /\ ReqSet(rows') = ReqSet(rows) \cup Range(s)
    <3> DEFINE j == rows \o FreshRows(s)
    <3>1. /\ Len(j) = Len(rows) + Len(s)
          /\ \A i \in 1 .. Len(rows) : j[i] = rows[i]
          /\ \A i \in 1 .. Len(j) : i > Len(rows) =>
                j[i].req \in Range(s) /\ j[i].produced = 0 /\ ~j[i].finished
          /\ ReqSet(j) = ReqSet(rows) \cup Range(s)
      BY <1>a, RowsJoin
    <3>2. rows' = j /\ Len(s) \in Nat
      BY <2>1
    <3> HIDE DEF j
    <3> QED BY <3>1, <3>2
  <2>3. RowLoop' /\ ~CloseLoop' /\ Home' = back
    BY <2>1 DEF RowLoop, CloseLoop, Home
  <2>4. ToClose' = ToClose
    BY <1>9, <2>3 DEF ToClose, CloseLoop
  <2>5. Started' = Started \cup Range(s)
    BY <2>2, <2>4 DEF Started
  <2>6. Fresh' \subseteq Fresh
    BY <1>b, <1>d, <1>9, <2>5
  <2>7. Unstarted'
    <3>1. {} \cap Fresh' = {} /\ {} \subseteq Open
      OBVIOUS
    <3> QED BY <1>f, <1>9, <2>6, <3>1
  <2>8. Batch'
    <3> SUFFICES ASSUME NEW i \in 1 .. Len(rows')
                 PROVE  /\ Job[rows'[i].req].kind # "embed"
                        /\ tokens'[rows'[i].req].sent = rows'[i].produced
                        /\ ~rows'[i].finished => /\ reason'[rows'[i].req] = ""
                                                 /\ rows'[i].produced < Job[rows'[i].req].maxTokens
                        /\ rows'[i].finished => reason'[rows'[i].req] \in Ran
                        /\ i >= cur' => ~rows'[i].finished
      <4>1. pc' # "pushLogprob" /\ Home' \notin {"load", "top", "decode", "publish"}
        BY <2>1, <2>3
      <4> QED BY <1>i, <4>1
    <3>1. CASE i <= Len(rows)
      <4>1. i \in 1 .. Len(rows) /\ rows'[i] = rows[i] /\ ~(i >= cur')
        BY <1>a, <2>1, <2>2, <3>1
      <4>2. /\ Job[rows[i].req].kind # "embed"
            /\ tokens[rows[i].req].sent = rows[i].produced + 0
            /\ ~rows[i].finished => /\ reason[rows[i].req] = ""
                                    /\ rows[i].produced < Job[rows[i].req].maxTokens
            /\ rows[i].finished => reason[rows[i].req] \in Ran
        BY <1>0, <1>9, <4>1 DEF Batch
      <4>3. rows[i].produced \in Nat
        BY <1>a, <4>1
      <4>4. tokens[rows[i].req].sent = rows[i].produced
        <5>1. tokens[rows[i].req].sent = rows[i].produced + 0
          BY <4>2
        <5> QED BY <4>3, <5>1
      <4> QED BY <1>9, <4>1, <4>2, <4>4
    <3>2. CASE ~(i <= Len(rows))
      <4>1. /\ rows'[i].req \in Range(s) /\ rows'[i].produced = 0 /\ ~rows'[i].finished
        BY <1>a, <2>2, <3>2
      <4>2. rows'[i].req \in Fresh /\ rows'[i].req \in Request /\ Job[rows'[i].req].kind # "embed"
        BY <1>9, <4>1, PlacesSets
      <4>3. tokens[rows'[i].req].sent = 0 /\ reason[rows'[i].req] = ""
        BY <1>0, <4>2 DEF Unstarted
      <4>4. 0 < Job[rows'[i].req].maxTokens
        BY <1>a, <4>2
      <4> QED BY <1>9, <4>1, <4>2, <4>3, <4>4
    <3> QED BY <3>1, <3>2
  <2> QED BY <1>e, <2>3, <2>7, <2>8 DEF Stages
(* A request that ends without a row.                                       *)
<1>10. ASSUME NEW why \in {"embed", "error"}, pc = "dispatch", incoming # <<>>,
              EndEarly(Head(incoming), why),
              UNCHANGED <<gen, groups, pending, rows, tokens>>
       PROVE  Stages'
  <2>1. PICK x \in Request : x = Head(incoming)
    BY <1>0, <1>10, HeadTailProperties DEF WorkerTypes
  <2>2. /\ closing' = <<FreshRow(x)>> /\ pc' = "closeTokens" /\ ret' = "dispatch"
        /\ reason' = [reason EXCEPT ![x] = why]
    BY <1>10, <2>1 DEF EndEarly
  <2>3. closing = <<>> /\ ReqSet(ToClose') = {x} /\ ReqSet(ToClose) = {}
    BY <1>0, <1>10, <2>2, FewRows DEF Loops, CloseLoop, ToClose
  <2>4. Started' = Started \cup {x} /\ Open' = Open
    BY <1>10, <1>d, <2>3 DEF Started
  <2>5. {x} \cap Fresh' = {} /\ {x} \subseteq Open /\ Fresh' \subseteq Fresh
    BY <1>b, <2>4
  <2>6. x \notin ReqSet(rows)
    <3>1. ReqSet(rows) \cap {x} = {}
      BY <1>10, <2>3, PlacesSets
    <3> QED BY <3>1
  <2>7. \A r \in Request \ {x} : tokens'[r] = tokens[r] /\ reason'[r] = reason[r]
    BY <1>10, <1>a, <2>2
  <2>8. Unstarted'
    BY <1>10, <1>f, <1>h, <2>5, <2>7
  <2>9. reason'[x] = why
    BY <1>a, <2>2
  <2>10. Closed'
    <3>1. Len(closing') = 1 /\ closing'[1] = FreshRow(x) /\ FreshRow(x).req = x
      BY <2>2, FewRows
    <3>2. \A i \in 1 .. Len(closing') : reason'[closing'[i].req] \in {"embed", "error"}
      <4>1. \A i \in 1 .. Len(closing') : i = 1
        BY <3>1
      <4> QED BY <2>9, <3>1, <4>1
    <3> QED BY <2>2, <3>2 DEF Closed
  <2>11. ~RowLoop /\ ~RowLoop' /\ Home' = "dispatch" /\ pc' # "pushLogprob"
    BY <1>10, <2>2 DEF RowLoop, CloseLoop, Home
  <2>12. \A i \in 1 .. Len(rows) : reason'[rows[i].req] = reason[rows[i].req]
    BY <1>a, <2>6, <2>7
  <2>13. Batch'
    BY <1>0, <1>10, <1>a, <2>11, <2>12 DEF Batch
  <2> QED BY <2>8, <2>10, <2>13 DEF Stages
<1>11. CASE HandleEmbedding
  BY <1>10, <1>11 DEF HandleEmbedding
<1>12. CASE AdmitMultimodal
  <2>0. /\ pc = "dispatch" /\ incoming # <<>> /\ Job[Head(incoming)].kind = "vision"
        /\ UNCHANGED <<gen, groups, pending, tokens>>
    BY <1>12 DEF AdmitMultimodal
  <2>1. CASE EndEarly(Head(incoming), "error") /\ UNCHANGED <<rows, cur>>
    BY <1>10, <2>0, <2>1
  <2>2. CASE RegisterRows(<<Head(incoming)>>, "dispatch") /\ UNCHANGED <<reason, closing>>
    <3>1. incoming \in Seq(Request)
      BY <1>0 DEF WorkerTypes
    <3>2. PICK x \in Request : x = Head(incoming)
      BY <2>0, <3>1, HeadTailProperties
    <3>3. x \in Fresh
      BY <2>0, <3>1, <3>2, TailDistinct DEF Fresh
    <3> DEFINE s == <<x>>
    <3>4. s \in Seq(Request) /\ Range(s) = {x}
      <4>1. s \in Seq(Request) /\ s[1] = x /\ DOMAIN s = 1 .. 1
        OBVIOUS
      <4> HIDE DEF s
      <4> QED BY <4>1 DEF Range
    <3>5. RegisterRows(s, "dispatch") /\ Job[x].kind # "embed"
      BY <2>0, <2>2, <3>2
    <3>6. ~CloseLoop /\ pc # "pushLogprob" /\ Prefilling' = Prefilling
      BY <1>h, <2>0 DEF CloseLoop
    <3> HIDE DEF s
    <3>7. Range(s) \subseteq Fresh /\ \A r \in Range(s) : Job[r].kind # "embed"
      BY <3>3, <3>4, <3>5
    <3> QED BY <1>9, <2>0, <2>2, <3>4, <3>5, <3>6, <3>7
  <2> QED BY <1>12, <2>1, <2>2 DEF AdmitMultimodal
(* Rows of a prefilled group or unit.                                       *)
<1>13. ASSUME NEW s \in Seq(Request), NEW back \in {"admit", "evict1"},
              RegisterRows(s, back), Range(s) \subseteq Prefilling, ~CloseLoop, pc # "pushLogprob",
              UNCHANGED <<waiting, incoming, closing, tokens, reason>>
       PROVE  Stages'
  <2>1. Range(s) \subseteq Fresh
    BY <1>13 DEF Fresh
  <2>2. \A r \in Range(s) : Job[r].kind # "embed"
    BY <1>0, <1>13 DEF Unstarted
  <2>3. Prefilling' \subseteq Prefilling
    <3>1. ReqSet(rows') = ReqSet(rows) \cup Range(s)
      BY <1>13, <1>a, RowsJoin DEF RegisterRows
    <3>2. ToClose' = ToClose
      BY <1>13 DEF ToClose, CloseLoop, RegisterRows
    <3>3. Started \subseteq Started'
      BY <3>1, <3>2 DEF Started
    <3> QED BY <1>13, <1>b, <1>d, <3>3
  <2> QED BY <1>9, <1>13, <2>1, <2>2, <2>3
<1>14. CASE AdmitGroup
  <2>0. /\ pc = "admit" /\ groups # <<>> /\ RegisterRows(Head(groups), "admit")
        /\ UNCHANGED <<waiting, incoming, closing, tokens, reason>>
    BY <1>14 DEF AdmitGroup, schedVars, requestVars
  <2>1. groups \in Seq(Seq(Request))
    BY <1>0 DEF WorkerTypes
  <2>2. Head(groups) \in Seq(Request) /\ Range(Head(groups)) \subseteq Prefilling
    BY <2>0, <2>1, GroupsTail DEF Prefilling
  <2>3. ~CloseLoop
    BY <2>0 DEF CloseLoop
  <2> QED BY <1>13, <2>0, <2>2, <2>3
<1>15. CASE AdvanceChunkedPrefill
  <2>0. /\ pc \in {"top", "prefill"} /\ pending # <<>>
        /\ UNCHANGED <<waiting, incoming, closing, tokens, reason>>
    BY <1>15 DEF AdvanceChunkedPrefill, schedVars, requestVars
  <2>1. ~CloseLoop /\ pc # "pushLogprob"
    BY <2>0 DEF CloseLoop
  <2>2. CASE Head(pending).left > PrefillChunk
    <3>1. pc' = "evict1" /\ rows' = rows
      BY <1>15, <2>2 DEF AdvanceChunkedPrefill
    <3>2. ~RowLoop' /\ ~CloseLoop' /\ Home' = "evict1" /\ pc' # "pushLogprob"
      BY <3>1 DEF RowLoop, CloseLoop, Home
    <3>3. Started' = Started
      BY <2>0, <2>1, <3>1, <3>2 DEF Started, ToClose, CloseLoop
    <3>4. Prefilling' = Prefilling
      BY <1>b, <1>d, <2>0, <3>3
    <3> QED BY <1>g, <2>0, <2>1, <3>1, <3>2, <3>4
  <2>3. CASE ~(Head(pending).left > PrefillChunk)
    <3>1. RegisterRows(Head(pending).reqs, "evict1")
      BY <1>15, <2>3 DEF AdvanceChunkedPrefill
    <3>2. /\ UnitReqs(pending) \in Seq(Seq(Request)) /\ UnitReqs(pending) # <<>>
          /\ Head(UnitReqs(pending)) = Head(pending).reqs
      BY <1>0, <2>0, UnitsAsGroups DEF WorkerTypes
    <3>3. Head(pending).reqs \in Seq(Request) /\ Range(Head(pending).reqs) \subseteq Prefilling
      BY <3>2, GroupsTail DEF Prefilling
    <3> QED BY <1>13, <2>0, <2>1, <3>1, <3>3
  <2> QED BY <2>2, <2>3
(* The row loop: one row, its request x, and the row after the step.        *)
<1>16. ASSUME pc \in {"row", "push", "pushLogprob"}
       PROVE  /\ RowLoop /\ ~CloseLoop /\ cur \in 1 .. Len(rows) /\ rows[cur].req \in Request
              /\ rows[cur].req \in Started /\ ~rows[cur].finished /\ reason[rows[cur].req] = ""
              /\ rows[cur].produced < Job[rows[cur].req].maxTokens
              /\ \A i \in 1 .. Len(rows) : i # cur => rows[i].req # rows[cur].req
              /\ Job[rows[cur].req].kind # "embed"
              /\ ret \in {"dispatch", "admit", "evict1", "evict2"} /\ closing = <<>>
  <2>1. /\ RowLoop /\ ~CloseLoop /\ cur \in 1 .. Len(rows) /\ closing = <<>>
        /\ ret \in {"dispatch", "admit", "evict1", "evict2"}
    BY <1>0, <1>16 DEF Loops, RowLoop, CloseLoop
  <2>2. rows[cur].req \in Request /\ rows[cur].req \in Started
    BY <1>a, <2>1 DEF Started
  <2>3. ~rows[cur].finished
    <3>1. cur >= cur
      BY <1>a
    <3> QED BY <1>0, <2>1, <3>1 DEF Batch
  <2>4. /\ reason[rows[cur].req] = "" /\ Job[rows[cur].req].kind # "embed"
        /\ rows[cur].produced < Job[rows[cur].req].maxTokens
    BY <1>0, <2>1, <2>3 DEF Batch
  <2>5. \A i \in 1 .. Len(rows) : i # cur => rows[i].req # rows[cur].req
    BY <1>0, <2>1 DEF Once, OneRowEach
  <2> QED BY <2>1, <2>2, <2>3, <2>4, <2>5
<1>17. ASSUME pc \in {"row", "push", "pushLogprob"}, NEW row \in RowType,
              rows' = [rows EXCEPT ![cur] = row], row.req = rows[cur].req,
              UNCHANGED <<waiting, incoming, gen, groups, pending, closing>>,
              tokens'[row.req].sent = row.produced,
              ~row.finished => reason'[row.req] = "" /\ row.produced < Job[row.req].maxTokens,
              row.finished => reason'[row.req] \in Ran,
              \A r \in Request : r # row.req => tokens'[r] = tokens[r] /\ reason'[r] = reason[r],
              NextRow
       PROVE  Stages'
  <2>0. PICK c \in 1 .. Len(rows) : c = cur
    BY <1>16, <1>17
  <2>1. PICK x \in Request : x = row.req
    BY <1>16, <1>17
  <2> DEFINE changed == [rows EXCEPT ![c] = row]
  <2>11. /\ Len(changed) = Len(rows) /\ changed[c] = row
         /\ \A i \in 1 .. Len(rows) : i # c => changed[i] = rows[i]
         /\ ReqSet(changed) = ReqSet(rows)
    <3>1. rows \in Seq(RowType) /\ row.req = rows[c].req
      BY <1>17, <1>a, <2>0
    <3> HIDE DEF changed
    <3> QED BY <3>1, RowChanged DEF changed
  <2>12. rows' = changed
    BY <1>17, <2>0
  <2> HIDE DEF changed
  <2>2. /\ Len(rows') = Len(rows) /\ rows'[c] = row
        /\ \A i \in 1 .. Len(rows) : i # c => rows'[i] = rows[i]
    BY <2>11, <2>12
  <2>3. ReqSet(rows') = ReqSet(rows)
    BY <2>11, <2>12
  <2>4. \/ cur < Len(rows) /\ cur' = cur + 1 /\ pc' = "row" /\ ret' = ret
        \/ cur' = 1 /\ pc' = ret /\ ret' = "none"
    BY <1>17 DEF NextRow
  <2>5. ~CloseLoop' /\ pc' # "pushLogprob" /\ Home' \in {"dispatch", "admit", "evict1", "evict2"}
        /\ (RowLoop' => cur' = c + 1)
    BY <1>16, <1>17, <2>0, <2>4 DEF CloseLoop, RowLoop, Home
  <2>6. Started' = Started
    BY <1>16, <1>17, <2>3, <2>5 DEF Started, ToClose, CloseLoop
  <2>7. {x} \cap Fresh' = {} /\ {x} \subseteq Open
    BY <1>16, <1>17, <1>b, <2>1, <2>6
  <2>8. Fresh' = Fresh /\ Prefilling' = Prefilling
    BY <1>17 DEF Fresh, Prefilling
  <2>9. Unstarted'
    <3> DEFINE X == {x}
    <3>1. X \cap Fresh' = {} /\ X \subseteq Open
      BY <2>7
    <3>2. \A r \in Request \ X : tokens'[r] = tokens[r] /\ reason'[r] = reason[r]
      BY <1>17, <2>1
    <3>3. Fresh' \subseteq Fresh /\ Prefilling' \subseteq Prefilling
      BY <2>8
    <3> HIDE DEF X
    <3> QED BY <3>1, <3>2, <3>3, <1>f
  <2>10. Batch'
    <3> SUFFICES ASSUME NEW i \in 1 .. Len(rows')
                 PROVE  /\ Job[rows'[i].req].kind # "embed"
                        /\ tokens'[rows'[i].req].sent = rows'[i].produced
                        /\ ~rows'[i].finished => /\ reason'[rows'[i].req] = ""
                                                 /\ rows'[i].produced < Job[rows'[i].req].maxTokens
                        /\ rows'[i].finished => reason'[rows'[i].req] \in Ran
                        /\ RowLoop' /\ i >= cur' => ~rows'[i].finished
      <4>1. pc' # "pushLogprob" /\ Home' \notin {"load", "top", "decode", "publish"}
        BY <2>5
      <4> QED BY <1>i, <4>1
    <3>1. CASE i = c
      <4>1. RowLoop' => ~(i >= cur')
        BY <2>5, <3>1
      <4>2. rows'[i] = row
        BY <2>2, <3>1
      <4>3. Job[row.req].kind # "embed"
        BY <1>16, <1>17
      <4> QED BY <1>17, <4>1, <4>2, <4>3
    <3>2. CASE i # c
      <4>1. i \in 1 .. Len(rows) /\ rows'[i] = rows[i] /\ rows[i].req # row.req /\ rows[i].req \in Request
        BY <1>16, <1>17, <1>a, <2>0, <2>2, <3>2
      <4>2. /\ Job[rows[i].req].kind # "embed"
            /\ tokens[rows[i].req].sent = rows[i].produced + 0
            /\ ~rows[i].finished => /\ reason[rows[i].req] = ""
                                    /\ rows[i].produced < Job[rows[i].req].maxTokens
            /\ rows[i].finished => reason[rows[i].req] \in Ran
            /\ i >= c => ~rows[i].finished
        BY <1>0, <1>16, <1>17, <2>0, <3>2, <4>1 DEF Batch
      <4>3. rows[i].produced \in Nat
        BY <1>a, <4>1
      <4>4. RowLoop' /\ i >= cur' => i >= c
        BY <2>5, <4>1
      <4>5. tokens[rows[i].req].sent = rows[i].produced
        <5>1. tokens[rows[i].req].sent = rows[i].produced + 0
          BY <4>2
        <5> QED BY <4>3, <5>1
      <4>6. tokens'[rows[i].req] = tokens[rows[i].req] /\ reason'[rows[i].req] = reason[rows[i].req]
        BY <1>17, <4>1
      <4> QED BY <4>1, <4>2, <4>4, <4>5, <4>6
    <3> QED BY <3>1, <3>2
  <2> QED BY <1>e, <2>5, <2>9, <2>10 DEF Stages
<1>18. ASSUME pc = "row", NEW why \in Ran, FinishRow(why),
              UNCHANGED <<waiting, incoming, gen, groups, pending, closing, tokens>>
       PROVE  Stages'
  <2>1. PICK row : row = [rows[cur] EXCEPT !.finished = TRUE]
    OBVIOUS
  <2>2. /\ cur \in 1 .. Len(rows) /\ rows[cur].req \in Request /\ rows[cur] \in RowType
    BY <1>16, <1>18, <1>a
  <2>3. row \in RowType /\ row.req = rows[cur].req /\ row.finished /\ row.produced = rows[cur].produced
    BY <2>1, <2>2 DEF RowType
  <2>4. /\ rows' = [rows EXCEPT ![cur] = row] /\ NextRow
        /\ reason' = [reason EXCEPT ![rows[cur].req] = why]
    BY <1>18, <2>1 DEF FinishRow
  <2>5. tokens[rows[cur].req].sent = rows[cur].produced
    <3>1. tokens[rows[cur].req].sent = rows[cur].produced + 0
      BY <1>0, <1>18, <2>2 DEF Batch
    <3> QED BY <1>a, <2>2, <3>1
  <2>6. reason'[row.req] = why /\ \A r \in Request : r # row.req => reason'[r] = reason[r]
    BY <1>a, <2>2, <2>3, <2>4
  <2> QED BY <1>17, <1>18, <2>3, <2>4, <2>5, <2>6
<1>19. CASE RowCancelled
  <2>1. /\ pc = "row" /\ FinishRow("cancel") /\ "cancel" \in Ran
        /\ UNCHANGED <<waiting, incoming, gen, groups, pending, closing, tokens>>
    BY <1>19 DEF RowCancelled, schedVars, admitVars, Ran
  <2> QED BY <1>18, <2>1
<1>20. CASE RowEos
  <2>1. /\ pc = "row" /\ FinishRow("stop") /\ "stop" \in Ran
        /\ UNCHANGED <<waiting, incoming, gen, groups, pending, closing, tokens>>
    BY <1>20 DEF RowEos, schedVars, admitVars, Ran
  <2> QED BY <1>18, <2>1
(* A token is counted once it is in the queue.                              *)
<1>21. ASSUME pc \in {"row", "push", "pushLogprob"}, CountToken, NextRow,
              tokens'[rows[cur].req].sent = rows[cur].produced + 1,
              \A r \in Request : r # rows[cur].req => tokens'[r] = tokens[r],
              UNCHANGED <<waiting, incoming, gen, groups, pending, closing>>
       PROVE  Stages'
  <2>0. /\ cur \in 1 .. Len(rows) /\ rows[cur].req \in Request /\ rows[cur] \in RowType
        /\ rows[cur].produced \in Nat /\ ~rows[cur].finished /\ reason[rows[cur].req] = ""
        /\ Job[rows[cur].req].maxTokens \in Nat
    BY <1>16, <1>21, <1>a
  <2>1. PICK one : one = [rows[cur] EXCEPT !.produced = @ + 1]
    OBVIOUS
  <2>2. /\ one \in RowType /\ one.req = rows[cur].req /\ one.produced = rows[cur].produced + 1
        /\ one.finished = rows[cur].finished
    <3>1. rows[cur] \in RowType /\ rows[cur].produced \in Nat
      BY <2>0
    <3>2. rows[cur].produced + 1 \in Nat
      BY <3>1
    <3> QED BY <2>1, <3>1, <3>2 DEF RowType
  <2>3. PICK last : last = [one EXCEPT !.finished = TRUE]
    OBVIOUS
  <2>4. /\ last \in RowType /\ last.req = rows[cur].req /\ last.produced = rows[cur].produced + 1
        /\ last.finished
    BY <2>2, <2>3 DEF RowType
  <2>5. CASE rows[cur].produced + 1 >= Job[rows[cur].req].maxTokens
    <3>1. /\ rows' = [rows EXCEPT ![cur] = last] /\ reason' = [reason EXCEPT ![last.req] = "length"]
      BY <1>21, <1>a, <2>0, <2>1, <2>3, <2>4, <2>5 DEF CountToken
    <3>2. reason'[last.req] \in Ran /\ \A r \in Request : r # last.req => reason'[r] = reason[r]
      BY <1>a, <2>0, <2>4, <3>1 DEF Ran
    <3> QED BY <1>17, <1>21, <2>4, <3>1, <3>2
  <2>6. CASE ~(rows[cur].produced + 1 >= Job[rows[cur].req].maxTokens)
    <3>1. /\ rows' = [rows EXCEPT ![cur] = one] /\ reason' = reason
      BY <1>21, <1>a, <2>0, <2>1, <2>6 DEF CountToken
    <3>2. one.produced < Job[one.req].maxTokens /\ ~one.finished
      <4>1. rows[cur].produced + 1 < Job[rows[cur].req].maxTokens
        <5>1. rows[cur].produced \in Nat /\ Job[rows[cur].req].maxTokens \in Nat
          BY <2>0
        <5> QED BY <2>6, <5>1
      <4> QED BY <2>0, <2>2, <4>1
    <3> QED BY <1>17, <1>21, <2>0, <2>2, <3>1, <3>2
  <2> QED BY <2>5, <2>6
<1>22. CASE PushToken
  <2>0. /\ pc = "push" /\ tokens' = [tokens EXCEPT ![rows[cur].req] = PushItem(@)]
        /\ UNCHANGED <<waiting, incoming, gen, groups, pending, closing>>
    BY <1>22 DEF PushToken, schedVars, admitVars
  <2>1. PICK x \in Request : x = rows[cur].req
    BY <1>16, <2>0
  <2>2. ~tokens[x].closed
    <3>1. x \in Open
      BY <1>16, <1>b, <2>0, <2>1
    <3> QED BY <3>1 DEF Open, Ended
  <2>3. tokens[x].sent = rows[cur].produced /\ rows[cur].produced \in Nat
    <3>1. cur \in 1 .. Len(rows)
      BY <1>16, <2>0
    <3>2. tokens[x].sent = rows[cur].produced + 0
      BY <1>0, <2>0, <2>1, <3>1 DEF Batch
    <3> QED BY <1>a, <3>1, <3>2
  <2>4. tokens'[x].sent = rows[cur].produced + 1 /\ \A r \in Request : r # x => tokens'[r] = tokens[r]
    <3>1. tokens'[x] = PushItem(tokens[x]) /\ \A r \in Request : r # x => tokens'[r] = tokens[r]
      BY <1>a, <2>0, <2>1
    <3>2. PushItem(tokens[x]).sent = tokens[x].sent + 1
      BY <1>a, <2>2, QueueTypes
    <3> QED BY <2>3, <3>1, <3>2
  <2>5. CASE ~Logprobs(rows[cur].req)
    <3>1. CountToken /\ NextRow
      BY <1>22, <2>5 DEF PushToken
    <3> QED BY <1>21, <2>0, <2>1, <2>4, <3>1
  <2>6. CASE Logprobs(rows[cur].req)
    <3>1. pc' = "pushLogprob" /\ UNCHANGED <<rows, reason, cur, ret>>
      BY <1>22, <2>6 DEF PushToken
    <3>2. RowLoop /\ RowLoop' /\ ~CloseLoop' /\ closing' = <<>> /\ Home' = Home
          /\ Home \in {"dispatch", "admit", "evict1", "evict2"}
      BY <1>16, <2>0, <3>1 DEF RowLoop, CloseLoop, Home
    <3>3. Started' = Started
      BY <2>0, <3>1 DEF Started, ToClose
    <3>4. {x} \cap Fresh' = {} /\ {x} \subseteq Open
      BY <1>16, <1>b, <2>0, <2>1, <3>3
    <3>5. Fresh' = Fresh /\ Prefilling' = Prefilling
      BY <2>0 DEF Fresh, Prefilling
    <3>6. Unstarted'
      BY <1>f, <2>4, <3>1, <3>4, <3>5
    <3>7. Batch'
      <4> SUFFICES ASSUME NEW i \in 1 .. Len(rows)
                   PROVE  /\ Job[rows[i].req].kind # "embed"
                          /\ tokens'[rows[i].req].sent =
                               rows[i].produced + (IF i = cur THEN 1 ELSE 0)
                          /\ ~rows[i].finished => /\ reason[rows[i].req] = ""
                                                  /\ rows[i].produced < Job[rows[i].req].maxTokens
                          /\ rows[i].finished => reason[rows[i].req] \in Ran
                          /\ i >= cur => ~rows[i].finished
        BY <3>1, <3>2 DEF Batch
      <4>1. /\ Job[rows[i].req].kind # "embed"
            /\ tokens[rows[i].req].sent = rows[i].produced + 0
            /\ ~rows[i].finished => /\ reason[rows[i].req] = ""
                                    /\ rows[i].produced < Job[rows[i].req].maxTokens
            /\ rows[i].finished => reason[rows[i].req] \in Ran
            /\ i >= cur => ~rows[i].finished
        BY <1>0, <2>0, <3>2 DEF Batch
      <4>2. tokens'[rows[i].req].sent = rows[i].produced + (IF i = cur THEN 1 ELSE 0)
        <5>1. CASE i = cur
          BY <2>1, <2>4, <5>1
        <5>2. CASE i # cur
          <6>1. rows[i].req # x /\ rows[i].req \in Request
            BY <1>16, <1>a, <2>0, <2>1, <5>2
          <6> QED BY <2>4, <4>1, <5>2, <6>1
        <5> QED BY <5>1, <5>2
      <4> QED BY <4>1, <4>2
    <3> QED BY <1>e, <3>2, <3>6, <3>7 DEF Stages
  <2> QED BY <2>5, <2>6
<1>23. CASE PushLogprob
  <2>0. /\ pc = "pushLogprob" /\ CountToken /\ NextRow
        /\ UNCHANGED <<waiting, incoming, gen, groups, pending, closing, tokens>>
    BY <1>23 DEF PushLogprob, schedVars, admitVars
  <2>1. tokens[rows[cur].req].sent = rows[cur].produced + 1
    BY <1>0, <1>16, <2>0 DEF Batch
  <2> QED BY <1>21, <2>0, <2>1
(* Eviction, and the closing loop.                                          *)
<1>24. CASE EvictFinished
  <2> DEFINE stay == Keep(rows, {row \in RowType : ~row.finished})
             leave == Keep(rows, {row \in RowType : row.finished})
  <2>0. /\ pc \in {"evict1", "evict2"} /\ rows' = stay /\ closing' = leave
        /\ \/ pc' \in {"publish", "top", "decode"} /\ closing' = <<>>
           \/ pc' = "closeTokens" /\ ret' \in {"publish", "top", "decode"}
        /\ UNCHANGED <<gen, groups, pending, waiting, incoming, tokens, reason>>
    BY <1>24 DEF EvictFinished, CloseAll, schedVars, admitVars, requestVars
  <2>1. /\ \A i \in 1 .. Len(rows') : ~rows'[i].finished /\ \E k \in 1 .. Len(rows) : rows'[i] = rows[k]
        /\ \A i \in 1 .. Len(closing') :
              closing'[i].finished /\ \E k \in 1 .. Len(rows) : closing'[i] = rows[k]
    <3>1. /\ \A i \in 1 .. Len(stay) : ~stay[i].finished /\ \E k \in 1 .. Len(rows) : stay[i] = rows[k]
          /\ \A i \in 1 .. Len(leave) :
                leave[i].finished /\ \E k \in 1 .. Len(rows) : leave[i] = rows[k]
      BY <1>a, RowsSplit
    <3> HIDE DEF stay, leave
    <3> QED BY <2>0, <3>1
  <2>3. Fresh' = Fresh /\ Prefilling' = Prefilling
    BY <2>0 DEF Fresh, Prefilling
  <2>4. Unstarted'
    <3>1. {} \cap Fresh' = {} /\ {} \subseteq Open
      OBVIOUS
    <3> QED BY <1>f, <2>0, <2>3, <3>1
  <2>5. ~RowLoop' /\ pc # "pushLogprob" /\ pc' # "pushLogprob"
    BY <2>0 DEF RowLoop
  <2>6. Batch'
    <3> SUFFICES ASSUME NEW i \in 1 .. Len(rows')
                 PROVE  /\ Job[rows'[i].req].kind # "embed"
                        /\ tokens'[rows'[i].req].sent = rows'[i].produced
                        /\ reason'[rows'[i].req] = ""
                        /\ rows'[i].produced < Job[rows'[i].req].maxTokens
                        /\ ~rows'[i].finished
      BY <1>i, <2>5
    <3>1. PICK k \in 1 .. Len(rows) : rows'[i] = rows[k]
      BY <2>1
    <3>2. ~rows[k].finished
      BY <2>1, <3>1
    <3>3. /\ Job[rows[k].req].kind # "embed"
          /\ tokens[rows[k].req].sent = rows[k].produced + 0
          /\ reason[rows[k].req] = ""
          /\ rows[k].produced < Job[rows[k].req].maxTokens
      BY <1>0, <2>5, <3>2 DEF Batch
    <3>4. tokens[rows[k].req].sent = rows[k].produced
      <4>1. tokens[rows[k].req].sent = rows[k].produced + 0
        BY <3>3
      <4> QED BY <1>a, <4>1
    <3>5. tokens' = tokens /\ reason' = reason
      BY <2>0
    <3>6. rows'[i].req = rows[k].req /\ rows'[i].produced = rows[k].produced /\ ~rows'[i].finished
      BY <2>1, <3>1
    <3> QED BY <3>3, <3>4, <3>5, <3>6
  <2>7. \A i \in 1 .. Len(closing') : reason'[closing'[i].req] \in Ran
    <3> SUFFICES ASSUME NEW i \in 1 .. Len(closing') PROVE reason'[closing'[i].req] \in Ran
      OBVIOUS
    <3>1. PICK k \in 1 .. Len(rows) : closing'[i] = rows[k]
      BY <2>1
    <3>2. rows[k].finished
      BY <2>1, <3>1
    <3>3. reason[rows[k].req] \in Ran
      BY <1>0, <3>2 DEF Batch
    <3> QED BY <2>0, <3>1, <3>3
  <2>8. CASE pc' \in {"publish", "top", "decode"}
    BY <1>e, <2>4, <2>6, <2>8 DEF Stages, CloseLoop
  <2>9. CASE pc' = "closeTokens" /\ ret' \in {"publish", "top", "decode"}
    <3>1. Closed'
      BY <2>7, <2>9 DEF Closed
    <3> QED BY <2>4, <2>6, <3>1 DEF Stages
  <2> QED BY <2>0, <2>8, <2>9
<1>25. CASE CloseTokens
  <2>0. /\ pc = "closeTokens" /\ pc' = "closeLogprobs"
        /\ tokens' = [tokens EXCEPT ![Head(closing).req] = CloseItem(@)]
        /\ UNCHANGED <<waiting, incoming, gen, groups, pending, rows, closing, reason, ret, cur>>
    BY <1>25 DEF CloseTokens, schedVars, admitVars
  <2>1. closing # <<>>
    BY <1>0, <2>0 DEF Loops, CloseLoop
  <2>2. /\ Head(closing) \in RowType /\ Head(closing).req \in ReqSet(closing)
    BY <1>a, <2>1, RowsTail
  <2>3. PICK x \in Request : x = Head(closing).req
    BY <2>2 DEF RowType
  <2>4. x \in Started /\ x \in Open /\ x \notin ReqSet(rows)
    <3>1. ReqSet(ToClose) = ReqSet(closing)
      BY <2>0 DEF ToClose
    <3> QED BY <1>b, <2>2, <2>3, <3>1 DEF Started
  <2>5. /\ tokens'[x].sent = tokens[x].sent /\ \A r \in Request : r # x => tokens'[r] = tokens[r]
    <3>1. tokens'[x] = CloseItem(tokens[x]) /\ \A r \in Request : r # x => tokens'[r] = tokens[r]
      BY <1>a, <2>0, <2>3
    <3> QED BY <1>a, <3>1, QueueTypes
  <2>6. Fresh' = Fresh /\ Prefilling' = Prefilling
    BY <2>0 DEF Fresh, Prefilling
  <2>7. {x} \cap Fresh' = {} /\ {x} \subseteq Open
    BY <1>b, <2>4, <2>6
  <2>8. Unstarted'
    BY <1>f, <2>0, <2>5, <2>6, <2>7
  <2>9. \A i \in 1 .. Len(rows) : tokens'[rows[i].req] = tokens[rows[i].req]
    BY <1>a, <2>4, <2>5
  <2>10. ~RowLoop /\ ~RowLoop' /\ Home' = Home /\ pc # "pushLogprob" /\ pc' # "pushLogprob"
    BY <2>0 DEF RowLoop, CloseLoop, Home
  <2>11. Batch'
    BY <1>0, <2>0, <2>9, <2>10 DEF Batch
  <2>12. Closed'
    BY <1>0, <2>0 DEF Closed
  <2> QED BY <2>8, <2>11, <2>12 DEF Stages
<1>26. CASE CloseLogprobs
  <2>0. /\ pc = "closeLogprobs" /\ closing' = Tail(closing)
        /\ \/ pc' = ret /\ closing' = <<>>
           \/ pc' = "closeTokens" /\ ret' = ret
        /\ UNCHANGED <<waiting, incoming, gen, groups, pending, rows, tokens, reason>>
    BY <1>26 DEF CloseLogprobs, CloseAll, schedVars, admitVars
  <2>1. closing # <<>> /\ ret \in {"dispatch", "decode", "top", "publish"}
    BY <1>0, <2>0 DEF Loops, CloseLoop
  <2>2. \A i \in 1 .. Len(closing') : \E k \in 1 .. Len(closing) : closing'[i] = closing[k]
    BY <1>a, <2>0, <2>1, RowsTail
  <2>3. Fresh' = Fresh /\ Prefilling' = Prefilling
    BY <2>0 DEF Fresh, Prefilling
  <2>4. Unstarted'
    <3>1. {} \cap Fresh' = {} /\ {} \subseteq Open
      OBVIOUS
    <3> QED BY <1>f, <2>0, <2>3, <3>1
  <2>5. ~RowLoop /\ ~RowLoop' /\ Home' = Home /\ pc # "pushLogprob" /\ pc' # "pushLogprob"
    BY <2>0, <2>1 DEF RowLoop, CloseLoop, Home
  <2>6. Batch'
    BY <1>0, <2>0, <2>5 DEF Batch
  <2>7. CASE pc' = ret /\ closing' = <<>>
    <3>1. ~CloseLoop'
      BY <2>1, <2>7 DEF CloseLoop
    <3> QED BY <1>e, <2>4, <2>6, <3>1 DEF Stages
  <2>8. CASE pc' = "closeTokens" /\ ret' = ret
    <3>1. Closed'
      BY <1>0, <2>0, <2>2, <2>8 DEF Closed
    <3> QED BY <2>4, <2>6, <3>1 DEF Stages
  <2> QED BY <2>0, <2>7, <2>8
<1> QED BY <1>1, <1>2, <1>3, <1>4, <1>5, <1>6, <1>7, <1>8, <1>11, <1>12, <1>14, <1>15, <1>19,
           <1>20, <1>22, <1>23, <1>24, <1>25, <1>26 DEF Worker


(* Every step.                                                             *)
LEMMA StagesStep ==
    ASSUME Control, Places, Stages, [Next]_vars
    PROVE  Control' /\ Places' /\ Stages'
<1>1. Control' /\ Places'
  BY PlacesStep
<1>2. CASE Worker
  BY <1>1, <1>2, StagesWorker
<1>3. CASE \E r \in Request : Submit(r) \/ Cancel(r) \/ Free(r) \/ Client(r)
  BY <1>1, <1>3, StagesCallers
<1>4. CASE Stop \/ UNCHANGED vars
  BY <1>1, <1>4, StagesCallers
<1>5. CASE Terminated
  BY <1>4, <1>5 DEF Terminated
<1> QED BY <1>1, <1>2, <1>3, <1>4, <1>5 DEF Next

(* The three layers together.                                              *)
Core == Control /\ Places /\ Stages

(* The core invariant holds before the worker starts.                    *)
LEMMA CoreInit == Init => Core
BY ControlInit, PlacesInit, StagesInit DEF Core

(* Every step of the worker, a caller or stop() keeps it.                *)
LEMMA CoreStep == Core /\ [Next]_vars => Core'
BY StagesStep DEF Core

(* It holds in every state of every behaviour.                           *)
LEMMA CoreInvariant == Spec => []Core
BY CoreInit, CoreStep, PTL DEF Spec

(* Every variable keeps its type, however the threads interleave.          *)
THEOREM TypesKept == Spec => []TypeOK
<1>1. Core => TypeOK
  BY DEF Core, Control
<1> QED BY <1>1, CoreInvariant, PTL
=============================================================================
