----------------------------- MODULE SeqLemmas -----------------------------
(***************************************************************************)
(* Facts about sequences that the proofs share.  For the queues: how the   *)
(* concatenation "delivered, then queued" changes when an item enters the  *)
(* queue at its tail or moves from its head to the end of what was         *)
(* delivered.  For the collections of requests, files and blocks: what     *)
(* their elements are, and that no element comes to be in one twice, when  *)
(* one is appended to, cut, filtered or totalled.                          *)
(***************************************************************************)
EXTENDS SeqOps, Functions, SequenceTheorems, WellFoundedInduction, TLAPS

(* Appending to the right operand of a concatenation appends to the whole. *)
LEMMA ConcatAppend ==
    ASSUME NEW T, NEW s \in Seq(T), NEW t \in Seq(T), NEW v \in T
    PROVE  s \o Append(t, v) = Append(s \o t, v)
<1> DEFINE l == s \o Append(t, v)
           r == Append(s \o t, v)
<1>1. /\ Append(t, v) \in Seq(T)
      /\ Len(Append(t, v)) = Len(t) + 1
      /\ \A i \in 1 .. Len(t) : Append(t, v)[i] = t[i]
      /\ Append(t, v)[Len(t) + 1] = v
  BY AppendProperties
<1>2. /\ s \o t \in Seq(T)
      /\ Len(s \o t) = Len(s) + Len(t)
      /\ \A i \in 1 .. Len(s) + Len(t) :
            (s \o t)[i] = IF i <= Len(s) THEN s[i] ELSE t[i - Len(s)]
  BY ConcatProperties
<1>3. /\ l \in Seq(T)
      /\ Len(l) = Len(s) + Len(t) + 1
      /\ \A i \in 1 .. Len(s) + Len(t) + 1 :
            l[i] = IF i <= Len(s) THEN s[i] ELSE Append(t, v)[i - Len(s)]
  <2>1. /\ l \in Seq(T)
        /\ Len(l) = Len(s) + Len(Append(t, v))
        /\ \A i \in 1 .. Len(s) + Len(Append(t, v)) :
            l[i] = IF i <= Len(s) THEN s[i] ELSE Append(t, v)[i - Len(s)]
    BY <1>1, ConcatProperties
  <2> QED BY <2>1, <1>1, LenProperties
<1>4. /\ r \in Seq(T)
      /\ Len(r) = Len(s) + Len(t) + 1
      /\ \A i \in 1 .. Len(s) + Len(t) : r[i] = (s \o t)[i]
      /\ r[Len(s) + Len(t) + 1] = v
  BY <1>2, AppendProperties
<1>5. \A i \in 1 .. Len(l) : l[i] = r[i]
  BY <1>1, <1>2, <1>3, <1>4, LenProperties
<1> QED BY <1>3, <1>4, <1>5, SeqEqual

(* Moving the head of the right operand to the end of the left operand
   leaves the concatenation as it was.                                     *)
LEMMA ConcatMoveHead ==
    ASSUME NEW T, NEW s \in Seq(T), NEW t \in Seq(T), t # <<>>
    PROVE  Append(s, Head(t)) \o Tail(t) = s \o t
<1>1. /\ Head(t) \in T
      /\ Tail(t) \in Seq(T)
      /\ Len(Tail(t)) = Len(t) - 1
      /\ \A i \in 1 .. Len(Tail(t)) : Tail(t)[i] = t[i + 1]
      /\ Head(t) = t[1]
  BY HeadTailProperties
<1>2. Len(t) \in Nat \ {0} /\ Len(s) \in Nat
  BY EmptySeq, LenProperties
<1>3. /\ Append(s, Head(t)) \in Seq(T)
      /\ Len(Append(s, Head(t))) = Len(s) + 1
      /\ \A i \in 1 .. Len(s) : Append(s, Head(t))[i] = s[i]
      /\ Append(s, Head(t))[Len(s) + 1] = Head(t)
  BY <1>1, AppendProperties
<1> DEFINE l == Append(s, Head(t)) \o Tail(t)
           r == s \o t
<1>4. /\ l \in Seq(T)
      /\ Len(l) = Len(s) + Len(t)
      /\ \A i \in 1 .. Len(s) + Len(t) :
            l[i] = IF i <= Len(s) + 1 THEN Append(s, Head(t))[i]
                                      ELSE Tail(t)[i - (Len(s) + 1)]
  <2>1. /\ l \in Seq(T)
        /\ Len(l) = Len(Append(s, Head(t))) + Len(Tail(t))
        /\ \A i \in 1 .. Len(Append(s, Head(t))) + Len(Tail(t)) :
             l[i] = IF i <= Len(Append(s, Head(t))) THEN Append(s, Head(t))[i]
                    ELSE Tail(t)[i - Len(Append(s, Head(t)))]
    BY <1>1, <1>3, ConcatProperties
  <2> QED BY <2>1, <1>1, <1>2, <1>3
<1>5. /\ r \in Seq(T)
      /\ Len(r) = Len(s) + Len(t)
      /\ \A i \in 1 .. Len(s) + Len(t) :
            r[i] = IF i <= Len(s) THEN s[i] ELSE t[i - Len(s)]
  BY ConcatProperties
<1>6. \A i \in 1 .. Len(l) : l[i] = r[i]
  <2> SUFFICES ASSUME NEW i \in 1 .. Len(s) + Len(t) PROVE l[i] = r[i]
    BY <1>4
  <2>1. CASE i <= Len(s)
    BY <2>1, <1>2, <1>3, <1>4, <1>5
  <2>2. CASE i = Len(s) + 1
    BY <2>2, <1>1, <1>2, <1>3, <1>4, <1>5
  <2>3. CASE i > Len(s) + 1
    <3>1. i - (Len(s) + 1) \in 1 .. Len(Tail(t))
      BY <2>3, <1>1, <1>2
    <3>2. Tail(t)[i - (Len(s) + 1)] = t[i - (Len(s) + 1) + 1]
      BY <3>1, <1>1
    <3>3. i - (Len(s) + 1) + 1 = i - Len(s)
      BY <1>2
    <3> QED BY <3>2, <3>3, <2>3, <1>2, <1>4, <1>5
  <2> QED BY <2>1, <2>2, <2>3, <1>2
<1> QED BY <1>4, <1>5, <1>6, SeqEqual

(* The two ways of bracketing a concatenation of three agree.              *)
Associates(s, u, v) == (s \o u) \o v = s \o (u \o v)

(* They agree for any three sequences.                                     *)
LEMMA ConcatThree ==
    ASSUME NEW T, NEW s \in Seq(T), NEW u \in Seq(T), NEW v \in Seq(T)
    PROVE  Associates(s, u, v)
BY ConcatAssociative DEF Associates

-----------------------------------------------------------------------------
(* Induction and selection.                                                *)

(* A set of natural numbers that is not empty has a least element.         *)
LEMMA LeastElement ==
    ASSUME NEW T, T \subseteq Nat, T # {}
    PROVE  \E x \in T : \A y \in T : x <= y
<1> DEFINE R == {ss \in Nat \X Nat : ss[1] < ss[2]}
<1>1. IsWellFoundedOn(R, Nat)
  BY NatLessThanWellFounded DEF OpToRel
<1>2. PICK x \in T : \A y \in T : ~ (<<y, x>> \in R)
  <2> HIDE DEF R
  <2> QED BY <1>1, WFMin
<1>3. ASSUME NEW y \in T PROVE x <= y
  <2>1. <<y, x>> \in Nat \X Nat /\ <<y, x>>[1] = y /\ <<y, x>>[2] = x
    OBVIOUS
  <2> QED BY <1>2, <2>1
<1> QED BY <1>3

(* Induction, over a set instead of a predicate.                           *)
LEMMA SetInduction ==
    ASSUME NEW S, 0 \in S, \A n \in Nat : n \in S => n + 1 \in S
    PROVE  \A n \in Nat : n \in S
<1> DEFINE B == {n \in Nat : n \notin S}
<1> SUFFICES ASSUME B # {} PROVE FALSE
  OBVIOUS
<1>1. PICK x \in B : \A y \in B : x <= y
  BY LeastElement
<1>2. x # 0
  OBVIOUS
<1>3. x - 1 \in Nat /\ x - 1 \notin B /\ x - 1 + 1 = x
  BY <1>1, <1>2
<1> QED BY <1>3

(* g computes Keep on the prefixes of s up to length n.                    *)
KeepTo(g, s, T, n) ==
    g = [i \in 0 .. n |-> IF i = 0 THEN <<>>
                          ELSE IF s[i] \in T THEN Append(g[i - 1], s[i]) ELSE g[i - 1]]

(* There is such a function for every length: the recursion is well founded. *)
LEMMA KeepExists ==
    ASSUME NEW s, NEW T, NEW n \in Nat
    PROVE  \E g : KeepTo(g, s, T, n)
<1> DEFINE S == {m \in Nat : \E g : KeepTo(g, s, T, m)}
<1>1. 0 \in S
  <2>1. KeepTo([i \in 0 .. 0 |-> <<>>], s, T, 0)
    BY DEF KeepTo
  <2> QED BY <2>1
<1>2. ASSUME NEW m \in Nat, m \in S PROVE m + 1 \in S
  <2>1. PICK g : KeepTo(g, s, T, m)
    BY <1>2
  <2> DEFINE h == [i \in 0 .. m + 1 |-> IF i <= m THEN g[i]
                     ELSE IF s[i] \in T THEN Append(g[m], s[i]) ELSE g[m]]
  <2>2. \A i \in 0 .. m : g[i] = IF i = 0 THEN <<>>
          ELSE IF s[i] \in T THEN Append(g[i - 1], s[i]) ELSE g[i - 1]
    BY <2>1 DEF KeepTo
  <2>3. \A i \in 0 .. m + 1 : h[i] = IF i = 0 THEN <<>>
          ELSE IF s[i] \in T THEN Append(h[i - 1], s[i]) ELSE h[i - 1]
    BY <2>2
  <2>4. KeepTo(h, s, T, m + 1)
    <3>1. h = [i \in 0 .. m + 1 |-> h[i]]
      OBVIOUS
    <3> HIDE DEF h
    <3> QED BY <2>3, <3>1 DEF KeepTo
  <2> QED BY <2>4
<1> HIDE DEF S
<1>3. n \in S
  BY <1>1, <1>2, SetInduction
<1> QED BY <1>3 DEF S

(* Positions e of the first n elements of s, in order, are those of the members
   of T, and k is what stands there.                                         *)
Embeds(e, k, s, T, n) ==
    /\ e \in [1 .. Len(k) -> 1 .. n]
    /\ \A i, j \in 1 .. Len(k) : i < j => e[i] < e[j]
    /\ \A i \in 1 .. Len(k) : k[i] = s[e[i]] /\ s[e[i]] \in T
    /\ \A m \in 1 .. n : s[m] \in T => \E i \in 1 .. Len(k) : e[i] = m

(* What Keep returns is s at increasing positions, those of the members of T. *)
LEMMA KeepEmbeds ==
    ASSUME NEW A, NEW s \in Seq(A), NEW T
    PROVE  /\ Keep(s, T) \in Seq(A)
           /\ \E e : Embeds(e, Keep(s, T), s, T, Len(s))
<1> DEFINE N == Len(s)
           g == CHOOSE x : KeepTo(x, s, T, N)
           S == {m \in Nat : m <= N => g[m] \in Seq(A) /\ \E e : Embeds(e, g[m], s, T, m)}
<1>1. N \in Nat
  OBVIOUS
<1>2. KeepTo(g, s, T, N)
  BY <1>1, KeepExists
<1>3. Keep(s, T) = g[N]
  BY DEF Keep, KeepTo
<1> HIDE DEF g
<1>4. g[0] = <<>> /\ \A i \in Nat : i + 1 <= N =>
          /\ s[i + 1] \in T => g[i + 1] = Append(g[i], s[i + 1])
          /\ s[i + 1] \notin T => g[i + 1] = g[i]
  <2>1. \A i \in 0 .. N : g[i] = IF i = 0 THEN <<>>
          ELSE IF s[i] \in T THEN Append(g[i - 1], s[i]) ELSE g[i - 1]
    BY <1>1, <1>2 DEF KeepTo
  <2> HIDE DEF N
  <2>2. g[0] = <<>>
    BY <1>1, <2>1
  <2>3. ASSUME NEW i \in Nat, i + 1 <= N
        PROVE  /\ s[i + 1] \in T => g[i + 1] = Append(g[i], s[i + 1])
               /\ s[i + 1] \notin T => g[i + 1] = g[i]
    <3>1. PICK n \in 0 .. N : n = i + 1 /\ n # 0 /\ n - 1 = i
      BY <1>1, <2>3
    <3>2. g[n] = IF s[n] \in T THEN Append(g[n - 1], s[n]) ELSE g[n - 1]
      BY <2>1, <3>1
    <3>3. g[n] = IF s[n] \in T THEN Append(g[i], s[n]) ELSE g[i]
      BY <3>1, <3>2
    <3> QED BY <3>1, <3>3
  <2> QED BY <2>2, <2>3
<1>5. 0 \in S
  <2>1. Embeds([i \in 1 .. 0 |-> 0], <<>>, s, T, 0)
    BY DEF Embeds
  <2>2. g[0] \in Seq(A)
    BY <1>4
  <2> QED BY <1>4, <2>1, <2>2
<1>6. ASSUME NEW m \in Nat, m \in S PROVE m + 1 \in S
  <2> SUFFICES ASSUME m + 1 <= N
               PROVE  g[m + 1] \in Seq(A) /\ \E e : Embeds(e, g[m + 1], s, T, m + 1)
    OBVIOUS
  <2>1. g[m] \in Seq(A) /\ m + 1 \in 1 .. N /\ s[m + 1] \in A /\ Len(g[m]) \in Nat
    BY <1>1, <1>6
  <2>2. PICK e : Embeds(e, g[m], s, T, m)
    BY <1>1, <1>6
  <2>3. CASE s[m + 1] \notin T
    <3>1. g[m + 1] = g[m]
      BY <1>4, <2>1, <2>3
    <3>2. Embeds(e, g[m], s, T, m + 1)
      BY <2>1, <2>2, <2>3 DEF Embeds
    <3> QED BY <2>1, <3>1, <3>2
  <2>4. CASE s[m + 1] \in T
    <3> DEFINE k == Append(g[m], s[m + 1])
               d == [i \in 1 .. Len(g[m]) + 1 |-> IF i <= Len(g[m]) THEN e[i] ELSE m + 1]
    <3>1. g[m + 1] = k
      BY <1>4, <2>4
    <3>2. /\ k \in Seq(A) /\ Len(k) = Len(g[m]) + 1
          /\ \A i \in 1 .. Len(g[m]) : k[i] = g[m][i]
          /\ k[Len(g[m]) + 1] = s[m + 1]
      BY <2>1, AppendProperties
    <3> HIDE DEF k
    <3>3. d \in [1 .. Len(k) -> 1 .. m + 1]
      BY <2>1, <2>2, <3>2 DEF Embeds
    <3>4. ASSUME NEW i \in 1 .. Len(k), NEW j \in 1 .. Len(k), i < j PROVE d[i] < d[j]
      <4>0. i \in 1 .. Len(g[m])
        BY <2>1, <3>2, <3>4
      <4>1. d[i] = e[i] /\ e[i] \in 1 .. m
        <5>1. d[i] = e[i]
          BY <2>1, <4>0
        <5>2. e[i] \in 1 .. m
          BY <2>2, <4>0 DEF Embeds
        <5> QED BY <5>1, <5>2
      <4>2. CASE j = Len(g[m]) + 1
        BY <2>1, <3>2, <4>1, <4>2
      <4>3. CASE j # Len(g[m]) + 1
        <5>1. j \in 1 .. Len(g[m]) /\ d[j] = e[j]
          BY <2>1, <3>2, <4>3
        <5> QED BY <2>2, <3>4, <4>0, <4>1, <5>1 DEF Embeds
      <4> QED BY <4>2, <4>3
    <3>5. \A i \in 1 .. Len(k) : k[i] = s[d[i]] /\ s[d[i]] \in T
      BY <2>1, <2>2, <2>4, <3>2 DEF Embeds
    <3>6. ASSUME NEW j \in 1 .. m + 1, s[j] \in T PROVE \E i \in 1 .. Len(k) : d[i] = j
      <4>1. CASE j = m + 1
        BY <2>1, <3>2, <4>1
      <4>2. CASE j # m + 1
        <5>1. PICK i \in 1 .. Len(g[m]) : e[i] = j
          BY <2>2, <3>6, <4>2 DEF Embeds
        <5>2. i \in 1 .. Len(k) /\ d[i] = e[i]
          BY <2>1, <3>2
        <5> QED BY <5>1, <5>2
      <4> QED BY <4>1, <4>2
    <3>7. Embeds(d, k, s, T, m + 1)
      <4> HIDE DEF d
      <4> QED BY <3>3, <3>4, <3>5, <3>6 DEF Embeds
    <3> QED BY <3>1, <3>2, <3>7
  <2> QED BY <2>3, <2>4
<1>7. N \in S
  <2> HIDE DEF S, N
  <2> QED BY <1>1, <1>5, <1>6, SetInduction
<1> QED BY <1>1, <1>3, <1>7

(* Keep keeps exactly the elements that are in T, ...                      *)
LEMMA KeepRange ==
    ASSUME NEW A, NEW s \in Seq(A), NEW T
    PROVE  Range(Keep(s, T)) = Range(s) \cap T
<1> DEFINE k == Keep(s, T)
<1>1. k \in Seq(A) /\ DOMAIN k = 1 .. Len(k) /\ DOMAIN s = 1 .. Len(s) /\ Len(k) \in Nat
  BY KeepEmbeds
<1>2. PICK e : Embeds(e, k, s, T, Len(s))
  BY KeepEmbeds
<1> HIDE DEF k
<1>3. ASSUME NEW x \in Range(k) PROVE x \in Range(s) \cap T
  BY <1>1, <1>2 DEF Embeds, Range
<1>4. ASSUME NEW x \in Range(s), x \in T PROVE x \in Range(k)
  <2>1. PICK m \in 1 .. Len(s) : s[m] = x
    BY <1>1 DEF Range
  <2>2. PICK i \in 1 .. Len(k) : e[i] = m
    BY <1>2, <1>4, <2>1 DEF Embeds
  <2> QED BY <1>1, <1>2, <2>1, <2>2 DEF Embeds, Range
<1> QED BY <1>3, <1>4 DEF k

(* ... and takes each of them from a position of its own.                  *)
LEMMA KeepPositions ==
    ASSUME NEW A, NEW s \in Seq(A), NEW T
    PROVE  \E e \in [1 .. Len(Keep(s, T)) -> 1 .. Len(s)] :
              /\ \A i \in 1 .. Len(Keep(s, T)) : Keep(s, T)[i] = s[e[i]]
              /\ \A i, j \in 1 .. Len(Keep(s, T)) : e[i] = e[j] => i = j
<1> DEFINE k == Keep(s, T)
<1>1. k \in Seq(A) /\ Len(k) \in Nat
  BY KeepEmbeds
<1>2. PICK e : Embeds(e, k, s, T, Len(s))
  BY KeepEmbeds
<1> HIDE DEF k
<1>3. ASSUME NEW i \in 1 .. Len(k), NEW j \in 1 .. Len(k), i # j PROVE e[i] # e[j]
  <2>1. i < j \/ j < i
    BY <1>1, <1>3
  <2>2. e[i] \in 1 .. Len(s) /\ e[j] \in 1 .. Len(s)
    BY <1>2 DEF Embeds
  <2> QED BY <1>2, <2>1, <2>2 DEF Embeds
<1>4. e \in [1 .. Len(k) -> 1 .. Len(s)] /\ \A i \in 1 .. Len(k) : k[i] = s[e[i]]
  BY <1>2 DEF Embeds
<1> QED BY <1>3, <1>4 DEF k

(* No element occurs twice.                                                *)
Distinct(s) == \A i, j \in 1 .. Len(s) : s[i] = s[j] => i = j

(* What is kept of a sequence without repetitions has none.                *)
LEMMA KeepDistinct ==
    ASSUME NEW A, NEW s \in Seq(A), NEW T, Distinct(s)
    PROVE  Distinct(Keep(s, T))
<1> DEFINE k == Keep(s, T)
<1>1. PICK e \in [1 .. Len(k) -> 1 .. Len(s)] :
              /\ \A i \in 1 .. Len(k) : k[i] = s[e[i]]
              /\ \A i, j \in 1 .. Len(k) : e[i] = e[j] => i = j
  BY KeepPositions
<1> HIDE DEF k
<1>2. ASSUME NEW i \in 1 .. Len(k), NEW j \in 1 .. Len(k), k[i] = k[j] PROVE i = j
  <2>1. e[i] \in 1 .. Len(s) /\ e[j] \in 1 .. Len(s) /\ s[e[i]] = s[e[j]]
    BY <1>1, <1>2
  <2>2. e[i] = e[j]
    BY <2>1 DEF Distinct
  <2> QED BY <1>1, <2>2
<1>3. Distinct(k)
  BY <1>2 DEF Distinct
<1> QED BY <1>3 DEF k

(* The range of a sequence with one more element.                          *)
LEMMA AppendRange ==
    ASSUME NEW A, NEW s \in Seq(A), NEW x \in A
    PROVE  Range(Append(s, x)) = Range(s) \cup {x}
<1>1. /\ Append(s, x) \in Seq(A) /\ Len(Append(s, x)) = Len(s) + 1
      /\ \A i \in 1 .. Len(s) : Append(s, x)[i] = s[i]
      /\ Append(s, x)[Len(s) + 1] = x
  BY AppendProperties
<1>2. DOMAIN s = 1 .. Len(s) /\ DOMAIN Append(s, x) = 1 .. Len(s) + 1 /\ Len(s) \in Nat
  BY <1>1
<1> DEFINE a == Append(s, x)
<1> HIDE DEF a
<1>3. \A i \in 1 .. Len(s) + 1 : i \in 1 .. Len(s) \/ i = Len(s) + 1
  BY <1>2
<1>4. Len(s) + 1 \in 1 .. Len(s) + 1 /\ 1 .. Len(s) \subseteq 1 .. Len(s) + 1
  BY <1>2
<1> QED BY <1>1, <1>2, <1>3, <1>4 DEF Range, a

(* A sequence without repetitions cut in two: the parts have none either, and
   nothing in common.                                                      *)
LEMMA CutInTwo ==
    ASSUME NEW A, NEW s \in Seq(A), Distinct(s), NEW c \in 0 .. Len(s)
    PROVE  LET a == SubSeq(s, 1, c)  z == SubSeq(s, c + 1, Len(s)) IN
           /\ a \in Seq(A) /\ z \in Seq(A) /\ Distinct(a) /\ Distinct(z)
           /\ Range(a) \cup Range(z) = Range(s) /\ Range(a) \cap Range(z) = {}
<1> DEFINE a == SubSeq(s, 1, c)
           z == SubSeq(s, c + 1, Len(s))
<1>1. /\ a \in Seq(A) /\ Len(a) = c /\ \A i \in 1 .. c : a[i] = s[i]
      /\ DOMAIN a = 1 .. c
  <2>1. /\ SubSeq(s, 1, c) \in Seq(A)
        /\ Len(SubSeq(s, 1, c)) = IF 1 <= c THEN c - 1 + 1 ELSE 0
        /\ \A i \in 1 .. c - 1 + 1 : SubSeq(s, 1, c)[i] = s[1 + i - 1]
    BY SubSeqProperties
  <2> QED BY <2>1
<1>2. /\ z \in Seq(A) /\ Len(z) = Len(s) - c /\ \A i \in 1 .. Len(s) - c : z[i] = s[c + i]
      /\ DOMAIN z = 1 .. Len(s) - c
  <2>1. /\ z \in Seq(A)
        /\ Len(z) = IF c + 1 <= Len(s) THEN Len(s) - (c + 1) + 1 ELSE 0
        /\ \A i \in 1 .. Len(s) - (c + 1) + 1 : z[i] = s[c + 1 + i - 1]
    <3>1. PICK b \in 1 .. Len(s) + 1, l \in 0 .. Len(s) : b = c + 1 /\ l = Len(s)
      OBVIOUS
    <3>2. /\ SubSeq(s, b, l) \in Seq(A)
          /\ Len(SubSeq(s, b, l)) = IF b <= l THEN l - b + 1 ELSE 0
          /\ \A i \in 1 .. l - b + 1 : SubSeq(s, b, l)[i] = s[b + i - 1]
      BY SubSeqProperties
    <3> QED BY <3>1, <3>2
  <2>2. Len(s) - (c + 1) + 1 = Len(s) - c
    OBVIOUS
  <2>3. \A i \in 1 .. Len(s) - c : c + 1 + i - 1 = c + i
    OBVIOUS
  <2> HIDE DEF z
  <2>4. c \in Nat /\ Len(s) \in Nat /\ c <= Len(s)
    OBVIOUS
  <2>5. Len(z) = Len(s) - c
    <3>1. CASE c + 1 <= Len(s)
      BY <2>1, <2>2, <3>1
    <3>2. CASE ~(c + 1 <= Len(s))
      BY <2>1, <2>4, <3>2
    <3> QED BY <3>1, <3>2
  <2>6. DOMAIN z = 1 .. Len(z)
    BY <2>1
  <2>7. ASSUME NEW i \in 1 .. Len(s) - c PROVE z[i] = s[c + i]
    <3>1. i \in 1 .. Len(s) - (c + 1) + 1 /\ c + 1 + i - 1 = c + i
      BY <2>2, <2>3
    <3> QED BY <2>1, <3>1
  <2> QED BY <2>1, <2>5, <2>6, <2>7
<1> HIDE DEF a, z
<1>3. DOMAIN s = 1 .. Len(s) /\ Len(s) \in Nat
  OBVIOUS
<1>4. Distinct(a) /\ Distinct(z)
  <2>0. ASSUME NEW i \in 1 .. Len(z), NEW j \in 1 .. Len(z), z[i] = z[j] PROVE i = j
    <3>1. c + i \in 1 .. Len(s) /\ c + j \in 1 .. Len(s)
      BY <1>2, <1>3
    <3>2. s[c + i] = s[c + j]
      BY <1>2, <2>0
    <3>3. c + i = c + j
      BY <3>1, <3>2 DEF Distinct
    <3> QED BY <1>2, <1>3, <3>3
  <2>1. Distinct(z)
    BY <2>0 DEF Distinct
  <2>2. \A i \in 1 .. c : i \in 1 .. Len(s)
    OBVIOUS
  <2>3. Distinct(a)
    BY <1>1, <2>2 DEF Distinct
  <2> QED BY <2>1, <2>3
<1>5. ASSUME NEW x \in Range(s) PROVE x \in Range(a) \cup Range(z)
  <2>1. PICK i \in 1 .. Len(s) : s[i] = x
    BY <1>3 DEF Range
  <2>2. CASE i <= c
    BY <1>1, <2>1, <2>2 DEF Range
  <2>3. CASE i > c
    <3>1. i - c \in 1 .. Len(s) - c /\ c + (i - c) = i
      BY <2>3
    <3> QED BY <1>2, <2>1, <3>1 DEF Range
  <2> QED BY <2>2, <2>3
<1>6. Range(a) \subseteq Range(s) /\ Range(z) \subseteq Range(s)
  <2>1. \A i \in 1 .. c : i \in 1 .. Len(s)
    OBVIOUS
  <2>2. \A i \in 1 .. Len(s) - c : c + i \in 1 .. Len(s)
    OBVIOUS
  <2>3. Range(a) \subseteq Range(s)
    BY <1>1, <1>3, <2>1 DEF Range
  <2>4. ASSUME NEW x \in Range(z) PROVE x \in Range(s)
    <3>1. PICK j \in 1 .. Len(s) - c : z[j] = x
      BY <1>2 DEF Range
    <3>2. x = s[c + j] /\ c + j \in DOMAIN s
      BY <1>2, <1>3, <2>2, <3>1
    <3> QED BY <3>2 DEF Range
  <2> QED BY <2>3, <2>4
<1>7. ASSUME NEW x \in Range(a), x \in Range(z) PROVE FALSE
  <2>1. PICK i \in 1 .. c : s[i] = x
    BY <1>1 DEF Range
  <2>2. PICK j \in 1 .. Len(s) - c : s[c + j] = x
    BY <1>2, <1>7 DEF Range
  <2>3. i \in 1 .. Len(s) /\ c + j \in 1 .. Len(s) /\ i # c + j
    OBVIOUS
  <2> QED BY <2>1, <2>2, <2>3 DEF Distinct
<1> QED BY <1>1, <1>2, <1>4, <1>5, <1>6, <1>7 DEF a, z

(* The empty sequence has an empty range and repeats nothing.              *)
LEMMA EmptyDistinct ==
    Range(<<>>) = {} /\ Distinct(<<>>)
BY DEF Range, Distinct

(* The range of a concatenation; nothing is repeated in it when nothing is in
   either part and the parts have nothing in common.                       *)
LEMMA ConcatDistinct ==
    ASSUME NEW A, NEW s \in Seq(A), NEW t \in Seq(A)
    PROVE  /\ s \o t \in Seq(A)
           /\ Range(s \o t) = Range(s) \cup Range(t)
           /\ Distinct(s) /\ Distinct(t) /\ Range(s) \cap Range(t) = {}
                => Distinct(s \o t)
<1> DEFINE u == s \o t
           m == Len(s)
           n == Len(t)
<1>1. /\ u \in Seq(A) /\ Len(u) = m + n
      /\ \A i \in 1 .. m + n : u[i] = IF i <= m THEN s[i] ELSE t[i - m]
  BY ConcatProperties
<1>2. /\ DOMAIN s = 1 .. m /\ DOMAIN t = 1 .. n /\ DOMAIN u = 1 .. m + n
      /\ m \in Nat /\ n \in Nat
  BY <1>1
<1> HIDE DEF u, m, n
<1>3. \A i \in 1 .. m : i \in 1 .. m + n /\ u[i] = s[i]
  BY <1>1, <1>2
<1>4. ASSUME NEW i \in 1 .. n PROVE m + i \in 1 .. m + n /\ u[m + i] = t[i]
  <2>1. PICK k \in 1 .. m + n : k = m + i /\ ~(k <= m) /\ k - m = i
    BY <1>2
  <2>2. u[k] = t[i]
    BY <1>1, <2>1
  <2> QED BY <2>1, <2>2
<1>5. ASSUME NEW k \in 1 .. m + n, ~(k <= m) PROVE k - m \in 1 .. n /\ u[k] = t[k - m]
  BY <1>1, <1>2, <1>5
<1>6. \A x : x \in Range(u) => x \in Range(s) \cup Range(t)
  <2> SUFFICES ASSUME NEW k \in 1 .. m + n PROVE u[k] \in Range(s) \cup Range(t)
    BY <1>2 DEF Range
  <2>1. CASE k <= m
    BY <1>2, <1>3, <2>1 DEF Range
  <2>2. CASE ~(k <= m)
    BY <1>2, <1>5, <2>2 DEF Range
  <2> QED BY <2>1, <2>2
<1>7. \A x : x \in Range(s) => x \in Range(u)
  BY <1>2, <1>3 DEF Range
<1>8. \A x : x \in Range(t) => x \in Range(u)
  BY <1>2, <1>4 DEF Range
<1>9. ASSUME Distinct(s), Distinct(t), Range(s) \cap Range(t) = {},
             NEW i \in 1 .. m + n, NEW j \in 1 .. m + n, u[i] = u[j]
      PROVE  i = j
  <2>1. CASE i <= m /\ j <= m
    <3>1. i \in 1 .. m /\ j \in 1 .. m /\ s[i] = s[j]
      BY <1>2, <1>3, <1>9, <2>1
    <3> QED BY <1>9, <3>1 DEF Distinct, m
  <2>2. CASE ~(i <= m) /\ ~(j <= m)
    <3>1. i - m \in 1 .. n /\ j - m \in 1 .. n /\ t[i - m] = t[j - m]
      BY <1>5, <1>9, <2>2
    <3>2. i - m = j - m
      BY <1>9, <3>1 DEF Distinct, n
    <3> QED BY <1>2, <3>2
  <2>3. CASE i <= m /\ ~(j <= m)
    <3>1. i \in 1 .. m /\ u[i] = s[i] /\ j - m \in 1 .. n /\ u[j] = t[j - m]
      BY <1>2, <1>3, <1>5, <2>3
    <3>2. u[i] \in Range(s) /\ u[j] \in Range(t)
      BY <1>2, <3>1 DEF Range
    <3> QED BY <1>9, <3>2
  <2>4. CASE ~(i <= m) /\ j <= m
    <3>1. j \in 1 .. m /\ u[j] = s[j] /\ i - m \in 1 .. n /\ u[i] = t[i - m]
      BY <1>2, <1>3, <1>5, <2>4
    <3>2. u[j] \in Range(s) /\ u[i] \in Range(t)
      BY <1>2, <3>1 DEF Range
    <3> QED BY <1>9, <3>2
  <2> QED BY <2>1, <2>2, <2>3, <2>4
<1>10. Range(u) = Range(s) \cup Range(t)
  BY <1>6, <1>7, <1>8
<1>11. Distinct(s) /\ Distinct(t) /\ Range(s) \cap Range(t) = {} => Distinct(u)
  BY <1>1, <1>9 DEF Distinct
<1> QED BY <1>1, <1>10, <1>11 DEF u

(* One more element that is new.                                           *)
LEMMA AppendDistinct ==
    ASSUME NEW A, NEW s \in Seq(A), NEW x \in A, Distinct(s), x \notin Range(s)
    PROVE  Append(s, x) \in Seq(A) /\ Distinct(Append(s, x))
<1> DEFINE a == Append(s, x)
<1>1. /\ a \in Seq(A) /\ Len(a) = Len(s) + 1
      /\ \A i \in 1 .. Len(s) : a[i] = s[i]
      /\ a[Len(s) + 1] = x
  BY AppendProperties
<1>2. DOMAIN s = 1 .. Len(s) /\ Len(s) \in Nat
  OBVIOUS
<1> HIDE DEF a
<1>3. \A i \in 1 .. Len(s) + 1 : i \in 1 .. Len(s) \/ i = Len(s) + 1
  BY <1>2
<1>4. \A i \in 1 .. Len(s) : a[i] # x /\ a[i] = s[i]
  BY <1>1, <1>2 DEF Range
<1>5. Distinct(a)
  BY <1>1, <1>3, <1>4 DEF Distinct
<1> QED BY <1>1, <1>5 DEF a

(* A sequence without repetitions taken apart at its head.                 *)
LEMMA TailDistinct ==
    ASSUME NEW A, NEW s \in Seq(A), s # <<>>
    PROVE  /\ Head(s) \in A /\ Tail(s) \in Seq(A)
           /\ Range(s) = {Head(s)} \cup Range(Tail(s))
           /\ Distinct(s) => Distinct(Tail(s)) /\ Head(s) \notin Range(Tail(s))
<1> DEFINE t == Tail(s)
           h == Head(s)
<1>1. /\ h \in A /\ t \in Seq(A) /\ Len(t) = Len(s) - 1
      /\ \A i \in 1 .. Len(t) : t[i] = s[i + 1]
      /\ h = s[1]
  BY HeadTailProperties
<1>2. Len(s) \in Nat \ {0} /\ DOMAIN s = 1 .. Len(s) /\ DOMAIN t = 1 .. Len(s) - 1
  BY <1>1, EmptySeq
<1> HIDE DEF t, h
<1>3. \A i \in 1 .. Len(s) - 1 : i + 1 \in 1 .. Len(s) /\ i + 1 # 1 /\ t[i] = s[i + 1]
  BY <1>1, <1>2
<1>4. ASSUME NEW x \in Range(s) PROVE x = h \/ x \in Range(t)
  <2>1. PICK i \in 1 .. Len(s) : s[i] = x
    BY <1>2 DEF Range
  <2>2. CASE i = 1
    BY <1>1, <2>1, <2>2
  <2>3. CASE i # 1
    <3>1. PICK j \in 1 .. Len(s) - 1 : j + 1 = i
      <4>1. i - 1 \in 1 .. Len(s) - 1 /\ i - 1 + 1 = i
        BY <1>2, <2>3
      <4> QED BY <4>1
    <3>2. t[j] = x
      BY <1>3, <2>1, <3>1
    <3> QED BY <1>2, <3>2 DEF Range
  <2> QED BY <2>2, <2>3
<1>5. \A x \in Range(t) : x \in Range(s)
  BY <1>2, <1>3 DEF Range
<1>6. h \in Range(s)
  BY <1>1, <1>2 DEF Range
<1>7. ASSUME Distinct(s) PROVE Distinct(t) /\ h \notin Range(t)
  <2>1. ASSUME NEW i \in 1 .. Len(s) - 1, NEW j \in 1 .. Len(s) - 1, t[i] = t[j] PROVE i = j
    <3>1. i + 1 = j + 1
      BY <1>3, <1>7, <2>1 DEF Distinct
    <3> QED BY <3>1
  <2>2. ASSUME NEW i \in 1 .. Len(s) - 1 PROVE t[i] # h
    BY <1>1, <1>2, <1>3, <1>7 DEF Distinct
  <2> QED BY <1>1, <1>2, <2>1, <2>2 DEF Distinct, Range
<1> QED BY <1>1, <1>4, <1>5, <1>6, <1>7 DEF t, h

(* g adds up the prefixes of s up to length n.                             *)
TotalTo(g, s, n) == g = [i \in 0 .. n |-> IF i = 0 THEN 0 ELSE g[i - 1] + s[i]]

(* There is such a function for every length.                              *)
LEMMA TotalExists ==
    ASSUME NEW s, NEW n \in Nat
    PROVE  \E g : TotalTo(g, s, n)
<1> DEFINE S == {m \in Nat : \E g : TotalTo(g, s, m)}
<1>1. 0 \in S
  <2>1. TotalTo([i \in 0 .. 0 |-> 0], s, 0)
    BY DEF TotalTo
  <2> QED BY <2>1
<1>2. ASSUME NEW m \in Nat, m \in S PROVE m + 1 \in S
  <2>1. PICK g : TotalTo(g, s, m)
    BY <1>2
  <2> DEFINE h == [i \in 0 .. m + 1 |-> IF i <= m THEN g[i] ELSE g[m] + s[i]]
  <2>2. \A i \in 0 .. m : g[i] = IF i = 0 THEN 0 ELSE g[i - 1] + s[i]
    BY <2>1 DEF TotalTo
  <2>3. \A i \in 0 .. m + 1 : h[i] = IF i = 0 THEN 0 ELSE h[i - 1] + s[i]
    BY <2>2
  <2>4. TotalTo(h, s, m + 1)
    <3>1. h = [i \in 0 .. m + 1 |-> h[i]]
      OBVIOUS
    <3> HIDE DEF h
    <3> QED BY <2>3, <3>1 DEF TotalTo
  <2> QED BY <2>4
<1> HIDE DEF S
<1>3. n \in S
  BY <1>1, <1>2, SetInduction
<1> QED BY <1>3 DEF S

(* The prefix sums of a sequence: where they start, how they go on, and that
   Total is the last of them.                                              *)
LEMMA TotalSums ==
    ASSUME NEW A, NEW s \in Seq(A)
    PROVE  \E g : /\ g[0] = 0 /\ Total(s) = g[Len(s)]
                  /\ \A i \in Nat : i + 1 <= Len(s) => g[i + 1] = g[i] + s[i + 1]
<1> DEFINE N == Len(s)
           g == CHOOSE x : TotalTo(x, s, N)
<1>1. N \in Nat
  OBVIOUS
<1>2. TotalTo(g, s, N)
  BY <1>1, TotalExists
<1>3. Total(s) = g[N]
  BY DEF Total, TotalTo
<1> HIDE DEF g
<1>4. \A i \in 0 .. N : g[i] = IF i = 0 THEN 0 ELSE g[i - 1] + s[i]
  BY <1>1, <1>2 DEF TotalTo
<1>5. g[0] = 0
  BY <1>1, <1>4
<1>6. ASSUME NEW i \in Nat, i + 1 <= N PROVE g[i + 1] = g[i] + s[i + 1]
  <2>1. PICK n \in 0 .. N : n = i + 1 /\ n # 0 /\ n - 1 = i
    BY <1>1, <1>6
  <2>2. g[n] = g[n - 1] + s[n]
    BY <1>4, <2>1
  <2>3. g[n] = g[i] + s[n]
    BY <2>1, <2>2
  <2> QED BY <2>1, <2>3
<1> QED BY <1>3, <1>5, <1>6

(* The sum of integers is an integer.                                      *)
LEMMA TotalInt ==
    ASSUME NEW s \in Seq(Int)
    PROVE  Total(s) \in Int
<1>1. PICK g : /\ g[0] = 0 /\ Total(s) = g[Len(s)]
               /\ \A i \in Nat : i + 1 <= Len(s) => g[i + 1] = g[i] + s[i + 1]
  BY TotalSums
<1> DEFINE S == {n \in Nat : n <= Len(s) => g[n] \in Int}
<1>2. 0 \in S
  BY <1>1
<1>3. ASSUME NEW n \in Nat, n \in S PROVE n + 1 \in S
  <2>1. n + 1 <= Len(s) => s[n + 1] \in Int /\ n <= Len(s)
    OBVIOUS
  <2> QED BY <1>1, <1>3, <2>1
<1> HIDE DEF S
<1>4. \A n \in Nat : n \in S
  BY <1>2, <1>3, SetInduction
<1>5. Len(s) \in S
  BY <1>4
<1> QED BY <1>1, <1>5 DEF S

(* Two sequences that differ in one place: the sums differ by as much.     *)
LEMMA TotalChange ==
    ASSUME NEW a \in Seq(Int), NEW b \in Seq(Int), Len(a) = Len(b), NEW p \in 1 .. Len(a),
           \A i \in 1 .. Len(a) : i # p => a[i] = b[i]
    PROVE  Total(a) = Total(b) + (a[p] - b[p])
<1>1. PICK g : /\ g[0] = 0 /\ Total(a) = g[Len(a)]
               /\ \A i \in Nat : i + 1 <= Len(a) => g[i + 1] = g[i] + a[i + 1]
  BY TotalSums
<1>2. PICK h : /\ h[0] = 0 /\ Total(b) = h[Len(b)]
               /\ \A i \in Nat : i + 1 <= Len(b) => h[i + 1] = h[i] + b[i + 1]
  BY TotalSums
<1> DEFINE L == Len(a)
           D == a[p] - b[p]
           S == {n \in Nat : n <= L => /\ h[n] \in Int
                                       /\ g[n] = IF n < p THEN h[n] ELSE h[n] + D}
<1>3. L \in Nat /\ D \in Int /\ p \in Nat /\ 1 <= p /\ p <= L /\ L = Len(a) /\ L = Len(b)
  OBVIOUS
<1>4. \A i \in Nat : i + 1 <= L => /\ a[i + 1] \in Int /\ b[i + 1] \in Int
                                   /\ i + 1 # p => a[i + 1] = b[i + 1]
                                   /\ i + 1 = p => a[i + 1] = b[i + 1] + D
  <2> SUFFICES ASSUME NEW i \in Nat, i + 1 <= L
               PROVE  /\ a[i + 1] \in Int /\ b[i + 1] \in Int
                      /\ i + 1 # p => a[i + 1] = b[i + 1]
                      /\ i + 1 = p => a[i + 1] = b[i + 1] + D
    OBVIOUS
  <2>1. i + 1 \in 1 .. Len(a) /\ i + 1 \in 1 .. Len(b)
    BY <1>3
  <2>2. a[i + 1] \in Int /\ b[i + 1] \in Int
    BY <2>1
  <2>3. ASSUME i + 1 = p PROVE a[i + 1] = b[i + 1] + D
    <3>1. PICK x \in Int, y \in Int : x = a[i + 1] /\ y = b[i + 1] /\ D = x - y
      BY <2>2, <2>3
    <3> HIDE DEF D
    <3>2. x = y + (x - y)
      OBVIOUS
    <3>3. x = y + D
      BY <3>1, <3>2
    <3> QED BY <3>1, <3>3, Zenon
  <2> QED BY <2>1, <2>2, <2>3
<1> HIDE DEF L, D
<1>5. 0 \in S
  BY <1>1, <1>2, <1>3
<1>6. ASSUME NEW n \in Nat, n \in S PROVE n + 1 \in S
  <2> SUFFICES ASSUME n + 1 <= L
               PROVE  /\ h[n + 1] \in Int
                      /\ g[n + 1] = IF n + 1 < p THEN h[n + 1] ELSE h[n + 1] + D
    OBVIOUS
  <2>1. PICK x \in Int, y \in Int : x = a[n + 1] /\ y = b[n + 1]
    BY <1>4
  <2>2. PICK u \in Int : u = h[n]
    BY <1>3, <1>6
  <2>3. g[n] = IF n < p THEN u ELSE u + D
    BY <1>3, <1>6, <2>2
  <2>4. h[n + 1] = u + y /\ g[n + 1] = g[n] + x
    BY <1>1, <1>2, <1>3, <2>1, <2>2
  <2>5. n + 1 # p => x = y
    BY <1>4, <2>1
  <2>6. n + 1 = p => x = y + D
    BY <1>4, <2>1
  <2>7. h[n + 1] \in Int
    BY <2>4
  <2>8. CASE n + 1 < p
    <3>1. n < p /\ n + 1 # p
      BY <1>3, <2>8
    <3> QED BY <2>3, <2>4, <2>5, <2>7, <2>8, <3>1
  <2>9. CASE n + 1 = p
    <3>1. n < p /\ ~(n + 1 < p)
      BY <1>3, <2>9
    <3>2. g[n + 1] = u + (y + D)
      BY <2>3, <2>4, <2>6, <2>9, <3>1
    <3>3. u + (y + D) = (u + y) + D
      BY <1>3
    <3> QED BY <2>4, <2>7, <3>1, <3>2, <3>3
  <2>10. CASE ~(n + 1 < p) /\ n + 1 # p
    <3>1. ~(n < p)
      BY <1>3, <2>10
    <3>2. g[n + 1] = (u + D) + y
      BY <2>3, <2>4, <2>5, <2>10, <3>1
    <3>3. (u + D) + y = (u + y) + D
      BY <1>3
    <3> QED BY <2>4, <2>7, <2>10, <3>2, <3>3
  <2> QED BY <2>8, <2>9, <2>10
<1> HIDE DEF S
<1>7. \A n \in Nat : n \in S
  BY <1>5, <1>6, SetInduction
<1>8. L \in S
  BY <1>3, <1>7
<1> QED BY <1>1, <1>2, <1>3, <1>8 DEF S, D

(* One more number at the end.                                             *)
LEMMA TotalAppend ==
    ASSUME NEW s \in Seq(Int), NEW x \in Int
    PROVE  Total(Append(s, x)) = Total(s) + x
<1> DEFINE a == Append(s, x)
           L == Len(s)
<1>1. /\ a \in Seq(Int) /\ Len(a) = L + 1 /\ L \in Nat /\ a[L + 1] = x
      /\ \A i \in 1 .. L : a[i] = s[i] /\ s[i] \in Int
  BY AppendProperties
<1> HIDE DEF a
<1>2. PICK g : /\ g[0] = 0 /\ Total(s) = g[Len(s)]
               /\ \A i \in Nat : i + 1 <= Len(s) => g[i + 1] = g[i] + s[i + 1]
  BY TotalSums
<1>3. PICK h : /\ h[0] = 0 /\ Total(a) = h[Len(a)]
               /\ \A i \in Nat : i + 1 <= Len(a) => h[i + 1] = h[i] + a[i + 1]
  BY <1>1, TotalSums
<1> DEFINE S == {n \in Nat : n <= L => g[n] \in Int /\ h[n] = g[n]}
<1>4. L = Len(s)
  OBVIOUS
<1> HIDE DEF L
<1>5. 0 \in S
  BY <1>2, <1>3
<1>6. ASSUME NEW n \in Nat, n \in S PROVE n + 1 \in S
  <2> SUFFICES ASSUME n + 1 <= L PROVE g[n + 1] \in Int /\ h[n + 1] = g[n + 1]
    OBVIOUS
  <2>1. n + 1 \in 1 .. L /\ n <= L /\ n + 1 <= L + 1
    BY <1>1
  <2>2. PICK y \in Int : y = s[n + 1] /\ y = a[n + 1]
    BY <1>1, <2>1
  <2>3. PICK u \in Int : u = g[n] /\ u = h[n]
    BY <1>6, <2>1
  <2>4. g[n + 1] = u + y /\ h[n + 1] = u + y
    BY <1>1, <1>2, <1>3, <1>4, <2>1, <2>2, <2>3
  <2> QED BY <2>4
<1> HIDE DEF S
<1>7. \A n \in Nat : n \in S
  BY <1>5, <1>6, SetInduction
<1>8. g[L] \in Int /\ h[L] = g[L]
  BY <1>1, <1>7 DEF S
<1>9. h[L + 1] = h[L] + x
  BY <1>1, <1>3
<1> QED BY <1>1, <1>2, <1>3, <1>4, <1>8, <1>9 DEF a

(* The weights w of the elements of s.                                     *)
Weights(w, s) == [i \in 1 .. Len(s) |-> w[s[i]]]

(* The same, when what is not in T counts for nothing.                     *)
WeightsIn(w, s, T) == [i \in 1 .. Len(s) |-> IF s[i] \in T THEN w[s[i]] ELSE 0]

(* What Keep keeps weighs as much as s when all else counts for nothing.   *)
LEMMA KeepTotal ==
    ASSUME NEW A, NEW s \in Seq(A), NEW w \in [A -> Int], NEW T
    PROVE  Total(Weights(w, Keep(s, T))) = Total(WeightsIn(w, s, T))
<1> DEFINE L == Len(s)
           c == WeightsIn(w, s, T)
           g == CHOOSE x : KeepTo(x, s, T, L)
<1>1. L \in Nat /\ L = Len(s)
  OBVIOUS
<1>2. KeepTo(g, s, T, L)
  BY <1>1, KeepExists
<1>3. Keep(s, T) = g[L]
  BY DEF Keep, KeepTo
<1>4. c \in Seq(Int) /\ Len(c) = L /\ \A i \in 1 .. L : c[i] = IF s[i] \in T THEN w[s[i]] ELSE 0
  BY DEF WeightsIn
<1>5. \A i \in 1 .. L : s[i] \in A
  OBVIOUS
<1> HIDE DEF g, c, L
<1>6. g[0] = <<>> /\ \A i \in Nat : i + 1 <= L =>
          g[i + 1] = IF s[i + 1] \in T THEN Append(g[i], s[i + 1]) ELSE g[i]
  <2>1. \A i \in 0 .. L : g[i] = IF i = 0 THEN <<>>
          ELSE IF s[i] \in T THEN Append(g[i - 1], s[i]) ELSE g[i - 1]
    BY <1>1, <1>2 DEF KeepTo
  <2>2. g[0] = <<>>
    BY <1>1, <2>1
  <2>3. ASSUME NEW i \in Nat, i + 1 <= L
        PROVE  g[i + 1] = IF s[i + 1] \in T THEN Append(g[i], s[i + 1]) ELSE g[i]
    <3>1. PICK n \in 0 .. L : n = i + 1 /\ n # 0 /\ n - 1 = i
      BY <1>1, <2>3
    <3>2. g[n] = IF s[n] \in T THEN Append(g[n - 1], s[n]) ELSE g[n - 1]
      BY <2>1, <3>1
    <3> QED BY <3>1, <3>2
  <2> QED BY <2>2, <2>3
<1>7. PICK h : /\ h[0] = 0 /\ Total(c) = h[Len(c)]
               /\ \A i \in Nat : i + 1 <= Len(c) => h[i + 1] = h[i] + c[i + 1]
  BY <1>4, TotalSums
<1> DEFINE S == {n \in Nat : n <= L => /\ g[n] \in Seq(A) /\ h[n] \in Int
                                       /\ Total(Weights(w, g[n])) = h[n]}
<1>8. 0 \in S
  <2>1. <<>> \in Seq(A) /\ Weights(w, <<>>) = <<>>
    BY DEF Weights
  <2>2. Total(<<>>) = 0
    <3>1. PICK t : t[0] = 0 /\ Total(<<>>) = t[Len(<<>>)]
      <4>1. <<>> \in Seq(Int)
        OBVIOUS
      <4> QED BY <4>1, TotalSums
    <3> QED BY <3>1
  <2>3. g[0] \in Seq(A) /\ h[0] \in Int /\ Total(Weights(w, g[0])) = h[0]
    BY <1>6, <1>7, <2>1, <2>2
  <2> QED BY <2>3
<1>9. ASSUME NEW n \in Nat, n \in S PROVE n + 1 \in S
  <2> SUFFICES ASSUME n + 1 <= L
               PROVE  /\ g[n + 1] \in Seq(A) /\ h[n + 1] \in Int
                      /\ Total(Weights(w, g[n + 1])) = h[n + 1]
    OBVIOUS
  <2>1. n + 1 \in 1 .. L /\ n <= L
    BY <1>1
  <2>2. PICK k \in Seq(A), u \in Int : k = g[n] /\ u = h[n] /\ Total(Weights(w, k)) = u
    BY <1>9, <2>1
  <2>3. PICK x \in A : x = s[n + 1]
    BY <1>5, <2>1
  <2>4. h[n + 1] = u + c[n + 1]
    BY <1>4, <1>7, <2>2
  <2>5. w[x] \in Int
    OBVIOUS
  <2>6. CASE x \in T
    <3>1. g[n + 1] = Append(k, x) /\ c[n + 1] = w[x]
      BY <1>4, <1>6, <2>1, <2>2, <2>3, <2>6
    <3>2. Append(k, x) \in Seq(A) /\ Weights(w, k) \in Seq(Int)
      BY DEF Weights
    <3>3. Weights(w, Append(k, x)) = Append(Weights(w, k), w[x])
      BY DEF Weights
    <3>4. Total(Append(Weights(w, k), w[x])) = Total(Weights(w, k)) + w[x]
      BY <2>5, <3>2, TotalAppend
    <3>5. u + w[x] \in Int
      BY <2>5
    <3> QED BY <2>2, <2>4, <3>1, <3>2, <3>3, <3>4, <3>5
  <2>7. CASE x \notin T
    <3>1. g[n + 1] = k /\ c[n + 1] = 0
      BY <1>4, <1>6, <2>1, <2>2, <2>3, <2>7
    <3>2. h[n + 1] = u
      BY <2>4, <3>1
    <3> QED BY <2>2, <3>1, <3>2
  <2> QED BY <2>6, <2>7
<1> HIDE DEF S
<1>10. \A n \in Nat : n \in S
  BY <1>8, <1>9, SetInduction
<1>11. L \in S
  BY <1>1, <1>10
<1>12. Total(Weights(w, g[L])) = h[L]
  BY <1>1, <1>11 DEF S
<1> QED BY <1>3, <1>4, <1>7, <1>12 DEF c

(* Keeping one element less of a sequence without repetitions takes its weight
   away, ...                                                               *)
LEMMA KeepOneLess ==
    ASSUME NEW A, NEW s \in Seq(A), Distinct(s), NEW w \in [A -> Int], NEW T,
           NEW x \in Range(s) \cap T, NEW U, U = T \ {x}
    PROVE  Total(Weights(w, Keep(s, T))) = Total(Weights(w, Keep(s, U))) + w[x]
<1> DEFINE a == WeightsIn(w, s, T)
           b == WeightsIn(w, s, U)
<1>1. /\ a \in Seq(Int) /\ b \in Seq(Int) /\ Len(a) = Len(s) /\ Len(b) = Len(s)
      /\ \A i \in 1 .. Len(s) : /\ a[i] = IF s[i] \in T THEN w[s[i]] ELSE 0
                                /\ b[i] = IF s[i] \in U THEN w[s[i]] ELSE 0
  BY DEF WeightsIn
<1>2. PICK p \in 1 .. Len(s) : s[p] = x
  BY DEF Range
<1>3. \A i \in 1 .. Len(s) : i # p => s[i] # x
  BY <1>2 DEF Distinct
<1>4. Total(Weights(w, Keep(s, T))) = Total(a)
  BY KeepTotal
<1>5. Total(Weights(w, Keep(s, U))) = Total(b)
  BY KeepTotal
<1>6. x \in A /\ w[x] \in Int
  BY <1>2
<1> HIDE DEF a, b
<1>7. a[p] = w[x] /\ b[p] = 0
  BY <1>1, <1>2
<1>8. \A i \in 1 .. Len(a) : i # p => a[i] = b[i]
  BY <1>1, <1>3
<1>9. Total(a) = Total(b) + (a[p] - b[p])
  BY <1>1, <1>8, TotalChange
<1>10. Total(a) = Total(b) + w[x]
  BY <1>6, <1>7, <1>9
<1> QED BY <1>4, <1>5, <1>10

(* ... and keeping all of it nothing.                                      *)
LEMMA KeepAllTotal ==
    ASSUME NEW A, NEW s \in Seq(A), NEW w \in [A -> Int], NEW T, Range(s) \subseteq T
    PROVE  Total(Weights(w, Keep(s, T))) = Total(Weights(w, s))
<1>1. \A i \in 1 .. Len(s) : s[i] \in T
  BY DEF Range
<1>2. WeightsIn(w, s, T) = Weights(w, s)
  BY <1>1 DEF Weights, WeightsIn
<1> QED BY <1>2, KeepTotal
=============================================================================
