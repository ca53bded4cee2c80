------------------------------- MODULE SeqOps -------------------------------
(***************************************************************************)
(* Two operators on sequences that the models share and the proofs reason  *)
(* about, each a recursive function over the prefixes of its argument.     *)
(***************************************************************************)
EXTENDS Integers, Sequences

(* The elements of s that are in T, in their order.                        *)
Keep(s, T) ==
    LET kept[n \in 0 .. Len(s)] ==
          IF n = 0 THEN <<>>
          ELSE IF s[n] \in T THEN Append(kept[n - 1], s[n]) ELSE kept[n - 1]
    IN  kept[Len(s)]

(* The sum of a sequence of numbers.                                       *)
Total(s) ==
    LET sum[n \in 0 .. Len(s)] == IF n = 0 THEN 0 ELSE sum[n - 1] + s[n]
    IN  sum[Len(s)]
=============================================================================
