--------------------------- MODULE MCBlockStore ---------------------------
(***************************************************************************)
(* Two models share a spill directory and one key of each collides.        *)
(***************************************************************************)
EXTENDS BlockStore, TLC

CONSTANTS a, b, c, m1, m2

MCHashOf == m1 :> (a :> "k1" @@ b :> "k2" @@ c :> "k3") @@ m2 :> (a :> "k4" @@ b :> "k1" @@ c :> "k5")
MCSize == a :> 1 @@ b :> 1 @@ c :> 2
=============================================================================
