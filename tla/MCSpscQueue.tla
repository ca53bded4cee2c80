---------------------------- MODULE MCSpscQueue ----------------------------
(***************************************************************************)
(* Two item values and one push more than twice the capacity: the queue    *)
(* fills, drains and fills again, and two values are enough to tell one    *)
(* order of a FIFO from another.                                           *)
(***************************************************************************)
EXTENDS SpscQueue

CONSTANTS tokA, tokB

MCItem == {tokA, tokB}
=============================================================================
