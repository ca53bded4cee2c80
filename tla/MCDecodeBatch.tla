--------------------------- MODULE MCDecodeBatch ---------------------------
(***************************************************************************)
(* Prompts of different lengths, on an axis that grows by two or three     *)
(* slots, so that a few tokens make the batch grow, trim its tail and      *)
(* shift.  Tokens are shared between prompts: a slot read from the wrong   *)
(* row or the wrong column does not look right by accident.                *)
(***************************************************************************)
EXTENDS DecodeBatch

Prompts ==
    [a1 |-> <<"a">>, a3 |-> <<"a", "b", "a">>, a5 |-> <<"b", "a", "b", "a", "b">>,
     im |-> <<"v", "v", "v", "b">>,
     w4 |-> <<"a", "b", "c", "d">>, w3 |-> <<"a", "b", "c">>, x4 |-> <<"a", "b", "e", "f">>]

(* The image prompt has four tokens, whose positions stop at 1.            *)
ImageOffsets == [im |-> 2]

(* A vision model with chunked and with monolithic prefill, and a text model
   with a prefix cache, monolithic and chunked.  The three warm prompts share
   their first block, two of them half of the second; the pool takes two
   blocks.                                                                 *)
Engines ==
    { [prefillChunk |-> 2, blockSize |-> 0, poolBytes |-> 0, serves |-> {"a1", "a3", "a5", "im"}],
      [prefillChunk |-> 0, blockSize |-> 0, poolBytes |-> 0, serves |-> {"a1", "a3", "a5", "im"}],
      [prefillChunk |-> 0, blockSize |-> 2, poolBytes |-> 5, serves |-> {"w3", "w4", "x4"}],
      [prefillChunk |-> 2, blockSize |-> 2, poolBytes |-> 5, serves |-> {"w3", "w4", "x4", "a1"}] }

(* A hybrid (Qwen3.5) model serves text only, without a prefix cache.      *)
HybridEngines ==
    { [prefillChunk |-> 2, blockSize |-> 0, poolBytes |-> 0, serves |-> {"a1", "a3", "w4"}] }
=============================================================================
