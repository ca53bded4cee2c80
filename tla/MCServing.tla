----------------------------- MODULE MCServing -----------------------------
(***************************************************************************)
(* Small mixes of requests for the serving loop.                           *)
(***************************************************************************)
EXTENDS Serving, TLC

CONSTANTS r1, r2, r3

AJob(kind, api, lp, max, prompt) ==
    [kind |-> kind, api |-> api, logprobs |-> lp, maxTokens |-> max, prompt |-> prompt]

(* Two C ABI streams, one with log-probs, that outgrow their queues, and an
   event stream that may break off.                                        *)
StreamJobs ==
    r1 :> AJob("text", "capi", TRUE, 3, 2)
    @@ r2 :> AJob("text", "sse", FALSE, 1, 1)
    @@ r3 :> AJob("text", "blocking", FALSE, 2, 1)

(* One request of each kind: a C ABI stream that outgrows its queue and may
   be cancelled or freed, an image event stream that may break off and fits
   the queue nobody may be reading, and an embedding.                      *)
MixedJobs ==
    r1 :> AJob("text", "capi", TRUE, 2, 2)
    @@ r2 :> AJob("vision", "sse", FALSE, 1, 1)
    @@ r3 :> AJob("embed", "blocking", FALSE, 1, 1)

(* A C ABI stream that may be cancelled or freed and an event stream that may
   break off; no request outgrows the queue nobody may be reading.         *)
LiveJobs ==
    r1 :> AJob("text", "capi", TRUE, 3, 2)
    @@ r2 :> AJob("text", "sse", FALSE, 1, 1)

(* An image request that asks for log-probs through the C ABI.             *)
VisionLogprobJobs ==
    r1 :> AJob("vision", "capi", TRUE, 3, 1)
    @@ r2 :> AJob("text", "blocking", FALSE, 1, 1)

(* An event stream longer than its queue.                                  *)
LongSseJobs ==
    r1 :> AJob("text", "sse", FALSE, 3, 1)
    @@ r2 :> AJob("text", "blocking", FALSE, 1, 1)
=============================================================================
