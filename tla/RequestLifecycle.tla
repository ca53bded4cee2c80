-------------------------- MODULE RequestLifecycle --------------------------
(***************************************************************************)
(* What a caller of submit() is promised about each request, whatever the  *)
(* batch around it does.  A request is accepted or rejected, once.  An     *)
(* accepted text request emits at most its max_tokens tokens, then is      *)
(* given one finish reason, which agrees with what was emitted and never   *)
(* changes; only then is its stream closed, and a closed stream emits      *)
(* nothing.  The caller receives the emitted tokens and learns of the end  *)
(* after the last of them.                                                 *)
(***************************************************************************)
EXTENDS Naturals

CONSTANTS
    Request,
    MaxTokens,    \* per request: max_tokens
    Generates     \* the requests that generate tokens (not embeddings)

VARIABLES
    phase,        \* "new", "rejected", "open" or "closed"
    emitted,      \* tokens emitted
    received,     \* tokens received by the caller
    why,          \* finish reason, "" while undecided
    told          \* the caller was told that the stream is over

lcVars == <<phase, emitted, received, why, told>>

Init ==
    /\ phase = [r \in Request |-> "new"]
    /\ emitted = [r \in Request |-> 0]
    /\ received = [r \in Request |-> 0]
    /\ why = [r \in Request |-> ""]
    /\ told = [r \in Request |-> FALSE]

Accept(r) ==
    /\ phase[r] = "new"
    /\ phase' = [phase EXCEPT ![r] = "open"]
    /\ UNCHANGED <<emitted, received, why, told>>

Reject(r) ==
    /\ phase[r] = "new"
    /\ phase' = [phase EXCEPT ![r] = "rejected"]
    /\ UNCHANGED <<emitted, received, why, told>>

(* A token; the last allowed one may decide the reason in the same step.   *)
Emit(r) ==
    /\ r \in Generates
    /\ phase[r] = "open" /\ why[r] = ""
    /\ emitted[r] < MaxTokens[r]
    /\ emitted' = [emitted EXCEPT ![r] = @ + 1]
    /\ \/ UNCHANGED why
       \/ /\ emitted[r] + 1 = MaxTokens[r]
          /\ why' = [why EXCEPT ![r] = "length"]
    /\ UNCHANGED <<phase, received, told>>

(* The reasons possible for what was emitted.                              *)
Reason(r) ==
    IF r \notin Generates THEN {"embed", "error"}
    ELSE (IF emitted[r] < MaxTokens[r] THEN {"stop", "cancel"} ELSE {"length"})
         \cup (IF emitted[r] = 0 THEN {"error"} ELSE {})

Decide(r) ==
    /\ phase[r] = "open" /\ why[r] = ""
    /\ \E w \in Reason(r) : why' = [why EXCEPT ![r] = w]
    /\ UNCHANGED <<phase, emitted, received, told>>

Close(r) ==
    /\ phase[r] = "open" /\ why[r] # ""
    /\ phase' = [phase EXCEPT ![r] = "closed"]
    /\ UNCHANGED <<emitted, received, why, told>>

Deliver(r) ==
    /\ received[r] < emitted[r]
    /\ received' = [received EXCEPT ![r] = @ + 1]
    /\ UNCHANGED <<phase, emitted, why, told>>

Tell(r) ==
    /\ phase[r] = "closed"
    /\ received[r] = emitted[r]
    /\ told' = [told EXCEPT ![r] = TRUE]
    /\ UNCHANGED <<phase, emitted, received, why>>

Next ==
    \E r \in Request :
        \/ Accept(r)
        \/ Reject(r)
        \/ Emit(r)
        \/ Decide(r)
        \/ Close(r)
        \/ Deliver(r)
        \/ Tell(r)

Spec == Init /\ [][Next]_lcVars
=============================================================================
