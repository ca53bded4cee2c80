---------------------------- MODULE MCScheduler ----------------------------
(***************************************************************************)
(* Three submitting threads, one more than the waiting queue takes.  The   *)
(* histories record order, so the requests are not interchangeable for     *)
(* the liveness properties and no symmetry is declared.                    *)
(***************************************************************************)
EXTENDS Scheduler
=============================================================================
