----------------------------- MODULE Scheduler -----------------------------
(***************************************************************************)
(* The waiting queue between the submitting threads and the worker:        *)
(* src/src/scheduler/scheduler.{h,cpp}.                                    *)
(*                                                                         *)
(* As in SpscQueue, one step is one stretch of code under the mutex, and a *)
(* thread inside cv_.wait sleeps until a notify or a spurious wakeup.      *)
(* submit() and stop() notify after the unlock, in a step of their own.    *)
(* Each request is submitted by a thread of its own, once.                 *)
(***************************************************************************)
EXTENDS Naturals, Sequences

CONSTANTS
    Request,      \* the requests, each with its submitting thread
    MaxWaiting,   \* max_waiting_ (0 = unbounded)
    MaxTake       \* the largest max the worker passes to take_waiting

ASSUME MaxWaitingAssumption == MaxWaiting \in Nat
ASSUME MaxTakeAssumption == MaxTake \in Nat

VARIABLES
    waiting,      \* waiting_
    stop,         \* stop_
    worker,       \* "run" outside next_waiting, its wait, or "exited"
    submitter,    \* how far each submit() got
    stopper,      \* how far stop() got
    accepted,     \* history: requests enqueued, in order
    taken,        \* history: requests handed to the worker, in order
    late          \* history: requests enqueued when stop_ was already set

vars == <<waiting, stop, worker, submitter, stopper, accepted, taken, late>>

TypeOK ==
    /\ waiting \in Seq(Request)
    /\ stop \in BOOLEAN
    /\ worker \in {"run", "asleep", "awake", "exited"}
    /\ submitter \in [Request -> {"new", "notify", "accepted", "rejected"}]
    /\ stopper \in {"run", "notify", "done"}
    /\ accepted \in Seq(Request)
    /\ taken \in Seq(Request)
    /\ late \subseteq Request

Init ==
    /\ waiting = <<>>
    /\ stop = FALSE
    /\ worker = "run"
    /\ submitter = [r \in Request |-> "new"]
    /\ stopper = "run"
    /\ accepted = <<>>
    /\ taken = <<>>
    /\ late = {}

(* A slip: one request more than max_waiting_ is let in.                    *)
FullOffByOne == MaxWaiting > 0 /\ Len(waiting) > MaxWaiting

Full == MaxWaiting > 0 /\ Len(waiting) >= MaxWaiting

WorkerNotified == IF worker = "asleep" THEN "awake" ELSE worker

-----------------------------------------------------------------------------
(* submit(): reject when full, else enqueue; stop_ is not consulted.       *)
SubmitRejected(r) ==
    /\ submitter[r] = "new"
    /\ Full
    /\ submitter' = [submitter EXCEPT ![r] = "rejected"]
    /\ UNCHANGED <<waiting, stop, worker, stopper, accepted, taken, late>>

SubmitEnqueue(r) ==
    /\ submitter[r] = "new"
    /\ ~Full
    /\ waiting' = Append(waiting, r)
    /\ accepted' = Append(accepted, r)
    /\ late' = IF stop THEN late \cup {r} ELSE late
    /\ submitter' = [submitter EXCEPT ![r] = "notify"]
    /\ UNCHANGED <<stop, worker, stopper, taken>>

(* A slip: submit() returns without notifying.                              *)
SubmitSilently(r) ==
    /\ submitter[r] = "notify"
    /\ submitter' = [submitter EXCEPT ![r] = "accepted"]
    /\ UNCHANGED <<waiting, stop, worker, stopper, accepted, taken, late>>

SubmitNotify(r) ==
    /\ submitter[r] = "notify"
    /\ submitter' = [submitter EXCEPT ![r] = "accepted"]
    /\ worker' = WorkerNotified
    /\ UNCHANGED <<waiting, stop, stopper, accepted, taken, late>>

(* A slip in next_waiting(): a stop leaves the backlog behind.             *)
NextEndsAtStop ==
    \/ /\ stop
       /\ worker' = "exited"
       /\ UNCHANGED <<waiting, taken>>
    \/ /\ ~stop
       /\ waiting # <<>>
       /\ taken' = Append(taken, Head(waiting))
       /\ waiting' = Tail(waiting)
       /\ worker' = "run"

(* next_waiting(), from taking the mutex: wait while there is nothing and no
   stop; nullptr (the worker's loop ends) if there is still nothing.       *)
NextWaitingBody ==
    \/ /\ waiting = <<>>
       /\ ~stop
       /\ worker' = "asleep"
       /\ UNCHANGED <<waiting, taken>>
    \/ /\ waiting = <<>>
       /\ stop
       /\ worker' = "exited"
       /\ UNCHANGED <<waiting, taken>>
    \/ /\ waiting # <<>>
       /\ taken' = Append(taken, Head(waiting))
       /\ waiting' = Tail(waiting)
       /\ worker' = "run"

NextWaiting ==
    /\ worker = "run"
    /\ NextWaitingBody
    /\ UNCHANGED <<stop, submitter, stopper, accepted, late>>

NextWaitingResume ==
    /\ worker = "awake"
    /\ NextWaitingBody
    /\ UNCHANGED <<stop, submitter, stopper, accepted, late>>

(* take_waiting(max): whatever is ready, up to max, without blocking.      *)
Least(m, n) == IF m <= n THEN m ELSE n

TakeWaiting(max) ==
    /\ worker = "run"
    /\ LET n == Least(max, Len(waiting))
       IN  /\ taken' = taken \o SubSeq(waiting, 1, n)
           /\ waiting' = SubSeq(waiting, n + 1, Len(waiting))
    /\ UNCHANGED <<stop, worker, submitter, stopper, accepted, late>>

(* stop(): the flag, then notify_all outside the mutex.                    *)
StopFlag ==
    /\ stopper = "run"
    /\ stop' = TRUE
    /\ stopper' = "notify"
    /\ UNCHANGED <<waiting, worker, submitter, accepted, taken, late>>

(* A slip: stop() sets the flag and does not notify.                        *)
StopSilently ==
    /\ stopper = "notify"
    /\ stopper' = "done"
    /\ UNCHANGED <<waiting, stop, worker, submitter, accepted, taken, late>>

StopNotify ==
    /\ stopper = "notify"
    /\ stopper' = "done"
    /\ worker' = WorkerNotified
    /\ UNCHANGED <<waiting, stop, submitter, accepted, taken, late>>

SpuriousWake ==
    /\ worker = "asleep"
    /\ worker' = "awake"
    /\ UNCHANGED <<waiting, stop, submitter, stopper, accepted, taken, late>>

Submit(r) == SubmitRejected(r) \/ SubmitEnqueue(r) \/ SubmitNotify(r)

(* Every thread has run to its end: the only state without a further step. *)
Finished ==
    /\ worker = "exited"
    /\ \A r \in Request : submitter[r] \in {"accepted", "rejected"}
    /\ stopper = "done"
    /\ UNCHANGED vars

Next ==
    \/ \E r \in Request : Submit(r)
    \/ NextWaiting
    \/ NextWaitingResume
    \/ \E max \in 0 .. MaxTake : TakeWaiting(max)
    \/ StopFlag
    \/ StopNotify
    \/ SpuriousWake
    \/ Finished

Spec == Init /\ [][Next]_vars

(* A submit or stop that began is finished, and the worker comes back to
   next_waiting whenever its batch is empty.  Starting a submit or a stop,
   taking extra requests and spurious wakeups are not assumed.             *)
FairSpec ==
    /\ Spec
    /\ \A r \in Request : WF_vars(SubmitNotify(r))
    /\ WF_vars(StopNotify)
    /\ WF_vars(NextWaiting)
    /\ WF_vars(NextWaitingResume)

-----------------------------------------------------------------------------
(* No wakeup is lost: a worker asleep in next_waiting (scheduler.cpp:25) has
   nothing to take, or the submitter of what is there is about to notify;
   and a stop it has not seen is about to notify it.                       *)
WorkerSleepsOnlyWhenIdle ==
    worker = "asleep" =>
        /\ waiting = <<>> \/ \E r \in Request : submitter[r] = "notify"
        /\ ~stop \/ stopper = "notify"

(* Requests reach the worker in submission order, each once, none lost, and
   the backlog respects max_waiting_ (scheduler.cpp:10).                   *)
LosslessFifo ==
    /\ accepted = taken \o waiting
    /\ MaxWaiting > 0 => Len(waiting) <= MaxWaiting

(* nullptr means stopping and drained (scheduler.cpp:26): when the worker's
   loop is over, all that is left behind was submitted after stop().       *)
ExitOnlyWhenDrained ==
    worker = "exited" =>
        /\ stop
        /\ \A i \in 1 .. Len(waiting) : waiting[i] \in late

(* A request accepted before stop() is handed to the worker, even when the
   stop overtakes its notify.                                              *)
EarlyRequestIsTaken ==
    \A r \in Request :
        (submitter[r] \in {"notify", "accepted"} /\ r \notin late) ~>
            (\E i \in 1 .. Len(taken) : taken[i] = r)

(* stop() ends the worker's loop, however it interleaves with its sleep.   *)
StopEndsWorker == stop ~> (worker = "exited")
=============================================================================
