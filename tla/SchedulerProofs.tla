-------------------------- MODULE SchedulerProofs --------------------------
(***************************************************************************)
(* The scheduler loses no request and no wakeup, for every set of requests *)
(* and every bound.                                                        *)
(***************************************************************************)
EXTENDS Scheduler, SeqLemmas

(* The flag and stop()'s progress agree.                                   *)
StopperAgrees == stop <=> stopper # "run"

IInv ==
    /\ TypeOK
    /\ StopperAgrees
    /\ LosslessFifo
    /\ WorkerSleepsOnlyWhenIdle
    /\ ExitOnlyWhenDrained

(* The initial state satisfies the inductive invariant.                    *)
LEMMA InitIInv == Init => IInv
<1> SUFFICES ASSUME Init PROVE IInv
  OBVIOUS
<1>1. <<>> \in Seq(Request) /\ Len(<<>>) = 0 /\ <<>> \o <<>> = <<>>
  BY EmptySeq, ConcatEmptySeq
<1>2. TypeOK
  BY <1>1 DEF Init, TypeOK
<1>3. LosslessFifo
  BY <1>1, MaxWaitingAssumption DEF Init, LosslessFifo
<1> QED
  BY <1>2, <1>3
  DEF Init, IInv, StopperAgrees, WorkerSleepsOnlyWhenIdle, ExitOnlyWhenDrained

(* Splitting the waiting queue at n and moving the first part to the end of
   what was taken changes neither the order nor the content.               *)
LEMMA TakePrefix ==
    ASSUME NEW s \in Seq(Request), NEW t \in Seq(Request), NEW n \in 0 .. Len(t)
    PROVE  /\ SubSeq(t, 1, n) \in Seq(Request)
           /\ SubSeq(t, n + 1, Len(t)) \in Seq(Request)
           /\ Len(SubSeq(t, n + 1, Len(t))) <= Len(t)
           /\ (s \o SubSeq(t, 1, n)) \o SubSeq(t, n + 1, Len(t)) = s \o t
<1>1. Len(t) \in Nat /\ \A i \in 1 .. Len(t) : t[i] \in Request
  BY LenProperties, ElementOfSeq
<1>2. SubSeq(t, 1, n) \in Seq(Request)
  <2>1. \A i \in 1 .. n : t[i] \in Request
    BY <1>1
  <2> QED BY <2>1, SubSeqProperties
<1>3. /\ SubSeq(t, n + 1, Len(t)) \in Seq(Request)
      /\ Len(SubSeq(t, n + 1, Len(t))) <= Len(t)
  <2>1. \A i \in n + 1 .. Len(t) : t[i] \in Request
    BY <1>1
  <2>2. /\ SubSeq(t, n + 1, Len(t)) \in Seq(Request)
        /\ Len(SubSeq(t, n + 1, Len(t))) =
             IF n + 1 <= Len(t) THEN Len(t) - (n + 1) + 1 ELSE 0
    BY <2>1, <1>1, SubSeqProperties
  <2> QED BY <2>2, <1>1
<1>4. SubSeq(t, 1, n) \o SubSeq(t, n + 1, Len(t)) = t
  <2>1. SubSeq(t, 1, n) \o SubSeq(t, n + 1, Len(t)) = SubSeq(t, 1, Len(t))
    <3>1. /\ 1 \in 1 .. Len(t) + 1
          /\ n \in 1 - 1 .. Len(t)
          /\ Len(t) \in n .. Len(t)
      BY <1>1
    <3> QED BY <3>1, ConcatAdjacentSubSeq
  <2> QED BY <2>1, SubSeqFull
<1>5. (s \o SubSeq(t, 1, n)) \o SubSeq(t, n + 1, Len(t))
        = s \o (SubSeq(t, 1, n) \o SubSeq(t, n + 1, Len(t)))
  <2>1. SubSeq(t, 1, n) \in Seq(Request) /\ SubSeq(t, n + 1, Len(t)) \in Seq(Request)
    BY <1>2, <1>3
  <2>2. Associates(s, SubSeq(t, 1, n), SubSeq(t, n + 1, Len(t)))
    BY <2>1, ConcatThree
  <2> QED BY <2>2 DEF Associates
<1> QED BY <1>2, <1>3, <1>4, <1>5

(* submit() keeps the invariant: its rejection, its enqueue, its notify.   *)
LEMMA SubmitIInv ==
    ASSUME IInv, NEW r \in Request, Submit(r)
    PROVE  IInv'
<1>1. CASE SubmitRejected(r)
  <2>1. TypeOK'
    BY <1>1 DEF SubmitRejected, IInv, TypeOK
  <2>2. \A x \in Request : submitter[x] = "notify" => submitter'[x] = "notify"
    BY <1>1 DEF SubmitRejected, IInv, TypeOK
  <2>3. WorkerSleepsOnlyWhenIdle'
    BY <1>1, <2>2 DEF SubmitRejected, IInv, WorkerSleepsOnlyWhenIdle
  <2>4. StopperAgrees' /\ LosslessFifo' /\ ExitOnlyWhenDrained'
    BY <1>1 DEF SubmitRejected, IInv, StopperAgrees, LosslessFifo, ExitOnlyWhenDrained
  <2> QED BY <2>1, <2>3, <2>4 DEF IInv
<1>2. CASE SubmitEnqueue(r)
  <2>1. /\ waiting' \in Seq(Request) /\ accepted' \in Seq(Request)
        /\ Len(waiting') = Len(waiting) + 1
        /\ \A i \in 1 .. Len(waiting) : waiting'[i] = waiting[i]
        /\ waiting'[Len(waiting) + 1] = r
        /\ Len(waiting) \in Nat
    BY <1>2, AppendProperties, LenProperties DEF SubmitEnqueue, IInv, TypeOK
  <2>2. TypeOK'
    BY <1>2, <2>1 DEF SubmitEnqueue, IInv, TypeOK
  <2>3. accepted' = taken' \o waiting'
    <3>1. taken \o Append(waiting, r) = Append(taken \o waiting, r)
      BY ConcatAppend DEF IInv, TypeOK
    <3> QED BY <1>2, <3>1 DEF SubmitEnqueue, IInv, LosslessFifo
  <2>4. MaxWaiting > 0 => Len(waiting') <= MaxWaiting
    BY <1>2, <2>1, MaxWaitingAssumption DEF SubmitEnqueue, Full
  <2>5. submitter'[r] = "notify"
    BY <1>2 DEF SubmitEnqueue, IInv, TypeOK
  <2>6. WorkerSleepsOnlyWhenIdle'
    BY <1>2, <2>5 DEF SubmitEnqueue, IInv, WorkerSleepsOnlyWhenIdle
  <2>7. ExitOnlyWhenDrained'
    <3> SUFFICES ASSUME worker' = "exited"
                 PROVE  stop' /\ \A i \in 1 .. Len(waiting') : waiting'[i] \in late'
      BY DEF ExitOnlyWhenDrained
    <3>1. stop /\ \A i \in 1 .. Len(waiting) : waiting[i] \in late
      BY <1>2 DEF SubmitEnqueue, IInv, ExitOnlyWhenDrained
    <3>2. stop' /\ late' = late \cup {r}
      BY <1>2, <3>1 DEF SubmitEnqueue
    <3> QED BY <2>1, <3>1, <3>2
  <2>8. StopperAgrees'
    BY <1>2 DEF SubmitEnqueue, IInv, StopperAgrees
  <2> QED BY <2>2, <2>3, <2>4, <2>6, <2>7, <2>8 DEF IInv, LosslessFifo
<1>3. CASE SubmitNotify(r)
  <2>1. TypeOK'
    BY <1>3 DEF SubmitNotify, WorkerNotified, IInv, TypeOK
  <2>2. worker' # "asleep" /\ (worker' = "exited" => worker = "exited")
    BY <1>3 DEF SubmitNotify, WorkerNotified
  <2>3. StopperAgrees' /\ LosslessFifo'
    BY <1>3 DEF SubmitNotify, IInv, StopperAgrees, LosslessFifo
  <2>4. WorkerSleepsOnlyWhenIdle'
    BY <2>2 DEF WorkerSleepsOnlyWhenIdle
  <2>5. ExitOnlyWhenDrained'
    BY <1>3, <2>2 DEF SubmitNotify, IInv, ExitOnlyWhenDrained
  <2> QED BY <2>1, <2>3, <2>4, <2>5 DEF IInv
<1> QED BY <1>1, <1>2, <1>3 DEF Submit

(* next_waiting() keeps the invariant, first attempt or resumed.           *)
LEMMA NextWaitingIInv ==
    ASSUME IInv, NextWaitingBody, worker \in {"run", "awake"},
           UNCHANGED <<stop, submitter, stopper, accepted, late>>
    PROVE  IInv'
<1>1. CASE waiting = <<>> /\ UNCHANGED <<waiting, taken>>
           /\ \/ ~stop /\ worker' = "asleep"
              \/ stop /\ worker' = "exited"
  <2>1. TypeOK' /\ StopperAgrees' /\ LosslessFifo'
    BY <1>1 DEF IInv, TypeOK, StopperAgrees, LosslessFifo
  <2>2. WorkerSleepsOnlyWhenIdle'
    BY <1>1 DEF WorkerSleepsOnlyWhenIdle
  <2>3. ExitOnlyWhenDrained'
    <3>1. Len(waiting') = 0
      BY <1>1, EmptySeq
    <3> QED BY <1>1, <3>1 DEF ExitOnlyWhenDrained
  <2> QED BY <2>1, <2>2, <2>3 DEF IInv
<1>2. CASE /\ waiting # <<>> /\ taken' = Append(taken, Head(waiting))
           /\ waiting' = Tail(waiting) /\ worker' = "run"
  <2>1. /\ Head(waiting) \in Request /\ waiting' \in Seq(Request)
        /\ Len(waiting') = Len(waiting) - 1
    BY <1>2, HeadTailProperties DEF IInv, TypeOK
  <2>2. taken' \in Seq(Request)
    BY <1>2, <2>1, AppendProperties DEF IInv, TypeOK
  <2>3. TypeOK'
    BY <1>2, <2>1, <2>2 DEF IInv, TypeOK
  <2>4. accepted' = taken' \o waiting'
    <3>1. Append(taken, Head(waiting)) \o Tail(waiting) = taken \o waiting
      BY <1>2, ConcatMoveHead DEF IInv, TypeOK
    <3> QED BY <1>2, <3>1 DEF IInv, LosslessFifo
  <2>5. MaxWaiting > 0 => Len(waiting') <= MaxWaiting
    BY <2>1, MaxWaitingAssumption, LenProperties DEF IInv, TypeOK, LosslessFifo
  <2>6. StopperAgrees' /\ WorkerSleepsOnlyWhenIdle' /\ ExitOnlyWhenDrained'
    BY <1>2 DEF IInv, StopperAgrees, WorkerSleepsOnlyWhenIdle, ExitOnlyWhenDrained
  <2> QED BY <2>3, <2>4, <2>5, <2>6 DEF IInv, LosslessFifo
<1> QED BY <1>1, <1>2 DEF NextWaitingBody

(* take_waiting() keeps the invariant.                                     *)
LEMMA TakeWaitingIInv ==
    ASSUME IInv, NEW max \in 0 .. MaxTake, TakeWaiting(max)
    PROVE  IInv'
<1> DEFINE n == Least(max, Len(waiting))
<1>1. n \in 0 .. Len(waiting)
  BY MaxTakeAssumption, LenProperties DEF Least, IInv, TypeOK
<1>2. /\ taken' = taken \o SubSeq(waiting, 1, n)
      /\ waiting' = SubSeq(waiting, n + 1, Len(waiting))
      /\ worker = "run" /\ UNCHANGED <<stop, worker, submitter, stopper, accepted, late>>
  BY DEF TakeWaiting
<1> HIDE DEF n
<1>3. /\ SubSeq(waiting, 1, n) \in Seq(Request)
      /\ waiting' \in Seq(Request)
      /\ Len(waiting') <= Len(waiting)
      /\ taken' \o waiting' = taken \o waiting
  BY <1>1, <1>2, TakePrefix DEF IInv, TypeOK
<1>4. taken' \in Seq(Request)
  BY <1>2, <1>3, ConcatProperties DEF IInv, TypeOK
<1>5. TypeOK'
  BY <1>2, <1>3, <1>4 DEF IInv, TypeOK
<1>6. LosslessFifo'
  <2>1. MaxWaiting > 0 => Len(waiting') <= MaxWaiting
    BY <1>3, MaxWaitingAssumption, LenProperties DEF IInv, TypeOK, LosslessFifo
  <2>2. accepted' = taken' \o waiting'
    BY <1>2, <1>3 DEF IInv, LosslessFifo
  <2> QED BY <2>1, <2>2 DEF LosslessFifo
<1>7. StopperAgrees' /\ WorkerSleepsOnlyWhenIdle' /\ ExitOnlyWhenDrained'
  BY <1>2 DEF IInv, StopperAgrees, WorkerSleepsOnlyWhenIdle, ExitOnlyWhenDrained
<1> QED BY <1>5, <1>6, <1>7 DEF IInv

(* Every step keeps the inductive invariant.                               *)
LEMMA StepIInv == IInv /\ [Next]_vars => IInv'
<1> SUFFICES ASSUME IInv, [Next]_vars PROVE IInv'
  OBVIOUS
<1>1. ASSUME NEW r \in Request, Submit(r) PROVE IInv'
  BY <1>1, SubmitIInv
<1>2. CASE NextWaiting \/ NextWaitingResume
  BY <1>2, NextWaitingIInv DEF NextWaiting, NextWaitingResume
<1>3. ASSUME NEW max \in 0 .. MaxTake, TakeWaiting(max) PROVE IInv'
  BY <1>3, TakeWaitingIInv
<1>4. CASE StopFlag
  <2>1. TypeOK' /\ StopperAgrees' /\ LosslessFifo'
    BY <1>4 DEF StopFlag, IInv, TypeOK, StopperAgrees, LosslessFifo
  <2>2. WorkerSleepsOnlyWhenIdle'
    BY <1>4 DEF StopFlag, IInv, WorkerSleepsOnlyWhenIdle
  <2>3. ExitOnlyWhenDrained'
    BY <1>4 DEF StopFlag, IInv, ExitOnlyWhenDrained
  <2> QED BY <2>1, <2>2, <2>3 DEF IInv
<1>5. CASE StopNotify
  <2>1. TypeOK' /\ StopperAgrees' /\ LosslessFifo'
    BY <1>5 DEF StopNotify, WorkerNotified, IInv, TypeOK, StopperAgrees, LosslessFifo
  <2>2. worker' # "asleep" /\ (worker' = "exited" => worker = "exited")
    BY <1>5 DEF StopNotify, WorkerNotified
  <2>3. WorkerSleepsOnlyWhenIdle' /\ ExitOnlyWhenDrained'
    BY <1>5, <2>2 DEF StopNotify, IInv, WorkerSleepsOnlyWhenIdle, ExitOnlyWhenDrained
  <2> QED BY <2>1, <2>3 DEF IInv
<1>6. CASE SpuriousWake
  BY <1>6 DEF SpuriousWake, IInv, TypeOK, StopperAgrees, LosslessFifo,
              WorkerSleepsOnlyWhenIdle, ExitOnlyWhenDrained
<1>7. CASE UNCHANGED vars
  BY <1>7 DEF vars, IInv, TypeOK, StopperAgrees, LosslessFifo,
              WorkerSleepsOnlyWhenIdle, ExitOnlyWhenDrained
<1> QED
  BY <1>1, <1>2, <1>3, <1>4, <1>5, <1>6, <1>7 DEF Next, Finished

(* The inductive invariant holds in every reachable state.                 *)
THEOREM Inductive == Spec => []IInv
<1> QED BY InitIInv, StepIInv, PTL DEF Spec

(* The scheduler is type correct.                                          *)
THEOREM TypeCorrect == Spec => []TypeOK
<1>1. IInv => TypeOK
  BY DEF IInv
<1> QED BY <1>1, Inductive, PTL

(* next_waiting() never sleeps through a submit or a stop.                 *)
THEOREM WorkerWakeups == Spec => []WorkerSleepsOnlyWhenIdle
<1>1. IInv => WorkerSleepsOnlyWhenIdle
  BY DEF IInv
<1> QED BY <1>1, Inductive, PTL

(* Requests reach the worker once, in order, and the bound is respected.   *)
THEOREM Lossless == Spec => []LosslessFifo
<1>1. IInv => LosslessFifo
  BY DEF IInv
<1> QED BY <1>1, Inductive, PTL

(* The worker's loop ends only after everything submitted before the stop
   was handed to it.                                                       *)
THEOREM ExitDrained == Spec => []ExitOnlyWhenDrained
<1>1. IInv => ExitOnlyWhenDrained
  BY DEF IInv
<1> QED BY <1>1, Inductive, PTL
=============================================================================
