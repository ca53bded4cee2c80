-------------------------- MODULE SpscQueueProofs --------------------------
(***************************************************************************)
(* SpscQueue keeps its promises for every item set, every capacity and     *)
(* every number of pushes.                                                 *)
(***************************************************************************)
EXTENDS SpscQueue, SeqLemmas

(* The flag and close()'s progress agree: what the wakeup invariants need to
   know that a closed queue still has its notifications ahead of it.       *)
CloserAgrees == closed <=> closer # "open"

(* Inductive form of EofOnlyWhenDrained: end of stream means closed and
   empty, and nothing enters a closed queue.                               *)
EofMeansEmpty == eof => closed /\ q = <<>>

IInv ==
    /\ TypeOK
    /\ CloserAgrees
    /\ EofMeansEmpty
    /\ LosslessFifo
    /\ ProducerSleepsOnlyWhenFull
    /\ ConsumerSleepsOnlyWhenEmpty

(* The initial states satisfy the inductive invariant.                     *)
LEMMA InitIInv == Init => IInv
<1> SUFFICES ASSUME Init PROVE IInv
  OBVIOUS
<1>1. Len(<<>>) = 0
  BY EmptySeq
<1>2. <<>> \in Seq(Item) /\ <<>> \o <<>> = <<>>
  BY EmptySeq, ConcatEmptySeq
<1>3. TypeOK
  BY <1>2 DEF Init, TypeOK, ThreadState, CloserState
<1> QED
  BY <1>1, <1>2, <1>3, CapacityAssumption
  DEF Init, IInv, CloserAgrees, EofMeansEmpty, LosslessFifo,
      ProducerSleepsOnlyWhenFull, ConsumerSleepsOnlyWhenEmpty

(* The critical section of push() keeps the invariant, whatever item it
   carries and whether it is a first attempt or a resumed wait.            *)
LEMMA PushBodyIInv ==
    ASSUME IInv, NEW v \in Item, producer # "asleep", item' \in Item, PushBody(v),
           UNCHANGED <<closed, closer, popped, eof>>
    PROVE  IInv'
<1>1. CASE Len(q) >= Capacity /\ ~closed /\ producer' = "asleep"
           /\ UNCHANGED <<q, pushed, consumer>>
  <2>1. Len(q) \in Nat
    BY LenProperties DEF IInv, TypeOK
  <2> QED
    BY <1>1, <2>1, CapacityAssumption
    DEF IInv, TypeOK, ThreadState, CloserAgrees, EofMeansEmpty, LosslessFifo,
        ProducerSleepsOnlyWhenFull, ConsumerSleepsOnlyWhenEmpty
<1>2. CASE closed /\ producer' = "idle" /\ UNCHANGED <<q, pushed, consumer>>
  BY <1>2
  DEF IInv, TypeOK, ThreadState, CloserAgrees, EofMeansEmpty, LosslessFifo,
      ProducerSleepsOnlyWhenFull, ConsumerSleepsOnlyWhenEmpty
<1>3. CASE /\ Len(q) < Capacity /\ ~closed
           /\ q' = Append(q, v) /\ pushed' = Append(pushed, v)
           /\ consumer' = Notified(consumer) /\ producer' = "idle"
  <2>1. /\ q' \in Seq(Item) /\ Len(q') = Len(q) + 1
        /\ pushed' \in Seq(Item)
    BY <1>3, AppendProperties DEF IInv, TypeOK
  <2>2. TypeOK'
    BY <1>3, <2>1 DEF IInv, TypeOK, ThreadState, Notified
  <2>3. pushed' = popped' \o q'
    <3>1. popped \o Append(q, v) = Append(popped \o q, v)
      BY ConcatAppend DEF IInv, TypeOK
    <3> QED BY <1>3, <3>1 DEF IInv, LosslessFifo
  <2>4. Len(q') <= Capacity
    BY <1>3, <2>1, CapacityAssumption, LenProperties DEF IInv, TypeOK
  <2>5. EofMeansEmpty' /\ CloserAgrees'
    BY <1>3 DEF IInv, EofMeansEmpty, CloserAgrees
  <2>6. ProducerSleepsOnlyWhenFull'
    BY <1>3 DEF ProducerSleepsOnlyWhenFull
  <2>7. ConsumerSleepsOnlyWhenEmpty'
    BY <1>3 DEF Notified, ConsumerSleepsOnlyWhenEmpty
  <2> QED BY <2>2, <2>3, <2>4, <2>5, <2>6, <2>7 DEF IInv, LosslessFifo
<1> QED BY <1>1, <1>2, <1>3 DEF PushBody

(* The critical section of pop() keeps the invariant.                      *)
LEMMA PopBodyIInv ==
    ASSUME IInv, consumer # "asleep", PopBody,
           UNCHANGED <<item, closed, closer, pushed>>
    PROVE  IInv'
<1>1. CASE q = <<>> /\ ~closed /\ consumer' = "asleep"
           /\ UNCHANGED <<q, popped, eof, producer>>
  BY <1>1
  DEF IInv, TypeOK, ThreadState, CloserAgrees, EofMeansEmpty, LosslessFifo,
      ProducerSleepsOnlyWhenFull, ConsumerSleepsOnlyWhenEmpty
<1>2. CASE q = <<>> /\ closed /\ eof' = TRUE /\ consumer' = "idle"
           /\ UNCHANGED <<q, popped, producer>>
  BY <1>2
  DEF IInv, TypeOK, ThreadState, CloserAgrees, EofMeansEmpty, LosslessFifo,
      ProducerSleepsOnlyWhenFull, ConsumerSleepsOnlyWhenEmpty
<1>3. CASE /\ q # <<>> /\ popped' = Append(popped, Head(q)) /\ q' = Tail(q)
           /\ producer' = Notified(producer) /\ consumer' = "idle"
           /\ UNCHANGED eof
  <2>1. /\ Head(q) \in Item /\ q' \in Seq(Item) /\ Len(q') = Len(q) - 1
    BY <1>3, HeadTailProperties DEF IInv, TypeOK
  <2>2. popped' \in Seq(Item)
    BY <1>3, <2>1, AppendProperties DEF IInv, TypeOK
  <2>3. TypeOK'
    BY <1>3, <2>1, <2>2 DEF IInv, TypeOK, ThreadState, Notified
  <2>4. pushed' = popped' \o q'
    BY <1>3, ConcatMoveHead DEF IInv, TypeOK, LosslessFifo
  <2>5. Len(q') <= Capacity
    BY <2>1, CapacityAssumption, LenProperties DEF IInv, TypeOK, LosslessFifo
  <2>6. EofMeansEmpty' /\ CloserAgrees'
    BY <1>3 DEF IInv, EofMeansEmpty, CloserAgrees
  <2>7. ProducerSleepsOnlyWhenFull'
    BY <1>3 DEF Notified, ProducerSleepsOnlyWhenFull
  <2>8. ConsumerSleepsOnlyWhenEmpty'
    BY <1>3 DEF ConsumerSleepsOnlyWhenEmpty
  <2> QED BY <2>3, <2>4, <2>5, <2>6, <2>7, <2>8 DEF IInv, LosslessFifo
<1> QED BY <1>1, <1>2, <1>3 DEF PopBody

(* Every step keeps the inductive invariant.                               *)
LEMMA StepIInv == IInv /\ [Next]_vars => IInv'
<1> SUFFICES ASSUME IInv, [Next]_vars PROVE IInv'
  OBVIOUS
<1>1. ASSUME NEW v \in Item, Push(v) PROVE IInv'
  BY <1>1, PushBodyIInv DEF Push
<1>2. CASE PushResume
  BY <1>2, PushBodyIInv DEF PushResume, IInv, TypeOK
<1>3. CASE Pop
  BY <1>3, PopBodyIInv DEF Pop
<1>4. CASE PopResume
  BY <1>4, PopBodyIInv DEF PopResume
<1>5. CASE CloseFlag
  BY <1>5
  DEF CloseFlag, IInv, TypeOK, CloserState, CloserAgrees, EofMeansEmpty, LosslessFifo,
      ProducerSleepsOnlyWhenFull, ConsumerSleepsOnlyWhenEmpty
<1>6. CASE CloseNotifyEmpty
  BY <1>6
  DEF CloseNotifyEmpty, Notified, IInv, TypeOK, ThreadState, CloserState, CloserAgrees,
      EofMeansEmpty, LosslessFifo, ProducerSleepsOnlyWhenFull, ConsumerSleepsOnlyWhenEmpty
<1>7. CASE CloseNotifyFull
  BY <1>7
  DEF CloseNotifyFull, Notified, IInv, TypeOK, ThreadState, CloserState, CloserAgrees,
      EofMeansEmpty, LosslessFifo, ProducerSleepsOnlyWhenFull, ConsumerSleepsOnlyWhenEmpty
<1>8. CASE SpuriousWake
  <2>1. UNCHANGED <<q, closed, item, closer, pushed, popped, eof>>
    BY <1>8 DEF SpuriousWake
  <2>2. /\ producer' \in {producer, "awake"}
        /\ consumer' \in {consumer, "awake"}
    BY <1>8 DEF SpuriousWake
  <2>3. TypeOK'
    BY <2>1, <2>2 DEF IInv, TypeOK, ThreadState
  <2>4. CloserAgrees' /\ EofMeansEmpty' /\ LosslessFifo'
    BY <2>1 DEF IInv, CloserAgrees, EofMeansEmpty, LosslessFifo
  <2>5. ProducerSleepsOnlyWhenFull'
    BY <2>1, <2>2 DEF IInv, ProducerSleepsOnlyWhenFull
  <2>6. ConsumerSleepsOnlyWhenEmpty'
    BY <2>1, <2>2 DEF IInv, ConsumerSleepsOnlyWhenEmpty
  <2> QED BY <2>3, <2>4, <2>5, <2>6 DEF IInv
<1>9. CASE UNCHANGED vars
  BY <1>9
  DEF vars, IInv, TypeOK, CloserAgrees,
      EofMeansEmpty, LosslessFifo, ProducerSleepsOnlyWhenFull, ConsumerSleepsOnlyWhenEmpty
<1> QED
  BY <1>1, <1>2, <1>3, <1>4, <1>5, <1>6, <1>7, <1>8, <1>9 DEF Next

(* The inductive invariant holds in every reachable state.                 *)
THEOREM Inductive == Spec => []IInv
<1> QED BY InitIInv, StepIInv, PTL DEF Spec

(* The variables of the queue always have their types.                     *)
THEOREM TypeCorrect == Spec => []TypeOK
<1>1. IInv => TypeOK
  BY DEF IInv
<1> QED BY <1>1, Inductive, PTL

(* Neither push() nor pop() sleeps through a wakeup it needs.               *)
THEOREM Wakeups == Spec => []NoLostWakeup
<1>1. IInv => NoLostWakeup
  BY DEF IInv, NoLostWakeup
<1> QED BY <1>1, Inductive, PTL

(* Accepted items are delivered in order, each once, none lost, and the
   backlog respects capacity_.                                             *)
THEOREM Lossless == Spec => []LosslessFifo
<1>1. IInv => LosslessFifo
  BY DEF IInv
<1> QED BY <1>1, Inductive, PTL

(* pop() reports end of stream only after delivering all that was accepted. *)
THEOREM EofDrained == Spec => []EofOnlyWhenDrained
<1>1. IInv => EofOnlyWhenDrained
  BY ConcatEmptySeq DEF IInv, TypeOK, EofMeansEmpty, LosslessFifo, EofOnlyWhenDrained
<1> QED BY <1>1, Inductive, PTL

-----------------------------------------------------------------------------
(* A push() step is a Send of the channel or invisible to it.              *)
LEMMA PushBodyRefines ==
    ASSUME IInv, NEW v \in Item, PushBody(v), UNCHANGED <<closed, popped, eof>>
    PROVE  [Ch!Next]_Ch!chVars
<1>1. CASE UNCHANGED pushed
  BY <1>1 DEF Ch!chVars
<1>2. CASE /\ Len(q) < Capacity /\ ~closed /\ pushed' = Append(pushed, v)
  <2>1. Len(pushed) = Len(popped) + Len(q)
    BY ConcatProperties DEF IInv, TypeOK, LosslessFifo
  <2>2. Len(pushed) - Len(popped) < Capacity
    BY <1>2, <2>1, LenProperties, CapacityAssumption DEF IInv, TypeOK
  <2>3. Ch!Send(v)
    BY <1>2, <2>2 DEF Ch!Send
  <2> QED BY <2>3 DEF Ch!Next
<1> QED BY <1>1, <1>2 DEF PushBody

(* A pop() step is a Receive or an End of the channel, or invisible to it. *)
LEMMA PopBodyRefines ==
    ASSUME IInv, PopBody, UNCHANGED <<closed, pushed>>
    PROVE  [Ch!Next]_Ch!chVars
<1>1. CASE UNCHANGED <<popped, eof>>
  BY <1>1 DEF Ch!chVars
<1>2. CASE q = <<>> /\ closed /\ eof' = TRUE /\ UNCHANGED popped
  <2>1. Len(popped) = Len(pushed)
    BY <1>2, ConcatEmptySeq DEF IInv, TypeOK, LosslessFifo
  <2>2. Ch!End
    BY <1>2, <2>1 DEF Ch!End
  <2> QED BY <2>2 DEF Ch!Next
<1>3. CASE q # <<>> /\ popped' = Append(popped, Head(q)) /\ UNCHANGED eof
  <2>1. /\ Len(pushed) = Len(popped) + Len(q)
        /\ \A i \in 1 .. Len(popped) + Len(q) :
             pushed[i] = IF i <= Len(popped) THEN popped[i] ELSE q[i - Len(popped)]
    BY ConcatProperties DEF IInv, TypeOK, LosslessFifo
  <2>2. Len(q) \in Nat \ {0} /\ Len(popped) \in Nat
    BY <1>3, EmptySeq, LenProperties DEF IInv, TypeOK
  <2>3. Head(q) = q[1]
    BY <1>3, HeadTailProperties DEF IInv, TypeOK
  <2>4. pushed[Len(popped) + 1] = Head(q)
    BY <2>1, <2>2, <2>3
  <2>5. Ch!Receive
    BY <1>3, <2>1, <2>2, <2>4 DEF Ch!Receive
  <2> QED BY <2>5 DEF Ch!Next
<1> QED BY <1>1, <1>2, <1>3 DEF PopBody

(* Every step of the queue is a step of the channel or invisible to it.    *)
LEMMA StepRefines == IInv /\ [Next]_vars => [Ch!Next]_Ch!chVars
<1> SUFFICES ASSUME IInv, [Next]_vars PROVE [Ch!Next]_Ch!chVars
  OBVIOUS
<1>1. ASSUME NEW v \in Item, Push(v) PROVE [Ch!Next]_Ch!chVars
  BY <1>1, PushBodyRefines DEF Push
<1>2. CASE PushResume
  BY <1>2, PushBodyRefines DEF PushResume, IInv, TypeOK
<1>3. CASE Pop \/ PopResume
  BY <1>3, PopBodyRefines DEF Pop, PopResume
<1>4. CASE CloseFlag
  <2>1. Ch!Shut
    BY <1>4 DEF CloseFlag, Ch!Shut, IInv, CloserAgrees
  <2> QED BY <2>1 DEF Ch!Next
<1>5. CASE CloseNotifyEmpty \/ CloseNotifyFull \/ SpuriousWake \/ UNCHANGED vars
  BY <1>5 DEF CloseNotifyEmpty, CloseNotifyFull, SpuriousWake, vars, Ch!chVars
<1> QED
  BY <1>1, <1>2, <1>3, <1>4, <1>5 DEF Next

(* The queue class implements the abstract channel.                        *)
THEOREM QueueImplementsChannel == Spec => ImplementsChannel
<1>1. Init => Ch!Init
  BY DEF Init, Ch!Init
<1> QED
  BY <1>1, StepRefines, Inductive, PTL DEF Spec, ImplementsChannel, Ch!Spec
=============================================================================
