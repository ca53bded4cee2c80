----------------------------- MODULE SpscQueue -----------------------------
(***************************************************************************)
(* The bounded blocking queue between the worker (the one producer) and a  *)
(* request's thread (the one consumer): src/src/scheduler/request.h,       *)
(* class SpscQueue, used for Request::tokens and Request::logprobs.        *)
(*                                                                         *)
(* One step is one stretch of code that runs with the mutex held: from a   *)
(* lock (or the return of a wait) to the unlock (or the next wait).  A     *)
(* thread inside cv.wait is "asleep" until a notify or a spurious wakeup   *)
(* makes it "awake"; it then takes the mutex again and re-evaluates the    *)
(* predicate.  close() sets the flag under the mutex and notifies after    *)
(* the unlock, so its three parts are three steps.  The closer is a thread *)
(* of its own: push() is written for a queue closed while it waits.        *)
(***************************************************************************)
EXTENDS Naturals, Sequences

CONSTANTS
    Item,       \* values pushed
    Capacity,   \* capacity_
    MaxPush     \* bound: how many items the producer gets accepted

ASSUME CapacityAssumption == Capacity \in Nat \ {0}
ASSUME MaxPushAssumption == MaxPush \in Nat

VARIABLES
    q,          \* q_
    closed,     \* closed_
    producer,   \* "idle" outside push, else where its wait on not_full_ is
    item,       \* the argument of the push that waits
    consumer,   \* "idle" outside pop, else where its wait on not_empty_ is
    closer,     \* how far close() got
    pushed,     \* history: items that entered q_
    popped,     \* history: items handed to the consumer
    eof         \* history: pop returned false

vars == <<q, closed, producer, item, consumer, closer, pushed, popped, eof>>

ThreadState == {"idle", "asleep", "awake"}
CloserState == {"open", "notEmpty", "notFull", "done"}

TypeOK ==
    /\ q \in Seq(Item)
    /\ closed \in BOOLEAN
    /\ producer \in ThreadState
    /\ item \in Item
    /\ consumer \in ThreadState
    /\ closer \in CloserState
    /\ pushed \in Seq(Item)
    /\ popped \in Seq(Item)
    /\ eof \in BOOLEAN

Init ==
    /\ q = <<>>
    /\ closed = FALSE
    /\ producer = "idle"
    /\ item \in Item
    /\ consumer = "idle"
    /\ closer = "open"
    /\ pushed = <<>>
    /\ popped = <<>>
    /\ eof = FALSE

(* A notify makes a sleeping thread runnable; one that is not asleep misses it. *)
Notified(thread) == IF thread = "asleep" THEN "awake" ELSE thread

-----------------------------------------------------------------------------
(* Slips in push() that the invariants must catch: no notify, one item too
   many, an item accepted after close().                                   *)
PushWithoutNotify(v) ==
    /\ Len(q) < Capacity
    /\ ~closed
    /\ q' = Append(q, v)
    /\ pushed' = Append(pushed, v)
    /\ producer' = "idle"
    /\ UNCHANGED consumer

PushPastCapacity(v) ==
    /\ Len(q) <= Capacity
    /\ ~closed
    /\ q' = Append(q, v)
    /\ pushed' = Append(pushed, v)
    /\ consumer' = Notified(consumer)
    /\ producer' = "idle"

PushAfterClose(v) ==
    /\ Len(q) < Capacity \/ closed
    /\ q' = Append(q, v)
    /\ pushed' = Append(pushed, v)
    /\ consumer' = Notified(consumer)
    /\ producer' = "idle"

(* push(), from taking the mutex: wait while full and open; drop the item
   if closed; else enqueue it and notify not_empty_.                       *)
PushBody(v) ==
    \/ /\ Len(q) >= Capacity
       /\ ~closed
       /\ producer' = "asleep"
       /\ UNCHANGED <<q, pushed, consumer>>
    \/ /\ closed
       /\ producer' = "idle"
       /\ UNCHANGED <<q, pushed, consumer>>
    \/ /\ Len(q) < Capacity
       /\ ~closed
       /\ q' = Append(q, v)
       /\ pushed' = Append(pushed, v)
       /\ consumer' = Notified(consumer)
       /\ producer' = "idle"

Push(v) ==
    /\ producer = "idle"
    /\ Len(pushed) < MaxPush
    /\ item' = v
    /\ PushBody(v)
    /\ UNCHANGED <<closed, closer, popped, eof>>

PushResume ==
    /\ producer = "awake"
    /\ PushBody(item)
    /\ UNCHANGED <<item, closed, closer, popped, eof>>

(* A slip in pop(): no notify.                                             *)
PopWithoutNotify ==
    \/ /\ q = <<>>
       /\ closed
       /\ eof' = TRUE
       /\ consumer' = "idle"
       /\ UNCHANGED <<q, popped, producer>>
    \/ /\ q # <<>>
       /\ popped' = Append(popped, Head(q))
       /\ q' = Tail(q)
       /\ consumer' = "idle"
       /\ UNCHANGED <<eof, producer>>

(* pop(), from taking the mutex: wait while empty and open; return false if
   still empty; else hand out the front and notify not_full_.              *)
PopBody ==
    \/ /\ q = <<>>
       /\ ~closed
       /\ consumer' = "asleep"
       /\ UNCHANGED <<q, popped, eof, producer>>
    \/ /\ q = <<>>
       /\ closed
       /\ eof' = TRUE
       /\ consumer' = "idle"
       /\ UNCHANGED <<q, popped, producer>>
    \/ /\ q # <<>>
       /\ popped' = Append(popped, Head(q))
       /\ q' = Tail(q)
       /\ producer' = Notified(producer)
       /\ consumer' = "idle"
       /\ UNCHANGED eof

Pop ==
    /\ consumer = "idle"
    /\ PopBody
    /\ UNCHANGED <<item, closed, closer, pushed>>

PopResume ==
    /\ consumer = "awake"
    /\ PopBody
    /\ UNCHANGED <<item, closed, closer, pushed>>

(* close(): the flag, then the two notify_all calls outside the mutex.     *)
CloseFlag ==
    /\ closer = "open"
    /\ closed' = TRUE
    /\ closer' = "notEmpty"
    /\ UNCHANGED <<q, producer, item, consumer, pushed, popped, eof>>

(* A slip in close(): the consumer is not notified.                        *)
CloseForgetsConsumer ==
    /\ closer = "notEmpty"
    /\ closer' = "notFull"
    /\ UNCHANGED <<q, closed, producer, item, consumer, pushed, popped, eof>>

CloseNotifyEmpty ==
    /\ closer = "notEmpty"
    /\ consumer' = Notified(consumer)
    /\ closer' = "notFull"
    /\ UNCHANGED <<q, closed, producer, item, pushed, popped, eof>>

CloseNotifyFull ==
    /\ closer = "notFull"
    /\ producer' = Notified(producer)
    /\ closer' = "done"
    /\ UNCHANGED <<q, closed, item, consumer, pushed, popped, eof>>

(* A condition variable may wake a waiter without a notify.                *)
SpuriousWake ==
    \/ /\ producer = "asleep"
       /\ producer' = "awake"
       /\ UNCHANGED <<q, closed, item, consumer, closer, pushed, popped, eof>>
    \/ /\ consumer = "asleep"
       /\ consumer' = "awake"
       /\ UNCHANGED <<q, closed, producer, item, closer, pushed, popped, eof>>

Next ==
    \/ \E v \in Item : Push(v)
    \/ PushResume
    \/ Pop
    \/ PopResume
    \/ CloseFlag
    \/ CloseNotifyEmpty
    \/ CloseNotifyFull
    \/ SpuriousWake

Spec == Init /\ [][Next]_vars

(* A runnable thread runs, the consumer keeps calling pop (every client of a
   Request loops on pop until it returns false), and a close that began is
   finished.  Nothing is assumed of pushes, of starting the close, or of
   spurious wakeups: no property may rest on them.                          *)
FairSpec ==
    /\ Spec
    /\ WF_vars(PushResume)
    /\ WF_vars(Pop)
    /\ WF_vars(PopResume)
    /\ WF_vars(CloseNotifyEmpty)
    /\ WF_vars(CloseNotifyFull)

-----------------------------------------------------------------------------
(* No wakeup is lost: a producer asleep in push (request.h:37) faces a full
   open queue, or a close whose notify_all on not_full_ is still to come.  *)
ProducerSleepsOnlyWhenFull ==
    producer = "asleep" =>
        \/ Len(q) = Capacity /\ ~closed
        \/ closer \in {"notEmpty", "notFull"}

(* A consumer asleep in pop (request.h:56) faces an empty open queue, or a
   close whose notify_all on not_empty_ is still to come.                  *)
ConsumerSleepsOnlyWhenEmpty ==
    consumer = "asleep" =>
        /\ q = <<>>
        /\ ~closed \/ closer = "notEmpty"

(* The two together: nobody waits for a notify that has already been given. *)
NoLostWakeup == ProducerSleepsOnlyWhenFull /\ ConsumerSleepsOnlyWhenEmpty

(* Lossless and in order: what the consumer got, followed by what is queued,
   is what push accepted; the backlog never exceeds capacity_.             *)
LosslessFifo ==
    /\ pushed = popped \o q
    /\ Len(q) <= Capacity

(* pop says "end of stream" (request.h:57) only after a close and only when
   every accepted item was delivered: nothing accepted is ever stranded.   *)
EofOnlyWhenDrained == eof => closed /\ popped = pushed

(* The class implements the abstract channel.                              *)
Ch == INSTANCE Channel WITH
        sent <- pushed, received <- popped, shut <- closed, ended <- eof

ImplementsChannel == Ch!Spec

(* Backpressure ends: a producer blocked in push (request.h:37) gets out of
   it as long as the consumer keeps popping.                               *)
BlockedPushReturns == (producer # "idle") ~> (producer = "idle")

(* A close reaches the consumer: it is told that the stream is over.       *)
CloseReachesConsumer == closed ~> eof
=============================================================================
