-------------------------- MODULE ThreadSafeQueue --------------------------
(***************************************************************************)
(* ais::ThreadSafeQueue<T>, the bounded queue between two pipeline stages  *)
(* (include/ais/concurrent_queue.hpp): a std::queue, a mutex and two       *)
(* condition variables, not_empty and not_full.                            *)
(*                                                                         *)
(* Everything a call does while it holds the mutex is one step.  A call is *)
(* "ready" when it wants the mutex to evaluate its wait predicate, either  *)
(* because it has just been made or because it was woken; "asleep" when it *)
(* found the predicate false and gave the mutex up inside wait().          *)
(* Producers only ever sleep on not_full and consumers only on not_empty,  *)
(* so the sleepers of a condition variable are told by which set they      *)
(* belong to.                                                              *)
(***************************************************************************)
EXTENDS Naturals, Sequences, FiniteSets

CONSTANTS
    Producers,  \* threads that call push
    Consumers,  \* threads that call pop and pop_batch
    Capacity,   \* the constructor's argument (500 in main.cpp)
    MaxBatch,   \* the argument of pop_batch (500 in SqliteWriter::run)
    MaxPushes   \* bound: how often each producer calls push

ASSUME QueueAssumption ==
    /\ IsFiniteSet(Producers) /\ IsFiniteSet(Consumers)
    /\ Producers \cap Consumers = {}
    /\ Capacity \in Nat \ {0}
    /\ MaxBatch \in Nat \ {0}    \* pop_batch(0) throws before it takes the lock
    /\ MaxPushes \in Nat

VARIABLES
    queue,     \* queue_
    closed,    \* closed_
    pc,        \* where each thread is in its call, or how its last call ended
    op,        \* which of the two pops a consumer called last
    pushes,    \* how many calls of push each producer has made
    sent,      \* history: the items push accepted, in order
    received   \* history: the items the pops handed out, in order

vars == <<queue, closed, pc, op, pushes, sent, received>>

Threads == Producers \cup Consumers
Items   == Producers \X (1 .. MaxPushes)
Pops    == {"pop", "pop_batch"}

\* A thread outside a call: never called, returned, threw, or saw end of stream.
Outside == {"idle", "thrown", "eof"}

TypeOK ==
    /\ queue \in Seq(Items)
    /\ closed \in BOOLEAN
    /\ pc \in [Threads -> {"ready", "asleep"} \cup Outside]
    /\ op \in [Consumers -> Pops]
    /\ pushes \in [Producers -> 0 .. MaxPushes]
    /\ sent \in Seq(Items)
    /\ received \in Seq(Items)

Init ==
    /\ queue = <<>>
    /\ closed = FALSE
    /\ pc = [t \in Threads |-> "idle"]
    /\ op = [c \in Consumers |-> "pop"]
    /\ pushes = [p \in Producers |-> 0]
    /\ sent = <<>>
    /\ received = <<>>

------------------------------------------------------------------------------
(* Condition variables.                                                     *)

Asleep(group) == {t \in group : pc[t] = "asleep"}
Ready(group)  == {t \in group : pc[t] = "ready"}

\* pc once thread t has left its call with outcome how.
Left(t, how) == [pc EXCEPT ![t] = how]

\* notify_one on the condition variable the threads of group wait on.  Which of
\* the sleepers wakes is up to the implementation.  left is pc as the notifier
\* leaves it; a notification nobody waits for is lost.
NotifyOne(group, left) ==
    \/ Asleep(group) = {} /\ pc' = left
    \/ \E t \in Asleep(group) : pc' = [left EXCEPT ![t] = "ready"]

\* notify_all.
NotifyAll(group, left) ==
    pc' = [t \in Threads |-> IF t \in Asleep(group) THEN "ready" ELSE left[t]]

\* Inside wait(lock, predicate) the predicate was false: sleep.
Sleep(t) == pc' = [pc EXCEPT ![t] = "asleep"]

\* The standard lets a wait end without a notification; the loop inside
\* wait(lock, predicate) evaluates the predicate again.
SpuriousWakeup(t) ==
    /\ pc[t] = "asleep"
    /\ pc' = [pc EXCEPT ![t] = "ready"]
    /\ UNCHANGED <<queue, closed, op, pushes, sent, received>>

------------------------------------------------------------------------------
(* push.                                                                    *)

CallPush(p) ==
    /\ pc[p] \in Outside
    /\ pushes[p] < MaxPushes
    /\ pushes' = [pushes EXCEPT ![p] = @ + 1]
    /\ pc' = [pc EXCEPT ![p] = "ready"]
    /\ UNCHANGED <<queue, closed, op, sent, received>>

NotFull == Len(queue) < Capacity \/ closed

PushWaits(p) ==
    /\ pc[p] = "ready"
    /\ ~NotFull
    /\ Sleep(p)
    /\ UNCHANGED <<queue, closed, op, pushes, sent, received>>

PushThrows(p) ==
    /\ pc[p] = "ready"
    /\ closed
    /\ pc' = Left(p, "thrown")
    /\ UNCHANGED <<queue, closed, op, pushes, sent, received>>

\* Mutant: closed_ is not looked at after the wait.
PushIntoClosed(p) ==
    LET item == <<p, pushes[p]>> IN
    /\ pc[p] = "ready" /\ NotFull
    /\ queue' = Append(queue, item)
    /\ sent' = Append(sent, item)
    /\ NotifyOne(Consumers, Left(p, "idle"))
    /\ UNCHANGED <<closed, op, pushes, received>>

Push(p) ==
    LET item == <<p, pushes[p]>> IN
    /\ pc[p] = "ready"
    /\ NotFull
    /\ ~closed
    /\ queue' = Append(queue, item)
    /\ sent' = Append(sent, item)
    /\ NotifyOne(Consumers, Left(p, "idle"))
    /\ UNCHANGED <<closed, op, pushes, received>>

------------------------------------------------------------------------------
(* pop and pop_batch.                                                       *)

CallPop(c) ==
    /\ pc[c] \in Outside
    /\ \E o \in Pops : op' = [op EXCEPT ![c] = o]
    /\ pc' = [pc EXCEPT ![c] = "ready"]
    /\ UNCHANGED <<queue, closed, pushes, sent, received>>

NotEmpty == queue # <<>> \/ closed

PopWaits(c) ==
    /\ pc[c] = "ready"
    /\ ~NotEmpty
    /\ Sleep(c)
    /\ UNCHANGED <<queue, closed, op, pushes, sent, received>>

\* pop returns nullopt and pop_batch an empty vector.
EndOfStream(c) ==
    /\ pc[c] = "ready"
    /\ NotEmpty
    /\ queue = <<>>
    /\ pc' = Left(c, "eof")
    /\ UNCHANGED <<queue, closed, op, pushes, sent, received>>

\* The n oldest items leave the queue, in order.
Take(n) ==
    /\ received' = received \o SubSeq(queue, 1, n)
    /\ queue' = SubSeq(queue, n + 1, Len(queue))

\* Mutant: a freed slot is not announced.
PopSilently(c) ==
    /\ pc[c] = "ready" /\ op[c] = "pop" /\ queue # <<>>
    /\ Take(1)
    /\ pc' = Left(c, "idle")
    /\ UNCHANGED <<closed, op, pushes, sent>>

Pop(c) ==
    /\ pc[c] = "ready"
    /\ op[c] = "pop"
    /\ queue # <<>>
    /\ Take(1)
    /\ NotifyOne(Producers, Left(c, "idle"))
    /\ UNCHANGED <<closed, op, pushes, sent>>

\* min(max, queue_.size()) items, without waiting for more.
BatchSize == IF Len(queue) < MaxBatch THEN Len(queue) ELSE MaxBatch

\* Mutant: notify_one although several slots were freed.
PopBatchNotifyOne(c) ==
    /\ pc[c] = "ready" /\ op[c] = "pop_batch" /\ queue # <<>>
    /\ Take(BatchSize)
    /\ NotifyOne(Producers, Left(c, "idle"))
    /\ UNCHANGED <<closed, op, pushes, sent>>

PopBatch(c) ==
    /\ pc[c] = "ready"
    /\ op[c] = "pop_batch"
    /\ queue # <<>>
    /\ Take(BatchSize)
    /\ NotifyAll(Producers, Left(c, "idle"))
    /\ UNCHANGED <<closed, op, pushes, sent>>

------------------------------------------------------------------------------
(* close.  Closing twice changes nothing the second time.                   *)

\* Mutant: only not_full is notified.
CloseProducersOnly ==
    /\ ~closed
    /\ closed' = TRUE
    /\ NotifyAll(Producers, pc)
    /\ UNCHANGED <<queue, op, pushes, sent, received>>

Close ==
    /\ ~closed
    /\ closed' = TRUE
    /\ NotifyAll(Threads, pc)
    /\ UNCHANGED <<queue, op, pushes, sent, received>>

------------------------------------------------------------------------------
ProducerStep(p) == PushWaits(p) \/ PushThrows(p) \/ Push(p)
ConsumerStep(c) == PopWaits(c) \/ EndOfStream(c) \/ Pop(c) \/ PopBatch(c)

Next ==
    \/ \E p \in Producers : CallPush(p) \/ ProducerStep(p)
    \/ \E c \in Consumers : CallPop(c) \/ ConsumerStep(c)
    \/ \E t \in Threads : SpuriousWakeup(t)
    \/ Close

Spec == Init /\ [][Next]_vars

\* A thread that wants the mutex gets it, and the loop of a consuming stage
\* calls pop again until it sees the end of the stream (DecoderStage::run,
\* SqliteWriter::run).  Nothing obliges anyone to push, to close, or to wake up
\* for no reason.
Fairness ==
    /\ \A p \in Producers : WF_vars(ProducerStep(p))
    /\ \A c \in Consumers :
           WF_vars(ConsumerStep(c)) /\ WF_vars(pc[c] # "eof" /\ CallPop(c))

FairSpec == Spec /\ Fairness

------------------------------------------------------------------------------
(* Safety.                                                                  *)

\* push, pop and pop_batch lose, duplicate and reorder nothing: what was taken
\* followed by what is still queued is what was accepted.
Fifo == sent = received \o queue

\* No wakeup is lost.  An open queue never has more free slots than producers
\* on their way to use them while another producer sleeps, nor more items than
\* consumers on their way to fetch them while another consumer sleeps; a closed
\* queue has no sleepers.  This is what the choice of notify_one in push and
\* pop and of notify_all in pop_batch and close has to achieve.
NoLostWakeup ==
    /\ closed => Asleep(Threads) = {}
    /\ Asleep(Producers) # {} => Capacity - Len(queue) <= Cardinality(Ready(Producers))
    /\ Asleep(Consumers) # {} => Len(queue) <= Cardinality(Ready(Consumers))

\* An empty result of pop or pop_batch is the end: the queue is closed, all that
\* was ever accepted has been handed out, and a caller that sees it may leave
\* its loop without leaving anything behind.
EndOfStreamIsFinal ==
    (\E c \in Consumers : pc[c] = "eof") => closed /\ received = sent

\* The queue is a FIFO channel that delivers what it accepted.
Channel == INSTANCE FifoChannel
ImplementsChannel == Channel!FairSpec

------------------------------------------------------------------------------
(* Liveness.                                                                *)

\* close() gets every caller out, whatever it was waiting for.
CloseReleasesEveryone ==
    \A t \in Threads :
        (closed /\ pc[t] \in {"ready", "asleep"}) ~> (pc[t] \in Outside)

\* While producers sleep on a full queue, one of them gets an item in, or the
\* queue is closed.
BackpressureReleases ==
    \A n \in 0 .. Cardinality(Producers) * MaxPushes :
        (Asleep(Producers) # {} /\ Len(sent) = n) ~> (Len(sent) > n \/ closed)
============================================================================
