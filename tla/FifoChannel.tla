---------------------------- MODULE FifoChannel ----------------------------
(***************************************************************************)
(* What a stage of the pipeline may rely on when it hands items to the     *)
(* next one: a bounded first-in first-out channel that can be closed.      *)
(* There are no threads, locks or condition variables here, only the       *)
(* sequence of accepted items and the prefix of it already handed out.     *)
(* ThreadSafeQueue is shown to implement this specification.               *)
(***************************************************************************)
EXTENDS Naturals, Sequences

CONSTANTS
    Items,     \* what may be sent
    Capacity   \* how many accepted items may be undelivered at a time

VARIABLES
    sent,      \* every item accepted so far, in order
    received,  \* every item handed to the receiving side so far, in order
    closed     \* no item is accepted any more

vars == <<sent, received, closed>>

Init == sent = <<>> /\ received = <<>> /\ closed = FALSE

Send(item) ==
    /\ ~closed
    /\ Len(sent) < Len(received) + Capacity
    /\ sent' = Append(sent, item)
    /\ UNCHANGED <<received, closed>>

\* Some of the oldest undelivered items are handed over together.
Deliver ==
    \E n \in (Len(received) + 1) .. Len(sent) :
        /\ received' = SubSeq(sent, 1, n)
        /\ UNCHANGED <<sent, closed>>

Close == closed' = TRUE /\ UNCHANGED <<sent, received>>

Next == (\E item \in Items : Send(item)) \/ Deliver \/ Close

Spec == Init /\ [][Next]_vars

\* A channel that keeps its promise: what was accepted is delivered in the end.
FairSpec == Spec /\ WF_vars(Deliver)
============================================================================
