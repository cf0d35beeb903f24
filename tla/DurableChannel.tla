--------------------------- MODULE DurableChannel ---------------------------
(***************************************************************************)
(* What a pipeline with a database at its end promises: a bounded first-in *)
(* first-out channel into a store.  A failure costs what is on its way     *)
(* and, if the power goes, the newest of what is stored, back to what has  *)
(* been made durable; it never reorders, repeats or leaves a gap.          *)
(***************************************************************************)
EXTENDS Naturals, Sequences

CONSTANTS
    Items,    \* what may be sent
    Capacity  \* how many items may be on their way

VARIABLES
    pending,  \* accepted and not stored, oldest first
    stored,   \* oldest first
    durable,  \* how much of stored survives everything
    closed    \* nothing more is accepted

vars == <<pending, stored, durable, closed>>

Init == pending = <<>> /\ stored = <<>> /\ durable = 0 /\ closed = FALSE

Send(item) ==
    /\ ~closed
    /\ Len(pending) < Capacity
    /\ pending' = Append(pending, item)
    /\ UNCHANGED <<stored, durable, closed>>

\* Some of the oldest are stored together, durably or not.
Store ==
    /\ \E n \in 1 .. Len(pending) :
        /\ stored' = stored \o SubSeq(pending, 1, n)
        /\ pending' = SubSeq(pending, n + 1, Len(pending))
    /\ durable' \in {durable, Len(stored')}
    /\ UNCHANGED closed

Close == closed' = TRUE /\ UNCHANGED <<pending, stored, durable>>

Fail ==
    /\ pending' = <<>>
    /\ \E n \in durable .. Len(stored) : stored' = SubSeq(stored, 1, n)
    /\ durable' \in {durable, Len(stored')}
    /\ UNCHANGED closed

Reopen == closed' = FALSE /\ pending = <<>> /\ UNCHANGED <<pending, stored, durable>>

Next == (\E item \in Items : Send(item)) \/ Store \/ Close \/ Fail \/ Reopen

Spec == Init /\ [][Next]_vars
=============================================================================
