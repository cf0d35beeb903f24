----------------------------- MODULE FeedClient -----------------------------
(***************************************************************************)
(* The client thread as the rest of the pipeline sees it: the reconnection *)
(* loop of app/main.cpp around TcpClient::run, with connects and reads     *)
(* that end in one of a few ways.  Pipeline takes its client thread from   *)
(* here, and TcpClient, which has the sockets, the timeouts and the stop   *)
(* callback, is shown to implement it.                                     *)
(***************************************************************************)
EXTENDS Naturals, Sequences

CONSTANTS
    MaxLines,     \* bound: lines the feed sends
    MaxChunk,     \* bound: lines completed by one read
    LineCapacity  \* of the queue the lines are pushed to

VARIABLES
    stop,     \* a stop has been requested of the thread
    client,   \* where the thread is
    backlog,  \* lines TcpClient::run has read and not yet pushed
    fed,      \* history: how many lines have been read
    sent, received, closed  \* the queue, as a FifoChannel

queueVars == <<sent, received, closed>>
clientVars == <<client, backlog, fed>>
vars == <<stop, clientVars, queueVars>>

Lines == 1 .. MaxLines

Queue == INSTANCE FifoChannel WITH Items <- Lines, Capacity <- LineCapacity

Phases ==
    {"starting", "resolving", "connecting", "reading", "pushing", "backing off", "done"}

TypeOK ==
    /\ client \in Phases
    /\ backlog \in Seq(Lines)
    /\ fed \in 0 .. MaxLines

Started == client = "starting" /\ backlog = <<>>

Init == stop = FALSE /\ Started /\ fed = 0 /\ Queue!Init

------------------------------------------------------------------------------
(* The reconnection loop and the phases of TcpClient::run.                   *)

\* How an attempt that ended without data ends: a stop is not a failure.
Unless(next) == client' = IF stop THEN "done" ELSE next

\* The loop condition.
StartAttempt ==
    /\ client = "starting"
    /\ Unless("resolving")
    /\ UNCHANGED <<backlog, fed, queueVars>>

\* A host name that cannot be resolved throws, whether a stop has come or not.
Resolve ==
    /\ client = "resolving"
    /\ client' \in {"connecting", "backing off"}
    /\ UNCHANGED <<backlog, fed, queueVars>>

\* The connection is there, or it failed or timed out.
ConnectEnds ==
    /\ client = "connecting"
    /\ \E next \in {"reading", "backing off"} : Unless(next)
    /\ UNCHANGED <<backlog, fed, queueVars>>

\* A read completed n lines, maybe none.  A stop is not looked at here.
ReadSome ==
    /\ client = "reading"
    /\ \E n \in 0 .. MaxChunk :
        /\ fed + n <= MaxLines
        /\ backlog' = [i \in 1 .. n |-> fed + i]
        /\ fed' = fed + n
    /\ client' = "pushing"
    /\ UNCHANGED queueVars

\* A read failed, timed out, or was ended by the stop callback.
ReadFails ==
    /\ client = "reading"
    /\ Unless("backing off")
    /\ UNCHANGED <<backlog, fed, queueVars>>

\* Mutant: the rest of the chunk is given up when a stop has been requested.
PushLineUnlessStopped ==
    /\ client = "pushing"
    /\ backlog # <<>>
    /\ IF stop
       THEN backlog' = <<>> /\ UNCHANGED queueVars
       ELSE Queue!Send(Head(backlog)) /\ backlog' = Tail(backlog)
    /\ UNCHANGED <<client, fed>>

\* output.push(line), which waits while the queue is full, stop or no stop.
PushLine ==
    /\ client = "pushing"
    /\ backlog # <<>>
    /\ Queue!Send(Head(backlog))
    /\ backlog' = Tail(backlog)
    /\ UNCHANGED <<client, fed>>

ChunkPushed ==
    /\ client = "pushing"
    /\ backlog = <<>>
    /\ Unless("reading")
    /\ UNCHANGED <<backlog, fed, queueVars>>

\* The delay is over or a stop was requested: back to the loop condition.
BackoffEnds ==
    /\ client = "backing off"
    /\ client' = "starting"
    /\ UNCHANGED <<backlog, fed, queueVars>>

Step ==
    \/ StartAttempt \/ Resolve \/ ConnectEnds \/ ReadSome \/ ReadFails
    \/ PushLine \/ ChunkPushed \/ BackoffEnds

------------------------------------------------------------------------------
(* The client by itself: someone requests the stop and takes the lines.      *)

RequestStop == stop' = TRUE /\ UNCHANGED <<clientVars, queueVars>>

TakeLine == Queue!Deliver /\ UNCHANGED <<stop, clientVars>>

Next == (Step /\ UNCHANGED stop) \/ RequestStop \/ TakeLine

Spec == Init /\ [][Next]_vars
============================================================================
