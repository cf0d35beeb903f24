----------------------------- MODULE TcpClient -----------------------------
(***************************************************************************)
(* The client thread in detail: the loop of app/main.cpp around            *)
(* TcpClient::run, its io_context with the one operation under way, the    *)
(* timeouts, and the stop callback that main runs while this thread is     *)
(* anywhere.  The delay before a retry is ReconnectBackoff.  What the      *)
(* framer makes of a chunk is LineFramer; a line here is its number in the *)
(* order of delivery.                                                      *)
(*                                                                         *)
(* The io_context has work while an operation has not been completed or a  *)
(* posted handler has not run; run() and run_for() return, and the context *)
(* is stopped, in the step that leaves it without.                         *)
(***************************************************************************)
EXTENDS ReconnectBackoff, Sequences

CONSTANTS
    MaxLines,     \* bound: lines the feed sends
    MaxChunk,     \* bound: lines completed by one read
    LineCapacity  \* of the queue

ASSUME ClientAssumption ==
    MaxLines \in Nat /\ MaxChunk \in Nat /\ LineCapacity \in Nat \ {0}

VARIABLES
    stop,       \* the stop token's state
    callback,   \* close_on_stop: "none", "registered", or "due" on main
    at,         \* where the thread is
    kind,       \* what it started last, "connect" or "read"
    op,         \* that operation, until its handler has run
    error,      \* connect_error or read_error is set
    posted,     \* the close posted by the callback is in the io_context
    open,       \* the socket
    inTime,     \* what completed_within will return
    backlog, fed, sent, received, closed  \* as in FeedClient

ioVars   == <<kind, op, error, posted, open, inTime>>
feedVars == <<backlog, fed, sent, received, closed>>
vars     == <<stop, callback, at, ioVars, feedVars, backoffVars>>

Inside  == {"entering", "waiting", "reaping", "checking", "pushing"}
Outside == {"loop", "backing off", "asleep", "done"}

Lines == 1 .. MaxLines

Queue == INSTANCE FifoChannel WITH Items <- Lines, Capacity <- LineCapacity

\* Main may be about to use the socket and the io_context only while they exist
\* ("so neither can be touched after they are gone", tcp_client.cpp:57).
TypeOK ==
    /\ stop \in BOOLEAN
    /\ at \in Inside \cup Outside
    /\ callback \in IF at \in Inside THEN {"none", "registered", "due"} ELSE {"none"}
    /\ kind \in {"connect", "read"}
    /\ op \in {"none", "pending", "succeeded", "failed"}
    /\ error \in BOOLEAN /\ posted \in BOOLEAN /\ open \in BOOLEAN /\ inTime \in BOOLEAN
    /\ backlog \in Seq(Lines) /\ fed \in 0 .. MaxLines
    /\ BackoffTypeOK

Init ==
    /\ stop = FALSE /\ callback = "none" /\ at = "loop"
    /\ kind = "connect" /\ op = "none" /\ error = FALSE
    /\ posted = FALSE /\ open = FALSE /\ inTime = TRUE
    /\ backlog = <<>> /\ fed = 0 /\ Queue!Init /\ BackoffInit

------------------------------------------------------------------------------
(* The loop of main.cpp.                                                    *)

LoopCondition ==
    /\ at = "loop"
    /\ at' = IF stop THEN "done" ELSE "entering"
    /\ UNCHANGED <<callback, ioVars, feedVars, backoffVars>>

\* A slice of the sleep, unless a stop has come or the delay is over.
FallAsleep ==
    /\ at = "backing off"
    /\ ~stop /\ slept < delay
    /\ at' = "asleep"
    /\ UNCHANGED <<callback, ioVars, feedVars, backoffVars>>

WakeUp ==
    /\ at = "asleep"
    /\ at' = "backing off"
    /\ SliceSlept
    /\ UNCHANGED <<callback, ioVars, feedVars>>

BackoffEnds ==
    /\ at = "backing off"
    /\ stop \/ slept >= delay
    /\ at' = "loop"
    /\ UNCHANGED <<callback, ioVars, feedVars, backoffVars>>

------------------------------------------------------------------------------
(* TcpClient::run.                                                          *)

\* The callback is taken back unless main has run it, then the context goes, and
\* what is in it.
Leave ==
    /\ callback' = "none"
    /\ op' = "none" /\ posted' = FALSE /\ open' = FALSE
    /\ UNCHANGED <<kind, error, inTime, feedVars>>

Return == at' = "done" /\ Leave /\ UNCHANGED backoffVars

\* An exception, which main.cpp catches to ask for the delay.
Throw ==
    /\ at' = "backing off"
    /\ Leave
    /\ \E duration \in Durations : AfterFailure(duration)

\* An operation is started, and completed_within enters run_for.
Start(operation, socketOpen) ==
    /\ at' = "waiting"
    /\ kind' = operation
    /\ op' = IF socketOpen THEN "pending" ELSE "failed"
    /\ open' = socketOpen
    /\ error' = FALSE
    /\ inTime' = TRUE

\* Mutant: a stop that came before the callback was registered is not noticed.
EnterUnaware ==
    /\ at = "entering"
    /\ Start("connect", TRUE)
    /\ callback' = "registered"
    /\ UNCHANGED <<posted, feedVars, backoffVars>>

\* Registers the callback, which runs at once if the stop has come, and connects.
Enter ==
    /\ at = "entering"
    /\ Start("connect", TRUE)
    /\ callback' = IF stop THEN "none" ELSE "registered"
    /\ posted' = stop
    /\ UNCHANGED <<feedVars, backoffVars>>

ResolveFails == at = "entering" /\ Throw

\* async_read_some
ReadNext ==
    /\ Start("read", open)
    /\ UNCHANGED <<callback, posted, feedVars, backoffVars>>

\* Mutant: the way the connect ended is looked at before the stop.
CheckConnectErrorFirst ==
    /\ at = "checking" /\ kind = "connect"
    /\ IF ~inTime \/ error
       THEN Throw
       ELSE IF stop
       THEN Return
       ELSE ReadNext

CheckConnect ==
    /\ at = "checking" /\ kind = "connect"
    /\ IF stop
       THEN Return
       ELSE IF ~inTime \/ error
       THEN Throw
       ELSE ReadNext

ReadEndedBadly ==
    /\ at = "checking" /\ kind = "read"
    /\ ~inTime \/ error
    /\ IF stop THEN Return ELSE Throw

\* framer.feed, which may complete any number of lines.
Frame ==
    /\ at = "checking" /\ kind = "read"
    /\ inTime /\ ~error
    /\ at' = "pushing"
    /\ \E n \in 0 .. MaxChunk :
        /\ fed + n <= MaxLines
        /\ backlog' = [i \in 1 .. n |-> fed + i]
        /\ fed' = fed + n
    /\ UNCHANGED <<callback, ioVars, sent, received, closed, backoffVars>>

PushLine ==
    /\ at = "pushing"
    /\ backlog # <<>>
    /\ Queue!Send(Head(backlog))
    /\ backlog' = Tail(backlog)
    /\ UNCHANGED <<callback, at, ioVars, fed, backoffVars>>

ChunkPushed ==
    /\ at = "pushing"
    /\ backlog = <<>>
    /\ IF stop THEN Return ELSE ReadNext

------------------------------------------------------------------------------
(* Inside run_for and run.                                                  *)

Running == at \in {"waiting", "reaping"}

Aborted(operation) == IF operation = "pending" THEN "failed" ELSE operation

\* A handler has run: the context stops if there is no more work.
Handled ==
    /\ at' = IF op' = "none" /\ ~posted' THEN "checking" ELSE at
    /\ UNCHANGED <<callback, kind, inTime, feedVars, backoffVars>>

RunCompletion ==
    /\ Running
    /\ op \in {"succeeded", "failed"}
    /\ error' = (op = "failed")
    /\ op' = "none"
    /\ UNCHANGED <<posted, open>>
    /\ Handled

\* socket.close(), which ends the operation under way if it has not ended.
RunPosted ==
    /\ Running
    /\ posted
    /\ posted' = FALSE
    /\ open' = FALSE
    /\ op' = Aborted(op)
    /\ UNCHANGED error
    /\ Handled

\* Mutant: the aborted operation is left in the context.
TimeoutLeavesOperation ==
    /\ at = "waiting"
    /\ at' = "checking"
    /\ inTime' = FALSE
    /\ open' = FALSE
    /\ op' = Aborted(op)
    /\ UNCHANGED <<callback, kind, error, posted, feedVars, backoffVars>>

\* Mutant: only the connect has a timeout.
TimeoutOfConnect ==
    /\ at = "waiting" /\ kind = "connect"
    /\ at' = "reaping"
    /\ inTime' = FALSE
    /\ open' = FALSE
    /\ op' = Aborted(op)
    /\ UNCHANGED <<callback, kind, error, posted, feedVars, backoffVars>>

\* run_for returns with work left, even a completion that is due.
Timeout ==
    /\ at = "waiting"
    /\ at' = "reaping"
    /\ inTime' = FALSE
    /\ open' = FALSE
    /\ op' = Aborted(op)
    /\ UNCHANGED <<callback, kind, error, posted, feedVars, backoffVars>>

------------------------------------------------------------------------------
(* The feed, the main thread and the decoder.                               *)

OperationEnds ==
    /\ op = "pending"
    /\ op' \in {"succeeded", "failed"}
    /\ UNCHANGED <<stop, callback, at, kind, error, posted, open, inTime, feedVars, backoffVars>>

RequestStop ==
    /\ ~stop
    /\ stop' = TRUE
    /\ callback' = IF callback = "registered" THEN "due" ELSE callback
    /\ UNCHANGED <<at, ioVars, feedVars, backoffVars>>

\* asio::post from main.
RunCallback ==
    /\ callback = "due"
    /\ callback' = "none"
    /\ posted' = TRUE
    /\ UNCHANGED <<stop, at, kind, op, error, open, inTime, feedVars, backoffVars>>

TakeLine ==
    /\ Queue!Deliver
    /\ UNCHANGED <<stop, callback, at, ioVars, backlog, fed, backoffVars>>

\* What the thread does by itself, without waiting for the feed or a timeout.
Step ==
    /\ \/ LoopCondition \/ FallAsleep \/ WakeUp \/ BackoffEnds
       \/ Enter \/ ResolveFails \/ CheckConnect \/ ReadEndedBadly \/ Frame
       \/ PushLine \/ ChunkPushed
       \/ RunCompletion \/ RunPosted
    /\ UNCHANGED stop

TimeoutStep == Timeout /\ UNCHANGED stop

Ended == at = "done" /\ UNCHANGED vars

Next ==
    \/ Step \/ TimeoutStep \/ OperationEnds \/ RequestStop \/ RunCallback \/ TakeLine
    \/ Ended

Spec == Init /\ [][Next]_vars

\* Threads get on, sleeps are finite, and the decoder takes its lines.  Nothing is
\* expected of the feed, and a wait may last for ever.
FairSpec == Spec /\ WF_vars(Step) /\ WF_vars(RunCallback) /\ WF_vars(TakeLine)

------------------------------------------------------------------------------
\* Handlers write to variables of the frame that started the operation, so that no
\* operation may outlive its wait ("so nothing is left pending when the next
\* operation starts", tcp_client.cpp:18).
NothingIsLeftPending == op # "none" => Running

\* Stopped, the thread ends without anything coming from the feed and without
\* waiting for a timeout, wherever the stop has met it ("stop_token is stopped:
\* returns normally, promptly, even mid-read", tcp_client.hpp:32).
StopIsPrompt == stop ~> at = "done"

\* The phase that the rest of the pipeline sees.
Phase ==
    IF at = "loop" THEN "starting"
    ELSE IF at = "entering" THEN "resolving"
    ELSE IF Running \/ at = "checking" THEN IF kind = "connect" THEN "connecting" ELSE "reading"
    ELSE IF at = "asleep" THEN "backing off"
    ELSE at

\* What Pipeline assumes of its client thread: FeedClient.
Client == INSTANCE FeedClient WITH client <- Phase

ImplementsClient == Client!Spec

\* If moreover a wait ends at its timeout at the latest, the thread never comes to
\* rest, silent as the feed may be: it reads on, connects anew, or has been stopped.
KeepsMoving ==
    WF_vars(TimeoutStep) =>
        \A phase \in Client!Phases \ {"done"} : Phase = phase ~> Phase # phase

\* Between two attempts lies the delay that belongs to the failures since the last
\* healthy connection, and less than one slice more, however long the feed has been
\* down: neither the cap on the counter nor the loop's early end shows.
SpacedByStreak ==
    [][(at = "backing off" /\ at' = "loop" /\ ~stop) =>
           Expected(streak) <= slept /\ slept < Expected(streak) + Slice]_vars
============================================================================
