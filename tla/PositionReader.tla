--------------------------- MODULE PositionReader ---------------------------
(***************************************************************************)
(* ais::PositionReader (api/src/position_reader.cpp): the server's threads *)
(* share one read-only connection, its three prepared statements and one   *)
(* mutex, while the pipeline goes on writing.                              *)
(*                                                                         *)
(* The contents of the database are known by the number of transactions    *)
(* committed, a row of an answer by what it was selected with and out of   *)
(* which contents.  Of SQLite is modelled that the first step of a         *)
(* statement takes a snapshot, that it is kept until the statement is done *)
(* or reset, and that parameters cannot be bound in between.               *)
(***************************************************************************)
EXTENDS Naturals, Sequences

CONSTANTS
    Threads,
    Requests, Statements,
    StatementOf,      \* which statement answers a request
    Nobody, Nothing,  \* no thread has the mutex; nothing bound, no snapshot
    MaxRows, MaxCommits   \* bounds

ASSUME ReaderAssumption ==
    /\ StatementOf \in [Requests -> Statements]
    /\ Nobody \notin Threads
    /\ Nothing \notin Requests \cup Nat
    /\ MaxRows \in Nat /\ MaxCommits \in Nat

VARIABLES
    commits,      \* transactions the pipeline has committed
    mutex,        \* who has mutex_
    bound,        \* the request whose parameters each statement has
    snapshot,     \* the contents each statement is reading
    call          \* what each thread is doing

readerVars == <<commits, mutex, bound, snapshot, call>>

NoCall == [at |-> "idle", request |-> Nothing, since |-> 0, rows |-> <<>>, whole |-> FALSE]

ReaderInit ==
    /\ commits = 0
    /\ mutex = Nobody
    /\ bound = [s \in Statements |-> Nothing]
    /\ snapshot = [s \in Statements |-> Nothing]
    /\ call = [t \in Threads |-> NoCall]

Statement(t) == StatementOf[call[t].request]

Goes(t, at) == call' = [call EXCEPT ![t].at = at]

\* history(), latest_positions() or positions_in_area() is called.
Call(t, request) ==
    /\ call' = [call EXCEPT ![t] = [at |-> "called", request |-> request, since |-> commits,
                                    rows |-> <<>>, whole |-> FALSE]]
    /\ UNCHANGED <<commits, mutex, bound, snapshot>>

Lock(t) ==
    /\ call[t].at = "called" /\ mutex = Nobody
    /\ mutex' = t
    /\ Goes(t, "locked")
    /\ UNCHANGED <<commits, bound, snapshot>>

\* Nobody looks at what sqlite3_bind returns, which refuses while there are rows left.
Bind(t) ==
    /\ call[t].at = "locked"
    /\ bound' = IF snapshot[Statement(t)] = Nothing
                  THEN [bound EXCEPT ![Statement(t)] = call[t].request] ELSE bound
    /\ Goes(t, "stepping")
    /\ UNCHANGED <<commits, mutex, snapshot>>

\* SQLITE_ROW: read_current_row, push_back.
StepRow(t) ==
    LET s    == Statement(t)
        from == IF snapshot[s] = Nothing THEN commits ELSE snapshot[s]
    IN  /\ call[t].at = "stepping"
        /\ Len(call[t].rows) < MaxRows
        /\ snapshot' = [snapshot EXCEPT ![s] = from]
        /\ call' = [call EXCEPT ![t].rows = Append(@, [of |-> bound[s], from |-> from])]
        /\ UNCHANGED <<commits, mutex, bound>>

\* SQLITE_DONE.
StepDone(t) ==
    /\ call[t].at = "stepping"
    /\ snapshot' = [snapshot EXCEPT ![Statement(t)] = Nothing]
    /\ call' = [call EXCEPT ![t].at = "collected", ![t].whole = TRUE]
    /\ UNCHANGED <<commits, mutex, bound>>

\* Any other code of sqlite3_step, or a row that cannot be stored: an exception.
StepFails(t) ==
    /\ call[t].at = "stepping"
    /\ Goes(t, "thrown")
    /\ UNCHANGED <<commits, mutex, bound, snapshot>>

\* Mutant: the statement is reset at the end of collect_rows, if that is reached.
ResetAtTheEnd(t) ==
    /\ call[t].at \in {"collected", "thrown"}
    /\ snapshot' = IF call[t].at = "thrown" THEN snapshot
                   ELSE [snapshot EXCEPT ![Statement(t)] = Nothing]
    /\ Goes(t, IF call[t].at = "collected" THEN "returning" ELSE "throwing")
    /\ UNCHANGED <<commits, mutex, bound>>

\* ~StatementReset.
Reset(t) ==
    /\ call[t].at \in {"collected", "thrown"}
    /\ snapshot' = [snapshot EXCEPT ![Statement(t)] = Nothing]
    /\ Goes(t, IF call[t].at = "collected" THEN "returning" ELSE "throwing")
    /\ UNCHANGED <<commits, mutex, bound>>

\* ~lock_guard.
Unlock(t) ==
    /\ call[t].at \in {"returning", "throwing"}
    /\ mutex' = Nobody
    /\ Goes(t, IF call[t].at = "returning" THEN "answered" ELSE "failed")
    /\ UNCHANGED <<commits, bound, snapshot>>

ReaderStep(t) ==
    \/ Lock(t) \/ Bind(t) \/ StepRow(t) \/ StepDone(t) \/ StepFails(t) \/ Reset(t) \/ Unlock(t)

\* The pipeline commits.
PipelineCommits ==
    /\ commits < MaxCommits
    /\ commits' = commits + 1
    /\ UNCHANGED <<mutex, bound, snapshot, call>>
----------------------------------------------------------------------------
\* position_reader.cpp:94-120 and 76-92.  What a call returns is all that was asked
\* for, selected with its own parameters out of the contents the database had at one
\* moment of the call, whatever the other threads ask and however their calls end.
AnswersAreSnapshots ==
    \A t \in Threads :
        call[t].at = "answered" =>
            /\ call[t].whole
            /\ \A i, j \in DOMAIN call[t].rows : call[t].rows[i] = call[t].rows[j]
            /\ \A i \in DOMAIN call[t].rows :
                   /\ call[t].rows[i].of = call[t].request
                   /\ call[t].rows[i].from \in call[t].since .. commits
=============================================================================
