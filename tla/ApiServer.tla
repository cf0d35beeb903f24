------------------------------ MODULE ApiServer ------------------------------
(***************************************************************************)
(* The process of the API (api_server/main.cpp): main, which waits for a   *)
(* signal or for the server to end by itself, the thread that accepts      *)
(* connections, and httplib's pool of threads that read requests and call  *)
(* PositionReader.  Of httplib is modelled what main relies on: when the   *)
(* listening socket is closed, by stop() or because accept failed, the     *)
(* requests already begun are finished and the others are not.             *)
(***************************************************************************)
EXTENDS PositionReader

CONSTANTS
    KeepAliveMax,     \* keep_alive_max_count_
    MaxConnections    \* bound: connections accepted

ASSUME ServerAssumption == KeepAliveMax \in Nat \ {0} /\ MaxConnections \in Nat

VARIABLES
    stopRequested,    \* g_stop_requested
    main,             \* "waiting", "joining" or "exited"
    server,           \* the server thread: "starting", "accepting", "draining" or "returned"
    listening,        \* svr_sock_ is open
    jobs,             \* connections no thread of the pool has taken yet
    accepted,         \* how many there have been
    left              \* how many requests each thread's connection may still make

serverVars == <<stopRequested, main, server, listening, jobs, accepted, left>>
apiVars == <<commits, mutex, bound, snapshot, call,
             stopRequested, main, server, listening, jobs, accepted, left>>

ApiInit ==
    /\ ReaderInit
    /\ stopRequested = FALSE
    /\ main = "waiting" /\ server = "starting" /\ listening = TRUE
    /\ jobs = 0 /\ accepted = 0
    /\ left = [t \in Threads |-> 0]

\* handle_stop_signal.
Signal ==
    /\ ~stopRequested /\ main # "exited"
    /\ stopRequested' = TRUE
    /\ UNCHANGED <<readerVars, main, server, listening, jobs, accepted, left>>

\* listen_internal: there may be nothing to listen on any more.
Listen ==
    /\ server = "starting"
    /\ server' = IF listening THEN "accepting" ELSE "returned"
    /\ UNCHANGED <<readerVars, stopRequested, main, listening, jobs, accepted, left>>

Accept ==
    /\ server = "accepting" /\ listening
    /\ accepted < MaxConnections
    /\ accepted' = accepted + 1
    /\ jobs' = jobs + 1
    /\ UNCHANGED <<readerVars, stopRequested, main, server, listening, left>>

\* An error that will not go away: the socket is closed.
AcceptFails ==
    /\ server = "accepting" /\ listening
    /\ listening' = FALSE
    /\ UNCHANGED <<readerVars, stopRequested, main, server, jobs, accepted, left>>

AcceptLoopEnds ==
    /\ server = "accepting" /\ ~listening
    /\ server' = "draining"
    /\ UNCHANGED <<readerVars, stopRequested, main, listening, jobs, accepted, left>>

\* ThreadPool::shutdown joins its threads; server_returned is set.
PoolJoined ==
    /\ server = "draining"
    /\ jobs = 0 /\ \A t \in Threads : call[t].at = "idle"
    /\ server' = "returned"
    /\ UNCHANGED <<readerVars, stopRequested, main, listening, jobs, accepted, left>>

\* A thread of the pool takes a connection.
TakeJob(t) ==
    /\ server # "returned"
    /\ call[t].at = "idle" /\ jobs > 0
    /\ jobs' = jobs - 1
    /\ left' = [left EXCEPT ![t] = KeepAliveMax]
    /\ Goes(t, "connected")
    /\ UNCHANGED <<commits, mutex, bound, snapshot, stopRequested, main, server, listening, accepted>>

\* A request is there, and its parameters are as they should be.
HandleRequest(t) ==
    /\ call[t].at = "connected" /\ left[t] > 0
    /\ \E request \in Requests : Call(t, request)
    /\ UNCHANGED serverVars

\* Parameters that do not parse, or a limit out of range: 400, without a query.
BadRequest(t) ==
    /\ call[t].at = "connected" /\ left[t] > 0
    /\ left' = [left EXCEPT ![t] = @ - 1]
    /\ UNCHANGED <<readerVars, stopRequested, main, server, listening, jobs, accepted>>

\* The records, or 500 for an exception.
Respond(t) ==
    /\ call[t].at \in {"answered", "failed"}
    /\ call' = [call EXCEPT ![t] = [NoCall EXCEPT !.at = "connected"]]
    /\ left' = [left EXCEPT ![t] = @ - 1]
    /\ UNCHANGED <<commits, mutex, bound, snapshot, stopRequested, main, server, listening,
                   jobs, accepted>>

\* The connection is closed: by the client, after its last request, when none comes
\* in time, or because the server is no longer listening.
HangUp(t) ==
    /\ call[t].at = "connected"
    /\ left' = [left EXCEPT ![t] = 0]
    /\ Goes(t, "idle")
    /\ UNCHANGED <<commits, mutex, bound, snapshot, stopRequested, main, server, listening,
                   jobs, accepted>>

\* Mutant: stop() closes the socket of a server that is running only.
StopRunning ==
    /\ main = "waiting" /\ (stopRequested \/ server = "returned")
    /\ listening' = (listening /\ server # "accepting")
    /\ main' = "joining"
    /\ UNCHANGED <<readerVars, stopRequested, server, jobs, accepted, left>>

\* One of the two flags is set: server.stop().
Stop ==
    /\ main = "waiting" /\ (stopRequested \/ server = "returned")
    /\ listening' = FALSE
    /\ main' = "joining"
    /\ UNCHANGED <<readerVars, stopRequested, server, jobs, accepted, left>>

\* server_thread.join(), and the end of the process.
JoinServer ==
    /\ main = "joining" /\ server = "returned"
    /\ main' = "exited"
    /\ UNCHANGED <<readerVars, stopRequested, server, listening, jobs, accepted, left>>

ApiNext ==
    \/ Signal \/ Stop \/ JoinServer
    \/ Listen \/ Accept \/ AcceptFails \/ AcceptLoopEnds \/ PoolJoined
    \/ \E t \in Threads :
          \/ TakeJob(t) \/ HandleRequest(t) \/ BadRequest(t) \/ Respond(t) \/ HangUp(t)
          \/ ReaderStep(t) /\ UNCHANGED serverVars
    \/ PipelineCommits /\ UNCHANGED serverVars

ApiSpec == ApiInit /\ [][ApiNext]_apiVars

\* Threads run, the mutex goes to each in turn, a statement has only so many rows, and
\* keep-alive connections time out.
ApiFairness ==
    /\ WF_apiVars(Stop) /\ WF_apiVars(JoinServer)
    /\ WF_apiVars(Listen) /\ WF_apiVars(AcceptLoopEnds) /\ WF_apiVars(PoolJoined)
    /\ \A t \in Threads :
          /\ WF_apiVars(TakeJob(t)) /\ WF_apiVars(HangUp(t)) /\ WF_apiVars(Respond(t))
          /\ SF_apiVars(Lock(t) /\ UNCHANGED serverVars)
          /\ WF_apiVars(ReaderStep(t) /\ UNCHANGED serverVars)
----------------------------------------------------------------------------
InRequest(t) == call[t].at \notin {"idle", "connected"}

\* main.cpp:157-162.  A signal ends the process, in whatever state it finds the
\* server, and so does a server that ends by itself; but not before the requests in
\* progress have been answered, nor with a statement open on the connection.
EndsAfterTheLastAnswer ==
    /\ stopRequested ~> main = "exited"
    /\ server = "returned" ~> main = "exited"
    /\ [](main = "exited" =>
            /\ \A t \in Threads : ~InRequest(t)
            /\ \A s \in Statements : snapshot[s] = Nothing)
=============================================================================
