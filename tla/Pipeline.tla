------------------------------ MODULE Pipeline ------------------------------
(***************************************************************************)
(* The pipeline process (app/main.cpp): a client, a decoder and a writer   *)
(* thread joined by two bounded queues, a main thread that shuts them down *)
(* in order once a signal has been caught, and the database that survives  *)
(* the process.                                                            *)
(*                                                                         *)
(* The client is FeedClient.  The queues are instances of FifoChannel,     *)
(* which ThreadSafeQueue is shown to implement: a push on a full queue     *)
(* waits, and so does a pop on an empty one.  A line is its number in the  *)
(* order the client read it; which lines make the decoder stage produce a  *)
(* report is a constant, for what it does with a line is the business of   *)
(* DecoderStage.  A report is named by the line that completed it.         *)
(***************************************************************************)
EXTENDS Naturals, FiniteSets, SequencesExt

CONSTANTS
    MaxLines,      \* bound: lines the feed sends
    MaxChunk,      \* bound: lines completed by one read
    Reports,       \* the lines whose processing yields a report
    LineCapacity,  \* of queue1 (500)
    ReportCapacity,\* of queue2 (500)
    MaxBatch,      \* SqliteWriter::max_batch_size (500)
    MaxCrashes     \* bound: how often the process or the machine goes down

ASSUME PipelineAssumption ==
    /\ MaxLines \in Nat /\ MaxChunk \in Nat /\ MaxCrashes \in Nat
    /\ Reports \subseteq 1 .. MaxLines
    /\ LineCapacity \in Nat \ {0} /\ ReportCapacity \in Nat \ {0}
    /\ MaxBatch \in Nat \ {0}

VARIABLES
    signalled,   \* g_stop_requested
    stop,        \* a stop has been requested of the client thread
    main, client, decoder, writer,  \* where each thread is
    sent1, received1, closed1,      \* queue1, as a FifoChannel
    sent2, received2, closed2,      \* queue2, as a FifoChannel
    backlog,     \* lines TcpClient::run has read and not yet pushed
    batch,       \* what the writer popped last
    disk,        \* the batches committed to the database, in order
    checkpoint,  \* how many of them have reached the database file for certain
    fed,         \* history: how many lines have been read
    starts       \* history: the value of fed at each start of the process

clientVars  == <<client, backlog, fed>>
queue1Vars  == <<sent1, received1, closed1>>
queue2Vars  == <<sent2, received2, closed2>>
writerVars  == <<writer, batch, disk, checkpoint>>
vars == <<signalled, stop, main, clientVars, decoder, queue1Vars, queue2Vars,
          writerVars, starts>>

Lines == 1 .. MaxLines

Client == INSTANCE FeedClient WITH sent <- sent1, received <- received1, closed <- closed1

Queue1 == INSTANCE FifoChannel WITH
              Items <- Lines, Capacity <- LineCapacity,
              sent <- sent1, received <- received1, closed <- closed1

Queue2 == INSTANCE FifoChannel WITH
              Items <- Reports, Capacity <- ReportCapacity,
              sent <- sent2, received <- received2, closed <- closed2

TypeOK ==
    /\ Client!TypeOK
    /\ signalled \in BOOLEAN /\ stop \in BOOLEAN
    /\ main \in {"waiting", "joining client", "joining decoder", "joining writer",
                 "exited", "crashed"}
    /\ decoder \in {"popping", "processing", "done"}
    /\ writer \in {"popping", "writing", "done"}
    /\ sent1 \in Seq(Lines) /\ received1 \in Seq(Lines) /\ closed1 \in BOOLEAN
    /\ sent2 \in Seq(Reports) /\ received2 \in Seq(Reports) /\ closed2 \in BOOLEAN
    /\ batch \in Seq(Reports)
    /\ disk \in Seq(Seq(Reports))
    /\ checkpoint \in 0 .. Len(disk)
    /\ starts \in Seq(0 .. MaxLines)

\* main.cpp up to its wait loop, with the database and the feed as they are.
Started ==
    /\ signalled = FALSE /\ stop = FALSE /\ main = "waiting"
    /\ Client!Started
    /\ decoder = "popping" /\ Queue1!Init
    /\ writer = "popping" /\ batch = <<>> /\ Queue2!Init

Init == Started /\ disk = <<>> /\ checkpoint = 0 /\ fed = 0 /\ starts = <<0>>

Running == main \notin {"exited", "crashed"}

------------------------------------------------------------------------------
(* The client thread.                                                       *)

ClientStep ==
    /\ Running
    /\ Client!Step
    /\ UNCHANGED <<signalled, stop, main, decoder, queue2Vars, writerVars, starts>>

------------------------------------------------------------------------------
(* The decoder thread: DecoderStage::run.  Its stop token is never used.    *)

Line == received1[Len(received1)]

PopLine ==
    /\ decoder = "popping"
    /\ Queue1!Deliver
    /\ Len(received1') = Len(received1) + 1
    /\ decoder' = "processing"
    /\ UNCHANGED queue2Vars

\* The line was dropped, or is a fragment that completes nothing.
DropLine ==
    /\ decoder = "processing"
    /\ Line \notin Reports
    /\ decoder' = "popping"
    /\ UNCHANGED <<queue1Vars, queue2Vars>>

\* Mutant: a full queue2 makes the decoder drop the report.
PushReportIfRoom ==
    /\ decoder = "processing"
    /\ Line \in Reports
    /\ \/ Queue2!Send(Line)
       \/ Len(sent2) = Len(received2) + ReportCapacity /\ UNCHANGED queue2Vars
    /\ decoder' = "popping"
    /\ UNCHANGED queue1Vars

\* output.push(result), which waits while queue2 is full.
PushReport ==
    /\ decoder = "processing"
    /\ Line \in Reports
    /\ Queue2!Send(Line)
    /\ decoder' = "popping"
    /\ UNCHANGED queue1Vars

Drained(sent, received, closed) == closed /\ Len(sent) = Len(received)

\* Mutant: the decoder leaves as soon as queue1 is closed.
DecoderEndsEarly ==
    /\ decoder = "popping"
    /\ closed1
    /\ decoder' = "done"
    /\ UNCHANGED <<queue1Vars, queue2Vars>>

\* pop() returned nullopt.
DecoderEnds ==
    /\ decoder = "popping"
    /\ Drained(sent1, received1, closed1)
    /\ decoder' = "done"
    /\ UNCHANGED <<queue1Vars, queue2Vars>>

DecoderStep ==
    /\ Running
    /\ PopLine \/ DropLine \/ PushReport \/ DecoderEnds
    /\ UNCHANGED <<signalled, stop, main, clientVars, writerVars, starts>>

------------------------------------------------------------------------------
(* The writer thread: SqliteWriter::run.  Pruning is left to SqliteWriter. *)

Waiting2 == Len(sent2) - Len(received2)

\* pop_batch: whatever has queued up, at most MaxBatch reports.
PopBatch ==
    /\ writer = "popping"
    /\ Queue2!Deliver
    /\ Len(received2') = Len(received2) + (IF Waiting2 < MaxBatch THEN Waiting2 ELSE MaxBatch)
    /\ batch' = SubSeq(sent2, Len(received2) + 1, Len(received2'))
    /\ writer' = "writing"
    /\ UNCHANGED <<disk, checkpoint>>

\* The transaction: all of the batch or, if the process does not get here, none.
\* SQLite may carry the log over to the database file when it commits.
Commit ==
    /\ writer = "writing"
    /\ disk' = Append(disk, batch)
    /\ checkpoint' \in {checkpoint, Len(disk')}
    /\ batch' = <<>>
    /\ writer' = "popping"
    /\ UNCHANGED queue2Vars

WriterEnds ==
    /\ writer = "popping"
    /\ Drained(sent2, received2, closed2)
    /\ writer' = "done"
    /\ UNCHANGED <<batch, disk, checkpoint, queue2Vars>>

WriterStep ==
    /\ Running
    /\ PopBatch \/ Commit \/ WriterEnds
    /\ UNCHANGED <<signalled, stop, main, clientVars, decoder, queue1Vars, starts>>

------------------------------------------------------------------------------
(* The main thread, the signal handler and the end of the process.          *)

\* SIGINT or SIGTERM, at any time and more than once.
Signal ==
    /\ Running
    /\ signalled' = TRUE
    /\ UNCHANGED <<stop, main, clientVars, decoder, queue1Vars, queue2Vars, writerVars, starts>>

RequestStop ==
    /\ main = "waiting"
    /\ signalled
    /\ stop' = TRUE
    /\ main' = "joining client"
    /\ UNCHANGED <<closed1, closed2>>

\* Mutant: queue1 is closed without waiting for the client.
CloseQueue1Early ==
    /\ main = "joining client"
    /\ Queue1!Close
    /\ main' = "joining decoder"
    /\ UNCHANGED <<stop, closed2>>

\* client_thread.join() returned.
CloseQueue1 ==
    /\ main = "joining client"
    /\ client = "done"
    /\ Queue1!Close
    /\ main' = "joining decoder"
    /\ UNCHANGED <<stop, closed2>>

\* Mutant: main waits for the writer without closing its queue.
CloseQueue2Forgotten ==
    /\ main = "joining decoder"
    /\ decoder = "done"
    /\ main' = "joining writer"
    /\ UNCHANGED <<stop, closed1, queue2Vars>>

\* decoder_thread.join() returned.
CloseQueue2 ==
    /\ main = "joining decoder"
    /\ decoder = "done"
    /\ Queue2!Close
    /\ main' = "joining writer"
    /\ UNCHANGED <<stop, closed1>>

\* writer_thread.join() returned.
Exit ==
    /\ main = "joining writer"
    /\ writer = "done"
    /\ main' = "exited"
    /\ UNCHANGED <<stop, closed1, closed2>>

MainStep ==
    /\ RequestStop \/ CloseQueue1 \/ CloseQueue2 \/ Exit
    /\ UNCHANGED <<signalled, clientVars, decoder, sent1, received1, sent2, received2,
                   writerVars, starts>>

\* The process is killed, or an exception (a failed insert, say) leaves a thread:
\* the transaction under way is rolled back, the commits stay.
Crash ==
    /\ Running
    /\ Len(starts) <= MaxCrashes
    /\ main' = "crashed"
    /\ UNCHANGED <<signalled, stop, clientVars, decoder, queue1Vars, queue2Vars, writerVars, starts>>

\* Mutant: what a power cut leaves of the log has a hole in it.
PowerCutWithHole ==
    /\ Running
    /\ Len(starts) <= MaxCrashes
    /\ main' = "crashed"
    /\ \E lost \in checkpoint .. Len(disk) :
        disk' = SubSeq(disk, 1, lost - 1) \o SubSeq(disk, lost + 1, Len(disk))
    /\ checkpoint' = Len(disk')
    /\ UNCHANGED <<signalled, stop, clientVars, decoder, queue1Vars, queue2Vars, writer,
                   batch, starts>>

\* The power goes: synchronous=NORMAL lets it roll back the last few commits.
PowerCut ==
    /\ Running
    /\ Len(starts) <= MaxCrashes
    /\ main' = "crashed"
    /\ \E kept \in checkpoint .. Len(disk) : disk' = SubSeq(disk, 1, kept)
    /\ checkpoint' = Len(disk')
    /\ UNCHANGED <<signalled, stop, clientVars, decoder, queue1Vars, queue2Vars, writer,
                   batch, starts>>

\* compose.yaml has it started again; only the database is left.
Restart ==
    /\ main = "crashed"
    /\ signalled' = FALSE /\ stop' = FALSE /\ main' = "waiting"
    /\ client' = "starting" /\ backlog' = <<>>
    /\ decoder' = "popping" /\ sent1' = <<>> /\ received1' = <<>> /\ closed1' = FALSE
    /\ writer' = "popping" /\ batch' = <<>>
    /\ sent2' = <<>> /\ received2' = <<>> /\ closed2' = FALSE
    /\ starts' = Append(starts, fed)
    /\ UNCHANGED <<disk, checkpoint, fed>>

Exited == main = "exited" /\ UNCHANGED vars

Next ==
    \/ ClientStep \/ DecoderStep \/ WriterStep \/ MainStep
    \/ Signal \/ Crash \/ PowerCut \/ Restart \/ Exited

Spec == Init /\ [][Next]_vars

\* Every thread of a running process is scheduled, every connect and read ends
\* (with a timeout if nothing else), and one sleep of the main loop is finite.
\* Nothing is assumed of the feed, of signals or of crashes.
FairSpec ==
    /\ Spec
    /\ WF_vars(ClientStep) /\ WF_vars(DecoderStep) /\ WF_vars(WriterStep) /\ WF_vars(MainStep)

------------------------------------------------------------------------------
Stored == UNION {ToSet(disk[i]) : i \in 1 .. Len(disk)}

LastStart == starts[Len(starts)]

Increasing(s) == \A i, j \in 1 .. Len(s) : i < j => s[i] < s[j]

\* The lines that the process running now has read, in order, are those it has
\* pushed followed by those it is about to push; each report among the lines that
\* have left queue1 is in queue2 or has left it too, in the order of the lines,
\* save the one the decoder is holding; and each report that has left queue2 is in
\* the database or in the batch being written.
NothingLostOnTheWay ==
    main # "crashed" =>
        /\ sent1 \o backlog = [i \in 1 .. fed - LastStart |-> LastStart + i]
        /\ Increasing(sent2)
        /\ ToSet(sent2) =
               (ToSet(received1) \cap Reports)
               \ (IF decoder = "processing" THEN {Line} ELSE {})
        /\ {n \in Stored : n > LastStart} \cup ToSet(batch) = ToSet(received2)

\* A program that has ended by itself has stored every report it has read: neither
\* the queues, nor a batch, nor a chunk that was read when the stop was requested
\* is left behind ("Data that arrived is delivered even if a stop was requested
\* meanwhile", tcp_client.cpp:109).
CleanExitStoresEverything ==
    main = "exited" => Reports \cap (LastStart + 1 .. fed) \subseteq Stored

\* Nobody can still push onto a queue that has been closed: push would throw, and
\* the exception end the process.
ClosedAfterTheLastPush ==
    /\ closed1 => client = "done" /\ backlog = <<>>
    /\ closed2 => decoder = "done"

\* The client gives up for good only when it has been told to: no failure of the
\* feed leaves a process behind that runs and reads nothing.
ClientEndsOnlyWhenStopped == client = "done" => stop /\ signalled

\* A signal ends the program, with the feed silent, the queues full or a reconnect
\* pending, unless a crash does.
SignalEndsTheProgram == (signalled /\ Running) ~> ~Running

\* A report that the client has pushed is stored in the end, unless a crash prevents it.
EverythingIsStored ==
    \A n \in Reports : (n \in ToSet(sent1)) ~> (n \in Stored \/ main = "crashed")

\* From the client's pushes to the database the pipeline is a bounded channel into
\* a store that loses, after a crash, what was on its way or in the last commits.
ReportsAmong(lines) ==
    LET first[n \in 0 .. Len(lines)] ==  \* among the first n of them
            IF n = 0 THEN <<>>
            ELSE IF lines[n] \in Reports THEN Append(first[n - 1], lines[n])
            ELSE first[n - 1]
    IN first[Len(lines)]

\* The reports pushed by the client and not stored, if there is a process.
OnTheWay ==
    LET accepted == ReportsAmong(sent1)
        written  == Len(received2) - Len(batch)
    IN IF main = "crashed" THEN <<>> ELSE SubSeq(accepted, written + 1, Len(accepted))

InTheDatabase == FlattenSeq(disk)

ForCertain == Len(FlattenSeq(SubSeq(disk, 1, checkpoint)))

DatabaseChannel == INSTANCE DurableChannel WITH
    Items    <- Reports,
    Capacity <- LineCapacity + 1 + ReportCapacity + MaxBatch,
    pending  <- OnTheWay,
    stored   <- InTheDatabase,
    durable  <- ForCertain,
    closed   <- closed1

ImplementsDurableChannel == DatabaseChannel!Spec
============================================================================
