--------------------------- MODULE PipelineProofs ---------------------------
(***************************************************************************)
(* The shutdown of the pipeline is in order, no line is lost, doubled or   *)
(* overtaken between the feed and the database, a clean exit leaves        *)
(* nothing behind, and the whole, crashes included, is a DurableChannel:   *)
(* for any number of lines and crashes, any capacities and batch size.     *)
(***************************************************************************)
EXTENDS Pipeline, SequenceTheorems, NaturalsInduction, WellFoundedInduction, TLAPS

\* How far the shutdown has come, as main, the threads and the queues show it.
Shutdown ==
    /\ client # "pushing" => backlog = <<>>
    /\ client = "done" => stop
    /\ stop => signalled
    /\ main = "waiting" => ~closed1 /\ ~closed2
    /\ main = "joining client" => ~closed1 /\ ~closed2
    /\ main = "joining decoder" => ~closed2
    /\ main \in {"joining decoder", "joining writer", "exited"} => client = "done"
    /\ main \in {"joining writer", "exited"} => decoder = "done"
    /\ closed1 => client = "done"
    /\ closed2 => decoder = "done"

\* A client that has ended has pushed what it read, and stays ended: every step of
\* its starts in another phase.
LEMMA ClientSteps ==
    ASSUME Client!Step
    PROVE  /\ client # "done"
           /\ (client # "pushing" => backlog = <<>>) => (client' # "pushing" => backlog' = <<>>)
           /\ client' = "done" => stop
           /\ closed1' = closed1
<1> USE DEF Client!Step, Client!Unless, Client!queueVars
<1>1. CASE Client!StartAttempt \/ Client!Resolve \/ Client!ConnectEnds
  BY <1>1 DEF Client!StartAttempt, Client!Resolve, Client!ConnectEnds
<1>2. CASE Client!ReadSome \/ Client!ReadFails
  BY <1>2 DEF Client!ReadSome, Client!ReadFails
<1>3. CASE Client!PushLine
  BY <1>3 DEF Client!PushLine, Client!Queue!Send
<1>4. CASE Client!ChunkPushed \/ Client!BackoffEnds
  BY <1>4 DEF Client!ChunkPushed, Client!BackoffEnds
<1> QED
  BY <1>1, <1>2, <1>3, <1>4

LEMMA ShutdownInvariant == Spec => []Shutdown
<1>1. Init => Shutdown
  BY DEF Init, Started, Client!Started, Queue1!Init, Queue2!Init, Shutdown
<1>2. Shutdown /\ [Next]_vars => Shutdown'
  <2> SUFFICES ASSUME Shutdown, [Next]_vars
               PROVE  Shutdown'
    OBVIOUS
  <2> USE DEF Shutdown
  <2>1. CASE ClientStep
    <3>1. /\ signalled' = signalled /\ stop' = stop /\ main' = main /\ decoder' = decoder
          /\ closed2' = closed2 /\ Client!Step
      BY <2>1 DEF ClientStep, queue2Vars
    <3>2. /\ client # "done"
          /\ client' # "pushing" => backlog' = <<>>
          /\ client' = "done" => stop
          /\ closed1' = closed1
      BY <3>1, ClientSteps
    <3> QED
      BY <3>1, <3>2, Zenon
  <2>2. CASE DecoderStep
    <3>1. closed1' = closed1 /\ closed2' = closed2 /\ decoder # "done"
      BY <2>2 DEF DecoderStep, PopLine, DropLine, PushReport, DecoderEnds, queue1Vars, queue2Vars,
                  Queue1!Deliver, Queue2!Send
    <3>2. /\ signalled' = signalled /\ stop' = stop /\ main' = main
          /\ client' = client /\ backlog' = backlog
      BY <2>2 DEF DecoderStep, clientVars
    <3> QED
      BY <3>1, <3>2, Zenon
  <2>3. CASE WriterStep
    <3>1. closed2' = closed2
      BY <2>3 DEF WriterStep, PopBatch, Commit, WriterEnds, queue2Vars, Queue2!Deliver
    <3>2. /\ signalled' = signalled /\ stop' = stop /\ main' = main /\ decoder' = decoder
          /\ client' = client /\ backlog' = backlog /\ closed1' = closed1
      BY <2>3 DEF WriterStep, clientVars, queue1Vars
    <3> QED
      BY <3>1, <3>2, Zenon
  <2>4. CASE MainStep
    <3>1. /\ signalled' = signalled /\ decoder' = decoder
          /\ client' = client /\ backlog' = backlog
      BY <2>4 DEF MainStep, clientVars
    <3>2. CASE RequestStop
      <4>1. /\ main = "waiting" /\ signalled /\ stop' /\ main' = "joining client"
            /\ closed1' = closed1 /\ closed2' = closed2
        BY <3>2 DEF RequestStop
      <4> QED
        BY <3>1, <4>1, Zenon
    <3>3. CASE CloseQueue1
      <4>1. /\ main = "joining client" /\ client = "done" /\ closed1'
            /\ main' = "joining decoder" /\ stop' = stop /\ closed2' = closed2
        BY <3>3 DEF CloseQueue1, Queue1!Close
      <4> QED
        BY <3>1, <4>1, Zenon
    <3>4. CASE CloseQueue2
      <4>1. /\ main = "joining decoder" /\ decoder = "done" /\ closed2'
            /\ main' = "joining writer" /\ stop' = stop /\ closed1' = closed1
        BY <3>4 DEF CloseQueue2, Queue2!Close
      <4> QED
        BY <3>1, <4>1, Zenon
    <3>5. CASE Exit
      <4>1. /\ main = "joining writer" /\ main' = "exited"
            /\ stop' = stop /\ closed1' = closed1 /\ closed2' = closed2
        BY <3>5 DEF Exit
      <4> QED
        BY <3>1, <4>1, Zenon
    <3> QED
      BY <2>4, <3>2, <3>3, <3>4, <3>5 DEF MainStep
  <2>5. CASE Signal
    <3>1. /\ signalled' /\ main' = main
          /\ stop' = stop /\ decoder' = decoder /\ client' = client /\ backlog' = backlog
          /\ closed1' = closed1 /\ closed2' = closed2
      BY <2>5 DEF Signal, clientVars, queue1Vars, queue2Vars
    <3> QED
      BY <3>1, Zenon
  <2>6. CASE Crash \/ PowerCut
    <3>1. /\ signalled' = signalled /\ main' = "crashed"
          /\ stop' = stop /\ decoder' = decoder /\ client' = client /\ backlog' = backlog
          /\ closed1' = closed1 /\ closed2' = closed2
      BY <2>6 DEF Crash, PowerCut, clientVars, queue1Vars, queue2Vars
    <3>2. main' \notin {"waiting", "joining client", "joining decoder", "joining writer", "exited"}
      BY <3>1
    <3> QED
      BY <3>1, <3>2, Zenon
  <2>7. CASE Restart
    BY <2>7 DEF Restart
  <2>8. CASE Exited \/ UNCHANGED vars
    <3>1. /\ signalled' = signalled /\ stop' = stop /\ main' = main /\ decoder' = decoder
          /\ client' = client /\ backlog' = backlog /\ closed1' = closed1 /\ closed2' = closed2
      BY <2>8 DEF Exited, vars, clientVars, queue1Vars, queue2Vars
    <3> QED
      BY <3>1, Zenon
  <2> QED
    BY <2>1, <2>2, <2>3, <2>4, <2>5, <2>6, <2>7, <2>8 DEF Next
<1> QED
  BY <1>1, <1>2, PTL DEF Spec

\* Each queue is closed only after the thread that pushes onto it has ended, with
\* nothing left to push: push never throws.
THEOREM NoPushAfterClose == Spec => []ClosedAfterTheLastPush
<1>1. Shutdown => ClosedAfterTheLastPush
  BY DEF Shutdown, ClosedAfterTheLastPush
<1> QED
  BY <1>1, ShutdownInvariant, PTL

\* The client ends only because the signal has been caught.
THEOREM ClientEndsOnRequest == Spec => []ClientEndsOnlyWhenStopped
<1>1. Shutdown => ClientEndsOnlyWhenStopped
  BY DEF Shutdown, ClientEndsOnlyWhenStopped
<1> QED
  BY <1>1, ShutdownInvariant, PTL

------------------------------------------------------------------------------
(* Nothing is lost between the feed and the database.  The lines a process   *)
(* has read are numbered from LastStart on, so it is enough to say of each   *)
(* sequence which numbers it has, and in which order.                        *)

\* The lines read are those pushed, in order, and those about to be pushed.
FirstQueue ==
    /\ LastStart + Len(sent1) + Len(backlog) = fed
    /\ \A i \in 1 .. Len(sent1) : sent1[i] = LastStart + i
    /\ \A i \in 1 .. Len(backlog) : backlog[i] = LastStart + Len(sent1) + i
    /\ Len(received1) <= Len(sent1)
    /\ \A i \in 1 .. Len(received1) : received1[i] = sent1[i]
    /\ decoder = "processing" => received1 # <<>>

\* The last line the decoder is done with.
Passed == LastStart + Len(received1) - (IF decoder = "processing" THEN 1 ELSE 0)

\* The reports pushed are those among the lines the decoder is done with, in order.
SecondQueue ==
    /\ Increasing(sent2)
    /\ \A n \in Reports :
          (\E i \in 1 .. Len(sent2) : sent2[i] = n) <=> n \in LastStart + 1 .. Passed
    /\ \A i \in 1 .. Len(sent2) : sent2[i] \in LastStart + 1 .. Passed
    /\ Len(received2) <= Len(sent2)
    /\ \A i \in 1 .. Len(received2) : received2[i] = sent2[i]

\* The reports popped are those stored since the start and those in the batch.
Database ==
    /\ writer # "writing" => batch = <<>>
    /\ \A n \in Stored : n <= fed
    /\ main # "crashed" =>
         \A n \in Reports :
             n \in ToSet(received2) <=> (n \in Stored /\ n > LastStart) \/ n \in ToSet(batch)

\* A thread that has ended has left nothing in its queue.
Ends ==
    /\ decoder = "done" => closed1 /\ Len(received1) = Len(sent1)
    /\ writer = "done" => closed2 /\ Len(received2) = Len(sent2)
    /\ main = "exited" => writer = "done"

Types ==
    /\ TypeOK
    /\ starts # <<>>

Inv == Types /\ FirstQueue /\ SecondQueue /\ Database /\ Ends

LEMMA ToSetFacts ==
    ASSUME NEW S, NEW s \in Seq(S)
    PROVE  \A x : x \in ToSet(s) <=> \E i \in 1 .. Len(s) : x = s[i]
  BY DEF ToSet

LEMMA NoElements == ToSet(<<>>) = {}
  BY DEF ToSet

LEMMA StoredFacts ==
    ASSUME TypeOK
    PROVE  /\ \A x : x \in Stored <=> \E i \in 1 .. Len(disk) : x \in ToSet(disk[i])
           /\ Stored \subseteq Reports
<1>1. \A x : x \in Stored <=> \E i \in 1 .. Len(disk) : x \in ToSet(disk[i])
  BY DEF Stored
<1>2. ASSUME NEW i \in 1 .. Len(disk) PROVE ToSet(disk[i]) \subseteq Reports
  <2>1. disk \in Seq(Seq(Reports))
    BY Zenon DEF TypeOK
  <2>2. disk[i] \in Seq(Reports)
    BY <2>1
  <2> QED
    BY <2>2, ToSetFacts
<1> QED
  BY <1>1, <1>2

\* What Inv is about, and what the numbers are.
LEMMA Numbers ==
    ASSUME Types
    PROVE  /\ LastStart \in 0 .. MaxLines /\ fed \in 0 .. MaxLines
           /\ Len(sent1) \in Nat /\ Len(backlog) \in Nat /\ Len(received1) \in Nat
           /\ Len(sent2) \in Nat /\ Len(received2) \in Nat
           /\ Reports \subseteq 1 .. MaxLines /\ MaxLines \in Nat
<1>1. /\ starts \in Seq(0 .. MaxLines) /\ starts # <<>> /\ fed \in 0 .. MaxLines
      /\ sent1 \in Seq(Lines) /\ backlog \in Seq(Client!Lines) /\ received1 \in Seq(Lines)
      /\ sent2 \in Seq(Reports) /\ received2 \in Seq(Reports)
  BY Zenon DEF Types, TypeOK, Client!TypeOK
<1>2. starts[Len(starts)] \in 0 .. MaxLines
  <2>1. Len(starts) \in Nat /\ Len(starts) # 0
    BY <1>1, EmptySeq, LenProperties
  <2>2. Len(starts) \in 1 .. Len(starts)
    BY <2>1
  <2> QED
    BY <1>1, <2>2, ElementOfSeq
<1> QED
  BY <1>1, <1>2, PipelineAssumption, LenProperties DEF LastStart

------------------------------------------------------------------------------
LEMMA InvInit == Init => Inv
<1> SUFFICES ASSUME Init PROVE Inv
  OBVIOUS
<1> USE DEF Init, Started, Client!Started, Queue1!Init, Queue2!Init
<1>1. /\ LastStart = 0 /\ Stored = {}
  BY DEF LastStart, Stored
<1>2. Types
  <2>1. /\ sent1 \in Seq(Lines) /\ received1 \in Seq(Lines) /\ backlog \in Seq(Client!Lines)
        /\ sent2 \in Seq(Reports) /\ received2 \in Seq(Reports) /\ batch \in Seq(Reports)
        /\ disk \in Seq(Seq(Reports)) /\ checkpoint \in 0 .. Len(disk)
    OBVIOUS
  <2>2. starts \in Seq(0 .. MaxLines) /\ starts # <<>> /\ fed \in 0 .. MaxLines
    BY PipelineAssumption
  <2>3. /\ client \in Client!Phases /\ decoder \in {"popping", "processing", "done"}
        /\ main \in {"waiting", "joining client", "joining decoder", "joining writer",
                     "exited", "crashed"}
        /\ writer \in {"popping", "writing", "done"}
        /\ signalled \in BOOLEAN /\ stop \in BOOLEAN /\ closed1 \in BOOLEAN /\ closed2 \in BOOLEAN
    BY DEF Client!Phases
  <2> QED
    BY <2>1, <2>2, <2>3, Zenon DEF Types, TypeOK, Client!TypeOK
<1>3. FirstQueue /\ Ends
  BY <1>1 DEF FirstQueue, Ends
<1>4. SecondQueue
  BY <1>1 DEF SecondQueue, Increasing, Passed
<1>5. Database
  BY <1>1 DEF Database, ToSet
<1> QED
  BY <1>2, <1>3, <1>4, <1>5 DEF Inv

\* The client: it reads on when it has pushed everything, and pushes in order.
LEMMA ClientKeeps ==
    ASSUME Inv, Shutdown, ClientStep
    PROVE  Inv'
<1>1. /\ UNCHANGED <<signalled, stop, main, decoder, queue2Vars, writerVars, starts>>
      /\ Client!Step /\ Types
  BY DEF ClientStep, Inv
<1>2. /\ client' \in Client!Phases /\ received1' = received1 /\ closed1' = closed1
      /\ \/ backlog' = backlog /\ fed' = fed /\ sent1' = sent1
         \/ Client!ReadSome /\ backlog = <<>> /\ sent1' = sent1
         \/ Client!PushLine /\ fed' = fed
  <2> USE DEF Client!Unless, Client!Phases, Client!queueVars, Client!Queue!Send
  <2>1. CASE Client!StartAttempt \/ Client!Resolve \/ Client!ConnectEnds
    BY <2>1 DEF Client!StartAttempt, Client!Resolve, Client!ConnectEnds
  <2>2. CASE Client!ReadSome
    BY <2>2 DEF Client!ReadSome, Shutdown
  <2>3. CASE Client!ReadFails \/ Client!ChunkPushed \/ Client!BackoffEnds
    BY <2>3 DEF Client!ReadFails, Client!ChunkPushed, Client!BackoffEnds
  <2>4. CASE Client!PushLine
    BY <2>4, <1>1 DEF Client!PushLine, Types, TypeOK, Client!TypeOK
  <2> QED
    BY <1>1, <2>1, <2>2, <2>3, <2>4 DEF Client!Step
<1>3. LastStart' = LastStart /\ Stored' = Stored
  BY <1>1 DEF LastStart, Stored, writerVars
<1>4. /\ fed' \in fed .. MaxLines /\ sent1' \in Seq(Lines) /\ backlog' \in Seq(Lines)
      /\ LastStart + Len(sent1') + Len(backlog') = fed'
      /\ \A i \in 1 .. Len(sent1') : sent1'[i] = LastStart + i
      /\ \A i \in 1 .. Len(backlog') : backlog'[i] = LastStart + Len(sent1') + i
      /\ Len(sent1) <= Len(sent1') /\ \A i \in 1 .. Len(sent1) : sent1'[i] = sent1[i]
      /\ closed1 => sent1' = sent1
  <2>1. /\ sent1 \in Seq(Lines) /\ backlog \in Seq(Lines) /\ fed \in 0 .. MaxLines
        /\ MaxLines \in Nat /\ LastStart \in 0 .. MaxLines
        /\ Len(sent1) \in Nat /\ Len(backlog) \in Nat
        /\ LastStart + Len(sent1) + Len(backlog) = fed
        /\ \A i \in 1 .. Len(sent1) : sent1[i] = LastStart + i
        /\ \A i \in 1 .. Len(backlog) : backlog[i] = LastStart + Len(sent1) + i
    BY <1>1, Numbers DEF Types, TypeOK, Client!TypeOK, Lines, Client!Lines, Inv, FirstQueue
  <2>2. CASE backlog' = backlog /\ fed' = fed /\ sent1' = sent1
    BY <2>1, <2>2
  <2>3. CASE Client!ReadSome /\ backlog = <<>> /\ sent1' = sent1
    <3>1. PICK n \in 0 .. MaxChunk :
             /\ fed + n <= MaxLines
             /\ backlog' = [i \in 1 .. n |-> fed + i]
             /\ fed' = fed + n
      BY <2>3 DEF Client!ReadSome
    <3>2. n \in Nat
      BY <3>1, PipelineAssumption
    <3>3. Len(backlog) = 0
      BY <2>3
    <3>4. backlog' \in Seq(Lines) /\ Len(backlog') = n /\ \A i \in 1 .. n : backlog'[i] = fed + i
      BY <2>1, <3>1, <3>2 DEF Lines
    <3>5. fed' \in fed .. MaxLines
      BY <2>1, <3>1, <3>2
    <3>6. LastStart + Len(sent1') + Len(backlog') = fed'
      BY <2>1, <2>3, <3>1, <3>3, <3>4
    <3>7. \A i \in 1 .. Len(backlog') : backlog'[i] = LastStart + Len(sent1') + i
      <4>1. fed = LastStart + Len(sent1')
        BY <2>1, <2>3, <3>3
      <4> QED
        BY <3>4, <4>1
    <3> QED
      BY <2>1, <2>3, <3>4, <3>5, <3>6, <3>7
  <2>4. CASE Client!PushLine /\ fed' = fed
    <3>1. /\ backlog # <<>> /\ sent1' = Append(sent1, Head(backlog)) /\ backlog' = Tail(backlog)
          /\ ~closed1
      BY <2>4 DEF Client!PushLine, Client!Queue!Send
    <3>2. /\ Tail(backlog) \in Seq(Lines) /\ Len(Tail(backlog)) = Len(backlog) - 1
          /\ \A i \in 1 .. Len(Tail(backlog)) : Tail(backlog)[i] = backlog[i+1]
          /\ Head(backlog) \in Lines /\ Head(backlog) = backlog[1] /\ Len(backlog) >= 1
      BY <2>1, <3>1, HeadTailProperties, EmptySeq
    <3>3. Head(backlog) = LastStart + Len(sent1) + 1
      BY <2>1, <3>2
    <3>4. /\ sent1' \in Seq(Lines) /\ Len(sent1') = Len(sent1) + 1
          /\ \A i \in 1 .. Len(sent1) : sent1'[i] = sent1[i]
          /\ sent1'[Len(sent1) + 1] = Head(backlog)
      BY <2>1, <3>1, <3>2, AppendProperties
    <3>5. Len(backlog') = Len(backlog) - 1 /\ fed' = fed
      BY <2>4, <3>1, <3>2
    <3>6. LastStart + Len(sent1') + Len(backlog') = fed'
      <4>1. Len(sent1') = Len(sent1) + 1 /\ LastStart + Len(sent1) + Len(backlog) = fed
        BY <2>1, <3>4
      <4>2. /\ LastStart \in Int /\ Len(sent1) \in Int /\ Len(backlog) \in Int /\ fed \in Int
        BY <2>1
      <4> QED
        BY <3>5, <4>1, <4>2
    <3>7. \A i \in 1 .. Len(sent1') : sent1'[i] = LastStart + i
      BY <2>1, <3>3, <3>4
    <3>8. ASSUME NEW i \in 1 .. Len(backlog')
          PROVE  backlog'[i] = LastStart + Len(sent1') + i
      <4>1. i \in 1 .. Len(Tail(backlog)) /\ i + 1 \in 1 .. Len(backlog)
        BY <2>1, <3>1, <3>2, <3>5
      <4>2. backlog'[i] = backlog[i + 1]
        BY <3>1, <3>2, <4>1
      <4>3. backlog[i + 1] = LastStart + Len(sent1) + (i + 1)
        BY <2>1, <4>1
      <4>4. Len(sent1') = Len(sent1) + 1
        BY <3>4
      <4> QED
        BY <2>1, <4>2, <4>3, <4>4
    <3> QED
      BY <2>1, <3>1, <3>2, <3>4, <3>5, <3>6, <3>7, <3>8
  <2> QED
    BY <1>2, <2>2, <2>3, <2>4
<1>5. Types'
  <2>1. /\ UNCHANGED <<signalled, stop, main, decoder, sent2, received2, closed2, writer, batch,
                        disk, checkpoint, starts, received1, closed1>>
    BY <1>1, <1>2 DEF queue2Vars, writerVars
  <2>2. sent1' \in Seq(Lines) /\ backlog' \in Seq(Client!Lines) /\ fed' \in 0 .. MaxLines
    BY <1>1, <1>4, Numbers DEF Lines, Client!Lines
  <2> QED
    BY <1>1, <1>2, <2>1, <2>2, Zenon DEF Types, TypeOK, Client!TypeOK
<1>6. FirstQueue' /\ (Ends' /\ Passed' = Passed)
  <2>1. /\ UNCHANGED <<main, decoder, sent2, received2, closed2, writer, received1, closed1>>
        /\ LastStart' = LastStart
    BY <1>1, <1>2, <1>3 DEF queue2Vars, writerVars
  <2>2. /\ FirstQueue /\ Ends
        /\ Len(sent1) \in Nat /\ Len(received1) \in Nat /\ Len(received1) <= Len(sent1)
        /\ \A i \in 1 .. Len(received1) : received1[i] = sent1[i]
    BY <1>1, Numbers DEF Inv, FirstQueue
  <2>3. Len(sent1') \in Nat
    BY <1>4, LenProperties
  <2>4. /\ Len(received1') <= Len(sent1')
        /\ \A i \in 1 .. Len(received1') : received1'[i] = sent1'[i]
    BY <1>4, <2>1, <2>2, <2>3
  <2>5. FirstQueue'
    BY <1>4, <2>1, <2>2, <2>4 DEF FirstQueue
  <2>6. Ends'
    BY <1>4, <2>1, <2>2 DEF Ends
  <2>7. Passed' = Passed
    BY <2>1 DEF Passed
  <2> QED
    BY <2>5, <2>6, <2>7
<1>7. SecondQueue'
  BY <1>1, <1>3, <1>6 DEF Inv, SecondQueue, Increasing, queue2Vars
<1>8. Database'
  BY <1>1, <1>3, <1>4, Numbers, StoredFacts DEF Inv, Database, queue2Vars, writerVars, ToSet, Types
<1> QED
  BY <1>5, <1>6, <1>7, <1>8 DEF Inv

\* The decoder: it takes the next line, and passes it on if it makes a report.
LEMMA DecoderKeeps ==
    ASSUME Inv, DecoderStep
    PROVE  Inv'
<1>1. /\ UNCHANGED <<signalled, stop, main, client, backlog, fed, writerVars, starts>>
      /\ Types /\ FirstQueue /\ SecondQueue /\ Database /\ Ends
      /\ PopLine \/ DropLine \/ PushReport \/ DecoderEnds
  BY DEF DecoderStep, Inv, clientVars
<1>2. LastStart' = LastStart /\ Stored' = Stored
  BY <1>1 DEF LastStart, Stored, writerVars
<1>3. /\ sent1 \in Seq(Lines) /\ received1 \in Seq(Lines) /\ sent2 \in Seq(Reports)
      /\ received2 \in Seq(Reports)
  BY <1>1, Zenon DEF Types, TypeOK
<1>4. /\ LastStart \in 0 .. MaxLines /\ Len(sent1) \in Nat /\ Len(received1) \in Nat
      /\ Len(sent2) \in Nat /\ Len(received2) \in Nat /\ Reports \subseteq 1 .. MaxLines
      /\ MaxLines \in Nat
  BY <1>1, Numbers
<1>5. decoder = "processing" => Len(received1) >= 1 /\ Line = LastStart + Len(received1)
  <2> SUFFICES ASSUME decoder = "processing"
               PROVE  Len(received1) >= 1 /\ Line = LastStart + Len(received1)
    OBVIOUS
  <2>1. Len(received1) >= 1
    BY <1>1, <1>3, EmptySeq DEF FirstQueue
  <2>2. received1[Len(received1)] = sent1[Len(received1)]
    BY <1>1, <1>4, <2>1 DEF FirstQueue
  <2>3. sent1[Len(received1)] = LastStart + Len(received1)
    BY <1>1, <1>4, <2>1 DEF FirstQueue
  <2> QED
    BY <2>1, <2>2, <2>3 DEF Line
<1>6. Database'
  <2>1. received2' = received2
    BY <1>1 DEF PopLine, DropLine, PushReport, DecoderEnds, queue2Vars, Queue2!Send
  <2> QED
    BY <1>1, <1>2, <2>1 DEF Database, writerVars, ToSet
<1>7. CASE PopLine
  <2>1. /\ decoder = "popping" /\ decoder' = "processing"
        /\ UNCHANGED <<sent1, closed1, sent2, received2, closed2>>
        /\ \E n \in Len(received1) + 1 .. Len(sent1) : received1' = SubSeq(sent1, 1, n)
        /\ Len(received1') = Len(received1) + 1
    BY <1>7 DEF PopLine, Queue1!Deliver, queue2Vars
  <2>2. PICK n \in Len(received1) + 1 .. Len(sent1) : received1' = SubSeq(sent1, 1, n)
    BY <2>1
  <2>3. n \in 1 .. Len(sent1) /\ \A i \in 1 .. n : sent1[i] \in Lines
    BY <1>3, <1>4, <2>2, ElementOfSeq
  <2>4. /\ received1' \in Seq(Lines) /\ Len(received1') = n
        /\ \A i \in 1 .. n : received1'[i] = sent1[i]
    BY <2>2, <2>3, SubSeqProperties
  <2>5. Types'
    BY <1>1, <2>1, <2>4, Zenon DEF Types, TypeOK, Client!TypeOK, writerVars
  <2>6. FirstQueue' /\ Ends'
    <3>1. received1' # <<>>
      BY <1>4, <2>1, <2>4
    <3> QED
      BY <1>1, <1>2, <2>1, <2>3, <2>4, <3>1 DEF FirstQueue, Ends, writerVars
  <2>7. Passed' = Passed
    BY <1>2, <1>4, <2>1 DEF Passed
  <2>8. SecondQueue'
    BY <1>1, <1>2, <2>1, <2>7 DEF SecondQueue, Increasing
  <2> QED
    BY <1>6, <2>5, <2>6, <2>8 DEF Inv
<1>8. CASE DropLine
  <2>1. /\ decoder = "processing" /\ decoder' = "popping" /\ Line \notin Reports
        /\ UNCHANGED <<sent1, received1, closed1, sent2, received2, closed2>>
    BY <1>8 DEF DropLine, queue1Vars, queue2Vars
  <2>2. Types'
    BY <1>1, <2>1, Zenon DEF Types, TypeOK, Client!TypeOK, writerVars
  <2>3. FirstQueue' /\ Ends'
    BY <1>1, <1>2, <2>1 DEF FirstQueue, Ends, writerVars
  <2>4. Passed' = Passed + 1 /\ Passed' \notin Reports /\ Passed \in Int
    BY <1>2, <1>4, <1>5, <2>1 DEF Passed
  <2>5. \A n \in Reports : n \in Int /\ (n \in LastStart + 1 .. Passed' <=> n \in LastStart + 1 .. Passed)
    BY <1>4, <2>4
  <2>6. SecondQueue'
    <3>1. \A i \in 1 .. Len(sent2) : sent2[i] \in LastStart + 1 .. Passed'
      BY <1>1, <1>4, <2>4 DEF SecondQueue
    <3> QED
      BY <1>1, <1>2, <2>1, <2>5, <3>1 DEF SecondQueue, Increasing
  <2> QED
    BY <1>6, <2>2, <2>3, <2>6 DEF Inv
<1>9. CASE PushReport
  <2>1. /\ decoder = "processing" /\ decoder' = "popping" /\ Line \in Reports /\ ~closed2
        /\ sent2' = Append(sent2, Line)
        /\ UNCHANGED <<sent1, received1, closed1, received2, closed2>>
    BY <1>9 DEF PushReport, Queue2!Send, queue1Vars
  <2>2. /\ sent2' \in Seq(Reports) /\ Len(sent2') = Len(sent2) + 1
        /\ \A i \in 1 .. Len(sent2) : sent2'[i] = sent2[i]
        /\ sent2'[Len(sent2) + 1] = Line
    BY <1>3, <2>1, AppendProperties
  <2>3. Types'
    BY <1>1, <2>1, <2>2, Zenon DEF Types, TypeOK, Client!TypeOK, writerVars
  <2>4. FirstQueue'
    BY <1>1, <1>2, <2>1 DEF FirstQueue
  <2>5. Ends'
    BY <1>1, <2>1 DEF Ends, writerVars
  <2>6. Passed' = Line /\ Line = Passed + 1 /\ Passed \in Int /\ LastStart <= Passed
    BY <1>2, <1>4, <1>5, <2>1 DEF Passed
  <2>7. SecondQueue'
    <3>1. Increasing(sent2')
      <4> SUFFICES ASSUME NEW i \in 1 .. Len(sent2'), NEW j \in 1 .. Len(sent2'), i < j
                   PROVE  sent2'[i] < sent2'[j]
        BY DEF Increasing
      <4>1. i \in 1 .. Len(sent2) /\ sent2'[i] = sent2[i] /\ sent2[i] \in LastStart + 1 .. Passed
        BY <1>1, <1>4, <2>2 DEF SecondQueue
      <4>2. CASE j \in 1 .. Len(sent2)
        BY <1>1, <2>2, <4>1, <4>2 DEF SecondQueue, Increasing
      <4>3. CASE j = Len(sent2) + 1
        BY <1>4, <2>2, <2>6, <4>1, <4>3
      <4> QED
        BY <1>4, <2>2, <4>2, <4>3
    <3>2. ASSUME NEW n \in Reports
          PROVE  (\E i \in 1 .. Len(sent2') : sent2'[i] = n) <=> n \in LastStart + 1 .. Passed'
      <4>1. n \in Int /\ (n \in LastStart + 1 .. Passed' <=> n \in LastStart + 1 .. Passed \/ n = Line)
        BY <1>4, <2>6
      <4>2. (\E i \in 1 .. Len(sent2') : sent2'[i] = n)
              <=> (\E i \in 1 .. Len(sent2) : sent2[i] = n) \/ n = Line
        BY <1>4, <2>2
      <4> QED
        BY <1>1, <4>1, <4>2 DEF SecondQueue
    <3>3. ASSUME NEW i \in 1 .. Len(sent2') PROVE sent2'[i] \in LastStart + 1 .. Passed'
      <4>1. CASE i \in 1 .. Len(sent2)
        <5>1. sent2'[i] = sent2[i] /\ sent2[i] \in LastStart + 1 .. Passed
          BY <1>1, <2>2, <4>1 DEF SecondQueue
        <5> QED
          BY <1>4, <2>6, <5>1
      <4>2. CASE i = Len(sent2) + 1
        BY <1>4, <2>2, <2>6, <4>2
      <4> QED
        BY <1>4, <2>2, <4>1, <4>2
    <3>4. Len(received2) <= Len(sent2') /\ \A i \in 1 .. Len(received2) : received2[i] = sent2'[i]
      BY <1>1, <1>4, <2>2 DEF SecondQueue
    <3> QED
      BY <1>2, <2>1, <3>1, <3>2, <3>3, <3>4 DEF SecondQueue
  <2> QED
    BY <1>6, <2>3, <2>4, <2>5, <2>7 DEF Inv
<1>10. CASE DecoderEnds
  <2>1. /\ decoder = "popping" /\ decoder' = "done" /\ closed1 /\ Len(sent1) = Len(received1)
        /\ UNCHANGED <<sent1, received1, closed1, sent2, received2, closed2>>
    BY <1>10 DEF DecoderEnds, Drained, queue1Vars, queue2Vars
  <2>2. Types'
    BY <1>1, <2>1, Zenon DEF Types, TypeOK, Client!TypeOK, writerVars
  <2>3. FirstQueue' /\ Ends' /\ Passed' = Passed
    BY <1>1, <1>2, <2>1 DEF FirstQueue, Ends, Passed, writerVars
  <2>4. SecondQueue'
    BY <1>1, <1>2, <2>1, <2>3 DEF SecondQueue, Increasing
  <2> QED
    BY <1>6, <2>2, <2>3, <2>4 DEF Inv
<1> QED
  BY <1>1, <1>7, <1>8, <1>9, <1>10

\* The writer: what it pops is its batch, which is stored as a whole.
LEMMA WriterKeeps ==
    ASSUME Inv, WriterStep
    PROVE  Inv'
<1>1. /\ UNCHANGED <<signalled, stop, main, client, backlog, fed, decoder, sent1, received1, closed1,
                     starts>>
      /\ Types /\ FirstQueue /\ SecondQueue /\ Database /\ Ends
      /\ PopBatch \/ Commit \/ WriterEnds
  BY DEF WriterStep, Inv, clientVars, queue1Vars
<1>2. LastStart' = LastStart /\ Passed' = Passed
  BY <1>1 DEF LastStart, Passed
<1>3. /\ sent2 \in Seq(Reports) /\ received2 \in Seq(Reports) /\ batch \in Seq(Reports)
      /\ disk \in Seq(Seq(Reports)) /\ checkpoint \in 0 .. Len(disk) /\ Len(disk) \in Nat
      /\ Len(sent2) \in Nat /\ Len(received2) \in Nat
  <2>1. /\ sent2 \in Seq(Reports) /\ received2 \in Seq(Reports) /\ batch \in Seq(Reports)
        /\ disk \in Seq(Seq(Reports)) /\ checkpoint \in 0 .. Len(disk)
    BY <1>1, Zenon DEF Types, TypeOK
  <2> QED
    BY <2>1, LenProperties
<1>4. FirstQueue'
  BY <1>1, <1>2 DEF FirstQueue
<1>5. CASE PopBatch
  <2>1. /\ writer = "popping" /\ writer' = "writing"
        /\ UNCHANGED <<sent2, closed2, disk, checkpoint>>
        /\ \E n \in Len(received2) + 1 .. Len(sent2) : received2' = SubSeq(sent2, 1, n)
        /\ batch' = SubSeq(sent2, Len(received2) + 1, Len(received2'))
    BY <1>5 DEF PopBatch, Queue2!Deliver
  <2>2. PICK n \in Len(received2) + 1 .. Len(sent2) : received2' = SubSeq(sent2, 1, n)
    BY <2>1
  <2>3. n \in 1 .. Len(sent2) /\ \A i \in 1 .. n : sent2[i] \in Reports
    BY <1>3, <2>2, ElementOfSeq
  <2>4. /\ received2' \in Seq(Reports) /\ Len(received2') = n
        /\ \A i \in 1 .. n : received2'[i] = sent2[i]
    BY <2>2, <2>3, SubSeqProperties
  <2>5. /\ batch' \in Seq(Reports) /\ Len(batch') = n - Len(received2)
        /\ \A i \in 1 .. n - Len(received2) : batch'[i] = sent2[Len(received2) + i]
    <3>1. batch' = SubSeq(sent2, Len(received2) + 1, n)
      BY <2>1, <2>4
    <3>2. \A i \in Len(received2) + 1 .. n : sent2[i] \in Reports
      BY <1>3, <2>3
    <3>3. /\ batch' \in Seq(Reports)
          /\ Len(batch') = IF Len(received2) + 1 <= n THEN n - (Len(received2) + 1) + 1 ELSE 0
          /\ \A i \in 1 .. n - (Len(received2) + 1) + 1 :
                batch'[i] = sent2[Len(received2) + 1 + i - 1]
      BY <1>3, <2>3, <3>1, <3>2, SubSeqProperties
    <3> QED
      BY <1>3, <2>2, <3>3
  <2>6. Types'
    BY <1>1, <2>1, <2>4, <2>5, Zenon DEF Types, TypeOK, Client!TypeOK
  <2>7. SecondQueue'
    BY <1>1, <1>2, <1>3, <2>1, <2>3, <2>4 DEF SecondQueue, Increasing
  <2>8. Ends'
    BY <1>1, <2>1 DEF Ends
  <2>9. \A x : x \in ToSet(received2') <=> x \in ToSet(received2) \/ x \in ToSet(batch')
    <3>1. ASSUME NEW x, x \in ToSet(received2')
          PROVE  x \in ToSet(received2) \/ x \in ToSet(batch')
      <4>1. PICK i \in 1 .. n : x = sent2[i]
        BY <2>4, <3>1, ToSetFacts
      <4>2. CASE i <= Len(received2)
        <5>1. received2[i] = sent2[i] /\ i \in 1 .. Len(received2)
          BY <1>1, <1>3, <2>3, <4>2 DEF SecondQueue
        <5> QED
          BY <1>3, <4>1, <5>1, ToSetFacts
      <4>3. CASE i > Len(received2)
        <5>1. i - Len(received2) \in 1 .. n - Len(received2)
          BY <1>3, <2>3, <4>3
        <5>2. batch'[i - Len(received2)] = sent2[Len(received2) + (i - Len(received2))]
          BY <2>5, <5>1
        <5>3. Len(received2) + (i - Len(received2)) = i
          BY <1>3, <2>3
        <5> QED
          BY <2>5, <4>1, <5>1, <5>2, <5>3, ToSetFacts
      <4> QED
        BY <1>3, <2>3, <4>2, <4>3
    <3>2. ASSUME NEW x, x \in ToSet(received2)
          PROVE  x \in ToSet(received2')
      <4>1. PICK i \in 1 .. Len(received2) : x = received2[i]
        BY <1>3, <3>2, ToSetFacts
      <4>2. i \in 1 .. n /\ received2[i] = sent2[i]
        BY <1>1, <1>3, <2>2 DEF SecondQueue
      <4> QED
        BY <2>4, <4>1, <4>2, ToSetFacts
    <3>3. ASSUME NEW x, x \in ToSet(batch')
          PROVE  x \in ToSet(received2')
      <4>1. PICK i \in 1 .. n - Len(received2) : x = sent2[Len(received2) + i]
        <5>1. PICK i \in 1 .. Len(batch') : x = batch'[i]
          BY <2>5, <3>3, ToSetFacts
        <5> QED
          BY <2>5, <5>1
      <4>2. Len(received2) + i \in 1 .. n
        BY <1>3, <2>3
      <4> QED
        BY <2>4, <4>1, <4>2, ToSetFacts
    <3> QED
      BY <3>1, <3>2, <3>3
  <2>10. Database'
    <3>1. Stored' = Stored
      BY <2>1 DEF Stored
    <3>2. ~(\E x : x \in ToSet(batch))
      <4>1. batch = <<>>
        BY <1>1, <2>1 DEF Database
      <4> QED
        BY <4>1, NoElements
    <3> QED
      BY <1>1, <1>2, <2>1, <2>9, <3>1, <3>2 DEF Database
  <2> QED
    BY <1>4, <2>6, <2>7, <2>8, <2>10 DEF Inv
<1>6. CASE Commit
  <2>1. /\ writer = "writing" /\ writer' = "popping" /\ disk' = Append(disk, batch) /\ batch' = <<>>
        /\ checkpoint' \in {checkpoint, Len(disk')}
        /\ UNCHANGED <<sent2, received2, closed2>>
    BY <1>6 DEF Commit, queue2Vars
  <2>2. /\ disk' \in Seq(Seq(Reports)) /\ Len(disk') = Len(disk) + 1
        /\ \A i \in 1 .. Len(disk) : disk'[i] = disk[i]
        /\ disk'[Len(disk) + 1] = batch
    BY <1>3, <2>1, AppendProperties
  <2>3. checkpoint' \in 0 .. Len(disk') /\ batch' \in Seq(Reports)
    BY <1>3, <2>1, <2>2
  <2>4. Types'
    BY <1>1, <2>1, <2>2, <2>3, Zenon DEF Types, TypeOK, Client!TypeOK
  <2>5. SecondQueue' /\ Ends'
    BY <1>1, <1>2, <2>1 DEF SecondQueue, Increasing, Ends
  <2>6. \A x : x \in Stored' <=> x \in Stored \/ x \in ToSet(batch)
    <3>1. \A x : x \in Stored <=> \E i \in 1 .. Len(disk) : x \in ToSet(disk[i])
      BY DEF Stored
    <3>2. \A x : x \in Stored' <=> \E i \in 1 .. Len(disk') : x \in ToSet(disk'[i])
      BY DEF Stored
    <3>3. ASSUME NEW x, x \in Stored' PROVE x \in Stored \/ x \in ToSet(batch)
      <4>1. PICK i \in 1 .. Len(disk') : x \in ToSet(disk'[i])
        BY <3>2, <3>3
      <4>2. i \in 1 .. Len(disk) \/ i = Len(disk) + 1
        BY <1>3, <2>2
      <4> QED
        BY <2>2, <3>1, <4>1, <4>2
    <3>4. ASSUME NEW x, x \in Stored PROVE x \in Stored'
      <4>1. PICK i \in 1 .. Len(disk) : x \in ToSet(disk[i])
        BY <3>1, <3>4
      <4>2. i \in 1 .. Len(disk')
        BY <1>3, <2>2
      <4> QED
        BY <2>2, <3>2, <4>1, <4>2
    <3>5. Len(disk) + 1 \in 1 .. Len(disk')
      BY <1>3, <2>2
    <3> QED
      BY <2>2, <3>2, <3>3, <3>4, <3>5
  <2>7. \A x \in ToSet(batch) : x \in Reports /\ x \in ToSet(received2) /\ x <= fed
    <3> SUFFICES ASSUME NEW x \in ToSet(batch)
                 PROVE  x \in Reports /\ x \in ToSet(received2) /\ x <= fed
      OBVIOUS
    <3>1. x \in Reports
      BY <1>3, ToSetFacts
    <3>2. main # "crashed"
      BY DEF WriterStep, Running
    <3> QED
      <4>1. x \in ToSet(received2)
        BY <1>1, <3>1, <3>2 DEF Database
      <4>2. PICK i \in 1 .. Len(received2) : x = received2[i]
        BY <1>3, <4>1, ToSetFacts
      <4>3. x = sent2[i] /\ i \in 1 .. Len(sent2)
        BY <1>1, <1>3, <4>2 DEF SecondQueue
      <4>4. x \in LastStart + 1 .. Passed
        BY <1>1, <4>3 DEF SecondQueue
      <4>5. Passed <= fed
        BY <1>1, Numbers DEF FirstQueue, Passed
      <4>6. x \in Int /\ Passed \in Int /\ fed \in Int /\ LastStart \in Int
        BY <1>1, <3>1, Numbers DEF Passed
      <4> QED
        BY <3>1, <4>1, <4>4, <4>5, <4>6
  <2>8. \A x \in ToSet(batch) : x > LastStart
    <3> SUFFICES ASSUME NEW x \in ToSet(batch) PROVE x > LastStart
      OBVIOUS
    <3>1. PICK i \in 1 .. Len(received2) : x = received2[i]
      BY <1>3, <2>7, ToSetFacts
    <3>2. x = sent2[i] /\ i \in 1 .. Len(sent2)
      BY <1>1, <1>3, <3>1 DEF SecondQueue
    <3>3. x \in LastStart + 1 .. Passed
      BY <1>1, <3>2 DEF SecondQueue
    <3>4. LastStart \in Int /\ Passed \in Int
      BY <1>1, Numbers DEF Passed
    <3> QED
      BY <3>3, <3>4
  <2>9. Database'
    <3>1. ~(\E x : x \in ToSet(batch'))
      BY <2>1, NoElements
    <3> QED
      BY <1>1, <1>2, <2>1, <2>6, <2>7, <2>8, <3>1 DEF Database
  <2> QED
    BY <1>4, <2>4, <2>5, <2>9 DEF Inv
<1>7. CASE WriterEnds
  <2>1. /\ writer = "popping" /\ writer' = "done" /\ closed2 /\ Len(sent2) = Len(received2)
        /\ UNCHANGED <<sent2, received2, closed2, batch, disk, checkpoint>>
    BY <1>7 DEF WriterEnds, Drained, queue2Vars
  <2>2. Types'
    BY <1>1, <2>1, Zenon DEF Types, TypeOK, Client!TypeOK
  <2>3. SecondQueue' /\ Ends'
    BY <1>1, <1>2, <2>1 DEF SecondQueue, Increasing, Ends
  <2>4. Database'
    BY <1>1, <1>2, <2>1 DEF Database, ToSet, Stored
  <2> QED
    BY <1>4, <2>2, <2>3, <2>4 DEF Inv
<1> QED
  BY <1>1, <1>5, <1>6, <1>7

\* The shutdown and the signal move nothing.
LEMMA MainKeeps ==
    ASSUME Inv, MainStep \/ Signal \/ Crash
    PROVE  Inv'
<1>1. /\ UNCHANGED <<client, backlog, fed, decoder, sent1, received1, sent2, received2,
                     writer, batch, disk, checkpoint, starts>>
      /\ Types /\ FirstQueue /\ SecondQueue /\ Database /\ Ends
  BY DEF MainStep, Signal, Crash, Inv, clientVars, queue1Vars, queue2Vars, writerVars
<1>2. /\ main' \in {"waiting", "joining client", "joining decoder", "joining writer",
                   "exited", "crashed"}
      /\ main' # "crashed" => main # "crashed"
      /\ main' = "exited" => main = "exited" \/ writer = "done"
      /\ closed1' = closed1 \/ closed1' = TRUE
      /\ closed2' = closed2 \/ closed2' = TRUE
      /\ signalled' = signalled \/ signalled' = TRUE
      /\ stop' = stop \/ stop' = TRUE
      /\ closed1 => closed1'
      /\ closed2 => closed2'
  <2>1. CASE RequestStop /\ MainStep
    BY <2>1 DEF RequestStop, MainStep
  <2>2. CASE CloseQueue1 /\ MainStep
    BY <2>2 DEF CloseQueue1, MainStep, Queue1!Close
  <2>3. CASE CloseQueue2 /\ MainStep
    BY <2>3 DEF CloseQueue2, MainStep, Queue2!Close
  <2>4. CASE Exit /\ MainStep
    BY <2>4 DEF Exit, MainStep
  <2>5. CASE Signal
    <3>1. main \in {"waiting", "joining client", "joining decoder", "joining writer",
                    "exited", "crashed"}
      BY <1>1, Zenon DEF Types, TypeOK
    <3>2. /\ signalled' = TRUE
          /\ UNCHANGED <<stop, main, closed1, closed2>>
      BY <2>5 DEF Signal, queue1Vars, queue2Vars
    <3> QED
      BY <3>1, <3>2
  <2>6. CASE Crash
    BY <2>6 DEF Crash, queue1Vars, queue2Vars
  <2> QED
    BY <2>1, <2>2, <2>3, <2>4, <2>5, <2>6 DEF MainStep
<1>3. Types'
  <2>1. /\ signalled \in BOOLEAN /\ stop \in BOOLEAN /\ closed1 \in BOOLEAN /\ closed2 \in BOOLEAN
    BY <1>1, Zenon DEF Types, TypeOK
  <2>2. /\ signalled' \in BOOLEAN /\ stop' \in BOOLEAN /\ closed1' \in BOOLEAN /\ closed2' \in BOOLEAN
    BY <1>2, <2>1, Zenon
  <2> QED
    BY <1>1, <1>2, <2>2, Zenon DEF Types, TypeOK, Client!TypeOK
<1>4. LastStart' = LastStart /\ Passed' = Passed /\ Stored' = Stored
  BY <1>1 DEF LastStart, Passed, Stored
<1>5. FirstQueue' /\ SecondQueue'
  BY <1>1, <1>4 DEF FirstQueue, SecondQueue, Increasing
<1>6. Database'
  BY <1>1, <1>2, <1>4 DEF Database, ToSet
<1>7. Ends'
  <2>1. main' = "exited" => writer' = "done"
    BY <1>1, <1>2 DEF Ends
  <2> QED
    BY <1>1, <1>2, <2>1 DEF Ends
<1> QED
  BY <1>3, <1>5, <1>6, <1>7 DEF Inv

\* A power cut takes some of what was stored, and the process with it.
LEMMA PowerCutKeeps ==
    ASSUME Inv, PowerCut
    PROVE  Inv'
<1>1. /\ UNCHANGED <<signalled, stop, client, backlog, fed, decoder, sent1, received1, closed1,
                     sent2, received2, closed2, writer, batch, starts>>
      /\ main' = "crashed"
      /\ \E kept \in checkpoint .. Len(disk) : disk' = SubSeq(disk, 1, kept)
      /\ checkpoint' = Len(disk')
      /\ Types /\ FirstQueue /\ SecondQueue /\ Database /\ Ends
  BY DEF PowerCut, Inv, clientVars, queue1Vars, queue2Vars
<1>2. disk \in Seq(Seq(Reports)) /\ checkpoint \in 0 .. Len(disk)
  BY <1>1, Zenon DEF Types, TypeOK
<1>3. Len(disk) \in Nat
  BY <1>2, LenProperties
<1>4. PICK kept \in checkpoint .. Len(disk) : disk' = SubSeq(disk, 1, kept)
  BY <1>1
<1>5. kept \in 0 .. Len(disk)
  BY <1>2, <1>3, <1>4
<1>6. \A i \in 1 .. kept : disk[i] \in Seq(Reports)
  <2> SUFFICES ASSUME NEW i \in 1 .. kept PROVE disk[i] \in Seq(Reports)
    OBVIOUS
  <2>1. i \in 1 .. Len(disk)
    BY <1>3, <1>5
  <2> QED
    BY <1>2, <2>1, ElementOfSeq
<1>7. /\ disk' \in Seq(Seq(Reports)) /\ Len(disk') = kept
      /\ \A i \in 1 .. kept : disk'[i] = disk[i]
  <2>1. /\ disk' \in Seq(Seq(Reports))
        /\ Len(disk') = IF 1 <= kept THEN kept - 1 + 1 ELSE 0
        /\ \A i \in 1 .. kept - 1 + 1 : disk'[i] = disk[1 + i - 1]
    BY <1>4, <1>5, <1>6, SubSeqProperties
  <2> QED
    BY <1>5, <2>1
<1>8. Types'
  <2>1. checkpoint' \in 0 .. Len(disk')
    BY <1>1, <1>5, <1>7
  <2>2. main' \in {"waiting", "joining client", "joining decoder", "joining writer",
                   "exited", "crashed"}
    BY <1>1
  <2> QED
    BY <1>1, <1>7, <2>1, <2>2, Zenon DEF Types, TypeOK, Client!TypeOK
<1>9. LastStart' = LastStart /\ Passed' = Passed
  BY <1>1 DEF LastStart, Passed
<1>10. FirstQueue' /\ SecondQueue' /\ Ends'
  BY <1>1, <1>9 DEF FirstQueue, SecondQueue, Increasing, Ends
<1>11. Stored' \subseteq Stored
  <2> SUFFICES ASSUME NEW x, x \in Stored' PROVE x \in Stored
    OBVIOUS
  <2>1. PICK i \in 1 .. Len(disk') : x \in ToSet(disk'[i])
    BY DEF Stored
  <2>2. i \in 1 .. Len(disk) /\ disk'[i] = disk[i]
    BY <1>3, <1>5, <1>7
  <2> QED
    BY <2>1, <2>2 DEF Stored
<1>12. Database'
  BY <1>1, <1>11 DEF Database
<1> QED
  BY <1>8, <1>10, <1>12 DEF Inv

\* A new process starts with nothing on its way; what the last one stored has lower
\* numbers than any line it will read.
LEMMA RestartKeeps ==
    ASSUME Inv, Restart
    PROVE  Inv'
<1>1. /\ main' = "waiting" /\ client' = "starting" /\ backlog' = <<>>
      /\ decoder' = "popping" /\ sent1' = <<>> /\ received1' = <<>>
      /\ writer' = "popping" /\ batch' = <<>> /\ sent2' = <<>> /\ received2' = <<>>
      /\ starts' = Append(starts, fed)
      /\ UNCHANGED <<disk, checkpoint, fed>>
      /\ Types /\ Database
  BY DEF Restart, Inv
<1>2. /\ starts \in Seq(0 .. MaxLines) /\ fed \in 0 .. MaxLines
      /\ disk \in Seq(Seq(Reports)) /\ checkpoint \in 0 .. Len(disk)
  BY <1>1, Zenon DEF Types, TypeOK, Client!TypeOK
<1>3. /\ starts' \in Seq(0 .. MaxLines) /\ Len(starts') = Len(starts) + 1
      /\ starts'[Len(starts) + 1] = fed
  BY <1>1, <1>2, AppendProperties
<1>4. LastStart' = fed /\ starts' # <<>>
  BY <1>2, <1>3, EmptySeq, LenProperties DEF LastStart
<1>5. Types'
  <2>1. /\ signalled' \in BOOLEAN /\ stop' \in BOOLEAN /\ closed1' \in BOOLEAN /\ closed2' \in BOOLEAN
    BY DEF Restart
  <2>2. /\ client' \in Client!Phases /\ decoder' \in {"popping", "processing", "done"}
        /\ main' \in {"waiting", "joining client", "joining decoder", "joining writer",
                      "exited", "crashed"}
        /\ writer' \in {"popping", "writing", "done"}
    BY <1>1 DEF Client!Phases
  <2>3. /\ sent1' \in Seq(Lines) /\ received1' \in Seq(Lines) /\ backlog' \in Seq(Client!Lines)
        /\ sent2' \in Seq(Reports) /\ received2' \in Seq(Reports) /\ batch' \in Seq(Reports)
    BY <1>1
  <2>4. disk' \in Seq(Seq(Reports)) /\ checkpoint' \in 0 .. Len(disk') /\ fed' \in 0 .. MaxLines
    BY <1>1, <1>2
  <2> QED
    BY <1>3, <1>4, <2>1, <2>2, <2>3, <2>4, Zenon DEF Types, TypeOK, Client!TypeOK
<1>6. FirstQueue' /\ Ends' /\ Passed' = fed
  BY <1>1, <1>2, <1>4 DEF FirstQueue, Ends, Passed
<1>7. SecondQueue'
  BY <1>1, <1>2, <1>4, <1>6 DEF SecondQueue, Increasing
<1>8. Database'
  <2>1. Stored' = Stored /\ \A n \in Stored : n <= fed /\ n \in Reports
    BY <1>1, StoredFacts DEF Stored, Database, Types
  <2>2. \A n \in Reports : n \in Int
    BY PipelineAssumption
  <2> QED
    BY <1>1, <1>2, <1>4, <2>1, <2>2, NoElements DEF Database
<1> QED
  BY <1>5, <1>6, <1>7, <1>8 DEF Inv

\* main.cpp:64-130.  In every process the lines are, in the order read, in the database,
\* in the second queue or the decoder's hands, in the first queue or the client's.
THEOREM PipelineInvariant == Spec => []Inv
<1>1. Inv /\ Shutdown /\ [Next]_vars => Inv'
  <2> SUFFICES ASSUME Inv, Shutdown, [Next]_vars PROVE Inv'
    OBVIOUS
  <2>1. CASE Exited \/ UNCHANGED vars
    <3>1. UNCHANGED <<signalled, stop, main, client, backlog, fed, decoder, sent1, received1, closed1,
                      sent2, received2, closed2, writer, batch, disk, checkpoint, starts>>
      BY <2>1 DEF Exited, vars, clientVars, queue1Vars, queue2Vars, writerVars
    <3>2. LastStart' = LastStart /\ Passed' = Passed /\ Stored' = Stored
      BY <3>1 DEF LastStart, Passed, Stored
    <3>3. Types'
      BY <3>1, Zenon DEF Inv, Types, TypeOK, Client!TypeOK
    <3>4. FirstQueue' /\ SecondQueue' /\ Database'
      BY <3>1, <3>2 DEF Inv, FirstQueue, SecondQueue, Database, Increasing, ToSet
    <3>5. Ends'
      BY <3>1 DEF Inv, Ends
    <3> QED
      BY <3>3, <3>4, <3>5 DEF Inv
  <2> QED
    BY <2>1, ClientKeeps, DecoderKeeps, WriterKeeps, MainKeeps, PowerCutKeeps, RestartKeeps DEF Next
<1> QED
  BY <1>1, InvInit, ShutdownInvariant, PTL DEF Spec

\* Between the feed and the database no line is lost, doubled or overtaken, at any
\* moment of any process.
THEOREM NothingIsLost == Spec => []NothingLostOnTheWay
<1>1. Inv => NothingLostOnTheWay
  <2> SUFFICES ASSUME Inv, main # "crashed"
               PROVE  /\ sent1 \o backlog = [i \in 1 .. fed - LastStart |-> LastStart + i]
                      /\ Increasing(sent2)
                      /\ ToSet(sent2) = (ToSet(received1) \cap Reports)
                                          \ (IF decoder = "processing" THEN {Line} ELSE {})
                      /\ {n \in Stored : n > LastStart} \cup ToSet(batch) = ToSet(received2)
    BY DEF NothingLostOnTheWay
  <2>1. Types /\ FirstQueue /\ SecondQueue /\ Database
    BY DEF Inv
  <2>2. /\ sent1 \in Seq(Lines) /\ received1 \in Seq(Lines) /\ sent2 \in Seq(Reports)
        /\ received2 \in Seq(Reports) /\ batch \in Seq(Reports) /\ backlog \in Seq(Lines)
    BY <2>1, Zenon DEF Types, TypeOK, Client!TypeOK, Lines, Client!Lines
  <2>3. /\ LastStart \in 0 .. MaxLines /\ fed \in 0 .. MaxLines
        /\ Len(sent1) \in Nat /\ Len(backlog) \in Nat /\ Len(received1) \in Nat
        /\ Len(sent2) \in Nat /\ Len(received2) \in Nat
        /\ Reports \subseteq 1 .. MaxLines /\ MaxLines \in Nat
    BY <2>1, Numbers
  <2>4. sent1 \o backlog = [i \in 1 .. fed - LastStart |-> LastStart + i]
    <3>1. /\ sent1 \o backlog \in Seq(Lines) /\ Len(sent1 \o backlog) = Len(sent1) + Len(backlog)
          /\ \A i \in 1 .. Len(sent1) + Len(backlog) :
                (sent1 \o backlog)[i] = IF i <= Len(sent1) THEN sent1[i] ELSE backlog[i - Len(sent1)]
      BY <2>2, ConcatProperties
    <3>2. Len(sent1) + Len(backlog) = fed - LastStart
      BY <2>1, <2>3 DEF FirstQueue
    <3>3. ASSUME NEW i \in 1 .. fed - LastStart PROVE (sent1 \o backlog)[i] = LastStart + i
      <4>1. CASE i <= Len(sent1)
        <5>1. i \in 1 .. Len(sent1)
          BY <2>3, <4>1
        <5> QED
          BY <2>1, <3>1, <3>2, <4>1, <5>1 DEF FirstQueue
      <4>2. CASE ~(i <= Len(sent1))
        <5>1. i - Len(sent1) \in 1 .. Len(backlog)
          BY <2>3, <3>2, <4>2
        <5>2. backlog[i - Len(sent1)] = LastStart + Len(sent1) + (i - Len(sent1))
          BY <2>1, <5>1 DEF FirstQueue
        <5> QED
          BY <2>3, <3>1, <3>2, <4>2, <5>2
      <4> QED
        BY <4>1, <4>2
    <3>4. sent1 \o backlog = [i \in 1 .. fed - LastStart |-> (sent1 \o backlog)[i]]
      BY <3>1, <3>2, LenProperties
    <3> QED
      BY <3>3, <3>4
  <2>5. ToSet(sent2) = (ToSet(received1) \cap Reports)
                         \ (IF decoder = "processing" THEN {Line} ELSE {})
    <3>1. \A n \in Reports : n \in ToSet(received1) <=> n \in LastStart + 1 .. LastStart + Len(received1)
      <4> SUFFICES ASSUME NEW n \in Reports
                   PROVE  n \in ToSet(received1) <=> n \in LastStart + 1 .. LastStart + Len(received1)
        OBVIOUS
      <4>1. \A i \in 1 .. Len(received1) : received1[i] = LastStart + i
        <5> SUFFICES ASSUME NEW i \in 1 .. Len(received1) PROVE received1[i] = LastStart + i
          OBVIOUS
        <5>1. received1[i] = sent1[i] /\ i \in 1 .. Len(sent1)
          BY <2>1, <2>3 DEF FirstQueue
        <5> QED
          BY <2>1, <5>1 DEF FirstQueue
      <4>2. ASSUME n \in ToSet(received1) PROVE n \in LastStart + 1 .. LastStart + Len(received1)
        <5>1. PICK i \in 1 .. Len(received1) : n = received1[i]
          BY <2>2, <4>2, ToSetFacts
        <5> QED
          BY <2>3, <4>1, <5>1
      <4>3. ASSUME n \in LastStart + 1 .. LastStart + Len(received1) PROVE n \in ToSet(received1)
        <5>1. n - LastStart \in 1 .. Len(received1) /\ LastStart + (n - LastStart) = n
          BY <2>3, <4>3
        <5>2. received1[n - LastStart] = n
          BY <4>1, <5>1
        <5> QED
          BY <2>2, <5>1, <5>2, ToSetFacts
      <4> QED
        BY <4>2, <4>3
    <3>2. decoder = "processing" => Line = LastStart + Len(received1)
      <4> SUFFICES ASSUME decoder = "processing" PROVE Line = LastStart + Len(received1)
        OBVIOUS
      <4>1. Len(received1) \in 1 .. Len(received1) /\ Len(received1) \in 1 .. Len(sent1)
        <5>1. received1 # <<>> /\ Len(received1) <= Len(sent1)
          BY <2>1 DEF FirstQueue
        <5>2. Len(received1) # 0
          BY <2>2, <5>1, EmptySeq
        <5> QED
          BY <2>3, <5>1, <5>2
      <4> QED
        BY <2>1, <4>1 DEF Line, FirstQueue
    <3>3. \A n \in Reports :
             n \in LastStart + 1 .. Passed <=>
                 /\ n \in LastStart + 1 .. LastStart + Len(received1)
                 /\ ~(decoder = "processing" /\ n = LastStart + Len(received1))
      BY <2>3 DEF Passed
    <3>4. \A n : n \in ToSet(sent2) <=> n \in Reports /\ n \in LastStart + 1 .. Passed
      <4>1. \A n : n \in ToSet(sent2) <=> \E i \in 1 .. Len(sent2) : n = sent2[i]
        BY <2>2, ToSetFacts
      <4>2. \A i \in 1 .. Len(sent2) : sent2[i] \in Reports
        BY <2>2, ElementOfSeq
      <4> QED
        BY <2>1, <4>1, <4>2 DEF SecondQueue
    <3> QED
      BY <3>1, <3>2, <3>3, <3>4
  <2>6. {n \in Stored : n > LastStart} \cup ToSet(batch) = ToSet(received2)
    <3>1. Stored \subseteq Reports
      BY <2>1, StoredFacts DEF Types
    <3>2. ToSet(batch) \subseteq Reports /\ ToSet(received2) \subseteq Reports
      BY <2>2, ToSetFacts, ElementOfSeq
    <3>3. \A n \in Reports : n \in ToSet(received2) <=> (n \in Stored /\ n > LastStart) \/ n \in ToSet(batch)
      BY <2>1 DEF Database
    <3> QED
      BY <3>1, <3>2, <3>3
  <2> QED
    BY <2>1, <2>4, <2>5, <2>6 DEF SecondQueue
<1> QED
  BY <1>1, PipelineInvariant, PTL

\* A shutdown on request leaves nothing behind: every report among the lines the last
\* process has read is in the database when it has exited.
THEOREM CleanExitIsComplete == Spec => []CleanExitStoresEverything
<1>1. Inv /\ Shutdown => CleanExitStoresEverything
  <2> SUFFICES ASSUME Inv, Shutdown, main = "exited",
                      NEW n \in Reports, n \in LastStart + 1 .. fed
               PROVE  n \in Stored
    BY DEF CleanExitStoresEverything
  <2>1. Types /\ FirstQueue /\ SecondQueue /\ Database /\ Ends
    BY DEF Inv
  <2>2. client = "done" /\ decoder = "done" /\ writer = "done" /\ backlog = <<>> /\ batch = <<>>
    <3>1. client = "done" /\ decoder = "done"
      BY Zenon DEF Shutdown
    <3>2. backlog = <<>>
      BY <3>1 DEF Shutdown
    <3> QED
      BY <2>1, <3>1, <3>2 DEF Ends, Database
  <2>3. Len(backlog) = 0 /\ Len(received1) = Len(sent1) /\ Len(received2) = Len(sent2)
    BY <2>1, <2>2 DEF Ends
  <2>4. Passed = fed
    BY <2>1, <2>2, <2>3, Numbers DEF FirstQueue, Passed
  <2>5. PICK i \in 1 .. Len(sent2) : sent2[i] = n
    BY <2>1, <2>4 DEF SecondQueue
  <2>6. received2[i] = n /\ i \in 1 .. Len(received2) /\ received2 \in Seq(Reports)
    <3>1. received2 \in Seq(Reports)
      BY <2>1, Zenon DEF Types, TypeOK
    <3> QED
      BY <2>1, <2>3, <2>5, <3>1 DEF SecondQueue
  <2>7. n \in ToSet(received2)
    BY <2>6, ToSetFacts
  <2>8. n \notin ToSet(batch) /\ main # "crashed"
    BY <2>2, NoElements
  <2> QED
    BY <2>1, <2>7, <2>8 DEF Database
<1> QED
  BY <1>1, PipelineInvariant, ShutdownInvariant, PTL

------------------------------------------------------------------------------
(* The pipeline is a bounded channel into a store.  First the functions that *)
(* the mapping is made of.                                                   *)

\* Induction, for what can be written as a set.
LEMMA Induction ==
    ASSUME NEW S, 0 \in S, \A i \in Nat : i \in S => i + 1 \in S
    PROVE  Nat \subseteq S
<1> DEFINE Bad == Nat \ S
<1>1. SUFFICES ASSUME Bad # {} PROVE FALSE
  OBVIOUS
<1>2. PICK m \in Bad : \A k \in Bad : ~(k < m)
  <2>1. Bad \in SUBSET Nat
    OBVIOUS
  <2> HIDE DEF Bad
  <2>2. PICK m \in Bad : \A k \in Bad : ~(<<k, m>> \in OpToRel(<, Nat))
    BY <1>1, <2>1, NatLessThanWellFounded, WFMin, Zenon
  <2>3. \A k \in Bad : ~(k < m)
    BY <2>1, <2>2 DEF OpToRel
  <2> QED
    BY <2>3
<1>3. m \in Nat /\ m # 0 /\ m - 1 \in Nat /\ m - 1 < m /\ (m - 1) + 1 = m
  OBVIOUS
<1>4. m - 1 \in S
  BY <1>2, <1>3
<1> QED
  BY <1>3, <1>4

\* A function may be defined by what it is at 0 and how it goes on.
IsStep(next, S) == next \in [Nat \X S -> S]

Iterates(f, n, S, start, next) ==
    /\ f \in [0 .. n -> S] /\ f[0] = start
    /\ \A i \in 1 .. n : f[i] = next[<<i, f[i - 1]>>]

\* A function with these equations exists, by induction over how far it goes.
LEMMA Recursion ==
    ASSUME NEW S, NEW start \in S, NEW next, IsStep(next, S), NEW n \in Nat
    PROVE  \E f : Iterates(f, n, S, start, next)
<1> USE DEF IsStep, Iterates
<1> DEFINE Upto(f, m) == Iterates(f, m, S, start, next)
           Has == {m \in Nat : \E f : Upto(f, m)}
<1>1. 0 \in Has
  <2>1. Upto([i \in 0 .. 0 |-> start], 0)
    OBVIOUS
  <2> HIDE DEF Upto
  <2> QED
    BY <2>1
<1>2. ASSUME NEW m \in Nat, m \in Has PROVE m + 1 \in Has
  <2>1. PICK f : Upto(f, m)
    BY <1>2
  <2> DEFINE g == [i \in 0 .. m + 1 |-> IF i = m + 1 THEN next[<<m + 1, f[m]>>] ELSE f[i]]
  <2>2. g \in [0 .. m + 1 -> S]
    <3>1. next[<<m + 1, f[m]>>] \in S
      <4>1. f[m] \in S /\ m + 1 \in Nat
        BY <2>1
      <4> QED
        BY <4>1
    <3>2. \A i \in 0 .. m + 1 : i # m + 1 => f[i] \in S
      BY <2>1
    <3> QED
      BY <3>1, <3>2
  <2>3. g[0] = start
    BY <2>1
  <2>4. ASSUME NEW i \in 1 .. m + 1 PROVE g[i] = next[<<i, g[i - 1]>>]
    <3>1. i \in 0 .. m + 1 /\ i - 1 \in 0 .. m + 1 /\ i - 1 # m + 1
      OBVIOUS
    <3>2. g[i - 1] = f[i - 1]
      BY <3>1
    <3>3. i # m + 1 => i \in 1 .. m
      OBVIOUS
    <3>4. i = m + 1 => i - 1 = m
      OBVIOUS
    <3>5. g[i] = IF i = m + 1 THEN next[<<m + 1, f[m]>>] ELSE f[i]
      BY <3>1
    <3> QED
      BY <2>1, <3>2, <3>3, <3>4, <3>5
  <2>5. Upto(g, m + 1)
    <3> HIDE DEF g
    <3> QED
      BY <2>2, <2>3, <2>4
  <2> HIDE DEF Upto
  <2> QED
    BY <2>5
<1>3. Nat \subseteq Has
  <2> HIDE DEF Has
  <2> QED
    BY <1>1, <1>2, Induction
<1> QED
  BY <1>3

\* What the first n lines have of reports, one line after another.
Among(lines, first) ==
    /\ first \in [0 .. Len(lines) -> Seq(Reports)]
    /\ first[0] = <<>>
    /\ \A i \in 1 .. Len(lines) :
          first[i] = IF lines[i] \in Reports THEN Append(first[i - 1], lines[i]) ELSE first[i - 1]

\* The recursive function behind ReportsAmong is defined.
LEMMA AmongUnfolds ==
    ASSUME NEW lines \in Seq(Lines)
    PROVE  \E first : Among(lines, first) /\ ReportsAmong(lines) = first[Len(lines)]
<1> DEFINE n == Len(lines)
           Value(f, i) == IF i = 0 THEN <<>>
                          ELSE IF lines[i] \in Reports THEN Append(f[i - 1], lines[i])
                          ELSE f[i - 1]
           next == [p \in Nat \X Seq(Reports) |->
                       IF lines[p[1]] \in Reports THEN Append(p[2], lines[p[1]]) ELSE p[2]]
<1>1. n \in Nat
  OBVIOUS
<1>2. next \in [Nat \X Seq(Reports) -> Seq(Reports)]
  <2>1. \A p \in Nat \X Seq(Reports) : p[2] \in Seq(Reports)
    OBVIOUS
  <2> QED
    BY <2>1
<1>3. \A i \in Nat, s \in Seq(Reports) :
         next[<<i, s>>] = IF lines[i] \in Reports THEN Append(s, lines[i]) ELSE s
  OBVIOUS
<1> HIDE DEF next
<1>4. PICK f \in [0 .. n -> Seq(Reports)] :
         f[0] = <<>> /\ \A i \in 1 .. n : f[i] = next[<<i, f[i - 1]>>]
  <2>1. PICK S, start : S = Seq(Reports) /\ start = <<>>
    OBVIOUS
  <2>2. start \in S /\ IsStep(next, S)
    BY <1>2, <2>1 DEF IsStep
  <2> HIDE DEF n
  <2>3. PICK f : Iterates(f, n, S, start, next)
    BY <1>1, <2>2, Recursion
  <2> QED
    BY <2>1, <2>3 DEF Iterates
<1>5. \A i \in 0 .. n : f[i] = Value(f, i)
  <2> SUFFICES ASSUME NEW i \in 0 .. n PROVE f[i] = Value(f, i)
    OBVIOUS
  <2>1. CASE i = 0
    BY <1>4, <2>1
  <2>2. CASE i # 0
    <3>1. i \in 1 .. n /\ i \in Nat /\ i - 1 \in 0 .. n
      BY <1>1, <2>2
    <3>2. f[i - 1] \in Seq(Reports)
      BY <1>4, <3>1
    <3>3. f[i] = next[<<i, f[i - 1]>>]
      BY <1>4, <3>1
    <3> HIDE DEF n
    <3> QED
      BY <1>3, <2>2, <3>1, <3>2, <3>3
  <2> QED
    BY <2>1, <2>2
<1>6. f = [i \in 0 .. n |-> Value(f, i)]
  <2> HIDE DEF Value
  <2> QED
    BY <1>4, <1>5
<1>7. PICK first : first = [i \in 0 .. n |-> Value(first, i)] /\ ReportsAmong(lines) = first[n]
  BY <1>6 DEF ReportsAmong
<1>8. \A i \in 0 .. n : first[i] = Value(first, i)
  <2> HIDE DEF Value, n
  <2> QED
    BY <1>7
<1>9. \A i \in 0 .. n : first[i] \in Seq(Reports)
  <2> DEFINE S == {i \in Nat : i <= n => first[i] \in Seq(Reports)}
  <2>1. 0 \in S
    <3>1. 0 \in 0 .. n
      BY <1>1
    <3>2. first[0] = <<>>
      BY <1>8, <3>1
    <3>3. <<>> \in Seq(Reports)
      OBVIOUS
    <3> QED
      BY <3>2, <3>3
  <2>2. ASSUME NEW i \in Nat, i \in S PROVE i + 1 \in S
    <3>1. SUFFICES ASSUME i + 1 <= n PROVE first[i + 1] \in Seq(Reports)
      OBVIOUS
    <3>2. i + 1 \in 0 .. n /\ i + 1 # 0 /\ (i + 1) - 1 = i /\ first[i] \in Seq(Reports)
      BY <1>1, <2>2, <3>1
    <3>3. first[i + 1] = IF lines[i + 1] \in Reports THEN Append(first[i], lines[i + 1]) ELSE first[i]
      BY <1>8, <3>2
    <3> QED
      BY <3>2, <3>3
  <2>3. Nat \subseteq S
    <3> HIDE DEF S
    <3> QED
      BY <2>1, <2>2, Induction
  <2> QED
    BY <1>1, <2>3
<1>10. first \in [0 .. n -> Seq(Reports)]
  <2>1. first = [i \in 0 .. n |-> first[i]]
    <3> HIDE DEF Value, n
    <3> QED
      BY <1>7
  <2> QED
    BY <1>9, <2>1
<1>11. first[0] = <<>>
  <2>1. 0 \in 0 .. n
    BY <1>1
  <2> QED
    BY <1>8, <2>1
<1>12. ASSUME NEW i \in 1 .. n
       PROVE  first[i] = IF lines[i] \in Reports THEN Append(first[i - 1], lines[i]) ELSE first[i - 1]
  <2>1. i \in 0 .. n /\ i # 0
    BY <1>1
  <2> QED
    BY <1>8, <2>1
<1> QED
  BY <1>7, <1>10, <1>11, <1>12 DEF Among

\* Lines that begin alike have the same reports so far.
LEMMA AmongAgree ==
    ASSUME NEW s \in Seq(Lines), NEW t \in Seq(Lines), NEW f, NEW g, Among(s, f), Among(t, g),
           NEW k \in Nat, k <= Len(s), k <= Len(t), \A i \in 1 .. k : s[i] = t[i]
    PROVE  f[k] = g[k]
<1> DEFINE S == {i \in Nat : i <= k => f[i] = g[i]}
<1>1. Len(s) \in Nat /\ Len(t) \in Nat
  OBVIOUS
<1>2. 0 \in S
  BY DEF Among
<1>3. ASSUME NEW i \in Nat, i \in S PROVE i + 1 \in S
  <2>1. SUFFICES ASSUME i + 1 <= k PROVE f[i + 1] = g[i + 1]
    OBVIOUS
  <2>2. /\ i + 1 \in 1 .. Len(s) /\ i + 1 \in 1 .. Len(t) /\ i + 1 \in 1 .. k
        /\ (i + 1) - 1 = i /\ f[i] = g[i]
    BY <1>1, <1>3, <2>1
  <2> QED
    BY <2>2 DEF Among
<1>4. Nat \subseteq S
  <2> HIDE DEF S
  <2> QED
    BY <1>2, <1>3, Induction
<1> QED
  BY <1>4

LEMMA ReportsOfNone == ReportsAmong(<<>>) = <<>>
<1>1. <<>> \in Seq(Lines) /\ Len(<<>>) = 0
  OBVIOUS
<1> QED
  BY <1>1, AmongUnfolds DEF Among

\* One line more is one report more or none.
LEMMA ReportsAfter ==
    ASSUME NEW s \in Seq(Lines), NEW line \in Lines
    PROVE  /\ ReportsAmong(s) \in Seq(Reports)
           /\ ReportsAmong(Append(s, line)) =
                 IF line \in Reports THEN Append(ReportsAmong(s), line) ELSE ReportsAmong(s)
<1>1. PICK t : t = Append(s, line)
  OBVIOUS
<1>2. t \in Seq(Lines) /\ Len(t) = Len(s) + 1 /\ Len(s) \in Nat
      /\ t[Len(s) + 1] = line /\ \A i \in 1 .. Len(s) : s[i] = t[i]
  BY <1>1, AppendProperties, LenProperties
<1>3. PICK f : Among(s, f) /\ ReportsAmong(s) = f[Len(s)]
  BY AmongUnfolds
<1>4. PICK g : Among(t, g) /\ ReportsAmong(t) = g[Len(t)]
  BY <1>2, AmongUnfolds
<1>5. f[Len(s)] = g[Len(s)]
  BY <1>2, <1>3, <1>4, AmongAgree
<1>6. Len(t) \in 1 .. Len(t) /\ Len(t) - 1 = Len(s)
  BY <1>2
<1>7. g[Len(t)] = IF t[Len(t)] \in Reports THEN Append(g[Len(s)], t[Len(t)]) ELSE g[Len(s)]
  BY <1>4, <1>6 DEF Among
<1>8. Len(s) \in 0 .. Len(s)
  BY <1>2
<1>9. f[Len(s)] \in Seq(Reports)
  BY <1>3, <1>8 DEF Among
<1> QED
  BY <1>1, <1>2, <1>3, <1>4, <1>5, <1>7, <1>9

Begins(s, t) == Len(s) <= Len(t) /\ \A i \in 1 .. Len(s) : s[i] = t[i]

\* Of lines that go on there are no other reports first, and no more reports than lines.
LEMMA ReportsGoOn ==
    ASSUME NEW s \in Seq(Lines), NEW t \in Seq(Lines), Begins(s, t)
    PROVE  /\ Begins(ReportsAmong(s), ReportsAmong(t))
           /\ Len(ReportsAmong(t)) <= Len(ReportsAmong(s)) + (Len(t) - Len(s))
<1>1. PICK f : Among(s, f) /\ ReportsAmong(s) = f[Len(s)]
  BY AmongUnfolds
<1>2. PICK g : Among(t, g) /\ ReportsAmong(t) = g[Len(t)]
  BY AmongUnfolds
<1>3. Len(s) \in Nat /\ Len(t) \in Nat /\ Len(s) <= Len(t)
  BY DEF Begins
<1>4. f[Len(s)] = g[Len(s)]
  BY <1>1, <1>2, <1>3, AmongAgree DEF Begins
<1> DEFINE a == f[Len(s)]
           S == {i \in Nat : Len(s) + i <= Len(t) =>
                    /\ Begins(a, g[Len(s) + i])
                    /\ Len(g[Len(s) + i]) <= Len(a) + i}
<1>5. \A i \in 0 .. Len(t) : g[i] \in Seq(Reports) /\ Len(g[i]) \in Nat
  BY <1>2, LenProperties DEF Among
<1>6. a \in Seq(Reports) /\ Len(a) \in Nat
  <2>1. Len(s) \in 0 .. Len(t)
    BY <1>3
  <2> QED
    BY <1>4, <1>5, <2>1
<1>7. 0 \in S
  <2>1. Len(s) + 0 = Len(s) /\ Len(a) <= Len(a) + 0
    BY <1>3, <1>6
  <2>2. Begins(a, g[Len(s)])
    BY <1>4, <1>6 DEF Begins
  <2> QED
    BY <1>4, <2>1, <2>2
<1> HIDE DEF a
<1>8. ASSUME NEW i \in Nat, i \in S PROVE i + 1 \in S
  <2>1. SUFFICES ASSUME Len(s) + (i + 1) <= Len(t)
                 PROVE  /\ Begins(a, g[Len(s) + (i + 1)])
                        /\ Len(g[Len(s) + (i + 1)]) <= Len(a) + (i + 1)
    OBVIOUS
  <2>2. PICK k \in Nat : k = Len(s) + i /\ Len(s) + (i + 1) = k + 1
    BY <1>3
  <2>3. k + 1 \in 1 .. Len(t) /\ k \in 0 .. Len(t) /\ (k + 1) - 1 = k
    BY <1>3, <2>1, <2>2
  <2>4. Begins(a, g[k]) /\ Len(g[k]) <= Len(a) + i
    BY <1>3, <1>8, <2>1, <2>2
  <2>5. g[k + 1] = IF t[k + 1] \in Reports THEN Append(g[k], t[k + 1]) ELSE g[k]
    BY <1>2, <2>3 DEF Among
  <2>6. g[k] \in Seq(Reports) /\ Len(g[k]) \in Nat
    BY <1>5, <2>3
  <2>7. CASE t[k + 1] \in Reports
    <3>1. PICK x \in Reports : x = t[k + 1]
      BY <2>7
    <3>2. /\ Len(g[k + 1]) = Len(g[k]) + 1
          /\ \A j \in 1 .. Len(g[k]) : g[k + 1][j] = g[k][j]
      BY <2>5, <2>6, <3>1, AppendProperties
    <3>3. Begins(a, g[k + 1])
      BY <1>6, <2>4, <2>6, <3>2 DEF Begins
    <3>4. Len(g[k + 1]) <= Len(a) + (i + 1)
      BY <1>6, <2>4, <2>6, <3>2
    <3> QED
      BY <2>2, <3>3, <3>4
  <2>8. CASE t[k + 1] \notin Reports
    <3>1. g[k + 1] = g[k]
      BY <2>5, <2>8
    <3>2. Len(g[k + 1]) <= Len(a) + (i + 1)
      BY <1>6, <2>4, <2>6, <3>1
    <3> QED
      BY <2>2, <2>4, <3>1, <3>2
  <2> QED
    BY <2>7, <2>8
<1>9. Nat \subseteq S
  <2> HIDE DEF S
  <2> QED
    BY <1>7, <1>8, Induction
<1>10. Len(t) - Len(s) \in S /\ Len(s) + (Len(t) - Len(s)) = Len(t)
  <2>1. Len(t) - Len(s) \in Nat /\ Len(s) + (Len(t) - Len(s)) = Len(t)
    BY <1>3
  <2> HIDE DEF S
  <2> QED
    BY <1>9, <2>1
<1>11. Begins(a, g[Len(t)]) /\ Len(g[Len(t)]) <= Len(a) + (Len(t) - Len(s))
  BY <1>3, <1>10
<1> QED
  BY <1>1, <1>2, <1>11 DEF a

\* The reports of the first batches, one batch after another.
Batches == Seq(Seq(Reports))

Joined(batches, flat) ==
    /\ flat \in [0 .. Len(batches) -> Seq(Reports)]
    /\ flat[0] = <<>>
    /\ \A i \in 1 .. Len(batches) : flat[i] = flat[i - 1] \o batches[i]

LEMMA BatchFacts ==
    ASSUME NEW batches \in Batches
    PROVE  /\ Len(batches) \in Nat
           /\ \A i \in 1 .. Len(batches) : batches[i] \in Seq(Reports)
<1>1. PICK S : S = Seq(Reports)
  OBVIOUS
<1>2. batches \in Seq(S)
  BY <1>1 DEF Batches
<1>3. Len(batches) \in Nat /\ \A i \in 1 .. Len(batches) : batches[i] \in S
  BY <1>2
<1> QED
  BY <1>1, <1>3

LEMMA EmptyBefore ==
    ASSUME NEW s \in Seq(Reports)
    PROVE  <<>> \o s = s
  OBVIOUS

\* FlattenSeq joins the batches one by one.
LEMMA JoinedUnfolds ==
    ASSUME NEW batches \in Batches
    PROVE  \E flat : Joined(batches, flat) /\ FlattenSeq(batches) = flat[Len(batches)]
<1> DEFINE n == Len(batches)
           Value(f, i) == IF i = 1 THEN batches[i] ELSE f[i - 1] \o batches[i]
           next == [p \in Nat \X Seq(Reports) |-> IF p[1] \in 1 .. n THEN p[2] \o batches[p[1]] ELSE p[2]]
<1>1. n \in Nat /\ \A i \in 1 .. n : batches[i] \in Seq(Reports)
  BY BatchFacts
<1>2. CASE n = 0
  <2>1. FlattenSeq(batches) = <<>>
    <3>1. batches = <<>>
      BY <1>2, EmptySeq DEF Batches
    <3> QED
      BY <1>2, <3>1 DEF FlattenSeq
  <2> DEFINE none == [i \in 0 .. 0 |-> <<>>]
  <2>2. none \in [0 .. 0 -> Seq(Reports)] /\ none[0] = <<>>
    OBVIOUS
  <2>3. Joined(batches, none)
    BY <1>2, <2>2 DEF Joined
  <2> QED
    BY <1>2, <2>1, <2>2, <2>3
<1>3. CASE n # 0
  <2>1. IsStep(next, Seq(Reports))
    <3>1. \A p \in Nat \X Seq(Reports) :
             (IF p[1] \in 1 .. n THEN p[2] \o batches[p[1]] ELSE p[2]) \in Seq(Reports)
      <4> SUFFICES ASSUME NEW i \in Nat, NEW t \in Seq(Reports)
                   PROVE  (IF i \in 1 .. n THEN t \o batches[i] ELSE t) \in Seq(Reports)
        OBVIOUS
      <4>1. i \in 1 .. n => batches[i] \in Seq(Reports)
        BY <1>1
      <4>2. i \in 1 .. n => t \o batches[i] \in Seq(Reports)
        BY <4>1, ConcatProperties
      <4> QED
        BY <4>2
    <3> HIDE DEF n
    <3> QED
      BY <3>1 DEF IsStep
  <2>2. \A i \in 1 .. n, t \in Seq(Reports) : next[<<i, t>>] = t \o batches[i]
    <3> HIDE DEF n
    <3> SUFFICES ASSUME NEW i \in 1 .. n, NEW t \in Seq(Reports)
                 PROVE  next[<<i, t>>] = t \o batches[i]
      OBVIOUS
    <3>1. i \in Nat
      BY <1>1
    <3> QED
      BY <3>1
  <2> HIDE DEF next
  <2>3. PICK f : Iterates(f, n, Seq(Reports), <<>>, next)
    <3>1. PICK S, start : S = Seq(Reports) /\ start = <<>>
      OBVIOUS
    <3>2. start \in S /\ IsStep(next, S)
      BY <2>1, <3>1
    <3> HIDE DEF n
    <3>3. \E f : Iterates(f, n, S, start, next)
      BY <1>1, <3>2, Recursion
    <3> QED
      BY <3>1, <3>3
  <2>4. /\ f \in [0 .. n -> Seq(Reports)] /\ f[0] = <<>>
        /\ \A i \in 1 .. n : f[i] = next[<<i, f[i - 1]>>]
    BY <2>3 DEF Iterates
  <2>5. ASSUME NEW i \in 1 .. n PROVE f[i] = f[i - 1] \o batches[i]
    <3>1. i - 1 \in 0 .. n
      BY <1>1
    <3>2. f[i - 1] \in Seq(Reports)
      BY <2>4, <3>1
    <3> QED
      BY <2>2, <2>4, <3>2
  <2> DEFINE g == [i \in 1 .. n |-> f[i]]
  <2>6. \A i \in 1 .. n : g[i] = Value(g, i)
    <3> SUFFICES ASSUME NEW i \in 1 .. n PROVE g[i] = Value(g, i)
      OBVIOUS
    <3>1. CASE i = 1
      <4>1. f[1] = f[0] \o batches[1] /\ batches[1] \in Seq(Reports)
        <5>1. 1 \in 1 .. n /\ 1 - 1 = 0
          BY <3>1
        <5>2. f[1] = f[1 - 1] \o batches[1]
          BY <2>5, <5>1
        <5> QED
          BY <1>1, <5>1, <5>2
      <4>2. f[1] = batches[1]
        BY <2>4, <4>1, EmptyBefore
      <4> QED
        BY <3>1, <4>2
    <3>2. CASE i # 1
      <4>1. i - 1 \in 1 .. n
        BY <1>1, <3>2
      <4> QED
        BY <2>5, <3>2, <4>1
    <3> QED
      BY <3>1, <3>2
  <2>7. g = [i \in 1 .. n |-> Value(g, i)]
    <3>1. g = [i \in 1 .. n |-> g[i]]
      OBVIOUS
    <3> HIDE DEF g, Value, n
    <3> QED
      BY <2>6, <3>1
  <2> HIDE DEF g
  <2>8. PICK flatten : /\ flatten = [i \in 1 .. n |-> Value(flatten, i)]
                       /\ FlattenSeq(batches) = flatten[n]
    BY <1>3, <2>7 DEF FlattenSeq
  <2>9. \A i \in 1 .. n : flatten[i] = Value(flatten, i)
    <3> HIDE DEF Value, n
    <3> QED
      BY <2>8
  <2> DEFINE h == [i \in 0 .. n |-> IF i = 0 THEN <<>> ELSE flatten[i]]
  <2>10. h[0] = <<>>
    BY <1>1
  <2>11. \A i \in 1 .. n : h[i] = flatten[i]
    BY <1>1
  <2>12. ASSUME NEW i \in 1 .. n PROVE h[i] = h[i - 1] \o batches[i]
    <3>1. CASE i = 1
      <4>1. flatten[1] = batches[1] /\ batches[1] \in Seq(Reports)
        BY <1>1, <2>9, <3>1
      <4>2. h[i] = batches[1]
        BY <2>11, <3>1, <4>1
      <4>3. h[i - 1] = <<>>
        BY <2>10, <3>1
      <4> HIDE DEF h
      <4> QED
        BY <3>1, <4>1, <4>2, <4>3, EmptyBefore
    <3>2. CASE i # 1
      <4>1. i - 1 \in 1 .. n
        BY <1>1, <3>2
      <4>2. flatten[i] = flatten[i - 1] \o batches[i]
        BY <2>9, <3>2
      <4> HIDE DEF h
      <4> QED
        BY <2>11, <4>1, <4>2
    <3> QED
      BY <3>1, <3>2
  <2>13. \A i \in 0 .. n : h[i] \in Seq(Reports)
    <3> DEFINE S == {i \in Nat : i <= n => h[i] \in Seq(Reports)}
    <3>1. 0 \in S
      <4>1. <<>> \in Seq(Reports)
        OBVIOUS
      <4> HIDE DEF h
      <4> QED
        BY <2>10, <4>1
    <3>2. ASSUME NEW i \in Nat, i \in S PROVE i + 1 \in S
      <4> HIDE DEF h
      <4>1. SUFFICES ASSUME i + 1 <= n PROVE h[i + 1] \in Seq(Reports)
        OBVIOUS
      <4>2. i + 1 \in 1 .. n /\ (i + 1) - 1 = i /\ h[i] \in Seq(Reports)
        BY <1>1, <3>2, <4>1
      <4>3. h[i + 1] = h[i] \o batches[i + 1] /\ batches[i + 1] \in Seq(Reports)
        BY <1>1, <2>12, <4>2
      <4> QED
        BY <4>2, <4>3, ConcatProperties
    <3>3. Nat \subseteq S
      <4> HIDE DEF S
      <4> QED
        BY <3>1, <3>2, Induction
    <3> HIDE DEF h
    <3> QED
      BY <1>1, <3>3
  <2>14. h \in [0 .. n -> Seq(Reports)]
    <3>1. h = [i \in 0 .. n |-> h[i]]
      OBVIOUS
    <3> HIDE DEF h
    <3> QED
      BY <2>13, <3>1
  <2>15. FlattenSeq(batches) = h[n]
    <3>1. n \in 1 .. n
      BY <1>1, <1>3
    <3> HIDE DEF h
    <3> QED
      BY <2>8, <2>11, <3>1
  <2> HIDE DEF h
  <2> QED
    BY <2>10, <2>12, <2>14, <2>15 DEF Joined
<1> QED
  BY <1>2, <1>3

\* Batches that begin alike are joined alike.
LEMMA JoinedAgree ==
    ASSUME NEW s \in Batches, NEW t \in Batches, NEW f, NEW g, Joined(s, f), Joined(t, g),
           NEW k \in Nat, k <= Len(s), k <= Len(t), \A i \in 1 .. k : s[i] = t[i]
    PROVE  f[k] = g[k]
<1> DEFINE S == {i \in Nat : i <= k => f[i] = g[i]}
<1>1. Len(s) \in Nat /\ Len(t) \in Nat
  BY BatchFacts
<1>2. 0 \in S
  BY DEF Joined
<1>3. ASSUME NEW i \in Nat, i \in S PROVE i + 1 \in S
  <2>1. SUFFICES ASSUME i + 1 <= k PROVE f[i + 1] = g[i + 1]
    OBVIOUS
  <2>2. /\ i + 1 \in 1 .. Len(s) /\ i + 1 \in 1 .. Len(t) /\ i + 1 \in 1 .. k
        /\ (i + 1) - 1 = i /\ f[i] = g[i]
    BY <1>1, <1>3, <2>1
  <2>3. f[i + 1] = f[i] \o s[i + 1] /\ g[i + 1] = g[i] \o t[i + 1]
    BY <2>2 DEF Joined
  <2> QED
    BY <2>2, <2>3
<1>4. Nat \subseteq S
  <2> HIDE DEF S
  <2> QED
    BY <1>2, <1>3, Induction
<1> QED
  BY <1>4

\* One more batch.
LEMMA FlattenAfter ==
    ASSUME NEW s \in Batches, NEW b \in Seq(Reports)
    PROVE  /\ FlattenSeq(s) \in Seq(Reports)
           /\ FlattenSeq(Append(s, b)) = FlattenSeq(s) \o b
<1>1. PICK S, t : S = Seq(Reports) /\ t = Append(s, b)
  OBVIOUS
<1>2. s \in Seq(S) /\ b \in S
  BY <1>1 DEF Batches
<1>3. t \in Seq(S) /\ Len(t) = Len(s) + 1 /\ t[Len(s) + 1] = b
      /\ \A i \in 1 .. Len(s) : s[i] = t[i]
  BY <1>1, <1>2, AppendProperties
<1>4. t \in Batches /\ Len(s) \in Nat
  BY <1>1, <1>3, BatchFacts DEF Batches
<1>5. PICK f : Joined(s, f) /\ FlattenSeq(s) = f[Len(s)]
  BY JoinedUnfolds
<1>6. PICK g : Joined(t, g) /\ FlattenSeq(t) = g[Len(t)]
  BY <1>4, JoinedUnfolds
<1>7. f[Len(s)] = g[Len(s)]
  <2>1. Len(s) <= Len(t)
    BY <1>3, <1>4
  <2> QED
    BY <1>3, <1>4, <1>5, <1>6, <2>1, JoinedAgree
<1>8. Len(t) \in 1 .. Len(t) /\ Len(t) - 1 = Len(s) /\ Len(s) \in 0 .. Len(s)
  BY <1>3, <1>4
<1>9. g[Len(t)] = g[Len(s)] \o t[Len(t)]
  BY <1>6, <1>8 DEF Joined
<1>10. f[Len(s)] \in Seq(Reports)
  BY <1>5, <1>8 DEF Joined
<1> QED
  BY <1>1, <1>3, <1>5, <1>6, <1>7, <1>9, <1>10

LEMMA FlattenNone == FlattenSeq(<<>>) = <<>>
<1>1. Len(<<>>) = 0
  OBVIOUS
<1> QED
  BY <1>1 DEF FlattenSeq

LEMMA FlattenType ==
    ASSUME NEW s \in Batches
    PROVE  FlattenSeq(s) \in Seq(Reports) /\ Len(FlattenSeq(s)) \in Nat
<1>1. <<>> \in Seq(Reports)
  OBVIOUS
<1>2. FlattenSeq(s) \in Seq(Reports)
  BY <1>1, FlattenAfter
<1> QED
  BY <1>2, LenProperties

\* The reports of the first batches come first.
LEMMA FlattenGoesOn ==
    ASSUME NEW s \in Batches, NEW t \in Batches, Begins(s, t)
    PROVE  Begins(FlattenSeq(s), FlattenSeq(t))
<1>1. PICK f : Joined(s, f) /\ FlattenSeq(s) = f[Len(s)]
  BY JoinedUnfolds
<1>2. PICK g : Joined(t, g) /\ FlattenSeq(t) = g[Len(t)]
  BY JoinedUnfolds
<1>3. Len(s) \in Nat /\ Len(t) \in Nat /\ Len(s) <= Len(t)
  BY BatchFacts DEF Begins
<1>4. f[Len(s)] = g[Len(s)]
  BY <1>1, <1>2, <1>3, JoinedAgree DEF Begins
<1> DEFINE a == f[Len(s)]
           S == {i \in Nat : Len(s) + i <= Len(t) => Begins(a, g[Len(s) + i])}
<1>5. \A i \in 0 .. Len(t) : g[i] \in Seq(Reports) /\ Len(g[i]) \in Nat
  BY <1>2, LenProperties DEF Joined
<1>6. a \in Seq(Reports) /\ Len(a) \in Nat
  <2>1. Len(s) \in 0 .. Len(t)
    BY <1>3
  <2> QED
    BY <1>4, <1>5, <2>1
<1>7. 0 \in S
  <2>1. Len(s) + 0 = Len(s)
    BY <1>3
  <2>2. Begins(a, g[Len(s)])
    BY <1>4, <1>6 DEF Begins
  <2> QED
    BY <1>4, <2>1, <2>2
<1> HIDE DEF a
<1>8. ASSUME NEW i \in Nat, i \in S PROVE i + 1 \in S
  <2>1. SUFFICES ASSUME Len(s) + (i + 1) <= Len(t)
                 PROVE  Begins(a, g[Len(s) + (i + 1)])
    OBVIOUS
  <2>2. PICK k \in Nat : k = Len(s) + i /\ Len(s) + (i + 1) = k + 1
    BY <1>3
  <2>3. k + 1 \in 1 .. Len(t) /\ k \in 0 .. Len(t) /\ (k + 1) - 1 = k
    BY <1>3, <2>1, <2>2
  <2>4. Begins(a, g[k])
    BY <1>3, <1>8, <2>1, <2>2
  <2>5. g[k + 1] = g[k] \o t[k + 1] /\ t[k + 1] \in Seq(Reports)
    BY <1>2, <2>3, BatchFacts DEF Joined
  <2>6. PICK u, v : u = g[k] /\ v = t[k + 1] /\ g[k + 1] = u \o v /\ Begins(a, u)
    BY <2>4, <2>5
  <2>7. u \in Seq(Reports) /\ v \in Seq(Reports)
    BY <1>5, <2>3, <2>5, <2>6
  <2>8. /\ Len(u) \in Nat /\ Len(v) \in Nat /\ Len(u \o v) = Len(u) + Len(v)
        /\ \A j \in 1 .. Len(u) : (u \o v)[j] = u[j]
    BY <2>7, ConcatProperties, LenProperties
  <2>9. PICK w : w = u \o v
    OBVIOUS
  <2>10. Begins(a, w)
    <3>1. Len(a) <= Len(u) /\ \A j \in 1 .. Len(a) : a[j] = u[j]
      BY <2>6 DEF Begins
    <3>2. Len(a) <= Len(w)
      BY <1>6, <2>8, <2>9, <3>1
    <3>3. \A j \in 1 .. Len(a) : a[j] = w[j]
      BY <1>6, <2>8, <2>9, <3>1
    <3> QED
      BY <3>2, <3>3 DEF Begins
  <2> QED
    BY <2>2, <2>6, <2>9, <2>10
<1>9. Nat \subseteq S
  <2> HIDE DEF S
  <2> QED
    BY <1>7, <1>8, Induction
<1>10. Len(t) - Len(s) \in S /\ Len(s) + (Len(t) - Len(s)) = Len(t)
  <2>1. Len(t) - Len(s) \in Nat /\ Len(s) + (Len(t) - Len(s)) = Len(t)
    BY <1>3
  <2> HIDE DEF S
  <2> QED
    BY <1>9, <2>1
<1>11. Begins(a, g[Len(t)])
  BY <1>3, <1>10
<1> QED
  BY <1>1, <1>2, <1>11 DEF a

------------------------------------------------------------------------------
(* What of each sequence the mapping needs to know.                          *)

\* How many lines the decoder is done with.
Done == Len(received1) - (IF decoder = "processing" THEN 1 ELSE 0)

ChannelInv ==
    /\ sent2 = ReportsAmong(SubSeq(sent1, 1, Done))
    /\ Len(sent1) <= Len(received1) + LineCapacity
    /\ Len(sent2) <= Len(received2) + ReportCapacity
    /\ Len(batch) <= MaxBatch /\ Len(batch) <= Len(received2)
    /\ \A i \in 1 .. Len(batch) : batch[i] = sent2[(Len(received2) - Len(batch)) + i]
    /\ writer = "writing" => batch # <<>>

LEMMA ChannelTypes ==
    ASSUME Types
    PROVE  /\ sent1 \in Seq(Lines) /\ received1 \in Seq(Lines)
           /\ sent2 \in Seq(Reports) /\ received2 \in Seq(Reports) /\ batch \in Seq(Reports)
           /\ disk \in Batches /\ checkpoint \in 0 .. Len(disk)
           /\ Len(sent1) \in Nat /\ Len(received1) \in Nat /\ Len(sent2) \in Nat
           /\ Len(received2) \in Nat /\ Len(batch) \in Nat /\ Len(disk) \in Nat
<1>1. /\ sent1 \in Seq(Lines) /\ received1 \in Seq(Lines)
      /\ sent2 \in Seq(Reports) /\ received2 \in Seq(Reports) /\ batch \in Seq(Reports)
      /\ disk \in Batches /\ checkpoint \in 0 .. Len(disk)
  BY Zenon DEF Types, TypeOK, Batches
<1> QED
  BY <1>1, LenProperties, BatchFacts

\* The beginning of a sequence.
LEMMA Beginning ==
    ASSUME NEW S, NEW s \in Seq(S), NEW k \in Nat, k <= Len(s)
    PROVE  /\ SubSeq(s, 1, k) \in Seq(S) /\ Len(SubSeq(s, 1, k)) = k
           /\ \A i \in 1 .. k : SubSeq(s, 1, k)[i] = s[i]
<1>1. Len(s) \in Nat
  BY LenProperties
<1>2. \A i \in 1 .. k : s[i] \in S
  BY <1>1, ElementOfSeq
<1>3. /\ SubSeq(s, 1, k) \in Seq(S)
      /\ Len(SubSeq(s, 1, k)) = IF 1 <= k THEN k - 1 + 1 ELSE 0
      /\ \A i \in 1 .. k - 1 + 1 : SubSeq(s, 1, k)[i] = s[1 + i - 1]
  BY <1>1, <1>2, SubSeqProperties
<1> QED
  BY <1>3

\* Sequences are the same if they are of the same length and agree.
LEMMA SameSequence ==
    ASSUME NEW S, NEW s \in Seq(S), NEW t \in Seq(S), Len(s) = Len(t),
           \A i \in 1 .. Len(s) : s[i] = t[i]
    PROVE  s = t
  BY SeqEqual

LEMMA BeginningGoesOn ==
    ASSUME NEW S, NEW s \in Seq(S), NEW k \in Nat, k < Len(s)
    PROVE  SubSeq(s, 1, k + 1) = Append(SubSeq(s, 1, k), s[k + 1])
<1>1. Len(s) \in Nat
  BY LenProperties
<1>2. s[k + 1] \in S
  BY <1>1, ElementOfSeq
<1>3. PICK a, b : a = SubSeq(s, 1, k + 1) /\ b = SubSeq(s, 1, k)
  OBVIOUS
<1>4. /\ a \in Seq(S) /\ Len(a) = k + 1 /\ \A i \in 1 .. k + 1 : a[i] = s[i]
      /\ b \in Seq(S) /\ Len(b) = k /\ \A i \in 1 .. k : b[i] = s[i]
  BY <1>1, <1>3, Beginning
<1>5. PICK c : c = Append(b, s[k + 1])
  OBVIOUS
<1>6. /\ c \in Seq(S) /\ Len(c) = k + 1 /\ c[k + 1] = s[k + 1]
      /\ \A i \in 1 .. k : c[i] = b[i]
  BY <1>2, <1>4, <1>5, AppendProperties
<1>7. \A i \in 1 .. k + 1 : a[i] = c[i]
  <2> SUFFICES ASSUME NEW i \in 1 .. k + 1 PROVE a[i] = c[i]
    OBVIOUS
  <2>1. i = k + 1 \/ i \in 1 .. k
    OBVIOUS
  <2> QED
    BY <1>4, <1>6, <2>1
<1>8. a = c
  BY <1>4, <1>6, <1>7, SameSequence
<1> QED
  BY <1>3, <1>5, <1>8

LEMMA AppendKeepsBeginning ==
    ASSUME NEW S, NEW s \in Seq(S), NEW x \in S, NEW k \in Nat, k <= Len(s)
    PROVE  SubSeq(Append(s, x), 1, k) = SubSeq(s, 1, k)
<1>1. PICK t : t = Append(s, x)
  OBVIOUS
<1>2. /\ t \in Seq(S) /\ Len(t) = Len(s) + 1 /\ Len(s) \in Nat
      /\ \A i \in 1 .. Len(s) : t[i] = s[i]
  BY <1>1, AppendProperties, LenProperties
<1>3. k <= Len(t)
  BY <1>2
<1>4. PICK a, b : a = SubSeq(t, 1, k) /\ b = SubSeq(s, 1, k)
  OBVIOUS
<1>5. /\ a \in Seq(S) /\ Len(a) = k /\ \A i \in 1 .. k : a[i] = t[i]
  BY <1>2, <1>3, <1>4, Beginning
<1>6. /\ b \in Seq(S) /\ Len(b) = k /\ \A i \in 1 .. k : b[i] = s[i]
  BY <1>4, Beginning
<1>7. \A i \in 1 .. k : a[i] = b[i]
  BY <1>2, <1>5, <1>6
<1>8. a = b
  BY <1>5, <1>6, <1>7, SameSequence
<1> QED
  BY <1>1, <1>4, <1>8

\* What the decoder is done with is in the first queue, or has left it.
LEMMA DoneFacts ==
    ASSUME Types, FirstQueue
    PROVE  /\ Done \in 0 .. Len(sent1) /\ Done <= Len(received1)
           /\ decoder = "processing" => Done < Len(sent1) /\ Len(received1) = Done + 1
                                         /\ Line = sent1[Done + 1]
<1>1. Len(sent1) \in Nat /\ Len(received1) \in Nat /\ Len(received1) <= Len(sent1)
      /\ received1 \in Seq(Lines)
  BY ChannelTypes DEF FirstQueue
<1>2. CASE decoder = "processing"
  <2>1. received1 # <<>>
    BY <1>2 DEF FirstQueue
  <2>2. Len(received1) # 0
    BY <1>1, <2>1, EmptySeq
  <2>3. Done = Len(received1) - 1 /\ Done \in Nat /\ Len(received1) = Done + 1
    BY <1>1, <1>2, <2>2 DEF Done
  <2>4. Len(received1) \in 1 .. Len(received1)
    BY <1>1, <2>2
  <2>5. Line = sent1[Len(received1)]
    BY <2>4 DEF FirstQueue, Line
  <2> QED
    BY <1>1, <2>3, <2>5
<1>3. CASE decoder # "processing"
  BY <1>1, <1>3 DEF Done
<1> QED
  BY <1>2, <1>3

\* The client pushes a line or leaves both queues alone.
LEMMA ClientPushes ==
    ASSUME Inv, ClientStep
    PROVE  /\ main # "crashed"
           /\ UNCHANGED <<main, decoder, received1, closed1, sent2, received2, closed2, writer, batch,
                          disk, checkpoint>>
           /\ \/ UNCHANGED sent1
              \/ \E line \in Lines : /\ ~closed1 /\ Len(sent1) < Len(received1) + LineCapacity
                                     /\ sent1' = Append(sent1, line)
<1>1. /\ UNCHANGED <<main, decoder, queue2Vars, writerVars>>
      /\ Client!Step /\ main # "crashed"
  BY DEF ClientStep, Running
<1>2. UNCHANGED <<main, decoder, sent2, received2, closed2, writer, batch, disk, checkpoint>>
  BY <1>1 DEF queue2Vars, writerVars
<1>3. CASE Client!PushLine
  <2>1. /\ backlog # <<>> /\ ~closed1 /\ Len(sent1) < Len(received1) + LineCapacity
        /\ sent1' = Append(sent1, Head(backlog)) /\ UNCHANGED <<received1, closed1>>
    BY <1>3 DEF Client!PushLine, Client!Queue!Send
  <2>2. backlog \in Seq(Lines)
    BY Zenon DEF Inv, Types, TypeOK, Client!TypeOK, Client!Lines, Lines
  <2>3. Head(backlog) \in Lines
    BY <2>1, <2>2, HeadTailProperties
  <2> QED
    BY <1>1, <1>2, <2>1, <2>3
<1>4. CASE ~Client!PushLine
  <2>1. UNCHANGED <<sent1, received1, closed1>>
    BY <1>1, <1>4 DEF Client!Step, Client!StartAttempt, Client!Resolve, Client!ConnectEnds,
           Client!ReadSome, Client!ReadFails, Client!ChunkPushed, Client!BackoffEnds, Client!queueVars
  <2> QED
    BY <1>1, <1>2, <2>1
<1> QED
  BY <1>3, <1>4

\* Steps of main, the feed and signals.
LEMMA ChannelUnchanged ==
    ASSUME ChannelInv, UNCHANGED <<sent1, received1, decoder, sent2, received2, writer, batch>>
    PROVE  ChannelInv'
  BY DEF ChannelInv, Done

LEMMA ClientKeepsChannel ==
    ASSUME Inv, ChannelInv, ClientStep
    PROVE  ChannelInv'
<1>1. Types /\ FirstQueue
  BY DEF Inv
<1>2. CASE UNCHANGED sent1
  BY <1>2, ClientPushes, ChannelUnchanged
<1>3. CASE \E line \in Lines : /\ ~closed1 /\ Len(sent1) < Len(received1) + LineCapacity
                              /\ sent1' = Append(sent1, line)
  <2>1. PICK line \in Lines : Len(sent1) < Len(received1) + LineCapacity /\ sent1' = Append(sent1, line)
    BY <1>3
  <2>2. UNCHANGED <<decoder, received1, sent2, received2, writer, batch>>
    BY ClientPushes
  <2>3. sent1 \in Seq(Lines) /\ Len(sent1) \in Nat /\ Len(received1) \in Nat /\ Done \in 0 .. Len(sent1)
    BY <1>1, ChannelTypes, DoneFacts
  <2>4. Done' = Done
    BY <2>2 DEF Done
  <2>5. SubSeq(sent1', 1, Done) = SubSeq(sent1, 1, Done)
    <3>1. Done \in Nat /\ Done <= Len(sent1)
      BY <2>3
    <3> QED
      BY <2>1, <2>3, <3>1, AppendKeepsBeginning
  <2>6. Len(sent1') = Len(sent1) + 1
    BY <2>1, <2>3, AppendProperties
  <2>7. Len(sent1') <= Len(received1') + LineCapacity
    BY <2>1, <2>2, <2>3, <2>6, PipelineAssumption
  <2>8. sent2' = ReportsAmong(SubSeq(sent1', 1, Done'))
    BY <2>2, <2>4, <2>5 DEF ChannelInv
  <2> QED
    BY <2>2, <2>7, <2>8 DEF ChannelInv
<1> QED
  BY <1>2, <1>3, ClientPushes

\* The decoder pushes a report for a line or drops it, and takes the next one.
LEMMA DecoderKeepsChannel ==
    ASSUME Inv, ChannelInv, DecoderStep
    PROVE  ChannelInv'
<1>1. Types /\ FirstQueue
  BY DEF Inv
<1>2. UNCHANGED <<writer, batch>>
  BY DEF DecoderStep, writerVars
<1>3. /\ sent1 \in Seq(Lines) /\ received1 \in Seq(Lines) /\ sent2 \in Seq(Reports)
      /\ received2 \in Seq(Reports) /\ batch \in Seq(Reports)
      /\ Len(sent1) \in Nat /\ Len(received1) \in Nat /\ Len(sent2) \in Nat /\ Len(received2) \in Nat
      /\ Len(batch) \in Nat /\ Done \in Nat /\ Done <= Len(sent1) /\ LineCapacity \in Nat
      /\ ReportCapacity \in Nat
  BY <1>1, ChannelTypes, DoneFacts, PipelineAssumption
<1>4. CASE PopLine
  <2>1. /\ decoder = "popping" /\ decoder' = "processing" /\ Len(received1') = Len(received1) + 1
        /\ UNCHANGED <<sent1, sent2, received2>>
    BY <1>4 DEF PopLine, Queue1!Deliver, queue2Vars
  <2>2. Done' = Done
    BY <1>3, <2>1 DEF Done
  <2>3. Len(sent1') <= Len(received1') + LineCapacity
    BY <1>3, <2>1 DEF ChannelInv
  <2> QED
    BY <1>2, <2>1, <2>2, <2>3 DEF ChannelInv
<1>5. ASSUME decoder = "processing", decoder' = "popping", UNCHANGED <<sent1, received1>>
      PROVE  /\ Done' = Done + 1 /\ Done < Len(sent1) /\ Line = sent1[Done + 1] /\ Line \in Lines
             /\ SubSeq(sent1', 1, Done') = Append(SubSeq(sent1, 1, Done), Line)
             /\ SubSeq(sent1, 1, Done) \in Seq(Lines)
  <2>1. Done < Len(sent1) /\ Len(received1) = Done + 1 /\ Line = sent1[Done + 1]
    BY <1>1, <1>5, DoneFacts
  <2>2. Done' = Done + 1
    BY <1>3, <1>5, <2>1 DEF Done
  <2>3. SubSeq(sent1, 1, Done + 1) = Append(SubSeq(sent1, 1, Done), sent1[Done + 1])
    BY <1>3, <2>1, BeginningGoesOn
  <2>4. Done + 1 \in 1 .. Len(sent1)
    BY <1>3, <2>1
  <2>5. sent1[Done + 1] \in Lines
    BY <1>3, <2>4, ElementOfSeq
  <2>6. SubSeq(sent1, 1, Done) \in Seq(Lines)
    BY <1>3, Beginning
  <2> QED
    BY <1>5, <2>1, <2>2, <2>3, <2>5, <2>6
<1>6. CASE DropLine
  <2>1. /\ decoder = "processing" /\ decoder' = "popping" /\ Line \notin Reports
        /\ UNCHANGED <<sent1, received1, sent2, received2>>
    BY <1>6 DEF DropLine, queue1Vars, queue2Vars
  <2>2. ReportsAmong(SubSeq(sent1', 1, Done')) = ReportsAmong(SubSeq(sent1, 1, Done))
    BY <1>5, <2>1, ReportsAfter
  <2> QED
    BY <1>2, <2>1, <2>2 DEF ChannelInv
<1>7. CASE PushReport
  <2>1. /\ decoder = "processing" /\ decoder' = "popping" /\ Line \in Reports
        /\ Len(sent2) < Len(received2) + ReportCapacity
        /\ sent2' = Append(sent2, Line)
        /\ UNCHANGED <<sent1, received1, received2>>
    BY <1>7 DEF PushReport, Queue2!Send, queue1Vars
  <2>2. ReportsAmong(SubSeq(sent1', 1, Done')) = Append(ReportsAmong(SubSeq(sent1, 1, Done)), Line)
    BY <1>5, <2>1, ReportsAfter
  <2>3. sent2' = ReportsAmong(SubSeq(sent1', 1, Done'))
    BY <2>1, <2>2 DEF ChannelInv
  <2>4. Len(sent2') = Len(sent2) + 1 /\ \A i \in 1 .. Len(sent2) : sent2'[i] = sent2[i]
    BY <1>3, <2>1, AppendProperties
  <2>5. Len(sent2') <= Len(received2') + ReportCapacity
    BY <1>3, <2>1, <2>4
  <2>6. ASSUME NEW i \in 1 .. Len(batch)
        PROVE  batch[i] = sent2'[(Len(received2) - Len(batch)) + i]
    <3>1. Len(batch) <= Len(received2) /\ batch[i] = sent2[(Len(received2) - Len(batch)) + i]
      BY DEF ChannelInv
    <3>2. Len(received2) <= Len(sent2)
      BY DEF Inv, SecondQueue
    <3>3. (Len(received2) - Len(batch)) + i \in 1 .. Len(sent2)
      BY <1>3, <3>1, <3>2
    <3> QED
      BY <2>4, <3>1, <3>3
  <2> QED
    BY <1>2, <2>1, <2>3, <2>5, <2>6 DEF ChannelInv
<1>8. CASE DecoderEnds
  <2>1. /\ decoder # "processing" /\ decoder' # "processing"
        /\ UNCHANGED <<sent1, received1, sent2, received2>>
    BY <1>8 DEF DecoderEnds, queue1Vars, queue2Vars
  <2>2. Done' = Done
    BY <2>1 DEF Done
  <2> QED
    BY <1>2, <2>1, <2>2 DEF ChannelInv
<1> QED
  BY <1>4, <1>6, <1>7, <1>8 DEF DecoderStep

\* The writer takes what there is, and stores what it took.
LEMMA WriterKeepsChannel ==
    ASSUME Inv, ChannelInv, WriterStep
    PROVE  ChannelInv'
<1>1. Types /\ SecondQueue /\ Database
  BY DEF Inv
<1>2. /\ sent2 \in Seq(Reports) /\ received2 \in Seq(Reports) /\ batch \in Seq(Reports)
      /\ Len(sent2) \in Nat /\ Len(received2) \in Nat /\ Len(batch) \in Nat
      /\ Len(received2) <= Len(sent2)
      /\ MaxBatch \in Nat \ {0} /\ ReportCapacity \in Nat
  BY <1>1, ChannelTypes, PipelineAssumption DEF SecondQueue
<1>3. UNCHANGED <<sent1, received1, decoder>> /\ Done' = Done
  BY DEF WriterStep, queue1Vars, Done
<1>4. CASE PopBatch
  <2>1. /\ writer = "popping" /\ writer' = "writing" /\ sent2' = sent2
        /\ \E n \in Len(received2) + 1 .. Len(sent2) : received2' = SubSeq(sent2, 1, n)
        /\ Len(received2') = Len(received2) + (IF Waiting2 < MaxBatch THEN Waiting2 ELSE MaxBatch)
        /\ batch' = SubSeq(sent2, Len(received2) + 1, Len(received2'))
    BY <1>4 DEF PopBatch, Queue2!Deliver
  <2>2. PICK n \in Len(received2) + 1 .. Len(sent2) : received2' = SubSeq(sent2, 1, n)
    BY <2>1
  <2>3. n \in Nat /\ Len(received2') = n
    <3>1. n \in Nat /\ n <= Len(sent2)
      BY <1>2
    <3> QED
      BY <1>2, <2>2, <3>1, Beginning
  <2>4. n <= Len(received2) + MaxBatch
    BY <1>2, <2>1, <2>3 DEF Waiting2
  <2>5. /\ Len(batch') = n - Len(received2)
        /\ \A i \in 1 .. n - Len(received2) : batch'[i] = sent2[Len(received2) + i]
    <3>1. \A i \in Len(received2) + 1 .. n : sent2[i] \in Reports
      <4> SUFFICES ASSUME NEW i \in Len(received2) + 1 .. n PROVE sent2[i] \in Reports
        OBVIOUS
      <4>1. i \in 1 .. Len(sent2)
        BY <1>2
      <4> QED
        BY <1>2, <4>1, ElementOfSeq
    <3>2. PICK m \in Nat : m = Len(received2) + 1
      BY <1>2
    <3>3. /\ Len(SubSeq(sent2, m, n)) = IF m <= n THEN n - m + 1 ELSE 0
          /\ \A i \in 1 .. n - m + 1 : SubSeq(sent2, m, n)[i] = sent2[m + i - 1]
      BY <1>2, <2>3, <3>1, <3>2, SubSeqProperties
    <3>4. batch' = SubSeq(sent2, m, n)
      BY <2>1, <2>3, <3>2
    <3> QED
      BY <1>2, <2>3, <3>2, <3>3, <3>4
  <2>6. /\ Len(batch') <= MaxBatch /\ Len(batch') <= Len(received2') /\ Len(batch') # 0
        /\ Len(received2') - Len(batch') = Len(received2)
    BY <1>2, <2>3, <2>4, <2>5
  <2>7. \A i \in 1 .. Len(batch') : batch'[i] = sent2'[(Len(received2') - Len(batch')) + i]
    BY <2>1, <2>5, <2>6
  <2>8. Len(sent2') <= Len(received2') + ReportCapacity
    BY <1>2, <2>1, <2>3 DEF ChannelInv
  <2>9. batch' # <<>>
    BY <2>6
  <2> QED
    BY <1>3, <2>1, <2>6, <2>7, <2>8, <2>9 DEF ChannelInv
<1>5. CASE Commit
  <2>1. batch' = <<>> /\ writer' = "popping" /\ UNCHANGED <<sent2, received2>>
    BY <1>5 DEF Commit, queue2Vars
  <2>2. Len(batch') = 0
    BY <2>1
  <2> QED
    BY <1>2, <1>3, <2>1, <2>2 DEF ChannelInv
<1>6. CASE WriterEnds
  <2>1. writer' = "done" /\ UNCHANGED <<sent2, received2, batch>>
    BY <1>6 DEF WriterEnds, queue2Vars
  <2> QED
    BY <1>3, <2>1 DEF ChannelInv
<1> QED
  BY <1>4, <1>5, <1>6 DEF WriterStep

\* Nothing has been read in a process that starts.
LEMMA NothingYet ==
    /\ ReportsAmong(SubSeq(<<>>, 1, 0)) = <<>> /\ Len(<<>>) = 0
    /\ 0 <= 0 + LineCapacity /\ 0 <= 0 + ReportCapacity /\ 0 <= MaxBatch /\ 0 <= 0
<1>1. SubSeq(<<>>, 1, 0) = <<>> /\ Len(<<>>) = 0
  OBVIOUS
<1>2. LineCapacity \in Nat /\ ReportCapacity \in Nat /\ MaxBatch \in Nat
  BY PipelineAssumption
<1>3. 0 <= 0 + LineCapacity /\ 0 <= 0 + ReportCapacity /\ 0 <= MaxBatch /\ 0 <= 0
  BY <1>2
<1>4. ReportsAmong(SubSeq(<<>>, 1, 0)) = <<>>
  BY <1>1, ReportsOfNone
<1> QED
  BY <1>1, <1>3, <1>4

\* The second queue and the batch follow from what has been read.
LEMMA ChannelInvariant == Spec => []ChannelInv
<1>1. Init => ChannelInv
  <2> SUFFICES ASSUME Init PROVE ChannelInv
    OBVIOUS
  <2>1. /\ sent1 = <<>> /\ received1 = <<>> /\ decoder = "popping" /\ batch = <<>>
        /\ sent2 = <<>> /\ received2 = <<>> /\ writer = "popping"
    BY DEF Init, Started, Queue1!Init, Queue2!Init
  <2>2. Done = 0
    BY <2>1, NothingYet DEF Done
  <2> QED
    BY <2>1, <2>2, NothingYet DEF ChannelInv
<1>2. ASSUME Inv, ChannelInv, [Next]_vars PROVE ChannelInv'
  <2>1. CASE ClientStep
    BY <1>2, <2>1, ClientKeepsChannel
  <2>2. CASE DecoderStep
    BY <1>2, <2>2, DecoderKeepsChannel
  <2>3. CASE WriterStep
    BY <1>2, <2>3, WriterKeepsChannel
  <2>4. CASE MainStep
    <3>1. UNCHANGED <<sent1, received1, decoder, sent2, received2, writer, batch>>
      BY <2>4 DEF MainStep, writerVars
    <3> QED
      BY <1>2, <3>1, ChannelUnchanged
  <2>5. CASE Signal \/ Crash \/ PowerCut
    <3>1. UNCHANGED <<sent1, received1, decoder, sent2, received2, writer, batch>>
      BY <2>5 DEF Signal, Crash, PowerCut, writerVars, queue1Vars, queue2Vars
    <3> QED
      BY <1>2, <3>1, ChannelUnchanged
  <2>6. CASE Restart
    <3>1. /\ sent1' = <<>> /\ received1' = <<>> /\ decoder' = "popping" /\ batch' = <<>>
          /\ sent2' = <<>> /\ received2' = <<>> /\ writer' = "popping"
      BY <2>6 DEF Restart
    <3>2. Done' = 0
      BY <3>1, NothingYet DEF Done
    <3> QED
      BY <3>1, <3>2, NothingYet DEF ChannelInv
  <2>7. CASE Exited \/ UNCHANGED vars
    <3>1. UNCHANGED <<sent1, received1, decoder, sent2, received2, writer, batch>>
      BY <2>7 DEF Exited, vars, writerVars, queue1Vars, queue2Vars
    <3> QED
      BY <1>2, <3>1, ChannelUnchanged
  <2> QED
    BY <1>2, <2>1, <2>2, <2>3, <2>4, <2>5, <2>6, <2>7 DEF Next
<1> QED
  BY <1>1, <1>2, PipelineInvariant, PTL DEF Spec

------------------------------------------------------------------------------
(* The refinement.                                                           *)

Accepted == ReportsAmong(sent1)

Written == Len(received2) - Len(batch)

\* Any part of a sequence up to its end.
LEMMA Ending ==
    ASSUME NEW S, NEW s \in Seq(S), NEW k \in Nat, k <= Len(s)
    PROVE  /\ SubSeq(s, k + 1, Len(s)) \in Seq(S)
           /\ Len(SubSeq(s, k + 1, Len(s))) = Len(s) - k
           /\ \A i \in 1 .. Len(s) - k : SubSeq(s, k + 1, Len(s))[i] = s[k + i]
<1>1. PICK n \in Nat : n = Len(s)
  BY LenProperties
<1>2. PICK m \in Nat : m = k + 1
  OBVIOUS
<1>3. \A i \in m .. n : s[i] \in S
  BY <1>1, <1>2, ElementOfSeq
<1>4. /\ SubSeq(s, m, n) \in Seq(S)
      /\ Len(SubSeq(s, m, n)) = IF m <= n THEN n - m + 1 ELSE 0
      /\ \A i \in 1 .. n - m + 1 : SubSeq(s, m, n)[i] = s[m + i - 1]
  BY <1>1, <1>2, <1>3, SubSeqProperties
<1>5. Len(SubSeq(s, m, n)) = n - k
  BY <1>1, <1>2, <1>4
<1>6. ASSUME NEW i \in 1 .. n - k PROVE SubSeq(s, m, n)[i] = s[k + i]
  <2>1. i \in 1 .. n - m + 1 /\ m + i - 1 = k + i
    BY <1>1, <1>2
  <2> QED
    BY <1>4, <2>1
<1> QED
  BY <1>1, <1>2, <1>4, <1>5, <1>6

\* What is on the way, as long as there is a process, and that there is room for it.
LEMMA OnTheWayFacts ==
    ASSUME Inv, ChannelInv
    PROVE  /\ Accepted \in Seq(Reports) /\ Len(Accepted) \in Nat
           /\ Written \in Nat /\ Written + Len(batch) = Len(received2) /\ Len(batch) \in Nat
           /\ Written <= Len(Accepted) /\ Written + Len(batch) <= Len(Accepted)
           /\ \A i \in 1 .. Len(batch) : batch[i] = Accepted[Written + i]
           /\ Len(Accepted) - Written <= ReportCapacity + MaxBatch + 1 + (Len(sent1) - Len(received1))
           /\ main # "crashed" => OnTheWay = SubSeq(Accepted, Written + 1, Len(Accepted))
<1>1. Types /\ FirstQueue /\ SecondQueue
  BY DEF Inv
<1>2. /\ sent1 \in Seq(Lines) /\ Len(sent1) \in Nat /\ Len(received1) \in Nat
      /\ sent2 \in Seq(Reports) /\ Len(sent2) \in Nat /\ Len(received2) \in Nat /\ Len(batch) \in Nat
      /\ Len(received2) <= Len(sent2) /\ Done \in Nat /\ Done <= Len(sent1)
      /\ Len(received1) <= Done + 1
      /\ ReportCapacity \in Nat /\ MaxBatch \in Nat
  <2>1. Done >= Len(received1) - 1
    BY <1>1, ChannelTypes DEF Done
  <2> QED
    BY <1>1, <2>1, ChannelTypes, DoneFacts, PipelineAssumption DEF SecondQueue
<1>3. PICK done : /\ done = SubSeq(sent1, 1, Done) /\ done \in Seq(Lines) /\ Len(done) = Done
                  /\ \A i \in 1 .. Done : done[i] = sent1[i]
  <2>1. /\ SubSeq(sent1, 1, Done) \in Seq(Lines) /\ Len(SubSeq(sent1, 1, Done)) = Done
        /\ \A i \in 1 .. Done : SubSeq(sent1, 1, Done)[i] = sent1[i]
    BY <1>2, Beginning
  <2> QED
    BY <2>1
<1>4. sent2 = ReportsAmong(done)
  BY <1>3 DEF ChannelInv
<1>5. Begins(done, sent1)
  BY <1>2, <1>3 DEF Begins
<1>6. /\ Begins(sent2, Accepted)
      /\ Len(Accepted) <= Len(sent2) + (Len(sent1) - Done)
  BY <1>2, <1>3, <1>4, <1>5, ReportsGoOn DEF Accepted
<1>7. Accepted \in Seq(Reports) /\ Len(Accepted) \in Nat
  <2>1. PICK first : Among(sent1, first) /\ Accepted = first[Len(sent1)]
    BY <1>2, AmongUnfolds DEF Accepted
  <2>2. Len(sent1) \in 0 .. Len(sent1)
    BY <1>2
  <2>3. Accepted \in Seq(Reports)
    BY <2>1, <2>2 DEF Among
  <2> QED
    BY <2>3, LenProperties
<1>8. /\ Len(sent2) <= Len(received2) + ReportCapacity /\ Len(batch) <= MaxBatch
      /\ Len(batch) <= Len(received2)
      /\ \A i \in 1 .. Len(batch) : batch[i] = sent2[Written + i]
  BY DEF ChannelInv, Written
<1>9. /\ Written \in Nat /\ Written + Len(batch) = Len(received2)
      /\ Written <= Len(sent2) /\ Written + Len(batch) <= Len(sent2)
  BY <1>2, <1>8 DEF Written
<1>10. Len(sent2) <= Len(Accepted) /\ \A i \in 1 .. Len(sent2) : sent2[i] = Accepted[i]
  BY <1>6 DEF Begins
<1>11. Written <= Len(Accepted) /\ Written + Len(batch) <= Len(Accepted)
  BY <1>2, <1>7, <1>9, <1>10
<1>12. ASSUME NEW i \in 1 .. Len(batch) PROVE batch[i] = Accepted[Written + i]
  <2>1. Written + i \in 1 .. Len(sent2)
    BY <1>2, <1>9
  <2> QED
    BY <1>8, <1>10, <2>1
<1>13. Len(Accepted) - Written <= ReportCapacity + MaxBatch + 1 + (Len(sent1) - Len(received1))
  BY <1>2, <1>6, <1>7, <1>8, <1>9
<1>14. main # "crashed" => OnTheWay = SubSeq(Accepted, Written + 1, Len(Accepted))
  BY DEF OnTheWay, Accepted, Written
<1> QED
  BY <1>2, <1>7, <1>9, <1>11, <1>12, <1>13, <1>14

\* The batch is the oldest of what is on the way.
LEMMA PushIsSend ==
    ASSUME Inv, ChannelInv, ClientStep, NEW line \in Lines, ~closed1,
           Len(sent1) < Len(received1) + LineCapacity, sent1' = Append(sent1, line)
    PROVE  IF line \in Reports
           THEN /\ OnTheWay' = Append(OnTheWay, line)
                /\ Len(OnTheWay) < LineCapacity + 1 + ReportCapacity + MaxBatch
           ELSE OnTheWay' = OnTheWay
<1>1. main # "crashed" /\ UNCHANGED <<main, received2, batch>>
  BY ClientPushes
<1>2. PICK a, w : a = Accepted /\ w = Written
  OBVIOUS
<1>3. /\ a \in Seq(Reports) /\ Len(a) \in Nat /\ w \in Nat /\ w <= Len(a)
      /\ Len(a) - w <= ReportCapacity + MaxBatch + 1 + (Len(sent1) - Len(received1))
      /\ OnTheWay = SubSeq(a, w + 1, Len(a))
  BY <1>1, <1>2, OnTheWayFacts
<1>4. /\ sent1 \in Seq(Lines) /\ Len(sent1) \in Nat /\ Len(received1) \in Nat
      /\ LineCapacity \in Nat /\ ReportCapacity \in Nat /\ MaxBatch \in Nat
  BY ChannelTypes, PipelineAssumption DEF Inv
<1>5. PICK b : b = IF line \in Reports THEN Append(a, line) ELSE a
  OBVIOUS
<1>6. OnTheWay' = SubSeq(b, w + 1, Len(b))
  <2>1. Accepted' = b
    BY <1>2, <1>4, <1>5, ReportsAfter DEF Accepted
  <2>2. Written' = w
    BY <1>1, <1>2 DEF Written
  <2> QED
    BY <1>1, <2>1, <2>2 DEF OnTheWay, Accepted, Written
<1>7. CASE line \in Reports
  <2>1. PICK p : p = SubSeq(a, w + 1, Len(a))
    OBVIOUS
  <2>2. p \in Seq(Reports) /\ Len(p) = Len(a) - w /\ \A i \in 1 .. Len(a) - w : p[i] = a[w + i]
    BY <1>3, <2>1, Ending
  <2>3. /\ b \in Seq(Reports) /\ Len(b) = Len(a) + 1 /\ b[Len(a) + 1] = line
        /\ \A i \in 1 .. Len(a) : b[i] = a[i]
    BY <1>3, <1>5, <1>7, AppendProperties
  <2>4. PICK q : q = SubSeq(b, w + 1, Len(b))
    OBVIOUS
  <2>5. q \in Seq(Reports) /\ Len(q) = Len(b) - w /\ \A i \in 1 .. Len(b) - w : q[i] = b[w + i]
    <3>1. w <= Len(b)
      BY <1>3, <2>3
    <3> QED
      BY <1>3, <2>3, <2>4, <3>1, Ending
  <2>6. PICK r : r = Append(p, line)
    OBVIOUS
  <2>7. /\ r \in Seq(Reports) /\ Len(r) = Len(p) + 1 /\ r[Len(p) + 1] = line
        /\ \A i \in 1 .. Len(p) : r[i] = p[i]
    BY <1>7, <2>2, <2>6, AppendProperties
  <2>8. Len(q) = Len(r)
    BY <1>3, <2>2, <2>3, <2>5, <2>7
  <2>9. ASSUME NEW i \in 1 .. Len(q) PROVE q[i] = r[i]
    <3>1. i \in 1 .. Len(b) - w
      BY <2>5
    <3>2. q[i] = b[w + i]
      BY <2>5, <3>1
    <3>3. CASE i \in 1 .. Len(p)
      <4>1. i \in 1 .. Len(a) - w /\ w + i \in 1 .. Len(a)
        BY <1>3, <2>2, <3>3
      <4> QED
        BY <2>2, <2>3, <2>7, <3>2, <3>3, <4>1
    <3>4. CASE i \notin 1 .. Len(p)
      <4>0. Len(a) - w \in Nat
        BY <1>3
      <4>1. PICK m \in Nat : m = Len(a) - w
        BY <4>0
      <4>2. Len(p) = m /\ Len(b) - w = m + 1 /\ w + (m + 1) = Len(a) + 1
        BY <1>3, <2>2, <2>3, <4>1
      <4>3. i \in 1 .. m + 1 /\ i \notin 1 .. m
        BY <3>1, <3>4, <4>2
      <4>4. i = m + 1
        BY <4>1, <4>3
      <4> QED
        BY <2>3, <2>7, <3>2, <4>2, <4>4
    <3> QED
      BY <3>3, <3>4
  <2>10. q = r
    BY <2>5, <2>7, <2>8, <2>9, SameSequence
  <2>11. Len(p) < LineCapacity + 1 + ReportCapacity + MaxBatch
    BY <1>3, <1>4, <2>2
  <2> QED
    BY <1>3, <1>6, <1>7, <2>1, <2>4, <2>6, <2>10, <2>11
<1>8. CASE line \notin Reports
  BY <1>3, <1>5, <1>6, <1>8
<1> QED
  BY <1>7, <1>8

\* A commit stores the oldest of what is on the way.
LEMMA CommitIsStore ==
    ASSUME Inv, ChannelInv, WriterStep, Commit
    PROVE  \E n \in 1 .. Len(OnTheWay) :
               /\ InTheDatabase' = InTheDatabase \o SubSeq(OnTheWay, 1, n)
               /\ OnTheWay' = SubSeq(OnTheWay, n + 1, Len(OnTheWay))
<1>1. /\ main # "crashed" /\ UNCHANGED <<main, sent1, received2>>
      /\ writer = "writing" /\ batch' = <<>> /\ disk' = Append(disk, batch)
  BY DEF WriterStep, Commit, Running, queue1Vars, queue2Vars
<1>2. /\ disk \in Batches /\ batch \in Seq(Reports)
  BY ChannelTypes DEF Inv
<1>3. InTheDatabase' = InTheDatabase \o batch
  BY <1>1, <1>2, FlattenAfter DEF InTheDatabase
<1>4. PICK a, w, n : a = Accepted /\ w = Written /\ n = Len(batch)
  OBVIOUS
<1>5. /\ a \in Seq(Reports) /\ Len(a) \in Nat /\ w \in Nat /\ n \in Nat
      /\ w <= Len(a) /\ w + n <= Len(a) /\ w + n = Len(received2)
      /\ \A i \in 1 .. n : batch[i] = a[w + i]
      /\ OnTheWay = SubSeq(a, w + 1, Len(a))
  BY <1>1, <1>4, OnTheWayFacts
<1>6. n # 0
  <2>1. batch # <<>>
    BY <1>1 DEF ChannelInv
  <2> QED
    BY <1>2, <1>4, <2>1, EmptySeq
<1>7. OnTheWay' = SubSeq(a, w + n + 1, Len(a))
  <2>1. Accepted' = a
    BY <1>1, <1>4 DEF Accepted
  <2>2. Len(batch') = 0
    BY <1>1
  <2>3. Written' = w + n
    BY <1>1, <1>5, <2>2 DEF Written
  <2> QED
    BY <1>1, <2>1, <2>3 DEF OnTheWay, Accepted, Written
<1>8. PICK p : p = SubSeq(a, w + 1, Len(a))
  OBVIOUS
<1>9. p \in Seq(Reports) /\ Len(p) = Len(a) - w /\ \A i \in 1 .. Len(a) - w : p[i] = a[w + i]
  BY <1>5, <1>8, Ending
<1>10. n \in 1 .. Len(p) /\ n <= Len(p) /\ Len(p) \in Nat
  BY <1>5, <1>6, <1>9
<1>11. SubSeq(p, 1, n) = batch
  <2>1. PICK q : q = SubSeq(p, 1, n)
    OBVIOUS
  <2>2. q \in Seq(Reports) /\ Len(q) = n /\ \A i \in 1 .. n : q[i] = p[i]
    BY <1>5, <1>9, <1>10, <2>1, Beginning
  <2>3. \A i \in 1 .. n : q[i] = batch[i]
    <3> SUFFICES ASSUME NEW i \in 1 .. n PROVE q[i] = batch[i]
      OBVIOUS
    <3>1. i \in 1 .. Len(a) - w
      BY <1>5
    <3> QED
      BY <1>5, <1>9, <2>2, <3>1
  <2>4. q = batch
    BY <1>2, <1>4, <2>2, <2>3, SameSequence
  <2> QED
    BY <2>1, <2>4
<1>12. SubSeq(p, n + 1, Len(p)) = SubSeq(a, w + n + 1, Len(a))
  <2>1. PICK q, r, m : q = SubSeq(p, n + 1, Len(p)) /\ m = w + n /\ r = SubSeq(a, m + 1, Len(a))
    OBVIOUS
  <2>2. q \in Seq(Reports) /\ Len(q) = Len(p) - n /\ \A i \in 1 .. Len(p) - n : q[i] = p[n + i]
    BY <1>5, <1>9, <1>10, <2>1, Ending
  <2>3. m \in Nat /\ m <= Len(a)
    BY <1>5, <2>1
  <2>4. r \in Seq(Reports) /\ Len(r) = Len(a) - m /\ \A i \in 1 .. Len(a) - m : r[i] = a[m + i]
    BY <1>5, <2>1, <2>3, Ending
  <2>5. Len(q) = Len(r)
    BY <1>5, <1>9, <1>10, <2>1, <2>2, <2>3, <2>4
  <2>6. ASSUME NEW i \in 1 .. Len(q) PROVE q[i] = r[i]
    <3>1. i \in 1 .. Len(p) - n /\ i \in 1 .. Len(a) - m
      BY <2>2, <2>4, <2>5
    <3>2. n + i \in 1 .. Len(a) - w /\ w + (n + i) = m + i
      BY <1>5, <2>1, <2>3, <3>1
    <3> QED
      BY <1>9, <2>2, <2>4, <3>1, <3>2
  <2>7. q = r
    BY <2>2, <2>4, <2>5, <2>6, SameSequence
  <2> QED
    BY <2>1, <2>7
<1> QED
  BY <1>3, <1>5, <1>7, <1>8, <1>10, <1>11, <1>12

\* What is in the first batches is the beginning of what is in all of them.
LEMMA FirstBatches ==
    ASSUME NEW batches \in Batches, NEW k \in Nat, k <= Len(batches)
    PROVE  LET first == SubSeq(batches, 1, k) IN
           /\ first \in Batches /\ Len(first) = k
           /\ Len(FlattenSeq(first)) \in Nat /\ Len(FlattenSeq(first)) <= Len(FlattenSeq(batches))
           /\ FlattenSeq(first) = SubSeq(FlattenSeq(batches), 1, Len(FlattenSeq(first)))
<1>1. PICK S : S = Seq(Reports)
  OBVIOUS
<1>2. PICK first : first = SubSeq(batches, 1, k)
  OBVIOUS
<1>3. batches \in Seq(S)
  BY <1>1 DEF Batches
<1>4. first \in Seq(S) /\ Len(first) = k /\ \A i \in 1 .. k : first[i] = batches[i]
  BY <1>2, <1>3, Beginning
<1>5. first \in Batches
  BY <1>1, <1>4 DEF Batches
<1>6. Begins(first, batches)
  BY <1>4 DEF Begins
<1>7. PICK f, g : f = FlattenSeq(first) /\ g = FlattenSeq(batches)
  OBVIOUS
<1>8. /\ f \in Seq(Reports) /\ Len(f) \in Nat /\ g \in Seq(Reports) /\ Len(g) \in Nat
      /\ Begins(f, g)
  BY <1>5, <1>6, <1>7, FlattenType, FlattenGoesOn
<1>9. PICK h : h = SubSeq(g, 1, Len(f))
  OBVIOUS
<1>10. Len(f) <= Len(g) /\ \A i \in 1 .. Len(f) : f[i] = g[i]
  BY <1>8 DEF Begins
<1>11. h \in Seq(Reports) /\ Len(h) = Len(f) /\ \A i \in 1 .. Len(f) : h[i] = g[i]
  BY <1>8, <1>9, <1>10, Beginning
<1>12. f = h
  BY <1>8, <1>10, <1>11, SameSequence
<1> QED
  BY <1>2, <1>4, <1>5, <1>7, <1>8, <1>9, <1>10, <1>12

\* What the abstract channel does not see.
LEMMA SameDatabase ==
    ASSUME UNCHANGED <<disk, checkpoint>>
    PROVE  InTheDatabase' = InTheDatabase /\ ForCertain' = ForCertain
  BY DEF InTheDatabase, ForCertain

\* Nothing is on its way anew, or stored.
LEMMA StillOnTheWay ==
    ASSUME main # "crashed", main' # "crashed", UNCHANGED sent1,
           Len(received2') - Len(batch') = Len(received2) - Len(batch)
    PROVE  OnTheWay' = OnTheWay
  BY DEF OnTheWay

\* What has reached the database file is the beginning of what is in the database.
LEMMA CertainFacts ==
    ASSUME Types
    PROVE  /\ InTheDatabase \in Seq(Reports) /\ Len(InTheDatabase) \in Nat
           /\ ForCertain \in Nat /\ ForCertain <= Len(InTheDatabase)
<1>1. disk \in Batches /\ checkpoint \in Nat /\ checkpoint <= Len(disk)
  BY ChannelTypes
<1> QED
  BY <1>1, FirstBatches, FlattenType DEF InTheDatabase, ForCertain

\* A push by the client is a Send or a line without a report.
LEMMA ClientSends ==
    ASSUME Inv, ChannelInv, ClientStep
    PROVE  \/ \E line \in Reports : DatabaseChannel!Send(line)
           \/ UNCHANGED DatabaseChannel!vars
<1>1. /\ main # "crashed"
      /\ UNCHANGED <<main, received2, batch, disk, checkpoint, closed1>>
  BY ClientPushes
<1>2. InTheDatabase' = InTheDatabase /\ ForCertain' = ForCertain
  BY <1>1, SameDatabase
<1>3. CASE UNCHANGED sent1
  <2>1. OnTheWay' = OnTheWay
    BY <1>1, <1>3, StillOnTheWay
  <2> QED
    BY <1>1, <1>2, <2>1 DEF DatabaseChannel!vars
<1>4. CASE \E line \in Lines : /\ ~closed1 /\ Len(sent1) < Len(received1) + LineCapacity
                              /\ sent1' = Append(sent1, line)
  <2>1. PICK line \in Lines : /\ ~closed1 /\ Len(sent1) < Len(received1) + LineCapacity
                              /\ sent1' = Append(sent1, line)
    BY <1>4
  <2>2. IF line \in Reports
        THEN /\ OnTheWay' = Append(OnTheWay, line)
             /\ Len(OnTheWay) < LineCapacity + 1 + ReportCapacity + MaxBatch
        ELSE OnTheWay' = OnTheWay
    BY <2>1, PushIsSend
  <2>3. CASE line \in Reports
    <3>1. DatabaseChannel!Send(line)
      BY <1>1, <1>2, <2>1, <2>2, <2>3 DEF DatabaseChannel!Send
    <3> QED
      BY <2>3, <3>1
  <2>4. CASE line \notin Reports
    BY <1>1, <1>2, <2>2, <2>4 DEF DatabaseChannel!vars
  <2> QED
    BY <2>3, <2>4
<1> QED
  BY <1>3, <1>4, ClientPushes

\* What the decoder does happens on the way.
LEMMA DecoderUnseen ==
    ASSUME DecoderStep
    PROVE  UNCHANGED DatabaseChannel!vars
<1>1. main # "crashed" /\ UNCHANGED <<main, batch, disk, checkpoint>>
  BY DEF DecoderStep, Running, writerVars
<1>2. UNCHANGED <<sent1, closed1, received2>>
  BY DEF DecoderStep, PopLine, DropLine, PushReport, DecoderEnds, Queue1!Deliver, Queue2!Send,
         queue1Vars, queue2Vars
<1>3. OnTheWay' = OnTheWay
  BY <1>1, <1>2, StillOnTheWay
<1> QED
  BY <1>1, <1>2, <1>3, SameDatabase DEF DatabaseChannel!vars

\* A commit makes what it stores last for certain, or leaves that open.
LEMMA CommitCertain ==
    ASSUME Types, WriterStep, Commit
    PROVE  ForCertain' \in {ForCertain, Len(InTheDatabase')}
<1>1. disk' = Append(disk, batch) /\ checkpoint' \in {checkpoint, Len(disk')}
  BY DEF Commit
<1>2. PICK S : S = Seq(Reports)
  OBVIOUS
<1>3. /\ disk \in Seq(S) /\ batch \in S /\ checkpoint \in Nat /\ checkpoint <= Len(disk)
  BY <1>2, ChannelTypes DEF Batches
<1>4. PICK d : d = Append(disk, batch)
  OBVIOUS
<1>5. d \in Seq(S) /\ Len(d) \in Nat
  BY <1>3, <1>4, AppendProperties, LenProperties
<1>6. CASE checkpoint' = checkpoint
  <2>1. SubSeq(d, 1, checkpoint) = SubSeq(disk, 1, checkpoint)
    BY <1>3, <1>4, AppendKeepsBeginning
  <2> QED
    BY <1>1, <1>4, <1>6, <2>1 DEF ForCertain
<1>7. CASE checkpoint' = Len(disk')
  <2>1. SubSeq(d, 1, Len(d)) = d
    <3>1. PICK e, k : e = SubSeq(d, 1, k) /\ k = Len(d)
      OBVIOUS
    <3>2. e \in Seq(S) /\ Len(e) = k /\ \A i \in 1 .. k : e[i] = d[i]
      BY <1>5, <3>1, Beginning
    <3>3. e = d
      BY <1>5, <3>1, <3>2, SameSequence
    <3> QED
      BY <3>1, <3>3
  <2> QED
    BY <1>1, <1>4, <1>7, <2>1 DEF ForCertain, InTheDatabase
<1> QED
  BY <1>1, <1>6, <1>7

\* A commit is a Store, and the rest of the writer unseen.
LEMMA WriterStores ==
    ASSUME Inv, ChannelInv, WriterStep
    PROVE  DatabaseChannel!Store \/ UNCHANGED DatabaseChannel!vars
<1>1. Types /\ Database
  BY DEF Inv
<1>2. main # "crashed" /\ UNCHANGED <<main, sent1, closed1>>
  BY DEF WriterStep, Running, queue1Vars
<1>3. CASE Commit
  <2>1. \E n \in 1 .. Len(OnTheWay) :
            /\ InTheDatabase' = InTheDatabase \o SubSeq(OnTheWay, 1, n)
            /\ OnTheWay' = SubSeq(OnTheWay, n + 1, Len(OnTheWay))
    BY <1>3, CommitIsStore
  <2>2. ForCertain' \in {ForCertain, Len(InTheDatabase')}
    BY <1>1, <1>3, CommitCertain
  <2> QED
    BY <1>2, <2>1, <2>2 DEF DatabaseChannel!Store
<1>4. CASE PopBatch
  <2>1. /\ writer = "popping" /\ UNCHANGED <<disk, checkpoint>>
        /\ \E n \in Len(received2) + 1 .. Len(sent2) : received2' = SubSeq(sent2, 1, n)
        /\ batch' = SubSeq(sent2, Len(received2) + 1, Len(received2'))
    BY <1>4 DEF PopBatch, Queue2!Deliver
  <2>2. batch = <<>> /\ Len(batch) = 0
    BY <1>1, <2>1 DEF Database
  <2>3. PICK n \in Len(received2) + 1 .. Len(sent2) : received2' = SubSeq(sent2, 1, n)
    BY <2>1
  <2>4. /\ sent2 \in Seq(Reports) /\ Len(sent2) \in Nat /\ Len(received2) \in Nat
    BY <1>1, ChannelTypes
  <2>5. n \in Nat /\ n <= Len(sent2)
    BY <2>4
  <2>6. PICK r : r = SubSeq(sent2, 1, n)
    OBVIOUS
  <2>7. r \in Seq(Reports) /\ Len(r) = n /\ \A i \in 1 .. n : r[i] = sent2[i]
    BY <2>4, <2>5, <2>6, Beginning
  <2>8. Len(received2) <= Len(r) /\ \A i \in 1 .. n : r[i] \in Reports
    <3>1. \A i \in 1 .. n : r[i] \in Reports
      BY <2>5, <2>7, ElementOfSeq
    <3> QED
      BY <2>4, <2>7, <3>1
  <2>9. PICK k \in Nat : k = Len(received2)
    BY <2>4
  <2>10. PICK b : b = SubSeq(sent2, k + 1, n)
    OBVIOUS
  <2>11. Len(b) = n - k
    <3>1. \A i \in k + 1 .. n : sent2[i] \in Reports
      <4> SUFFICES ASSUME NEW i \in k + 1 .. n PROVE sent2[i] \in Reports
        OBVIOUS
      <4>1. i \in 1 .. Len(sent2)
        BY <2>4, <2>5
      <4> QED
        BY <2>4, <4>1, ElementOfSeq
    <3>2. PICK m \in Nat : m = k + 1
      OBVIOUS
    <3>3. Len(SubSeq(sent2, m, n)) = IF m <= n THEN n - m + 1 ELSE 0
      BY <2>5, <3>1, <3>2, SubSeqProperties
    <3> QED
      BY <2>4, <2>5, <2>9, <2>10, <3>2, <3>3
  <2>12. received2' = r /\ batch' = b
    BY <2>1, <2>3, <2>6, <2>7, <2>9, <2>10
  <2>13. Len(received2') - Len(batch') = Len(received2) - Len(batch)
    BY <2>2, <2>5, <2>7, <2>9, <2>11, <2>12
  <2>14. OnTheWay' = OnTheWay
    BY <1>2, <2>13, StillOnTheWay
  <2> QED
    BY <1>2, <2>1, <2>14, SameDatabase DEF DatabaseChannel!vars
<1>5. CASE WriterEnds
  <2>1. UNCHANGED <<received2, batch, disk, checkpoint>>
    BY <1>5 DEF WriterEnds, queue2Vars
  <2>2. OnTheWay' = OnTheWay
    BY <1>2, <2>1, StillOnTheWay
  <2> QED
    BY <1>2, <2>1, <2>2, SameDatabase DEF DatabaseChannel!vars
<1> QED
  BY <1>3, <1>4, <1>5 DEF WriterStep

\* The channel is closed with the first queue.
LEMMA MainCloses ==
    ASSUME MainStep
    PROVE  DatabaseChannel!Close \/ UNCHANGED DatabaseChannel!vars
<1>1. UNCHANGED <<sent1, received2, batch, disk, checkpoint>>
  BY DEF MainStep, writerVars
<1>2. main # "crashed" /\ main' # "crashed" /\ (closed1' = TRUE \/ closed1' = closed1)
  BY DEF MainStep, RequestStop, CloseQueue1, CloseQueue2, Exit, Queue1!Close
<1>3. OnTheWay' = OnTheWay /\ InTheDatabase' = InTheDatabase /\ ForCertain' = ForCertain
  BY <1>1, <1>2, StillOnTheWay, SameDatabase
<1> QED
  BY <1>2, <1>3 DEF DatabaseChannel!Close, DatabaseChannel!vars

\* A failure costs what is on the way, and a power cut the last commits too.
LEMMA CrashIsFail ==
    ASSUME Types, Crash
    PROVE  DatabaseChannel!Fail
<1>1. main' = "crashed" /\ UNCHANGED <<disk, checkpoint, closed1>>
  BY DEF Crash, writerVars, queue1Vars
<1>2. OnTheWay' = <<>> /\ InTheDatabase' = InTheDatabase /\ ForCertain' = ForCertain
  BY <1>1, SameDatabase DEF OnTheWay
<1>3. PICK s, n : s = InTheDatabase /\ n = Len(InTheDatabase)
  OBVIOUS
<1>4. s \in Seq(Reports) /\ n \in Nat /\ n = Len(s) /\ ForCertain \in Nat /\ ForCertain <= n
  BY <1>3, CertainFacts
<1>5. SubSeq(s, 1, n) = s
  <2>1. PICK e : e = SubSeq(s, 1, n)
    OBVIOUS
  <2>2. e \in Seq(Reports) /\ Len(e) = n /\ \A i \in 1 .. n : e[i] = s[i]
    BY <1>4, <2>1, Beginning
  <2> QED
    BY <1>4, <2>1, <2>2, SameSequence
<1>6. n \in ForCertain .. Len(InTheDatabase)
  BY <1>3, <1>4
<1>7. InTheDatabase' = SubSeq(InTheDatabase, 1, n)
  BY <1>2, <1>3, <1>5
<1> QED
  BY <1>1, <1>2, <1>6, <1>7 DEF DatabaseChannel!Fail

\* A power cut keeps the first batches, not fewer than are certain.
LEMMA PowerCutIsFail ==
    ASSUME Types, PowerCut
    PROVE  DatabaseChannel!Fail
<1>1. /\ main' = "crashed" /\ UNCHANGED closed1 /\ checkpoint' = Len(disk')
      /\ \E kept \in checkpoint .. Len(disk) : disk' = SubSeq(disk, 1, kept)
  BY DEF PowerCut, queue1Vars
<1>2. PICK kept \in checkpoint .. Len(disk) : disk' = SubSeq(disk, 1, kept)
  BY <1>1
<1>3. /\ disk \in Batches /\ Len(disk) \in Nat /\ checkpoint \in Nat
      /\ checkpoint <= kept /\ kept \in Nat /\ kept <= Len(disk)
  BY <1>2, ChannelTypes
<1>4. PICK d, f, g : d = SubSeq(disk, 1, kept) /\ f = FlattenSeq(d) /\ g = FlattenSeq(disk)
  OBVIOUS
<1>5. /\ d \in Batches /\ Len(d) = kept
      /\ Len(f) \in Nat /\ Len(f) <= Len(g) /\ f = SubSeq(g, 1, Len(f))
  BY <1>3, <1>4, FirstBatches
<1>6. PICK c : c = SubSeq(d, 1, checkpoint)
  OBVIOUS
<1>7. Len(FlattenSeq(c)) \in Nat /\ Len(FlattenSeq(c)) <= Len(f)
  BY <1>3, <1>4, <1>5, <1>6, FirstBatches
<1>8. PICK S : S = Seq(Reports)
  OBVIOUS
<1>9. disk \in Seq(S) /\ d \in Seq(S)
  BY <1>3, <1>5, <1>8 DEF Batches
<1>10. c = SubSeq(disk, 1, checkpoint)
  <2>1. PICK e : e = SubSeq(disk, 1, checkpoint)
    OBVIOUS
  <2>2. /\ d \in Seq(S) /\ \A i \in 1 .. kept : d[i] = disk[i]
    BY <1>3, <1>4, <1>9, Beginning
  <2>3. /\ c \in Seq(S) /\ Len(c) = checkpoint /\ \A i \in 1 .. checkpoint : c[i] = d[i]
    BY <1>3, <1>5, <1>6, <1>9, Beginning
  <2>4. checkpoint <= Len(disk)
    BY <1>3
  <2>5. /\ e \in Seq(S) /\ Len(e) = checkpoint /\ \A i \in 1 .. checkpoint : e[i] = disk[i]
    BY <1>3, <1>9, <2>1, <2>4, Beginning
  <2>6. \A i \in 1 .. checkpoint : c[i] = e[i]
    BY <1>3, <2>2, <2>3, <2>5
  <2>7. c = e
    BY <2>3, <2>5, <2>6, SameSequence
  <2> QED
    BY <2>1, <2>7
<1>11. ForCertain = Len(FlattenSeq(c)) /\ InTheDatabase = g
  BY <1>4, <1>10 DEF ForCertain, InTheDatabase
<1>12. InTheDatabase' = f
  BY <1>2, <1>4 DEF InTheDatabase
<1>13. SubSeq(d, 1, Len(d)) = d
  <2>1. PICK e, k : e = SubSeq(d, 1, k) /\ k = Len(d)
    OBVIOUS
  <2>2. e \in Seq(S) /\ Len(e) = k /\ \A i \in 1 .. k : e[i] = d[i]
    BY <1>3, <1>5, <1>9, <2>1, Beginning
  <2>3. e = d
    BY <1>9, <2>1, <2>2, SameSequence
  <2> QED
    BY <2>1, <2>3
<1>14. ForCertain' = Len(InTheDatabase')
  BY <1>1, <1>2, <1>4, <1>13 DEF ForCertain, InTheDatabase
<1>15. OnTheWay' = <<>>
  BY <1>1 DEF OnTheWay
<1>16. Len(f) \in ForCertain .. Len(InTheDatabase)
  <2>1. Len(g) \in Nat
    BY <1>3, <1>4, FlattenType
  <2> QED
    BY <1>5, <1>7, <1>11, <2>1
<1>17. InTheDatabase' = SubSeq(InTheDatabase, 1, Len(f))
  BY <1>5, <1>11, <1>12
<1> QED
  BY <1>1, <1>14, <1>15, <1>16, <1>17 DEF DatabaseChannel!Fail

LEMMA NothingOnTheWay == SubSeq(ReportsAmong(<<>>), Len(<<>>) - Len(<<>>) + 1, Len(ReportsAmong(<<>>))) = <<>>
<1>1. ReportsAmong(<<>>) = <<>>
  BY ReportsOfNone
<1> QED
  BY <1>1

\* A new process finds nothing on the way.
LEMMA RestartReopens ==
    ASSUME Restart
    PROVE  DatabaseChannel!Reopen
<1>1. /\ main = "crashed" /\ sent1' = <<>> /\ received2' = <<>> /\ batch' = <<>>
      /\ main' = "waiting" /\ closed1' = FALSE /\ UNCHANGED <<disk, checkpoint>>
  BY DEF Restart
<1>2. OnTheWay = <<>>
  BY <1>1 DEF OnTheWay
<1>3. OnTheWay' = <<>>
  BY <1>1, NothingOnTheWay DEF OnTheWay
<1> QED
  BY <1>1, <1>2, <1>3, SameDatabase DEF DatabaseChannel!Reopen

\* From the client's pushes to the database the pipeline is a bounded first-in
\* first-out channel into a store: a crash costs what is on the way, a power cut the
\* newest commits too, and nothing is ever reordered, repeated or skipped.
THEOREM PipelineIsAChannel == Spec => ImplementsDurableChannel
<1>1. Init => DatabaseChannel!Init
  <2> SUFFICES ASSUME Init PROVE DatabaseChannel!Init
    OBVIOUS
  <2>1. /\ sent1 = <<>> /\ received2 = <<>> /\ batch = <<>> /\ main = "waiting"
        /\ closed1 = FALSE /\ disk = <<>> /\ checkpoint = 0
    BY DEF Init, Started, Queue1!Init, Queue2!Init
  <2>2. OnTheWay = <<>>
    BY <2>1, NothingOnTheWay DEF OnTheWay
  <2>3. SubSeq(<<>>, 1, 0) = <<>> /\ Len(<<>>) = 0
    OBVIOUS
  <2>4. InTheDatabase = <<>> /\ ForCertain = 0
    BY <2>1, <2>3, FlattenNone DEF InTheDatabase, ForCertain
  <2> QED
    BY <2>1, <2>2, <2>4 DEF DatabaseChannel!Init
<1>2. ASSUME Inv, ChannelInv, [Next]_vars
      PROVE  [DatabaseChannel!Next]_(DatabaseChannel!vars)
  <2>1. CASE ClientStep
    BY <1>2, <2>1, ClientSends DEF DatabaseChannel!Next
  <2>2. CASE DecoderStep
    BY <2>2, DecoderUnseen
  <2>3. CASE WriterStep
    BY <1>2, <2>3, WriterStores DEF DatabaseChannel!Next
  <2>4. CASE MainStep
    BY <2>4, MainCloses DEF DatabaseChannel!Next
  <2>5. CASE Signal
    <3>1. main # "crashed" /\ UNCHANGED <<main, sent1, received2, batch, disk, checkpoint, closed1>>
      BY <2>5 DEF Signal, Running, queue1Vars, queue2Vars, writerVars
    <3> QED
      BY <3>1, StillOnTheWay, SameDatabase DEF DatabaseChannel!vars
  <2>6. CASE Crash
    BY <1>2, <2>6, CrashIsFail DEF DatabaseChannel!Next, Inv
  <2>7. CASE PowerCut
    BY <1>2, <2>7, PowerCutIsFail DEF DatabaseChannel!Next, Inv
  <2>8. CASE Restart
    BY <2>8, RestartReopens DEF DatabaseChannel!Next
  <2>9. CASE Exited \/ UNCHANGED vars
    <3>1. UNCHANGED <<main, sent1, received2, batch, disk, checkpoint, closed1>>
      BY <2>9 DEF Exited, vars, queue1Vars, queue2Vars, writerVars
    <3>2. OnTheWay' = OnTheWay
      BY <3>1 DEF OnTheWay
    <3> QED
      BY <3>1, <3>2, SameDatabase DEF DatabaseChannel!vars
  <2> QED
    BY <1>2, <2>1, <2>2, <2>3, <2>4, <2>5, <2>6, <2>7, <2>8, <2>9 DEF Next
<1> QED
  BY <1>1, <1>2, PipelineInvariant, ChannelInvariant, PTL DEF Spec, ImplementsDurableChannel, DatabaseChannel!Spec
=============================================================================
