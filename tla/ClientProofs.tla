---------------------------- MODULE ClientProofs ----------------------------
(***************************************************************************)
(* The client thread in detail implements the one the pipeline assumes,    *)
(* for any number of lines, any capacity and any delays, leaves no         *)
(* operation behind, keeps to its types and spaces its attempts as the     *)
(* back-off says; and what the framer makes of the chunks it reads are the *)
(* lines of each connection's stream, however they are cut.                *)
(***************************************************************************)
EXTENDS TcpClient, LineFramer, SequenceTheorems, FiniteSetTheorems, TLAPS,
        NaturalsInduction, WellFoundedInduction

\* No operation outlives the wait that started it: only Start begins one, in the
\* step that enters the wait, and the wait ends in the step that completes the last.
THEOREM NothingLeftPending == Spec => []NothingIsLeftPending
<1>1. Init => NothingIsLeftPending
  BY DEF Init, NothingIsLeftPending
<1>2. NothingIsLeftPending /\ [Next]_vars => NothingIsLeftPending'
  <2> SUFFICES ASSUME NothingIsLeftPending, [Next]_vars
               PROVE  NothingIsLeftPending'
    OBVIOUS
  <2> USE DEF NothingIsLeftPending, Running
  <2>1. CASE Step
    <3>1. CASE LoopCondition \/ FallAsleep \/ WakeUp \/ BackoffEnds \/ Frame \/ PushLine
      BY <3>1 DEF LoopCondition, FallAsleep, WakeUp, BackoffEnds, Frame, PushLine, ioVars
    <3>2. CASE Enter \/ ReadNext
      BY <3>2 DEF Enter, ReadNext, Start
    <3>3. CASE Return \/ Throw
      BY <3>3 DEF Return, Throw, Leave
    <3>4. CASE RunCompletion
      BY <3>4 DEF RunCompletion
    <3>5. CASE RunPosted
      BY <3>5 DEF RunPosted, Handled
    <3> QED
      BY <2>1, <3>1, <3>2, <3>3, <3>4, <3>5
      DEF Step, ResolveFails, CheckConnect, ReadEndedBadly, ChunkPushed
  <2>2. CASE TimeoutStep
    BY <2>2 DEF TimeoutStep, Timeout
  <2>3. CASE OperationEnds \/ RequestStop \/ RunCallback \/ TakeLine
    BY <2>3 DEF OperationEnds, RequestStop, RunCallback, TakeLine, ioVars
  <2>4. CASE Ended \/ UNCHANGED vars
    BY <2>4 DEF Ended, vars, ioVars
  <2> QED
    BY <2>1, <2>2, <2>3, <2>4 DEF Next
<1> QED
  BY <1>1, <1>2, PTL DEF Spec

------------------------------------------------------------------------------
\* The steps of Step, each of which is one of FeedClient's or leaves it alone.

\* An attempt that is left: its phase becomes "done" or "backing off", and nothing else
\* of what FeedClient has changes.
LEMMA LeavingAnAttempt ==
    ASSUME Return \/ Throw
    PROVE  Phase' = (IF at' = "done" THEN "done" ELSE "backing off")
           /\ (Return => Phase' = "done") /\ (Throw => Phase' = "backing off")
           /\ UNCHANGED feedVars
  BY DEF Return, Throw, Leave, Phase, Running

LEMMA NextRead ==
    ASSUME ReadNext
    PROVE  Phase' = "reading" /\ UNCHANGED feedVars
  BY DEF ReadNext, Start, Phase, Running

\* One by one.
LEMMA StepImplements ==
    ASSUME Step
    PROVE  (Client!Step /\ UNCHANGED stop) \/ UNCHANGED Client!vars
<1> USE DEF Step, Client!Step, Client!vars, Client!clientVars, Client!queueVars, feedVars
<1>1. CASE LoopCondition
  <2>1. Phase = "starting" /\ Phase' = IF stop THEN "done" ELSE "resolving"
    BY <1>1 DEF LoopCondition, Phase, Running
  <2> QED
    BY <1>1, <2>1 DEF LoopCondition, Client!StartAttempt, Client!Unless
<1>2. CASE FallAsleep \/ WakeUp
  BY <1>2 DEF FallAsleep, WakeUp, Phase, Running, ioVars
<1>3. CASE BackoffEnds
  <2>1. Phase = "backing off" /\ Phase' = "starting"
    BY <1>3 DEF BackoffEnds, Phase, Running
  <2> QED
    BY <1>3, <2>1 DEF BackoffEnds, Client!BackoffEnds
<1>4. CASE Enter
  <2>1. Phase = "resolving" /\ Phase' = "connecting"
    BY <1>4 DEF Enter, Start, Phase, Running
  <2> QED
    BY <1>4, <2>1 DEF Enter, Client!Resolve
<1>5. CASE ResolveFails
  <2>1. Phase = "resolving"
    BY <1>5 DEF ResolveFails, Phase, Running
  <2> QED
    BY <1>5, <2>1, LeavingAnAttempt DEF ResolveFails, Client!Resolve
<1>6. CASE CheckConnect
  <2>1. Phase = "connecting"
    BY <1>6 DEF CheckConnect, Phase, Running
  <2>2. UNCHANGED feedVars
    BY <1>6, LeavingAnAttempt, NextRead DEF CheckConnect
  <2>3. Phase' \in IF stop THEN {"done"} ELSE {"reading", "backing off"}
    BY <1>6, LeavingAnAttempt, NextRead DEF CheckConnect
  <2> QED
    BY <1>6, <2>1, <2>2, <2>3 DEF Client!ConnectEnds, Client!Unless
<1>7. CASE ReadEndedBadly
  <2>1. Phase = "reading"
    BY <1>7 DEF ReadEndedBadly, Phase, Running
  <2>2. UNCHANGED feedVars
    BY <1>7, LeavingAnAttempt DEF ReadEndedBadly
  <2>3. Phase' = IF stop THEN "done" ELSE "backing off"
    BY <1>7, LeavingAnAttempt DEF ReadEndedBadly
  <2> QED
    BY <1>7, <2>1, <2>2, <2>3 DEF Client!ReadFails, Client!Unless
<1>8. CASE Frame
  <2>1. Phase = "reading" /\ Phase' = "pushing"
    BY <1>8 DEF Frame, Phase, Running
  <2> QED
    BY <1>8, <2>1 DEF Frame, Client!ReadSome
<1>9. CASE PushLine
  <2>1. Phase = "pushing" /\ Phase' = "pushing"
    BY <1>9 DEF PushLine, Phase, Running, ioVars
  <2> QED
    BY <1>9, <2>1 DEF PushLine, Client!PushLine, Queue!Send, Client!Queue!Send
<1>10. CASE ChunkPushed
  <2>1. Phase = "pushing"
    BY <1>10 DEF ChunkPushed, Phase, Running
  <2>2. UNCHANGED feedVars
    BY <1>10, LeavingAnAttempt, NextRead DEF ChunkPushed
  <2>3. Phase' = IF stop THEN "done" ELSE "reading"
    BY <1>10, LeavingAnAttempt, NextRead DEF ChunkPushed
  <2> QED
    BY <1>10, <2>1, <2>2, <2>3 DEF ChunkPushed, Client!ChunkPushed, Client!Unless
<1>11. CASE RunCompletion \/ RunPosted
  BY <1>11 DEF RunCompletion, RunPosted, Handled, Phase, Running
<1> QED
  BY <1>1, <1>2, <1>3, <1>4, <1>5, <1>6, <1>7, <1>8, <1>9, <1>10, <1>11

\* TcpClient::run with the reconnection loop is a FeedClient: Pipeline, which
\* assumes no more of its client, holds of the program with this one.
THEOREM ImplementsFeedClient == Spec => ImplementsClient
<1>1. Init => Client!Init
  BY DEF Init, Client!Init, Client!Started, Phase, Running, Queue!Init, Client!Queue!Init
<1>2. [Next]_vars => [Client!Next]_(Client!vars)
  <2> SUFFICES ASSUME [Next]_vars
               PROVE  Client!Next \/ UNCHANGED Client!vars
    OBVIOUS
  <2>1. CASE Step
    BY <2>1, StepImplements DEF Client!Next
  <2>2. CASE TimeoutStep \/ OperationEnds \/ RunCallback
    BY <2>2 DEF TimeoutStep, Timeout, OperationEnds, RunCallback, Phase, Running, feedVars,
               Client!vars, Client!clientVars, Client!queueVars
  <2>3. CASE RequestStop
    BY <2>3 DEF RequestStop, Client!Next, Client!RequestStop, Phase, Running, feedVars, ioVars,
               Client!clientVars, Client!queueVars
  <2>4. CASE TakeLine
    BY <2>4 DEF TakeLine, Client!Next, Client!TakeLine, Phase, Running, ioVars,
               Queue!Deliver, Client!Queue!Deliver, Client!clientVars
  <2>5. CASE Ended \/ UNCHANGED vars
    BY <2>5 DEF Ended, vars, feedVars, ioVars, Phase, Running,
               Client!vars, Client!clientVars, Client!queueVars
  <2> QED
    BY <2>1, <2>2, <2>3, <2>4, <2>5 DEF Next
<1> QED
  BY <1>1, <1>2, PTL DEF Spec, ImplementsClient, Client!Spec
------------------------------------------------------------------------------
(* Types, and with them how long the callback lives.                         *)

LEMMA LeaveKeepsTypes ==
    ASSUME TypeOK, Leave, at' \in Outside, stop' \in BOOLEAN, BackoffTypeOK'
    PROVE  TypeOK'
  BY DEF TypeOK, Leave, feedVars, Inside, Outside

LEMMA ReadKeepsTypes ==
    ASSUME TypeOK, ReadNext, at \in Inside, stop' \in BOOLEAN
    PROVE  TypeOK'
  BY DEF TypeOK, ReadNext, Start, feedVars, backoffVars, BackoffTypeOK, Inside, Outside

LEMMA ThrowTypes ==
    ASSUME TypeOK, Throw, UNCHANGED stop
    PROVE  TypeOK'
<1>1. BackoffTypeOK'
  <2>1. PICK duration \in Durations : AfterFailure(duration)
    BY DEF Throw
  <2> DEFINE next == (IF duration >= Healthy THEN 0 ELSE failures) + 1
  <2>2. next \in Nat \ {0} /\ CounterCap \in Nat \ {0}
    BY <2>1, BackoffAssumption DEF TypeOK, BackoffTypeOK
  <2>3. Min({next, CounterCap}) \in 0 .. CounterCap
    <3> HIDE DEF next
    <3>1. \A a, b \in Nat : Min({a, b}) \in {a, b} /\ Min({a, b}) <= b
      <4> SUFFICES ASSUME NEW a \in Nat, NEW b \in Nat
                   PROVE  Min({a, b}) \in {a, b} /\ Min({a, b}) <= b
        OBVIOUS
      <4>1. \E x \in {a, b} : \A y \in {a, b} : x <= y
        OBVIOUS
      <4>2. Min({a, b}) \in {a, b} /\ \A y \in {a, b} : Min({a, b}) <= y
        BY <4>1 DEF Min
      <4> QED
        BY <4>2
    <3> QED
      BY <2>2, <3>1
  <2>4. failures' \in 0 .. CounterCap
    BY <2>1, <2>3 DEF AfterFailure, CountFailure
  <2> QED
    BY <2>1, <2>4, BackoffAssumption DEF AfterFailure, TypeOK, BackoffTypeOK
<1> QED
  BY <1>1, LeaveKeepsTypes DEF Throw, TypeOK, Outside

LEMMA ReturnTypes ==
    ASSUME TypeOK, Return, UNCHANGED stop
    PROVE  TypeOK'
  BY LeaveKeepsTypes DEF Return, backoffVars, TypeOK, BackoffTypeOK, Outside

\* The constants are numbers.
LEMMA Constants ==
    MaxLines \in Nat /\ MaxChunk \in Nat /\ MaxStreak \in Nat /\ CounterCap \in Nat
    /\ \A time \in Nat : time + Slice \in Nat
  BY ClientAssumption, BackoffAssumption

\* What the framer makes of a chunk.
LEMMA MoreLines ==
    ASSUME fed \in 0 .. MaxLines, NEW n \in 0 .. MaxChunk, fed + n <= MaxLines
    PROVE  /\ [i \in 1 .. n |-> fed + i] \in Seq(Lines)
           /\ fed + n \in 0 .. MaxLines
<1>1. n \in Nat /\ fed \in Nat /\ MaxLines \in Nat
  BY Constants
<1>2. \A i \in 1 .. n : fed + i \in Lines
  BY <1>1 DEF Lines
<1> QED
  BY <1>1, <1>2

LEMMA StepTypes ==
    ASSUME TypeOK, Step
    PROVE  TypeOK'
<1> USE DEF TypeOK, Step, ioVars, feedVars, backoffVars, BackoffTypeOK, Inside, Outside
<1>1. CASE LoopCondition \/ FallAsleep \/ BackoffEnds
  BY <1>1 DEF LoopCondition, FallAsleep, BackoffEnds
<1>2. CASE WakeUp
  <2>1. slept' \in Nat
    BY <1>2, Constants DEF WakeUp, SliceSlept
  <2> QED
    BY <1>2, <2>1 DEF WakeUp, SliceSlept
<1>3. CASE Enter
  BY <1>3 DEF Enter, Start
<1>4. CASE ResolveFails \/ ReadEndedBadly
  BY <1>4, ThrowTypes, ReturnTypes DEF ResolveFails, ReadEndedBadly
<1>5. CASE CheckConnect \/ ChunkPushed
  BY <1>5, ThrowTypes, ReturnTypes, ReadKeepsTypes DEF CheckConnect, ChunkPushed
<1>6. CASE Frame
  <2>1. PICK n \in 0 .. MaxChunk :
            /\ fed + n <= MaxLines
            /\ backlog' = [i \in 1 .. n |-> fed + i]
            /\ fed' = fed + n
    BY <1>6 DEF Frame
  <2>2. backlog' \in Seq(Lines) /\ fed' \in 0 .. MaxLines
    BY <2>1, MoreLines
  <2> QED
    BY <1>6, <2>2 DEF Frame
<1>7. CASE PushLine
  BY <1>7 DEF PushLine
<1>8. CASE RunCompletion \/ RunPosted
  BY <1>8 DEF RunCompletion, RunPosted, Handled, Aborted, Running
<1> QED
  BY <1>1, <1>2, <1>3, <1>4, <1>5, <1>6, <1>7, <1>8

\* tcp_client.cpp:57.  The variables are of their types, and main may be about to use
\* the socket and the io_context only while the thread is inside TcpClient::run, where
\* they exist.
THEOREM ClientTypeCorrect == Spec => []TypeOK
<1>1. Init => TypeOK
  <2> SUFFICES ASSUME Init PROVE TypeOK
    OBVIOUS
  <2>1. BackoffTypeOK
    BY Constants DEF Init, BackoffInit, BackoffTypeOK
  <2>2. backlog \in Seq(Lines) /\ fed \in 0 .. MaxLines
    BY Constants DEF Init
  <2> QED
    BY <2>1, <2>2 DEF Init, TypeOK, Inside, Outside
<1>2. TypeOK /\ [Next]_vars => TypeOK'
  <2> SUFFICES ASSUME TypeOK, [Next]_vars
               PROVE  TypeOK'
    OBVIOUS
  <2> USE DEF TypeOK, ioVars, feedVars, backoffVars, BackoffTypeOK, Inside, Outside
  <2>1. CASE Step
    BY <2>1, StepTypes
  <2>2. CASE TimeoutStep
    BY <2>2 DEF TimeoutStep, Timeout, Aborted
  <2>3. CASE OperationEnds
    BY <2>3 DEF OperationEnds
  <2>4. CASE TakeLine
    BY <2>4 DEF TakeLine
  <2>5. CASE RequestStop
    BY <2>5 DEF RequestStop
  <2>6. CASE RunCallback
    BY <2>6 DEF RunCallback
  <2>7. CASE UNCHANGED vars
    BY <2>7 DEF vars
  <2> QED
    BY <2>1, <2>2, <2>3, <2>4, <2>5, <2>6, <2>7 DEF Next, Ended
<1> QED
  BY <1>1, <1>2, PTL DEF Spec

------------------------------------------------------------------------------
(* The delay.                                                               *)

\* Induction, for what can be written as a set.
LEMMA Induction ==
    ASSUME NEW S, 0 \in S, \A i \in Nat : i \in S => i + 1 \in S
    PROVE  Nat \subseteq S
<1> DEFINE Bad == Nat \ S
<1>1. SUFFICES ASSUME Bad # {} PROVE FALSE
  OBVIOUS
<1>2. PICK m \in Bad : \A k \in Bad : ~(k < m)
  <2>1. Bad \in SUBSET Nat
    OBVIOUS
  <2> HIDE DEF Bad
  <2>2. PICK m \in Bad : \A k \in Bad : ~(<<k, m>> \in OpToRel(<, Nat))
    BY <1>1, <2>1, NatLessThanWellFounded, WFMin, Zenon
  <2>3. \A k \in Bad : ~(k < m)
    BY <2>1, <2>2 DEF OpToRel
  <2> QED
    BY <2>3
<1>3. m \in Nat /\ m # 0 /\ m - 1 \in Nat /\ m - 1 < m /\ (m - 1) + 1 = m
  OBVIOUS
<1>4. m - 1 \in S
  BY <1>2, <1>3
<1> QED
  BY <1>3, <1>4

\* A function may be defined by what it is at 0 and how it goes on.
IsStep(next, T) == next \in [T -> T]

Iterates(f, n, T, start, next) ==
    /\ f \in [0 .. n -> T] /\ f[0] = start
    /\ \A i \in 1 .. n : f[i] = next[f[i - 1]]

\* By induction over how far the function goes.
LEMMA Iteration ==
    ASSUME NEW T, NEW start \in T, NEW next, IsStep(next, T), NEW n \in Nat
    PROVE  \E f : Iterates(f, n, T, start, next)
<1> USE DEF IsStep
<1> DEFINE Upto(f, m) == Iterates(f, m, T, start, next)
           Has == {m \in Nat : \E f : Upto(f, m)}
<1> USE DEF Iterates
<1>1. 0 \in Has
  <2>1. Upto([i \in 0 .. 0 |-> start], 0)
    OBVIOUS
  <2> HIDE DEF Upto
  <2> QED
    BY <2>1
<1>2. ASSUME NEW m \in Nat, m \in Has PROVE m + 1 \in Has
  <2>1. PICK f : Upto(f, m)
    BY <1>2
  <2> DEFINE g == [i \in 0 .. m + 1 |-> IF i = m + 1 THEN next[f[m]] ELSE f[i]]
  <2>2. g \in [0 .. m + 1 -> T]
    <3>1. next[f[m]] \in T
      BY <2>1
    <3>2. \A i \in 0 .. m + 1 : i # m + 1 => f[i] \in T
      BY <2>1
    <3> QED
      BY <3>1, <3>2
  <2>3. g[0] = start
    BY <2>1
  <2>4. ASSUME NEW i \in 1 .. m + 1 PROVE g[i] = next[g[i - 1]]
    <3>1. i \in 0 .. m + 1 /\ i - 1 \in 0 .. m + 1 /\ i - 1 # m + 1
      OBVIOUS
    <3>2. g[i - 1] = f[i - 1]
      BY <3>1
    <3>3. i # m + 1 => i \in 1 .. m
      OBVIOUS
    <3>4. i = m + 1 => i - 1 = m
      OBVIOUS
    <3>5. g[i] = IF i = m + 1 THEN next[f[m]] ELSE f[i]
      BY <3>1
    <3> QED
      BY <2>1, <3>2, <3>3, <3>4, <3>5
  <2>5. Upto(g, m + 1)
    <3> HIDE DEF g
    <3> QED
      BY <2>2, <2>3, <2>4
  <2> HIDE DEF Upto
  <2> QED
    BY <2>5
<1>3. Nat \subseteq Has
  <2> HIDE DEF Has
  <2> QED
    BY <1>1, <1>2, Induction
<1> QED
  BY <1>3

\* So the loop of after_failure is what its equation says.
LEMMA DoubledUnfolds ==
    /\ Doubled \in [0 .. CounterCap -> Nat]
    /\ Doubled[0] = InitialDelay
    /\ \A i \in 1 .. CounterCap :
          Doubled[i] = IF Doubled[i - 1] < MaxDelay THEN 2 * Doubled[i - 1] ELSE Doubled[i - 1]
<1>1. InitialDelay \in Nat /\ MaxDelay \in Nat /\ CounterCap \in Nat
  BY BackoffAssumption
<1> DEFINE next == [d \in Nat |-> IF d < MaxDelay THEN 2 * d ELSE d]
<1>2. next \in [Nat -> Nat]
  BY <1>1
<1>3. PICK f \in [0 .. CounterCap -> Nat] :
          f[0] = InitialDelay /\ \A i \in 1 .. CounterCap : f[i] = next[f[i - 1]]
  <2> HIDE DEF next
  <2>1. IsStep(next, Nat)
    BY <1>2 DEF IsStep
  <2>2. PICK f : Iterates(f, CounterCap, Nat, InitialDelay, next)
    BY <1>1, <2>1, Iteration
  <2> QED
    BY <2>2 DEF Iterates
<1> DEFINE Value(g, i) == IF i = 0 THEN InitialDelay
                          ELSE IF g[i - 1] < MaxDelay THEN 2 * g[i - 1]
                          ELSE g[i - 1]
<1>4. \A i \in 0 .. CounterCap : f[i] = Value(f, i)
  <2> SUFFICES ASSUME NEW i \in 0 .. CounterCap PROVE f[i] = Value(f, i)
    OBVIOUS
  <2>1. i # 0 => i \in 1 .. CounterCap /\ i - 1 \in 0 .. CounterCap
    BY <1>1
  <2> QED
    BY <1>3, <2>1
<1>5. f = [i \in 0 .. CounterCap |-> Value(f, i)]
  <2> HIDE DEF Value
  <2> QED
    BY <1>3, <1>4
<1>6. Doubled = [i \in 0 .. CounterCap |-> Value(Doubled, i)]
  BY <1>5 DEF Doubled
<1>7. \A i \in 0 .. CounterCap : Doubled[i] = Value(Doubled, i)
  <2> HIDE DEF Value
  <2> QED
    BY <1>6
<1>8. Doubled[0] = InitialDelay
  BY <1>1, <1>7
<1>9. ASSUME NEW i \in 1 .. CounterCap
      PROVE  Doubled[i] = IF Doubled[i - 1] < MaxDelay THEN 2 * Doubled[i - 1] ELSE Doubled[i - 1]
  BY <1>1, <1>7
<1>10. \A i \in 0 .. CounterCap : Doubled[i] \in Nat
  <2> DEFINE S == {i \in Nat : i <= CounterCap => Doubled[i] \in Nat}
  <2>1. 0 \in S
    BY <1>1, <1>8
  <2>2. ASSUME NEW i \in Nat, i \in S PROVE i + 1 \in S
    <3>1. SUFFICES ASSUME i + 1 <= CounterCap PROVE Doubled[i + 1] \in Nat
      OBVIOUS
    <3>2. i + 1 \in 1 .. CounterCap /\ (i + 1) - 1 = i /\ Doubled[i] \in Nat
      BY <1>1, <2>2, <3>1
    <3> QED
      BY <1>9, <3>2
  <2>3. Nat \subseteq S
    <3> HIDE DEF S
    <3> QED
      BY <2>1, <2>2, Induction
  <2> QED
    BY <1>1, <2>3
<1>11. Doubled = [i \in 0 .. CounterCap |-> Doubled[i]]
  <2> HIDE DEF Value
  <2> QED
    BY <1>6
<1> QED
  BY <1>8, <1>9, <1>10, <1>11

\* Powers of two.
LEMMA PowerUnfolds ==
    /\ Power[0] = 1
    /\ \A i \in Nat : Power[i] \in Nat \ {0} /\ Power[i + 1] = 2 * Power[i]
<1> DEFINE double == [d \in Nat |-> 2 * d]
           Upto(g, m) == /\ g \in [0 .. m -> Nat] /\ g[0] = 1
                         /\ \A i \in 1 .. m : g[i] = double[g[i - 1]]
           part == [m \in Nat |-> CHOOSE g : Upto(g, m)]
<1>1. \A m \in Nat : Upto(part[m], m)
  <2> SUFFICES ASSUME NEW m \in Nat PROVE Upto(part[m], m)
    OBVIOUS
  <2>1. double \in [Nat -> Nat] /\ 1 \in Nat
    OBVIOUS
  <2>2. \E g : Upto(g, m)
    <3> HIDE DEF double
    <3>1. IsStep(double, Nat)
      BY <2>1 DEF IsStep
    <3>2. PICK g : Iterates(g, m, Nat, 1, double)
      BY <2>1, <3>1, Iteration
    <3> QED
      BY <3>2 DEF Iterates
  <2> HIDE DEF Upto
  <2> DEFINE some(k) == CHOOSE g : Upto(g, k)
  <2>3. Upto(some(m), m)
    BY <2>2, Zenon
  <2>4. part = [k \in Nat |-> some(k)]
    OBVIOUS
  <2> HIDE DEF some, part
  <2> QED
    BY <2>3, <2>4
<1> HIDE DEF part
\* The parts agree where they overlap.
<1>2. \A m, n \in Nat : m <= n => part[m][m] = part[n][m]
  <2> SUFFICES ASSUME NEW m \in Nat, NEW n \in Nat, m <= n PROVE part[m][m] = part[n][m]
    OBVIOUS
  <2> DEFINE S == {i \in Nat : i <= m => part[m][i] = part[n][i]}
  <2>1. 0 \in S
    BY <1>1
  <2>2. ASSUME NEW i \in Nat, i \in S PROVE i + 1 \in S
    <3>1. SUFFICES ASSUME i + 1 <= m PROVE part[m][i + 1] = part[n][i + 1]
      OBVIOUS
    <3>2. i + 1 \in 1 .. m /\ i + 1 \in 1 .. n /\ (i + 1) - 1 = i /\ part[m][i] = part[n][i]
      BY <2>2, <3>1
    <3>3. /\ \A j \in 1 .. m : part[m][j] = double[part[m][j - 1]]
          /\ \A j \in 1 .. n : part[n][j] = double[part[n][j - 1]]
      BY <1>1
    <3> HIDE DEF double
    <3> QED
      BY <3>2, <3>3
  <2>3. Nat \subseteq S
    <3> HIDE DEF S
    <3> QED
      BY <2>1, <2>2, Induction
  <2> QED
    BY <2>3
<1> DEFINE f == [i \in Nat |-> part[i][i]]
           Value(g, i) == IF i = 0 THEN 1 ELSE 2 * g[i - 1]
<1>3. \A i \in Nat : f[i] \in Nat
  BY <1>1
<1>4. \A i \in Nat : f[i] = Value(f, i)
  <2> SUFFICES ASSUME NEW i \in Nat PROVE f[i] = Value(f, i)
    OBVIOUS
  <2>1. CASE i = 0
    BY <1>1, <2>1
  <2>2. CASE i # 0
    <3>1. i - 1 \in Nat /\ i \in 1 .. i /\ i - 1 <= i
      BY <2>2
    <3>2. part[i][i] = double[part[i][i - 1]]
      BY <1>1, <3>1
    <3>3. part[i][i - 1] = f[i - 1]
      BY <1>2, <3>1
    <3>4. f[i - 1] \in Nat
      BY <1>3, <3>1
    <3>5. f[i] = double[f[i - 1]]
      BY <3>2, <3>3
    <3> HIDE DEF f
    <3> QED
      BY <2>2, <3>4, <3>5
  <2> QED
    BY <2>1, <2>2
<1>5. f = [i \in Nat |-> Value(f, i)]
  <2>1. f = [i \in Nat |-> f[i]]
    OBVIOUS
  <2> HIDE DEF f, Value
  <2> QED
    BY <1>4, <2>1
<1>6. Power = [i \in Nat |-> Value(Power, i)]
  <2> HIDE DEF f
  <2> QED
    BY <1>5 DEF Power
<1>7. \A i \in Nat : Power[i] = Value(Power, i)
  <2> HIDE DEF Value
  <2> QED
    BY <1>6
<1>8. Power[0] = 1
  BY <1>7
<1>9. \A i \in Nat : Power[i + 1] = 2 * Power[i]
  <2> SUFFICES ASSUME NEW i \in Nat PROVE Power[i + 1] = 2 * Power[i]
    OBVIOUS
  <2>1. i + 1 \in Nat /\ i + 1 # 0 /\ (i + 1) - 1 = i
    OBVIOUS
  <2> QED
    BY <1>7, <2>1
<1>10. \A i \in Nat : Power[i] \in Nat \ {0}
  <2> DEFINE S == {i \in Nat : Power[i] \in Nat \ {0}}
  <2>1. 0 \in S
    BY <1>8
  <2>2. ASSUME NEW i \in Nat, i \in S PROVE i + 1 \in S
    BY <1>9, <2>2
  <2>3. Nat \subseteq S
    <3> HIDE DEF S
    <3> QED
      BY <2>1, <2>2, Induction
  <2> QED
    BY <2>3
<1> QED
  BY <1>8, <1>9, <1>10

------------------------------------------------------------------------------
(* The delay is the one that belongs to the failures in a row.               *)

\* As long as the maximum has not been reached there has been a doubling for each.
AsExpected(i) ==
    \/ /\ Doubled[i] = InitialDelay * Power[i]
       /\ \A k \in 0 .. i : k < i => InitialDelay * Power[k] < MaxDelay
    \/ /\ Doubled[i] >= MaxDelay
       /\ \E k \in 0 .. i : InitialDelay * Power[k] >= MaxDelay

LEMMA DoublesAsExpected == \A i \in 0 .. CounterCap : AsExpected(i)
<1> DEFINE S == {i \in Nat : i <= CounterCap => AsExpected(i)}
<1>1. InitialDelay \in Nat /\ MaxDelay \in Nat /\ CounterCap \in Nat
  BY BackoffAssumption
<1>2. \A i \in Nat : /\ InitialDelay * Power[i] \in Nat
                    /\ InitialDelay * Power[i + 1] = 2 * (InitialDelay * Power[i])
  <2> SUFFICES ASSUME NEW i \in Nat
               PROVE  /\ InitialDelay * Power[i] \in Nat
                      /\ InitialDelay * Power[i + 1] = 2 * (InitialDelay * Power[i])
    OBVIOUS
  <2>1. PICK p \in Nat : p = Power[i] /\ Power[i + 1] = 2 * p
    BY PowerUnfolds
  <2>2. InitialDelay * (2 * p) = 2 * (InitialDelay * p) /\ InitialDelay * p \in Nat
    BY <1>1
  <2> QED
    BY <2>1, <2>2
<1>3. 0 \in S
  <2>1. Doubled[0] = InitialDelay * Power[0]
    BY <1>1, DoubledUnfolds, PowerUnfolds
  <2>2. \A k \in 0 .. 0 : ~(k < 0)
    OBVIOUS
  <2> QED
    BY <2>1, <2>2 DEF AsExpected
<1>4. ASSUME NEW i \in Nat, i \in S PROVE i + 1 \in S
  <2>1. SUFFICES ASSUME i + 1 <= CounterCap PROVE AsExpected(i + 1)
    OBVIOUS
  <2>2. i \in 0 .. CounterCap /\ i + 1 \in 1 .. CounterCap /\ (i + 1) - 1 = i /\ AsExpected(i)
    BY <1>1, <1>4, <2>1
  <2>3. /\ Doubled[i] \in Nat
        /\ Doubled[i + 1] = IF Doubled[i] < MaxDelay THEN 2 * Doubled[i] ELSE Doubled[i]
    BY <2>2, DoubledUnfolds
  <2>4. CASE Doubled[i] >= MaxDelay
    <3>1. \E k \in 0 .. i : InitialDelay * Power[k] >= MaxDelay
      BY <2>2, <2>4 DEF AsExpected
    <3>2. Doubled[i + 1] >= MaxDelay
      BY <1>1, <2>3, <2>4
    <3> QED
      BY <3>1, <3>2 DEF AsExpected
  <2>5. CASE Doubled[i] < MaxDelay
    <3>1. /\ Doubled[i] = InitialDelay * Power[i]
          /\ \A k \in 0 .. i : k < i => InitialDelay * Power[k] < MaxDelay
      BY <1>1, <2>2, <2>3, <2>5 DEF AsExpected
    <3>2. Doubled[i + 1] = InitialDelay * Power[i + 1]
      BY <1>2, <2>3, <2>5, <3>1
    <3>3. \A k \in 0 .. i + 1 : k < i + 1 => InitialDelay * Power[k] < MaxDelay
      <4> SUFFICES ASSUME NEW k \in 0 .. i + 1, k < i + 1 PROVE InitialDelay * Power[k] < MaxDelay
        OBVIOUS
      <4>1. k = i \/ (k \in 0 .. i /\ k < i)
        OBVIOUS
      <4> QED
        BY <2>5, <3>1, <4>1
    <3> QED
      BY <3>2, <3>3 DEF AsExpected
  <2> QED
    BY <1>1, <2>3, <2>4, <2>5
<1>5. Nat \subseteq S
  <2> HIDE DEF S
  <2> QED
    BY <1>3, <1>4, Induction
<1> QED
  BY <1>1, <1>5

\* std::min.
LEMMA SmallerOf ==
    ASSUME NEW a \in Nat, NEW b \in Nat
    PROVE  Min({a, b}) = IF a <= b THEN a ELSE b
  BY DEF Min

\* What after_failure computes from the capped counter is what belongs to the streak.
LEMMA DelayAsExpected ==
    ASSUME NEW n \in Nat
    PROVE  /\ Min({n, CounterCap}) \in 0 .. CounterCap
           /\ Min({Doubled[Min({n, CounterCap})], MaxDelay}) = Expected(n)
           /\ Expected(n) \in Nat
<1>1. InitialDelay \in Nat /\ MaxDelay \in Nat /\ CounterCap \in Nat
  BY BackoffAssumption
<1>2. \A i \in Nat : InitialDelay * Power[i] \in Nat
  <2> SUFFICES ASSUME NEW i \in Nat PROVE InitialDelay * Power[i] \in Nat
    OBVIOUS
  <2>1. Power[i] \in Nat
    BY PowerUnfolds
  <2> QED
    BY <1>1, <2>1
<1>3. Expected(n) \in Nat
  BY <1>1, <1>2 DEF Expected
<1> DEFINE i == Min({n, CounterCap})
<1>4. i = IF n <= CounterCap THEN n ELSE CounterCap
  BY <1>1, SmallerOf
<1>5. i \in 0 .. CounterCap /\ i \in 0 .. n
  BY <1>1, <1>4
<1> HIDE DEF i
<1>6. Doubled[i] \in Nat /\ AsExpected(i)
  BY <1>5, DoubledUnfolds, DoublesAsExpected
<1>7. Min({Doubled[i], MaxDelay}) = IF Doubled[i] <= MaxDelay THEN Doubled[i] ELSE MaxDelay
  BY <1>1, <1>6, SmallerOf
<1>8. CASE \E k \in 0 .. i : InitialDelay * Power[k] >= MaxDelay
  <2>1. \E k \in 0 .. n : InitialDelay * Power[k] >= MaxDelay
    BY <1>1, <1>5, <1>8
  <2>2. Doubled[i] >= MaxDelay
    BY <1>1, <1>2, <1>5, <1>6, <1>8 DEF AsExpected
  <2> QED
    BY <1>1, <1>3, <1>5, <1>6, <1>7, <2>1, <2>2 DEF Expected, i
<1>9. CASE ~\E k \in 0 .. i : InitialDelay * Power[k] >= MaxDelay
  <2>1. i # CounterCap
    BY <1>5, <1>9, BackoffAssumption
  <2>2. i = n
    BY <1>1, <1>4, <2>1
  <2>3. Doubled[i] = InitialDelay * Power[i]
    BY <1>6, <1>9 DEF AsExpected
  <2>4. i \in 0 .. i /\ InitialDelay * Power[i] < MaxDelay
    BY <1>1, <1>2, <1>5, <1>9
  <2>5. Expected(n) = InitialDelay * Power[i]
    BY <1>9, <2>2 DEF Expected
  <2> QED
    BY <1>1, <1>3, <1>5, <1>7, <2>2, <2>3, <2>4, <2>5 DEF i
<1> QED
  BY <1>8, <1>9

\* The inductive invariant: the counter is the streak up to its cap, the delay is the
\* streak's, and the sleep has not gone a whole slice beyond it.
SpacingInv ==
    /\ streak \in Nat /\ slept \in Nat
    /\ failures = Min({streak, CounterCap})
    /\ delay = IF streak = 0 THEN 0 ELSE Expected(streak)
    /\ slept < delay + Slice
    /\ at \in {"backing off", "asleep"} => streak # 0
    /\ at = "asleep" => slept < delay

\* Counting from a capped number and capping again comes to the same.
LEMMA CappedTwice ==
    ASSUME NEW a \in Nat, NEW cap \in Nat
    PROVE  Min({Min({a, cap}) + 1, cap}) = Min({a + 1, cap})
<1>1. PICK m \in Nat : m = Min({a, cap}) /\ m = IF a <= cap THEN a ELSE cap
  BY SmallerOf
<1>2. PICK n \in Nat : n = m + 1
  OBVIOUS
<1>3. PICK b \in Nat : b = a + 1
  OBVIOUS
<1>4. Min({n, cap}) = IF n <= cap THEN n ELSE cap
  BY SmallerOf
<1>5. Min({b, cap}) = IF b <= cap THEN b ELSE cap
  BY SmallerOf
<1>6. Min({n, cap}) = Min({b, cap})
  BY <1>1, <1>2, <1>3, <1>4, <1>5
<1> QED
  BY <1>1, <1>2, <1>3, <1>6

\* A failure counts one more of both, or starts both over.
LEMMA FailureKeepsSpacing ==
    ASSUME SpacingInv, Throw
    PROVE  SpacingInv'
<1>0. PICK duration \in Durations :
          /\ failures' = Min({(IF duration >= Healthy THEN 0 ELSE failures) + 1, CounterCap})
          /\ delay' = Min({Doubled[failures'], MaxDelay})
          /\ slept' = 0
          /\ streak' = (IF duration >= Healthy THEN 0 ELSE streak) + 1
  BY DEF Throw, AfterFailure, CountFailure
<1>1. MaxDelay \in Nat /\ CounterCap \in Nat \ {0} /\ Slice \in Nat \ {0}
  BY BackoffAssumption
<1> DEFINE before == IF duration >= Healthy THEN 0 ELSE streak
<1>2. streak \in Nat /\ failures = Min({streak, CounterCap})
  BY DEF SpacingInv
<1>3. before \in Nat /\ before + 1 \in Nat /\ streak' = before + 1
  <2>1. streak' = before + 1
    BY <1>0
  <2>2. before \in Nat
    BY <1>2
  <2> HIDE DEF before
  <2> QED
    BY <2>1, <2>2
<1>4. failures' = Min({Min({before, CounterCap}) + 1, CounterCap})
  <2>1. CASE duration >= Healthy
    <3>1. before = 0
      BY <2>1
    <3>2. failures' = Min({0 + 1, CounterCap})
      BY <1>0, <2>1
    <3>3. Min({0, CounterCap}) = 0
      BY <1>1, SmallerOf
    <3> HIDE DEF before
    <3> QED
      BY <3>1, <3>2, <3>3
  <2>2. CASE ~(duration >= Healthy)
    BY <1>0, <1>2, <2>2
  <2> QED
    BY <2>1, <2>2
<1> HIDE DEF before
<1>5. failures' = Min({streak', CounterCap})
  <2>1. Min({Min({before, CounterCap}) + 1, CounterCap}) = Min({before + 1, CounterCap})
    BY <1>1, <1>3, CappedTwice
  <2> QED
    BY <1>3, <1>4, <2>1
<1>6. delay' = Expected(streak') /\ delay' \in Nat
  BY <1>0, <1>3, <1>5, DelayAsExpected
<1>7. slept' = 0
  BY <1>0
<1>8. streak' \in Nat /\ streak' # 0
  BY <1>3
<1>9. slept' \in Nat /\ slept' < delay' + Slice
  BY <1>1, <1>6, <1>7
<1> QED
  BY <1>5, <1>6, <1>8, <1>9 DEF SpacingInv, Expected, Throw

\* Every step keeps the counter, the delay and the time slept to the streak.
LEMMA SpacingInvariant == Spec => []SpacingInv
<1>1. Init => SpacingInv
  <2> SUFFICES ASSUME Init PROVE SpacingInv
    OBVIOUS
  <2>1. CounterCap \in Nat /\ Slice \in Nat \ {0}
    BY BackoffAssumption
  <2>2. Min({0, CounterCap}) = 0
    BY <2>1, SmallerOf
  <2> QED
    BY <2>1, <2>2 DEF Init, BackoffInit, SpacingInv
<1>2. SpacingInv /\ [Next]_vars => SpacingInv'
  <2> SUFFICES ASSUME SpacingInv, [Next]_vars
               PROVE  SpacingInv'
    OBVIOUS
  <2>1. ASSUME Throw PROVE SpacingInv'
    BY <2>1, FailureKeepsSpacing
  <2>2. ASSUME UNCHANGED backoffVars,
               at' \in {"backing off", "asleep"} => at = at'
        PROVE  SpacingInv'
    BY <2>2 DEF SpacingInv, backoffVars, Expected
  <2>3. ASSUME Return PROVE SpacingInv'
    BY <2>2, <2>3 DEF Return
  <2>4. ASSUME ReadNext PROVE SpacingInv'
    BY <2>2, <2>4 DEF ReadNext, Start
  <2>5. CASE Step
    <3>1. CASE LoopCondition
      BY <2>2, <3>1 DEF LoopCondition
    <3>2. CASE FallAsleep
      BY <3>2 DEF FallAsleep, SpacingInv, backoffVars, Expected
    <3>3. CASE WakeUp
      <4>1. /\ UNCHANGED <<failures, delay, streak>> /\ slept' = slept + Slice
            /\ at = "asleep" /\ at' = "backing off"
        BY <3>3 DEF WakeUp, SliceSlept
      <4>2. slept \in Nat /\ slept < delay /\ streak # 0 /\ streak \in Nat
        BY <4>1 DEF SpacingInv
      <4>3. delay \in Nat /\ Slice \in Nat
        BY <4>2, DelayAsExpected, BackoffAssumption DEF SpacingInv
      <4>4. \A s, d, slice \in Nat : s < d => s + slice \in Nat /\ s + slice < d + slice
        OBVIOUS
      <4>5. slept + Slice \in Nat /\ slept + Slice < delay + Slice
        BY <4>2, <4>3, <4>4
      <4> QED
        BY <4>1, <4>2, <4>5 DEF SpacingInv, Expected
    <3>4. CASE BackoffEnds
      BY <2>2, <3>4 DEF BackoffEnds
    <3>5. CASE Enter
      BY <2>2, <3>5 DEF Enter, Start
    <3>6. CASE ResolveFails
      BY <2>1, <3>6 DEF ResolveFails
    <3>7. CASE CheckConnect
      BY <2>1, <2>3, <2>4, <3>7 DEF CheckConnect
    <3>8. CASE ReadEndedBadly
      BY <2>1, <2>3, <3>8 DEF ReadEndedBadly
    <3>9. CASE Frame
      BY <2>2, <3>9 DEF Frame
    <3>10. CASE PushLine
      BY <2>2, <3>10 DEF PushLine
    <3>11. CASE ChunkPushed
      BY <2>3, <2>4, <3>11 DEF ChunkPushed
    <3>12. CASE RunCompletion
      BY <2>2, <3>12 DEF RunCompletion, Handled, Running
    <3>13. CASE RunPosted
      BY <2>2, <3>13 DEF RunPosted, Handled, Running
    <3> QED
      BY <2>5, <3>1, <3>2, <3>3, <3>4, <3>5, <3>6, <3>7, <3>8, <3>9, <3>10, <3>11, <3>12, <3>13
      DEF Step
  <2>6. CASE TimeoutStep
    BY <2>2, <2>6 DEF TimeoutStep, Timeout
  <2>7. CASE OperationEnds
    BY <2>2, <2>7 DEF OperationEnds
  <2>8. CASE RequestStop
    BY <2>2, <2>8 DEF RequestStop
  <2>9. CASE RunCallback
    BY <2>2, <2>9 DEF RunCallback
  <2>10. CASE TakeLine
    BY <2>2, <2>10 DEF TakeLine
  <2>11. CASE Ended \/ UNCHANGED vars
    BY <2>2, <2>11 DEF Ended, vars
  <2> QED
    BY <2>5, <2>6, <2>7, <2>8, <2>9, <2>10, <2>11 DEF Next
<1> QED
  BY <1>1, <1>2, PTL DEF Spec

\* Whatever the delays are, and however long the feed has been down, the sleep between
\* two attempts lasts the delay that belongs to the failures since the last healthy
\* connection, and less than one slice more, unless a stop ends it: the cap on the
\* counter and the early end of after_failure's loop do not show.
THEOREM AttemptsAreSpaced == Spec => SpacedByStreak
<1>1. SpacingInv /\ [Next]_vars =>
        [(at = "backing off" /\ at' = "loop" /\ ~stop) =>
            Expected(streak) <= slept /\ slept < Expected(streak) + Slice]_vars
  <2> SUFFICES ASSUME SpacingInv, [Next]_vars, at = "backing off", at' = "loop", ~stop
               PROVE  Expected(streak) <= slept /\ slept < Expected(streak) + Slice
    OBVIOUS
  <2>1. BackoffEnds
    <3>1. Step
      BY DEF Next, TimeoutStep, Timeout, OperationEnds, RequestStop, RunCallback, TakeLine,
             Ended, vars
    <3> QED
      BY <3>1 DEF Step, LoopCondition, FallAsleep, WakeUp, Enter, ResolveFails, CheckConnect,
             ReadEndedBadly, Frame, PushLine, ChunkPushed, RunCompletion, RunPosted, Running
  <2>2. streak \in Nat /\ streak # 0 /\ delay = Expected(streak) /\ slept \in Nat
    BY DEF SpacingInv
  <2>3. delay \in Nat
    BY <2>2, DelayAsExpected
  <2> QED
    BY <2>1, <2>2, <2>3 DEF BackoffEnds, SpacingInv
<1> QED
  BY <1>1, SpacingInvariant, PTL DEF Spec, SpacedByStreak

------------------------------------------------------------------------------
(* The framer.  The lines taken from a stream are told by the places of the   *)
(* line feeds that end them.                                                 *)

\* What is received, a line, and what is left in the buffer.
Text == Seq(Characters)

\* The places end[1], ..., end[n] of line feeds, the one before, and the line between.
Before(ends, k) == IF k = 1 THEN 0 ELSE ends[k - 1]

\* The line begins after the one place and goes up to the carriage returns before the other.
IsLine(line, stream, before, end) ==
    /\ before + Len(line) < end
    /\ Len(line) # 0 => line[Len(line)] # CR
    /\ \A i \in 1 .. Len(line) : line[i] = stream[before + i]
    /\ \A i \in before + Len(line) + 1 .. end - 1 : stream[i] = CR

\* The lines are all there are up to the last place, and the rest is what comes after.
Cut(stream, lines, rest, ends) ==
    /\ Len(ends) = Len(lines)
    /\ Len(rest) <= Len(stream)
    /\ \A k \in 1 .. Len(ends) : ends[k] \in 1 .. Len(stream) - Len(rest) /\ stream[ends[k]] = LF
    /\ \A j, k \in 1 .. Len(ends) : j < k => ends[j] < ends[k]
    /\ \A i \in 1 .. Len(stream) - Len(rest) :
          stream[i] = LF => \E k \in 1 .. Len(ends) : ends[k] = i
    /\ Len(stream) - Len(rest) = IF Len(ends) = 0 THEN 0 ELSE ends[Len(ends)]
    /\ \A i \in 1 .. Len(rest) : rest[i] = stream[(Len(stream) - Len(rest)) + i]
    /\ \A k \in 1 .. Len(ends) : IsLine(lines[k], stream, Before(ends, k), ends[k])

\* That the lines and the rest come of the stream; the places are the witness.
CanBeCut(stream, lines, rest) == \E ends \in Seq(Nat) : Cut(stream, lines, rest, ends)

NoFeed(text) == \A i \in 1 .. Len(text) : text[i] # LF

\* A set of numbers has a least, and a bounded one a greatest.
LEMMA LeastOf ==
    ASSUME NEW T \in SUBSET Nat, T # {}
    PROVE  Min(T) \in T /\ \A y \in T : Min(T) <= y
<1>1. PICK x \in T : \A y \in T : ~(<<y, x>> \in OpToRel(<, Nat))
  BY NatLessThanWellFounded, WFMin, Zenon
<1>2. \A y \in T : ~(y < x)
  BY <1>1 DEF OpToRel
<1>3. \E z \in T : \A y \in T : z <= y
  BY <1>2
<1> QED
  BY <1>3, Zenon DEF Min

LEMMA GreatestOf ==
    ASSUME NEW n \in Nat, NEW T \in SUBSET (0 .. n), T # {}
    PROVE  Max(T) \in T /\ \A y \in T : y <= Max(T)
<1> DEFINE U == {n - y : y \in T}
<1>1. U \in SUBSET Nat /\ U # {}
  <2>1. \A y \in T : y \in Int /\ n - y \in Nat
    OBVIOUS
  <2> QED
    BY <2>1
<1>2. PICK V : V = U
  OBVIOUS
<1>3. PICK u \in U : \A v \in U : u <= v
  <2>1. V \in SUBSET Nat /\ V # {}
    BY <1>1, <1>2
  <2>2. Min(V) \in V /\ \A v \in V : Min(V) <= v
    BY <2>1, LeastOf
  <2> QED
    BY <1>2, <2>2
<1>4. PICK x \in T : u = n - x
  BY <1>3
<1>5. \A y \in T : n - x <= n - y
  BY <1>3, <1>4
<1>6. \E z \in T : \A y \in T : z >= y
  BY <1>5
<1>7. Max(T) \in T /\ \A y \in T : Max(T) >= y
  BY <1>6, Zenon DEF Max
<1> QED
  BY <1>7

\* The beginning and the end of a sequence.
LEMMA FirstOnes ==
    ASSUME NEW S, NEW s \in Seq(S), NEW k \in Nat, k <= Len(s)
    PROVE  /\ SubSeq(s, 1, k) \in Seq(S) /\ Len(SubSeq(s, 1, k)) = k
           /\ \A i \in 1 .. k : SubSeq(s, 1, k)[i] = s[i]
<1>1. Len(s) \in Nat
  BY LenProperties
<1>2. \A i \in 1 .. k : s[i] \in S
  BY <1>1, ElementOfSeq
<1>3. /\ SubSeq(s, 1, k) \in Seq(S)
      /\ Len(SubSeq(s, 1, k)) = IF 1 <= k THEN k - 1 + 1 ELSE 0
      /\ \A i \in 1 .. k - 1 + 1 : SubSeq(s, 1, k)[i] = s[1 + i - 1]
  BY <1>1, <1>2, SubSeqProperties
<1> QED
  BY <1>3

LEMMA LastOnes ==
    ASSUME NEW S, NEW s \in Seq(S), NEW k \in Nat, k <= Len(s)
    PROVE  /\ SubSeq(s, k + 1, Len(s)) \in Seq(S)
           /\ Len(SubSeq(s, k + 1, Len(s))) = Len(s) - k
           /\ \A i \in 1 .. Len(s) - k : SubSeq(s, k + 1, Len(s))[i] = s[k + i]
<1>1. PICK n \in Nat : n = Len(s)
  BY LenProperties
<1>2. PICK m \in Nat : m = k + 1
  OBVIOUS
<1>3. \A i \in m .. n : s[i] \in S
  BY <1>1, <1>2, ElementOfSeq
<1>4. /\ SubSeq(s, m, n) \in Seq(S)
      /\ Len(SubSeq(s, m, n)) = IF m <= n THEN n - m + 1 ELSE 0
      /\ \A i \in 1 .. n - m + 1 : SubSeq(s, m, n)[i] = s[m + i - 1]
  BY <1>1, <1>2, <1>3, SubSeqProperties
<1>5. Len(SubSeq(s, m, n)) = n - k
  BY <1>1, <1>2, <1>4
<1>6. ASSUME NEW i \in 1 .. n - k PROVE SubSeq(s, m, n)[i] = s[k + i]
  <2>1. i \in 1 .. n - m + 1 /\ m + i - 1 = k + i
    BY <1>1, <1>2
  <2> QED
    BY <1>4, <2>1
<1> QED
  BY <1>1, <1>2, <1>4, <1>5, <1>6

\* All carriage returns at the end go, and nothing else.
LEMMA StrippedFacts ==
    ASSUME NEW text \in Text
    PROVE  /\ Stripped(text) \in Text /\ Len(Stripped(text)) <= Len(text)
           /\ Len(Stripped(text)) # 0 => Stripped(text)[Len(Stripped(text))] # CR
           /\ \A i \in 1 .. Len(Stripped(text)) : Stripped(text)[i] = text[i]
           /\ \A i \in Len(Stripped(text)) + 1 .. Len(text) : text[i] = CR
<1> DEFINE T == {0} \cup {i \in 1 .. Len(text) : text[i] # CR}
<1>1. text \in Seq(Characters) /\ Len(text) \in Nat
  BY LenProperties DEF Text
<1>2. PICK k : k = Max(T)
  OBVIOUS
<1>3. T \in SUBSET (0 .. Len(text)) /\ T # {}
  BY <1>1
<1>4. k \in T /\ \A y \in T : y <= k
  <2> HIDE DEF T
  <2> QED
    BY <1>1, <1>2, <1>3, GreatestOf
<1>5. PICK s : s = SubSeq(text, 1, k)
  OBVIOUS
<1>6. Stripped(text) = s
  BY <1>2, <1>5 DEF Stripped
<1>7. k \in Nat /\ k <= Len(text)
  BY <1>1, <1>4
<1>8. s \in Seq(Characters) /\ Len(s) = k /\ \A i \in 1 .. k : s[i] = text[i]
  BY <1>1, <1>5, <1>7, FirstOnes
<1>9. k # 0 => s[k] # CR
  BY <1>4, <1>7, <1>8
<1>10. \A i \in k + 1 .. Len(text) : text[i] = CR
  <2> SUFFICES ASSUME NEW i \in k + 1 .. Len(text), text[i] # CR PROVE FALSE
    OBVIOUS
  <2>1. i \in T
    BY <1>1, <1>7
  <2> QED
    BY <1>4, <1>7, <2>1
<1> QED
  BY <1>6, <1>7, <1>8, <1>9, <1>10 DEF Text

\* A line has to do with what comes before its end only.
LEMMA LineStays ==
    ASSUME NEW line \in Text, NEW s, NEW t, NEW before \in Nat, NEW end \in Nat,
           IsLine(line, s, before, end), \A i \in 1 .. end - 1 : t[i] = s[i]
    PROVE  IsLine(line, t, before, end)
<1>1. Len(line) \in Nat
  BY LenProperties DEF Text
<1>2. before + Len(line) < end
  BY DEF IsLine
<1>3. ASSUME NEW i \in 1 .. Len(line) PROVE line[i] = t[before + i]
  <2>1. before + i \in 1 .. end - 1
    BY <1>1, <1>2
  <2> QED
    BY <2>1 DEF IsLine
<1>4. ASSUME NEW i \in before + Len(line) + 1 .. end - 1 PROVE t[i] = CR
  <2>1. i \in 1 .. end - 1
    BY <1>1
  <2> QED
    BY <2>1 DEF IsLine
<1>5. Len(line) # 0 => line[Len(line)] # CR
  BY DEF IsLine
<1> QED
  BY <1>2, <1>3, <1>4, <1>5 DEF IsLine

\* The types of what a stream has been cut into.
LEMMA CutTypes ==
    ASSUME NEW stream \in Text, NEW lines \in Seq(Text), NEW rest \in Text, NEW ends \in Seq(Nat),
           Cut(stream, lines, rest, ends)
    PROVE  /\ Len(stream) \in Nat /\ Len(lines) \in Nat /\ Len(rest) \in Nat /\ Len(ends) \in Nat
           /\ Len(ends) = Len(lines) /\ Len(rest) <= Len(stream)
           /\ Len(stream) - Len(rest) \in 0 .. Len(stream)
           /\ \A k \in 1 .. Len(ends) :
                /\ ends[k] \in Nat /\ ends[k] \in 1 .. Len(stream) - Len(rest)
                /\ Before(ends, k) \in Nat /\ lines[k] \in Text
                /\ IsLine(lines[k], stream, Before(ends, k), ends[k])
<1>1. Len(stream) \in Nat /\ Len(lines) \in Nat /\ Len(rest) \in Nat /\ Len(ends) \in Nat
  BY LenProperties DEF Text
<1>2. Len(ends) = Len(lines) /\ Len(rest) <= Len(stream)
  BY DEF Cut
<1>3. ASSUME NEW k \in 1 .. Len(ends)
      PROVE  /\ ends[k] \in Nat /\ ends[k] \in 1 .. Len(stream) - Len(rest)
             /\ Before(ends, k) \in Nat /\ lines[k] \in Text
             /\ IsLine(lines[k], stream, Before(ends, k), ends[k])
  <2>1. ends[k] \in Nat /\ lines[k] \in Text
    BY <1>1, <1>2, ElementOfSeq
  <2>2. ends[k] \in 1 .. Len(stream) - Len(rest) /\ IsLine(lines[k], stream, Before(ends, k), ends[k])
    BY DEF Cut
  <2>3. Before(ends, k) \in Nat
    <3>1. k # 1 => k - 1 \in 1 .. Len(ends)
      BY <1>1
    <3>2. k # 1 => ends[k - 1] \in Nat
      BY <1>1, <3>1, ElementOfSeq
    <3> QED
      BY <3>2 DEF Before
  <2> QED
    BY <2>1, <2>2, <2>3
<1> QED
  BY <1>1, <1>2, <1>3

\* What is received later comes behind what is left, and changes nothing before it.
LEMMA ChunkIsLeft ==
    ASSUME NEW stream \in Text, NEW lines \in Seq(Text), NEW rest \in Text, NEW chunk \in Text,
           CanBeCut(stream, lines, rest)
    PROVE  CanBeCut(stream \o chunk, lines, rest \o chunk)
<1>1. PICK ends \in Seq(Nat) : Cut(stream, lines, rest, ends)
  BY DEF CanBeCut
<1>2. /\ Len(stream) \in Nat /\ Len(lines) \in Nat /\ Len(rest) \in Nat /\ Len(ends) \in Nat
      /\ Len(ends) = Len(lines) /\ Len(rest) <= Len(stream)
      /\ \A k \in 1 .. Len(ends) :
           /\ ends[k] \in Nat /\ ends[k] \in 1 .. Len(stream) - Len(rest)
           /\ Before(ends, k) \in Nat /\ lines[k] \in Text
           /\ IsLine(lines[k], stream, Before(ends, k), ends[k])
  BY <1>1, CutTypes
<1>3. PICK s, r, c : s = stream \o chunk /\ r = rest \o chunk /\ c = Len(stream) - Len(rest)
  OBVIOUS
<1>4. Len(chunk) \in Nat /\ c \in Nat /\ c <= Len(stream)
  BY <1>2, <1>3, LenProperties DEF Text
<1>5. /\ Len(s) = Len(stream) + Len(chunk)
      /\ \A i \in 1 .. Len(stream) + Len(chunk) :
            s[i] = IF i <= Len(stream) THEN stream[i] ELSE chunk[i - Len(stream)]
  BY <1>3, ConcatProperties DEF Text
<1>6. /\ Len(r) = Len(rest) + Len(chunk)
      /\ \A i \in 1 .. Len(rest) + Len(chunk) :
            r[i] = IF i <= Len(rest) THEN rest[i] ELSE chunk[i - Len(rest)]
  BY <1>3, ConcatProperties DEF Text
<1>7. Len(s) - Len(r) = c /\ Len(r) <= Len(s)
  BY <1>2, <1>3, <1>4, <1>5, <1>6
<1>8. \A i \in 1 .. c : s[i] = stream[i]
  BY <1>2, <1>4, <1>5
<1>9. \A k \in 1 .. Len(ends) : ends[k] \in 1 .. c /\ s[ends[k]] = LF
  BY <1>1, <1>3, <1>8 DEF Cut
<1>10. \A j, k \in 1 .. Len(ends) : j < k => ends[j] < ends[k]
  BY <1>1 DEF Cut
<1>11. \A i \in 1 .. c : s[i] = LF => \E k \in 1 .. Len(ends) : ends[k] = i
  BY <1>1, <1>3, <1>8 DEF Cut
<1>12. c = IF Len(ends) = 0 THEN 0 ELSE ends[Len(ends)]
  BY <1>1, <1>3 DEF Cut
<1>13. ASSUME NEW i \in 1 .. Len(r) PROVE r[i] = s[c + i]
  <2>1. i \in 1 .. Len(rest) + Len(chunk) /\ c + i \in 1 .. Len(stream) + Len(chunk)
    BY <1>2, <1>3, <1>4, <1>6
  <2>2. CASE i <= Len(rest)
    <3>1. i \in 1 .. Len(rest) /\ c + i <= Len(stream)
      BY <1>2, <1>3, <1>4, <2>1, <2>2
    <3>2. rest[i] = stream[c + i]
      BY <1>1, <1>3, <3>1 DEF Cut
    <3> QED
      BY <1>5, <1>6, <2>1, <2>2, <3>1, <3>2
  <2>3. CASE ~(i <= Len(rest))
    <3>1. ~(c + i <= Len(stream)) /\ (c + i) - Len(stream) = i - Len(rest)
      BY <1>2, <1>3, <1>4, <2>1, <2>3
    <3> QED
      BY <1>5, <1>6, <2>1, <2>3, <3>1
  <2> QED
    BY <2>2, <2>3
<1>14. ASSUME NEW k \in 1 .. Len(ends) PROVE IsLine(lines[k], s, Before(ends, k), ends[k])
  <2>1. ends[k] \in Nat /\ ends[k] <= c /\ Before(ends, k) \in Nat /\ lines[k] \in Text
        /\ IsLine(lines[k], stream, Before(ends, k), ends[k])
    BY <1>2, <1>3, <1>4
  <2>2. PICK l, b, e : l = lines[k] /\ b = Before(ends, k) /\ e = ends[k]
    OBVIOUS
  <2>3. \A i \in 1 .. e - 1 : s[i] = stream[i]
    BY <1>4, <1>8, <2>1, <2>2
  <2>4. l \in Text /\ b \in Nat /\ e \in Nat /\ IsLine(l, stream, b, e)
    BY <2>1, <2>2
  <2>5. IsLine(l, s, b, e)
    BY <2>3, <2>4, LineStays
  <2> QED
    BY <2>2, <2>5
<1>15. Cut(s, lines, r, ends)
  BY <1>2, <1>7, <1>9, <1>10, <1>11, <1>12, <1>13, <1>14 DEF Cut
<1> QED
  BY <1>3, <1>15 DEF CanBeCut

\* The next line is what is left before the first line feed.
Taken(text, pos, line, later) ==
    /\ text[pos] = LF /\ \A i \in 1 .. pos - 1 : text[i] # LF
    /\ line = Stripped(SubSeq(text, 1, pos - 1))
    /\ later = SubSeq(text, pos + 1, Len(text))

\* A line taken is the next one of the stream.
LEMMA NextLine ==
    ASSUME NEW stream \in Text, NEW lines \in Seq(Text), NEW rest \in Text,
           CanBeCut(stream, lines, rest),
           NEW pos \in 1 .. Len(rest), NEW line, NEW later, Taken(rest, pos, line, later)
    PROVE  /\ line \in Text /\ later \in Text /\ Len(later) = Len(rest) - pos
           /\ CanBeCut(stream, Append(lines, line), later)
<1>1. PICK ends \in Seq(Nat) : Cut(stream, lines, rest, ends)
  BY DEF CanBeCut
<1>2. /\ Len(stream) \in Nat /\ Len(lines) \in Nat /\ Len(rest) \in Nat /\ Len(ends) \in Nat
      /\ Len(ends) = Len(lines) /\ Len(rest) <= Len(stream)
      /\ \A k \in 1 .. Len(ends) :
           /\ ends[k] \in Nat /\ ends[k] \in 1 .. Len(stream) - Len(rest)
           /\ Before(ends, k) \in Nat /\ lines[k] \in Text
           /\ IsLine(lines[k], stream, Before(ends, k), ends[k])
  BY <1>1, CutTypes
<1>3. PICK n, c, e : n = Len(ends) /\ c = Len(stream) - Len(rest) /\ e = c + pos
  OBVIOUS
<1>4. /\ n \in Nat /\ c \in Nat /\ pos \in Nat /\ pos - 1 \in Nat
      /\ pos <= Len(rest) /\ pos - 1 <= Len(rest)
      /\ e \in Nat /\ e \in 1 .. Len(stream) /\ c < e
  BY <1>2, <1>3
<1>5. \A i \in 1 .. Len(rest) : rest[i] = stream[c + i]
  BY <1>1, <1>3 DEF Cut
<1>6. /\ later \in Text /\ Len(later) = Len(rest) - pos /\ Len(later) \in Nat
      /\ \A i \in 1 .. Len(rest) - pos : later[i] = rest[pos + i]
  <2>1. later = SubSeq(rest, pos + 1, Len(rest))
    BY DEF Taken
  <2>2. rest \in Seq(Characters)
    BY DEF Text
  <2>3. PICK t : t = SubSeq(rest, pos + 1, Len(rest))
    OBVIOUS
  <2>4. /\ t \in Seq(Characters) /\ Len(t) = Len(rest) - pos
        /\ \A i \in 1 .. Len(rest) - pos : t[i] = rest[pos + i]
    BY <1>4, <2>2, <2>3, LastOnes
  <2>5. Len(rest) - pos \in Nat
    BY <1>2, <1>4
  <2> QED
    BY <2>1, <2>3, <2>4, <2>5 DEF Text
<1>7. PICK raw : /\ raw = SubSeq(rest, 1, pos - 1) /\ raw \in Text /\ Len(raw) = pos - 1
                 /\ \A i \in 1 .. pos - 1 : raw[i] = rest[i]
  <2>1. PICK raw, m : raw = SubSeq(rest, 1, m) /\ m = pos - 1
    OBVIOUS
  <2>2. m \in Nat /\ m <= Len(rest)
    BY <1>4, <2>1
  <2>3. raw \in Text /\ Len(raw) = m /\ \A i \in 1 .. m : raw[i] = rest[i]
    BY <2>1, <2>2, FirstOnes DEF Text
  <2> QED
    BY <2>1, <2>3
<1>8. /\ line \in Text /\ Len(line) <= pos - 1 /\ Len(line) \in Nat
      /\ Len(line) # 0 => line[Len(line)] # CR
      /\ \A i \in 1 .. Len(line) : line[i] = raw[i]
      /\ \A i \in Len(line) + 1 .. pos - 1 : raw[i] = CR
  <2>1. line = Stripped(raw)
    BY <1>7 DEF Taken
  <2>2. /\ line \in Text /\ Len(line) <= Len(raw)
        /\ Len(line) # 0 => line[Len(line)] # CR
        /\ \A i \in 1 .. Len(line) : line[i] = raw[i]
        /\ \A i \in Len(line) + 1 .. Len(raw) : raw[i] = CR
    BY <1>7, <2>1, StrippedFacts
  <2>3. Len(line) \in Nat
    BY <2>2, LenProperties DEF Text
  <2> QED
    BY <1>7, <2>2, <2>3
<1>9. IsLine(line, stream, c, e)
  <2>1. c + Len(line) < e
    BY <1>3, <1>4, <1>8
  <2>2. ASSUME NEW i \in 1 .. Len(line) PROVE line[i] = stream[c + i]
    <3>1. i \in 1 .. pos - 1 /\ i \in 1 .. Len(rest)
      BY <1>4, <1>8
    <3> QED
      BY <1>5, <1>7, <1>8, <3>1
  <2>3. ASSUME NEW i \in c + Len(line) + 1 .. e - 1 PROVE stream[i] = CR
    <3>1. PICK j : j = i - c
      OBVIOUS
    <3>2. PICK n0, m : n0 = Len(line) /\ m = Len(rest)
      OBVIOUS
    <3>3. n0 \in Nat /\ m \in Nat /\ i \in c + n0 + 1 .. e - 1
      BY <1>2, <1>8, <3>2
    <3>4. j \in n0 + 1 .. pos - 1 /\ c + j = i
      BY <1>3, <1>4, <3>1, <3>3
    <3>5. j \in 1 .. pos - 1 /\ j \in 1 .. m
      BY <1>4, <3>2, <3>3, <3>4
    <3> QED
      BY <1>5, <1>7, <1>8, <3>2, <3>4, <3>5
  <2> QED
    BY <1>8, <2>1, <2>2, <2>3 DEF IsLine
<1>10. PICK l, f : l = Append(lines, line) /\ f = Append(ends, e)
  OBVIOUS
<1>11. /\ l \in Seq(Text) /\ Len(l) = n + 1 /\ l[n + 1] = line /\ \A k \in 1 .. n : l[k] = lines[k]
  BY <1>2, <1>3, <1>8, <1>10, AppendProperties
<1>12. /\ f \in Seq(Nat) /\ Len(f) = n + 1 /\ f[n + 1] = e /\ \A k \in 1 .. n : f[k] = ends[k]
  BY <1>2, <1>3, <1>4, <1>10, AppendProperties
<1>13. Len(stream) - Len(later) = e /\ Len(later) <= Len(stream)
  <2>1. Len(later) = Len(rest) - pos
    BY <1>6
  <2>2. Len(stream) \in Nat /\ Len(rest) \in Nat /\ Len(rest) <= Len(stream)
    BY <1>2
  <2> QED
    BY <1>3, <1>4, <2>1, <2>2
<1>14. \A k \in 1 .. n + 1 : k \in 1 .. n \/ k = n + 1
  BY <1>4
<1>15. c = IF n = 0 THEN 0 ELSE ends[n]
  BY <1>1, <1>3 DEF Cut
<1>16. \A k \in 1 .. n + 1 : f[k] \in 1 .. e /\ stream[f[k]] = LF
  <2>1. stream[e] = LF
    BY <1>3, <1>5 DEF Taken
  <2>2. \A k \in 1 .. n : ends[k] \in 1 .. e /\ stream[ends[k]] = LF
    <3>1. \A k \in 1 .. n : ends[k] \in 1 .. c /\ stream[ends[k]] = LF
      BY <1>1, <1>3 DEF Cut
    <3> QED
      BY <1>4, <3>1
  <2>3. e \in 1 .. e
    BY <1>4
  <2> QED
    BY <1>12, <1>14, <2>1, <2>2, <2>3
<1>17. ASSUME NEW j \in 1 .. n + 1, NEW k \in 1 .. n + 1, j < k PROVE f[j] < f[k]
  <2>1. j \in 1 .. n
    BY <1>4, <1>17
  <2>2. f[j] = ends[j] /\ ends[j] \in 1 .. c
    BY <1>2, <1>3, <1>12, <2>1
  <2>3. CASE k \in 1 .. n
    BY <1>1, <1>3, <1>12, <1>17, <2>1, <2>2, <2>3 DEF Cut
  <2>4. CASE k = n + 1
    BY <1>4, <1>12, <2>2, <2>4
  <2> QED
    BY <1>14, <2>3, <2>4
<1>18. ASSUME NEW i \in 1 .. e, stream[i] = LF PROVE \E k \in 1 .. n + 1 : f[k] = i
  <2>1. CASE i \in 1 .. c
    <3>1. PICK k \in 1 .. n : ends[k] = i
      BY <1>1, <1>3, <1>18, <2>1 DEF Cut
    <3>2. k \in 1 .. n + 1
      BY <1>4
    <3> QED
      BY <1>12, <3>1, <3>2
  <2>2. CASE i \notin 1 .. c
    <3>1. PICK j : j = i - c
      OBVIOUS
    <3>2. j \in 1 .. pos /\ j \in 1 .. Len(rest) /\ c + j = i
      BY <1>3, <1>4, <2>2, <3>1
    <3>3. rest[j] = LF
      BY <1>5, <1>18, <3>2
    <3>4. j \notin 1 .. pos - 1
      BY <3>3 DEF Taken
    <3>5. j = pos
      BY <1>4, <3>2, <3>4
    <3>6. i = e /\ n + 1 \in 1 .. n + 1
      BY <1>3, <1>4, <3>2, <3>5
    <3> QED
      BY <1>12, <3>6
  <2> QED
    BY <2>1, <2>2
<1>19. ASSUME NEW i \in 1 .. Len(later) PROVE later[i] = stream[e + i]
  <2>1. i \in 1 .. Len(rest) - pos /\ pos + i \in 1 .. Len(rest) /\ c + (pos + i) = e + i
    BY <1>2, <1>3, <1>4, <1>6
  <2> QED
    BY <1>5, <1>6, <2>1
<1>20. ASSUME NEW k \in 1 .. n + 1 PROVE IsLine(l[k], stream, Before(f, k), f[k])
  <2>1. CASE k \in 1 .. n
    <3>1. Before(f, k) = Before(ends, k)
      <4>1. k # 1 => k - 1 \in 1 .. n
        BY <1>4, <2>1
      <4> QED
        BY <1>12, <4>1 DEF Before
    <3> QED
      BY <1>2, <1>3, <1>11, <1>12, <2>1, <3>1
  <2>2. CASE k = n + 1
    <3>1. Before(f, k) = c
      <4>1. n # 0 => n \in 1 .. n /\ k # 1 /\ k - 1 = n
        BY <1>4, <2>2
      <4> QED
        BY <1>12, <1>15, <2>2, <4>1 DEF Before
    <3> QED
      BY <1>9, <1>11, <1>12, <2>2, <3>1
  <2> QED
    BY <1>14, <2>1, <2>2
<1>21. Len(stream) - Len(later) = IF Len(f) = 0 THEN 0 ELSE f[Len(f)]
  <2>1. Len(f) # 0 /\ f[Len(f)] = e
    BY <1>4, <1>12
  <2> QED
    BY <1>13, <2>1
<1>22. Cut(stream, l, later, f)
  BY <1>11, <1>12, <1>13, <1>16, <1>17, <1>18, <1>19, <1>20, <1>21 DEF Cut
<1> QED
  BY <1>6, <1>8, <1>10, <1>12, <1>22 DEF CanBeCut

\* Where the loop of feed is: the lines so far, and the text not yet searched.
Framing == [lines : Seq(Text), rest : Text]

\* A round takes the next line, or there is none.
LEMMA RoundFacts ==
    ASSUME NEW x \in Framing
    PROVE  /\ NoFeed(x.rest) => Round(x) = x
           /\ ~NoFeed(x.rest) =>
                \E pos \in 1 .. Len(x.rest) : \E line, later :
                    /\ Taken(x.rest, pos, line, later)
                    /\ Round(x) = [lines |-> Append(x.lines, line), rest |-> later]
<1> DEFINE feeds == {i \in 1 .. Len(x.rest) : x.rest[i] = LF}
           line  == Stripped(SubSeq(x.rest, 1, Min(feeds) - 1))
           later == SubSeq(x.rest, Min(feeds) + 1, Len(x.rest))
<1>1. Round(x) = IF feeds = {} THEN x ELSE [lines |-> Append(x.lines, line), rest |-> later]
  BY DEF Round
<1>2. NoFeed(x.rest) <=> feeds = {}
  BY DEF NoFeed
<1>3. ASSUME feeds # {} PROVE Min(feeds) \in feeds /\ \A i \in feeds : Min(feeds) <= i
  <2>1. feeds \in SUBSET Nat
    OBVIOUS
  <2> HIDE DEF feeds
  <2> QED
    BY <1>3, <2>1, LeastOf
<1>4. ASSUME feeds # {}
      PROVE  Min(feeds) \in 1 .. Len(x.rest) /\ Taken(x.rest, Min(feeds), line, later)
  <2>1. PICK pos : pos = Min(feeds)
    OBVIOUS
  <2>2. pos \in 1 .. Len(x.rest) /\ x.rest[pos] = LF /\ \A i \in feeds : pos <= i
    BY <1>3, <1>4, <2>1
  <2>3. ASSUME NEW i \in 1 .. pos - 1 PROVE x.rest[i] # LF
    <3>1. Len(x.rest) \in Nat
      BY LenProperties DEF Framing, Text
    <3>2. i \in 1 .. Len(x.rest) /\ ~(pos <= i)
      BY <2>2, <3>1
    <3> QED
      BY <2>2, <3>2
  <2> HIDE DEF feeds
  <2> QED
    BY <2>1, <2>2, <2>3 DEF Taken
<1> HIDE DEF feeds, line, later
<1> QED
  BY <1>1, <1>2, <1>4

\* Concatenation and one more.
LEMMA AppendLast ==
    ASSUME NEW S, NEW s \in Seq(S), NEW t \in Seq(S), NEW x \in S
    PROVE  s \o Append(t, x) = Append(s \o t, x)
<1>1. PICK m, n : m = Len(s) /\ n = Len(t)
  OBVIOUS
<1>2. m \in Nat /\ n \in Nat
  BY <1>1, LenProperties
<1>3. PICK a, b, c, d : a = Append(t, x) /\ b = s \o a /\ c = s \o t /\ d = Append(c, x)
  OBVIOUS
<1>4. a \in Seq(S) /\ Len(a) = n + 1 /\ a[n + 1] = x /\ \A i \in 1 .. n : a[i] = t[i]
  BY <1>1, <1>3, AppendProperties
<1>5. /\ b \in Seq(S) /\ Len(b) = m + (n + 1)
      /\ \A i \in 1 .. m + (n + 1) : b[i] = IF i <= m THEN s[i] ELSE a[i - m]
  <2>1. /\ b \in Seq(S) /\ Len(b) = Len(s) + Len(a)
        /\ \A i \in 1 .. Len(s) + Len(a) : b[i] = IF i <= Len(s) THEN s[i] ELSE a[i - Len(s)]
    BY <1>3, <1>4, ConcatProperties
  <2>2. Len(s) = m /\ Len(a) = n + 1
    BY <1>1, <1>4
  <2> QED
    BY <2>1, <2>2
<1>6. /\ c \in Seq(S) /\ Len(c) = m + n
      /\ \A i \in 1 .. m + n : c[i] = IF i <= m THEN s[i] ELSE t[i - m]
  BY <1>1, <1>3, ConcatProperties
<1>7. d \in Seq(S) /\ Len(d) = (m + n) + 1 /\ d[(m + n) + 1] = x /\ \A i \in 1 .. m + n : d[i] = c[i]
  BY <1>3, <1>6, AppendProperties
<1>8. ASSUME NEW i \in 1 .. Len(b) PROVE b[i] = d[i]
  <2>1. i \in 1 .. m + (n + 1) /\ (i \in 1 .. m + n \/ i = (m + n) + 1)
    BY <1>2, <1>5
  <2>2. CASE i \in 1 .. m + n
    <3>1. i <= m \/ i - m \in 1 .. n
      BY <1>2, <2>2
    <3> QED
      BY <1>4, <1>5, <1>6, <1>7, <2>1, <2>2, <3>1
  <2>3. CASE i = (m + n) + 1
    <3>1. ~(i <= m) /\ i - m = n + 1
      BY <1>2, <2>3
    <3> QED
      BY <1>4, <1>5, <1>7, <2>1, <2>3, <3>1
  <2> QED
    BY <2>1, <2>2, <2>3
<1>9. Len(b) = Len(d)
  BY <1>2, <1>5, <1>7
<1>10. b = d
  BY <1>5, <1>7, <1>8, <1>9, SeqEqual
<1> QED
  BY <1>3, <1>10

\* A round leaves lines and text.
LEMMA RoundTypes ==
    ASSUME NEW x \in Framing
    PROVE  Round(x) \in Framing
<1>1. x.lines \in Seq(Text) /\ x.rest \in Text
  BY DEF Framing
<1>2. CASE NoFeed(x.rest)
  BY <1>2, RoundFacts
<1>3. CASE ~NoFeed(x.rest)
  <2>1. PICK pos, line, later :
              /\ pos \in 1 .. Len(x.rest)
              /\ Taken(x.rest, pos, line, later)
              /\ Round(x) = [lines |-> Append(x.lines, line), rest |-> later]
    <3>1. PICK pos \in 1 .. Len(x.rest) : \E line, later :
              /\ Taken(x.rest, pos, line, later)
              /\ Round(x) = [lines |-> Append(x.lines, line), rest |-> later]
      BY <1>3, RoundFacts
    <3> QED
      BY <3>1
  <2>2. Len(x.rest) \in Nat /\ x.rest \in Seq(Characters)
    BY <1>1, LenProperties DEF Text
  <2>3. PICK m : m = pos - 1
    OBVIOUS
  <2>4. m \in Nat /\ m <= Len(x.rest) /\ pos \in Nat /\ pos <= Len(x.rest)
    BY <2>1, <2>2, <2>3
  <2>5. SubSeq(x.rest, 1, m) \in Text
    BY <2>2, <2>4, FirstOnes DEF Text
  <2>6. line \in Text
    BY <2>1, <2>3, <2>5, StrippedFacts DEF Taken
  <2>7. later \in Text
    BY <2>1, <2>2, <2>4, LastOnes DEF Taken, Text
  <2>8. Append(x.lines, line) \in Seq(Text)
    BY <1>1, <2>6, AppendProperties
  <2> QED
    BY <2>1, <2>7, <2>8 DEF Framing
<1> QED
  BY <1>2, <1>3

\* The loop of feed, round by round.
Rounds(text, after) ==
    /\ after \in [0 .. Len(text) -> Framing]
    /\ after[0] = [lines |-> <<>>, rest |-> text]
    /\ \A i \in 1 .. Len(text) : after[i] = Round(after[i - 1])

\* The recursive function is defined, so Framed is the last of its rounds.
LEMMA FramedUnfolds ==
    ASSUME NEW text \in Text
    PROVE  \E after : Rounds(text, after) /\ Framed(text) = after[Len(text)]
<1> DEFINE n == Len(text)
           start == [lines |-> <<>>, rest |-> text]
           Value(f, i) == IF i = 0 THEN start ELSE Round(f[i - 1])
           next == [x \in Framing |-> Round(x)]
<1>1. n \in Nat
  BY LenProperties DEF Text
<1>2. start \in Framing
  <2>1. <<>> \in Seq(Text)
    OBVIOUS
  <2> QED
    BY <2>1 DEF Framing
<1>3. next \in [Framing -> Framing]
  BY RoundTypes
<1>4. PICK f \in [0 .. n -> Framing] : f[0] = start /\ \A i \in 1 .. n : f[i] = next[f[i - 1]]
  <2>1. PICK T, first, step : T = Framing /\ first = start /\ step = next
    OBVIOUS
  <2> HIDE DEF n, start, next
  <2>2. first \in T /\ IsStep(step, T)
    BY <1>2, <1>3, <2>1 DEF IsStep
  <2>3. PICK f : Iterates(f, n, T, first, step)
    BY <1>1, <2>2, Iteration
  <2> QED
    BY <2>1, <2>3 DEF Iterates
<1>5. \A i \in 0 .. n : f[i] = Value(f, i)
  <2> SUFFICES ASSUME NEW i \in 0 .. n PROVE f[i] = Value(f, i)
    OBVIOUS
  <2>1. CASE i = 0
    BY <1>4, <2>1
  <2>2. CASE i # 0
    <3>1. i \in 1 .. n /\ i - 1 \in 0 .. n
      BY <1>1, <2>2
    <3>2. f[i - 1] \in Framing /\ f[i] = next[f[i - 1]]
      BY <1>4, <3>1
    <3> HIDE DEF n, start
    <3> QED
      BY <2>2, <3>2
  <2> QED
    BY <2>1, <2>2
<1>6. f = [i \in 0 .. n |-> Value(f, i)]
  <2> HIDE DEF Value
  <2> QED
    BY <1>4, <1>5
<1>7. PICK after : after = [i \in 0 .. n |-> Value(after, i)] /\ Framed(text) = after[n]
  BY <1>6 DEF Framed
<1>8. \A i \in 0 .. n : after[i] = Value(after, i)
  <2> HIDE DEF Value, n
  <2> QED
    BY <1>7
<1>9. \A i \in 0 .. n : after[i] \in Framing
  <2> DEFINE S == {i \in Nat : i <= n => after[i] \in Framing}
  <2> HIDE DEF start
  <2>1. 0 \in S
    <3>1. 0 \in 0 .. n
      BY <1>1
    <3>2. after[0] = start
      BY <1>8, <3>1
    <3> QED
      BY <1>2, <3>2
  <2>2. ASSUME NEW i \in Nat, i \in S PROVE i + 1 \in S
    <3>1. SUFFICES ASSUME i + 1 <= n PROVE after[i + 1] \in Framing
      OBVIOUS
    <3>2. i + 1 \in 0 .. n /\ i + 1 # 0 /\ (i + 1) - 1 = i /\ after[i] \in Framing
      BY <1>1, <2>2, <3>1
    <3>3. after[i + 1] = Round(after[i])
      BY <1>8, <3>2
    <3> QED
      BY <3>2, <3>3, RoundTypes
  <2>3. Nat \subseteq S
    <3> HIDE DEF S
    <3> QED
      BY <2>1, <2>2, Induction
  <2> QED
    BY <1>1, <2>3
<1>10. after \in [0 .. n -> Framing]
  <2>1. after = [i \in 0 .. n |-> after[i]]
    <3> HIDE DEF Value, n
    <3> QED
      BY <1>7
  <2> QED
    BY <1>9, <2>1
<1>11. after[0] = start
  <2>1. 0 \in 0 .. n
    BY <1>1
  <2> QED
    BY <1>8, <2>1
<1>12. ASSUME NEW i \in 1 .. n PROVE after[i] = Round(after[i - 1])
  <2>1. i \in 0 .. n /\ i # 0
    BY <1>1
  <2> QED
    BY <1>8, <2>1
<1> QED
  BY <1>7, <1>10, <1>11, <1>12 DEF Rounds

\* One round goes on with the lines of a stream, and leaves less.
LEMMA RoundGoesOn ==
    ASSUME NEW stream \in Text, NEW done \in Seq(Text), NEW x \in Framing, NEW y, y = Round(x),
           CanBeCut(stream, done \o x.lines, x.rest)
    PROVE  /\ y \in Framing /\ CanBeCut(stream, done \o y.lines, y.rest)
           /\ Len(x.rest) \in Nat /\ Len(y.rest) \in Nat
           /\ \/ NoFeed(x.rest) /\ y = x
              \/ Len(y.rest) < Len(x.rest)
<1>1. x.lines \in Seq(Text) /\ x.rest \in Text
  BY DEF Framing
<1>2. Len(x.rest) \in Nat
  BY <1>1, LenProperties DEF Text
<1>3. CASE NoFeed(x.rest)
  <2>1. y = x
    BY <1>3, RoundFacts
  <2> QED
    BY <1>2, <1>3, <2>1
<1>4. CASE ~NoFeed(x.rest)
  <2>1. PICK pos, line, later :
              /\ pos \in 1 .. Len(x.rest)
              /\ Taken(x.rest, pos, line, later)
              /\ y = [lines |-> Append(x.lines, line), rest |-> later]
    <3>1. PICK pos \in 1 .. Len(x.rest) : \E line, later :
              /\ Taken(x.rest, pos, line, later)
              /\ Round(x) = [lines |-> Append(x.lines, line), rest |-> later]
      BY <1>4, RoundFacts
    <3> QED
      BY <3>1
  <2>2. PICK l, r : l = done \o x.lines /\ r = x.rest
    OBVIOUS
  <2>3. l \in Seq(Text) /\ r \in Text /\ CanBeCut(stream, l, r) /\ Taken(r, pos, line, later)
        /\ pos \in 1 .. Len(r)
    BY <1>1, <2>1, <2>2, ConcatProperties
  <2>4. /\ line \in Text /\ later \in Text /\ Len(later) = Len(r) - pos
        /\ CanBeCut(stream, Append(l, line), later)
    BY <2>3, NextLine
  <2>5. done \o Append(x.lines, line) = Append(l, line)
    BY <1>1, <2>2, <2>4, AppendLast
  <2>6. y.lines = Append(x.lines, line) /\ y.rest = later
    BY <2>1
  <2>7. y \in Framing
    BY RoundTypes
  <2>8. Len(y.rest) \in Nat /\ Len(y.rest) < Len(x.rest)
    BY <1>2, <2>1, <2>2, <2>4, <2>6
  <2> QED
    BY <1>2, <2>4, <2>5, <2>6, <2>7, <2>8
<1> QED
  BY <1>3, <1>4

\* The loop ends when no line feed is left.
LEMMA LoopGoesOn ==
    ASSUME NEW stream \in Text, NEW done \in Seq(Text), NEW text \in Text,
           CanBeCut(stream, done, text)
    PROVE  /\ Framed(text) \in Framing /\ NoFeed(Framed(text).rest)
           /\ CanBeCut(stream, done \o Framed(text).lines, Framed(text).rest)
<1>1. PICK after : Rounds(text, after) /\ Framed(text) = after[Len(text)]
  BY FramedUnfolds
<1>2. PICK n : n = Len(text)
  OBVIOUS
<1>3. n \in Nat
  BY <1>2, LenProperties DEF Text
<1>4. /\ \A i \in 0 .. n : after[i] \in Framing
      /\ after[0] = [lines |-> <<>>, rest |-> text]
      /\ \A i \in 1 .. n : after[i] = Round(after[i - 1])
  BY <1>1, <1>2 DEF Rounds
<1> DEFINE Good(x, i) == /\ CanBeCut(stream, done \o x.lines, x.rest)
                         /\ NoFeed(x.rest) \/ Len(x.rest) + i <= n
           S == {i \in Nat : i <= n => Good(after[i], i)}
<1>5. 0 \in S
  <2>1. after[0].lines = <<>> /\ after[0].rest = text
    BY <1>4
  <2>2. done \o <<>> = done
    BY ConcatEmptySeq
  <2>3. PICK x : x = after[0]
    OBVIOUS
  <2>4. CanBeCut(stream, done \o x.lines, x.rest)
    BY <2>1, <2>2, <2>3
  <2>5. Len(x.rest) = n
    BY <1>2, <2>1, <2>3
  <2>6. Len(x.rest) + 0 <= n
    BY <1>3, <2>5
  <2> QED
    BY <2>3, <2>4, <2>6
<1>6. ASSUME NEW i \in Nat, i \in S PROVE i + 1 \in S
  <2> SUFFICES ASSUME i + 1 <= n PROVE Good(after[i + 1], i + 1)
    <3> HIDE DEF Good
    <3> QED
      OBVIOUS
  <2>1. i \in 0 .. n /\ i + 1 \in 1 .. n /\ (i + 1) - 1 = i /\ i <= n
    BY <1>3
  <2>2. PICK x, y : x = after[i] /\ y = after[i + 1]
    OBVIOUS
  <2>3. x \in Framing /\ y = Round(x) /\ Good(x, i)
    BY <1>4, <1>6, <2>1, <2>2
  <2>4. /\ CanBeCut(stream, done \o y.lines, y.rest)
        /\ Len(x.rest) \in Nat /\ Len(y.rest) \in Nat
        /\ (NoFeed(x.rest) /\ y = x) \/ Len(y.rest) < Len(x.rest)
    BY <2>3, RoundGoesOn
  <2>5. NoFeed(y.rest) \/ Len(y.rest) + (i + 1) <= n
    <3>1. CASE NoFeed(x.rest)
      BY <2>3, <3>1, RoundFacts
    <3>2. CASE ~NoFeed(x.rest)
      <4>1. PICK a, b : a = Len(x.rest) /\ b = Len(y.rest)
        OBVIOUS
      <4>2. a \in Nat /\ b \in Nat /\ b < a
        BY <2>4, <3>2, <4>1
      <4>3. a + i <= n
        BY <2>3, <3>2, <4>1
      <4>4. b + (i + 1) <= n
        BY <1>3, <4>2, <4>3
      <4> QED
        BY <4>1, <4>4
    <3> QED
      BY <3>1, <3>2
  <2> QED
    BY <2>2, <2>4, <2>5
<1>7. n \in S
  <2> HIDE DEF S
  <2> QED
    BY <1>3, <1>5, <1>6, Induction
<1>8. PICK z : z = after[n]
  OBVIOUS
<1>9. z \in Framing /\ Good(z, n)
  BY <1>3, <1>4, <1>7, <1>8
<1>10. NoFeed(z.rest)
  <2>1. CASE Len(z.rest) + n <= n
    <3>1. Len(z.rest) \in Nat
      BY <1>9, LenProperties DEF Framing, Text
    <3>2. Len(z.rest) = 0
      BY <1>3, <2>1, <3>1
    <3> QED
      BY <3>2 DEF NoFeed
  <2> QED
    BY <1>9, <2>1
<1> QED
  BY <1>1, <1>2, <1>8, <1>9, <1>10

\* The k-th place of an increasing list is the one with k places up to it.
LEMMA Ranks ==
    ASSUME NEW ends \in Seq(Nat), \A j, k \in 1 .. Len(ends) : j < k => ends[j] < ends[k],
           NEW places, \A i : i \in places <=> \E k \in 1 .. Len(ends) : ends[k] = i
    PROVE  /\ Cardinality(places) = Len(ends)
           /\ \A k \in 1 .. Len(ends) : Cardinality({i \in places : i <= ends[k]}) = k
<1>1. PICK n : n = Len(ends)
  OBVIOUS
<1>2. n \in Nat /\ \A k \in 1 .. n : ends[k] \in Nat
  BY <1>1, LenProperties, ElementOfSeq
<1>3. \A j, k \in 1 .. n : ends[j] = ends[k] => j = k
  <2> SUFFICES ASSUME NEW j \in 1 .. n, NEW k \in 1 .. n, ends[j] = ends[k] PROVE j = k
    OBVIOUS
  <2>1. ends[j] \in Nat /\ ~(ends[j] < ends[k]) /\ ~(ends[k] < ends[j])
    BY <1>2
  <2>2. ~(j < k) /\ ~(k < j)
    BY <1>1, <2>1
  <2> QED
    BY <1>2, <2>2
<1>4. ASSUME NEW m \in 0 .. n, NEW T, \A i : i \in T <=> \E k \in 1 .. m : ends[k] = i
      PROVE  Cardinality(T) = m
  <2> DEFINE f == [k \in 1 .. m |-> ends[k]]
  <2>1. \A k \in 1 .. m : k \in 1 .. n /\ f[k] = ends[k] /\ ends[k] \in T
    BY <1>2, <1>4
  <2>2. f \in [1 .. m -> T]
    BY <2>1
  <2>3. \A j, k \in 1 .. m : f[j] = f[k] => j = k
    BY <1>3, <2>1
  <2>4. \A i \in T : \E k \in 1 .. m : f[k] = i
    BY <1>4, <2>1
  <2>5. f \in Bijection(1 .. m, T)
    <3> HIDE DEF f
    <3> QED
      BY <2>2, <2>3, <2>4 DEF Bijection, Injection, Surjection, IsInjective
  <2>6. ExistsBijection(1 .. m, T)
    <3> HIDE DEF f
    <3> QED
      BY <2>5 DEF ExistsBijection
  <2>7. m \in Nat /\ m \in Int /\ 1 \in Int
    BY <1>2
  <2>8. IsFiniteSet(1 .. m) /\ Cardinality(1 .. m) = m
    <3>1. IsFiniteSet(1 .. m) /\ Cardinality(1 .. m) = IF 1 > m THEN 0 ELSE m - 1 + 1
      BY <2>7, FS_Interval
    <3> QED
      BY <2>7, <3>1
  <2>9. Cardinality(T) = Cardinality(1 .. m)
    BY <2>6, <2>8, FS_Bijection
  <2> QED
    BY <2>8, <2>9
<1>5. Cardinality(places) = n
  <2>1. n \in 0 .. n
    BY <1>2
  <2>2. \A i : i \in places <=> \E k \in 1 .. n : ends[k] = i
    BY <1>1
  <2> QED
    BY <1>4, <2>1, <2>2
<1>6. ASSUME NEW k \in 1 .. n PROVE Cardinality({i \in places : i <= ends[k]}) = k
  <2>1. PICK T : T = {i \in places : i <= ends[k]}
    OBVIOUS
  <2>2. k \in 0 .. n
    BY <1>2
  <2>3. ASSUME NEW i PROVE i \in T <=> \E j \in 1 .. k : ends[j] = i
    <3>1. ASSUME i \in T PROVE \E j \in 1 .. k : ends[j] = i
      <4>1. PICK j \in 1 .. n : ends[j] = i
        BY <1>1, <2>1, <3>1
      <4>2. ends[j] \in Nat /\ ends[k] \in Nat /\ ends[j] <= ends[k]
        BY <1>2, <2>1, <3>1, <4>1
      <4>3. ~(k < j)
        BY <1>1, <4>2
      <4>4. j \in 1 .. k
        BY <1>2, <4>3
      <4> QED
        BY <4>1, <4>4
    <3>2. ASSUME NEW j \in 1 .. k, ends[j] = i PROVE i \in T
      <4>1. j \in 1 .. n /\ (j = k \/ j < k)
        BY <1>2
      <4>2. i \in places
        BY <1>1, <3>2, <4>1
      <4>3. ends[j] \in Nat /\ ends[k] \in Nat /\ (j < k => ends[j] < ends[k])
        BY <1>1, <1>2, <4>1
      <4>4. i <= ends[k]
        BY <3>2, <4>1, <4>3
      <4> QED
        BY <2>1, <4>2, <4>4
    <3> QED
      BY <3>1, <3>2
  <2>4. Cardinality(T) = k
    BY <1>4, <2>2, <2>3
  <2> QED
    BY <2>1, <2>4
<1> QED
  BY <1>1, <1>5, <1>6

\* A line is what is left of the text before its end without the carriage returns.
LastOfLine(stream, before, end) ==
    CHOOSE last \in before .. end - 1 :
        /\ last = before \/ stream[last] # CR
        /\ \A i \in last + 1 .. end - 1 : stream[i] = CR

\* The end that LinesOf chooses is that of the line.
LEMMA LineOf ==
    ASSUME NEW stream \in Text, NEW line \in Text, NEW before \in Nat, NEW end \in 1 .. Len(stream),
           IsLine(line, stream, before, end)
    PROVE  SubSeq(stream, before + 1, LastOfLine(stream, before, end)) = line
<1>1. Len(stream) \in Nat /\ Len(line) \in Nat /\ end \in Nat /\ end <= Len(stream)
  BY LenProperties DEF Text
<1>2. PICK n, last : n = Len(line) /\ last = before + n
  OBVIOUS
<1>3. /\ n \in Nat /\ last \in Nat /\ last < end
      /\ n # 0 => line[n] # CR
      /\ \A i \in 1 .. n : line[i] = stream[before + i]
      /\ \A i \in last + 1 .. end - 1 : stream[i] = CR
  BY <1>1, <1>2 DEF IsLine
<1>4. last \in before .. end - 1 /\ (last = before \/ stream[last] # CR)
  <2>1. n = 0 \/ n \in 1 .. n
    BY <1>3
  <2> QED
    BY <1>1, <1>2, <1>3, <2>1
<1>5. ASSUME NEW other \in before .. end - 1,
             other = before \/ stream[other] # CR,
             \A i \in other + 1 .. end - 1 : stream[i] = CR
      PROVE  other = last
  <2>1. other \in Nat
    OBVIOUS
  <2>2. ~(other < last)
    <3> SUFFICES ASSUME other < last PROVE FALSE
      OBVIOUS
    <3>1. last \in other + 1 .. end - 1 /\ last # before
      BY <1>1, <1>3, <2>1
    <3> QED
      BY <1>4, <1>5, <3>1
  <2>3. ~(last < other)
    <3> SUFFICES ASSUME last < other PROVE FALSE
      OBVIOUS
    <3>1. other \in last + 1 .. end - 1 /\ other # before
      BY <1>1, <1>2, <1>3, <2>1
    <3> QED
      BY <1>3, <1>5, <3>1
  <2> QED
    BY <1>3, <2>1, <2>2, <2>3
<1>6. LastOfLine(stream, before, end) = last
  BY <1>3, <1>4, <1>5 DEF LastOfLine
<1>7. PICK from, sub : from = before + 1 /\ sub = SubSeq(stream, from, last)
  OBVIOUS
<1>8. \A i \in from .. last : stream[i] \in Characters
  <2> SUFFICES ASSUME NEW i \in from .. last PROVE stream[i] \in Characters
    OBVIOUS
  <2>1. i \in 1 .. Len(stream)
    BY <1>1, <1>3, <1>7
  <2> QED
    BY <2>1, ElementOfSeq DEF Text
<1>9. from \in Int /\ last \in Int /\ last - from + 1 = n /\ (from <= last <=> n # 0)
  BY <1>2, <1>3, <1>7
<1>10. /\ sub \in Seq(Characters) /\ Len(sub) = (IF from <= last THEN last - from + 1 ELSE 0)
       /\ \A i \in 1 .. last - from + 1 : sub[i] = stream[from + i - 1]
  BY <1>7, <1>8, <1>9, SubSeqProperties
<1>11. Len(sub) = n
  BY <1>3, <1>9, <1>10
<1>12. ASSUME NEW i \in 1 .. n PROVE sub[i] = line[i]
  <2>1. from + i - 1 = before + i
    BY <1>3, <1>7
  <2> QED
    BY <1>3, <1>9, <1>10, <2>1
<1>13. sub = line
  BY <1>2, <1>10, <1>11, <1>12, SeqEqual DEF Text
<1> QED
  BY <1>6, <1>7, <1>13

\* Once no line feed is left, the lines are those of the stream.
LEMMA AllLines ==
    ASSUME NEW stream \in Text, NEW lines \in Seq(Text), NEW rest \in Text,
           CanBeCut(stream, lines, rest), NoFeed(rest)
    PROVE  lines = LinesOf(stream)
<1>1. PICK ends \in Seq(Nat) : Cut(stream, lines, rest, ends)
  BY DEF CanBeCut
<1>2. PICK n, c : n = Len(ends) /\ c = Len(stream) - Len(rest)
  OBVIOUS
<1>3. /\ Len(stream) \in Nat /\ Len(rest) \in Nat /\ n \in Nat /\ c \in Nat /\ c <= Len(stream)
      /\ Len(lines) = n
      /\ \A k \in 1 .. n :
           /\ ends[k] \in Nat /\ ends[k] \in 1 .. c
           /\ Before(ends, k) \in Nat /\ lines[k] \in Text
           /\ IsLine(lines[k], stream, Before(ends, k), ends[k])
  BY <1>1, <1>2, CutTypes
<1> DEFINE feeds  == {i \in 1 .. Len(stream) : stream[i] = LF}
           end    == [k \in 1 .. Cardinality(feeds) |->
                         CHOOSE i \in feeds : Cardinality({j \in feeds : j <= i}) = k]
           before == [k \in 1 .. Cardinality(feeds) |-> IF k = 1 THEN 0 ELSE end[k - 1]]
           Body(k) == SubSeq(stream, before[k] + 1,
                             CHOOSE last \in before[k] .. end[k] - 1 :
                                 /\ last = before[k] \/ stream[last] # CR
                                 /\ \A i \in last + 1 .. end[k] - 1 : stream[i] = CR)
           result == [k \in 1 .. Cardinality(feeds) |-> Body(k)]
<1>4. LinesOf(stream) = result
  BY DEF LinesOf
<1>5. ASSUME NEW i PROVE i \in feeds <=> \E k \in 1 .. n : ends[k] = i
  <2>1. ASSUME i \in feeds PROVE \E k \in 1 .. n : ends[k] = i
    <3>1. CASE i \in 1 .. c
      BY <1>1, <1>2, <2>1, <3>1 DEF Cut
    <3>2. CASE i \notin 1 .. c
      <4>1. PICK j : j = i - c
        OBVIOUS
      <4>2. j \in 1 .. Len(rest) /\ c + j = i
        BY <1>2, <1>3, <2>1, <3>2, <4>1
      <4>3. rest[j] = stream[i]
        BY <1>1, <1>2, <4>2 DEF Cut
      <4> QED
        BY <2>1, <4>2, <4>3 DEF NoFeed
    <3> QED
      BY <3>1, <3>2
  <2>2. ASSUME NEW k \in 1 .. n, ends[k] = i PROVE i \in feeds
    <3>1. i \in 1 .. c /\ stream[i] = LF
      BY <1>1, <1>2, <2>2 DEF Cut
    <3> QED
      BY <1>3, <3>1
  <2> QED
    BY <2>1, <2>2
<1>6. /\ Cardinality(feeds) = n
      /\ \A k \in 1 .. n : Cardinality({i \in feeds : i <= ends[k]}) = k
  <2>1. PICK places : places = feeds
    OBVIOUS
  <2>2. \A j, k \in 1 .. Len(ends) : j < k => ends[j] < ends[k]
    BY <1>1 DEF Cut
  <2>3. \A i : i \in places <=> \E k \in 1 .. Len(ends) : ends[k] = i
    BY <1>2, <1>5, <2>1
  <2>4. /\ Cardinality(places) = Len(ends)
        /\ \A k \in 1 .. Len(ends) : Cardinality({i \in places : i <= ends[k]}) = k
    BY <2>2, <2>3, Ranks
  <2> QED
    BY <1>2, <2>1, <2>4
<1>7. ASSUME NEW k \in 1 .. n PROVE end[k] = ends[k]
  <2>1. ends[k] \in feeds /\ Cardinality({j \in feeds : j <= ends[k]}) = k
    BY <1>5, <1>6
  <2>2. ASSUME NEW i \in feeds, Cardinality({j \in feeds : j <= i}) = k PROVE i = ends[k]
    <3>1. PICK m \in 1 .. n : ends[m] = i
      BY <1>5
    <3>2. m = k
      BY <1>6, <2>2, <3>1
    <3> QED
      BY <3>1, <3>2
  <2>3. end[k] = CHOOSE i \in feeds : Cardinality({j \in feeds : j <= i}) = k
    BY <1>6
  <2> HIDE DEF feeds, end
  <2> QED
    BY <2>1, <2>2, <2>3
<1>8. ASSUME NEW k \in 1 .. n PROVE before[k] = Before(ends, k)
  <2>1. k # 1 => k - 1 \in 1 .. n
    BY <1>3
  <2>2. before[k] = IF k = 1 THEN 0 ELSE end[k - 1]
    BY <1>6
  <2> HIDE DEF feeds, end, before
  <2> QED
    BY <1>7, <2>1, <2>2 DEF Before
<1>9. ASSUME NEW k \in 1 .. n PROVE result[k] = lines[k]
  <2>1. result[k] = SubSeq(stream, before[k] + 1, LastOfLine(stream, before[k], end[k]))
    BY <1>6 DEF LastOfLine
  <2>2. PICK l, b, e : l = lines[k] /\ b = Before(ends, k) /\ e = ends[k]
    OBVIOUS
  <2>3. l \in Text /\ b \in Nat /\ e \in 1 .. Len(stream) /\ IsLine(l, stream, b, e)
    BY <1>3, <2>2
  <2>4. SubSeq(stream, b + 1, LastOfLine(stream, b, e)) = l
    BY <2>3, LineOf
  <2> HIDE DEF result, before, end
  <2> QED
    BY <1>7, <1>8, <2>1, <2>2, <2>4
<1>10. result = [k \in 1 .. n |-> lines[k]]
  <2>1. \A k \in 1 .. n : Body(k) = lines[k]
    <3> HIDE DEF Body, feeds
    <3> QED
      BY <1>6, <1>9
  <2> HIDE DEF Body, feeds
  <2> QED
    BY <1>6, <2>1
<1>11. lines = [k \in 1 .. n |-> lines[k]]
  BY <1>3
<1> QED
  BY <1>4, <1>10, <1>11

------------------------------------------------------------------------------
\* The lines of every connection are told, and the last one's stream is cut as far as
\* it goes.
FramerInv ==
    /\ buffer \in Text /\ streams \in Seq(Text) /\ delivered \in Seq(Seq(Text))
    /\ Len(delivered) = Len(streams) /\ Len(streams) # 0
    /\ \A i \in 1 .. Len(streams) : delivered[i] = LinesOf(streams[i])
    /\ CanBeCut(streams[Len(streams)], delivered[Len(streams)], buffer)
    /\ NoFeed(buffer)

\* A connection begins with nothing received and nothing left.
LEMMA NothingCut == CanBeCut(<<>>, <<>>, <<>>) /\ NoFeed(<<>>) /\ <<>> = LinesOf(<<>>)
<1>1. Cut(<<>>, <<>>, <<>>, <<>>)
  BY DEF Cut
<1>2. NoFeed(<<>>)
  BY DEF NoFeed
<1>3. <<>> \in Text /\ <<>> \in Seq(Text) /\ <<>> \in Seq(Nat)
  BY DEF Text
<1>4. CanBeCut(<<>>, <<>>, <<>>)
  BY <1>1, <1>3 DEF CanBeCut
<1>5. <<>> = LinesOf(<<>>)
  BY <1>2, <1>3, <1>4, AllLines
<1> QED
  BY <1>2, <1>4, <1>5

\* A chunk goes behind what is left, and the loop cuts both.
LEMMA ReceiveKeeps ==
    ASSUME FramerInv, NEW chunk \in Chunks, Receive(chunk)
    PROVE  FramerInv'
<1>1. chunk \in Text
  BY DEF Chunks, SeqOf, Text
<1>2. PICK n : n = Len(streams)
  OBVIOUS
<1>3. /\ buffer \in Text /\ streams \in Seq(Text) /\ delivered \in Seq(Seq(Text))
      /\ Len(delivered) = n /\ n \in 1 .. n /\ n \in Nat
  <2>1. Len(streams) \in Nat
    BY LenProperties DEF FramerInv
  <2> QED
    BY <1>2, <2>1 DEF FramerInv
<1>4. PICK stream, done, text, framed :
         /\ stream = streams[n] /\ done = delivered[n] /\ text = buffer \o chunk
         /\ framed = Framed(text)
  OBVIOUS
<1>5. stream \in Text /\ done \in Seq(Text) /\ text \in Text
  BY <1>1, <1>2, <1>3, <1>4, ElementOfSeq, ConcatProperties DEF Text
<1>6. CanBeCut(stream \o chunk, done, text)
  <2>1. CanBeCut(stream, done, buffer)
    BY <1>2, <1>4 DEF FramerInv
  <2> QED
    BY <1>1, <1>3, <1>4, <1>5, <2>1, ChunkIsLeft
<1>7. PICK s, l : s = stream \o chunk /\ l = done \o framed.lines
  OBVIOUS
<1>8. s \in Text
  BY <1>1, <1>5, <1>7, ConcatProperties DEF Text
<1>9. framed \in Framing /\ NoFeed(framed.rest) /\ CanBeCut(s, l, framed.rest)
  BY <1>4, <1>5, <1>6, <1>7, <1>8, LoopGoesOn
<1>10. framed.rest \in Text /\ framed.lines \in Seq(Text)
  BY <1>9 DEF Framing
<1>11. l \in Seq(Text)
  BY <1>5, <1>7, <1>10, ConcatProperties
<1>12. l = LinesOf(s)
  BY <1>8, <1>9, <1>10, <1>11, AllLines
<1>13. /\ buffer' = framed.rest /\ streams' = [streams EXCEPT ![n] = s]
       /\ delivered' = [delivered EXCEPT ![n] = l]
  BY <1>2, <1>3, <1>4, <1>7 DEF Receive, Feed
<1>14. PICK t, d : t = [streams EXCEPT ![n] = s] /\ d = [delivered EXCEPT ![n] = l]
  OBVIOUS
<1>15. /\ t \in Seq(Text) /\ Len(t) = n
       /\ \A i \in 1 .. n : t[i] = IF i = n THEN s ELSE streams[i]
  BY <1>2, <1>3, <1>8, <1>14, ExceptSeq
<1>16. /\ d \in Seq(Seq(Text)) /\ Len(d) = n
       /\ \A i \in 1 .. n : d[i] = IF i = n THEN l ELSE delivered[i]
  BY <1>3, <1>11, <1>14, ExceptSeq
<1>17. ASSUME NEW i \in 1 .. n PROVE d[i] = LinesOf(t[i])
  BY <1>2, <1>12, <1>15, <1>16 DEF FramerInv
<1>18. t[n] = s /\ d[n] = l
  BY <1>3, <1>15, <1>16
<1>19. streams' = t /\ delivered' = d
  BY <1>13, <1>14
<1>20. n # 0
  BY <1>3
<1> QED
  BY <1>9, <1>10, <1>13, <1>15, <1>16, <1>17, <1>18, <1>19, <1>20 DEF FramerInv

\* A new connection has a framer of its own.
LEMMA ReconnectKeeps ==
    ASSUME FramerInv, Reconnect
    PROVE  FramerInv'
<1>1. PICK n : n = Len(streams)
  OBVIOUS
<1>2. /\ streams \in Seq(Text) /\ delivered \in Seq(Seq(Text)) /\ Len(delivered) = n /\ n \in Nat
  BY <1>1, LenProperties DEF FramerInv
<1>3. PICK t, d : t = Append(streams, <<>>) /\ d = Append(delivered, <<>>)
  OBVIOUS
<1>4. <<>> \in Text /\ <<>> \in Seq(Text)
  BY DEF Text
<1>5. t \in Seq(Text) /\ Len(t) = n + 1 /\ t[n + 1] = <<>> /\ \A i \in 1 .. n : t[i] = streams[i]
  BY <1>1, <1>2, <1>3, <1>4, AppendProperties
<1>6. d \in Seq(Seq(Text)) /\ Len(d) = n + 1 /\ d[n + 1] = <<>> /\ \A i \in 1 .. n : d[i] = delivered[i]
  BY <1>2, <1>3, <1>4, AppendProperties
<1>7. ASSUME NEW i \in 1 .. n + 1 PROVE d[i] = LinesOf(t[i])
  <2>1. i \in 1 .. n \/ i = n + 1
    BY <1>2
  <2> QED
    BY <1>1, <1>5, <1>6, <2>1, NothingCut DEF FramerInv
<1>8. streams' = t /\ delivered' = d /\ buffer' = <<>>
  BY <1>3 DEF Reconnect
<1>9. n + 1 # 0
  BY <1>2
<1> QED
  BY <1>4, <1>5, <1>6, <1>7, <1>8, <1>9, NothingCut DEF FramerInv

\* LineFramer: wherever chunks end, within a line or between a carriage return and its
\* line feed, and wherever a connection ends, feed returns the lines of what was received
\* on that connection, each once, whole and in order, for any alphabet and any length.
THEOREM LinesAreThoseOfTheStreams == FramerSpec => []FramesTheStreams
<1>1. FramerInit => FramerInv
  <2> SUFFICES ASSUME FramerInit PROVE FramerInv
    OBVIOUS
  <2>1. buffer = <<>> /\ streams = <<<<>>>> /\ delivered = <<<<>>>>
    BY DEF FramerInit
  <2>2. /\ <<>> \in Text /\ <<<<>>>> \in Seq(Text) /\ <<<<>>>> \in Seq(Seq(Text))
        /\ Len(<<<<>>>>) = 1 /\ <<<<>>>>[1] = <<>> /\ \A i \in 1 .. 1 : i = 1
    BY DEF Text
  <2> QED
    BY <2>1, <2>2, NothingCut DEF FramerInv
<1>2. FramerInv /\ [FramerNext]_framerVars => FramerInv'
  <2> SUFFICES ASSUME FramerInv, [FramerNext]_framerVars PROVE FramerInv'
    OBVIOUS
  <2>1. ASSUME NEW chunk \in Chunks, Receive(chunk) PROVE FramerInv'
    BY <2>1, ReceiveKeeps
  <2>2. CASE Reconnect
    BY <2>2, ReconnectKeeps
  <2>3. CASE UNCHANGED framerVars
    BY <2>3 DEF framerVars, FramerInv
  <2> QED
    BY <2>1, <2>2, <2>3 DEF FramerNext
<1>3. FramerInv => FramesTheStreams
  BY DEF FramerInv, FramesTheStreams
<1> QED
  BY <1>1, <1>2, <1>3, PTL DEF FramerSpec
=============================================================================
