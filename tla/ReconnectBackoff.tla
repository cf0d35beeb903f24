-------------------------- MODULE ReconnectBackoff --------------------------
(***************************************************************************)
(* How long the client waits between attempts: class ReconnectBackoff and  *)
(* the sliced sleep of app/main.cpp.  TcpClient has these steps at their   *)
(* places in the client thread.                                            *)
(***************************************************************************)
EXTENDS Naturals, FiniteSetsExt

CONSTANTS
    InitialDelay, MaxDelay, Healthy,  \* the members of the class
    CounterCap,  \* what consecutive_failures_ is capped at (1000)
    Slice,       \* of the sleep in main.cpp
    Durations,   \* how long an attempt may run
    MaxStreak    \* bound: failures in a row

Power[n \in Nat] == IF n = 0 THEN 1 ELSE 2 * Power[n - 1]  \* of two

ASSUME BackoffAssumption ==
    /\ InitialDelay \in Nat \ {0} /\ MaxDelay \in Nat /\ InitialDelay <= MaxDelay
    /\ Healthy \in Nat /\ Slice \in Nat \ {0} /\ Durations \subseteq Nat
    /\ CounterCap \in Nat \ {0} /\ MaxStreak \in Nat
    /\ InitialDelay * Power[CounterCap] >= MaxDelay

VARIABLES
    failures,  \* consecutive_failures_
    delay,     \* sleep_duration
    slept,     \* now - start in the loop of the sleep
    streak     \* history: failures since the last one of a healthy connection

backoffVars == <<failures, delay, slept, streak>>

\* The delay is among what Doubled computes, and SpacedByStreak says what it is.
BackoffTypeOK ==
    /\ failures \in 0 .. CounterCap
    /\ slept \in Nat /\ streak \in 0 .. MaxStreak

BackoffInit == failures = 0 /\ delay = 0 /\ slept = 0 /\ streak = 0

\* The loop of after_failure: i doublings, none once the maximum is reached.
Doubled[i \in 0 .. CounterCap] ==
    IF i = 0 THEN InitialDelay
    ELSE IF Doubled[i - 1] < MaxDelay THEN 2 * Doubled[i - 1]
    ELSE Doubled[i - 1]

\* Mutant: the counter starts over when it has reached its limit.
CountFailureWrapping(duration) ==
    failures' = ((IF duration >= Healthy THEN 0 ELSE failures) + 1) % CounterCap

CountFailure(duration) ==
    failures' = Min({(IF duration >= Healthy THEN 0 ELSE failures) + 1, CounterCap})

AfterFailure(duration) ==
    /\ CountFailure(duration)
    /\ delay' = Min({Doubled[failures'], MaxDelay})
    /\ slept' = 0
    /\ streak' = (IF duration >= Healthy THEN 0 ELSE streak) + 1
    /\ streak' <= MaxStreak

SliceSlept == slept' = slept + Slice /\ UNCHANGED <<failures, delay, streak>>

\* The delay after n failures in a row ("The delay doubles with each failure in a
\* row, from 2 up to 30 seconds", reconnect_backoff.hpp:6), for any n.
Expected(n) ==
    IF \E k \in 0 .. n : InitialDelay * Power[k] >= MaxDelay
    THEN MaxDelay
    ELSE InitialDelay * Power[n]
============================================================================
