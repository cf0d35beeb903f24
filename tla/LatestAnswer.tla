---------------------------- MODULE LatestAnswer ----------------------------
(***************************************************************************)
(* What a component that polls a server may rely on: there is a question   *)
(* that changes now and then, and an answer to one of the questions asked. *)
(* A new answer is always to the last question, and never older than one   *)
(* to the same question that it replaces.  There are no requests, timers   *)
(* or failures here.  The polling hooks of the web page are shown to       *)
(* implement this.                                                         *)
(***************************************************************************)
EXTENDS Naturals

CONSTANTS
    Questions,
    Ages,       \* how old an answer may be, natural numbers of any unit
    NoAnswer    \* nothing has been answered yet, or the answer has been dropped

Answers == [to : Questions, age : Ages]

VARIABLES
    asked,      \* the question asked last
    answer      \* what is known

vars == <<asked, answer>>

Init == asked \in Questions /\ answer = NoAnswer

Ask == asked' \in Questions /\ UNCHANGED answer

\* A newer answer to the last question.
Learn ==
    /\ answer' \in [to : {asked}, age : Ages]
    /\ (answer \in Answers /\ answer.to = asked) => answer'.age <= answer.age
    /\ UNCHANGED asked

\* What answers another question may be dropped.
Forget ==
    /\ answer \in Answers => answer.to # asked
    /\ answer' = NoAnswer
    /\ UNCHANGED asked

\* Time passes.
Wait ==
    /\ answer \in Answers
    /\ answer' \in [to : {answer.to}, age : {a \in Ages : a >= answer.age}]
    /\ UNCHANGED asked

Next == Ask \/ Learn \/ Forget \/ Wait

Spec == Init /\ [][Next]_vars
=============================================================================
