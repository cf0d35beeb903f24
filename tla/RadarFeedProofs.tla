-------------------------- MODULE RadarFeedProofs --------------------------
(***************************************************************************)
(* The light of the radar is true and the ships on it are the latest       *)
(* answer, for any places and ranges, any limits and intervals and any     *)
(* number of polls that have been given up.  What has to be added is that  *)
(* the page has data once it shows neither an error nor that it is         *)
(* loading, and that what is on its way is never older than what is shown. *)
(***************************************************************************)
EXTENDS RadarFeed, TLAPS

\* The view and its centre are records with no more than their fields.
Shape ==
    /\ view = [centre |-> view.centre, range |-> view.range]
    /\ view.centre = [at |-> view.centre.at, name |-> view.centre.name]

\* No answer is newer than the database, nor older than one that is already shown.
Newer ==
    /\ reply # Never => (reply.ok => reportAge <= reply.age)
    /\ records # Never =>
         /\ reportAge <= records.age
         /\ reply # Never => (reply.ok => reply.age <= records.age)

\* Loading ends with an answer or an error, and an error only with an answer.
Loaded == ~loading /\ error = "none" => records # Never /\ lastUpdated # Never

Inv == TypeOK /\ Shape /\ Newer /\ Loaded

------------------------------------------------------------------------------
LEMMA OlderFacts ==
    ASSUME NEW n \in Nat, NEW a \in 0 .. n
    PROVE  /\ Older(a, 0 .. n) \in 0 .. n
           /\ a <= Older(a, 0 .. n)
           /\ \A b \in 0 .. n : a <= b => Older(a, 0 .. n) <= Older(b, 0 .. n)
  BY DEF Older

LEMMA Ages ==
    /\ StalledAfter + NowEvery + 1 \in Nat /\ StaleAfter + NowEvery + 1 \in Nat
    /\ 0 \in UpdateAges /\ 0 \in ReportAges
    /\ \A a \in UpdateAges : Older(a, UpdateAges) \in UpdateAges
    /\ \A a \in ReportAges :
         /\ Older(a, ReportAges) \in ReportAges /\ a <= Older(a, ReportAges)
         /\ \A b \in ReportAges : a <= b => Older(a, ReportAges) <= Older(b, ReportAges)
  BY OlderFacts, FeedAssumption DEF UpdateAges, ReportAges

\* What an answer is made of.
LEMMA AnswerFacts ==
    ASSUME NEW r \in Answers
    PROVE  /\ r # Never
           /\ r.ok \in BOOLEAN
           /\ r.ok => r \in [ok : {TRUE}, age : ReportAges] /\ r.age \in ReportAges
           /\ ~r.ok => r \in [ok : {FALSE}, problem : Problems] /\ r.problem \in Problems
  BY AnswerAssumption DEF Answers

\* Time passes for an answer on its way.
LEMMA AgedFacts ==
    ASSUME NEW r \in Answers \cup {Never}
    PROVE  /\ Aged(r) \in Answers \cup {Never}
           /\ Aged(r) = Never <=> r = Never
           /\ r # Never => (Aged(r).ok <=> r.ok)
           /\ r # Never => (r.ok => Aged(r).age = Older(r.age, ReportAges))
<1>1. CASE r = Never
  BY <1>1 DEF Aged
<1>2. CASE r # Never /\ r.ok
  <2>1. r \in [ok : {TRUE}, age : ReportAges] /\ r.age \in ReportAges
    BY <1>2, AnswerFacts
  <2>2. Aged(r) = [r EXCEPT !.age = Older(r.age, ReportAges)]
    BY <1>2 DEF Aged
  <2>3. Aged(r) \in [ok : {TRUE}, age : ReportAges] /\ Aged(r).age = Older(r.age, ReportAges)
    BY <2>1, <2>2, Ages
  <2> QED
    BY <2>1, <2>3, <1>2, AnswerFacts DEF Answers
<1>3. CASE r # Never /\ ~r.ok
  BY <1>3, AnswerFacts DEF Aged
<1> QED
  BY <1>1, <1>2, <1>3

------------------------------------------------------------------------------
LEMMA ReadsAView ==
    ASSUME NEW u
    PROVE  /\ ReadFromUrl(u).centre.at \in Places /\ ReadFromUrl(u).range \in Ranges
           /\ ReadFromUrl(u) = [centre |-> ReadFromUrl(u).centre, range |-> ReadFromUrl(u).range]
           /\ ReadFromUrl(u).centre
                = [at |-> ReadFromUrl(u).centre.at, name |-> ReadFromUrl(u).centre.name]
           /\ AreaOf(ReadFromUrl(u)) \in Areas
  BY ViewAssumption DEF ReadFromUrl, AreaOf, Areas

LEMMA InvInit == Init => Inv
<1> SUFFICES ASSUME Init PROVE Inv
  OBVIOUS
<1>1. /\ view.centre.at \in Places /\ view.range \in Ranges /\ Shape /\ AreaOf(view) \in Areas
      /\ url.at \in Places \cup {Missing} /\ url.range \in Ranges \cup {Missing}
  BY ReadsAView, ViewAssumption DEF Init, ViewInit, Shape
<1>2. TypeOK
  BY <1>1, Ages, FeedAssumption DEF Init, PageInit, TypeOK
<1> QED
  BY <1>1, <1>2 DEF Init, PageInit, Inv, Newer, Loaded

\* The steps that change neither the ships shown nor the answer on its way.
LEMMA InvAround ==
    ASSUME Inv, ChangeView \/ FlushEffects \/ SettleAbandoned \/ PollAgain \/ NowTick \/ Switch
    PROVE  Inv'
<1> USE DEF Inv, TypeOK, Shape, Newer, Loaded, feedVars
<1>1. CASE ChangeView
  <2>1. /\ UNCHANGED <<url, feedVars, reportAge, up>>
        /\ view'.centre.at \in Places /\ view'.range \in Ranges
        /\ view' = [centre |-> view'.centre, range |-> view'.range]
        /\ view'.centre = [at |-> view'.centre.at, name |-> view'.centre.name]
    BY <1>1, ViewAssumption DEF ChangeView, SetCentre, SetRangeNm
  <2> QED
    BY <2>1
<1>2. CASE FlushEffects
  <2>1. AreaOf(view) \in Areas
    BY DEF AreaOf, Areas
  <2>2. url'.at \in Places /\ url'.range \in Ranges
    BY <1>2, ViewAssumption DEF FlushEffects, WriteToUrl
  <2>3. UNCHANGED <<view, records, error, loading, lastUpdated, nowAge, reportAge, up>>
    BY <1>2 DEF FlushEffects
  <2>4. /\ asked' \in Areas /\ waiting' \in {0, 1, Never}
        /\ reply' \in {reply, Never}
        /\ \A p \in abandoned' : p.asked \in Areas /\ p.reply \in Answers \cup {Never}
    BY <1>2, <2>1 DEF FlushEffects, Repoll
  <2> QED
    BY <2>2, <2>3, <2>4
<1>3. CASE SettleAbandoned
  BY <1>3 DEF SettleAbandoned
<1>4. CASE PollAgain
  BY <1>4 DEF PollAgain
<1>5. CASE NowTick
  BY <1>5, FeedAssumption DEF NowTick
<1>6. CASE Switch
  BY <1>6 DEF Switch
<1> QED
  BY <1>1, <1>2, <1>3, <1>4, <1>5, <1>6

LEMMA InvAnswers ==
    ASSUME Inv, Answer \/ Settle \/ Report \/ Reload
    PROVE  Inv'
<1> USE DEF Inv, TypeOK, Shape, Newer, Loaded, feedVars
<1>1. CASE Answer
  <2>1. \/ reply' = [ok |-> TRUE, age |-> reportAge]
        \/ \E p \in Problems : reply' = [ok |-> FALSE, problem |-> p]
    BY <1>1, Zenon DEF Answer, Answered, Failures
  <2>2. reply' \in Answers /\ (reply'.ok => reply'.age = reportAge)
    <3>1. CASE reply' = [ok |-> TRUE, age |-> reportAge]
      <4>1. reply' \in [ok : {TRUE}, age : ReportAges]
        BY <3>1
      <4> QED
        BY <3>1, <4>1 DEF Answers
    <3>2. CASE \E p \in Problems : reply' = [ok |-> FALSE, problem |-> p]
      <4>1. reply' \in [ok : {FALSE}, problem : Problems]
        BY <3>2
      <4> QED
        BY <4>1 DEF Answers
    <3> QED
      BY <2>1, <3>1, <3>2
  <2> QED
    BY <1>1, <2>2, Ages DEF Answer, ReportAges
<1>2. CASE Settle
  <2>1. reply \in Answers
    BY <1>2 DEF Settle
  <2>2. /\ UNCHANGED <<view, url, asked, abandoned, nowAge, reportAge, up>>
        /\ loading' = FALSE /\ waiting' = 1 /\ reply' = Never
    BY <1>2 DEF Settle
  <2>3. CASE reply.ok
    <3>1. /\ records' = [to |-> asked, age |-> reply.age] /\ reply.age \in ReportAges
          /\ error' = "none" /\ lastUpdated' = 0
      BY <1>2, <2>1, <2>3, AnswerFacts DEF Settle, Show
    <3>2. records' \in [to : Areas, age : ReportAges] /\ records' # Never /\ lastUpdated' # Never
      BY <3>1, Ages, AnswerAssumption
    <3>3. reportAge' <= records'.age
      BY <1>2, <2>2, <2>3, <3>1 DEF Settle
    <3> QED
      BY <2>2, <3>1, <3>2, <3>3, Ages
  <2>4. CASE ~reply.ok
    <3>1. /\ error' = reply.problem /\ reply.problem \in Problems
          /\ UNCHANGED <<records, lastUpdated>>
      BY <1>2, <2>1, <2>4, AnswerFacts DEF Settle, Show
    <3> QED
      BY <2>2, <3>1 DEF Problems
  <2> QED
    BY <2>3, <2>4
<1>3. CASE Report
  <2>1. reply # Never => (reply.ok => reply.age \in ReportAges)
    BY AnswerFacts
  <2> QED
    BY <1>3, <2>1, Ages DEF Report, ReportAges
<1>4. CASE Reload
  BY <1>4, ReadsAView, FeedAssumption DEF Reload
<1> QED
  BY <1>1, <1>2, <1>3, <1>4

LEMMA InvTick ==
    ASSUME Inv, Tick
    PROVE  Inv'
<1> USE DEF Inv, TypeOK, Shape, Newer, Loaded
<1>1. /\ UNCHANGED <<view, url, asked, error, loading, up>>
      /\ nowAge' \in 0 .. NowEvery
      /\ waiting' \in {0, 1, Never}
  BY FeedAssumption DEF Tick
<1>2. /\ reportAge' = Older(reportAge, ReportAges)
      /\ reportAge' \in ReportAges
  BY Ages DEF Tick
<1>3. /\ reply' \in Answers \cup {Never}
      /\ reply' = Never <=> reply = Never
      /\ reply # Never => (reply'.ok <=> reply.ok)
      /\ reply # Never => (reply.ok => reply'.age = Older(reply.age, ReportAges))
  BY AgedFacts DEF Tick
<1>4. \A p \in abandoned' : p.asked \in Areas /\ p.reply \in Answers \cup {Never}
  <2>1. \A p \in abandoned' : \E q \in abandoned : p = [q EXCEPT !.reply = Aged(q.reply)]
    BY Zenon DEF Tick
  <2> SUFFICES ASSUME NEW q \in abandoned, NEW p, p = [q EXCEPT !.reply = Aged(q.reply)]
               PROVE  p.asked \in Areas /\ p.reply \in Answers \cup {Never}
    BY <2>1
  <2> QED
    BY AgedFacts
<1>5. /\ lastUpdated' \in UpdateAges \cup {Never}
      /\ lastUpdated' = Never <=> lastUpdated = Never
  BY Ages, AnswerAssumption DEF Tick
<1>6. CASE records = Never
  <2>1. records' = Never
    BY <1>6 DEF Tick
  <2> QED
    BY <1>1, <1>2, <1>3, <1>4, <1>5, <1>6, <2>1, Ages, AnswerFacts
<1>7. CASE records # Never
  <2>1. /\ records' \in [to : Areas, age : ReportAges] /\ records' # Never
        /\ records'.age = Older(records.age, ReportAges)
    BY <1>7, Ages, AnswerAssumption DEF Tick
  <2>2. /\ reportAge' <= records'.age
        /\ reply # Never => (reply.ok => reply'.age <= records'.age /\ reportAge' <= reply'.age)
    <3>1. records.age \in ReportAges /\ reportAge <= records.age
      BY <1>7
    <3>2. reply # Never /\ reply.ok => reply.age \in ReportAges
      BY AnswerFacts
    <3>3. reportAge' <= records'.age
      BY <1>2, <2>1, <3>1, Ages
    <3>4. ASSUME reply # Never, reply.ok
          PROVE  reply'.age <= records'.age /\ reportAge' <= reply'.age
      <4>1. reply.age \in ReportAges /\ reportAge <= reply.age /\ reply.age <= records.age
        BY <1>7, <3>2, <3>4
      <4>2. reply'.age = Older(reply.age, ReportAges)
        BY <1>3, <3>4
      <4> QED
        BY <1>2, <2>1, <3>1, <4>1, <4>2, Ages
    <3> QED
      BY <3>3, <3>4
  <2>3. TypeOK' /\ Shape'
    BY <1>1, <1>2, <1>3, <1>4, <1>5, <2>1
  <2>4. Newer'
    BY <1>3, <2>1, <2>2
  <2>5. Loaded'
    BY <1>1, <1>5, <1>7, <2>1
  <2> QED
    BY <2>3, <2>4, <2>5
<1> QED
  BY <1>6, <1>7

LEMMA InvNext == Inv /\ [Next]_vars => Inv'
<1> SUFFICES ASSUME Inv, [Next]_vars PROVE Inv'
  OBVIOUS
<1>1. CASE UNCHANGED vars
  BY <1>1 DEF vars, Inv, TypeOK, Shape, Newer, Loaded
<1> QED
  BY <1>1, InvAround, InvAnswers, InvTick DEF Next

\* usePositions.ts:30-75.  The state of the hook is well typed, loading lasts until the
\* first answer, and what is on its way is no older than what is on screen.
THEOREM FeedInvariant == Spec => []Inv
  BY InvInit, InvNext, PTL DEF Spec

------------------------------------------------------------------------------
\* App.tsx:71-72 and 61-65: the dot of the header is green only for data that are new.
THEOREM LiveIsTrueOfTheData == Spec => []LiveIsTrue
<1>1. Inv => LiveIsTrue
  <2> SUFFICES ASSUME Inv, Feed = "live"
               PROVE  /\ records # Never
                      /\ lastUpdated <= StalledAfter + NowEvery
                      /\ records.to.at \in Busy => records.age <= StaleAfter + NowEvery
    BY DEF LiveIsTrue
  <2>1. /\ error = "none" /\ ~loading
        /\ ~(lastUpdated # Never /\ lastUpdated - nowAge > StalledAfter)
        /\ ~(records # Never /\ records.to.at \in Busy /\ records.age - nowAge > StaleAfter)
    BY DEF Feed
  <2>2. records # Never /\ lastUpdated # Never
    BY <2>1 DEF Inv, Loaded
  <2>3. lastUpdated \in Nat /\ records.age \in Nat /\ nowAge \in 0 .. NowEvery
    BY <2>2 DEF Inv, TypeOK, UpdateAges, ReportAges
  <2> QED
    BY <2>1, <2>2, <2>3, FeedAssumption
<1> QED
  BY <1>1, FeedInvariant, PTL

------------------------------------------------------------------------------
\* usePositions.ts:51-52: late, lost and aborted answers never take the ships on screen
\* back in time, nor to an area that has been left.
THEOREM FeedShowsTheLatestAnswer == Spec => ImplementsLatestAnswer
<1>1. Init => LA!Init
  BY ReadsAView DEF Init, ViewInit, PageInit, LA!Init
<1>2. Inv /\ [Next]_vars => [LA!Next \/ Reload]_<<asked, records>>
  <2> SUFFICES ASSUME Inv, [Next]_vars
               PROVE  [LA!Next \/ Reload]_<<asked, records>>
    OBVIOUS
  <2>1. CASE ChangeView \/ SettleAbandoned \/ Answer \/ PollAgain \/ NowTick \/ Report \/ Switch
    BY <2>1 DEF ChangeView, SettleAbandoned, Answer, PollAgain, NowTick, Report, Switch, feedVars
  <2>2. CASE FlushEffects
    <3>1. AreaOf(view) \in Areas /\ asked \in Areas
      BY DEF Inv, TypeOK, AreaOf, Areas
    <3> QED
      BY <2>2, <3>1 DEF FlushEffects, Repoll, LA!Next, LA!Ask
  <2>3. CASE Settle
    <3>1. asked' = asked /\ reply \in Answers
      BY <2>3 DEF Settle, Inv, TypeOK
    <3>2. CASE reply.ok
      <4>1. records' = [to |-> asked, age |-> reply.age] /\ reply.age \in ReportAges
        BY <2>3, <3>1, <3>2, AnswerFacts DEF Settle, Show
      <4>2. records \in LA!Answers => records.age >= reply.age
        <5>1. records \in LA!Answers => records # Never
          BY AnswerAssumption DEF LA!Answers
        <5>2. records # Never => records.age \in ReportAges /\ reply.age <= records.age
          BY <3>2, <2>3 DEF Inv, Newer, TypeOK, Settle
        <5> QED
          BY <4>1, <5>1, <5>2 DEF ReportAges
      <4> QED
        BY <3>1, <4>1, <4>2 DEF LA!Next, LA!Learn, ReportAges
    <3>3. CASE ~reply.ok
      BY <2>3, <3>1, <3>3 DEF Settle, Show
    <3> QED
      BY <3>2, <3>3
  <2>4. CASE Tick
    <3>1. asked' = asked
      BY <2>4 DEF Tick
    <3>2. CASE records = Never
      BY <2>4, <3>1, <3>2 DEF Tick
    <3>3. CASE records # Never
      <4>1. records \in LA!Answers /\ records.age \in ReportAges
        BY <3>3 DEF Inv, TypeOK, LA!Answers
      <4>2. records' = [records EXCEPT !.age = Older(records.age, ReportAges)]
        BY <2>4, <3>3 DEF Tick
      <4>3. /\ Older(records.age, ReportAges) \in ReportAges
            /\ Older(records.age, ReportAges) >= records.age
        BY <4>1, Ages DEF ReportAges
      <4>4. records' \in [to : {records.to}, age : {a \in ReportAges : a >= records.age}]
        BY <4>1, <4>2, <4>3 DEF LA!Answers
      <4> QED
        BY <3>1, <4>1, <4>4 DEF LA!Next, LA!Wait
    <3> QED
      BY <3>2, <3>3
  <2>5. CASE Reload \/ UNCHANGED vars
    BY <2>5 DEF vars
  <2> QED
    BY <2>1, <2>2, <2>3, <2>4, <2>5 DEF Next
<1> QED
  BY <1>1, <1>2, FeedInvariant, PTL DEF Spec, ImplementsLatestAnswer

------------------------------------------------------------------------------
\* useRadarView.ts:44-45.  A view whose effects have run is what opening its address
\* shows, up to the fifth decimal.
THEOREM AddressKeepsTheView == Spec => ReloadRestoresTheView
<1> DEFINE Restores ==
             Reload /\ ~EffectsPending =>
                 /\ view'.range = view.range
                 /\ Rounded[view.centre.at] \in Linkable =>
                        view'.centre = [view.centre EXCEPT !.at = Rounded[@]]
<1>1. Inv /\ [Next]_vars => [Restores]_vars
  <2> SUFFICES ASSUME Inv, Reload, ~EffectsPending
               PROVE  Restores
    OBVIOUS
  <2>1. /\ url = [at |-> Rounded[view.centre.at], name |-> view.centre.name,
                  range |-> view.range]
        /\ view' = ReadFromUrl(url) /\ view.range \in Ranges
    BY DEF EffectsPending, WriteToUrl, Reload, Inv, TypeOK
  <2>2. view'.range = view.range
    BY <2>1 DEF ReadFromUrl
  <2>3. ASSUME Rounded[view.centre.at] \in Linkable
        PROVE  view'.centre = [view.centre EXCEPT !.at = Rounded[@]]
    <3>1. view'.centre = [at |-> Rounded[view.centre.at], name |-> view.centre.name]
      BY <2>1, <2>3 DEF ReadFromUrl
    <3>2. view.centre = [at |-> view.centre.at, name |-> view.centre.name]
      BY DEF Inv, Shape
    <3>3. [view.centre EXCEPT !.at = Rounded[@]]
            = [at |-> Rounded[view.centre.at], name |-> view.centre.name]
      BY <3>2
    <3> QED
      BY <3>1, <3>3
  <2> QED
    BY <2>2, <2>3
<1> QED
  BY <1>1, FeedInvariant, PTL DEF Spec, ReloadRestoresTheView
=============================================================================
