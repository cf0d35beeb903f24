----------------------------- MODULE RadarFeed -----------------------------
(***************************************************************************)
(* The ships on the radar and the light that says whether they are live:   *)
(* usePositions (web/src/hooks/usePositions.ts), which polls the API for   *)
(* the area in view, useNow, and the status App.tsx derives from them,     *)
(* together with the view they follow (RadarView).                         *)
(*                                                                         *)
(* A change of the view is rendered at once and its effects run a little   *)
(* later, all together; until then the old poll is alive.  A poll that is  *)
(* given up is aborted, and its answer or the abort still reaches it.      *)
(*                                                                         *)
(* Instants are kept as ages, in polling intervals, and an age that makes  *)
(* no difference any more does not grow.  The browser's clock agrees with  *)
(* the one that stamps the reports.                                        *)
(***************************************************************************)
EXTENDS RadarView, FiniteSets

CONSTANTS
    Busy,             \* places with FEED_CHECK_MIN_SHIPS ships or more
    NowEvery,         \* useNow's interval
    StalledAfter,     \* STALLED_AFTER_MS
    StaleAfter,       \* STALE_AFTER_SECONDS
    Never,            \* no answer has come yet; no answer is on its way
    MaxAbandoned      \* bound: polls given up that have not heard of it yet

ASSUME FeedAssumption ==
    /\ NowEvery \in Nat \ {0} /\ StalledAfter \in Nat /\ StaleAfter \in Nat
    /\ MaxAbandoned \in Nat

Areas == [at : Places, range : Ranges]    \* what boundingBoxAround depends on

UpdateAges == 0 .. StalledAfter + NowEvery + 1
ReportAges == 0 .. StaleAfter + NowEvery + 1

Older(age, ages) == IF age + 1 \in ages THEN age + 1 ELSE age

Problems == {"status", "unreachable"}

\* What the API can answer: the ships, with the age of the newest report, or a failure.
Answers == [ok : {TRUE}, age : ReportAges] \cup [ok : {FALSE}, problem : Problems]

ASSUME AnswerAssumption ==
    /\ Never \notin Answers
    /\ Never \notin [to : Areas, age : ReportAges]
    /\ Never \notin UpdateAges

VARIABLES
    asked,        \* the area the running effect polls for
    waiting,      \* until the next poll; Never while one is under way
    reply,        \* the answer to it that is on its way
    abandoned,    \* the polls of earlier effects: what they asked, and the answer on its way
    records,      \* the ships, by the area they are in and their newest report
    error,        \* the error, or "none"
    loading,
    lastUpdated,  \* the age of lastUpdated
    nowAge,       \* how long ago useNow read the clock
    reportAge,    \* the newest report the database has
    up            \* the API answers properly

feedVars == <<asked, waiting, reply, abandoned, records, error, loading, lastUpdated, nowAge>>
vars == <<view, url, asked, waiting, reply, abandoned, records, error, loading,
          lastUpdated, nowAge, reportAge, up>>

AreaOf(v) == [at |-> v.centre.at, range |-> v.range]

\* The effects of a change of the view have yet to run.
EffectsPending == url # WriteToUrl(view) \/ asked # AreaOf(view)

PageInit ==
    /\ asked = AreaOf(view)
    /\ waiting = Never /\ reply = Never
    /\ abandoned = {}
    /\ records = Never /\ error = "none" /\ loading = TRUE /\ lastUpdated = Never
    /\ nowAge = 0

Init == ViewInit /\ PageInit /\ reportAge = 0 /\ up \in BOOLEAN

ChangeView ==
    /\ Cardinality(abandoned) < MaxAbandoned
    /\ \/ \E c \in Centres : SetCentre(c)
       \/ \E nm \in Ranges : SetRangeNm(nm)
    /\ UNCHANGED <<url, feedVars, reportAge, up>>

\* The cleanup cancels and aborts the poll under way, or its timer, and the
\* effect polls straight away; it runs only if the area is another one.
Repoll ==
    IF asked = AreaOf(view) THEN UNCHANGED <<asked, waiting, reply, abandoned>>
    ELSE /\ asked' = AreaOf(view)
         /\ waiting' = Never /\ reply' = Never
         /\ abandoned' = IF waiting = Never
                           THEN abandoned \cup {[asked |-> asked, reply |-> reply]}
                           ELSE abandoned

FlushEffects ==
    /\ EffectsPending
    /\ url' = WriteToUrl(view)
    /\ Repoll
    /\ UNCHANGED <<view, records, error, loading, lastUpdated, nowAge, reportAge, up>>

\* getJson: a status is an ApiError; no connection and a body that is no JSON are not.
Failures == {[ok |-> FALSE, problem |-> p] : p \in Problems}

\* The server, or what is between, answers the request as it is.
Answered == IF up THEN {[ok |-> TRUE, age |-> reportAge]} ELSE Failures

Answer ==
    /\ waiting = Never /\ reply = Never
    /\ reply' \in Answered
    /\ UNCHANGED <<view, url, asked, waiting, abandoned, records, error, loading,
                   lastUpdated, nowAge, reportAge, up>>

\* Setting the state from an answer.
Show(area, r) ==
    IF r.ok
      THEN /\ records' = [to |-> area, age |-> r.age]
           /\ error' = "none"
           /\ lastUpdated' = 0
      ELSE /\ error' = r.problem
           /\ UNCHANGED <<records, lastUpdated>>

\* Mutant: only a poll that succeeded schedules the next one.
SettleOnce ==
    /\ waiting = Never /\ reply # Never
    /\ Show(asked, reply)
    /\ loading' = FALSE
    /\ waiting' = IF reply.ok THEN 1 ELSE Never
    /\ reply' = IF reply.ok THEN Never ELSE reply
    /\ UNCHANGED <<view, url, asked, abandoned, nowAge, reportAge, up>>

\* The poll under way has its answer, whichever it is, and schedules the next.
Settle ==
    /\ waiting = Never /\ reply # Never
    /\ Show(asked, reply)
    /\ loading' = FALSE
    /\ waiting' = 1
    /\ reply' = Never
    /\ UNCHANGED <<view, url, asked, abandoned, nowAge, reportAge, up>>

\* Mutant: a cancelled poll reports its outcome like any other.
SettleAbandonedUnchecked ==
    \E p \in abandoned :
        /\ abandoned' = abandoned \ {p}
        /\ \E r \in IF p.reply = Never THEN {[ok |-> FALSE, problem |-> "unreachable"]}
                                       ELSE {p.reply} :
               Show(p.asked, r)
        /\ UNCHANGED <<view, url, asked, waiting, reply, loading, nowAge, reportAge, up>>

\* A cancelled poll hears of its abort, or of the answer that came just before: it
\* returns without touching any state, and schedules nothing.
SettleAbandoned ==
    \E p \in abandoned :
        /\ abandoned' = abandoned \ {p}
        /\ UNCHANGED <<view, url, asked, waiting, reply, records, error, loading,
                       lastUpdated, nowAge, reportAge, up>>

PollAgain ==
    /\ waiting = 0
    /\ waiting' = Never
    /\ UNCHANGED <<view, url, asked, reply, abandoned, records, error, loading,
                   lastUpdated, nowAge, reportAge, up>>

NowTick ==
    /\ nowAge = NowEvery
    /\ nowAge' = 0
    /\ UNCHANGED <<view, url, asked, waiting, reply, abandoned, records, error, loading,
                   lastUpdated, reportAge, up>>

\* Opening the address again, as a reload or a link does.
Reload ==
    /\ view' = ReadFromUrl(url)
    /\ asked' = AreaOf(view')
    /\ waiting' = Never /\ reply' = Never
    /\ abandoned' = {}
    /\ records' = Never /\ error' = "none" /\ loading' = TRUE /\ lastUpdated' = Never
    /\ nowAge' = 0
    /\ UNCHANGED <<url, reportAge, up>>

Aged(answer) ==
    IF answer = Never \/ ~answer.ok THEN answer
    ELSE [answer EXCEPT !.age = Older(@, ReportAges)]

\* One polling interval passes; timers fire on time, and effects run within it.
Tick ==
    /\ waiting # 0 /\ nowAge < NowEvery /\ ~EffectsPending
    /\ waiting' = IF waiting = Never THEN Never ELSE waiting - 1
    /\ nowAge' = nowAge + 1
    /\ lastUpdated' = IF lastUpdated = Never THEN Never ELSE Older(lastUpdated, UpdateAges)
    /\ records' = IF records = Never THEN Never ELSE [records EXCEPT !.age = Older(@, ReportAges)]
    /\ reply' = Aged(reply)
    /\ abandoned' = {[p EXCEPT !.reply = Aged(@)] : p \in abandoned}
    /\ reportAge' = Older(reportAge, ReportAges)
    /\ UNCHANGED <<view, url, asked, error, loading, up>>

\* The pipeline stores a report; it may have lost the feed and store none.
Report ==
    /\ reportAge' = 0
    /\ UNCHANGED <<view, url, feedVars, up>>

\* The API goes down or comes back.
Switch ==
    /\ up' = ~up
    /\ UNCHANGED <<view, url, feedVars, reportAge>>

Next ==
    \/ ChangeView \/ FlushEffects \/ Reload
    \/ Answer \/ Settle \/ SettleAbandoned \/ PollAgain \/ NowTick
    \/ Tick \/ Report \/ Switch

Spec == Init /\ [][Next]_vars

\* Effects are run, timers fire, requests are answered or fail, and time passes.
FairSpec ==
    /\ Spec
    /\ WF_vars(FlushEffects) /\ WF_vars(Answer) /\ WF_vars(Settle)
    /\ WF_vars(PollAgain) /\ WF_vars(NowTick) /\ WF_vars(Tick)
----------------------------------------------------------------------------
\* Mutant: the light does not notice that answers have stopped coming.
FeedWithoutStall ==
    IF error # "none" THEN "error"
    ELSE IF loading THEN "loading"
    ELSE IF records # Never /\ records.to.at \in Busy /\ records.age - nowAge > StaleAfter
           THEN "delayed"
    ELSE "live"

\* The dot in the header.  It compares with useNow's reading, which is nowAge old.
Feed ==
    IF error # "none" THEN "error"
    ELSE IF loading THEN "loading"
    ELSE IF lastUpdated # Never /\ lastUpdated - nowAge > StalledAfter THEN "stalled"
    ELSE IF records # Never /\ records.to.at \in Busy /\ records.age - nowAge > StaleAfter
           THEN "delayed"
    ELSE "live"
----------------------------------------------------------------------------
TypeOK ==
    /\ view.centre.at \in Places /\ view.range \in Ranges
    /\ url.at \in Places \cup {Missing} /\ url.range \in Ranges \cup {Missing}
    /\ asked \in Areas
    /\ waiting \in {0, 1, Never}
    /\ reply \in Answers \cup {Never}
    /\ \A p \in abandoned : p.asked \in Areas /\ p.reply \in Answers \cup {Never}
    /\ records \in [to : Areas, age : ReportAges] \cup {Never}
    /\ error \in Problems \cup {"none"}
    /\ loading \in BOOLEAN
    /\ lastUpdated \in UpdateAges \cup {Never}
    /\ nowAge \in 0 .. NowEvery
    /\ reportAge \in ReportAges
    /\ up \in BOOLEAN

\* App.tsx:71-72 and 61-65.  A live light is true: an answer has come within the
\* time the light allows plus one reading of the clock, and where there are ships
\* enough to judge, so has a report, whatever the delays, failures and moves.
LiveIsTrue ==
    Feed = "live" =>
        /\ records # Never
        /\ lastUpdated <= StalledAfter + NowEvery
        /\ records.to.at \in Busy => records.age <= StaleAfter + NowEvery

LA == INSTANCE LatestAnswer WITH
    Questions <- Areas, Ages <- ReportAges, NoAnswer <- Never, answer <- records

\* usePositions.ts:51-52.  The ships on screen are the answer to the area the last
\* effect asked for, or to an earlier one, and are never replaced by older ones or
\* by those of an area that has been left.
ImplementsLatestAnswer == LA!Init /\ [][LA!Next \/ Reload]_<<asked, records>>

\* useRadarView.ts:44-45.  A view survives a reload once its effects have run: the
\* centre, to five decimals, with its name or without one, and the range.  A centre
\* outside the limits that readFromUrl accepts is the exception.
ReloadRestoresTheView ==
    [][Reload /\ ~EffectsPending =>
          /\ view'.range = view.range
          /\ Rounded[view.centre.at] \in Linkable =>
                 view'.centre = [view.centre EXCEPT !.at = Rounded[@]]]_vars

\* usePositions.ts:16-18.  Once the API is back for good, the error goes and the
\* ships of the area in view are shown, if it stays in view and the page open.
Recovers ==
    \A a \in Areas :
        <>[](up /\ AreaOf(view) = a) /\ <>[][~Reload]_vars =>
            <>[](error = "none" /\ records # Never /\ records.to = a)
=============================================================================
