---------------------------- MODULE SqliteWriter ----------------------------
(***************************************************************************)
(* ais::SqliteWriter and the database it keeps                             *)
(* (pipeline/src/sqlite_writer.cpp): position_reports, the trigger that    *)
(* maintains latest_positions, ship_static, and the pruning of history.    *)
(*                                                                         *)
(* A message is known by its number in the order the writer inserts them,  *)
(* which is also the order of the rowids; rows that were there before have *)
(* numbers up to 0.  Time is counted in units of which Retention make up   *)
(* the 24 hours; the wall clock stamps the rows and may be set, the steady *)
(* clock only runs.  A transaction works on a copy of the database that    *)
(* replaces it when it commits.  The locals of run() are zero while they   *)
(* are out of scope.                                                       *)
(***************************************************************************)
EXTENDS Integers, FiniteSets, FiniteSetsExt

CONSTANTS
    Ships,          \* MMSI numbers
    Kinds,          \* the kinds of messages that come in
    NoRow,          \* the table has no row for this ship
    OldHistories,   \* what position_reports may hold before latest_positions exists
    Retention, PruneInterval,
    ChunkSize,      \* prune_chunk_size (10,000)
    MaxBatch,       \* max_batch_size (500)
    MaxMessages, MaxTime, MaxClockSettings  \* bounds

Reports == {"position", "no position"}     \* PositionReport, with its two optionals set or not
Statics == {"voyage", "part A", "part B"}  \* StaticVoyageData, StaticDataPartA and B
Columns == {"name", "size", "voyage"}      \* name; type, call sign and size; all others

Rows == [n : Int, ship : Ships, kind : Reports, at : Int]

StaticRows == [from : [Columns -> Nat], at : Int]

ASSUME WriterAssumption ==
    /\ Kinds \subseteq Reports \cup Statics
    /\ NoRow \notin Rows \cup StaticRows
    /\ \A old \in OldHistories :
         /\ old \subseteq Rows /\ IsFiniteSet(old)
         /\ \A r \in old : r.n <= 0
         /\ \A a, b \in old : a.n = b.n => a = b     \* the primary key
    /\ Retention \in Nat /\ PruneInterval \in Nat /\ MaxTime \in Nat
    /\ ChunkSize \in Nat \ {0} /\ MaxBatch \in Nat \ {0}
    /\ MaxMessages \in Nat /\ MaxClockSettings \in Nat

VARIABLES
    db,        \* the committed tables: rows, latest and static; and, as a history,
               \* log, every message inserted by this program
    tx,        \* what the connection sees: db, or the transaction's version of it
    pc,        \* where the writer is
    written,   \* how many messages of the batch have been inserted
    stamp,     \* received_at of the batch
    cutoff,    \* the argument of delete_older_than
    pruning,   \* now in run(), which becomes last_prune_
    lastPrune, \* last_prune_
    wall,      \* system_clock
    uptime,    \* steady_clock
    settings,  \* how often the wall clock has been set
    count      \* history: messages inserted so far, rolled back or not

vars == <<db, tx, pc, written, stamp, cutoff, pruning, lastPrune, wall, uptime,
          settings, count>>
clocks == <<wall, uptime, settings>>

Messages == [n : Nat, ship : Ships, kind : Reports \cup Statics, at : Int]

Tables == [rows : SUBSET Rows, latest : [Ships -> Rows \cup {NoRow}],
           static : [Ships -> StaticRows \cup {NoRow}], log : SUBSET Messages]

TypeOK ==
    /\ db \in Tables /\ tx \in Tables
    /\ pc \in {"closed", "ready", "writing", "committed", "pruning"}
    /\ pc # "writing" => tx = db
    /\ written \in 0 .. MaxBatch
    /\ stamp \in Int /\ cutoff \in Int /\ wall \in Int
    /\ uptime \in Nat /\ pruning \in 0 .. uptime /\ lastPrune \in 0 .. uptime
    /\ settings \in 0 .. MaxClockSettings
    /\ count \in 0 .. MaxMessages

Empty == [s \in Ships |-> NoRow]

Init ==
    /\ \E old \in OldHistories : db = [rows |-> old, latest |-> Empty, static |-> Empty, log |-> {}]
    /\ tx = db
    /\ pc = "closed"
    /\ written = 0 /\ stamp = 0 /\ cutoff = 0 /\ pruning = 0 /\ lastPrune = 0
    /\ wall = 0 /\ uptime = 0 /\ settings = 0
    /\ count = 0

------------------------------------------------------------------------------
(* The constructor.                                                          *)

\* a ranks before b in ORDER BY received_at DESC, rowid DESC.
Newer(a, b) == a.at > b.at \/ (a.at = b.at /\ a.n > b.n)

WithPosition(rows, ship) == {r \in rows : r.ship = ship /\ r.kind = "position"}

\* Mutant: rows without a position are dropped after ranking.
BackfillRankedFirst(rows) ==
    [s \in Ships |->
        LET all == {r \in rows : r.ship = s}
            top == {r \in all : \A o \in all \ {r} : Newer(r, o)}
        IN IF WithPosition(top, s) = {} THEN NoRow ELSE CHOOSE r \in top : TRUE]

\* ROW_NUMBER() = 1 among the rows of each ship that carry a position.
Backfill(rows) ==
    [s \in Ships |->
        LET all == WithPosition(rows, s)
        IN IF all = {} THEN NoRow ELSE CHOOSE r \in all : \A o \in all \ {r} : Newer(r, o)]

\* The database is opened; latest_positions is created, unless it is there, and
\* filled if it is empty, in one transaction that a crash undoes.
Open ==
    /\ pc = "closed"
    /\ db' = IF db.latest = Empty THEN [db EXCEPT !.latest = Backfill(db.rows)] ELSE db
    /\ tx' = db'
    /\ pc' = "ready"
    /\ UNCHANGED <<written, stamp, cutoff, pruning, lastPrune, clocks, count>>

------------------------------------------------------------------------------
(* run(): one batch after another.                                           *)

\* pop_batch returned at least one message: take the time, BEGIN.
BeginBatch ==
    /\ pc = "ready"
    /\ count < MaxMessages
    /\ stamp' = wall
    /\ pc' = "writing"
    /\ UNCHANGED <<db, tx, written, cutoff, pruning, lastPrune, clocks, count>>

\* Mutant: > for >= in the trigger.
AfterInsertStrict(latest, row) ==
    IF row.kind = "position" /\ (latest[row.ship] # NoRow => row.at > latest[row.ship].at)
    THEN [latest EXCEPT ![row.ship] = row]
    ELSE latest

\* The trigger position_reports_update_latest.
AfterInsert(latest, row) ==
    IF row.kind = "position" /\ (latest[row.ship] # NoRow => row.at >= latest[row.ship].at)
    THEN [latest EXCEPT ![row.ship] = row]
    ELSE latest

Inserted(t, row) ==
    [t EXCEPT !.rows = @ \cup {row}, !.latest = AfterInsert(@, row)]

\* Mutant: part B sets the columns of part A too.
SetsAllOfType24(kind) == IF kind = "voyage" THEN Columns ELSE {"name", "size"}

\* The columns the statement for this kind of message sets.
Sets(kind) ==
    CASE kind = "voyage" -> Columns
      [] kind = "part A" -> {"name"}
      [] kind = "part B" -> {"size"}

\* INSERT ... ON CONFLICT (mmsi) DO UPDATE SET ... WHERE excluded.received_at >= ...
Upserted(t, m) ==
    LET row     == t.static[m.ship]
        from(f) == IF f \in Sets(m.kind) THEN m.n ELSE IF row = NoRow THEN 0 ELSE row.from[f]
    IN IF row # NoRow => m.at >= row.at
       THEN [t EXCEPT !.static[m.ship] = [from |-> [f \in Columns |-> from(f)], at |-> m.at]]
       ELSE t

\* insert() or upsert() of one message of the batch.
Write(ship, kind) ==
    LET m == [n |-> count + 1, ship |-> ship, kind |-> kind, at |-> stamp] IN
    /\ pc = "writing"
    /\ written < MaxBatch /\ count < MaxMessages
    /\ tx' = [(IF kind \in Reports THEN Inserted(tx, m) ELSE Upserted(tx, m))
                  EXCEPT !.log = @ \cup {m}]
    /\ written' = written + 1
    /\ count' = count + 1
    /\ UNCHANGED <<db, pc, stamp, cutoff, pruning, lastPrune, clocks>>

\* transaction.commit().
Commit ==
    /\ pc = "writing"
    /\ written > 0
    /\ db' = tx
    /\ pc' = "committed"
    /\ written' = 0 /\ stamp' = 0
    /\ UNCHANGED <<tx, cutoff, pruning, lastPrune, clocks, count>>

PruneIsDue == uptime - lastPrune >= PruneInterval

NotYet ==
    /\ pc = "committed"
    /\ ~PruneIsDue
    /\ pc' = "ready"
    /\ UNCHANGED <<db, tx, written, stamp, cutoff, pruning, lastPrune, clocks, count>>

\* Mutant: the cutoff is that of one unit later.
BeginPruneTooLate ==
    /\ pc = "committed"
    /\ PruneIsDue
    /\ pruning' = uptime
    /\ cutoff' = wall - Retention + 1
    /\ pc' = "pruning"
    /\ UNCHANGED <<db, tx, written, stamp, lastPrune, clocks, count>>

BeginPrune ==
    /\ pc = "committed"
    /\ PruneIsDue
    /\ pruning' = uptime
    /\ cutoff' = wall - Retention
    /\ pc' = "pruning"
    /\ UNCHANGED <<db, tx, written, stamp, lastPrune, clocks, count>>

EndPrune == pc' = "ready" /\ lastPrune' = pruning /\ cutoff' = 0 /\ pruning' = 0

\* One DELETE of delete_older_than, a transaction of its own; no ORDER BY says
\* which of the old rows the LIMIT leaves.  It is the last unless it was full.
PruneChunk ==
    /\ pc = "pruning"
    /\ LET old == {r \in db.rows : r.at < cutoff} IN
       \E chunk \in kSubset(Min({ChunkSize, Cardinality(old)}), old) :
           /\ db' = [db EXCEPT !.rows = @ \ chunk]
           /\ IF Cardinality(chunk) = ChunkSize
              THEN UNCHANGED <<pc, lastPrune, cutoff, pruning>>
              ELSE EndPrune
    /\ tx' = db'
    /\ UNCHANGED <<written, stamp, clocks, count>>

\* The program ends or dies; a failed statement throws out of run(), which ends it
\* too.  A transaction that has not committed is rolled back.
Down ==
    /\ pc # "closed"
    /\ pc' = "closed"
    /\ tx' = db
    /\ written' = 0 /\ stamp' = 0 /\ cutoff' = 0 /\ pruning' = 0 /\ lastPrune' = 0
    /\ UNCHANGED <<db, clocks, count>>

------------------------------------------------------------------------------
Tick ==
    /\ uptime < MaxTime
    /\ uptime' = uptime + 1
    /\ wall' = wall + 1
    /\ UNCHANGED <<db, tx, pc, written, stamp, cutoff, pruning, lastPrune, settings, count>>

\* The wall clock is set, forwards or backwards.
SetClock ==
    /\ settings < MaxClockSettings
    /\ settings' = settings + 1
    /\ \E time \in 0 .. MaxTime : wall' = time
    /\ UNCHANGED <<db, tx, pc, written, stamp, cutoff, pruning, lastPrune, uptime, count>>

Next ==
    \/ Open \/ BeginBatch \/ Commit \/ NotYet \/ BeginPrune \/ PruneChunk \/ Down
    \/ \E ship \in Ships, kind \in Kinds : Write(ship, kind)
    \/ Tick \/ SetClock

Spec == Init /\ [][Next]_vars

------------------------------------------------------------------------------
\* latest_positions "can never disagree with history" (sqlite_writer.cpp:122): no
\* report with a position that is still in position_reports is newer than what
\* latest_positions has for its ship, however the clock was set, wherever pruning
\* was interrupted and whatever the database held to begin with.
LatestAgreesWithHistory ==
    pc # "closed" =>
        \A s \in Ships : \A r \in WithPosition(db.rows, s) :
            db.latest[s] # NoRow /\ (db.latest[s] = r \/ Newer(db.latest[s], r))

NewestOf(messages) == {m \in messages : \A o \in messages : o.n <= m.n}

\* While nobody sets the clock, what the radar shows of a ship is the last report
\* with a position that was committed.
LatestIsTheLastHeard ==
    settings = 0 =>
        \A s \in Ships : \A m \in NewestOf(WithPosition(db.log, s)) : db.latest[s] = m

\* The messages that carry the contents of a column.
Carriers(column) ==
    {"voyage"} \cup (IF column = "name" THEN {"part A"} ELSE {})
                \cup (IF column = "size" THEN {"part B"} ELSE {})

\* While nobody sets the clock, each column of ship_static comes from the last
\* message that carries it: parts A and B fill in "their own columns without
\* overwriting each other" (README.md:88), voyage data replaces both.
StaticIsTheNewest ==
    settings = 0 =>
        \A s \in Ships, f \in Columns :
            \A m \in NewestOf({m \in db.log : m.ship = s /\ m.kind \in Carriers(f)}) :
                db.static[s] # NoRow /\ db.static[s].from[f] = m.n

\* While nobody sets the clock, every report of the last 24 hours is in the history.
FreshReportsAreKept ==
    settings = 0 =>
        \A m \in db.log : (m.kind \in Reports /\ wall - m.at <= Retention) => m \in db.rows

============================================================================
