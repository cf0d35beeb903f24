--------------------------- MODULE DatabaseProofs ---------------------------
(***************************************************************************)
(* The database, as it is written and as it is read.                       *)
(*                                                                         *)
(* latest_positions agrees with the history, and what is kept of each ship *)
(* is the last that was heard, for any ships, clocks, crashes, batches and *)
(* chunks, and whatever an older version has left.  What has to be added   *)
(* is that a row that is inserted has a higher rowid than any before it,   *)
(* and that, while nobody sets the clock, no stamp is ahead of it.         *)
(*                                                                         *)
(* The answers of the API are snapshots, for any number of threads, of     *)
(* statements, of rows and of commits by the pipeline; and the process     *)
(* ends with nothing in progress.  The argument is that a statement is     *)
(* being read only by the thread that has the mutex, since StatementReset  *)
(* runs before the lock is given back, so that whoever takes the mutex     *)
(* finds every statement idle and ready to be bound.                       *)
(***************************************************************************)
EXTENDS SqliteWriter, ApiServer, FiniteSetTheorems, WellFoundedInduction, TLAPS

\* Rowids are unique and given out in order.
Sound(t, c) ==
    /\ IsFiniteSet(t.rows)
    /\ \A a, b \in t.rows : a.n = b.n => a = b
    /\ \A r \in t.rows : r.n <= c
    /\ \A m \in t.log : m.n <= c
    /\ \A s \in Ships : t.latest[s] # NoRow => t.latest[s].n <= c

\* LatestAgreesWithHistory, of any version of the tables.
Agrees(t) ==
    \A s \in Ships : \A r \in WithPosition(t.rows, s) :
        t.latest[s] # NoRow /\ (t.latest[s] = r \/ Newer(t.latest[s], r))

WriterInv ==
    /\ TypeOK
    /\ Sound(db, count) /\ Sound(tx, count)
    /\ pc # "closed" \/ db.latest # Empty => Agrees(db)
    /\ pc # "closed" => Agrees(tx)

------------------------------------------------------------------------------
(* ROW_NUMBER() = 1: a finite set of rows has a newest one.                  *)

LEMMA NewerOrder ==
    /\ \A a, b, c \in Rows : Newer(a, b) /\ Newer(b, c) => Newer(a, c)
    /\ \A a, b \in Rows : a.n # b.n => Newer(a, b) \/ Newer(b, a)
  BY DEF Rows, Newer

HasNewest(S) == \E r \in S : \A o \in S \ {r} : Newer(r, o)

LEMMA NewestExists ==
    ASSUME NEW S \in SUBSET Rows, IsFiniteSet(S), S # {},
           \A a, b \in S : a.n = b.n => a = b
    PROVE  HasNewest(S)
<1> DEFINE Without == {U \in SUBSET S : U # {} /\ ~HasNewest(U)}
<1>1. SUFFICES ASSUME Without # {} PROVE FALSE
  BY DEF Without
<1>2. IsWellFoundedOn(StrictSubsetOrdering(S), SUBSET S)
  BY FS_StrictSubsetOrderingWellFounded, FS_FiniteSubsetsOfFinite
<1>3. PICK U \in Without : \A V \in Without : <<V, U>> \notin StrictSubsetOrdering(S)
  <2>1. Without \subseteq SUBSET S
    OBVIOUS
  <2> QED
    BY <1>1, <1>2, <2>1, WFMin
<1>4. PICK x \in U : TRUE
  BY <1>3
<1> DEFINE V == U \ {x}
<1>5. V \in SUBSET S /\ U \in SUBSET S /\ V # U /\ V \subseteq U
  BY <1>3, <1>4
<1>6. <<V, U>> \in StrictSubsetOrdering(S)
  BY <1>5 DEF StrictSubsetOrdering
<1>7. CASE V = {}
  <2>1. \A o \in U \ {x} : Newer(x, o)
    BY <1>7
  <2>2. HasNewest(U)
    BY <1>4, <2>1, Zenon DEF HasNewest
  <2> QED
    BY <2>2, <1>3
<1>8. CASE V # {}
  <2>1. HasNewest(V)
    BY <1>3, <1>5, <1>6, <1>8
  <2>2. PICK y \in V : \A o \in V \ {y} : Newer(y, o)
    BY <2>1 DEF HasNewest
  <2>3. x \in Rows /\ y \in Rows /\ x # y /\ x \in U /\ y \in U
    BY <1>4, <1>5, <2>2
  <2>4. x.n # y.n
    BY <2>3, <1>5
  <2>5. CASE Newer(y, x)
    <3>1. \A o \in U \ {y} : Newer(y, o)
      BY <2>2, <2>5
    <3> QED
      BY <3>1, <2>3, <1>3, Zenon DEF HasNewest
  <2>6. CASE Newer(x, y)
    <3>1. \A o \in U \ {x} : Newer(x, o)
      <4>1. SUFFICES ASSUME NEW o \in U, o # x, o # y PROVE Newer(x, o)
        BY <2>6
      <4>2. o \in Rows /\ Newer(y, o)
        BY <4>1, <1>5, <2>2
      <4> QED
        BY <4>2, <2>3, <2>6, NewerOrder
    <3> QED
      BY <3>1, <2>3, <1>3, Zenon DEF HasNewest
  <2> QED
    BY <2>3, <2>4, <2>5, <2>6, NewerOrder
<1> QED
  BY <1>7, <1>8

\* The constructor fills latest_positions with the newest position of each ship.
LEMMA BackfillNewest ==
    ASSUME NEW rows \in SUBSET Rows, IsFiniteSet(rows),
           \A a, b \in rows : a.n = b.n => a = b
    PROVE  /\ Backfill(rows) \in [Ships -> Rows \cup {NoRow}]
           /\ \A s \in Ships :
                /\ Backfill(rows)[s] \in rows \cup {NoRow}
                /\ \A r \in WithPosition(rows, s) :
                     /\ Backfill(rows)[s] # NoRow
                     /\ Backfill(rows)[s] = r \/ Newer(Backfill(rows)[s], r)
<1>1. ASSUME NEW s \in Ships
      PROVE  /\ Backfill(rows)[s] \in rows \cup {NoRow}
             /\ \A r \in WithPosition(rows, s) :
                  /\ Backfill(rows)[s] # NoRow
                  /\ Backfill(rows)[s] = r \/ Newer(Backfill(rows)[s], r)
  <2> DEFINE all == WithPosition(rows, s)
             top == CHOOSE r \in all : \A o \in all \ {r} : Newer(r, o)
  <2>1. all \subseteq rows /\ all \in SUBSET Rows
    BY DEF WithPosition
  <2>2. Backfill(rows)[s] = IF all = {} THEN NoRow ELSE top
    BY DEF Backfill
  <2>3. CASE all = {}
    BY <2>2, <2>3
  <2>4. CASE all # {}
    <3>1. HasNewest(all)
      BY <2>1, <2>4, FS_Subset, NewestExists
    <3>2. top \in all /\ \A o \in all \ {top} : Newer(top, o)
      BY <3>1 DEF HasNewest
    <3>3. top # NoRow
      BY <3>2, <2>1, WriterAssumption
    <3> QED
      BY <2>1, <2>2, <2>4, <3>2, <3>3
  <2> QED
    BY <2>3, <2>4
<1>2. Backfill(rows) = [s \in Ships |-> Backfill(rows)[s]]
  BY DEF Backfill
<1> QED
  BY <1>1, <1>2

------------------------------------------------------------------------------
(* LatestAgreesWithHistory.                                                  *)

\* The trigger: the row that has just been inserted is the newest of its ship, or the
\* one there is stays, which is newer than it.
LEMMA InsertAgrees ==
    ASSUME WriterInv, NEW t \in Tables, Sound(t, count), Agrees(t),
           NEW m \in Rows, m.n = count + 1
    PROVE  /\ Inserted(t, m) \in Tables
           /\ Inserted(t, m).rows = t.rows \cup {m} /\ Inserted(t, m).log = t.log
           /\ Inserted(t, m).static = t.static
           /\ Inserted(t, m).latest = AfterInsert(t.latest, m)
           /\ \A s \in Ships : Inserted(t, m).latest[s] \in {t.latest[s], m}
           /\ Agrees(Inserted(t, m))
<1> DEFINE u == Inserted(t, m)
<1>1. m # NoRow /\ m.ship \in Ships /\ m.at \in Int /\ count \in Nat
  BY WriterAssumption DEF Rows, WriterInv, TypeOK
<1>2. t.latest \in [Ships -> Rows \cup {NoRow}]
  BY DEF Tables
<1>3. /\ AfterInsert(t.latest, m) \in [Ships -> Rows \cup {NoRow}]
      /\ \A s \in Ships : AfterInsert(t.latest, m)[s] \in {t.latest[s], m}
      /\ \A s \in Ships \ {m.ship} : AfterInsert(t.latest, m)[s] = t.latest[s]
  BY <1>1, <1>2 DEF AfterInsert
<1>4. u.rows = t.rows \cup {m} /\ u.latest = AfterInsert(t.latest, m)
      /\ u.log = t.log /\ u.static = t.static
  BY DEF Inserted, Tables
<1>5. u \in Tables
  BY <1>3, <1>4 DEF Tables, Inserted
<1>6. Agrees(u)
  <2>1. SUFFICES ASSUME NEW s \in Ships, NEW r \in WithPosition(u.rows, s)
                 PROVE  u.latest[s] # NoRow /\ (u.latest[s] = r \/ Newer(u.latest[s], r))
    BY DEF Agrees
  <2>2. r \in Rows /\ r.ship = s /\ r.kind = "position" /\ r \in t.rows \cup {m}
    BY <1>4 DEF WithPosition, Tables
  <2>3. CASE s # m.ship
    <3>1. r \in WithPosition(t.rows, s)
      BY <2>2, <2>3 DEF WithPosition
    <3> QED
      BY <3>1, <2>3, <1>3, <1>4 DEF Agrees
  <2>4. CASE s = m.ship /\ m.kind # "position"
    <3>1. r \in WithPosition(t.rows, s) /\ u.latest = t.latest
      BY <2>2, <2>4, <1>4 DEF WithPosition, AfterInsert
    <3> QED
      BY <3>1 DEF Agrees
  <2>5. CASE s = m.ship /\ m.kind = "position"
    <3> DEFINE old == t.latest[s]
    <3>1. r # m => r \in WithPosition(t.rows, s) /\ old # NoRow /\ (old = r \/ Newer(old, r))
      BY <2>2 DEF WithPosition, Agrees
    <3>2. old # NoRow => old \in Rows /\ old.n <= count
      BY <1>2 DEF Sound
    <3>3. CASE old # NoRow => m.at >= old.at
      <4>1. u.latest[s] = m
        BY <1>1, <1>2, <1>4, <2>5, <3>3 DEF AfterInsert
      <4>2. old # NoRow => Newer(m, old)
        BY <3>2, <3>3, <1>1 DEF Newer, Rows
      <4> QED
        BY <4>1, <4>2, <3>1, <3>2, <2>2, <1>1, NewerOrder
    <3>4. CASE ~(old # NoRow => m.at >= old.at)
      <4>1. u.latest[s] = old
        BY <1>1, <1>2, <1>4, <2>5, <3>4 DEF AfterInsert
      <4>2. Newer(old, m)
        BY <3>2, <3>4, <1>1 DEF Newer, Rows
      <4> QED
        BY <4>1, <4>2, <3>1, <3>4
    <3> QED
      BY <3>3, <3>4
  <2> QED
    BY <2>3, <2>4, <2>5
<1> QED
  BY <1>3, <1>4, <1>5, <1>6

\* An upsert leaves the reports alone.
LEMMA UpsertedTables ==
    ASSUME NEW t \in Tables, NEW m \in Messages
    PROVE  /\ Upserted(t, m) \in Tables
           /\ Upserted(t, m).rows = t.rows /\ Upserted(t, m).latest = t.latest
           /\ Upserted(t, m).log = t.log
<1> DEFINE row == t.static[m.ship]
           from(f) == IF f \in Sets(m.kind) THEN m.n ELSE IF row = NoRow THEN 0 ELSE row.from[f]
           new == [from |-> [f \in Columns |-> from(f)], at |-> m.at]
<1>1. m.ship \in Ships /\ m.n \in Nat /\ m.at \in Int
  BY DEF Messages
<1>2. row \in StaticRows \cup {NoRow}
  BY <1>1 DEF Tables
<1>3. \A f \in Columns : from(f) \in Nat
  BY <1>1, <1>2 DEF StaticRows
<1>4. [f \in Columns |-> from(f)] \in [Columns -> Nat]
  BY <1>3
<1>5. new \in StaticRows
  BY <1>4, <1>1 DEF StaticRows
<1>6. Upserted(t, m) = IF row # NoRow => m.at >= row.at THEN [t EXCEPT !.static[m.ship] = new]
                       ELSE t
  BY DEF Upserted
<1>7. [t EXCEPT !.static[m.ship] = new] \in Tables
  BY <1>5 DEF Tables
<1> QED
  BY <1>6, <1>7 DEF Tables

LEMMA SoundLater ==
    ASSUME NEW t \in Tables, NEW c \in Nat, NEW d \in Nat, c <= d, Sound(t, c)
    PROVE  Sound(t, d)
<1>1. \A r \in t.rows : r.n \in Int
  BY DEF Tables, Rows
<1>2. \A m \in t.log : m.n \in Int
  BY DEF Tables, Messages
<1>3. \A s \in Ships : t.latest[s] # NoRow => t.latest[s].n \in Int
  <2>1. \A s \in Ships : t.latest[s] \in Rows \cup {NoRow}
    BY DEF Tables
  <2> QED
    BY <2>1 DEF Rows
<1> QED
  BY <1>1, <1>2, <1>3 DEF Sound

LEMMA WriterInvInit == Init => WriterInv
<1> SUFFICES ASSUME Init PROVE WriterInv
  OBVIOUS
<1>1. PICK old \in OldHistories :
        db = [rows |-> old, latest |-> Empty, static |-> Empty, log |-> {}]
  BY DEF Init
<1>2. /\ old \subseteq Rows /\ IsFiniteSet(old) /\ \A r \in old : r.n <= 0
      /\ \A a, b \in old : a.n = b.n => a = b
      /\ MaxMessages \in Nat /\ MaxBatch \in Nat /\ MaxClockSettings \in Nat
  BY WriterAssumption
<1>3. db \in Tables /\ db.latest = Empty /\ db.rows = old /\ db.log = {}
  BY <1>1, <1>2 DEF Tables, Empty
<1>4. tx = db /\ pc = "closed" /\ count = 0
  BY DEF Init
<1>5. TypeOK
  BY <1>2, <1>3, <1>4 DEF Init, TypeOK
<1>6. Sound(db, 0)
  BY <1>2, <1>3 DEF Sound, Empty
<1> QED
  BY <1>3, <1>4, <1>5, <1>6 DEF WriterInv

\* Opening completes an upgrade, or one that a crash has undone.
LEMMA WriterInvOpen == WriterInv /\ Open => WriterInv'
<1> SUFFICES ASSUME WriterInv, Open PROVE WriterInv'
  OBVIOUS
<1>1. /\ db \in Tables /\ Sound(db, count) /\ count' = count
      /\ tx' = db' /\ pc' = "ready"
  BY DEF WriterInv, TypeOK, Open
<1>2. CASE db.latest # Empty
  <2>1. db' = db /\ Agrees(db)
    BY <1>2 DEF Open, WriterInv
  <2> QED
    BY <1>1, <2>1 DEF WriterInv, TypeOK, Open, clocks
<1>3. CASE db.latest = Empty
  <2> DEFINE filled == Backfill(db.rows)
  <2>1. db.rows \in SUBSET Rows /\ IsFiniteSet(db.rows) /\ \A a, b \in db.rows : a.n = b.n => a = b
    BY <1>1 DEF Tables, Sound
  <2>2. /\ filled \in [Ships -> Rows \cup {NoRow}]
        /\ \A s \in Ships :
             /\ filled[s] \in db.rows \cup {NoRow}
             /\ \A r \in WithPosition(db.rows, s) :
                  filled[s] # NoRow /\ (filled[s] = r \/ Newer(filled[s], r))
    BY <2>1, BackfillNewest
  <2>3. db' = [db EXCEPT !.latest = filled]
    BY <1>3 DEF Open
  <2>4. db' \in Tables /\ db'.rows = db.rows /\ db'.log = db.log /\ db'.latest = filled
    BY <2>2, <2>3, <1>1 DEF Tables
  <2>5. Sound(db', count)
    BY <2>2, <2>4, <1>1 DEF Sound
  <2>6. Agrees(db')
    BY <2>2, <2>4 DEF Agrees
  <2> QED
    BY <1>1, <2>4, <2>5, <2>6 DEF WriterInv, TypeOK, Open, clocks
<1> QED
  BY <1>2, <1>3

\* A message gets the next rowid.
LEMMA WriterInvWrite ==
    ASSUME WriterInv, NEW ship \in Ships, NEW kind \in Kinds, Write(ship, kind)
    PROVE  WriterInv'
<1> DEFINE m == [n |-> count + 1, ship |-> ship, kind |-> kind, at |-> stamp]
           u == IF kind \in Reports THEN Inserted(tx, m) ELSE Upserted(tx, m)
<1>1. /\ tx \in Tables /\ db \in Tables /\ Sound(tx, count) /\ Sound(db, count)
      /\ Agrees(tx) /\ Agrees(db)
      /\ count \in 0 .. MaxMessages /\ written \in 0 .. MaxBatch
      /\ stamp \in Int /\ pc = "writing"
  BY DEF WriterInv, TypeOK, Write
<1>2. /\ tx' = [u EXCEPT !.log = @ \cup {m}]
      /\ count' = count + 1 /\ written' = written + 1 /\ count < MaxMessages /\ written < MaxBatch
      /\ UNCHANGED <<db, pc, stamp, cutoff, pruning, lastPrune, wall, uptime, settings>>
  BY DEF Write, clocks
<1>3. MaxMessages \in Nat /\ MaxBatch \in Nat
  BY WriterAssumption
<1>4. m \in Messages /\ m.n = count + 1
  BY <1>1, WriterAssumption DEF Messages
<1>5. /\ u \in Tables /\ u.log = tx.log
      /\ kind \in Reports => u.rows = tx.rows \cup {m}
      /\ kind \notin Reports => u.rows = tx.rows
      /\ \A s \in Ships : u.latest[s] \in {tx.latest[s], m}
      /\ Agrees(u)
  <2>1. CASE kind \in Reports
    <3>1. m \in Rows
      BY <1>1, <2>1 DEF Rows
    <3> QED
      BY <1>1, <1>4, <2>1, <3>1, InsertAgrees
  <2>2. CASE kind \notin Reports
    BY <1>1, <1>4, <2>2, UpsertedTables DEF Agrees
  <2> QED
    BY <2>1, <2>2
<1>6. /\ tx' \in Tables /\ tx'.rows = u.rows /\ tx'.latest = u.latest /\ tx'.log = tx.log \cup {m}
  BY <1>2, <1>4, <1>5 DEF Tables
<1>7. Agrees(tx')
  BY <1>5, <1>6 DEF Agrees
<1>8. Sound(tx', count + 1)
  <2>1. /\ \A r \in tx.rows : r.n \in Int /\ r.n <= count
        /\ \A s \in Ships : tx.latest[s] # NoRow => tx.latest[s].n \in Int /\ tx.latest[s].n <= count
        /\ \A l \in tx.log : l.n \in Int /\ l.n <= count
    <3>1. \A s \in Ships : tx.latest[s] \in Rows \cup {NoRow}
      BY <1>1 DEF Tables
    <3> QED
      BY <1>1, <3>1 DEF Tables, Rows, Messages, Sound
  <2>2. IsFiniteSet(tx'.rows)
    BY <1>1, <1>5, <1>6, FS_AddElement DEF Sound
  <2>3. tx'.rows \subseteq tx.rows \cup {m}
    BY <1>5, <1>6
  <2>4. \A r \in tx'.rows : r.n <= count + 1
    BY <2>1, <2>3, <1>1, <1>4
  <2>5. \A a, b \in tx'.rows : a.n = b.n => a = b
    <3>1. \A a, b \in tx.rows : a.n = b.n => a = b
      BY <1>1 DEF Sound
    <3> QED
      BY <2>1, <2>3, <3>1, <1>1, <1>4
  <2>6. \A l \in tx'.log : l.n <= count + 1
    BY <2>1, <1>6, <1>1, <1>4
  <2>7. \A s \in Ships : tx'.latest[s] # NoRow => tx'.latest[s].n <= count + 1
    BY <2>1, <1>5, <1>6, <1>1, <1>4
  <2> QED
    BY <2>2, <2>4, <2>5, <2>6, <2>7 DEF Sound
<1>9. Sound(db, count + 1)
  BY <1>1, <1>3, SoundLater
<1>10. TypeOK'
  BY <1>1, <1>2, <1>3, <1>6 DEF WriterInv, TypeOK
<1> QED
  BY <1>1, <1>2, <1>7, <1>8, <1>9, <1>10 DEF WriterInv

\* Pruning takes rows away, and nothing else.
LEMMA PruneTables ==
    ASSUME WriterInv, PruneChunk
    PROVE  /\ pc = "pruning" /\ tx' = db' /\ db' \in Tables
           /\ db'.rows \subseteq db.rows /\ db.rows \subseteq db'.rows \cup {r \in db.rows : r.at < cutoff}
           /\ db'.latest = db.latest /\ db'.log = db.log /\ db'.static = db.static
           /\ UNCHANGED <<written, stamp, wall, uptime, settings, count>>
           /\ \/ UNCHANGED <<pc, lastPrune, cutoff, pruning>>
              \/ EndPrune
<1> DEFINE old == {r \in db.rows : r.at < cutoff}
           n == Min({ChunkSize, Cardinality(old)})
<1>1. PICK chunk \in kSubset(n, old) :
        /\ db' = [db EXCEPT !.rows = @ \ chunk]
        /\ IF Cardinality(chunk) = ChunkSize THEN UNCHANGED <<pc, lastPrune, cutoff, pruning>> ELSE EndPrune
  BY DEF PruneChunk
<1>2. chunk \subseteq old
  BY DEF kSubset
<1>3. db \in Tables
  BY DEF WriterInv, TypeOK
<1> QED
  BY <1>1, <1>2, <1>3 DEF PruneChunk, Tables, clocks

LEMMA WriterInvPrune == WriterInv /\ PruneChunk => WriterInv'
<1> SUFFICES ASSUME WriterInv, PruneChunk PROVE WriterInv'
  OBVIOUS
<1>1. Sound(db, count) /\ Agrees(db) /\ count \in Nat
  BY PruneTables DEF WriterInv, TypeOK
<1>2. Sound(db', count)
  BY <1>1, PruneTables, FS_Subset DEF Sound
<1>3. Agrees(db')
  BY <1>1, PruneTables DEF Agrees, WithPosition
<1>4. TypeOK'
  BY PruneTables DEF WriterInv, TypeOK, EndPrune
<1> QED
  BY <1>2, <1>3, <1>4, PruneTables DEF WriterInv, EndPrune

LEMMA WriterInvNext == WriterInv /\ [Next]_vars => WriterInv'
<1> SUFFICES ASSUME WriterInv, [Next]_vars PROVE WriterInv'
  OBVIOUS
<1> USE DEF WriterInv, TypeOK, clocks
<1>1. CASE BeginBatch
  BY <1>1 DEF BeginBatch
<1>2. CASE Commit
  BY <1>2, WriterAssumption DEF Commit
<1>3. CASE NotYet
  BY <1>3 DEF NotYet
<1>4. CASE BeginPrune
  BY <1>4, WriterAssumption DEF BeginPrune
<1>5. CASE Down
  BY <1>5, WriterAssumption DEF Down
<1>6. CASE Tick
  BY <1>6 DEF Tick
<1>7. CASE SetClock
  BY <1>7, WriterAssumption DEF SetClock
<1>8. CASE UNCHANGED vars
  BY <1>8 DEF vars
<1> QED
  BY <1>1, <1>2, <1>3, <1>4, <1>5, <1>6, <1>7, <1>8, WriterInvOpen, WriterInvWrite, WriterInvPrune DEF Next

\* Every reachable state of the writer is well typed, and its rowids are in order.
THEOREM WriterInvariant == Spec => []WriterInv
  BY WriterInvInit, WriterInvNext, PTL DEF Spec

\* sqlite_writer.cpp:119-157.  latest_positions cannot disagree with the history, whatever
\* the clocks, crashes and pruning do.
THEOREM LatestNeverDisagrees == Spec => []LatestAgreesWithHistory
<1>1. WriterInv => LatestAgreesWithHistory
  BY DEF WriterInv, Agrees, LatestAgreesWithHistory
<1> QED
  BY <1>1, WriterInvariant, PTL

------------------------------------------------------------------------------
(* What holds while nobody sets the clock.                                   *)

\* What an older version has left is not from the future.
NoStampsAhead == \A old \in OldHistories : \A r \in old : r.at <= 0

Stamped(t, time) ==
    /\ \A r \in t.rows : r.at <= time
    /\ \A s \in Ships : t.latest[s] # NoRow => t.latest[s].at <= time
    /\ \A s \in Ships : t.static[s] # NoRow => t.static[s].at <= time

\* LatestIsTheLastHeard and StaticIsTheNewest, of any version of the tables.
Heard(t) ==
    \A s \in Ships :
        /\ \A m \in NewestOf(WithPosition(t.log, s)) : t.latest[s] = m
        /\ WithPosition(t.log, s) # {} => t.latest[s] # NoRow

Carrying(t, s, f) == {m \in t.log : m.ship = s /\ m.kind \in Carriers(f)}

StaticHeard(t) ==
    \A s \in Ships, f \in Columns : \A m \in NewestOf(Carrying(t, s, f)) :
        t.static[s] # NoRow /\ t.static[s].from[f] = m.n

\* FreshReportsAreKept, at a certain time.
Keeps(t, time) ==
    \A m \in t.log : (m.kind \in Reports /\ time - m.at <= Retention) => m \in t.rows

Good(t, time, now) == Stamped(t, time) /\ Heard(t) /\ StaticHeard(t) /\ Keeps(t, now)

Undisturbed ==
    settings = 0 =>
        /\ Good(db, wall, wall)
        /\ pc = "writing" => stamp <= wall /\ Good(tx, stamp, wall)
        /\ pc = "pruning" => cutoff <= wall - Retention

LEMMA Stamps ==
    ASSUME NEW t \in Tables
    PROVE  /\ \A r \in t.rows : r.at \in Int /\ r.n \in Int
           /\ \A m \in t.log : m.at \in Int /\ m.n \in Int /\ m.kind \in Reports \cup Statics
           /\ \A s \in Ships : t.latest[s] # NoRow => t.latest[s].at \in Int
           /\ \A s \in Ships : t.static[s] # NoRow => t.static[s].at \in Int
<1>1. \A s \in Ships : t.latest[s] \in Rows \cup {NoRow} /\ t.static[s] \in StaticRows \cup {NoRow}
  BY DEF Tables
<1> QED
  BY <1>1 DEF Tables, Rows, StaticRows, Messages

LEMMA GoodLater ==
    ASSUME NEW t \in Tables, NEW a \in Int, NEW b \in Int, NEW v \in Int, NEW w \in Int,
           a <= b, v <= w, Good(t, a, v)
    PROVE  Good(t, b, w)
<1>1. Retention \in Nat
  BY WriterAssumption
<1>2. Stamped(t, b)
  BY Stamps DEF Good, Stamped
<1>3. Keeps(t, w)
  BY <1>1, Stamps DEF Good, Keeps
<1> QED
  BY <1>2, <1>3 DEF Good

LEMMA SetsWhatItCarries ==
    ASSUME NEW kind \in Statics, NEW f \in Columns
    PROVE  f \in Sets(kind) <=> kind \in Carriers(f)
<1>1. CASE kind = "voyage"
  BY <1>1 DEF Sets, Carriers
<1>2. CASE kind = "part A"
  <2>1. Sets(kind) = {"name"}
    BY <1>2 DEF Sets
  <2> QED
    BY <1>2, <2>1 DEF Carriers, Columns
<1>3. CASE kind = "part B"
  <2>1. Sets(kind) = {"size"}
    BY <1>3 DEF Sets
  <2> QED
    BY <1>3, <2>1 DEF Carriers, Columns
<1> QED
  BY <1>1, <1>2, <1>3 DEF Statics

LEMMA UndisturbedInit == NoStampsAhead /\ Init => Undisturbed
<1> SUFFICES ASSUME NoStampsAhead, Init PROVE Good(db, 0, 0)
  BY DEF Init, Undisturbed
<1>1. PICK old \in OldHistories :
        db = [rows |-> old, latest |-> Empty, static |-> Empty, log |-> {}]
  BY DEF Init
<1>2. /\ db.rows = old /\ db.log = {}
      /\ \A s \in Ships : db.latest[s] = NoRow /\ db.static[s] = NoRow
  BY <1>1 DEF Empty
<1>3. Stamped(db, 0) /\ Keeps(db, 0)
  BY <1>2 DEF Stamped, Keeps, NoStampsAhead
<1>4. Heard(db) /\ StaticHeard(db)
  BY <1>2 DEF Heard, StaticHeard, Carrying, NewestOf, WithPosition
<1> QED
  BY <1>3, <1>4 DEF Good

\* Filling latest_positions is for a database that has heard no position since.
LEMMA UndisturbedOpen == WriterInv /\ Undisturbed /\ Open => Undisturbed'
<1> SUFFICES ASSUME WriterInv, Open, settings = 0, Good(db, wall, wall) PROVE Good(db', wall, wall)
  BY DEF Undisturbed, Open, clocks
<1>1. db \in Tables /\ Sound(db, count)
  BY DEF WriterInv, TypeOK
<1>2. CASE db.latest # Empty
  BY <1>2 DEF Open
<1>3. CASE db.latest = Empty
  <2> DEFINE filled == Backfill(db.rows)
  <2>1. /\ filled \in [Ships -> Rows \cup {NoRow}]
        /\ \A s \in Ships : filled[s] \in db.rows \cup {NoRow}
    BY <1>1, BackfillNewest DEF Tables, Sound
  <2>2. db' = [db EXCEPT !.latest = filled]
    BY <1>3 DEF Open
  <2>3. db'.rows = db.rows /\ db'.log = db.log /\ db'.latest = filled /\ db'.static = db.static
    BY <2>2, <1>1 DEF Tables
  <2>4. \A s \in Ships : WithPosition(db.log, s) = {}
    BY <1>3 DEF Good, Heard, Empty
  <2>5. Heard(db')
    BY <2>3, <2>4 DEF Heard, NewestOf
  <2>6. Stamped(db', wall)
    BY <2>1, <2>3 DEF Good, Stamped
  <2>7. StaticHeard(db') /\ Keeps(db', wall)
    BY <2>3 DEF Good, StaticHeard, Keeps, Carrying
  <2> QED
    BY <2>5, <2>6, <2>7 DEF Good
<1> QED
  BY <1>2, <1>3

\* A report is newer than all reports before it, and latest_positions takes it if it
\* carries a position; the static data stay.
LEMMA ReportHeard ==
    ASSUME WriterInv, pc = "writing", Good(tx, stamp, wall), stamp <= wall,
           NEW m \in Rows, m.n = count + 1, m.at = stamp, m.kind \in Reports,
           NEW t, t = [Inserted(tx, m) EXCEPT !.log = @ \cup {m}]
    PROVE  Good(t, stamp, wall)
<1>1. /\ tx \in Tables /\ Sound(tx, count) /\ Agrees(tx) /\ stamp \in Int /\ wall \in Int
      /\ count \in Nat
  BY DEF WriterInv, TypeOK
<1>2. /\ Inserted(tx, m) \in Tables
      /\ Inserted(tx, m).rows = tx.rows \cup {m} /\ Inserted(tx, m).log = tx.log
      /\ Inserted(tx, m).static = tx.static
      /\ Inserted(tx, m).latest = AfterInsert(tx.latest, m)
      /\ \A s \in Ships : Inserted(tx, m).latest[s] \in {tx.latest[s], m}
  BY <1>1, InsertAgrees
<1>3. /\ t.rows = tx.rows \cup {m} /\ t.log = tx.log \cup {m} /\ t.static = tx.static
      /\ t.latest = AfterInsert(tx.latest, m)
      /\ \A s \in Ships : t.latest[s] \in {tx.latest[s], m}
  BY <1>2 DEF Tables
<1>4. Stamped(t, stamp)
  BY <1>1, <1>3 DEF Good, Stamped
<1>5. Keeps(t, wall)
  BY <1>3 DEF Good, Keeps
<1>6. StaticHeard(t)
  <2>1. \A f : m.kind \notin Carriers(f)
    BY DEF Reports, Carriers
  <2>2. \A s, f : Carrying(t, s, f) = Carrying(tx, s, f)
    BY <1>3, <2>1 DEF Carrying
  <2> QED
    BY <1>3, <2>2 DEF Good, StaticHeard
<1>7. Heard(t)
  <2>1. SUFFICES ASSUME NEW s \in Ships
                 PROVE  /\ \A o \in NewestOf(WithPosition(t.log, s)) : t.latest[s] = o
                        /\ WithPosition(t.log, s) # {} => t.latest[s] # NoRow
    BY DEF Heard
  <2>2. /\ \A o \in NewestOf(WithPosition(tx.log, s)) : tx.latest[s] = o
        /\ WithPosition(tx.log, s) # {} => tx.latest[s] # NoRow
    BY DEF Good, Heard
  <2>3. m # NoRow /\ m.ship \in Ships
    BY WriterAssumption DEF Rows
  <2>4. tx.latest \in [Ships -> Rows \cup {NoRow}]
    BY <1>1 DEF Tables
  <2>5. CASE m.ship = s /\ m.kind = "position"
    <3>1. tx.latest[s] # NoRow => m.at >= tx.latest[s].at
      <4>1. tx.latest[s] # NoRow => tx.latest[s].at <= stamp /\ tx.latest[s].at \in Int
        BY <1>1, Stamps DEF Good, Stamped
      <4> QED
        BY <4>1, <1>1
    <3>2. t.latest[s] = m
      BY <1>3, <2>3, <2>4, <2>5, <3>1 DEF AfterInsert
    <3>3. WithPosition(t.log, s) = WithPosition(tx.log, s) \cup {m}
      BY <1>3, <2>5 DEF WithPosition
    <3>4. \A o \in WithPosition(tx.log, s) : o.n \in Int /\ o.n <= count
      BY <1>1, Stamps DEF WithPosition, Sound
    <3>5. NewestOf(WithPosition(t.log, s)) \subseteq {m}
      <4>1. NewestOf(WithPosition(tx.log, s) \cup {m}) \subseteq {m}
        BY <1>1, <3>4 DEF NewestOf
      <4> QED
        BY <3>3, <4>1
    <3> QED
      BY <2>3, <3>2, <3>5
  <2>6. CASE ~(m.ship = s /\ m.kind = "position")
    <3>1. t.latest[s] = tx.latest[s]
      BY <1>3, <2>3, <2>4, <2>6 DEF AfterInsert
    <3>2. WithPosition(t.log, s) = WithPosition(tx.log, s)
      BY <1>3, <2>6 DEF WithPosition
    <3> QED
      BY <2>2, <3>1, <3>2
  <2> QED
    BY <2>5, <2>6
<1> QED
  BY <1>4, <1>5, <1>6, <1>7 DEF Good

\* Static data are newer than all before them: the columns they carry are replaced.
LEMMA StaticIsHeard ==
    ASSUME WriterInv, pc = "writing", Good(tx, stamp, wall), stamp <= wall,
           NEW m \in Messages, m.n = count + 1, m.at = stamp, m.kind \in Statics,
           NEW t, t = [Upserted(tx, m) EXCEPT !.log = @ \cup {m}]
    PROVE  Good(t, stamp, wall)
<1> DEFINE row == tx.static[m.ship]
           from(f) == IF f \in Sets(m.kind) THEN m.n ELSE IF row = NoRow THEN 0 ELSE row.from[f]
           new == [from |-> [f \in Columns |-> from(f)], at |-> m.at]
<1>1. /\ tx \in Tables /\ Sound(tx, count) /\ stamp \in Int /\ wall \in Int /\ count \in Nat
      /\ m.ship \in Ships
  BY DEF WriterInv, TypeOK, Messages
<1>2. row # NoRow => row.at \in Int /\ row.at <= stamp
  BY <1>1, Stamps DEF Good, Stamped
<1>3. Upserted(tx, m) = [tx EXCEPT !.static[m.ship] = new]
  BY <1>1, <1>2 DEF Upserted
<1>4. /\ Upserted(tx, m) \in Tables /\ Upserted(tx, m).rows = tx.rows
      /\ Upserted(tx, m).latest = tx.latest /\ Upserted(tx, m).log = tx.log
  BY <1>1, UpsertedTables
<1>5. /\ t.rows = tx.rows /\ t.latest = tx.latest /\ t.log = tx.log \cup {m}
      /\ t.static = [tx.static EXCEPT ![m.ship] = new]
  <2>1. t.rows = tx.rows /\ t.latest = tx.latest /\ t.log = tx.log \cup {m}
    BY <1>4 DEF Tables
  <2>2. t.static = Upserted(tx, m).static
    BY <1>4 DEF Tables
  <2>3. Upserted(tx, m).static = [tx.static EXCEPT ![m.ship] = new]
    BY <1>1, <1>3 DEF Tables
  <2> QED
    BY <2>1, <2>2, <2>3
<1>6. /\ t.static[m.ship] = new
      /\ \A s \in Ships \ {m.ship} : t.static[s] = tx.static[s]
  BY <1>1, <1>5 DEF Tables
<1>7. new # NoRow
  <2>1. \A f \in Columns : from(f) \in Nat
    <3>1. row \in StaticRows \cup {NoRow} /\ m.n \in Nat
      BY <1>1 DEF Tables, Messages
    <3> QED
      BY <3>1 DEF StaticRows
  <2>2. [f \in Columns |-> from(f)] \in [Columns -> Nat]
    BY <2>1
  <2>3. new \in StaticRows
    BY <1>1, <2>2 DEF StaticRows
  <2> QED
    BY <2>3, WriterAssumption
<1>8. Stamped(t, stamp)
  <2>1. new.at = stamp
    OBVIOUS
  <2> HIDE DEF new
  <2>2. \A s \in Ships : t.static[s] # NoRow => t.static[s].at <= stamp
    BY <1>1, <1>6, <2>1 DEF Good, Stamped
  <2> QED
    BY <1>5, <2>2 DEF Good, Stamped
<1>9. Keeps(t, wall)
  BY <1>5 DEF Good, Keeps, Reports, Statics
<1>10. Heard(t)
  <2>1. \A s : WithPosition(t.log, s) = WithPosition(tx.log, s)
    BY <1>5 DEF WithPosition, Statics
  <2> QED
    BY <1>5, <2>1 DEF Good, Heard
<1>11. StaticHeard(t)
  <2>1. SUFFICES ASSUME NEW s \in Ships, NEW f \in Columns, NEW o \in NewestOf(Carrying(t, s, f))
                 PROVE  t.static[s] # NoRow /\ t.static[s].from[f] = o.n
    BY DEF StaticHeard
  <2>2. \A p \in NewestOf(Carrying(tx, s, f)) :
            tx.static[s] # NoRow /\ tx.static[s].from[f] = p.n
    BY DEF Good, StaticHeard
  <2>3. CASE m.ship = s /\ m.kind \in Carriers(f)
    <3>1. Carrying(t, s, f) = Carrying(tx, s, f) \cup {m}
      BY <1>5, <2>3 DEF Carrying
    <3>2. \A p \in Carrying(tx, s, f) : p.n \in Int /\ p.n <= count
      BY <1>1, Stamps DEF Carrying, Sound
    <3>3. o = m
      <4>1. NewestOf(Carrying(tx, s, f) \cup {m}) \subseteq {m}
        BY <1>1, <3>2 DEF NewestOf
      <4> QED
        BY <3>1, <4>1
    <3>4. new.from[f] = m.n
      BY <2>3, SetsWhatItCarries
    <3> HIDE DEF new
    <3> QED
      BY <1>6, <1>7, <2>3, <3>3, <3>4
  <2>4. CASE ~(m.ship = s /\ m.kind \in Carriers(f))
    <3>1. Carrying(t, s, f) = Carrying(tx, s, f)
      BY <1>5, <2>4 DEF Carrying
    <3>2. tx.static[s] # NoRow /\ tx.static[s].from[f] = o.n
      BY <2>2, <3>1
    <3>3. CASE m.ship # s
      BY <1>6, <3>2, <3>3
    <3>4. CASE m.ship = s
      <4>1. f \notin Sets(m.kind)
        BY <2>4, <3>4, SetsWhatItCarries
      <4>2. new.from[f] = tx.static[s].from[f]
        BY <3>2, <3>4, <4>1
      <4> HIDE DEF new
      <4> QED
        BY <1>6, <1>7, <3>2, <3>4, <4>2
    <3> QED
      BY <3>3, <3>4
  <2> QED
    BY <2>3, <2>4
<1> QED
  BY <1>8, <1>9, <1>10, <1>11 DEF Good

LEMMA UndisturbedWrite ==
    ASSUME WriterInv, Undisturbed, NEW ship \in Ships, NEW kind \in Kinds, Write(ship, kind)
    PROVE  Undisturbed'
<1> DEFINE m == [n |-> count + 1, ship |-> ship, kind |-> kind, at |-> stamp]
<1>1. SUFFICES ASSUME settings = 0 PROVE Good(tx', stamp, wall)
  BY DEF Undisturbed, Write, clocks
<1>2. /\ pc = "writing" /\ stamp <= wall /\ Good(tx, stamp, wall)
      /\ tx' = [(IF kind \in Reports THEN Inserted(tx, m) ELSE Upserted(tx, m)) EXCEPT !.log = @ \cup {m}]
  BY <1>1 DEF Undisturbed, Write
<1>3. m \in Messages /\ m.n = count + 1 /\ m.at = stamp /\ m.kind = kind
  BY WriterAssumption DEF Messages, WriterInv, TypeOK
<1>4. CASE kind \in Reports
  <2>1. m \in Rows
    BY <1>4 DEF Rows, WriterInv, TypeOK
  <2>2. tx' = [Inserted(tx, m) EXCEPT !.log = @ \cup {m}]
    BY <1>2, <1>4
  <2> HIDE DEF m
  <2> QED
    BY <1>2, <1>3, <1>4, <2>1, <2>2, ReportHeard
<1>5. CASE kind \notin Reports
  <2>1. kind \in Statics
    BY <1>5, WriterAssumption
  <2>2. tx' = [Upserted(tx, m) EXCEPT !.log = @ \cup {m}]
    BY <1>2, <1>5
  <2> HIDE DEF m
  <2> QED
    BY <1>2, <1>3, <2>1, <2>2, StaticIsHeard
<1> QED
  BY <1>4, <1>5

\* No report of the last 24 hours is old enough to be deleted.
LEMMA UndisturbedPrune == WriterInv /\ Undisturbed /\ PruneChunk => Undisturbed'
<1> SUFFICES ASSUME WriterInv, Undisturbed, PruneChunk, settings = 0 PROVE Undisturbed'
  BY PruneTables DEF Undisturbed
<1>1. /\ db \in Tables /\ wall \in Int /\ cutoff \in Int /\ Retention \in Nat
      /\ Good(db, wall, wall) /\ cutoff <= wall - Retention /\ wall' = wall
  BY PruneTables, WriterAssumption DEF WriterInv, TypeOK, Undisturbed
<1>2. Stamped(db', wall)
  BY <1>1, PruneTables DEF Good, Stamped
<1>3. Heard(db') /\ StaticHeard(db')
  BY <1>1, PruneTables DEF Good, Heard, StaticHeard, Carrying
<1>4. Keeps(db', wall)
  <2>1. SUFFICES ASSUME NEW m \in db.log, m.kind \in Reports, wall - m.at <= Retention
                 PROVE  m \in db'.rows
    BY PruneTables DEF Keeps
  <2>2. m \in db.rows /\ m.at \in Int
    BY <1>1, <2>1, Stamps DEF Good, Keeps
  <2>3. ~(m.at < cutoff)
    BY <1>1, <2>1, <2>2
  <2> QED
    BY <2>2, <2>3, PruneTables
<1> QED
  BY <1>1, <1>2, <1>3, <1>4, PruneTables DEF Undisturbed, Good, EndPrune

LEMMA UndisturbedNext == WriterInv /\ Undisturbed /\ [Next]_vars => Undisturbed'
<1> SUFFICES ASSUME WriterInv, Undisturbed, [Next]_vars PROVE Undisturbed'
  OBVIOUS
<1>0. /\ db \in Tables /\ tx \in Tables /\ wall \in Int /\ stamp \in Int
      /\ pc # "writing" => tx = db
      /\ settings \in Nat
  BY WriterAssumption DEF WriterInv, TypeOK
<1>1. CASE BeginBatch
  <2>1. settings = 0 => Good(db, wall, wall)
    BY DEF Undisturbed
  <2> QED
    BY <1>0, <1>1, <2>1 DEF BeginBatch, clocks, Undisturbed
<1>2. CASE Commit
  <2>1. settings = 0 => Good(tx, wall, wall)
    BY <1>0, <1>2, GoodLater DEF Undisturbed, Commit
  <2>2. db' = tx /\ wall' = wall /\ settings' = settings /\ pc' = "committed"
    BY <1>2 DEF Commit, clocks
  <2>3. settings' = 0 => Good(db', wall', wall')
    BY <2>1, <2>2
  <2> QED
    BY <2>2, <2>3 DEF Undisturbed
<1>3. CASE NotYet \/ BeginPrune \/ Down
  <2>1. /\ db' = db /\ wall' = wall /\ settings' = settings
        /\ pc' \in {"ready", "pruning", "closed"}
        /\ pc' = "pruning" => cutoff' = wall - Retention
    BY <1>3 DEF NotYet, BeginPrune, Down, clocks
  <2>2. wall - Retention <= wall - Retention
    BY <1>0, WriterAssumption
  <2>3. settings' = 0 => Good(db', wall', wall')
    BY <2>1 DEF Undisturbed
  <2> QED
    BY <2>1, <2>2, <2>3 DEF Undisturbed
<1>4. CASE Tick
  <2>1. settings = 0 => Good(db, wall + 1, wall + 1)
    BY <1>0, GoodLater DEF Undisturbed
  <2>2. settings = 0 /\ pc = "writing" => Good(tx, stamp, wall + 1) /\ stamp <= wall + 1
    BY <1>0, GoodLater DEF Undisturbed
  <2>3. settings = 0 /\ pc = "pruning" => cutoff <= wall + 1 - Retention
    BY <1>0, WriterAssumption DEF Undisturbed, WriterInv, TypeOK
  <2>4. /\ wall' = wall + 1
        /\ UNCHANGED <<db, tx, pc, stamp, cutoff, settings>>
    BY <1>4 DEF Tick
  <2>5. settings' = 0 => /\ Good(db', wall', wall')
                         /\ pc' = "writing" => stamp' <= wall' /\ Good(tx', stamp', wall')
                         /\ pc' = "pruning" => cutoff' <= wall' - Retention
    <3>1. settings' = 0 => Good(db', wall', wall')
      BY <2>1, <2>4, Zenon
    <3>2. settings' = 0 /\ pc' = "writing" => stamp' <= wall' /\ Good(tx', stamp', wall')
      BY <2>2, <2>4, Zenon
    <3>3. settings' = 0 /\ pc' = "pruning" => cutoff' <= wall' - Retention
      BY <1>0, <2>3, <2>4, WriterAssumption DEF WriterInv, TypeOK
    <3> QED
      BY <3>1, <3>2, <3>3
  <2> QED
    BY <2>5 DEF Undisturbed
<1>5. CASE SetClock
  BY <1>0, <1>5 DEF SetClock, Undisturbed
<1>6. CASE UNCHANGED vars
  BY <1>6 DEF vars, Undisturbed
<1> QED
  BY <1>1, <1>2, <1>3, <1>4, <1>5, <1>6, UndisturbedOpen, UndisturbedWrite, UndisturbedPrune DEF Next

LEMMA AlwaysUndisturbed == ASSUME NoStampsAhead PROVE Spec => []Undisturbed
<1>1. Init => Undisturbed
  BY UndisturbedInit
<1> QED
  BY <1>1, UndisturbedNext, WriterInvariant, PTL DEF Spec

\* sqlite_writer.cpp:130-157.  While nobody sets the clock, latest_positions has the last
\* report with a position of every ship, if what an older version has left is not ahead.
THEOREM LatestWasHeardLast == ASSUME NoStampsAhead PROVE Spec => []LatestIsTheLastHeard
<1>1. Undisturbed => LatestIsTheLastHeard
  BY DEF Undisturbed, Good, Heard, LatestIsTheLastHeard
<1> QED
  BY <1>1, AlwaysUndisturbed, PTL

\* sqlite_writer.cpp:267-298.  While nobody sets the clock, every column of ship_static is
\* from the last message that carries it.
THEOREM StaticDataAreTheNewest == ASSUME NoStampsAhead PROVE Spec => []StaticIsTheNewest
<1>1. Undisturbed => StaticIsTheNewest
  BY DEF Undisturbed, Good, StaticHeard, Carrying, StaticIsTheNewest
<1> QED
  BY <1>1, AlwaysUndisturbed, PTL

\* sqlite_writer.cpp:340-345 and 415-432.  While nobody sets the clock, no report of the last
\* 24 hours is pruned.
THEOREM NoFreshReportIsPruned == ASSUME NoStampsAhead PROVE Spec => []FreshReportsAreKept
<1>1. Undisturbed => FreshReportsAreKept
  BY DEF Undisturbed, Good, Keeps, FreshReportsAreKept
<1> QED
  BY <1>1, AlwaysUndisturbed, PTL

------------------------------------------------------------------------------
(* The reader and the server around it.                                     *)

Places == {"idle", "connected", "called", "locked", "stepping", "collected", "thrown",
           "returning", "throwing", "answered", "failed"}

ARow == [of : Requests \cup {Nothing}, from : Nat]

ACall == [at : Places, request : Requests \cup {Nothing}, since : Nat, rows : Seq(ARow),
          whole : BOOLEAN]

ReaderTypeOK ==
    /\ commits \in Nat
    /\ mutex \in Threads \cup {Nobody}
    /\ bound \in [Statements -> Requests \cup {Nothing}]
    /\ snapshot \in [Statements -> Nat \cup {Nothing}]
    /\ call \in [Threads -> ACall]

Holds(t) == call[t].at \in {"locked", "stepping", "collected", "thrown", "returning", "throwing"}

RowsFrom(t, c) ==
    \A i \in DOMAIN call[t].rows : call[t].rows[i] = [of |-> call[t].request, from |-> c]

\* How far a thread's call has come, and what it can rely on there.
ThreadInv(t) ==
    /\ Holds(t) <=> mutex = t
    /\ call[t].at \notin {"idle", "connected"} =>
         call[t].request \in Requests /\ call[t].since <= commits
    /\ call[t].at \in {"called", "locked"} => call[t].rows = <<>>
    /\ call[t].at = "locked" => snapshot[Statement(t)] = Nothing
    /\ call[t].at = "stepping" =>
         /\ bound[Statement(t)] = call[t].request
         /\ snapshot[Statement(t)] = Nothing => call[t].rows = <<>>
         /\ snapshot[Statement(t)] # Nothing =>
              snapshot[Statement(t)] \in call[t].since .. commits /\ RowsFrom(t, snapshot[Statement(t)])
    /\ call[t].at \in {"collected", "returning", "answered"} =>
         /\ call[t].whole = TRUE
         /\ \E c \in call[t].since .. commits : RowsFrom(t, c)

\* A statement is being read by the thread that has the mutex only.
StatementsInv ==
    \A s \in Statements :
        snapshot[s] # Nothing =>
            \E t \in Threads : mutex = t /\ call[t].at \in {"stepping", "thrown"} /\ s = Statement(t)

ReaderInv == ReaderTypeOK /\ (\A t \in Threads : ThreadInv(t)) /\ StatementsInv

------------------------------------------------------------------------------
LEMMA ReaderInvInit == ApiInit => ReaderInv
<1> SUFFICES ASSUME ApiInit PROVE ReaderInv
  OBVIOUS
<1>1. NoCall \in ACall /\ NoCall.at = "idle"
  BY DEF NoCall, ACall, Places
<1>2. ReaderTypeOK
  BY <1>1 DEF ApiInit, ReaderInit, ReaderTypeOK
<1>3. ASSUME NEW t \in Threads PROVE ThreadInv(t)
  BY <1>1, ReaderAssumption DEF ApiInit, ReaderInit, ThreadInv, Holds
<1> QED
  BY <1>2, <1>3 DEF ApiInit, ReaderInit, ReaderInv, StatementsInv

\* What another thread does while it has the mutex, or without it, is no concern of a
\* thread that has not.
LEMMA OtherThreads ==
    ASSUME ReaderInv, NEW t \in Threads, NEW u \in Threads, u # t,
           call'[u] = call[u], commits' = commits,
           \/ mutex \in {Nobody, t} /\ mutex' \in {Nobody, t}
           \/ UNCHANGED <<mutex, bound, snapshot>>
    PROVE  ThreadInv(u)'
<1>1. ThreadInv(u)
  BY DEF ReaderInv
<1>2. CASE UNCHANGED <<mutex, bound, snapshot>>
  BY <1>1, <1>2 DEF ThreadInv, Holds, RowsFrom, Statement
<1>3. CASE mutex \in {Nobody, t} /\ mutex' \in {Nobody, t}
  <2>1. mutex # u /\ mutex' # u
    BY <1>3, ReaderAssumption
  <2>2. call[u].at \notin {"locked", "stepping", "collected", "thrown", "returning", "throwing"}
    BY <1>1, <2>1 DEF ThreadInv, Holds
  <2> QED
    BY <1>1, <2>1, <2>2 DEF ThreadInv, Holds, RowsFrom
<1> QED
  BY <1>2, <1>3

\* Steps of a thread between its calls, and the call itself.
LEMMA BetweenCalls ==
    ASSUME ReaderInv, NEW t \in Threads, NEW c \in ACall,
           call[t].at \in {"idle", "connected", "answered", "failed"},
           call' = [call EXCEPT ![t] = c],
           \/ c.at \in {"idle", "connected"}
           \/ c.at = "called" /\ c.request \in Requests /\ c.since <= commits /\ c.rows = <<>>,
           UNCHANGED <<commits, mutex, bound, snapshot>>
    PROVE  ReaderInv'
<1>1. call'[t] = c /\ \A u \in Threads : u # t => call'[u] = call[u]
  BY DEF ReaderInv, ReaderTypeOK
<1>2. ReaderTypeOK'
  BY DEF ReaderInv, ReaderTypeOK
<1>3. ThreadInv(t)'
  <2>1. mutex # t
    BY DEF ReaderInv, ThreadInv, Holds
  <2> QED
    BY <1>1, <2>1 DEF ThreadInv, Holds
<1>4. ASSUME NEW u \in Threads, u # t PROVE ThreadInv(u)'
  BY <1>1, <1>4, OtherThreads
<1>5. StatementsInv'
  <2> SUFFICES ASSUME NEW s \in Statements, snapshot'[s] # Nothing
               PROVE  \E u \in Threads :
                         mutex' = u /\ call'[u].at \in {"stepping", "thrown"} /\ s = Statement(u)'
    BY DEF StatementsInv
  <2>1. PICK u \in Threads : mutex = u /\ call[u].at \in {"stepping", "thrown"} /\ s = Statement(u)
    BY DEF ReaderInv, StatementsInv
  <2>2. u # t
    BY <2>1
  <2> QED
    BY <1>1, <2>1, <2>2 DEF Statement
<1> QED
  BY <1>2, <1>3, <1>4, <1>5 DEF ReaderInv

------------------------------------------------------------------------------
\* A step of the thread that has the mutex, or takes it, changes its own call only: it
\* is enough to know what becomes of that call and of the statement it uses.
LEMMA InsideTheLock ==
    ASSUME ReaderInv, NEW t \in Threads, NEW c \in ACall,
           call' = [call EXCEPT ![t] = c],
           commits' = commits,
           mutex \in {Nobody, t}, mutex' \in {Nobody, t},
           bound' \in [Statements -> Requests \cup {Nothing}],
           snapshot' \in [Statements -> Nat \cup {Nothing}],
           ThreadInv(t)',
           \A s \in Statements :
              snapshot'[s] # Nothing =>
                  mutex' = t /\ c.at \in {"stepping", "thrown"} /\ s = StatementOf[c.request]
    PROVE  ReaderInv'
<1>1. call'[t] = c /\ \A u \in Threads : u # t => call'[u] = call[u]
  BY DEF ReaderInv, ReaderTypeOK
<1>2. ReaderTypeOK'
  BY DEF ReaderInv, ReaderTypeOK
<1>3. ASSUME NEW u \in Threads, u # t PROVE ThreadInv(u)'
  BY <1>1, <1>3, OtherThreads
<1>4. StatementsInv'
  BY <1>1 DEF StatementsInv, Statement
<1> QED
  BY <1>2, <1>3, <1>4 DEF ReaderInv

\* What the thread with the mutex knows.
LEMMA TheHolder ==
    ASSUME ReaderInv, NEW t \in Threads, Holds(t)
    PROVE  /\ mutex = t /\ t # Nobody
           /\ call[t] \in ACall /\ call[t].request \in Requests /\ call[t].since <= commits
           /\ Statement(t) \in Statements
           /\ \A s \in Statements : snapshot[s] # Nothing =>
                 call[t].at \in {"stepping", "thrown"} /\ s = Statement(t)
<1>1. mutex = t /\ t # Nobody /\ call[t] \in ACall
  BY ReaderAssumption DEF ReaderInv, ThreadInv, ReaderTypeOK
<1>2. call[t].request \in Requests /\ call[t].since <= commits
  BY DEF ReaderInv, ThreadInv, Holds
<1>3. Statement(t) \in Statements
  BY <1>2, ReaderAssumption DEF Statement
<1>4. ASSUME NEW s \in Statements, snapshot[s] # Nothing
      PROVE  call[t].at \in {"stepping", "thrown"} /\ s = Statement(t)
  <2>1. PICK u \in Threads : mutex = u /\ call[u].at \in {"stepping", "thrown"} /\ s = Statement(u)
    BY <1>4 DEF ReaderInv, StatementsInv
  <2> QED
    BY <1>1, <2>1
<1> QED
  BY <1>1, <1>2, <1>3, <1>4

LEMMA LockKeeps ==
    ASSUME ReaderInv, NEW t \in Threads, Lock(t)
    PROVE  ReaderInv'
<1> DEFINE c == [call[t] EXCEPT !.at = "locked"]
<1>1. /\ call[t].at = "called" /\ mutex = Nobody /\ mutex' = t /\ call' = [call EXCEPT ![t] = c]
      /\ UNCHANGED <<commits, bound, snapshot>>
  BY DEF Lock, Goes
<1>2. call[t] \in ACall /\ ThreadInv(t)
  BY DEF ReaderInv, ReaderTypeOK
<1>3. c \in ACall /\ c.at = "locked" /\ c.request = call[t].request /\ c.rows = call[t].rows
      /\ c.since = call[t].since
  BY <1>2 DEF ACall, Places
<1>4. call'[t] = c
  BY <1>1 DEF ReaderInv, ReaderTypeOK
<1>5. \A s \in Statements : snapshot[s] = Nothing
  BY <1>1, ReaderAssumption DEF ReaderInv, StatementsInv
<1>6. ThreadInv(t)'
  <2>1. c.request \in Requests /\ c.since <= commits /\ c.rows = <<>>
    BY <1>1, <1>2, <1>3 DEF ThreadInv
  <2>2. StatementOf[c.request] \in Statements
    BY <2>1, ReaderAssumption
  <2> QED
    BY <1>1, <1>3, <1>4, <1>5, <2>1, <2>2 DEF ThreadInv, Holds, Statement
<1> HIDE DEF c
<1> QED
  BY <1>1, <1>3, <1>5, <1>6, InsideTheLock DEF ReaderInv, ReaderTypeOK

LEMMA BindKeeps ==
    ASSUME ReaderInv, NEW t \in Threads, Bind(t)
    PROVE  ReaderInv'
<1> DEFINE c == [call[t] EXCEPT !.at = "stepping"]
<1>1. /\ call[t].at = "locked" /\ call' = [call EXCEPT ![t] = c]
      /\ UNCHANGED <<commits, mutex, snapshot>>
  BY DEF Bind, Goes
<1>2. /\ call[t] \in ACall /\ ThreadInv(t) /\ Holds(t)
      /\ bound \in [Statements -> Requests \cup {Nothing}]
  BY <1>1 DEF ReaderInv, ReaderTypeOK, Holds
<1>3. c \in ACall /\ c.at = "stepping" /\ c.request = call[t].request /\ c.rows = call[t].rows
      /\ c.since = call[t].since
  BY <1>2 DEF ACall, Places
<1>4. call'[t] = c
  BY <1>1 DEF ReaderInv, ReaderTypeOK
<1>5. /\ mutex = t /\ c.request \in Requests /\ c.since <= commits
      /\ Statement(t) \in Statements /\ Statement(t) = StatementOf[c.request]
  BY <1>2, <1>3, TheHolder DEF Statement
<1>6. \A s \in Statements : snapshot[s] = Nothing
  BY <1>1, <1>2, TheHolder
<1>7. bound' = [bound EXCEPT ![Statement(t)] = c.request]
  BY <1>3, <1>5, <1>6 DEF Bind
<1>8. bound' \in [Statements -> Requests \cup {Nothing}] /\ bound'[Statement(t)] = c.request
  BY <1>2, <1>5, <1>7
<1>9. ThreadInv(t)'
  <2>1. c.rows = <<>>
    BY <1>1, <1>2, <1>3 DEF ThreadInv
  <2> QED
    BY <1>1, <1>3, <1>4, <1>5, <1>6, <1>8, <2>1 DEF ThreadInv, Holds, Statement
<1> HIDE DEF c
<1> QED
  BY <1>1, <1>3, <1>5, <1>6, <1>8, <1>9, InsideTheLock DEF ReaderInv, ReaderTypeOK

LEMMA StepRowKeeps ==
    ASSUME ReaderInv, NEW t \in Threads, StepRow(t)
    PROVE  ReaderInv'
<1> DEFINE st   == Statement(t)
           from == IF snapshot[st] = Nothing THEN commits ELSE snapshot[st]
           row  == [of |-> bound[st], from |-> from]
           all  == Append(call[t].rows, row)
<1>1. /\ call[t].at = "stepping" /\ call' = [call EXCEPT ![t] = [call[t] EXCEPT !.rows = all]]
      /\ snapshot' = [snapshot EXCEPT ![st] = from]
      /\ UNCHANGED <<commits, mutex, bound>>
  BY DEF StepRow
<1>2. /\ call[t] \in ACall /\ ThreadInv(t) /\ Holds(t)
      /\ snapshot \in [Statements -> Nat \cup {Nothing}]
      /\ commits \in Nat
  BY <1>1 DEF ReaderInv, ReaderTypeOK, Holds
<1>3. /\ mutex = t /\ call[t].request \in Requests /\ call[t].since <= commits
      /\ st \in Statements /\ st = StatementOf[call[t].request]
      /\ \A s \in Statements : snapshot[s] # Nothing => s = st
  BY <1>2, TheHolder DEF Statement
<1>4. /\ bound[st] = call[t].request
      /\ snapshot[st] = Nothing => call[t].rows = <<>>
      /\ snapshot[st] # Nothing =>
           snapshot[st] \in call[t].since .. commits /\ RowsFrom(t, snapshot[st])
  BY <1>1, <1>2 DEF ThreadInv
<1>5. from \in call[t].since .. commits /\ from \in Nat
  BY <1>2, <1>3, <1>4 DEF ACall
<1>6. row \in ARow /\ row = [of |-> call[t].request, from |-> from]
  BY <1>3, <1>4, <1>5 DEF ARow
<1> HIDE DEF row
<1>7. \A i \in DOMAIN call[t].rows : call[t].rows[i] = [of |-> call[t].request, from |-> from]
  BY <1>4 DEF RowsFrom
<1>8. /\ call[t].rows \in Seq(ARow)
      /\ all \in Seq(ARow)
      /\ \A i \in DOMAIN all :
            all[i] = [of |-> call[t].request, from |-> from]
  BY <1>2, <1>6, <1>7 DEF ACall
<1>9. PICK c \in ACall, f \in Nat, s0 \in Statements :
         /\ c = [call[t] EXCEPT !.rows = all] /\ f = from /\ s0 = st
         /\ c.at = "stepping" /\ c.request = call[t].request
         /\ c.rows = all /\ c.since = call[t].since
  <2> DEFINE d == [call[t] EXCEPT !.rows = all]
  <2>1. /\ d \in ACall /\ d.at = "stepping" /\ d.request = call[t].request
        /\ d.rows = all /\ d.since = call[t].since
    <3> HIDE DEF all
    <3> QED
      BY <1>1, <1>2, <1>8 DEF ACall
  <2> HIDE DEF d, all, from, st
  <2> QED
    BY <1>3, <1>5, <2>1 DEF d
<1> HIDE DEF st, from, all
<1>10. call' = [call EXCEPT ![t] = c] /\ call'[t] = c /\ snapshot'[s0] = f
  BY <1>1, <1>2, <1>3, <1>9 DEF ReaderInv, ReaderTypeOK
<1>11. snapshot' \in [Statements -> Nat \cup {Nothing}]
       /\ \A s \in Statements : snapshot'[s] # Nothing => s = s0
  BY <1>1, <1>2, <1>3, <1>5, <1>9
<1>12. s0 = StatementOf[c.request] /\ f # Nothing /\ f \in c.since .. commits /\ bound[s0] = c.request
  BY <1>3, <1>4, <1>5, <1>9, ReaderAssumption
<1>13. ThreadInv(t)'
  <2>1. RowsFrom(t, f)'
    BY <1>8, <1>9, <1>10 DEF RowsFrom
  <2>2. Statement(t)' = s0
    BY <1>10, <1>12 DEF Statement
  <2>3. RowsFrom(t, snapshot[s0])'
    BY <2>1, <1>10 DEF RowsFrom
  <2> QED
    BY <1>1, <1>3, <1>9, <1>10, <1>12, <2>2, <2>3 DEF ThreadInv, Holds
<1> QED
  BY <1>1, <1>3, <1>9, <1>10, <1>11, <1>12, <1>13, InsideTheLock DEF ReaderInv, ReaderTypeOK

LEMMA StepDoneKeeps ==
    ASSUME ReaderInv, NEW t \in Threads, StepDone(t)
    PROVE  ReaderInv'
<1>1. /\ call[t].at = "stepping"
      /\ call' = [call EXCEPT ![t] = [call[t] EXCEPT !.at = "collected", !.whole = TRUE]]
      /\ snapshot' = [snapshot EXCEPT ![Statement(t)] = Nothing]
      /\ UNCHANGED <<commits, mutex, bound>>
  BY DEF StepDone
<1>2. /\ call[t] \in ACall /\ ThreadInv(t) /\ Holds(t)
      /\ snapshot \in [Statements -> Nat \cup {Nothing}]
      /\ commits \in Nat
  BY <1>1 DEF ReaderInv, ReaderTypeOK, Holds
<1>3. PICK c \in ACall :
         /\ c = [call[t] EXCEPT !.at = "collected", !.whole = TRUE]
         /\ c.at = "collected" /\ c.whole = TRUE /\ c.request = call[t].request
         /\ c.rows = call[t].rows /\ c.since = call[t].since
  <2> DEFINE d == [call[t] EXCEPT !.at = "collected", !.whole = TRUE]
  <2>1. /\ d \in ACall
        /\ d.at = "collected" /\ d.whole = TRUE /\ d.request = call[t].request
        /\ d.rows = call[t].rows /\ d.since = call[t].since
    BY <1>2 DEF ACall, Places
  <2> HIDE DEF d
  <2> QED
    BY <2>1 DEF d
<1>4. call' = [call EXCEPT ![t] = c] /\ call'[t] = c
  BY <1>1, <1>3 DEF ReaderInv, ReaderTypeOK
<1>5. /\ mutex = t /\ call[t].request \in Requests /\ call[t].since <= commits
      /\ Statement(t) \in Statements
      /\ \A s \in Statements : snapshot[s] # Nothing => s = Statement(t)
  BY <1>2, TheHolder
<1>6. snapshot' \in [Statements -> Nat \cup {Nothing}] /\ \A s \in Statements : snapshot'[s] = Nothing
  BY <1>1, <1>2, <1>5
<1>7. \E k \in c.since .. commits :
         \A i \in DOMAIN c.rows : c.rows[i] = [of |-> c.request, from |-> k]
  <2>1. CASE snapshot[Statement(t)] = Nothing
    <3>1. c.rows = <<>>
      BY <1>1, <1>2, <1>3, <2>1 DEF ThreadInv
    <3>2. commits \in c.since .. commits
      BY <1>2, <1>3, <1>5 DEF ACall
    <3> QED
      BY <3>1, <3>2
  <2>2. CASE snapshot[Statement(t)] # Nothing
    BY <1>1, <1>2, <1>3, <2>2 DEF ThreadInv, RowsFrom
  <2> QED
    BY <2>1, <2>2
<1>8. ThreadInv(t)'
  <2>1. \E k \in call'[t].since .. commits' : RowsFrom(t, k)'
    BY <1>1, <1>4, <1>7 DEF RowsFrom
  <2> QED
    BY <1>1, <1>3, <1>4, <1>5, <2>1 DEF ThreadInv, Holds
<1> QED
  BY <1>1, <1>4, <1>5, <1>6, <1>8, InsideTheLock DEF ReaderInv, ReaderTypeOK

LEMMA StepFailsKeeps ==
    ASSUME ReaderInv, NEW t \in Threads, StepFails(t)
    PROVE  ReaderInv'
<1>1. /\ call[t].at = "stepping" /\ call' = [call EXCEPT ![t] = [call[t] EXCEPT !.at = "thrown"]]
      /\ UNCHANGED <<commits, mutex, bound, snapshot>>
  BY DEF StepFails, Goes
<1>2. call[t] \in ACall /\ Holds(t)
  BY <1>1 DEF ReaderInv, ReaderTypeOK, Holds
<1>3. PICK c \in ACall :
         /\ c = [call[t] EXCEPT !.at = "thrown"]
         /\ c.at = "thrown" /\ c.request = call[t].request /\ c.since = call[t].since
  <2> DEFINE d == [call[t] EXCEPT !.at = "thrown"]
  <2>1. /\ d \in ACall
        /\ d.at = "thrown" /\ d.request = call[t].request /\ d.since = call[t].since
    BY <1>2 DEF ACall, Places
  <2> HIDE DEF d
  <2> QED
    BY <2>1 DEF d
<1>4. call' = [call EXCEPT ![t] = c] /\ call'[t] = c
  BY <1>1, <1>3 DEF ReaderInv, ReaderTypeOK
<1>5. /\ mutex = t /\ call[t].request \in Requests /\ call[t].since <= commits
      /\ \A s \in Statements : snapshot[s] # Nothing => s = StatementOf[c.request]
  BY <1>2, <1>3, TheHolder DEF Statement
<1>6. ThreadInv(t)'
  BY <1>1, <1>3, <1>4, <1>5 DEF ThreadInv, Holds
<1> QED
  BY <1>1, <1>3, <1>4, <1>5, <1>6, InsideTheLock DEF ReaderInv, ReaderTypeOK

LEMMA ResetKeeps ==
    ASSUME ReaderInv, NEW t \in Threads, Reset(t)
    PROVE  ReaderInv'
<1>1. /\ call[t].at \in {"collected", "thrown"}
      /\ call' = [call EXCEPT ![t] =
                     [call[t] EXCEPT !.at = IF call[t].at = "collected" THEN "returning"
                                                                        ELSE "throwing"]]
      /\ snapshot' = [snapshot EXCEPT ![Statement(t)] = Nothing]
      /\ UNCHANGED <<commits, mutex, bound>>
  BY DEF Reset, Goes
<1>2. /\ call[t] \in ACall /\ ThreadInv(t) /\ Holds(t)
      /\ snapshot \in [Statements -> Nat \cup {Nothing}]
  BY <1>1 DEF ReaderInv, ReaderTypeOK, Holds
<1>3. PICK c \in ACall :
         /\ c = [call[t] EXCEPT !.at = IF call[t].at = "collected" THEN "returning"
                                                                     ELSE "throwing"]
         /\ c.at \in {"returning", "throwing"} /\ (c.at = "returning" => call[t].at = "collected")
         /\ c.whole = call[t].whole /\ c.request = call[t].request
         /\ c.rows = call[t].rows /\ c.since = call[t].since
  <2> DEFINE d == [call[t] EXCEPT !.at = IF call[t].at = "collected" THEN "returning"
                            ELSE "throwing"]
  <2>1. /\ d \in ACall
        /\ d.at \in {"returning", "throwing"} /\ (d.at = "returning" => call[t].at = "collected")
        /\ d.whole = call[t].whole /\ d.request = call[t].request
        /\ d.rows = call[t].rows /\ d.since = call[t].since
    BY <1>1, <1>2 DEF ACall, Places
  <2> HIDE DEF d
  <2> QED
    BY <2>1 DEF d
<1>4. call' = [call EXCEPT ![t] = c] /\ call'[t] = c
  BY <1>1, <1>3 DEF ReaderInv, ReaderTypeOK
<1>5. /\ mutex = t /\ call[t].request \in Requests /\ call[t].since <= commits
      /\ Statement(t) \in Statements
      /\ \A s \in Statements : snapshot[s] # Nothing => s = Statement(t)
  BY <1>2, TheHolder
<1>6. snapshot' \in [Statements -> Nat \cup {Nothing}] /\ \A s \in Statements : snapshot'[s] = Nothing
  BY <1>1, <1>2, <1>5
<1>7. ThreadInv(t)'
  <2>1. CASE c.at = "returning"
    <3>1. call[t].whole = TRUE /\ \E k \in call[t].since .. commits : RowsFrom(t, k)
      BY <1>2, <1>3, <2>1 DEF ThreadInv
    <3>2. \E k \in call'[t].since .. commits' : RowsFrom(t, k)'
      BY <1>1, <1>3, <1>4, <3>1 DEF RowsFrom
    <3> QED
      BY <1>1, <1>3, <1>4, <1>5, <2>1, <3>1, <3>2 DEF ThreadInv, Holds
  <2>2. CASE c.at = "throwing"
    BY <1>1, <1>3, <1>4, <1>5, <2>2 DEF ThreadInv, Holds
  <2> QED
    BY <1>3, <2>1, <2>2
<1> QED
  BY <1>1, <1>4, <1>5, <1>6, <1>7, InsideTheLock DEF ReaderInv, ReaderTypeOK

LEMMA UnlockKeeps ==
    ASSUME ReaderInv, NEW t \in Threads, Unlock(t)
    PROVE  ReaderInv'
<1>1. /\ call[t].at \in {"returning", "throwing"}
      /\ call' = [call EXCEPT ![t] =
                     [call[t] EXCEPT !.at = IF call[t].at = "returning" THEN "answered" ELSE "failed"]]
      /\ mutex' = Nobody
      /\ UNCHANGED <<commits, bound, snapshot>>
  BY DEF Unlock, Goes
<1>2. call[t] \in ACall /\ ThreadInv(t) /\ Holds(t)
  BY <1>1 DEF ReaderInv, ReaderTypeOK, Holds
<1>3. PICK c \in ACall :
         /\ c = [call[t] EXCEPT !.at = IF call[t].at = "returning" THEN "answered" ELSE "failed"]
         /\ c.at \in {"answered", "failed"} /\ (c.at = "answered" => call[t].at = "returning")
         /\ c.whole = call[t].whole /\ c.request = call[t].request
         /\ c.rows = call[t].rows /\ c.since = call[t].since
  <2> DEFINE d == [call[t] EXCEPT !.at = IF call[t].at = "returning" THEN "answered"
                            ELSE "failed"]
  <2>1. /\ d \in ACall
        /\ d.at \in {"answered", "failed"} /\ (d.at = "answered" => call[t].at = "returning")
        /\ d.whole = call[t].whole /\ d.request = call[t].request
        /\ d.rows = call[t].rows /\ d.since = call[t].since
    BY <1>1, <1>2 DEF ACall, Places
  <2> HIDE DEF d
  <2> QED
    BY <2>1 DEF d
<1>4. call' = [call EXCEPT ![t] = c] /\ call'[t] = c
  BY <1>1, <1>3 DEF ReaderInv, ReaderTypeOK
<1>5. /\ mutex = t /\ t # Nobody /\ call[t].request \in Requests /\ call[t].since <= commits
      /\ \A s \in Statements : snapshot[s] = Nothing
  BY <1>1, <1>2, TheHolder
<1>6. ThreadInv(t)'
  <2>1. CASE c.at = "answered"
    <3>1. call[t].whole = TRUE /\ \E k \in call[t].since .. commits : RowsFrom(t, k)
      BY <1>2, <1>3, <2>1 DEF ThreadInv
    <3>2. \E k \in call'[t].since .. commits' : RowsFrom(t, k)'
      BY <1>1, <1>3, <1>4, <3>1 DEF RowsFrom
    <3> QED
      BY <1>1, <1>3, <1>4, <1>5, <2>1, <3>1, <3>2 DEF ThreadInv, Holds
  <2>2. CASE c.at = "failed"
    BY <1>1, <1>3, <1>4, <1>5, <2>2 DEF ThreadInv, Holds
  <2> QED
    BY <1>3, <2>1, <2>2
<1> QED
  BY <1>1, <1>4, <1>5, <1>6, InsideTheLock DEF ReaderInv, ReaderTypeOK

\* The pipeline may commit at any time: what has been read stays what it was.
LEMMA CommitKeeps ==
    ASSUME ReaderInv, PipelineCommits
    PROVE  ReaderInv'
<1>1. /\ commits' = commits + 1 /\ commits \in Nat /\ UNCHANGED <<mutex, bound, snapshot, call>>
  BY DEF PipelineCommits, ReaderInv, ReaderTypeOK
<1>2. ASSUME NEW t \in Threads PROVE ThreadInv(t)'
  <2>1. ThreadInv(t) /\ call[t].since \in Nat
    BY DEF ReaderInv, ReaderTypeOK, ACall
  <2>2. \A c \in call[t].since .. commits : c \in call'[t].since .. commits'
    BY <1>1, <2>1
  <2>3. \A c \in call[t].since .. commits : RowsFrom(t, c) => RowsFrom(t, c)'
    BY <1>1 DEF RowsFrom
  <2>4. RowsFrom(t, snapshot[Statement(t)]) => RowsFrom(t, snapshot[Statement(t)])'
    BY <1>1 DEF RowsFrom, Statement
  <2> QED
    BY <1>1, <2>1, <2>2, <2>3, <2>4 DEF ThreadInv, Holds, Statement
<1> QED
  BY <1>1, <1>2 DEF ReaderInv, ReaderTypeOK, StatementsInv, Statement

------------------------------------------------------------------------------
LEMMA ReaderIdle == ASSUME ReaderInv, UNCHANGED readerVars PROVE ReaderInv'
<1>1. ReaderTypeOK' /\ StatementsInv'
  BY DEF readerVars, ReaderInv, ReaderTypeOK, StatementsInv, Statement
<1>2. ASSUME NEW t \in Threads PROVE ThreadInv(t)'
  BY DEF readerVars, ReaderInv, ThreadInv, Holds, RowsFrom, Statement
<1> QED
  BY <1>1, <1>2 DEF ReaderInv

\* The threads of the pool around their calls.
LEMMA PoolKeeps ==
    ASSUME ReaderInv, NEW t \in Threads,
           TakeJob(t) \/ HandleRequest(t) \/ BadRequest(t) \/ Respond(t) \/ HangUp(t)
    PROVE  ReaderInv'
<1>1. call[t] \in ACall /\ commits \in Nat
  BY DEF ReaderInv, ReaderTypeOK
<1>2. NoCall \in ACall /\ NoCall.rows = <<>>
  BY DEF NoCall, ACall, Places
<1>3. CASE TakeJob(t) \/ HangUp(t)
  <2>1. PICK at \in {"idle", "connected"} :
           /\ call[t].at \in {"idle", "connected"} /\ call' = [call EXCEPT ![t].at = at]
           /\ UNCHANGED <<commits, mutex, bound, snapshot>>
    BY <1>3 DEF TakeJob, HangUp, Goes
  <2> DEFINE c == [call[t] EXCEPT !.at = at]
  <2>2. c \in ACall /\ c.at = at
    BY <1>1 DEF ACall, Places
  <2>3. call' = [call EXCEPT ![t] = c]
    BY <2>1
  <2> HIDE DEF c
  <2> QED
    BY <2>1, <2>2, <2>3, BetweenCalls
<1>4. CASE HandleRequest(t)
  <2> DEFINE c(request) == [at |-> "called", request |-> request, since |-> commits,
                            rows |-> <<>>, whole |-> FALSE]
  <2>1. PICK request \in Requests :
           /\ call' = [call EXCEPT ![t] = c(request)]
           /\ call[t].at = "connected"
           /\ UNCHANGED <<commits, mutex, bound, snapshot>>
    BY <1>4 DEF HandleRequest, Call
  <2>2. /\ c(request) \in ACall /\ c(request).at = "called" /\ c(request).request \in Requests
        /\ c(request).since <= commits /\ c(request).rows = <<>>
    BY <1>1, <2>1 DEF ACall, Places
  <2> HIDE DEF c
  <2> QED
    BY <2>1, <2>2, BetweenCalls
<1>5. CASE BadRequest(t)
  BY <1>5, ReaderIdle DEF BadRequest
<1>6. CASE Respond(t)
  <2> DEFINE c == [NoCall EXCEPT !.at = "connected"]
  <2>1. c \in ACall /\ c.at = "connected"
    BY <1>2 DEF ACall, Places
  <2>2. /\ call[t].at \in {"answered", "failed"} /\ call' = [call EXCEPT ![t] = c]
        /\ UNCHANGED <<commits, mutex, bound, snapshot>>
    BY <1>6 DEF Respond
  <2> HIDE DEF c
  <2> QED
    BY <2>1, <2>2, BetweenCalls
<1> QED
  BY <1>3, <1>4, <1>5, <1>6

LEMMA ReaderInvNext == ReaderInv /\ [ApiNext]_apiVars => ReaderInv'
<1> SUFFICES ASSUME ReaderInv, [ApiNext]_apiVars PROVE ReaderInv'
  OBVIOUS
<1>1. ASSUME NEW t \in Threads, ReaderStep(t) PROVE ReaderInv'
  BY <1>1, LockKeeps, BindKeeps, StepRowKeeps, StepDoneKeeps, StepFailsKeeps, ResetKeeps, UnlockKeeps
  DEF ReaderStep
<1>2. CASE \/ Signal \/ Stop \/ JoinServer
           \/ Listen \/ Accept \/ AcceptFails \/ AcceptLoopEnds \/ PoolJoined \/ UNCHANGED apiVars
  BY <1>2, ReaderIdle DEF Signal, Stop, JoinServer, Listen, Accept, AcceptFails, AcceptLoopEnds,
                    PoolJoined, apiVars, readerVars
<1> QED
  BY <1>1, <1>2, PoolKeeps, CommitKeeps DEF ApiNext

\* position_reader.cpp:75-139.  Whoever is between bind and reset holds the lock, and the
\* statements nobody is using are reset.
THEOREM ReaderInvariant == ApiSpec => []ReaderInv
  BY ReaderInvInit, ReaderInvNext, PTL DEF ApiSpec

\* position_reader.cpp:94-120: the answer of a call is one snapshot of the database,
\* taken while the call lasted and selected with the call's own parameters.
THEOREM AnswersAreSnapshotsOfTheDatabase == ApiSpec => []AnswersAreSnapshots
<1>1. ReaderInv => AnswersAreSnapshots
  <2> SUFFICES ASSUME ReaderInv, NEW t \in Threads, call[t].at = "answered"
               PROVE  /\ call[t].whole
                      /\ \A i, j \in DOMAIN call[t].rows : call[t].rows[i] = call[t].rows[j]
                      /\ \A i \in DOMAIN call[t].rows :
                             /\ call[t].rows[i].of = call[t].request
                             /\ call[t].rows[i].from \in call[t].since .. commits
    BY DEF AnswersAreSnapshots
  <2>1. call[t].whole = TRUE /\ \E c \in call[t].since .. commits : RowsFrom(t, c)
    BY DEF ReaderInv, ThreadInv
  <2>2. PICK c \in call[t].since .. commits : RowsFrom(t, c)
    BY <2>1
  <2>3. \A i \in DOMAIN call[t].rows : call[t].rows[i] = [of |-> call[t].request, from |-> c]
    BY <2>2 DEF RowsFrom
  <2> QED
    BY <2>1, <2>2, <2>3
<1> QED
  BY <1>1, ReaderInvariant, PTL

------------------------------------------------------------------------------
\* Where the server thread is when connections are open and calls in progress.
ServerInv ==
    /\ jobs \in Nat
    /\ server = "starting" \/ server = "returned" =>
         jobs = 0 /\ \A t \in Threads : call[t].at = "idle"
    /\ main = "exited" => server = "returned"

\* When main has exited, no thread is in a request.
NothingInProgress ==
    main = "exited" =>
        /\ \A t \in Threads : ~InRequest(t)
        /\ \A s \in Statements : snapshot[s] = Nothing

\* main.cpp:157-162 and httplib's ThreadPool::shutdown: main joins the server thread,
\* which joins the pool, so the process does not end under a request, nor with a
\* statement open on the connection.
THEOREM NothingInProgressAtExit == ApiSpec => []NothingInProgress
<1>1. ApiInit => ServerInv
  BY DEF ApiInit, ReaderInit, NoCall, ServerInv
<1>2. ReaderInv /\ ServerInv /\ [ApiNext]_apiVars => ServerInv'
  <2> SUFFICES ASSUME ReaderInv, ServerInv, [ApiNext]_apiVars PROVE ServerInv'
    OBVIOUS
  <2> USE DEF ServerInv
  <2>1. CASE Signal \/ Stop \/ JoinServer
    <3>1. UNCHANGED <<jobs, server, call>> /\ (main' = "exited" => main = "exited" \/ server = "returned")
      BY <2>1 DEF Signal, Stop, JoinServer, readerVars
    <3> QED
      BY <3>1
  <2>2. CASE Listen \/ Accept \/ AcceptFails \/ AcceptLoopEnds \/ PoolJoined
    BY <2>2 DEF Listen, Accept, AcceptFails, AcceptLoopEnds, PoolJoined, readerVars
  <2>3. ASSUME NEW t \in Threads,
               \/ TakeJob(t) \/ HandleRequest(t) \/ BadRequest(t) \/ Respond(t) \/ HangUp(t)
               \/ ReaderStep(t) /\ UNCHANGED serverVars
        PROVE  ServerInv'
    <3>1. jobs' = jobs \/ (jobs > 0 /\ jobs' = jobs - 1)
      BY <2>3 DEF TakeJob, HandleRequest, BadRequest, Respond, HangUp, serverVars
    <3>2. UNCHANGED <<main, server>>
      BY <2>3 DEF TakeJob, HandleRequest, BadRequest, Respond, HangUp, serverVars
    <3>3. ~(server = "starting" \/ server = "returned") \/ BadRequest(t)
      BY <2>3 DEF TakeJob, HandleRequest, BadRequest, Respond, HangUp, ReaderStep, Lock, Bind,
                  StepRow, StepDone, StepFails, Reset, Unlock
    <3>4. BadRequest(t) => UNCHANGED <<jobs, call>>
      BY DEF BadRequest, readerVars
    <3> QED
      BY <3>1, <3>2, <3>3, <3>4
  <2>4. CASE PipelineCommits /\ UNCHANGED serverVars
    BY <2>4 DEF PipelineCommits, serverVars
  <2>5. CASE UNCHANGED apiVars
    BY <2>5 DEF apiVars
  <2> QED
    BY <2>1, <2>2, <2>3, <2>4, <2>5 DEF ApiNext
<1>3. ReaderInv /\ ServerInv => NothingInProgress
  <2> SUFFICES ASSUME ReaderInv, ServerInv, main = "exited"
               PROVE  /\ \A t \in Threads : ~InRequest(t)
                      /\ \A s \in Statements : snapshot[s] = Nothing
    BY DEF NothingInProgress
  <2>1. \A t \in Threads : call[t].at = "idle"
    BY DEF ServerInv
  <2> QED
    BY <2>1 DEF ReaderInv, InRequest, StatementsInv
<1> QED
  BY <1>1, <1>2, <1>3, ReaderInvariant, PTL DEF ApiSpec
=============================================================================
