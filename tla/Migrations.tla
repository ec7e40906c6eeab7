------------------------------ MODULE Migrations -----------------------------
(****************************************************************************)
(* Start-up on a database that may be new, from before the migrations, or   *)
(* migrated in part: SQLiteStore.init goes through the files in order, and  *)
(* applyMigration runs the statements of a file and the row that says so in *)
(* one transaction.  Processes can be started side by side on one file.     *)
(* Transactions are deferred: SQLite gives the write lock at the first      *)
(* statement that changes something, to one process at a time, and does not *)
(* let it commit while another has read in an open transaction.  Whoever is *)
(* refused, or meets any other error, ends itself.                          *)
(*                                                                          *)
(* The schema is the set of tables and columns there are; of the rows, one  *)
(* player's rating is followed, which the old schema kept in rating and the *)
(* new one keeps in rating_delta.                                           *)
(****************************************************************************)
EXTENDS Integers, Sequences, FiniteSets

CONSTANTS
    Processes,  \* processes that may be started on the file
    Databases,  \* what the file may hold at first: a record [db, earned]
    Ratings,    \* values of a rating
    MaxFaults,  \* bound: crashes and failing statements
    None        \* no transaction, no owner

ASSUME FaultsNatural == MaxFaults \in Nat
ASSUME NoneIsNobody  == None \notin Processes

VARIABLES
    db,      \* the committed database: schema, versions, rating, delta
    tx,      \* what the writing transaction has made of it, or None
    owner,   \* the process that has the write lock, or None
    reading, \* processes that have read in an open transaction
    pc,      \* where each process is
    at,      \* the migration each process is at
    stmt,    \* the statement of it that comes next
    earned,  \* the rating the player should have
    faults   \* faults so far

vars == <<db, tx, owner, reading, pc, at, stmt, earned, faults>>

RoomColumns   == {"spectator_history", "previous_state", "participation_counts", "onboarding_shown"}
PlayerColumns == {"rating_delta", "last_played_at"}

Table(name, columns) == [thing |-> name, brings |-> columns]
Column(name)         == [thing |-> name, brings |-> {}]
Backfill             == [thing |-> "backfill", brings |-> {}]

\* migrations/*.sql by name: CREATE TABLE IF NOT EXISTS, ADD COLUMN, UPDATE.
Files == <<
    << Table("room_states", RoomColumns \cup {"last_result_at"}),
       Table("player_stats", PlayerColumns),
       Table("matches", {}),
       Table("room_settings", {}) >>,
    << Column("spectator_history"), Column("previous_state"),
       Column("participation_counts"), Column("onboarding_shown") >>,
    << Column("rating_delta"), Column("last_played_at") >>,
    << Backfill >>,
    << Column("last_result_at") >> >>

Versions == 1 .. Len(Files)

Brought(version) ==
    {s.thing : s \in {Files[version][i] : i \in DOMAIN Files[version]} \ {Backfill}}

Everything == UNION {Brought(v) : v \in Versions}

\* schema_migrations is the versions, and nothing is in it at first; whoever
\* copied the ratings by hand copied all of them.
Contents == [schema : SUBSET Everything, versions : SUBSET Versions, rating : Int, delta : Int]

ASSUME NoneIsNoDatabase    == None \notin Contents
ASSUME RatingsIntegers     == Ratings \subseteq Int
ASSUME DatabasesUnmigrated ==
    \A base \in Databases :
        /\ base.db \in Contents
        /\ base.db.versions = {}
        /\ base.db.rating = base.earned
        /\ base.db.delta \in {0, base.earned}

\* A statement on a database.  A table that is there is left as it is, and so
\* is, the error being ignored, a column.  The backfill comes after the file
\* that brings its column, in the same database.
Executed(s, d) ==
    IF s = Backfill
    THEN [d EXCEPT !.delta = IF @ = 0 /\ d.rating # 0 THEN d.rating ELSE @]
    ELSE IF s.thing \in d.schema THEN d
    ELSE [d EXCEPT !.schema = @ \cup {s.thing} \cup s.brings]

Init ==
    /\ \E base \in Databases : db = base.db /\ earned = base.earned
    /\ tx = None
    /\ owner = None
    /\ reading = {}
    /\ pc = [p \in Processes |-> "down"]
    /\ at = [p \in Processes |-> 1]
    /\ stmt = [p \in Processes |-> 1]
    /\ faults = 0

Goto(p, label) == pc' = [pc EXCEPT ![p] = label]

\* Back to the top: the process is gone, and with it its transaction.
Gone(p) ==
    /\ Goto(p, "down")
    /\ at' = [at EXCEPT ![p] = 1]
    /\ stmt' = [stmt EXCEPT ![p] = 1]
    /\ tx' = IF owner = p THEN None ELSE tx
    /\ owner' = IF owner = p THEN None ELSE owner
    /\ reading' = reading \ {p}
    /\ UNCHANGED <<db, earned>>

\* NewSQLiteStore opens the file and sees to it that schema_migrations is there.
Start(p) ==
    /\ pc[p] = "down"
    /\ Goto(p, "check")
    /\ UNCHANGED <<db, tx, owner, reading, at, stmt, earned, faults>>

Advance(p) == at' = [at EXCEPT ![p] = @ + 1]

\* Mutant: the first migration that was applied ends the loop.
CheckStopsAtApplied(p) ==
    /\ pc[p] = "check" /\ at[p] \in Versions
    /\ \/ at[p] \in db.versions /\ at' = [at EXCEPT ![p] = Len(Files) + 1] /\ UNCHANGED pc
       \/ at[p] \notin db.versions /\ Goto(p, "statement") /\ UNCHANGED at
    /\ UNCHANGED <<db, tx, owner, reading, stmt, earned, faults>>

\* init: has the migration been applied?  Asked outside of any transaction.
Check(p) ==
    /\ pc[p] = "check" /\ at[p] \in Versions
    /\ \/ at[p] \in db.versions /\ Advance(p) /\ UNCHANGED pc
       \/ at[p] \notin db.versions /\ Goto(p, "statement") /\ UNCHANGED at
    /\ UNCHANGED <<db, tx, owner, reading, stmt, earned, faults>>

\* The loop is over and the bot goes on to serve.
Serve(p) ==
    /\ pc[p] = "check" /\ at[p] \notin Versions
    /\ Goto(p, "serving")
    /\ UNCHANGED <<db, tx, owner, reading, at, stmt, earned, faults>>

Statement(p) == Files[at[p]][stmt[p]]

NextStatement(p) ==
    IF stmt[p] < Len(Files[at[p]])
    THEN stmt' = [stmt EXCEPT ![p] = @ + 1] /\ UNCHANGED pc
    ELSE stmt' = [stmt EXCEPT ![p] = 1] /\ Goto(p, "record")

\* The database as the process sees it.
View(p) == IF owner = p THEN tx ELSE db

\* A table or a column that is there already is not written again; an UPDATE
\* asks for the write lock whatever it finds.
Changes(s, d) == s = Backfill \/ s.thing \notin d.schema

Write(p, d) ==
    /\ owner \in {None, p}
    /\ tx' = d
    /\ owner' = p
    /\ reading' = reading \cup {p}

\* The statement is looked at and found to be done already.
Skip(p) ==
    /\ reading' \in {reading, reading \cup {p}}
    /\ UNCHANGED <<tx, owner>>

\* Mutant: a statement that fails is skipped, whatever the error was.
ExecuteIgnoringErrors(p) ==
    /\ pc[p] = "statement"
    /\ \/ /\ Changes(Statement(p), View(p))
          /\ Write(p, Executed(Statement(p), View(p)))
          /\ UNCHANGED faults
       \/ ~Changes(Statement(p), View(p)) /\ Skip(p) /\ UNCHANGED faults
       \/ faults < MaxFaults /\ Skip(p) /\ faults' = faults + 1
    /\ NextStatement(p)
    /\ UNCHANGED <<db, at, earned>>

\* Mutant: a column that is already there is an error like any other.
ExecuteStrictly(p) ==
    /\ pc[p] = "statement"
    /\ \/ /\ Changes(Statement(p), View(p))
          /\ Write(p, Executed(Statement(p), View(p)))
          /\ NextStatement(p)
          /\ UNCHANGED <<db, at, earned>>
       \/ /\ ~Changes(Statement(p), View(p))
          /\ IF at[p] > 1 THEN Gone(p)
             ELSE Skip(p) /\ NextStatement(p) /\ UNCHANGED <<db, at, earned>>
    /\ UNCHANGED faults

\* applyMigration: the next statement.
Execute(p) ==
    /\ pc[p] = "statement"
    /\ \/ /\ Changes(Statement(p), View(p))
          /\ Write(p, Executed(Statement(p), View(p)))
       \/ ~Changes(Statement(p), View(p)) /\ Skip(p)
    /\ NextStatement(p)
    /\ UNCHANGED <<db, at, earned, faults>>

Applied(p, d) == [d EXCEPT !.versions = @ \cup {at[p]}]

\* Mutant: the row goes into the database at once.
RecordOutside(p) ==
    /\ pc[p] = "record" /\ owner \in {None, p}
    /\ IF at[p] \in View(p).versions THEN Gone(p)
       ELSE /\ Write(p, Applied(p, View(p)))
            /\ db' = Applied(p, db)
            /\ Goto(p, "commit")
            /\ UNCHANGED <<at, stmt, earned>>
    /\ UNCHANGED faults

\* The row of schema_migrations; its primary key refuses a second one.
Record(p) ==
    /\ pc[p] = "record" /\ owner \in {None, p}
    /\ IF at[p] \in View(p).versions THEN Gone(p)
       ELSE /\ Write(p, Applied(p, View(p)))
            /\ Goto(p, "commit")
            /\ UNCHANGED <<db, at, stmt, earned>>
    /\ UNCHANGED faults

Commit(p) ==
    /\ pc[p] = "commit" /\ reading = {p}
    /\ db' = tx
    /\ tx' = None
    /\ owner' = None
    /\ reading' = {}
    /\ Goto(p, "check")
    /\ Advance(p)
    /\ UNCHANGED <<stmt, earned, faults>>

\* SQLITE_BUSY: another process writes, or still reads what is to be committed,
\* and start-up is given up.
Refused(p) ==
    /\ \/ /\ pc[p] \in {"check", "statement", "record"}
          /\ owner \notin {None, p}
       \/ pc[p] = "commit" /\ reading # {p}
    /\ Gone(p)
    /\ UNCHANGED faults

\* The process is killed, or meets an error and ends itself.
Fail(p) ==
    /\ pc[p] # "down"
    /\ faults < MaxFaults
    /\ faults' = faults + 1
    /\ Gone(p)

\* updatePlayerStat, in a transaction of its own: both columns get the rating.
RecordResult(p) ==
    /\ pc[p] = "serving" /\ owner = None /\ reading = {}
    /\ \E r \in Ratings :
        /\ db' = [db EXCEPT !.rating = r, !.delta = r]
        /\ earned' = r
    /\ UNCHANGED <<tx, owner, reading, pc, at, stmt, faults>>

StartUp(p) == Check(p) \/ Serve(p) \/ Execute(p) \/ Record(p) \/ Commit(p)

Next == \E p \in Processes :
    Start(p) \/ StartUp(p) \/ Refused(p) \/ Fail(p) \/ RecordResult(p)

\* A process that was started goes on; whether it is started is the operator's.
FairSpec == Init /\ [][Next]_vars /\ \A p \in Processes : WF_vars(StartUp(p))

-----------------------------------------------------------------------------
(* Properties.                                                              *)

\* A bot that serves has every table and column its queries name, whatever the
\* database was, and wherever earlier or parallel starts were cut off.
ServesWholeSchema ==
    \A p \in Processes : pc[p] = "serving" => Everything \subseteq db.schema

\* What schema_migrations says was applied has been, and in the order of the
\* files: no crash leaves a row without its effects, or a gap before it.
RecordedWereApplied ==
    \A v \in db.versions :
        /\ Brought(v) \subseteq db.schema
        /\ 1 .. v \subseteq db.versions
        /\ Backfill \in {Files[v][i] : i \in DOMAIN Files[v]} => db.delta = earned

\* GetPlayerStats answers the rating that was earned, under the old schema or
\* the new: no start takes one back or loses it.
RatingsSurvive == \A p \in Processes : pc[p] = "serving" => db.delta = earned

\* Nobody else is starting.
Alone(p) == \A q \in Processes \ {p} : pc[q] \in {"down", "serving"}

\* Whatever was left half done, a process that is started again whenever it ends
\* gets through start-up, once nothing fails and the others have either done so
\* or been left down: a migration that was cut off, or done by hand, or finished
\* by another process, never stops those that come after.
EventuallyServes ==
    \A p \in Processes :
        []<>(pc[p] # "down") /\ <>[]Alone(p) => []<>(pc[p] = "serving")
==============================================================================
