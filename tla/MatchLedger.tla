----------------------------- MODULE MatchLedger -----------------------------
(****************************************************************************)
(* /result, statement by statement.  RecordMatchResult holds the store's    *)
(* mutex, opens a transaction, reads and rewrites the row of every winner   *)
(* and then of every loser, inserts the match and commits; any statement    *)
(* may fail, which rolls the transaction back, and the process may die.     *)
(* What other statements see, and what survives, is what was committed.     *)
(****************************************************************************)
EXTENDS MatchRecording, Functions

CONSTANTS
    MaxMatches,  \* bound on the recorded matches, for model checking
    Nothing      \* no match on the board, no transaction

ASSUME NothingIsNothing == Nothing \notin Draws

VARIABLES
    board,    \* the match each room shows (RoomState.LastResult)
    tx        \* the open transaction, or Nothing

vars == <<stats, matches, board, tx>>

\* A transaction: the result being recorded, the rows as it sees them, the
\* players it has still to credit and whether the match has been inserted.
Transaction == [result : Result, rows : [Users -> Stat],
                todo : SUBSET Users, inserted : BOOLEAN]

ASSUME NothingIsNoTransaction == Nothing \notin Transaction

Init ==
    /\ RecordingInit
    /\ board = [r \in Rooms |-> Nothing]
    /\ tx = Nothing

Recorded == {result \in Result : matches[result] > 0}

\* Bound: no more than MaxMatches different results, each at most MaxMatches times.
WithinBound(result) ==
    /\ matches[result] < MaxMatches
    /\ Cardinality(Recorded \cup {result}) <= MaxMatches

-----------------------------------------------------------------------------
(* The room: module RoomCommands says when a draw appears or goes away.  It *)
(* writes the room's row, so it waits for the store's mutex.                *)

Draw(r) ==
    /\ tx = Nothing
    /\ \E d \in Draws \cup {Nothing} : board' = [board EXCEPT ![r] = d]
    /\ UNCHANGED <<stats, matches, tx>>

-----------------------------------------------------------------------------
(* RecordMatchResult.                                                       *)

Begin(r, winner) ==
    /\ tx = Nothing
    /\ board[r] # Nothing
    /\ LET result == [room |-> r, draw |-> board[r], winner |-> winner]
       IN  /\ WithinBound(result)
           /\ tx' = [result |-> result, rows |-> stats, todo |-> Played(result),
                     inserted |-> FALSE]
    /\ UNCHANGED <<stats, matches, board>>

\* Mutant: the losers are credited with a win.
UpdatePlayerStatWinsOnly(u) ==
    /\ tx # Nothing
    /\ u \in tx.todo
    /\ tx.todo \cap Winners(tx.result) # {} => u \in Winners(tx.result)
    /\ tx' = [tx EXCEPT !.rows[u] = Credited(@, TRUE),
                        !.todo = @ \ {u}]
    /\ UNCHANGED <<stats, matches, board>>

\* updatePlayerStat: winners first, then losers.
UpdatePlayerStat(u) ==
    /\ tx # Nothing
    /\ u \in tx.todo
    /\ tx.todo \cap Winners(tx.result) # {} => u \in Winners(tx.result)
    /\ tx' = [tx EXCEPT !.rows[u] = Credited(@, u \in Winners(tx.result)),
                        !.todo = @ \ {u}]
    /\ UNCHANGED <<stats, matches, board>>

\* Mutant: the match is inserted, and can be committed, before every player
\* has been credited.
InsertMatchEarly ==
    /\ tx # Nothing
    /\ ~tx.inserted
    /\ tx' = [tx EXCEPT !.inserted = TRUE]
    /\ UNCHANGED <<stats, matches, board>>

InsertMatch ==
    /\ tx # Nothing
    /\ tx.todo = {}
    /\ ~tx.inserted
    /\ tx' = [tx EXCEPT !.inserted = TRUE]
    /\ UNCHANGED <<stats, matches, board>>

Commit ==
    /\ tx # Nothing
    /\ tx.inserted
    /\ stats' = tx.rows
    /\ matches' = [matches EXCEPT ![tx.result] = @ + 1]
    /\ tx' = Nothing
    /\ UNCHANGED board

\* Mutant: the players' rows are written outside the transaction.
RollbackMatchOnly ==
    /\ tx # Nothing
    /\ stats' = tx.rows
    /\ tx' = Nothing
    /\ UNCHANGED <<matches, board>>

\* A failed statement runs the deferred Rollback; a process that dies leaves
\* a journal that SQLite rolls back at the next start.
Rollback ==
    /\ tx # Nothing
    /\ tx' = Nothing
    /\ UNCHANGED <<stats, matches, board>>

-----------------------------------------------------------------------------

Next ==
    \/ \E r \in Rooms : Draw(r)
    \/ \E r \in Rooms, winner \in Sides : Begin(r, winner)
    \/ \E u \in Users : UpdatePlayerStat(u)
    \/ InsertMatch
    \/ Commit
    \/ Rollback

Spec == Init /\ [][Next]_vars

-----------------------------------------------------------------------------
(* Properties.                                                              *)

\* Every variable keeps its type: no sequence of results takes a rating out of
\* its limits, not even inside a transaction.
TypeOK ==
    /\ stats \in [Users -> Stat]
    /\ matches \in [Result -> Nat]
    /\ board \in [Rooms -> Draws \cup {Nothing}]
    /\ tx \in Transaction \cup {Nothing}

\* At every statement the transaction's rows are the committed ones with exactly
\* the players dealt with so far credited, each once; the match is inserted last.
TxConsistent ==
    tx # Nothing =>
        /\ tx.todo \subseteq Played(tx.result)
        /\ tx.rows = CreditedAll(stats, tx.result, Played(tx.result) \ tx.todo)
        /\ tx.inserted => tx.todo = {}

\* The wins and losses of every player are those of the recorded matches, in
\* whatever rooms they were played and whatever failed or crashed in between.
StatsMatchHistory ==
    \A u \in Users :
        /\ stats[u].wins = SumFunctionOnSet(matches, {r \in Recorded : u \in Winners(r)})
        /\ stats[u].losses = SumFunctionOnSet(matches, {r \in Recorded : u \in Losers(r)})

\* The statements of RecordMatchResult implement one atomic recording: the
\* promise of MatchRecording.
ResultsAreAtomic == RecordingSpec
=============================================================================
