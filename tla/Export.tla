------------------------------- MODULE Export --------------------------------
(****************************************************************************)
(* /export beside /result.  GetExportData asks the database twice, first    *)
(* for the newest matches of the room or of its server, then for the rows of*)
(* the players in them; /export takes no room lock, so results may arrive   *)
(* at any time, and only the store's mutex keeps the two answers together.  *)
(*                                                                          *)
(* MatchLedger counts the rows of the matches table; here they have their   *)
(* ids, in whose order their times are too (one clock).                     *)
(* Spectators, who are asked for in the same way, and the layout of the     *)
(* files are left out.                                                      *)
(****************************************************************************)
EXTENDS MatchLedger, Sequences

CONSTANTS
    Guild(_),  \* the server of a room
    Limits     \* the numbers of matches asked for: 1 to 5000 in the program

ASSUME LimitsPositive == Limits \subseteq Nat \ {0}

VARIABLES
    log,     \* the matches table, by id
    export   \* what an /export has read so far, or Nothing

exportVars == <<vars, log, export>>

ExportInit ==
    /\ Init
    /\ log = <<>>
    /\ export = Nothing

BetweenQueries == export # Nothing /\ export.stats = Nothing

\* Mutant: every query takes the mutex for itself.
MutexPerQuery == tx = Nothing

\* No transaction is open, and no export is between its queries.
MutexFree == tx = Nothing /\ ~BetweenQueries

\* WHERE guild_id = ?, and for a room AND channel_id = ?
InScope(result, room, scope) ==
    IF scope = "room" THEN result.room = room ELSE Guild(result.room) = Guild(room)

\* ORDER BY created_at DESC, id DESC LIMIT ?
Newest(ids, limit) == {i \in ids : Cardinality({j \in ids : j > i}) < limit}

SelectMatches(room, scope, limit) ==
    /\ MutexFree /\ export = Nothing
    /\ LET ids == Newest({i \in DOMAIN log : InScope(log[i], room, scope)}, limit)
       IN  export' = [matches |-> [i \in ids |-> log[i]], stats |-> Nothing,
                      whole |-> ids = DOMAIN log]
    /\ UNCHANGED <<vars, log>>

\* The users in the matches that were read.
Named(results) == UNION {Played(results[i]) : i \in DOMAIN results}

SelectStats ==
    /\ tx = Nothing /\ BetweenQueries
    /\ export' = [export EXCEPT !.stats = [u \in Named(export.matches) |-> stats[u]]]
    /\ UNCHANGED <<vars, log>>

\* The files are sent, or a query or the building of the files has failed.
Finish ==
    /\ export # Nothing
    /\ export' = Nothing
    /\ UNCHANGED <<vars, log>>

ExportNext ==
    \/ /\ \E r \in Rooms : Draw(r) \/ \E winner \in Sides : Begin(r, winner)
       /\ MutexFree
       /\ UNCHANGED <<log, export>>
    \/ \E u \in Users : UpdatePlayerStat(u) /\ UNCHANGED <<log, export>>
    \/ InsertMatch /\ UNCHANGED <<log, export>>
    \/ Commit /\ log' = Append(log, tx.result) /\ UNCHANGED export
    \/ Rollback /\ UNCHANGED <<log, export>>
    \/ \E r \in Rooms, scope \in {"room", "all"}, limit \in Limits : SelectMatches(r, scope, limit)
    \/ SelectStats
    \/ Finish

ExportSpec == ExportInit /\ [][ExportNext]_exportVars

-----------------------------------------------------------------------------
(* Properties.                                                              *)

NewPlayer == [rating |-> 0, wins |-> 0, losses |-> 0]

\* A player's row after the matches up to each id, one after the other.
Rows(results, u) ==
    LET row[i \in Nat] ==
            IF i = 0 THEN NewPlayer
            ELSE IF i \in DOMAIN results /\ u \in Played(results[i])
            THEN Credited(row[i - 1], u \in Winners(results[i]))
            ELSE row[i - 1]
    IN  row

Replayed(results, u) == Rows(results, u)[Len(log)]

\* An export is of one moment: playing the exported matches again, oldest first,
\* gives exactly the exported rows, ratings with their limits included, where the
\* scope and the limit have left no match out; and where they have, no row is
\* behind the matches that are shown beside it.
ExportIsOneMoment ==
    export # Nothing /\ export.stats # Nothing =>
        \A u \in DOMAIN export.stats :
            LET row    == export.stats[u]
                played == Replayed(export.matches, u)
            IN  /\ export.whole => row = played
                /\ row.wins >= played.wins /\ row.losses >= played.losses
==============================================================================
