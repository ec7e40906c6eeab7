-------------------------------- MODULE RoomRow ------------------------------
(****************************************************************************)
(* What both stores promise of a whole room row, as values: RoomStore's     *)
(* fields together with the counters of SaveLastMatch and the onboarding    *)
(* flag, the undo point with its own copy of each, and the copy a caller    *)
(* has been handed by GetState.  Every operation is one step; only GetState *)
(* changes the caller's copy, and only SnapshotRoomState, UndoRoomState,    *)
(* ReplaceState and ResetRoom the undo point.                               *)
(****************************************************************************)
EXTENDS RoomStore

VARIABLES
    tally,  \* SpectatorHistory and ParticipationCounts: a record per user
    shown,  \* OnboardingShown
    saved,  \* tally and shown of the undo point, or None
    copy    \* the state a caller of GetState holds, or None

rowVars == <<members, pause, last, previous, tally, shown, saved, copy>>

NoTally == [u \in Users |-> [sat |-> 0, played |-> 0]]

\* SaveLastMatch: one more turn for the spectators, one more match for the teams.
Counted(t, match) ==
    LET teams      == match.teamA \cup match.teamB
        spectators == match.players \ teams
    IN  [u \in Users |->
            [sat    |-> IF u \in spectators THEN t[u].sat + 1 ELSE t[u].sat,
             played |-> IF u \in teams THEN t[u].played + 1 ELSE t[u].played]]

RowInit ==
    /\ StoreInit
    /\ tally = NoTally
    /\ shown = FALSE
    /\ saved = None
    /\ copy = None

RowJoin(u)  == StoreJoin(u) /\ UNCHANGED <<tally, shown, saved, copy>>
RowLeave(u) == StoreLeave(u) /\ UNCHANGED <<tally, shown, saved, copy>>

RowSetPause(u, matches) ==
    StoreSetPause(u, matches) /\ UNCHANGED <<tally, shown, saved, copy>>

RowDecrementPauses == StoreDecrementPauses /\ UNCHANGED <<tally, shown, saved, copy>>

\* The first join of a room marks the hint as shown.
RowMarkOnboarding ==
    /\ shown' = TRUE
    /\ UNCHANGED <<store, tally, saved, copy>>

RowSaveLastMatch(match) ==
    /\ StoreSaveLastMatch(match)
    /\ \/ last' = match /\ tally' = Counted(tally, match)
       \/ StoreFaults /\ last' = last /\ tally' = tally
    /\ UNCHANGED <<shown, saved, copy>>

RowSnapshot ==
    /\ StoreSnapshot
    /\ \/ previous' = CurrentState /\ saved' = [tally |-> tally, shown |-> shown]
       \/ StoreFaults /\ previous' = previous /\ saved' = saved
    /\ UNCHANGED <<tally, shown, copy>>

RowUndo ==
    /\ StoreUndo
    /\ tally' = saved.tally
    /\ shown' = saved.shown
    /\ saved' = None
    /\ UNCHANGED copy

RowReset ==
    /\ StoreReset
    /\ \/ tally' = NoTally /\ shown' = FALSE /\ saved' = None
       \/ StoreFaults /\ UNCHANGED <<tally, shown, saved>>
    /\ UNCHANGED copy

CurrentRow ==
    [members |-> members, pause |-> pause, last |-> last, tally |-> tally,
     shown |-> shown, previous |-> previous, saved |-> saved]

\* GetState: the SQLite store leaves the undo point out of the answer.
RowGetState ==
    /\ copy' \in {CurrentRow, [CurrentRow EXCEPT !.previous = None, !.saved = None]}
    /\ UNCHANGED <<store, tally, shown, saved>>

\* ReplaceState, with the copy the caller holds.
RowReplaceState ==
    /\ copy # None
    /\ members' = copy.members
    /\ pause' = copy.pause
    /\ last' = copy.last
    /\ tally' = copy.tally
    /\ shown' = copy.shown
    /\ previous' = copy.previous
    /\ saved' = copy.saved
    /\ UNCHANGED copy

RowNext ==
    \/ \E u \in Users : RowJoin(u) \/ RowLeave(u)
    \/ \E u \in Users, matches \in PauseLengths \cup {0} : RowSetPause(u, matches)
    \/ RowDecrementPauses
    \/ RowMarkOnboarding
    \/ \E players \in SUBSET Users : \E match \in Lineups(players) : RowSaveLastMatch(match)
    \/ RowSnapshot
    \/ RowUndo
    \/ RowReset
    \/ RowGetState
    \/ RowReplaceState

RowSpec == RowInit /\ [][RowNext]_rowVars
==============================================================================
