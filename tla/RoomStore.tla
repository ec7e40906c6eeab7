------------------------------ MODULE RoomStore ------------------------------
(****************************************************************************)
(* The persistent state of ONE room (a Discord channel) and the operations  *)
(* of SQLiteStore on it.  Every operation of the store runs under the       *)
(* store's mutex and reads and rewrites the room's row in one upsert, so    *)
(* each is a single atomic step here; a row that does not exist and a row   *)
(* that is empty cannot be told apart by any caller, so both are the empty  *)
(* room.                                                                    *)
(*                                                                          *)
(* Abstracted: names, XPower, pause reasons, seeds, times, the onboarding   *)
(* flag and the per-player counters, which no property here tells apart.    *)
(* A re-join of a member only rewrites those, so it is a stuttering step.   *)
(****************************************************************************)
EXTENDS Matches

CONSTANTS
    PauseLengths,  \* the match counts a /pause may ask for
    StoreFaults    \* TRUE when a read or a write of the database may fail

ASSUME PausesPositive == PauseLengths \subseteq Nat \ {0}
ASSUME FaultsBoolean  == StoreFaults \in BOOLEAN

VARIABLES
    members,   \* RoomState.Players, by user id
    pause,     \* PauseRemaining of each member; 0 for everybody else
    last,      \* LastResult with LastPlayersSnapshot, or None
    previous   \* PreviousState: the undo point, or None

store == <<members, pause, last, previous>>

Checkpoint == [members : SUBSET Users, pause : [Users -> Nat],
               last : Match \cup {None}]

ASSUME NoneIsNoCheckpoint == None \notin Checkpoint

NobodyPaused == [u \in Users |-> 0]

Unpaused == {u \in members : pause[u] = 0}

CurrentState == [members |-> members, pause |-> pause, last |-> last]

\* The callers of List, SnapshotRoomState, SaveLastMatch, DecrementPauses and
\* ResetRoom cannot see an error: a fault leaves the old value in place, or
\* answers an empty list, and the command goes on.
Written(new, old) == IF StoreFaults THEN {new, old} ELSE {new}

Listed(players) == IF StoreFaults THEN {players, {}} ELSE {players}

StoreInit ==
    /\ members = {}
    /\ pause = NobodyPaused
    /\ last = None
    /\ previous = None

\* The type of the room's row; only members have a pause to count down.
StoreTypeOK ==
    /\ members \in SUBSET Users
    /\ pause \in [Users -> Nat]
    /\ \A u \in Users \ members : pause[u] = 0
    /\ last \in Match \cup {None}
    /\ previous \in Checkpoint \cup {None}
    /\ previous # None => \A u \in Users \ previous.members : previous.pause[u] = 0

StoreJoin(u) ==
    /\ u \notin members
    /\ Cardinality(members) < MaxPlayers
    /\ members' = members \cup {u}
    /\ UNCHANGED <<pause, last, previous>>

StoreLeave(u) ==
    /\ u \in members
    /\ members' = members \ {u}
    /\ pause' = [pause EXCEPT ![u] = 0]
    /\ UNCHANGED <<last, previous>>

StoreSetPause(u, matches) ==
    /\ u \in members
    /\ pause' = [pause EXCEPT ![u] = matches]
    /\ UNCHANGED <<members, last, previous>>

StoreResume(u) == StoreSetPause(u, 0)

\* Mutant: the guard on players who are not paused is missing.
StoreDecrementUnguarded ==
    /\ pause' = [u \in Users |-> pause[u] - 1]
    /\ UNCHANGED <<members, last, previous>>

StoreDecrementPauses ==
    /\ pause' \in Written([u \in Users |-> IF pause[u] > 0 THEN pause[u] - 1 ELSE 0],
                          pause)
    /\ UNCHANGED <<members, last, previous>>

StoreSaveLastMatch(match) ==
    /\ last' \in Written(match, last)
    /\ UNCHANGED <<members, pause, previous>>

\* Mutant: an undo point that is already there is kept.
StoreSnapshotOnce ==
    /\ previous' = IF previous = None THEN CurrentState ELSE previous
    /\ UNCHANGED <<members, pause, last>>

StoreSnapshot ==
    /\ previous' \in Written(CurrentState, previous)
    /\ UNCHANGED <<members, pause, last>>

\* Mutant: whoever joined since the undo point stays in the room.
StoreUndoKeepsJoiners ==
    /\ previous # None
    /\ members' = members \cup previous.members
    /\ pause' = previous.pause
    /\ last' = previous.last
    /\ previous' = None

\* Mutant: PreviousState is not cleared in the restored state.
StoreUndoKeepsPoint ==
    /\ previous # None
    /\ members' = previous.members
    /\ pause' = previous.pause
    /\ last' = previous.last
    /\ UNCHANGED previous

StoreUndo ==
    /\ previous # None
    /\ members' = previous.members
    /\ pause' = previous.pause
    /\ last' = previous.last
    /\ previous' = None

StoreReset ==
    \/ /\ members' = {}
       /\ pause' = NobodyPaused
       /\ last' = None
       /\ previous' = None
    \/ StoreFaults /\ UNCHANGED store
==============================================================================
