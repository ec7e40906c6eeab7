------------------------------ MODULE MemoryStore ----------------------------
(****************************************************************************)
(* One room of MemoryStore, with its references.  RoomState is a value that *)
(* every operation copies out of and back into the map of rooms, but the    *)
(* list of players and the maps of counters behind it are shared by all who *)
(* hold the same reference, and Join, Leave, SetPause, DecrementPauses and  *)
(* SaveLastMatch write into them in place.  The room itself, its undo point *)
(* and a state handed out by GetState (with its own undo point) each hold   *)
(* references; the copies that snapshotFromState, stateFromSnapshot,        *)
(* copySnapshot, GetState and ReplaceState make keep them apart.            *)
(*                                                                          *)
(* Each operation runs under the store's mutex, so it is one step.  The two *)
(* maps of counters are made, copied and written together and are one cell. *)
(* LastResult and LastPlayersSnapshot are only ever replaced, by copies, and*)
(* are values.                                                              *)
(****************************************************************************)
EXTENDS Matches, Functions

CONSTANTS
    Addresses,     \* where lists and maps can be allocated
    Nil,           \* the nil slice and the nil map
    PauseLengths,  \* the match counts a /pause may ask for
    MaxSteps       \* bound: how many operations a run makes

ASSUME NilIsNoAddress == Nil \notin Addresses

\* Go never runs out of addresses: any five leave another one.
ASSUME EnoughAddresses ==
    \A a, b, c, d, e \in Addresses \cup {Nil} :
        \E f \in Addresses : f \notin {a, b, c, d, e}

ASSUME PausesNatural == PauseLengths \subseteq Nat

\* What a state holds of its own, and where the rest of it is.
Holder == [players : Addresses \cup {Nil}, counts : Addresses \cup {Nil},
           last : Match \cup {None}, shown : BOOLEAN]

\* The same as values.
Tallies     == [Users -> [sat : Nat, played : Nat]]
Checkpoints == [members : SUBSET Users, pause : [Users -> Nat], last : Match \cup {None}]
Counters    == [tally : Tallies, shown : BOOLEAN]
Rows        == [members : SUBSET Users, pause : [Users -> Nat], last : Match \cup {None},
                tally : Tallies, shown : BOOLEAN,
                previous : Checkpoints \cup {None}, saved : Counters \cup {None}]

ASSUME NoneIsNoRow ==
    None \notin Holder /\ None \notin Checkpoints /\ None \notin Counters /\ None \notin Rows

VARIABLES
    lists,       \* Address -> the players in the slice there, and their pauses
    maps,        \* Address -> the counters in the maps there
    room,        \* rooms[key], without its undo point
    undo,        \* PreviousState, or None
    reader,      \* the RoomState a caller got from GetState, or None
    readerUndo,  \* the PreviousState of that one, or None
    steps        \* operations made

vars == <<lists, maps, room, undo, reader, readerUndo, steps>>

EmptyList == [members |-> {}, pause |-> [u \in Users |-> 0]]
EmptyMap  == [u \in Users |-> [sat |-> 0, played |-> 0]]

ListAt(a) == IF a = Nil THEN EmptyList ELSE lists[a]
MapAt(a)  == IF a = Nil THEN EmptyMap ELSE maps[a]

NewRoom == [players |-> Nil, counts |-> Nil, last |-> None, shown |-> FALSE]

ListsHeld == {h.players : h \in {room, undo, reader, readerUndo} \ {None}}
MapsHeld  == {h.counts : h \in {room, undo, reader, readerUndo} \ {None}}

\* The next allocations.
NewList   == CHOOSE a \in Addresses : a \notin ListsHeld
OtherList == CHOOSE a \in Addresses : a \notin ListsHeld \cup {NewList}
NewMap    == CHOOSE a \in Addresses : a \notin MapsHeld
OtherMap  == CHOOSE a \in Addresses : a \notin MapsHeld \cup {NewMap}

Init ==
    /\ lists = [a \in Addresses |-> EmptyList]
    /\ maps = [a \in Addresses |-> EmptyMap]
    /\ room = NewRoom
    /\ undo = None
    /\ reader = None
    /\ readerUndo = None
    /\ steps = 0

Step == steps < MaxSteps /\ steps' = steps + 1

Here == ListAt(room.players)

\* Element assignment, and the shifting append of Leave: whoever holds the
\* reference sees the new list.
WriteInPlace(list) ==
    /\ lists' = [lists EXCEPT ![room.players] = list]
    /\ UNCHANGED <<maps, room, undo, reader, readerUndo>>

-----------------------------------------------------------------------------

\* append: into the spare room behind the slice, or into a new array.
Join(u) ==
    /\ Step
    /\ u \notin Here.members
    /\ Cardinality(Here.members) < MaxPlayers
    /\ LET longer == [Here EXCEPT !.members = @ \cup {u}]
       IN  \/ room.players # Nil /\ WriteInPlace(longer)
           \/ /\ lists' = [lists EXCEPT ![NewList] = longer]
              /\ room' = [room EXCEPT !.players = NewList]
              /\ UNCHANGED <<maps, undo, reader, readerUndo>>

Leave(u) ==
    /\ Step
    /\ u \in Here.members
    /\ WriteInPlace([members |-> Here.members \ {u}, pause |-> [Here.pause EXCEPT ![u] = 0]])

SetPause(u, matches) ==
    /\ Step
    /\ u \in Here.members
    /\ WriteInPlace([Here EXCEPT !.pause[u] = matches])

\* With nobody paused it writes the room back as it is.
DecrementPauses ==
    /\ Step
    /\ \E u \in Here.members : Here.pause[u] > 0
    /\ WriteInPlace([Here EXCEPT !.pause =
            [u \in Users |-> IF @[u] > 0 THEN @[u] - 1 ELSE 0]])

TryMarkOnboardingShown ==
    /\ Step
    /\ ~room.shown
    /\ room' = [room EXCEPT !.shown = TRUE]
    /\ UNCHANGED <<lists, maps, undo, reader, readerUndo>>

Counted(counts, match) ==
    LET teams      == match.teamA \cup match.teamB
        spectators == match.players \ teams
    IN  [u \in Users |->
            [sat    |-> counts[u].sat + (IF u \in spectators THEN 1 ELSE 0),
             played |-> counts[u].played + (IF u \in teams THEN 1 ELSE 0)]]

\* The players of a match come from the list, without the paused ones for a
\* /next, or for a /reroll from the last match.  The bot reads the list and saves
\* the match in two calls, between which the list may change (RoomCommands); no
\* property here relates the two, so the list is the one there is.
Drawable ==
    {Here.members, {u \in Here.members : Here.pause[u] = 0}}
    \cup (IF room.last = None THEN {} ELSE {room.last.players})

\* The maps are made when the room has none, and written in place.
SaveLastMatch(match) ==
    /\ Step
    /\ LET m == IF room.counts = Nil THEN NewMap ELSE room.counts
       IN  /\ maps' = [maps EXCEPT ![m] = Counted(MapAt(room.counts), match)]
           /\ room' = [room EXCEPT !.last = match, !.counts = m]
    /\ UNCHANGED <<lists, undo, reader, readerUndo>>

-----------------------------------------------------------------------------
(* Copies.  copyPlayers and the two functions for the maps answer nil for   *)
(* what is empty.                                                           *)

\* Mutant: the copy shares the maps.
CopySharingMaps(h, l, m) ==
    [h EXCEPT !.players = IF ListAt(@) = EmptyList THEN Nil ELSE l]

\* Mutant: the copy shares the list.
CopySharingList(h, l, m) ==
    [h EXCEPT !.counts = IF MapAt(@) = EmptyMap THEN Nil ELSE m]

CopyAt(h, l, m) ==
    [h EXCEPT !.players = IF ListAt(@) = EmptyList THEN Nil ELSE l,
              !.counts  = IF MapAt(@) = EmptyMap THEN Nil ELSE m]

FillOne(h) ==
    /\ lists' = [lists EXCEPT ![NewList] = ListAt(h.players)]
    /\ maps' = [maps EXCEPT ![NewMap] = MapAt(h.counts)]

FillBoth(h, g) ==
    /\ lists' = [lists EXCEPT ![NewList] = ListAt(h.players), ![OtherList] = ListAt(g.players)]
    /\ maps' = [maps EXCEPT ![NewMap] = MapAt(h.counts), ![OtherMap] = MapAt(g.counts)]

SnapshotRoomState ==
    /\ Step
    /\ undo' = CopyAt(room, NewList, NewMap)
    /\ FillOne(room)
    /\ UNCHANGED <<room, reader, readerUndo>>

\* Mutant: the counters are not part of the undo point.
UndoKeepsCounters ==
    /\ Step
    /\ undo # None
    /\ room' = [CopyAt(undo, NewList, NewMap) EXCEPT !.counts = room.counts]
    /\ undo' = None
    /\ lists' = [lists EXCEPT ![NewList] = ListAt(undo.players)]
    /\ UNCHANGED <<maps, reader, readerUndo>>

UndoRoomState ==
    /\ Step
    /\ undo # None
    /\ room' = CopyAt(undo, NewList, NewMap)
    /\ undo' = None
    /\ FillOne(undo)
    /\ UNCHANGED <<reader, readerUndo>>

ResetRoom ==
    /\ Step
    /\ room' = NewRoom
    /\ undo' = None
    /\ UNCHANGED <<lists, maps, reader, readerUndo>>

GetState ==
    /\ Step
    /\ reader' = CopyAt(room, NewList, NewMap)
    /\ \/ undo = None /\ readerUndo' = None /\ FillOne(room)
       \/ /\ undo # None
          /\ readerUndo' = CopyAt(undo, OtherList, OtherMap)
          /\ FillBoth(room, undo)
    /\ UNCHANGED <<room, undo>>

\* ReplaceState, with the state the caller got from GetState.
ReplaceState ==
    /\ Step
    /\ reader # None
    /\ room' = CopyAt(reader, NewList, NewMap)
    /\ \/ readerUndo = None /\ undo' = None /\ FillOne(reader)
       \/ /\ readerUndo # None
          /\ undo' = CopyAt(readerUndo, OtherList, OtherMap)
          /\ FillBoth(reader, readerUndo)
    /\ UNCHANGED <<reader, readerUndo>>

Next ==
    \/ \E u \in Users : Join(u) \/ Leave(u)
    \/ \E u \in Users, matches \in PauseLengths \cup {0} : SetPause(u, matches)
    \/ DecrementPauses
    \/ TryMarkOnboardingShown
    \/ \E players \in Drawable : \E match \in Lineups(players) : SaveLastMatch(match)
    \/ SnapshotRoomState
    \/ UndoRoomState
    \/ ResetRoom
    \/ GetState
    \/ ReplaceState

Spec == Init /\ [][Next]_vars

-----------------------------------------------------------------------------
(* Properties.                                                              *)

Apart(a, b) == a # b \/ a = Nil

SharesNothing(h, g) ==
    h # None /\ g # None => Apart(h.players, g.players) /\ Apart(h.counts, g.counts)

\* No two of the room, its undo point, a caller's state and that one's undo
\* point hold the same list or the same maps: what one writes in place, under
\* the mutex or after having let go of it, no other can see.
NoSharing ==
    /\ SharesNothing(room, undo)
    /\ SharesNothing(room, reader)
    /\ SharesNothing(room, readerUndo)
    /\ SharesNothing(undo, reader)
    /\ SharesNothing(undo, readerUndo)
    /\ SharesNothing(reader, readerUndo)

\* The counters belong to the matches the same state knows of: without a match
\* they are zero; whoever plays in the last match has been counted as a player,
\* whoever sits it out as a spectator; and the sum of the matches played is a
\* number of whole matches, in none of which anybody is counted twice.
Fits(counts, match) ==
    LET teams == match.teamA \cup match.teamB
        total == SumFunctionOnSet([u \in Users |-> counts[u].played], Users)
    IN  IF match = None THEN counts = EmptyMap
        ELSE /\ \A u \in teams : counts[u].played > 0
             /\ \A u \in match.players \ teams : counts[u].sat > 0
             /\ \E n \in 1 .. total :
                    /\ total = n * 2 * TeamSize
                    /\ \A u \in Users : counts[u].played + counts[u].sat <= n

\* In the room, in the undo point and in a caller's copy, whatever was undone,
\* rerolled, replaced or reset since.
CountsFitMatches ==
    \A h \in {room, undo, reader, readerUndo} \ {None} : Fits(MapAt(h.counts), h.last)

CheckpointOf(h) ==
    IF h = None THEN None
    ELSE [members |-> ListAt(h.players).members, pause |-> ListAt(h.players).pause,
          last |-> h.last]

CountersOf(h) ==
    IF h = None THEN None ELSE [tally |-> MapAt(h.counts), shown |-> h.shown]

RowOf(h, g) ==
    IF h = None THEN None
    ELSE [members |-> ListAt(h.players).members, pause |-> ListAt(h.players).pause,
          last |-> h.last, tally |-> MapAt(h.counts), shown |-> h.shown,
          previous |-> CheckpointOf(g), saved |-> CountersOf(g)]

Row == INSTANCE RoomRow WITH
    StoreFaults <- FALSE,
    members  <- Here.members,
    pause    <- Here.pause,
    last     <- room.last,
    previous <- CheckpointOf(undo),
    tally    <- MapAt(room.counts),
    shown    <- room.shown,
    saved    <- CountersOf(undo),
    copy     <- RowOf(reader, readerUndo)

\* Seen as values, every operation does to the room, to the undo point and to
\* the callers' copies exactly what RoomRow says, the one the SQLite store also
\* follows: an undo brings back the room as it was, whatever was joined, paused,
\* counted or handed out in between.
ImplementsRoomRow == Row!RowSpec
==============================================================================
