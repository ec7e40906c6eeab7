--------------------------- MODULE MemoryStoreProofs -------------------------
(****************************************************************************)
(* Whatever the users, the capacity and the memory: the copies keep the     *)
(* room, its undo point and the states handed out apart, and so writing in  *)
(* place does to each of them what RoomRow says.                            *)
(****************************************************************************)
EXTENDS MemoryStore, InductionTheorems, TLAPS

ListValue == [members : SUBSET Users, pause : [Users -> Nat]]

TypeInv ==
    /\ lists \in [Addresses -> ListValue]
    /\ maps \in [Addresses -> Tallies]
    /\ room \in Holder
    /\ undo \in Holder \cup {None}
    /\ reader \in Holder \cup {None}
    /\ readerUndo \in Holder \cup {None}

IInv == TypeInv /\ NoSharing

\* Where a holder's data are, nowhere for None.
ListOf(h) == IF h = None THEN Nil ELSE h.players
MapOf(h)  == IF h = None THEN Nil ELSE h.counts

\* Nothing that is held is at the address.
ListFree(a) == a # ListOf(room) /\ a # ListOf(undo) /\ a # ListOf(reader) /\ a # ListOf(readerUndo)
MapFree(a)  == a # MapOf(room) /\ a # MapOf(undo) /\ a # MapOf(reader) /\ a # MapOf(readerUndo)

-----------------------------------------------------------------------------
(* Allocation.                                                              *)

LEMMA FiveLeaveOne ==
    ASSUME NEW a \in Addresses \cup {Nil}, NEW b \in Addresses \cup {Nil},
           NEW c \in Addresses \cup {Nil}, NEW d \in Addresses \cup {Nil},
           NEW e \in Addresses \cup {Nil}
    PROVE  \E f \in Addresses : f \notin {a, b, c, d, e}
  BY EnoughAddresses

LEMMA FreshLists ==
    ASSUME TypeInv
    PROVE  /\ NewList \in Addresses /\ OtherList \in Addresses
           /\ ListFree(NewList) /\ ListFree(OtherList) /\ OtherList # NewList
<1>1. /\ ListOf(room) \in Addresses \cup {Nil} /\ ListOf(undo) \in Addresses \cup {Nil}
      /\ ListOf(reader) \in Addresses \cup {Nil} /\ ListOf(readerUndo) \in Addresses \cup {Nil}
  BY DEF TypeInv, Holder, ListOf
<1>2. ListsHeld \subseteq {ListOf(room), ListOf(undo), ListOf(reader), ListOf(readerUndo)}
  BY DEF ListsHeld, ListOf
<1>3. \A a : a \notin ListsHeld /\ a # Nil => ListFree(a)
  BY DEF ListsHeld, ListOf, ListFree
<1>4. NewList \in Addresses /\ NewList \notin ListsHeld
  <2>1. \E a \in Addresses :
            a \notin {ListOf(room), ListOf(undo), ListOf(reader), ListOf(readerUndo), Nil}
    BY <1>1, FiveLeaveOne
  <2>2. \E a \in Addresses : a \notin ListsHeld
    BY <1>2, <2>1
  <2>3. QED
    BY <2>2, Zenon DEF NewList
<1>5. OtherList \in Addresses /\ OtherList \notin ListsHeld \cup {NewList}
  <2>1. \E a \in Addresses :
            a \notin {ListOf(room), ListOf(undo), ListOf(reader), ListOf(readerUndo), NewList}
    BY <1>1, <1>4, FiveLeaveOne
  <2>2. \E a \in Addresses : a \notin ListsHeld \cup {NewList}
    BY <1>2, <2>1
  <2>3. QED
    BY <2>2, Zenon DEF OtherList
<1>6. QED
  BY <1>3, <1>4, <1>5, NilIsNoAddress

LEMMA FreshMaps ==
    ASSUME TypeInv
    PROVE  /\ NewMap \in Addresses /\ OtherMap \in Addresses
           /\ MapFree(NewMap) /\ MapFree(OtherMap) /\ OtherMap # NewMap
<1>1. /\ MapOf(room) \in Addresses \cup {Nil} /\ MapOf(undo) \in Addresses \cup {Nil}
      /\ MapOf(reader) \in Addresses \cup {Nil} /\ MapOf(readerUndo) \in Addresses \cup {Nil}
  BY DEF TypeInv, Holder, MapOf
<1>2. MapsHeld \subseteq {MapOf(room), MapOf(undo), MapOf(reader), MapOf(readerUndo)}
  BY DEF MapsHeld, MapOf
<1>3. \A a : a \notin MapsHeld /\ a # Nil => MapFree(a)
  BY DEF MapsHeld, MapOf, MapFree
<1>4. NewMap \in Addresses /\ NewMap \notin MapsHeld
  <2>1. \E a \in Addresses :
            a \notin {MapOf(room), MapOf(undo), MapOf(reader), MapOf(readerUndo), Nil}
    BY <1>1, FiveLeaveOne
  <2>2. \E a \in Addresses : a \notin MapsHeld
    BY <1>2, <2>1
  <2>3. QED
    BY <2>2, Zenon DEF NewMap
<1>5. OtherMap \in Addresses /\ OtherMap \notin MapsHeld \cup {NewMap}
  <2>1. \E a \in Addresses :
            a \notin {MapOf(room), MapOf(undo), MapOf(reader), MapOf(readerUndo), NewMap}
    BY <1>1, <1>4, FiveLeaveOne
  <2>2. \E a \in Addresses : a \notin MapsHeld \cup {NewMap}
    BY <1>2, <2>1
  <2>3. QED
    BY <2>2, Zenon DEF OtherMap
<1>6. QED
  BY <1>3, <1>4, <1>5, NilIsNoAddress

-----------------------------------------------------------------------------
(* What is not written to is still there.                                   *)

ListKept(a) == a = Nil \/ lists'[a] = lists[a]
MapKept(a)  == a = Nil \/ maps'[a] = maps[a]

LEMMA CheckpointKept ==
    ASSUME UNCHANGED undo, ListKept(ListOf(undo)), MapKept(MapOf(undo))
    PROVE  UNCHANGED <<CheckpointOf(undo), CountersOf(undo)>>
  BY DEF CheckpointOf, CountersOf, ListKept, MapKept, ListOf, MapOf, ListAt, MapAt

LEMMA CopyKept ==
    ASSUME UNCHANGED <<reader, readerUndo>>,
           ListKept(ListOf(reader)), MapKept(MapOf(reader)),
           ListKept(ListOf(readerUndo)), MapKept(MapOf(readerUndo))
    PROVE  UNCHANGED RowOf(reader, readerUndo)
<1>1. UNCHANGED <<CheckpointOf(readerUndo), CountersOf(readerUndo)>>
  BY DEF CheckpointOf, CountersOf, ListKept, MapKept, ListOf, MapOf, ListAt, MapAt
<1>2. reader = None \/ UNCHANGED <<ListAt(reader.players), MapAt(reader.counts)>>
  BY DEF ListKept, MapKept, ListOf, MapOf, ListAt, MapAt
<1>3. QED
  BY <1>1, <1>2 DEF RowOf

LEMMA WriteKeepsOthers ==
    ASSUME IInv, NEW list \in ListValue, room.players \in Addresses, WriteInPlace(list)
    PROVE  /\ IInv'
           /\ Here' = list
           /\ UNCHANGED <<room, MapAt(room.counts), CheckpointOf(undo), CountersOf(undo),
                          RowOf(reader, readerUndo)>>
<1>1. TypeInv'
  BY DEF IInv, TypeInv, WriteInPlace
<1>2. NoSharing'
  BY DEF IInv, NoSharing, SharesNothing, WriteInPlace
<1>3. Here' = list
  BY NilIsNoAddress DEF IInv, TypeInv, WriteInPlace, Here, ListAt
<1>4. ListKept(ListOf(undo)) /\ ListKept(ListOf(reader)) /\ ListKept(ListOf(readerUndo))
  BY NilIsNoAddress, NoneIsNoRow
     DEF IInv, TypeInv, NoSharing, SharesNothing, Apart, WriteInPlace, ListKept, ListOf
<1>5. MapKept(MapOf(undo)) /\ MapKept(MapOf(reader)) /\ MapKept(MapOf(readerUndo))
  BY DEF WriteInPlace, MapKept
<1>6. UNCHANGED <<CheckpointOf(undo), CountersOf(undo), RowOf(reader, readerUndo)>>
  BY <1>4, <1>5, CheckpointKept, CopyKept DEF WriteInPlace
<1>7. UNCHANGED <<room, MapAt(room.counts)>>
  BY DEF WriteInPlace, MapAt
<1>8. QED
  BY <1>1, <1>2, <1>3, <1>6, <1>7 DEF IInv

-----------------------------------------------------------------------------
(* Copies.                                                                  *)

LEMMA CellTypes ==
    ASSUME TypeInv, NEW h \in Holder
    PROVE  ListAt(h.players) \in ListValue /\ MapAt(h.counts) \in Tallies
  BY DEF TypeInv, Holder, ListAt, MapAt, EmptyList, EmptyMap, ListValue, Tallies

LEMMA CopyHolds ==
    ASSUME NEW h \in Holder, NEW c, NEW l \in Addresses, NEW m \in Addresses,
           c = CopyAt(h, l, m),
           lists'[l] = ListAt(h.players), maps'[m] = MapAt(h.counts)
    PROVE  /\ c \in Holder /\ c # None
           /\ c.last = h.last /\ c.shown = h.shown
           /\ ListOf(c) \in {Nil, l} /\ MapOf(c) \in {Nil, m}
           /\ ListAt(c.players)' = ListAt(h.players)
           /\ MapAt(c.counts)' = MapAt(h.counts)
<1>1. /\ c \in Holder
      /\ c.players = (IF ListAt(h.players) = EmptyList THEN Nil ELSE l)
      /\ c.counts = (IF MapAt(h.counts) = EmptyMap THEN Nil ELSE m)
      /\ c.last = h.last /\ c.shown = h.shown
  BY DEF Holder, CopyAt
<1>2. c # None
  BY <1>1, NoneIsNoRow
<1>3. QED
  BY <1>1, <1>2, NilIsNoAddress DEF ListOf, MapOf, ListAt, MapAt, EmptyList, EmptyMap

LEMMA FillOneKeeps ==
    ASSUME TypeInv, NEW h \in Holder, FillOne(h)
    PROVE  /\ lists' \in [Addresses -> ListValue] /\ maps' \in [Addresses -> Tallies]
           /\ lists'[NewList] = ListAt(h.players) /\ maps'[NewMap] = MapAt(h.counts)
           /\ \A a \in Addresses : a # NewList => lists'[a] = lists[a]
           /\ \A a \in Addresses : a # NewMap => maps'[a] = maps[a]
  BY FreshLists, FreshMaps, CellTypes DEF TypeInv, FillOne

LEMMA FillBothKeeps ==
    ASSUME TypeInv, NEW h \in Holder, NEW g \in Holder, FillBoth(h, g)
    PROVE  /\ lists' \in [Addresses -> ListValue] /\ maps' \in [Addresses -> Tallies]
           /\ lists'[NewList] = ListAt(h.players) /\ maps'[NewMap] = MapAt(h.counts)
           /\ lists'[OtherList] = ListAt(g.players) /\ maps'[OtherMap] = MapAt(g.counts)
           /\ \A a \in Addresses : a \notin {NewList, OtherList} => lists'[a] = lists[a]
           /\ \A a \in Addresses : a \notin {NewMap, OtherMap} => maps'[a] = maps[a]
  BY FreshLists, FreshMaps, CellTypes DEF TypeInv, FillBoth

\* What is free can be filled without any holder noticing.
LEMMA HeldCells ==
    ASSUME TypeInv
    PROVE  \A h \in {room, undo, reader, readerUndo} :
             /\ ListOf(h) \in Addresses \cup {Nil} /\ MapOf(h) \in Addresses \cup {Nil}
             /\ ListOf(h) # NewList /\ ListOf(h) # OtherList
             /\ MapOf(h) # NewMap /\ MapOf(h) # OtherMap
  BY FreshLists, FreshMaps DEF TypeInv, Holder, ListOf, MapOf, ListFree, MapFree

LEMMA FillOneHidden ==
    ASSUME TypeInv, NEW h \in Holder, FillOne(h)
    PROVE  \A g \in {room, undo, reader, readerUndo} : ListKept(ListOf(g)) /\ MapKept(MapOf(g))
  BY FillOneKeeps, HeldCells DEF ListKept, MapKept

LEMMA FillBothHidden ==
    ASSUME TypeInv, NEW h \in Holder, NEW f \in Holder, FillBoth(h, f)
    PROVE  \A g \in {room, undo, reader, readerUndo} : ListKept(ListOf(g)) /\ MapKept(MapOf(g))
  BY FillBothKeeps, HeldCells DEF ListKept, MapKept

-----------------------------------------------------------------------------
(* One step of the memory store is one step of RoomRow.                     *)

\* A room that has players has a slice for them.
LEMMA MembersHaveSlice ==
    ASSUME TypeInv, NEW u \in Here.members
    PROVE  room.players \in Addresses /\ Here \in ListValue /\ u \in Users
<1>1. Here \in ListValue
  BY CellTypes DEF TypeInv, Here
<1>2. room.players # Nil
  BY DEF Here, ListAt, EmptyList
<1>3. QED
  BY <1>1, <1>2 DEF TypeInv, Holder, ListValue

LEMMA SameCardinality == \A S : Row!Cardinality(S) = Cardinality(S)
  BY DEF Row!Cardinality, Cardinality

LEMMA LeaveStep ==
    ASSUME IInv, NEW u \in Users, Leave(u)
    PROVE  IInv' /\ Row!RowLeave(u)
<1> DEFINE list == [members |-> Here.members \ {u}, pause |-> [Here.pause EXCEPT ![u] = 0]]
<1>1. u \in Here.members /\ WriteInPlace(list)
  BY DEF Leave
<1>2. room.players \in Addresses /\ Here \in ListValue
  BY <1>1, MembersHaveSlice DEF IInv
<1>3. list \in ListValue
  BY <1>2 DEF ListValue
<1> HIDE DEF list
<1>4. /\ IInv' /\ Here' = list
      /\ UNCHANGED <<room, MapAt(room.counts), CheckpointOf(undo), CountersOf(undo),
                     RowOf(reader, readerUndo)>>
  BY <1>1, <1>2, <1>3, WriteKeepsOthers
<1>5. QED
  BY <1>1, <1>4 DEF list, Row!RowLeave, Row!StoreLeave

LEMMA JoinStep ==
    ASSUME IInv, NEW u \in Users, Join(u)
    PROVE  IInv' /\ Row!RowJoin(u)
<1> DEFINE longer == [Here EXCEPT !.members = @ \cup {u}]
<1>1. /\ u \notin Here.members /\ Cardinality(Here.members) < MaxPlayers
      /\ \/ room.players # Nil /\ WriteInPlace(longer)
         \/ /\ lists' = [lists EXCEPT ![NewList] = longer]
            /\ room' = [room EXCEPT !.players = NewList]
            /\ UNCHANGED <<maps, undo, reader, readerUndo>>
  BY DEF Join
<1>2. Here \in ListValue
  BY CellTypes DEF IInv, TypeInv, Here
<1>3. longer \in ListValue /\ longer.members = Here.members \cup {u} /\ longer.pause = Here.pause
  BY <1>2 DEF ListValue
<1> HIDE DEF longer
<1>4. CASE room.players # Nil /\ WriteInPlace(longer)
  <2>1. room.players \in Addresses
    BY <1>4 DEF IInv, TypeInv, Holder
  <2>2. /\ IInv' /\ Here' = longer
        /\ UNCHANGED <<room, MapAt(room.counts), CheckpointOf(undo), CountersOf(undo),
                       RowOf(reader, readerUndo)>>
    BY <1>3, <1>4, <2>1, WriteKeepsOthers
  <2>3. QED
    BY <1>1, <1>3, <2>2, SameCardinality DEF Row!RowJoin, Row!StoreJoin
<1>5. CASE /\ lists' = [lists EXCEPT ![NewList] = longer]
           /\ room' = [room EXCEPT !.players = NewList]
           /\ UNCHANGED <<maps, undo, reader, readerUndo>>
  <2>1. /\ TypeInv' /\ room'.players = NewList /\ NewList # Nil
        /\ room'.last = room.last /\ room'.counts = room.counts /\ room'.shown = room.shown
    BY <1>3, <1>5, FreshLists, NilIsNoAddress DEF IInv, TypeInv, Holder
  <2>2. Here' = longer
    BY <1>5, <2>1, FreshLists DEF IInv, TypeInv, Here, ListAt
  <2>3. NoSharing'
    <3>1. /\ undo # None => NewList # undo.players
          /\ reader # None => NewList # reader.players
          /\ readerUndo # None => NewList # readerUndo.players
      BY FreshLists DEF IInv, ListFree, ListOf
    <3>2. SharesNothing(room, undo)' /\ SharesNothing(room, reader)' /\ SharesNothing(room, readerUndo)'
      BY <1>5, <2>1, <3>1, NoneIsNoRow DEF IInv, TypeInv, NoSharing, SharesNothing, Apart
    <3>3. SharesNothing(undo, reader)' /\ SharesNothing(undo, readerUndo)' /\ SharesNothing(reader, readerUndo)'
      BY <1>5 DEF IInv, NoSharing, SharesNothing, Apart
    <3>4. QED
      BY <3>2, <3>3 DEF NoSharing
  <2>4. /\ ListKept(ListOf(undo)) /\ ListKept(ListOf(reader)) /\ ListKept(ListOf(readerUndo))
        /\ MapKept(MapOf(undo)) /\ MapKept(MapOf(reader)) /\ MapKept(MapOf(readerUndo))
    BY <1>5, HeldCells, FreshLists DEF IInv, TypeInv, ListKept, MapKept
  <2>5. /\ UNCHANGED <<CheckpointOf(undo), CountersOf(undo), RowOf(reader, readerUndo)>>
        /\ UNCHANGED MapAt(room.counts)
    BY <1>5, <2>1, <2>4, CheckpointKept, CopyKept DEF MapAt
  <2>6. QED
    BY <1>1, <1>3, <2>1, <2>2, <2>3, <2>5, SameCardinality DEF IInv, Row!RowJoin, Row!StoreJoin
<1>6. QED
  BY <1>1, <1>4, <1>5

LEMMA SetPauseStep ==
    ASSUME IInv, NEW u \in Users, NEW matches \in PauseLengths \cup {0}, SetPause(u, matches)
    PROVE  IInv' /\ Row!RowSetPause(u, matches)
<1> DEFINE list == [Here EXCEPT !.pause[u] = matches]
<1>1. u \in Here.members /\ WriteInPlace(list)
  BY DEF SetPause
<1>2. room.players \in Addresses /\ Here \in ListValue
  BY <1>1, MembersHaveSlice DEF IInv
<1>3. /\ list \in ListValue /\ list.members = Here.members
      /\ list.pause = [Here.pause EXCEPT ![u] = matches]
  BY <1>2, PausesNatural DEF ListValue
<1> HIDE DEF list
<1>4. /\ IInv' /\ Here' = list
      /\ UNCHANGED <<room, MapAt(room.counts), CheckpointOf(undo), CountersOf(undo),
                     RowOf(reader, readerUndo)>>
  BY <1>1, <1>2, <1>3, WriteKeepsOthers
<1>5. QED
  BY <1>1, <1>3, <1>4 DEF Row!RowSetPause, Row!StoreSetPause

LEMMA DecrementStep ==
    ASSUME IInv, DecrementPauses
    PROVE  IInv' /\ Row!RowDecrementPauses
<1> DEFINE less == [u \in Users |-> IF Here.pause[u] > 0 THEN Here.pause[u] - 1 ELSE 0]
           list == [Here EXCEPT !.pause = less]
<1>1. PICK u \in Here.members : Here.pause[u] > 0
  BY DEF DecrementPauses
<1>2. room.players \in Addresses /\ Here \in ListValue
  BY <1>1, MembersHaveSlice DEF IInv
<1>3. list = [Here EXCEPT !.pause = [v \in Users |-> IF @[v] > 0 THEN @[v] - 1 ELSE 0]]
  BY <1>2 DEF ListValue
<1>4. WriteInPlace(list)
  BY <1>3 DEF DecrementPauses
<1>5. list \in ListValue /\ list.members = Here.members /\ list.pause = less
  BY <1>2 DEF ListValue
<1> HIDE DEF list
<1>6. /\ IInv' /\ Here' = list
      /\ UNCHANGED <<room, MapAt(room.counts), CheckpointOf(undo), CountersOf(undo),
                     RowOf(reader, readerUndo)>>
  BY <1>2, <1>4, <1>5, WriteKeepsOthers
<1>7. QED
  BY <1>5, <1>6 DEF Row!RowDecrementPauses, Row!StoreDecrementPauses, Row!Written

LEMMA OnboardingStep ==
    ASSUME IInv, TryMarkOnboardingShown
    PROVE  IInv' /\ Row!RowMarkOnboarding
<1>1. /\ room' = [room EXCEPT !.shown = TRUE]
      /\ UNCHANGED <<lists, maps, undo, reader, readerUndo>>
  BY DEF TryMarkOnboardingShown
<1>2. /\ room' \in Holder /\ room'.players = room.players /\ room'.counts = room.counts
      /\ room'.last = room.last /\ room'.shown = TRUE
  <2>1. room \in Holder
    BY DEF IInv, TypeInv
  <2>2. room' = [players |-> room.players, counts |-> room.counts, last |-> room.last, shown |-> TRUE]
    BY <1>1, <2>1 DEF Holder
  <2>3. QED
    BY <2>1, <2>2 DEF Holder
<1>3. TypeInv' /\ NoSharing'
  <2>1. TypeInv'
    BY <1>1, <1>2 DEF IInv, TypeInv
  <2>2. SharesNothing(room, undo)' /\ SharesNothing(room, reader)' /\ SharesNothing(room, readerUndo)'
    BY <1>1, <1>2, NoneIsNoRow DEF IInv, TypeInv, NoSharing, SharesNothing, Apart
  <2>3. SharesNothing(undo, reader)' /\ SharesNothing(undo, readerUndo)' /\ SharesNothing(reader, readerUndo)'
    BY <1>1 DEF IInv, NoSharing, SharesNothing, Apart
  <2>4. QED
    BY <2>1, <2>2, <2>3 DEF NoSharing
<1>4. UNCHANGED <<Here, MapAt(room.counts)>>
  BY <1>1, <1>2 DEF Here, ListAt, MapAt
<1>5. UNCHANGED <<CheckpointOf(undo), CountersOf(undo), RowOf(reader, readerUndo)>>
  BY <1>1 DEF ListAt, MapAt, CheckpointOf, CountersOf, RowOf
<1>6. QED
  BY <1>1, <1>2, <1>3, <1>4, <1>5 DEF IInv, Row!RowMarkOnboarding, Row!store

LEMMA ResetStep ==
    ASSUME IInv, ResetRoom
    PROVE  IInv' /\ Row!RowReset
<1>1. /\ room' = NewRoom /\ undo' = None
      /\ UNCHANGED <<lists, maps, reader, readerUndo>>
  BY DEF ResetRoom
<1>2. IInv'
  BY <1>1 DEF IInv, TypeInv, NoSharing, SharesNothing, Apart, NewRoom, Holder
<1>3. UNCHANGED RowOf(reader, readerUndo)
  BY <1>1 DEF RowOf, CheckpointOf, CountersOf, ListAt, MapAt
<1>4. /\ Here' = EmptyList /\ MapAt(room.counts)' = EmptyMap
      /\ room'.last = None /\ room'.shown = FALSE
      /\ CheckpointOf(undo)' = None /\ CountersOf(undo)' = None
  BY <1>1 DEF NewRoom, Here, ListAt, MapAt, CheckpointOf, CountersOf
<1>5. QED
  BY <1>2, <1>3, <1>4
     DEF EmptyList, EmptyMap, Row!RowReset, Row!StoreReset, Row!NobodyPaused, Row!NoTally

LEMMA DrawableUsers ==
    ASSUME TypeInv, NEW players \in Drawable, NEW match \in Lineups(players)
    PROVE  players \in SUBSET Users /\ match \in Match /\ match \in Row!Lineups(players)
<1>1. Here \in ListValue
  BY CellTypes DEF TypeInv, Here
<1>2. room.last # None => room.last.players \in SUBSET Users
  BY DEF TypeInv, Holder, Match
<1>3. players \in SUBSET Users
  BY <1>1, <1>2 DEF Drawable, ListValue
<1>4. match \in Match
  BY <1>3 DEF Lineups, Match
<1>5. match \in Row!Lineups(players)
  BY SameCardinality DEF Lineups, Row!Lineups
<1>6. QED
  BY <1>3, <1>4, <1>5

LEMMA CountedValue ==
    ASSUME NEW t \in Tallies, NEW match \in Match
    PROVE  Counted(t, match) \in Tallies /\ Row!Counted(t, match) = Counted(t, match)
  BY DEF Tallies, Counted, Row!Counted

LEMMA SaveStep ==
    ASSUME IInv, NEW players \in Drawable, NEW match \in Lineups(players), SaveLastMatch(match)
    PROVE  /\ IInv'
           /\ players \in SUBSET Users /\ match \in Row!Lineups(players)
           /\ Row!RowSaveLastMatch(match)
<1> DEFINE m == IF room.counts = Nil THEN NewMap ELSE room.counts
           new == Counted(MapAt(room.counts), match)
<1>1. /\ maps' = [maps EXCEPT ![m] = new]
      /\ room' = [room EXCEPT !.last = match, !.counts = m]
      /\ UNCHANGED <<lists, undo, reader, readerUndo>>
  BY DEF SaveLastMatch
<1>2. players \in SUBSET Users /\ match \in Match /\ match \in Row!Lineups(players)
  BY DrawableUsers DEF IInv
<1>3. MapAt(room.counts) \in Tallies
  BY CellTypes DEF IInv, TypeInv
<1>4. new \in Tallies /\ Row!Counted(MapAt(room.counts), match) = new
  BY <1>2, <1>3, CountedValue
<1>5. /\ m \in Addresses
      /\ undo # None => m # undo.counts
      /\ reader # None => m # reader.counts
      /\ readerUndo # None => m # readerUndo.counts
  <2>1. CASE room.counts = Nil
    BY <2>1, FreshMaps DEF IInv, MapFree, MapOf
  <2>2. CASE room.counts # Nil
    <3>1. room.counts \in Addresses /\ m = room.counts
      BY <2>2 DEF IInv, TypeInv, Holder
    <3>2. QED
      BY <2>2, <3>1, NoneIsNoRow DEF IInv, TypeInv, NoSharing, SharesNothing, Apart
  <2>3. QED
    BY <2>1, <2>2
<1> HIDE DEF m, new
<1>6. /\ room' \in Holder /\ room'.players = room.players /\ room'.counts = m
      /\ room'.last = match /\ room'.shown = room.shown
  BY <1>1, <1>2, <1>5 DEF IInv, TypeInv, Holder
<1>7. IInv'
  <2>1. TypeInv'
    BY <1>1, <1>4, <1>6 DEF IInv, TypeInv
  <2>2. SharesNothing(room, undo)' /\ SharesNothing(room, reader)' /\ SharesNothing(room, readerUndo)'
    BY <1>1, <1>5, <1>6, NoneIsNoRow DEF IInv, TypeInv, NoSharing, SharesNothing, Apart
  <2>3. SharesNothing(undo, reader)' /\ SharesNothing(undo, readerUndo)' /\ SharesNothing(reader, readerUndo)'
    BY <1>1 DEF IInv, NoSharing, SharesNothing, Apart
  <2>4. QED
    BY <2>1, <2>2, <2>3 DEF IInv, NoSharing
<1>8. /\ ListKept(ListOf(undo)) /\ ListKept(ListOf(reader)) /\ ListKept(ListOf(readerUndo))
      /\ MapKept(MapOf(undo)) /\ MapKept(MapOf(reader)) /\ MapKept(MapOf(readerUndo))
  BY <1>1, <1>5 DEF IInv, TypeInv, ListKept, MapKept, MapOf
<1>9. UNCHANGED <<CheckpointOf(undo), CountersOf(undo), RowOf(reader, readerUndo)>>
  BY <1>1, <1>8, CheckpointKept, CopyKept
<1>10. MapAt(room.counts)' = new /\ UNCHANGED Here
  BY <1>1, <1>4, <1>5, <1>6, NilIsNoAddress DEF IInv, TypeInv, MapAt, Here, ListAt
<1>11. Row!RowSaveLastMatch(match)
  BY <1>4, <1>6, <1>9, <1>10 DEF Row!RowSaveLastMatch, Row!StoreSaveLastMatch, Row!Written
<1>12. QED
  BY <1>2, <1>7, <1>11

-----------------------------------------------------------------------------

\* A copy at a free place shares nothing with what is held.
LEMMA FreshApart ==
    ASSUME NEW c, NEW l, NEW m, ListOf(c) \in {Nil, l}, MapOf(c) \in {Nil, m},
           ListFree(l), MapFree(m)
    PROVE  /\ SharesNothing(c, room) /\ SharesNothing(room, c)
           /\ SharesNothing(c, undo) /\ SharesNothing(undo, c)
           /\ SharesNothing(c, reader) /\ SharesNothing(reader, c)
           /\ SharesNothing(c, readerUndo) /\ SharesNothing(readerUndo, c)
  BY DEF SharesNothing, Apart, ListOf, MapOf, ListFree, MapFree

LEMMA SnapshotStep ==
    ASSUME IInv, SnapshotRoomState
    PROVE  IInv' /\ Row!RowSnapshot
<1>1. /\ undo' = CopyAt(room, NewList, NewMap) /\ FillOne(room)
      /\ UNCHANGED <<room, reader, readerUndo>>
  BY DEF SnapshotRoomState
<1>2. room \in Holder /\ TypeInv
  BY DEF IInv, TypeInv
<1>3. /\ lists' \in [Addresses -> ListValue] /\ maps' \in [Addresses -> Tallies]
      /\ lists'[NewList] = ListAt(room.players) /\ maps'[NewMap] = MapAt(room.counts)
  BY <1>1, <1>2, FillOneKeeps
<1>4. /\ undo' \in Holder /\ undo' # None
      /\ undo'.last = room.last /\ undo'.shown = room.shown
      /\ ListOf(undo') \in {Nil, NewList} /\ MapOf(undo') \in {Nil, NewMap}
      /\ ListAt(undo.players)' = ListAt(room.players)
      /\ MapAt(undo.counts)' = MapAt(room.counts)
  BY <1>1, <1>2, <1>3, FreshLists, FreshMaps, CopyHolds DEF ListAt, MapAt
<1>5. SharesNothing(room, undo') /\ SharesNothing(undo', reader) /\ SharesNothing(undo', readerUndo)
  BY <1>2, <1>4, FreshApart, FreshLists, FreshMaps
<1>6. IInv'
  BY <1>1, <1>3, <1>4, <1>5 DEF IInv, TypeInv, NoSharing, SharesNothing, Apart
<1>7. /\ ListKept(ListOf(room)) /\ ListKept(ListOf(reader)) /\ ListKept(ListOf(readerUndo))
      /\ MapKept(MapOf(room)) /\ MapKept(MapOf(reader)) /\ MapKept(MapOf(readerUndo))
  BY <1>1, <1>2, FillOneHidden
<1>8. UNCHANGED <<Here, MapAt(room.counts), RowOf(reader, readerUndo)>>
  BY <1>1, <1>2, <1>7, CopyKept, NoneIsNoRow DEF ListKept, MapKept, ListOf, MapOf, Here, ListAt, MapAt
<1>9. /\ CheckpointOf(undo)' = Row!CurrentState
      /\ CountersOf(undo)' = [tally |-> MapAt(room.counts), shown |-> room.shown]
  BY <1>4 DEF CheckpointOf, CountersOf, Row!CurrentState, Here
<1>10. Row!RowSnapshot
  BY <1>1, <1>8, <1>9 DEF Row!RowSnapshot, Row!StoreSnapshot, Row!Written
<1>11. QED
  BY <1>6, <1>10

LEMMA UndoStep ==
    ASSUME IInv, UndoRoomState
    PROVE  IInv' /\ Row!RowUndo
<1>1. /\ undo # None
      /\ room' = CopyAt(undo, NewList, NewMap) /\ undo' = None /\ FillOne(undo)
      /\ UNCHANGED <<reader, readerUndo>>
  BY DEF UndoRoomState
<1>2. undo \in Holder /\ TypeInv
  BY <1>1 DEF IInv, TypeInv
<1>3. /\ lists' \in [Addresses -> ListValue] /\ maps' \in [Addresses -> Tallies]
      /\ lists'[NewList] = ListAt(undo.players) /\ maps'[NewMap] = MapAt(undo.counts)
  BY <1>1, <1>2, FillOneKeeps
<1>4. /\ room' \in Holder /\ room' # None
      /\ room'.last = undo.last /\ room'.shown = undo.shown
      /\ ListOf(room') \in {Nil, NewList} /\ MapOf(room') \in {Nil, NewMap}
      /\ ListAt(room.players)' = ListAt(undo.players)
      /\ MapAt(room.counts)' = MapAt(undo.counts)
  BY <1>1, <1>2, <1>3, FreshLists, FreshMaps, CopyHolds DEF ListAt, MapAt
<1>5. SharesNothing(room', reader) /\ SharesNothing(room', readerUndo)
  BY <1>2, <1>4, FreshApart, FreshLists, FreshMaps
<1>6. IInv'
  BY <1>1, <1>3, <1>4, <1>5 DEF IInv, TypeInv, NoSharing, SharesNothing, Apart
<1>7. UNCHANGED RowOf(reader, readerUndo)
  BY <1>1, <1>2, FillOneHidden, CopyKept
<1>8. CheckpointOf(undo) # None
  <2>1. ListAt(undo.players) \in ListValue
    BY <1>2, CellTypes
  <2>2. CheckpointOf(undo) \in Checkpoints
    BY <1>1, <1>2, <2>1 DEF CheckpointOf, Checkpoints, ListValue, Holder
  <2>3. QED
    BY <2>2, NoneIsNoRow
<1>9. /\ CheckpointOf(undo).members = Here.members'
      /\ CheckpointOf(undo).pause = Here.pause'
      /\ CheckpointOf(undo).last = room'.last
      /\ CountersOf(undo).tally = MapAt(room.counts)'
      /\ CheckpointOf(undo)' = None /\ CountersOf(undo)' = None
  BY <1>1, <1>4 DEF CheckpointOf, CountersOf, Here
<1>10. room'.shown = CountersOf(undo).shown
  BY <1>1, <1>4 DEF CountersOf
<1>11. Row!RowUndo
  BY <1>7, <1>8, <1>9, <1>10 DEF Row!RowUndo, Row!StoreUndo
<1>12. QED
  BY <1>6, <1>11

LEMMA GetStateStep ==
    ASSUME IInv, GetState
    PROVE  IInv' /\ Row!RowGetState
<1>1. /\ reader' = CopyAt(room, NewList, NewMap) /\ UNCHANGED <<room, undo>>
      /\ \/ undo = None /\ readerUndo' = None /\ FillOne(room)
         \/ /\ undo # None
            /\ readerUndo' = CopyAt(undo, OtherList, OtherMap)
            /\ FillBoth(room, undo)
  BY DEF GetState
<1>2. room \in Holder /\ TypeInv
  BY DEF IInv, TypeInv
<1>3. /\ lists' \in [Addresses -> ListValue] /\ maps' \in [Addresses -> Tallies]
      /\ lists'[NewList] = ListAt(room.players) /\ maps'[NewMap] = MapAt(room.counts)
      /\ \A g \in {room, undo, reader, readerUndo} : ListKept(ListOf(g)) /\ MapKept(MapOf(g))
  <2>1. CASE undo = None
    BY <1>1, <1>2, <2>1, FillOneKeeps, FillOneHidden
  <2>2. CASE undo # None
    <3>1. undo \in Holder /\ FillBoth(room, undo)
      BY <1>1, <1>2, <2>2 DEF TypeInv
    <3>2. QED
      BY <1>2, <3>1, FillBothKeeps, FillBothHidden
  <2>3. QED
    BY <2>1, <2>2
<1>4. /\ reader' \in Holder /\ reader' # None
      /\ reader'.last = room.last /\ reader'.shown = room.shown
      /\ ListOf(reader') \in {Nil, NewList} /\ MapOf(reader') \in {Nil, NewMap}
      /\ ListAt(reader.players)' = ListAt(room.players)
      /\ MapAt(reader.counts)' = MapAt(room.counts)
  BY <1>1, <1>2, <1>3, FreshLists, FreshMaps, CopyHolds DEF ListAt, MapAt
<1>5. /\ readerUndo' \in Holder \cup {None}
      /\ readerUndo' # None => ListOf(readerUndo') \in {Nil, OtherList} /\ MapOf(readerUndo') \in {Nil, OtherMap}
      /\ CheckpointOf(readerUndo)' = CheckpointOf(undo)
      /\ CountersOf(readerUndo)' = CountersOf(undo)
  <2>1. CASE undo = None
    BY <1>1, <2>1 DEF CheckpointOf, CountersOf
  <2>2. CASE undo # None
    <3>1. undo \in Holder /\ FillBoth(room, undo) /\ readerUndo' = CopyAt(undo, OtherList, OtherMap)
      BY <1>1, <1>2, <2>2 DEF TypeInv
    <3>2. lists'[OtherList] = ListAt(undo.players) /\ maps'[OtherMap] = MapAt(undo.counts)
      BY <1>2, <3>1, FillBothKeeps
    <3>3. /\ readerUndo' \in Holder /\ readerUndo' # None
          /\ readerUndo'.last = undo.last /\ readerUndo'.shown = undo.shown
          /\ ListOf(readerUndo') \in {Nil, OtherList} /\ MapOf(readerUndo') \in {Nil, OtherMap}
          /\ ListAt(readerUndo.players)' = ListAt(undo.players)
          /\ MapAt(readerUndo.counts)' = MapAt(undo.counts)
      BY <1>2, <3>1, <3>2, FreshLists, FreshMaps, CopyHolds DEF ListAt, MapAt
    <3>4. QED
      BY <2>2, <3>3 DEF CheckpointOf, CountersOf
  <2>3. QED
    BY <2>1, <2>2
<1>6. SharesNothing(room, reader') /\ SharesNothing(undo, reader')
  BY <1>2, <1>4, FreshApart, FreshLists, FreshMaps
<1>7. SharesNothing(room, readerUndo') /\ SharesNothing(undo, readerUndo')
  BY <1>2, <1>5, FreshApart, FreshLists, FreshMaps DEF SharesNothing
<1>8. SharesNothing(reader', readerUndo')
  BY <1>2, <1>4, <1>5, FreshLists, FreshMaps DEF SharesNothing, Apart, ListOf, MapOf
<1>9. IInv'
  BY <1>1, <1>3, <1>4, <1>5, <1>6, <1>7, <1>8 DEF IInv, TypeInv, NoSharing, SharesNothing, Apart
<1>10. UNCHANGED <<CheckpointOf(undo), CountersOf(undo)>>
  BY <1>1, <1>3, CheckpointKept
<1>11. UNCHANGED <<Here, MapAt(room.counts)>>
  BY <1>1, <1>2, <1>3, NoneIsNoRow DEF ListKept, MapKept, ListOf, MapOf, Here, ListAt, MapAt
<1>12. RowOf(reader, readerUndo)' = Row!CurrentRow
  BY <1>4, <1>5 DEF RowOf, Row!CurrentRow, Here
<1>13. Row!RowGetState
  BY <1>1, <1>10, <1>11, <1>12 DEF Row!RowGetState, Row!store
<1>14. QED
  BY <1>9, <1>13

\* A state a caller holds is seen as a row.
LEMMA CopyIsARow ==
    ASSUME TypeInv, reader # None
    PROVE  RowOf(reader, readerUndo) # None
<1>1. ListAt(reader.players) \in ListValue /\ MapAt(reader.counts) \in Tallies
  BY CellTypes DEF TypeInv
<1>2. CheckpointOf(readerUndo) \in Checkpoints \cup {None} /\ CountersOf(readerUndo) \in Counters \cup {None}
  <2>1. CASE readerUndo = None
    BY <2>1 DEF CheckpointOf, CountersOf
  <2>2. CASE readerUndo # None
    <3>1. readerUndo \in Holder
      BY <2>2 DEF TypeInv
    <3>2. ListAt(readerUndo.players) \in ListValue /\ MapAt(readerUndo.counts) \in Tallies
      BY <3>1, CellTypes
    <3> QED
      BY <2>2, <3>1, <3>2 DEF CheckpointOf, CountersOf, Checkpoints, Counters, ListValue, Holder
  <2> QED
    BY <2>1, <2>2
<1>3. RowOf(reader, readerUndo) \in Rows
  BY <1>1, <1>2 DEF TypeInv, RowOf, Rows, ListValue, Holder
<1> QED
  BY <1>3, NoneIsNoRow

LEMMA ReplaceStep ==
    ASSUME IInv, ReplaceState
    PROVE  IInv' /\ Row!RowReplaceState
<1>1. /\ reader # None
      /\ room' = CopyAt(reader, NewList, NewMap) /\ UNCHANGED <<reader, readerUndo>>
      /\ \/ readerUndo = None /\ undo' = None /\ FillOne(reader)
         \/ /\ readerUndo # None
            /\ undo' = CopyAt(readerUndo, OtherList, OtherMap)
            /\ FillBoth(reader, readerUndo)
  BY DEF ReplaceState
<1>2. reader \in Holder /\ TypeInv
  BY <1>1 DEF IInv, TypeInv
<1>3. /\ lists' \in [Addresses -> ListValue] /\ maps' \in [Addresses -> Tallies]
      /\ lists'[NewList] = ListAt(reader.players) /\ maps'[NewMap] = MapAt(reader.counts)
      /\ \A g \in {room, undo, reader, readerUndo} : ListKept(ListOf(g)) /\ MapKept(MapOf(g))
  <2>1. CASE readerUndo = None
    BY <1>1, <1>2, <2>1, FillOneKeeps, FillOneHidden
  <2>2. CASE readerUndo # None
    <3>1. readerUndo \in Holder /\ FillBoth(reader, readerUndo)
      BY <1>1, <1>2, <2>2 DEF TypeInv
    <3>2. QED
      BY <1>2, <3>1, FillBothKeeps, FillBothHidden
  <2>3. QED
    BY <2>1, <2>2
<1>4. /\ room' \in Holder /\ room' # None
      /\ room'.last = reader.last /\ room'.shown = reader.shown
      /\ ListOf(room') \in {Nil, NewList} /\ MapOf(room') \in {Nil, NewMap}
      /\ ListAt(room.players)' = ListAt(reader.players)
      /\ MapAt(room.counts)' = MapAt(reader.counts)
  BY <1>1, <1>2, <1>3, FreshLists, FreshMaps, CopyHolds DEF ListAt, MapAt
<1>5. /\ undo' \in Holder \cup {None}
      /\ undo' # None => ListOf(undo') \in {Nil, OtherList} /\ MapOf(undo') \in {Nil, OtherMap}
      /\ CheckpointOf(undo)' = CheckpointOf(readerUndo)
      /\ CountersOf(undo)' = CountersOf(readerUndo)
  <2>1. CASE readerUndo = None
    BY <1>1, <2>1 DEF CheckpointOf, CountersOf
  <2>2. CASE readerUndo # None
    <3>1. /\ readerUndo \in Holder /\ FillBoth(reader, readerUndo)
          /\ undo' = CopyAt(readerUndo, OtherList, OtherMap)
      BY <1>1, <1>2, <2>2 DEF TypeInv
    <3>2. /\ lists'[OtherList] = ListAt(readerUndo.players)
          /\ maps'[OtherMap] = MapAt(readerUndo.counts)
      BY <1>2, <3>1, FillBothKeeps
    <3>3. /\ undo' \in Holder /\ undo' # None
          /\ undo'.last = readerUndo.last /\ undo'.shown = readerUndo.shown
          /\ ListOf(undo') \in {Nil, OtherList} /\ MapOf(undo') \in {Nil, OtherMap}
          /\ ListAt(undo.players)' = ListAt(readerUndo.players)
          /\ MapAt(undo.counts)' = MapAt(readerUndo.counts)
      BY <1>2, <3>1, <3>2, FreshLists, FreshMaps, CopyHolds DEF ListAt, MapAt
    <3>4. QED
      BY <2>2, <3>3 DEF CheckpointOf, CountersOf
  <2>3. QED
    BY <2>1, <2>2
<1>6. SharesNothing(room', reader) /\ SharesNothing(room', readerUndo)
  BY <1>2, <1>4, FreshApart, FreshLists, FreshMaps
<1>7. SharesNothing(undo', reader) /\ SharesNothing(undo', readerUndo)
  BY <1>2, <1>5, FreshApart, FreshLists, FreshMaps DEF SharesNothing
<1>8. SharesNothing(room', undo')
  BY <1>2, <1>4, <1>5, FreshLists, FreshMaps DEF SharesNothing, Apart, ListOf, MapOf
<1>9. IInv'
  BY <1>1, <1>3, <1>4, <1>5, <1>6, <1>7, <1>8 DEF IInv, TypeInv, NoSharing, SharesNothing, Apart
<1>10. UNCHANGED RowOf(reader, readerUndo)
  BY <1>1, <1>3, CopyKept
<1>11. RowOf(reader, readerUndo) # None
  BY <1>1, <1>2, CopyIsARow
<1>12. LET r == RowOf(reader, readerUndo)
       IN  /\ Here.members' = r.members /\ Here.pause' = r.pause
           /\ room'.last = r.last /\ room'.shown = r.shown
           /\ MapAt(room.counts)' = r.tally
           /\ CheckpointOf(undo)' = r.previous /\ CountersOf(undo)' = r.saved
  BY <1>1, <1>4, <1>5 DEF RowOf, Here
<1>13. Row!RowReplaceState
  BY <1>10, <1>11, <1>12 DEF Row!RowReplaceState
<1>14. QED
  BY <1>9, <1>13

-----------------------------------------------------------------------------

LEMMA InitStep == Init => IInv /\ Row!RowInit
<1> SUFFICES ASSUME Init PROVE IInv /\ Row!RowInit
  OBVIOUS
<1>1. TypeInv
  BY DEF Init, TypeInv, NewRoom, Holder, EmptyList, EmptyMap, ListValue, Tallies
<1>2. NoSharing
  BY DEF Init, NoSharing, SharesNothing
<1>3. Row!RowInit
  BY DEF Init, NewRoom, Here, ListAt, MapAt, EmptyList, EmptyMap, CheckpointOf, CountersOf, RowOf,
     Row!RowInit, Row!StoreInit, Row!NobodyPaused, Row!NoTally
<1>4. QED
  BY <1>1, <1>2, <1>3 DEF IInv

LEMMA NextStep == IInv /\ Next => IInv' /\ Row!RowNext
<1> SUFFICES ASSUME IInv, Next PROVE IInv' /\ Row!RowNext
  OBVIOUS
<1>1. ASSUME NEW u \in Users, Join(u) PROVE IInv' /\ Row!RowNext
  BY <1>1, JoinStep DEF Row!RowNext
<1>2. ASSUME NEW u \in Users, Leave(u) PROVE IInv' /\ Row!RowNext
  BY <1>2, LeaveStep DEF Row!RowNext
<1>3. ASSUME NEW u \in Users, NEW matches \in PauseLengths \cup {0}, SetPause(u, matches)
      PROVE  IInv' /\ Row!RowNext
  BY <1>3, SetPauseStep DEF Row!RowNext
<1>4. ASSUME DecrementPauses PROVE IInv' /\ Row!RowNext
  BY <1>4, DecrementStep DEF Row!RowNext
<1>5. ASSUME TryMarkOnboardingShown PROVE IInv' /\ Row!RowNext
  BY <1>5, OnboardingStep DEF Row!RowNext
<1>6. ASSUME NEW players \in Drawable, NEW match \in Lineups(players), SaveLastMatch(match)
      PROVE  IInv' /\ Row!RowNext
  <2>1. /\ IInv' /\ players \in SUBSET Users /\ match \in Row!Lineups(players)
        /\ Row!RowSaveLastMatch(match)
    BY <1>6, SaveStep
  <2>2. QED
    BY <2>1 DEF Row!RowNext
<1>7. ASSUME SnapshotRoomState PROVE IInv' /\ Row!RowNext
  BY <1>7, SnapshotStep DEF Row!RowNext
<1>8. ASSUME UndoRoomState PROVE IInv' /\ Row!RowNext
  BY <1>8, UndoStep DEF Row!RowNext
<1>9. ASSUME ResetRoom PROVE IInv' /\ Row!RowNext
  BY <1>9, ResetStep DEF Row!RowNext
<1>10. ASSUME GetState PROVE IInv' /\ Row!RowNext
  BY <1>10, GetStateStep DEF Row!RowNext
<1>11. ASSUME ReplaceState PROVE IInv' /\ Row!RowNext
  BY <1>11, ReplaceStep DEF Row!RowNext
<1>12. QED
  BY <1>1, <1>2, <1>3, <1>4, <1>5, <1>6, <1>7, <1>8, <1>9, <1>10, <1>11 DEF Next

LEMMA StutterStep == IInv /\ UNCHANGED vars => IInv' /\ UNCHANGED Row!rowVars
<1> SUFFICES ASSUME IInv, UNCHANGED vars PROVE IInv' /\ UNCHANGED Row!rowVars
  OBVIOUS
<1>1. UNCHANGED <<lists, maps, room, undo, reader, readerUndo>>
  BY DEF vars
<1>2. IInv'
  BY <1>1 DEF IInv, TypeInv, NoSharing, SharesNothing, Apart
<1>3. UNCHANGED <<Here, MapAt(room.counts), CheckpointOf(undo), CountersOf(undo),
                  RowOf(reader, readerUndo)>>
  BY <1>1 DEF Here, ListAt, MapAt, CheckpointOf, CountersOf, RowOf
<1>4. QED
  BY <1>1, <1>2, <1>3 DEF Row!rowVars

LEMMA IInvHolds == Spec => []IInv
<1>1. IInv /\ [Next]_vars => IInv'
  BY NextStep, StutterStep
<1>2. QED
  BY InitStep, <1>1, PTL DEF Spec

\* However many users and operations: the room, its undo point and the states
\* handed out by GetState never share a list of players or a map of counters
\* (the copy functions of memory.go).
THEOREM StatesStayApart == Spec => []NoSharing
<1>1. IInv => NoSharing
  BY DEF IInv
<1>2. QED
  BY IInvHolds, <1>1, PTL

\* The memory store implements the room row as values, for every set of users,
\* capacity and allocation: writing in place is never seen through an undo point
\* or a state that was handed out.
THEOREM MemoryImplementsRow == Spec => ImplementsRoomRow
<1>1. IInv /\ [Next]_vars => [Row!RowNext]_Row!rowVars
  BY NextStep, StutterStep
<1>2. QED
  BY InitStep, IInvHolds, <1>1, PTL DEF Spec, ImplementsRoomRow, Row!RowSpec

-----------------------------------------------------------------------------
(* The counters and the matches.                                            *)

\* What a match adds to the counters makes them fit the matches including it.
LEMMA CountedFits ==
    ASSUME NEW t \in Tallies, NEW match \in Match \cup {None}, Fits(t, match),
           NEW players \in SUBSET Users, NEW new \in Lineups(players)
    PROVE  Fits(Row!Counted(t, new), new)
<1> DEFINE teams   == new.teamA \cup new.teamB
           before  == [u \in Users |-> t[u].played]
           counted == Row!Counted(t, new)
           after   == [u \in Users |-> counted[u].played]
           total   == SumFunctionOnSet(before, Users)
<1>1. /\ new \in Match /\ new # None
      /\ new.teamA \in SUBSET Users /\ new.teamB \in SUBSET Users /\ teams \in SUBSET Users
      /\ new.teamA \cap new.teamB = {}
      /\ Cardinality(new.teamA) = TeamSize /\ Cardinality(new.teamB) = TeamSize
  <2>1. new \in Match
    BY DEF Lineups, Match
  <2> QED
    BY <2>1, NoneIsNoMatch DEF Lineups, Match
<1>2. Cardinality(teams) = TeamSize + TeamSize
  <2>1. /\ IsFiniteSet(new.teamA) /\ IsFiniteSet(new.teamB)
    BY <1>1, UsersFinite, FS_Subset
  <2>2. Cardinality(teams) = TeamSize + TeamSize - Cardinality(new.teamA \cap new.teamB)
    BY <1>1, <2>1, FS_Union
  <2>3. Cardinality(new.teamA \cap new.teamB) = 0
    BY <1>1, FS_EmptySet
  <2> QED
    BY <2>2, <2>3, TeamSizePositive
<1>3. \A u \in Users : /\ t[u].sat \in Nat /\ t[u].played \in Nat /\ before[u] = t[u].played
                      /\ after[u] = counted[u].played
  BY DEF Tallies
<1>4. \A u \in Users :
        /\ counted[u].played = t[u].played + (IF u \in teams THEN 1 ELSE 0)
        /\ counted[u].sat = t[u].sat + (IF u \in new.players \ teams THEN 1 ELSE 0)
  BY <1>3 DEF Row!Counted
<1> HIDE DEF counted, before, after, teams
<1>5. \E n \in Nat : /\ total = n * 2 * TeamSize
                    /\ \A u \in Users : t[u].played + t[u].sat <= n
  <2>1. CASE match = None
    <3>1. t = EmptyMap
      BY <2>1 DEF Fits
    <3>2. \A u \in Users : before[u] = 0 /\ t[u].played = 0 /\ t[u].sat = 0
      BY <3>1 DEF EmptyMap, before
    <3>3. total = 0
      BY <3>2, UsersFinite, SumZero
    <3> QED
      BY <3>2, <3>3, TeamSizePositive
  <2>2. CASE match # None
    <3>1. \E n \in 1 .. total : /\ total = n * 2 * TeamSize
                               /\ \A u \in Users : t[u].played + t[u].sat <= n
      BY <2>2 DEF Fits, before
    <3> QED
      BY <3>1
  <2> QED
    BY <2>1, <2>2
<1>6. PICK n \in Nat : /\ total = n * 2 * TeamSize
                      /\ \A u \in Users : t[u].played + t[u].sat <= n
  BY <1>5
<1>7. SumFunctionOnSet(after, Users) = total + Cardinality(teams)
  <2>1. /\ \A u \in Users : before[u] \in Int
        /\ \A u \in Users : after[u] = before[u] + (IF u \in teams THEN 1 ELSE 0)
    BY <1>3, <1>4
  <2> QED
    BY <1>1, <2>1, UsersFinite, SumIncrement
<1>8. /\ SumFunctionOnSet(after, Users) = (n + 1) * 2 * TeamSize
      /\ n + 1 \in 1 .. SumFunctionOnSet(after, Users)
  <2>1. /\ (n + 1) * 2 * TeamSize = n * 2 * TeamSize + (TeamSize + TeamSize)
        /\ n + 1 <= (n + 1) * 2 * TeamSize /\ (n + 1) * 2 * TeamSize \in Nat
    BY TeamSizePositive
  <2> QED
    BY <1>2, <1>6, <1>7, <2>1
<1>9. \A u \in Users : counted[u].played + counted[u].sat <= n + 1
  BY <1>3, <1>4, <1>6
<1>10. /\ \A u \in teams : counted[u].played > 0
       /\ \A u \in new.players \ teams : counted[u].sat > 0
  <2>1. new.players \in SUBSET Users /\ teams \in SUBSET Users
    BY <1>1 DEF Match
  <2> QED
    BY <1>3, <1>4, <2>1
<1> QED
  BY <1>1, <1>8, <1>9, <1>10 DEF Fits, counted, after, teams

\* The same of a room row, seen as values.
RowFits(match, tally, point, saved, copy) ==
    /\ Fits(tally, match)
    /\ point # None => Fits(saved.tally, point.last)
    /\ copy # None =>
          /\ Fits(copy.tally, copy.last)
          /\ copy.previous # None => Fits(copy.saved.tally, copy.previous.last)

ThisRowFits ==
    RowFits(room.last, MapAt(room.counts), CheckpointOf(undo), CountersOf(undo),
            RowOf(reader, readerUndo))

\* A caller who holds no state holds no undo point of one.
CopiesInv == reader = None => readerUndo = None

LEMMA CopiesInit == Init => CopiesInv
BY DEF Init, CopiesInv

LEMMA CopiesStep == CopiesInv /\ IInv /\ [Next]_vars => CopiesInv'
<1> SUFFICES ASSUME CopiesInv, IInv, [Next]_vars PROVE CopiesInv'
  OBVIOUS
<1>1. CASE GetState
  <2>1. room \in Holder
    BY DEF IInv, TypeInv
  <2>2. reader' = CopyAt(room, NewList, NewMap)
    BY <1>1 DEF GetState
  <2>3. reader' \in Holder
    BY <2>1, <2>2, FreshLists, FreshMaps DEF IInv, Holder, CopyAt
  <2> QED
    BY <2>3, NoneIsNoRow DEF CopiesInv
<1>2. CASE UNCHANGED <<reader, readerUndo>>
  BY <1>2 DEF CopiesInv
<1> QED
  BY <1>1, <1>2 DEF Next, Join, Leave, SetPause, DecrementPauses, TryMarkOnboardingShown,
     SaveLastMatch, SnapshotRoomState, UndoRoomState, ResetRoom, ReplaceState, WriteInPlace, vars

LEMMA FitsInit == Row!RowInit => ThisRowFits
BY DEF Row!RowInit, Row!StoreInit, Row!NoTally, ThisRowFits, RowFits, Fits, EmptyMap

LEMMA FitsStep ==
    ASSUME IInv, ThisRowFits, Row!RowNext
    PROVE  ThisRowFits'
<1> USE DEF ThisRowFits, RowFits
<1>1. ASSUME NEW players \in SUBSET Users, NEW match \in Row!Lineups(players),
             Row!RowSaveLastMatch(match)
      PROVE  ThisRowFits'
  <2>1. /\ room'.last = match /\ MapAt(room.counts)' = Row!Counted(MapAt(room.counts), match)
        /\ UNCHANGED <<CheckpointOf(undo), CountersOf(undo), RowOf(reader, readerUndo)>>
    BY <1>1 DEF Row!RowSaveLastMatch, Row!StoreSaveLastMatch
  <2>2. /\ MapAt(room.counts) \in Tallies /\ room.last \in Match \cup {None}
    BY CellTypes DEF IInv, TypeInv, Holder
  <2>3. match \in Lineups(players)
    BY SameCardinality DEF Row!Lineups, Lineups
  <2>4. Fits(Row!Counted(MapAt(room.counts), match), match)
    BY <2>2, <2>3, CountedFits
  <2> QED
    BY <2>1, <2>4
<1>2. CASE Row!RowSnapshot
  BY <1>2 DEF Row!RowSnapshot, Row!StoreSnapshot, Row!CurrentState
<1>3. CASE Row!RowUndo
  BY <1>3 DEF Row!RowUndo, Row!StoreUndo
<1>4. CASE Row!RowReset
  BY <1>4 DEF Row!RowReset, Row!StoreReset, Row!NoTally, Fits, EmptyMap
<1>5. CASE Row!RowGetState
  <2>1. UNCHANGED <<room.last, MapAt(room.counts), CheckpointOf(undo), CountersOf(undo)>>
    BY <1>5 DEF Row!RowGetState, Row!store
  <2>2. \E copy \in {Row!CurrentRow, [Row!CurrentRow EXCEPT !.previous = None, !.saved = None]} :
            RowOf(reader, readerUndo)' = copy
    BY <1>5 DEF Row!RowGetState
  <2>3. PICK copy : /\ RowOf(reader, readerUndo)' = copy
                    /\ copy.tally = MapAt(room.counts) /\ copy.last = room.last
                    /\ \/ copy.previous = CheckpointOf(undo) /\ copy.saved = CountersOf(undo)
                       \/ copy.previous = None
    <3>1. PICK copy \in {Row!CurrentRow, [Row!CurrentRow EXCEPT !.previous = None, !.saved = None]} :
              RowOf(reader, readerUndo)' = copy
      BY <2>2
    <3>2. /\ copy.tally = MapAt(room.counts) /\ copy.last = room.last
          /\ \/ copy.previous = CheckpointOf(undo) /\ copy.saved = CountersOf(undo)
             \/ copy.previous = None
      <4>1. CASE copy = Row!CurrentRow
        BY <4>1 DEF Row!CurrentRow
      <4>2. CASE copy = [Row!CurrentRow EXCEPT !.previous = None, !.saved = None]
        <5>1. copy = [members |-> Here.members, pause |-> Here.pause, last |-> room.last,
                      tally |-> MapAt(room.counts), shown |-> room.shown,
                      previous |-> None, saved |-> None]
          BY <4>2, Zenon DEF Row!CurrentRow
        <5> QED
          BY <5>1
      <4> QED
        BY <3>1, <4>1, <4>2
    <3> QED
      BY <3>1, <3>2
  <2> QED
    BY <2>1, <2>3
<1>6. CASE Row!RowReplaceState
  BY <1>6 DEF Row!RowReplaceState
<1>7. CASE UNCHANGED <<room.last, MapAt(room.counts), CheckpointOf(undo), CountersOf(undo),
                       RowOf(reader, readerUndo)>>
  BY <1>7
<1> QED
  BY <1>1, <1>2, <1>3, <1>4, <1>5, <1>6, <1>7
     DEF Row!RowNext, Row!RowJoin, Row!RowLeave, Row!RowSetPause, Row!RowDecrementPauses,
         Row!RowMarkOnboarding, Row!StoreJoin, Row!StoreLeave, Row!StoreSetPause,
         Row!StoreDecrementPauses, Row!store

LEMMA RowFitsIsCountsFit ==
    ASSUME IInv, CopiesInv, ThisRowFits
    PROVE  CountsFitMatches
<1> USE DEF ThisRowFits, RowFits
<1>1. undo # None => Fits(MapAt(undo.counts), undo.last)
  <2> SUFFICES ASSUME undo # None PROVE Fits(MapAt(undo.counts), undo.last)
    OBVIOUS
  <2>1. CheckpointOf(undo) # None
    <3>1. undo \in Holder
      BY DEF IInv, TypeInv
    <3>2. CheckpointOf(undo) \in Checkpoints
      BY <3>1, CellTypes DEF IInv, CheckpointOf, Checkpoints, ListValue, Holder
    <3> QED
      BY <3>2, NoneIsNoRow
  <2> QED
    BY <2>1 DEF CheckpointOf, CountersOf
<1>2. ASSUME reader # None
      PROVE  /\ Fits(MapAt(reader.counts), reader.last)
             /\ readerUndo # None => Fits(MapAt(readerUndo.counts), readerUndo.last)
  <2>1. reader \in Holder
    BY <1>2 DEF IInv, TypeInv
  <2>2. RowOf(reader, readerUndo) # None
    BY <1>2, <2>1, CopyIsARow DEF IInv
  <2>3. readerUndo # None => CheckpointOf(readerUndo) # None
    <3> SUFFICES ASSUME readerUndo # None PROVE CheckpointOf(readerUndo) # None
      OBVIOUS
    <3>1. readerUndo \in Holder
      BY DEF IInv, TypeInv
    <3>2. CheckpointOf(readerUndo) \in Checkpoints
      BY <3>1, CellTypes DEF IInv, CheckpointOf, Checkpoints, ListValue, Holder
    <3> QED
      BY <3>2, NoneIsNoRow
  <2> QED
    BY <1>2, <2>2, <2>3 DEF RowOf, CheckpointOf, CountersOf
<1> QED
  BY <1>1, <1>2 DEF CountsFitMatches, CopiesInv

\* For every set of users and any sequence of operations: in the room, in its
\* undo point and in what was handed out, the counters of the players are those
\* of a number of whole matches, the last one among them (SaveLastMatch, and the
\* copies of memory.go).
THEOREM CountsFitTheMatches == Spec => []CountsFitMatches
<1>1. Init => ThisRowFits
  BY InitStep, FitsInit
<1>2. IInv /\ ThisRowFits /\ [Next]_vars => ThisRowFits'
  <2> SUFFICES ASSUME IInv, ThisRowFits, [Next]_vars PROVE ThisRowFits'
    OBVIOUS
  <2>1. CASE Next
    BY <2>1, NextStep, FitsStep
  <2>2. CASE UNCHANGED vars
    <3>1. UNCHANGED Row!rowVars
      BY <2>2, StutterStep
    <3> QED
      BY <3>1 DEF Row!rowVars, ThisRowFits, RowFits
  <2> QED
    BY <2>1, <2>2
<1> QED
  BY <1>1, <1>2, CopiesInit, CopiesStep, IInvHolds, RowFitsIsCountsFit, PTL DEF Spec
==============================================================================
