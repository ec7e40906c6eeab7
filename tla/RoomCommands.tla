---------------------------- MODULE RoomCommands ----------------------------
(****************************************************************************)
(* The slash commands of one room.  discordgo runs every interaction in a   *)
(* goroutine of its own, so handlers interleave between any two calls of    *)
(* the store.  The commands that redraw, undo or record a match take the    *)
(* room's TryLock and keep it until they return; /join, /leave and the      *)
(* thumbs-up reaction that ends a pause do not, and may fall between any    *)
(* two steps of a command that holds it.  The process may die at any step:  *)
(* the row survives, the lock and the goroutines do not.                    *)
(****************************************************************************)
EXTENDS RoomStore

CONSTANT Handlers   \* goroutines that run a locking command

ASSUME NoneIsNoHandler == None \notin Handlers

VARIABLES
    lock,    \* the handler that holds the room's mutex, or None
    pc,      \* where each handler is: "idle" or the store call it makes next
    field,   \* the players a handler listed and is about to draw from
    seen     \* the match /result read and is about to record

handlers == <<lock, pc, field, seen>>
vars == <<members, pause, last, previous, lock, pc, field, seen>>

Commands == {"make", "next", "reroll", "pause", "resume", "undo", "reset", "result"}

\* Labels at which RunMatchWithPlayers builds and saves a match.
Building == {"make_build", "next_build", "reroll_build"}

Labels == Commands \cup Building \cup
          {"idle", "make_snapshot", "next_snapshot", "next_list",
           "next_decrement", "result_record", "done"}

Init ==
    /\ StoreInit
    /\ lock = None
    /\ pc = [h \in Handlers |-> "idle"]
    /\ field = [h \in Handlers |-> {}]
    /\ seen = [h \in Handlers |-> None]

\* Handler h moves from one label to another, touching no local variable.
Goto(h, from, to) ==
    /\ pc[h] = from
    /\ pc' = [pc EXCEPT ![h] = to]
    /\ UNCHANGED <<lock, field, seen>>

\* Handler h moves on with the given players listed.
GotoWith(h, from, to, players) ==
    /\ pc[h] = from
    /\ pc' = [pc EXCEPT ![h] = to]
    /\ field' = [field EXCEPT ![h] = players]
    /\ UNCHANGED <<lock, seen>>

-----------------------------------------------------------------------------
(* The room's lock.                                                         *)

\* Mutant: the answer of TryLock is ignored.
AcquireUnchecked(h, command) ==
    /\ pc[h] = "idle"
    /\ lock' = h
    /\ pc' = [pc EXCEPT ![h] = command]
    /\ UNCHANGED <<members, pause, last, previous, field, seen>>

\* TryLock succeeds.  When it fails the handler answers "processing" and
\* returns: nothing changes.
Acquire(h, command) ==
    /\ lock = None
    /\ pc[h] = "idle"
    /\ lock' = h
    /\ pc' = [pc EXCEPT ![h] = command]
    /\ UNCHANGED <<members, pause, last, previous, field, seen>>

\* Mutant: the early returns come before the deferred Unlock is registered.
RefuseLocked(h) ==
    \E command \in Commands :
        /\ Goto(h, command, "idle")
        /\ UNCHANGED store

\* A command that took the lock returns before its first write: settings that
\* cannot be read, a cooldown still running, an acknowledgement Discord did not
\* take, a bad option, no permission, nothing to undo or redraw.
Refuse(h) ==
    \E command \in Commands :
        /\ command = "undo" => previous = None \/ StoreFaults
        /\ Goto(h, command, "done")
        /\ UNCHANGED store

\* The answer is sent and the deferred Unlock runs.
Release(h) ==
    /\ pc[h] = "done"
    /\ lock' = None
    /\ pc' = [pc EXCEPT ![h] = "idle"]
    /\ field' = [field EXCEPT ![h] = {}]
    /\ seen' = [seen EXCEPT ![h] = None]
    /\ UNCHANGED store

-----------------------------------------------------------------------------
(* /make, /next and /reroll.                                                *)

\* /make lists every member, the paused ones too, then takes the undo point.
MakeList(h) ==
    /\ \E players \in Listed(members) : GotoWith(h, "make", "make_snapshot", players)
    /\ UNCHANGED store

MakeSnapshot(h) ==
    /\ StoreSnapshot
    /\ Goto(h, "make_snapshot", "make_build")

NextCheck(h) ==
    /\ last # None
    /\ Goto(h, "next", "next_snapshot")
    /\ UNCHANGED store

\* Mutant: /next draws from everybody, as /make does.
NextListEverybody(h) ==
    /\ \E players \in Listed(members) : GotoWith(h, "next_list", "next_build", players)
    /\ UNCHANGED store

\* /next takes the undo point first, then lists the members who are not paused.
NextSnapshot(h) ==
    /\ StoreSnapshot
    /\ Goto(h, "next_snapshot", "next_list")

NextList(h) ==
    /\ \E players \in Listed(Unpaused) : GotoWith(h, "next_list", "next_build", players)
    /\ UNCHANGED store

\* The deferred call of Next: it runs whether or not a match was built.
NextDecrement(h) ==
    /\ StoreDecrementPauses
    /\ Goto(h, "next_decrement", "done")

RerollRead(h) ==
    /\ last # None
    /\ GotoWith(h, "reroll", "reroll_build", last.players)
    /\ UNCHANGED store

AfterBuild(label) == IF label = "next_build" THEN "next_decrement" ELSE "done"

\* Mutant: the error path of the build counts the pauses too.
RunMatchCounting(h) ==
    \E label \in Building :
        /\ Goto(h, label, AfterBuild(label))
        /\ \/ /\ ~EnoughPlayers(field[h])
              /\ StoreDecrementPauses
           \/ /\ EnoughPlayers(field[h])
              /\ \E match \in Lineups(field[h]) : StoreSaveLastMatch(match)

\* RunMatchWithPlayers: too few players is an error that leaves the room as it
\* is; otherwise the match that was built is saved.
RunMatch(h) ==
    \E label \in Building :
        /\ Goto(h, label, AfterBuild(label))
        /\ \/ /\ ~EnoughPlayers(field[h])
              /\ UNCHANGED store
           \/ /\ EnoughPlayers(field[h])
              /\ \E match \in Lineups(field[h]) : StoreSaveLastMatch(match)

-----------------------------------------------------------------------------
(* The other locking commands.                                              *)

Pause(h) ==
    /\ \E u \in Users, matches \in PauseLengths : StoreSetPause(u, matches)
    /\ Goto(h, "pause", "done")

Resume(h) ==
    /\ \E u \in Users : StoreResume(u)
    /\ Goto(h, "resume", "done")

Undo(h) ==
    /\ StoreUndo
    /\ Goto(h, "undo", "done")

Reset(h) ==
    /\ StoreReset
    /\ Goto(h, "reset", "done")

\* Mutant: /result lets go of the room once it has read the match.
ResultReadUnlocking(h) ==
    /\ last # None
    /\ pc[h] = "result"
    /\ pc' = [pc EXCEPT ![h] = "result_record"]
    /\ seen' = [seen EXCEPT ![h] = last]
    /\ lock' = None
    /\ UNCHANGED <<members, pause, last, previous, field>>

ResultRead(h) ==
    /\ last # None
    /\ pc[h] = "result"
    /\ pc' = [pc EXCEPT ![h] = "result_record"]
    /\ seen' = [seen EXCEPT ![h] = last]
    /\ UNCHANGED <<members, pause, last, previous, lock, field>>

\* RecordMatchResult writes player_stats and matches, never the room's row.
ResultRecord(h) ==
    /\ Goto(h, "result_record", "done")
    /\ UNCHANGED store

-----------------------------------------------------------------------------
(* What happens without the room's lock.                                    *)

Join(u) == StoreJoin(u) /\ UNCHANGED handlers

Leave(u) == StoreLeave(u) /\ UNCHANGED handlers

\* The paused member reacts to the pause notice (module PauseReaction says
\* which reactions get here).
ReactionResume(u) == StoreResume(u) /\ UNCHANGED handlers

\* The process dies and is started again.
Restart ==
    /\ lock' = None
    /\ pc' = [h \in Handlers |-> "idle"]
    /\ field' = [h \in Handlers |-> {}]
    /\ seen' = [h \in Handlers |-> None]
    /\ UNCHANGED store

-----------------------------------------------------------------------------

\* Every step of a command after TryLock.
Step(h) ==
    \/ Refuse(h)
    \/ MakeList(h)
    \/ MakeSnapshot(h)
    \/ NextCheck(h)
    \/ NextSnapshot(h)
    \/ NextList(h)
    \/ NextDecrement(h)
    \/ RerollRead(h)
    \/ RunMatch(h)
    \/ Pause(h)
    \/ Resume(h)
    \/ Undo(h)
    \/ Reset(h)
    \/ ResultRead(h)
    \/ ResultRecord(h)
    \/ Release(h)

\* Everything that happens while the process runs.
Serve ==
    \/ \E h \in Handlers, command \in Commands : Acquire(h, command)
    \/ \E h \in Handlers : Step(h)
    \/ \E u \in Users : Join(u)
    \/ \E u \in Users : Leave(u)
    \/ \E u \in Users : ReactionResume(u)

Next == Serve \/ Restart

Spec == Init /\ [][Next]_vars

\* A goroutine that has started is scheduled until it returns: no call it makes
\* waits for another command.
FairSpec == Spec /\ \A h \in Handlers : WF_vars(Step(h))

-----------------------------------------------------------------------------
(* Properties.                                                              *)

HandlersTypeOK ==
    /\ lock \in Handlers \cup {None}
    /\ pc \in [Handlers -> Labels]
    /\ field \in [Handlers -> SUBSET Users]
    /\ seen \in [Handlers -> Match \cup {None}]

\* Every variable keeps its type: in particular no pause counter drops below
\* zero or is left behind by a player who is gone.
TypeOK == StoreTypeOK /\ HandlersTypeOK

\* A handler is past its TryLock exactly when it holds the room's lock: of the
\* redrawing, undoing and recording commands of a room at most one is running,
\* and a handler that has returned or died does not keep the room locked.
LockHeldByRunner == \A h \in Handlers : pc[h] # "idle" <=> lock = h

\* Neither the room, nor the undo point, nor the line-up of a match (on the
\* board or kept to go back to), nor a list a handler still holds ever exceeds the capacity of a room, whatever joins,
\* departures and undos are interleaved: BuildMatch never sees the eleventh
\* player it refuses (ErrTooManyPlayers).
RoomWithinCapacity ==
    /\ Cardinality(members) <= MaxPlayers
    /\ last # None => Cardinality(last.players) <= MaxPlayers
    /\ previous # None =>
          /\ Cardinality(previous.members) <= MaxPlayers
          /\ previous.last # None => Cardinality(previous.last.players) <= MaxPlayers
    /\ \A h \in Handlers : Cardinality(field[h]) <= MaxPlayers

\* The list /next filtered is still right when the match is built and saved:
\* no player in it is paused, although /join, /leave and the reaction run
\* meanwhile.
NextFieldUnpaused ==
    \A h \in Handlers : pc[h] \in {"next_build", "next_decrement"} =>
        \A u \in field[h] : pause[u] = 0

\* /result credits the match that is on the board when it is recorded, never
\* one that a /make, /next, /reroll, /undo or /reset has replaced meanwhile.
ResultIsCurrent ==
    \A h \in Handlers : pc[h] = "result_record" => seen[h] = last /\ last # None

\* /reroll redraws the participants of the match that is still on the board.
RerollDrawsBoard ==
    \A h \in Handlers : pc[h] = "reroll_build" =>
        last # None /\ field[h] = last.players

\* While /make or /next builds, the undo point it took still holds the match
\* on the board, so the match about to be overwritten can be brought back.
\* (Only while the database does not fail: SnapshotRoomState drops its error.)
UndoPointFresh ==
    \A h \in Handlers : pc[h] \in {"make_build", "next_list", "next_build"} =>
        previous # None /\ previous.last = last

\* From its undo point to its end, /next sees every pause counter as it was at
\* the undo point, or zero.
PausesSinceUndoPoint ==
    \A h \in Handlers : pc[h] \in {"next_list", "next_build", "next_decrement"} =>
        /\ previous # None
        /\ \A u \in Users : pause[u] \in {0, previous.pause[u]}

\* At the end of /next every pause counter is one less than at the undo point
\* it took, or zero because the player came back or left meanwhile: no /next
\* counts twice, and none is undone by a concurrent command.
PausesCountedByNext ==
    [][\A h \in Handlers :
        pc[h] = "next_decrement" /\ pc'[h] = "done" =>
            \A u \in Users :
                \/ pause'[u] = 0
                \/ previous.pause[u] > 0 /\ pause'[u] = previous.pause[u] - 1]_vars

\* The inductive invariant behind the properties above: what holds whatever
\* the database does, and what needs it not to fail.
IInv ==
    /\ TypeOK
    /\ LockHeldByRunner
    /\ NextFieldUnpaused
    /\ ResultIsCurrent
    /\ RerollDrawsBoard

FaultFreeInv == UndoPointFresh /\ PausesSinceUndoPoint

\* The commands implement the promise of MatchBoard.
Board == INSTANCE MatchBoard WITH
    undo <- IF previous = None THEN None
            ELSE [members |-> previous.members, last |-> previous.last]

BoardSpec == Board!BoardSpec

\* The room's lock is always given back: every return of every handler runs
\* the deferred Unlock, and a process that dies takes the lock with it.
LockReleased == (lock # None) ~> (lock = None)
=============================================================================
