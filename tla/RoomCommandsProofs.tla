------------------------- MODULE RoomCommandsProofs -------------------------
(****************************************************************************)
(* Proofs about RoomCommands, for every set of users and handlers, every    *)
(* team size, capacity and pause length, with or without store faults       *)
(* unless a theorem says otherwise.                                         *)
(****************************************************************************)
EXTENDS UndoPromise, FiniteSetTheorems, TLAPS

\* A line-up is a match drawn from exactly the players it was asked for.
LEMMA LineupsAreMatches ==
    ASSUME NEW players \in SUBSET Users, NEW match \in Lineups(players)
    PROVE  match \in Match /\ match.players = players
BY DEF Lineups, Match

\* Nobody is paused in an empty room.
LEMMA NobodyPausedType == NobodyPaused \in [Users -> Nat]
BY DEF NobodyPaused

-----------------------------------------------------------------------------
(* Type correctness.                                                        *)

\* A handler that moves from label to label keeps its variables typed.
LEMMA GotoType ==
    ASSUME TypeOK, NEW h \in Handlers, NEW from, NEW to \in Labels, Goto(h, from, to)
    PROVE  HandlersTypeOK'
BY DEF TypeOK, HandlersTypeOK, Goto

LEMMA GotoWithType ==
    ASSUME TypeOK, NEW h \in Handlers, NEW from, NEW to \in Labels,
           NEW players \in SUBSET Users, GotoWith(h, from, to, players)
    PROVE  HandlersTypeOK'
BY DEF TypeOK, HandlersTypeOK, GotoWith

LEMMA StoreTypes ==
    ASSUME StoreTypeOK
    PROVE  /\ UNCHANGED store => StoreTypeOK'
           /\ \A u \in Users : StoreJoin(u) => StoreTypeOK'
           /\ \A u \in Users : StoreLeave(u) => StoreTypeOK'
           /\ \A u \in Users, n \in Nat : StoreSetPause(u, n) => StoreTypeOK'
           /\ StoreDecrementPauses => StoreTypeOK'
           /\ \A m \in Match : StoreSaveLastMatch(m) => StoreTypeOK'
           /\ StoreSnapshot => StoreTypeOK'
           /\ StoreUndo => StoreTypeOK'
           /\ StoreReset => StoreTypeOK'
<1>1. UNCHANGED store => StoreTypeOK'
  BY DEF StoreTypeOK, store
<1>2. ASSUME NEW u \in Users, StoreJoin(u) PROVE StoreTypeOK'
  BY <1>2 DEF StoreTypeOK, StoreJoin
<1>3. ASSUME NEW u \in Users, StoreLeave(u) PROVE StoreTypeOK'
  BY <1>3 DEF StoreTypeOK, StoreLeave
<1>4. ASSUME NEW u \in Users, NEW n \in Nat, StoreSetPause(u, n) PROVE StoreTypeOK'
  BY <1>4 DEF StoreTypeOK, StoreSetPause
<1>5. ASSUME StoreDecrementPauses PROVE StoreTypeOK'
  BY <1>5 DEF StoreTypeOK, StoreDecrementPauses, Written
<1>6. ASSUME NEW m \in Match, StoreSaveLastMatch(m) PROVE StoreTypeOK'
  BY <1>6 DEF StoreTypeOK, StoreSaveLastMatch, Written
<1>7. ASSUME StoreSnapshot PROVE StoreTypeOK'
  BY <1>7 DEF StoreTypeOK, StoreSnapshot, Written, CurrentState, Checkpoint
<1>8. ASSUME StoreUndo PROVE StoreTypeOK'
  BY <1>8 DEF StoreTypeOK, StoreUndo, Checkpoint
<1>9. ASSUME StoreReset PROVE StoreTypeOK'
  BY <1>1, <1>9 DEF StoreTypeOK, StoreReset, NobodyPaused, store
<1> QED
  BY <1>1, <1>2, <1>3, <1>4, <1>5, <1>6, <1>7, <1>8, <1>9

LEMMA StepType ==
    ASSUME TypeOK, NEW h \in Handlers, Step(h)
    PROVE  TypeOK'
<1> USE DEF TypeOK
<1>1. CASE Refuse(h)
  <2>1. PICK command \in Commands : Goto(h, command, "done") /\ UNCHANGED store
    BY <1>1 DEF Refuse
  <2>2. HandlersTypeOK'
    BY <2>1, GotoType DEF Labels, Building
  <2> QED BY <2>1, <2>2, StoreTypes
<1>2. CASE MakeList(h)
  <2>1. PICK players \in Listed(members) : GotoWith(h, "make", "make_snapshot", players)
    BY <1>2 DEF MakeList
  <2>2. players \in SUBSET Users
    BY DEF Listed, StoreTypeOK
  <2>3. HandlersTypeOK'
    BY <2>1, <2>2, GotoWithType DEF Labels, Building
  <2> QED BY <1>2, <2>3, StoreTypes DEF MakeList
<1>3. CASE MakeSnapshot(h)
  BY <1>3, StoreTypes, GotoType DEF MakeSnapshot, Labels, Building
<1>4. CASE NextCheck(h)
  BY <1>4, StoreTypes, GotoType DEF NextCheck, Labels, Building
<1>5. CASE NextSnapshot(h)
  BY <1>5, StoreTypes, GotoType DEF NextSnapshot, Labels, Building
<1>6. CASE NextList(h)
  <2>1. PICK players \in Listed(Unpaused) : GotoWith(h, "next_list", "next_build", players)
    BY <1>6 DEF NextList
  <2>2. players \in SUBSET Users
    BY DEF Listed, Unpaused, StoreTypeOK
  <2>3. HandlersTypeOK'
    BY <2>1, <2>2, GotoWithType DEF Labels, Building
  <2> QED BY <1>6, <2>3, StoreTypes DEF NextList
<1>7. CASE NextDecrement(h)
  BY <1>7, StoreTypes, GotoType DEF NextDecrement, Labels, Building
<1>8. CASE RerollRead(h)
  <2>1. last.players \in SUBSET Users
    BY <1>8 DEF RerollRead, StoreTypeOK, Match
  <2>2. HandlersTypeOK'
    BY <1>8, <2>1, GotoWithType DEF RerollRead, Labels, Building
  <2> QED BY <1>8, <2>2, StoreTypes DEF RerollRead
<1>9. CASE RunMatch(h)
  <2>1. PICK label \in Building : Goto(h, label, AfterBuild(label))
    BY <1>9 DEF RunMatch
  <2>2. HandlersTypeOK'
    BY <2>1, GotoType DEF Labels, Building, AfterBuild
  <2>3. field[h] \in SUBSET Users
    BY DEF HandlersTypeOK
  <2>4. \/ UNCHANGED store
        \/ \E match \in Lineups(field[h]) : StoreSaveLastMatch(match)
    BY <1>9 DEF RunMatch
  <2>5. StoreTypeOK'
    BY <2>3, <2>4, LineupsAreMatches, StoreTypes
  <2> QED BY <2>2, <2>5
<1>10. CASE Pause(h)
  BY <1>10, StoreTypes, GotoType, PausesPositive DEF Pause, Labels, Building
<1>11. CASE Resume(h)
  BY <1>11, StoreTypes, GotoType DEF Resume, StoreResume, Labels, Building
<1>12. CASE Undo(h)
  BY <1>12, StoreTypes, GotoType DEF Undo, Labels, Building
<1>13. CASE Reset(h)
  BY <1>13, StoreTypes, GotoType DEF Reset, Labels, Building
<1>14. CASE ResultRead(h)
  BY <1>14 DEF ResultRead, StoreTypeOK, HandlersTypeOK, Labels, Building
<1>15. CASE ResultRecord(h)
  BY <1>15, StoreTypes, GotoType DEF ResultRecord, Labels, Building
<1>16. CASE Release(h)
  BY <1>16, StoreTypes DEF Release, HandlersTypeOK, Labels, Building
<1> QED
  BY <1>1, <1>2, <1>3, <1>4, <1>5, <1>6, <1>7, <1>8, <1>9, <1>10, <1>11, <1>12,
     <1>13, <1>14, <1>15, <1>16 DEF Step

\* The counters never go negative, the undo point and the match on the board
\* are well formed, and handlers stay inside their program.
THEOREM TypeCorrect == Spec => []TypeOK
<1>1. Init => TypeOK
  BY DEF Init, StoreInit, TypeOK, StoreTypeOK, HandlersTypeOK, NobodyPaused, Labels
<1>2. TypeOK /\ [Next]_vars => TypeOK'
  <2> SUFFICES ASSUME TypeOK, [Next]_vars PROVE TypeOK'
    OBVIOUS
  <2> USE DEF TypeOK
  <2>1. ASSUME NEW h \in Handlers, NEW command \in Commands, Acquire(h, command)
        PROVE  TypeOK'
    BY <2>1 DEF Acquire, StoreTypeOK, HandlersTypeOK, Labels
  <2>2. ASSUME NEW h \in Handlers, Step(h) PROVE TypeOK'
    BY <2>2, StepType
  <2>3. ASSUME NEW u \in Users, Join(u) \/ Leave(u) \/ ReactionResume(u)
        PROVE  TypeOK'
    BY <2>3, StoreTypes DEF Join, Leave, ReactionResume, StoreResume, HandlersTypeOK, handlers
  <2>4. CASE Restart
    BY <2>4, StoreTypes DEF Restart, HandlersTypeOK, Labels
  <2>5. CASE UNCHANGED vars
    BY <2>5 DEF vars, StoreTypeOK, HandlersTypeOK
  <2> QED
    BY <2>1, <2>2, <2>3, <2>4, <2>5 DEF Next, Serve
<1> QED
  BY <1>1, <1>2, PTL DEF Spec

-----------------------------------------------------------------------------
(* Mutual exclusion, and what the lock protects.                            *)

\* While one handler moves, every other one is idle.
LEMMA OthersIdle ==
    ASSUME TypeOK, LockHeldByRunner, NEW h \in Handlers, Step(h)
    PROVE  /\ lock = h
           /\ \A g \in Handlers \ {h} : pc[g] = "idle" /\ pc'[g] = "idle"
<1>1. pc[h] # "idle" /\ \A g \in Handlers \ {h} : pc'[g] = pc[g]
  BY DEF Step, Refuse, MakeList, MakeSnapshot, NextCheck, NextSnapshot, NextList,
         NextDecrement, RerollRead, RunMatch, Pause, Resume, Undo, Reset, ResultRead,
         ResultRecord, Release, Goto, GotoWith, Commands, Building, TypeOK,
         HandlersTypeOK
<1>2. lock = h
  BY <1>1 DEF LockHeldByRunner
<1> QED
  BY <1>1, <1>2 DEF LockHeldByRunner

LEMMA LockStep ==
    ASSUME TypeOK, LockHeldByRunner, NEW h \in Handlers, Step(h)
    PROVE  LockHeldByRunner'
<1>1. lock = h /\ \A g \in Handlers \ {h} : pc[g] = "idle" /\ pc'[g] = "idle"
  BY OthersIdle
<1>2. CASE Release(h)
  BY <1>1, <1>2, NoneIsNoHandler DEF Release, LockHeldByRunner, TypeOK, HandlersTypeOK
<1>3. CASE ~Release(h)
  <2>1. lock' = lock /\ pc'[h] # "idle"
    BY <1>3 DEF Step, Refuse, MakeList, MakeSnapshot, NextCheck, NextSnapshot,
           NextList, NextDecrement, RerollRead, RunMatch, Pause, Resume, Undo, Reset,
           ResultRead, ResultRecord, Goto, GotoWith, Building, AfterBuild, TypeOK,
           HandlersTypeOK
  <2> QED BY <1>1, <2>1 DEF LockHeldByRunner
<1> QED BY <1>2, <1>3

LEMMA FieldStaysUnpaused ==
    ASSUME IInv, NEW h \in Handlers, Step(h)
    PROVE  NextFieldUnpaused'
<1> SUFFICES ASSUME pc'[h] \in {"next_build", "next_decrement"}, NEW u \in field'[h]
             PROVE  pause'[u] = 0
  BY OthersIdle DEF NextFieldUnpaused, IInv
<1> USE DEF IInv, TypeOK, HandlersTypeOK, Goto, GotoWith
<1>1. CASE NextList(h)
  BY <1>1 DEF NextList, Listed, Unpaused, store
<1>2. CASE RunMatch(h)
  BY <1>2 DEF RunMatch, NextFieldUnpaused, StoreSaveLastMatch, AfterBuild, Building, store
<1>3. CASE ~NextList(h) /\ ~RunMatch(h)
  BY <1>3 DEF Step, Refuse, MakeList, MakeSnapshot, NextCheck, NextSnapshot,
         NextDecrement, RerollRead, Pause, Resume, Undo, Reset, ResultRead,
         ResultRecord, Release
<1> QED BY <1>1, <1>2, <1>3

LEMMA ResultStaysCurrent ==
    ASSUME IInv, NEW h \in Handlers, Step(h)
    PROVE  ResultIsCurrent'
<1> SUFFICES ASSUME pc'[h] = "result_record" PROVE seen'[h] = last' /\ last' # None
  BY OthersIdle DEF ResultIsCurrent, IInv
<1> USE DEF IInv, TypeOK, HandlersTypeOK, Goto, GotoWith
<1>1. CASE ResultRead(h)
  BY <1>1 DEF ResultRead
<1>2. CASE ~ResultRead(h)
  BY <1>2 DEF Step, Refuse, MakeList, MakeSnapshot, NextCheck, NextSnapshot, NextList,
         NextDecrement, RerollRead, RunMatch, Pause, Resume, Undo, Reset,
         ResultRecord, Release, AfterBuild
<1> QED BY <1>1, <1>2

LEMMA RerollKeepsBoard ==
    ASSUME IInv, NEW h \in Handlers, Step(h)
    PROVE  RerollDrawsBoard'
<1> SUFFICES ASSUME pc'[h] = "reroll_build"
             PROVE  last' # None /\ field'[h] = last'.players
  BY OthersIdle DEF RerollDrawsBoard, IInv
<1> USE DEF IInv, TypeOK, HandlersTypeOK, Goto, GotoWith
<1>1. CASE RerollRead(h)
  BY <1>1 DEF RerollRead, store
<1>2. CASE ~RerollRead(h)
  BY <1>2 DEF Step, Refuse, MakeList, MakeSnapshot, NextCheck, NextSnapshot, NextList,
         NextDecrement, RunMatch, Pause, Resume, Undo, Reset, ResultRead,
         ResultRecord, Release, AfterBuild
<1> QED BY <1>1, <1>2

\* Whatever the database does, IInv is inductive.
THEOREM Inductive == Spec => []IInv
<1>1. Init => IInv
  <2> SUFFICES ASSUME Init PROVE IInv
    OBVIOUS
  <2>1. TypeOK
    BY DEF Init, StoreInit, TypeOK, StoreTypeOK, HandlersTypeOK, NobodyPaused, Labels
  <2>2. LockHeldByRunner /\ NextFieldUnpaused /\ ResultIsCurrent /\ RerollDrawsBoard
    BY NoneIsNoHandler DEF Init, LockHeldByRunner, NextFieldUnpaused, ResultIsCurrent,
           RerollDrawsBoard
  <2> QED BY <2>1, <2>2 DEF IInv
<1>2. IInv /\ TypeOK' /\ [Next]_vars => IInv'
  <2> SUFFICES ASSUME IInv, TypeOK', [Next]_vars PROVE IInv'
    OBVIOUS
  <2> USE DEF IInv, TypeOK, HandlersTypeOK
  <2>1. ASSUME NEW h \in Handlers, NEW command \in Commands, Acquire(h, command)
        PROVE  IInv'
    <3>1. command \notin {"idle", "next_build", "next_decrement", "result_record",
                             "reroll_build"}
      BY DEF Commands
    <3>2. \A g \in Handlers : pc[g] = "idle"
      BY <2>1, NoneIsNoHandler DEF Acquire, LockHeldByRunner
    <3> QED
      BY <2>1, <3>1, <3>2 DEF Acquire, LockHeldByRunner, NextFieldUnpaused, ResultIsCurrent,
           RerollDrawsBoard
  <2>2. ASSUME NEW h \in Handlers, Step(h) PROVE IInv'
    BY <2>2, LockStep, FieldStaysUnpaused, ResultStaysCurrent, RerollKeepsBoard
  <2>3. ASSUME NEW u \in Users, Join(u) \/ Leave(u) \/ ReactionResume(u)
        PROVE  IInv'
    BY <2>3 DEF Join, Leave, ReactionResume, StoreJoin, StoreLeave, StoreResume,
           StoreSetPause, handlers, LockHeldByRunner, NextFieldUnpaused, ResultIsCurrent,
           RerollDrawsBoard, StoreTypeOK
  <2>4. CASE Restart
    BY <2>4, NoneIsNoHandler DEF Restart, LockHeldByRunner, NextFieldUnpaused,
           ResultIsCurrent, RerollDrawsBoard
  <2>5. CASE UNCHANGED vars
    BY <2>5 DEF vars, LockHeldByRunner, NextFieldUnpaused, ResultIsCurrent,
           RerollDrawsBoard
  <2> QED
    BY <2>1, <2>2, <2>3, <2>4, <2>5 DEF Next, Serve
<1> QED
  BY <1>1, <1>2, TypeCorrect, PTL DEF Spec

\* At most one locking command of the room runs at a time, and the lock is
\* free when none does.
THEOREM MutualExclusion == Spec => []LockHeldByRunner
BY Inductive, PTL DEF IInv

\* No /next draws a player who is paused when the match is saved.
THEOREM NextSkipsPaused == Spec => []NextFieldUnpaused
BY Inductive, PTL DEF IInv

\* The match /result credits is the match on the board.
THEOREM ResultCurrent == Spec => []ResultIsCurrent
BY Inductive, PTL DEF IInv

\* /reroll redraws the players of the match that is on the board when it saves.
THEOREM RerollDrawsTheBoard == Spec => []RerollDrawsBoard
BY Inductive, PTL DEF IInv

-----------------------------------------------------------------------------
(* Capacity.                                                                *)

LEMMA SubsetsAreSmaller ==
    ASSUME NEW S \in SUBSET Users, NEW T \in SUBSET S
    PROVE  Cardinality(T) \in Nat /\ Cardinality(T) <= Cardinality(S)
BY UsersFinite, FS_Subset, FS_CardinalityType

LEMMA CapacityStep ==
    ASSUME TypeOK, TypeOK', RoomWithinCapacity, NEW h \in Handlers, Step(h)
    PROVE  RoomWithinCapacity'
<1> USE DEF TypeOK, StoreTypeOK, HandlersTypeOK, RoomWithinCapacity
<1> DEFINE Small(S) == Cardinality(S) <= MaxPlayers
<1>0. Small({})
  BY FS_EmptySet, CapacityNatural
<1>1. \A S \in SUBSET members : Small(S)
  BY SubsetsAreSmaller, CapacityNatural
<1>2. Small(members')
  <2>1. members' = members \/ members' = {} \/ (previous # None /\ members' = previous.members)
    BY DEF Step, Refuse, MakeList, MakeSnapshot, NextCheck, NextSnapshot, NextList,
           NextDecrement, RerollRead, RunMatch, Pause, Resume, Undo, Reset, ResultRead,
           ResultRecord, Release, StoreSnapshot, StoreDecrementPauses,
           StoreSaveLastMatch, StoreSetPause, StoreResume, StoreUndo, StoreReset, store
  <2> QED BY <2>1, <1>0
<1>3. previous' # None => /\ Small(previous'.members)
                          /\ previous'.last # None => Small(previous'.last.players)
  <2>1. previous' \in {previous, CurrentState, None}
    BY DEF Step, Refuse, MakeList, MakeSnapshot, NextCheck, NextSnapshot, NextList,
           NextDecrement, RerollRead, RunMatch, Pause, Resume, Undo, Reset, ResultRead,
           ResultRecord, Release, StoreSnapshot, StoreDecrementPauses,
           StoreSaveLastMatch, StoreSetPause, StoreResume, StoreUndo, StoreReset, store,
           Written
  <2> QED BY <2>1 DEF CurrentState
<1>4. last' # None => Small(last'.players)
  <2>1. CASE RunMatch(h)
    <3>1. \/ last' = last
          \/ \E match \in Lineups(field[h]) : last' = match
      BY <2>1 DEF RunMatch, StoreSaveLastMatch, Written, store
    <3> QED BY <3>1, LineupsAreMatches
  <2>2. CASE Undo(h)
    BY <2>2 DEF Undo, StoreUndo, Checkpoint
  <2>3. CASE ~RunMatch(h) /\ ~Undo(h)
    BY <2>3 DEF Step, Refuse, MakeList, MakeSnapshot, NextCheck, NextSnapshot, NextList,
           NextDecrement, RerollRead, Pause, Resume, Reset, ResultRead,
           ResultRecord, Release, StoreSnapshot, StoreDecrementPauses,
           StoreSetPause, StoreResume, StoreReset, store
  <2> QED BY <2>1, <2>2, <2>3
<1>5. \A g \in Handlers : Small(field'[g])
  <2>1. \A g \in Handlers : \/ field'[g] = field[g]
                            \/ field'[g] \in SUBSET members
                            \/ last # None /\ field'[g] = last.players
    BY DEF Step, Refuse, MakeList, MakeSnapshot, NextCheck, NextSnapshot, NextList,
           NextDecrement, RerollRead, RunMatch, Pause, Resume, Undo, Reset, ResultRead,
           ResultRecord, Release, Goto, GotoWith, Listed, Unpaused
  <2> QED BY <2>1, <1>1
<1> QED BY <1>2, <1>3, <1>4, <1>5

\* No interleaving of joins, departures, undos and draws takes a room, an undo
\* point or a line-up past its capacity, with or without store faults.
THEOREM CapacityHolds == Spec => []RoomWithinCapacity
<1>1. Init => RoomWithinCapacity
  BY FS_EmptySet, CapacityNatural DEF Init, StoreInit, RoomWithinCapacity
<1>2. TypeOK /\ TypeOK' /\ RoomWithinCapacity /\ [Next]_vars => RoomWithinCapacity'
  <2> SUFFICES ASSUME TypeOK, TypeOK', RoomWithinCapacity, [Next]_vars
               PROVE  RoomWithinCapacity'
    OBVIOUS
  <2>1. ASSUME NEW h \in Handlers, NEW command \in Commands, Acquire(h, command)
        PROVE  RoomWithinCapacity'
    BY <2>1 DEF Acquire, RoomWithinCapacity
  <2>2. ASSUME NEW h \in Handlers, Step(h) PROVE RoomWithinCapacity'
    BY <2>2, CapacityStep
  <2>3. ASSUME NEW u \in Users, Join(u) PROVE RoomWithinCapacity'
    <3>1. IsFiniteSet(members)
      BY UsersFinite, FS_Subset DEF TypeOK, StoreTypeOK
    <3>2. Cardinality(members \cup {u}) = Cardinality(members) + 1
      BY <2>3, <3>1, FS_AddElement DEF Join, StoreJoin
    <3>3. Cardinality(members) + 1 <= MaxPlayers
      BY <2>3, <3>1, FS_CardinalityType, CapacityNatural DEF Join, StoreJoin
    <3> QED
      BY <2>3, <3>2, <3>3 DEF Join, StoreJoin, handlers, RoomWithinCapacity
  <2>4. ASSUME NEW u \in Users, Leave(u) PROVE RoomWithinCapacity'
    <3>1. Cardinality(members \ {u}) <= Cardinality(members)
          /\ Cardinality(members \ {u}) \in Nat /\ Cardinality(members) \in Nat
      BY SubsetsAreSmaller DEF TypeOK, StoreTypeOK
    <3> QED
      BY <2>4, <3>1, CapacityNatural DEF Leave, StoreLeave, handlers, RoomWithinCapacity
  <2>5. ASSUME NEW u \in Users, ReactionResume(u) PROVE RoomWithinCapacity'
    BY <2>5 DEF ReactionResume, StoreResume, StoreSetPause, handlers, RoomWithinCapacity
  <2>6. CASE Restart
    BY <2>6, FS_EmptySet, CapacityNatural DEF Restart, store, RoomWithinCapacity
  <2>7. CASE UNCHANGED vars
    BY <2>7 DEF vars, RoomWithinCapacity
  <2> QED
    BY <2>1, <2>2, <2>3, <2>4, <2>5, <2>6, <2>7 DEF Next, Serve
<1> QED
  BY <1>1, <1>2, TypeCorrect, PTL DEF Spec

-----------------------------------------------------------------------------
(* The undo point, when no write of the database fails.                     *)

\* A step of the only running handler keeps its undo point fresh.
LEMMA UndoPointStep ==
    ASSUME ~StoreFaults, IInv, FaultFreeInv, NEW h \in Handlers, Step(h)
    PROVE  UndoPointFresh'
<1> SUFFICES ASSUME pc'[h] \in {"make_build", "next_list", "next_build"}
             PROVE  previous' # None /\ previous'.last = last'
  BY OthersIdle DEF UndoPointFresh, IInv
<1> USE DEF IInv, TypeOK, HandlersTypeOK, StoreTypeOK, Goto, GotoWith
<1>1. CASE MakeSnapshot(h) \/ NextSnapshot(h)
  BY <1>1, NoneIsNoCheckpoint DEF MakeSnapshot, NextSnapshot, StoreSnapshot, Written,
         CurrentState, Checkpoint
<1>2. CASE NextList(h)
  BY <1>2 DEF NextList, store, FaultFreeInv, UndoPointFresh
<1>3. CASE ~MakeSnapshot(h) /\ ~NextSnapshot(h) /\ ~NextList(h)
  BY <1>3 DEF Step, Refuse, MakeList, NextCheck, NextDecrement, RerollRead, RunMatch,
         Pause, Resume, Undo, Reset, ResultRead, ResultRecord, Release, AfterBuild
<1> QED BY <1>1, <1>2, <1>3

LEMMA PausesStep ==
    ASSUME ~StoreFaults, IInv, FaultFreeInv, NEW h \in Handlers, Step(h)
    PROVE  PausesSinceUndoPoint'
<1> SUFFICES ASSUME pc'[h] \in {"next_list", "next_build", "next_decrement"}
             PROVE  previous' # None /\ \A u \in Users : pause'[u] \in {0, previous'.pause[u]}
  BY OthersIdle DEF PausesSinceUndoPoint, IInv
<1> USE DEF IInv, TypeOK, HandlersTypeOK, StoreTypeOK, Goto, GotoWith
<1>1. CASE NextSnapshot(h)
  BY <1>1, NoneIsNoCheckpoint DEF NextSnapshot, StoreSnapshot, Written, CurrentState,
         Checkpoint
<1>2. CASE NextList(h)
  BY <1>2 DEF NextList, store, FaultFreeInv, PausesSinceUndoPoint
<1>3. CASE RunMatch(h)
  BY <1>3 DEF RunMatch, StoreSaveLastMatch, AfterBuild, store, FaultFreeInv,
         PausesSinceUndoPoint
<1>4. CASE ~NextSnapshot(h) /\ ~NextList(h) /\ ~RunMatch(h)
  BY <1>4 DEF Step, Refuse, MakeList, MakeSnapshot, NextCheck, NextDecrement, RerollRead,
         Pause, Resume, Undo, Reset, ResultRead, ResultRecord, Release
<1> QED BY <1>1, <1>2, <1>3, <1>4

\* While the database does not fail, FaultFreeInv is inductive relative to IInv.
THEOREM FaultFreeInductive ==
    ASSUME ~StoreFaults
    PROVE  Spec => []FaultFreeInv
<1>1. Init => FaultFreeInv
  BY DEF Init, FaultFreeInv, UndoPointFresh, PausesSinceUndoPoint
<1>2. IInv /\ FaultFreeInv /\ [Next]_vars => FaultFreeInv'
  <2> SUFFICES ASSUME IInv, FaultFreeInv, [Next]_vars PROVE FaultFreeInv'
    OBVIOUS
  <2> USE DEF IInv, TypeOK, HandlersTypeOK, FaultFreeInv
  <2>1. ASSUME NEW h \in Handlers, NEW command \in Commands, Acquire(h, command)
        PROVE  FaultFreeInv'
    BY <2>1, NoneIsNoHandler DEF Acquire, Commands, LockHeldByRunner, UndoPointFresh,
           PausesSinceUndoPoint
  <2>2. ASSUME NEW h \in Handlers, Step(h) PROVE FaultFreeInv'
    BY <2>2, UndoPointStep, PausesStep
  <2>3. ASSUME NEW u \in Users, Join(u) \/ Leave(u) \/ ReactionResume(u)
        PROVE  FaultFreeInv'
    BY <2>3 DEF Join, Leave, ReactionResume, StoreJoin, StoreLeave, StoreResume,
           StoreSetPause, StoreTypeOK, handlers, UndoPointFresh, PausesSinceUndoPoint
  <2>4. CASE Restart
    BY <2>4 DEF Restart, UndoPointFresh, PausesSinceUndoPoint
  <2>5. CASE UNCHANGED vars
    BY <2>5 DEF vars, UndoPointFresh, PausesSinceUndoPoint
  <2> QED
    BY <2>1, <2>2, <2>3, <2>4, <2>5 DEF Next, Serve
<1> QED
  BY <1>1, <1>2, Inductive, PTL DEF Spec

\* /make and /next overwrite no match that the undo point does not hold.
THEOREM UndoPointIsFresh ==
    ASSUME ~StoreFaults
    PROVE  Spec => []UndoPointFresh
BY FaultFreeInductive, PTL DEF FaultFreeInv

\* Each /next takes exactly one match off every pause that survives it.
THEOREM NextCountsPausesOnce ==
    ASSUME ~StoreFaults
    PROVE  Spec => PausesCountedByNext
<1> DEFINE Counted(h, u) == \/ pause'[u] = 0
                            \/ previous.pause[u] > 0 /\ pause'[u] = previous.pause[u] - 1
<1>1. IInv /\ FaultFreeInv /\ [Next]_vars =>
        [\A h \in Handlers : pc[h] = "next_decrement" /\ pc'[h] = "done" =>
            \A u \in Users : Counted(h, u)]_vars
  <2> SUFFICES ASSUME IInv, FaultFreeInv, Next,
                      NEW h \in Handlers, pc[h] = "next_decrement", pc'[h] = "done",
                      NEW u \in Users
               PROVE  Counted(h, u)
    OBVIOUS
  <2>1. lock = h
    BY DEF IInv, LockHeldByRunner
  <2>2. NextDecrement(h)
    <3>1. PICK g \in Handlers : Step(g)
      BY <2>1, NoneIsNoHandler DEF Next, Serve, Acquire, Join, Leave, ReactionResume,
             Restart, handlers
    <3>2. g = h
      BY <3>1, <2>1, OthersIdle DEF IInv
    <3> QED
      BY <3>1, <3>2 DEF Step, Refuse, MakeList, MakeSnapshot, NextCheck, NextSnapshot,
             NextList, RerollRead, RunMatch, Pause, Resume, Undo, Reset, ResultRead,
             ResultRecord, Release, Goto, GotoWith, Commands, Building
  <2>3. pause'[u] = IF pause[u] > 0 THEN pause[u] - 1 ELSE 0
    BY <2>2 DEF NextDecrement, StoreDecrementPauses, Written
  <2>4. pause[u] \in Nat /\ pause[u] \in {0, previous.pause[u]}
    BY DEF IInv, TypeOK, StoreTypeOK, FaultFreeInv, PausesSinceUndoPoint
  <2> QED
    BY <2>3, <2>4
<1> QED
  BY <1>1, Inductive, FaultFreeInductive, PTL DEF Spec, PausesCountedByNext

-----------------------------------------------------------------------------
(* The commands implement MatchBoard.                                       *)

UndoOnBoard == IF previous = None THEN None
               ELSE [members |-> previous.members, last |-> previous.last]

\* The instance counts and draws as RoomCommands does.
LEMMA BoardCardinality == \A S : Board!Cardinality(S) = Cardinality(S)
BY DEF Board!Cardinality, Cardinality, Board!IsFiniteSet, IsFiniteSet

LEMMA BoardLineups == \A players : Board!Lineups(players) = Lineups(players)
BY BoardCardinality DEF Board!Lineups, Lineups

\* What the steps of the store look like on the board.
LEMMA QuietSteps ==
    ASSUME \/ UNCHANGED store
           \/ StoreDecrementPauses
           \/ \E u \in Users, n \in Nat : StoreSetPause(u, n)
    PROVE  UNCHANGED <<members, last, UndoOnBoard>>
BY DEF store, StoreDecrementPauses, StoreSetPause, UndoOnBoard

LEMMA SnapshotOnBoard ==
    ASSUME ~StoreFaults, TypeOK, StoreSnapshot
    PROVE  Board!MarkUndoPoint
<1>1. previous' = CurrentState /\ previous' # None
  BY NoneIsNoCheckpoint DEF StoreSnapshot, Written, CurrentState, Checkpoint, TypeOK,
         StoreTypeOK
<1>2. UndoOnBoard' = [members |-> members, last |-> last]
  BY <1>1 DEF UndoOnBoard, CurrentState
<1> QED
  BY <1>2 DEF StoreSnapshot, Board!MarkUndoPoint, Board!Recorded, UndoOnBoard

LEMMA UndoStepOnBoard ==
    ASSUME TypeOK, StoreUndo
    PROVE  Board!GoBack
<1>1. UndoOnBoard = [members |-> previous.members, last |-> previous.last]
  BY DEF StoreUndo, UndoOnBoard
<1>2. UndoOnBoard \in BoardState /\ UndoOnBoard # None
  BY <1>1, NoneIsNoBoardState DEF BoardState, Checkpoint, TypeOK, StoreTypeOK, StoreUndo
<1> QED
  BY <1>1, <1>2 DEF StoreUndo, Board!GoBack, UndoOnBoard

LEMMA BuildOnBoard ==
    ASSUME ~StoreFaults, IInv, FaultFreeInv, NEW h \in Handlers, RunMatch(h)
    PROVE  Board!BoardNext \/ UNCHANGED <<members, last, UndoOnBoard>>
<1> USE DEF IInv, TypeOK, HandlersTypeOK, StoreTypeOK
<1>1. PICK label \in Building : Goto(h, label, AfterBuild(label))
  BY DEF RunMatch
<1>2. CASE UNCHANGED store
  BY <1>2 DEF store, UndoOnBoard
<1>3. ASSUME NEW match \in Lineups(field[h]), StoreSaveLastMatch(match)
      PROVE  Board!BoardNext
  <2>1. last' \in Lineups(field[h]) /\ UNCHANGED <<members, UndoOnBoard>>
    BY <1>3 DEF StoreSaveLastMatch, Written, UndoOnBoard
  <2>2. CASE label = "reroll_build"
    <3>1. last # None /\ field[h] = last.players
      BY <1>1, <2>2 DEF Goto, RerollDrawsBoard
    <3> QED BY <2>1, <3>1, BoardLineups DEF Board!BoardNext, Board!Redraw, UndoOnBoard
  <2>3. CASE label \in {"make_build", "next_build"}
    <3>1. previous # None /\ previous.last = last
      BY <1>1, <2>3 DEF Goto, FaultFreeInv, UndoPointFresh
    <3>2. UndoOnBoard \in BoardState /\ UndoOnBoard # None /\ UndoOnBoard.last = last
      BY <3>1, NoneIsNoBoardState DEF UndoOnBoard, BoardState, Checkpoint
    <3>3. Board!Publish(field[h])
      BY <2>1, <3>2, BoardLineups DEF Board!Publish, UndoOnBoard
    <3> QED BY <3>3 DEF Board!BoardNext
  <2> QED BY <1>1, <2>2, <2>3 DEF Building
<1> QED BY <1>2, <1>3 DEF RunMatch

\* While the database does not fail, the commands of a room keep the promise of
\* MatchBoard: no match is overwritten that /undo could not bring back, a reroll
\* keeps its participants, and an undo point is used once.
THEOREM CommandsImplementBoard ==
    ASSUME ~StoreFaults
    PROVE  Spec => BoardSpec
<1>1. Init => Board!BoardInit
  BY DEF Init, StoreInit, Board!BoardInit
<1>2. IInv /\ FaultFreeInv /\ [Next]_vars =>
        Board!BoardNext \/ UNCHANGED <<members, last, UndoOnBoard>>
  <2> SUFFICES ASSUME IInv, FaultFreeInv, [Next]_vars
               PROVE  Board!BoardNext \/ UNCHANGED <<members, last, UndoOnBoard>>
    OBVIOUS
  <2> TypeOK
    BY DEF IInv
  <2>1. ASSUME NEW h \in Handlers, Step(h)
        PROVE  Board!BoardNext \/ UNCHANGED <<members, last, UndoOnBoard>>
    <3>1. CASE MakeSnapshot(h) \/ NextSnapshot(h)
      BY <3>1, SnapshotOnBoard DEF MakeSnapshot, NextSnapshot, Board!BoardNext
    <3>2. CASE RunMatch(h)
      BY <3>2, BuildOnBoard
    <3>3. CASE Undo(h)
      BY <3>3, UndoStepOnBoard DEF Undo, Board!BoardNext
    <3>4. CASE Reset(h)
      BY <3>4 DEF Reset, StoreReset, Board!BoardNext, Board!Clear, UndoOnBoard
    <3>5. CASE Pause(h)
      BY <3>5, QuietSteps, PausesPositive DEF Pause
    <3>6. CASE Resume(h)
      BY <3>6, QuietSteps DEF Resume, StoreResume
    <3>7. CASE NextDecrement(h)
      BY <3>7, QuietSteps DEF NextDecrement
    <3>8. CASE ResultRead(h)
      BY <3>8 DEF ResultRead, UndoOnBoard
    <3> QED
      BY <2>1, <3>1, <3>2, <3>3, <3>4, <3>5, <3>6, <3>7, <3>8, QuietSteps
         DEF Step, Refuse, MakeList, NextCheck, NextList, RerollRead, ResultRecord, Release
  <2>2. ASSUME NEW u \in Users, Join(u) \/ Leave(u)
        PROVE  Board!BoardNext
    BY <2>2, BoardCardinality DEF Join, Leave, StoreJoin, StoreLeave, Board!BoardNext, Board!Enter,
           Board!Exit, UndoOnBoard
  <2>3. ASSUME NEW u \in Users, ReactionResume(u)
        PROVE  UNCHANGED <<members, last, UndoOnBoard>>
    BY <2>3, QuietSteps DEF ReactionResume, StoreResume
  <2>4. CASE Restart \/ \E h \in Handlers, command \in Commands : Acquire(h, command)
    BY <2>4 DEF Restart, Acquire, store, UndoOnBoard
  <2>5. CASE UNCHANGED vars
    BY <2>5 DEF vars, UndoOnBoard
  <2> QED
    BY <2>1, <2>2, <2>3, <2>4, <2>5 DEF Next, Serve
<1> QED
  BY <1>1, <1>2, Inductive, FaultFreeInductive, PTL DEF Spec, BoardSpec, Board!BoardSpec,
     Board!boardVars, UndoOnBoard

-----------------------------------------------------------------------------
(* Where the promise of /undo is kept.                                      *)

\* No /make or /next finds too few players once its undo point is taken.
DrawsSucceed ==
    \A h \in Handlers : pc[h] \in {"make_build", "next_build"} => EnoughPlayers(field[h])

Drawing(h) == pc[h] \in {"make_build", "next_list", "next_build"}

\* Outside a draw, an undo point holds the match that the last result replaced.
UndoPointKept ==
    previous # None /\ (\A h \in Handlers : ~Drawing(h)) => previous.last = replaced

LEMMA PromiseIsServe == PromiseSpec => Spec
<1>1. PromiseInit => Init
  BY DEF PromiseInit
<1>2. [PromiseNext]_<<vars, replaced>> => [Next]_vars
  BY DEF PromiseNext, Next
<1> QED
  BY <1>1, <1>2, PTL DEF PromiseSpec, Spec

LEMMA UndoPointStaysKept ==
    ASSUME ~StoreFaults, IInv, FaultFreeInv, DrawsSucceed, UndoPointKept, PromiseNext
    PROVE  UndoPointKept'
<1> USE DEF IInv, TypeOK, HandlersTypeOK, StoreTypeOK
<1>1. CASE \E h \in Handlers : Draws(h)
  <2>1. PICK h \in Handlers : Draws(h)
    BY <1>1
  <2>2. replaced' = last /\ UNCHANGED previous
    BY <1>1, <2>1 DEF PromiseNext, Draws, RunMatch, StoreSaveLastMatch, store
  <2>3. previous.last = last
    BY <2>1 DEF Draws, FaultFreeInv, UndoPointFresh
  <2> QED BY <2>2, <2>3 DEF UndoPointKept
<1>2. CASE \E h \in Handlers : Undo(h) \/ Reset(h)
  BY <1>2 DEF Undo, Reset, StoreUndo, StoreReset, UndoPointKept
<1>3. CASE /\ ~ \E h \in Handlers : Draws(h)
           /\ ~ \E h \in Handlers : Undo(h) \/ Reset(h)
  <2>1. replaced' = replaced
    BY <1>3 DEF PromiseNext
  <2>2. ASSUME NEW h \in Handlers, Step(h) PROVE UndoPointKept'
    <3>1. \A g \in Handlers \ {h} : ~Drawing(g)
      BY <2>2, OthersIdle DEF Drawing
    <3>2. CASE MakeSnapshot(h) \/ NextSnapshot(h) \/ NextList(h)
      <4>1. Drawing(h)'
        BY <3>2 DEF MakeSnapshot, NextSnapshot, NextList, Goto, GotoWith, Drawing
      <4> QED BY <4>1 DEF UndoPointKept
    <3>3. CASE RunMatch(h)
      <4>1. pc[h] = "reroll_build" /\ UNCHANGED previous
        BY <1>3, <3>3 DEF RunMatch, Draws, DrawsSucceed, Goto, Building, store,
               StoreSaveLastMatch
      <4> QED BY <2>1, <3>1, <4>1 DEF UndoPointKept, Drawing
    <3>4. CASE ~(MakeSnapshot(h) \/ NextSnapshot(h) \/ NextList(h) \/ RunMatch(h))
      <4>1. ~Drawing(h) /\ UNCHANGED previous
        BY <1>3, <2>2, <3>4
           DEF Step, Refuse, MakeList, NextCheck, NextDecrement, RerollRead, Pause, Resume,
               ResultRead, ResultRecord, Release, Goto, GotoWith, Commands, Drawing, store,
               StoreDecrementPauses, StoreResume, StoreSetPause
      <4> QED BY <2>1, <3>1, <4>1 DEF UndoPointKept
    <3> QED BY <3>2, <3>3, <3>4
  <2>3. ASSUME NEW h \in Handlers, NEW command \in Commands, Acquire(h, command)
        PROVE  UndoPointKept'
    <3>1. UNCHANGED previous /\ \A g \in Handlers : ~Drawing(g)
      BY <2>3, NoneIsNoHandler DEF Acquire, LockHeldByRunner, Drawing
    <3> QED BY <2>1, <3>1 DEF UndoPointKept
  <2>4. ASSUME NEW u \in Users, Join(u) \/ Leave(u) \/ ReactionResume(u)
        PROVE  UndoPointKept'
    BY <2>1, <2>4 DEF Join, Leave, ReactionResume, StoreJoin, StoreLeave, StoreResume,
           StoreSetPause, handlers, UndoPointKept, Drawing
  <2> QED BY <2>2, <2>3, <2>4 DEF PromiseNext, Serve
<1> QED
  BY <1>1, <1>2, <1>3

\* "undo last /make or /next result" (commands.go:137) is true of every /undo, if
\* no /make or /next has failed for want of players after its undo point was
\* taken, no write was lost and the process has not died.
THEOREM UndoRevertsSuccessfulDraws ==
    ASSUME ~StoreFaults
    PROVE  PromiseSpec /\ []DrawsSucceed => UndoRevertsLastResult
<1>1. PromiseInit => UndoPointKept
  BY DEF PromiseInit, Init, StoreInit, UndoPointKept
<1>2. IInv /\ FaultFreeInv /\ DrawsSucceed /\ UndoPointKept
        /\ [PromiseNext]_<<vars, replaced>> => UndoPointKept'
  <2> SUFFICES ASSUME IInv, FaultFreeInv, DrawsSucceed, UndoPointKept,
                      UNCHANGED <<vars, replaced>>
               PROVE  UndoPointKept'
    BY UndoPointStaysKept
  <2> QED BY DEF vars, UndoPointKept, Drawing
<1>3. IInv /\ UndoPointKept =>
        [\A h \in Handlers : Undo(h) => last' = replaced]_<<vars, replaced>>
  <2> SUFFICES ASSUME IInv, UndoPointKept, NEW h \in Handlers, Undo(h)
               PROVE  last' = replaced
    OBVIOUS
  <2>1. \A g \in Handlers : ~Drawing(g)
    BY DEF Undo, Goto, Drawing, IInv, LockHeldByRunner
  <2> QED BY <2>1 DEF Undo, StoreUndo, UndoPointKept
<1> QED
  BY <1>1, <1>2, <1>3, PromiseIsServe, Inductive, FaultFreeInductive, PTL
     DEF PromiseSpec, UndoRevertsLastResult
=============================================================================
