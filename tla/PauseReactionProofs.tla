------------------------- MODULE PauseReactionProofs -------------------------
(****************************************************************************)
(* Proofs about PauseReaction, for every number of members, reactions and   *)
(* notices, with or without database faults.                                *)
(****************************************************************************)
EXTENDS PauseReaction, TLAPS

-----------------------------------------------------------------------------
(* The store.                                                               *)

\* The operations of the store, one after another, keep the type of the room.
LEMMA StoreSteps ==
    ASSUME StoreTypeOK,
           \/ \E u \in Users : StoreJoin(u) \/ StoreLeave(u) \/ StoreResume(u)
           \/ \E u \in Users, matches \in PauseLengths : StoreSetPause(u, matches)
           \/ StoreDecrementPauses \/ StoreSnapshot \/ StoreUndo \/ StoreReset
    PROVE  StoreTypeOK'
<1> USE DEF StoreTypeOK
<1>1. ASSUME NEW u \in Users, StoreJoin(u) PROVE StoreTypeOK'
  BY <1>1 DEF StoreJoin
<1>2. ASSUME NEW u \in Users, StoreLeave(u) PROVE StoreTypeOK'
  BY <1>2 DEF StoreLeave
<1>3. ASSUME NEW u \in Users, NEW matches \in Nat, StoreSetPause(u, matches)
      PROVE  StoreTypeOK'
  BY <1>3 DEF StoreSetPause
<1>4. ASSUME NEW u \in Users, StoreResume(u) PROVE StoreTypeOK'
  BY <1>3, <1>4 DEF StoreResume
<1>5. ASSUME NEW u \in Users, NEW matches \in PauseLengths, StoreSetPause(u, matches)
      PROVE  StoreTypeOK'
  BY <1>3, <1>5, PausesPositive
<1>6. CASE StoreDecrementPauses
  BY <1>6 DEF StoreDecrementPauses, Written
<1>7. CASE StoreSnapshot
  <2>1. CurrentState \in Checkpoint
    BY DEF CurrentState, Checkpoint
  <2> QED BY <1>7, <2>1 DEF StoreSnapshot, Written, CurrentState
<1>8. CASE StoreUndo
  BY <1>8, NoneIsNoCheckpoint DEF StoreUndo, Checkpoint
<1>9. CASE StoreReset
  BY <1>9 DEF StoreReset, NobodyPaused, store
<1> QED BY <1>1, <1>2, <1>4, <1>5, <1>6, <1>7, <1>8, <1>9

\* A pause that is running after a step of another command, a departure or a
\* reaction was running before it.
LEMMA NoNewPause ==
    ASSUME StoreTypeOK, NEW u \in Users, pause'[u] > 0,
           \/ \E w \in Users : StoreJoin(w) \/ StoreLeave(w) \/ StoreResume(w)
           \/ StoreDecrementPauses \/ StoreSnapshot \/ StoreReset
    PROVE  pause[u] > 0
<1> USE DEF StoreTypeOK
<1>1. CASE \E w \in Users : StoreJoin(w) \/ StoreLeave(w) \/ StoreResume(w)
  BY <1>1 DEF StoreJoin, StoreLeave, StoreResume, StoreSetPause
<1>2. CASE StoreDecrementPauses
  <2>1. CASE pause' = pause
    BY <2>1
  <2>2. CASE pause' = [w \in Users |-> IF pause[w] > 0 THEN pause[w] - 1 ELSE 0]
    BY <2>2
  <2> QED BY <1>2, <2>1, <2>2 DEF StoreDecrementPauses, Written
<1>3. CASE StoreSnapshot
  BY <1>3 DEF StoreSnapshot
<1>4. CASE StoreReset
  BY <1>4 DEF StoreReset, NobodyPaused, store
<1> QED BY <1>1, <1>2, <1>3, <1>4

-----------------------------------------------------------------------------
(* Type correctness.                                                        *)

LEMMA Distinct == NoPause.step = "idle" /\ Sleeping.step = "idle"
BY DEF NoPause, Sleeping

\* A goroutine past its look-up works on a notice posted for the member it is
\* about to resume, whatever else happens in the room.
THEOREM TypeCorrect == Spec => []TypeOK
<1>1. Init => TypeOK
  BY DEF Init, StoreInit, TypeOK, StoreTypeOK, NobodyPaused, NoPause, Sleeping
<1>2. TypeOK /\ [Next]_vars => TypeOK'
  <2> SUFFICES ASSUME TypeOK, [Next]_vars PROVE TypeOK'
    OBVIOUS
  <2> USE Distinct DEF TypeOK
  <2>1. ASSUME NEW u \in Users, NEW matches \in PauseLengths, SetPause(u, matches)
        PROVE  TypeOK'
    <3>1. StoreTypeOK'
      BY <2>1, StoreSteps DEF SetPause
    <3> QED BY <2>1, <3>1 DEF SetPause
  <2>2. CASE SendNotice
    <3>1. notice.user \in Users
      BY <2>2 DEF SendNotice
    <3>2. StoreTypeOK'
      BY <2>2 DEF SendNotice, StoreTypeOK
    <3>3. /\ posted' \in Seq(Users)
          /\ Len(posted') = Len(posted) + 1
          /\ posted'[Len(posted')] = notice.user
          /\ \A m \in DOMAIN posted : m \in DOMAIN posted' /\ posted'[m] = posted[m]
      BY <2>2, <3>1 DEF SendNotice
    <3>4. notice' = [step |-> "put", user |-> notice.user] /\ posted' # <<>>
      BY <2>2, <3>1, <3>3 DEF SendNotice
    <3> QED BY <2>2, <3>1, <3>2, <3>3, <3>4 DEF SendNotice
  <2>3. CASE SendFails
    <3>1. notice.user \in Users
      BY <2>3 DEF SendFails
    <3> QED BY <2>3, <3>1 DEF SendFails, StoreTypeOK
  <2>4. CASE Register
    <3>1. Len(posted) \in DOMAIN posted
      BY <2>4 DEF Register
    <3> QED BY <2>4, <3>1 DEF Register, StoreTypeOK
  <2>5. ASSUME NEW g \in Reactions, NEW u \in Users, NEW m \in 1 .. MaxNotices, LookUp(g, u, m)
        PROVE  TypeOK'
    <3>1. StoreTypeOK'
      BY <2>5 DEF LookUp, StoreTypeOK
    <3>2. CASE m \in registry /\ posted[m] = u
      <4>1. reaction' = [reaction EXCEPT ![g] = [step |-> "resume", user |-> u, message |-> m]]
        BY <2>5, <3>2 DEF LookUp
      <4> QED BY <2>5, <3>1, <3>2, <4>1 DEF LookUp
    <3>3. CASE ~(m \in registry /\ posted[m] = u)
      BY <2>5, <3>1, <3>3 DEF LookUp
    <3> QED BY <3>2, <3>3
  <2>6. ASSUME NEW g \in Reactions, ReactionResume(g) PROVE TypeOK'
    <3>1. /\ reaction[g].user \in Users
          /\ reaction[g].message \in DOMAIN posted
          /\ reaction[g].user = posted[reaction[g].message]
      BY <2>6 DEF ReactionResume
    <3>2. StoreTypeOK'
      BY <2>6, <3>1, StoreSteps DEF ReactionResume
    <3> QED BY <2>6, <3>1, <3>2 DEF ReactionResume
  <2>7. ASSUME NEW g \in Reactions, ReactionGivesUp(g) \/ ReactionDelete(g) PROVE TypeOK'
    BY <2>7 DEF ReactionGivesUp, ReactionDelete, StoreTypeOK
  <2>8. ASSUME NEW u \in Users, Join(u) \/ Leave(u) PROVE TypeOK'
    <3>1. StoreTypeOK'
      BY <2>8, StoreSteps DEF Join, Leave
    <3> QED BY <2>8, <3>1 DEF Join, Leave, reacting
  <2>9. CASE OtherCommand
    <3>1. StoreTypeOK'
      BY <2>9, StoreSteps DEF OtherCommand
    <3> QED BY <2>9, <3>1 DEF OtherCommand, reacting
  <2>10. CASE Undo
    <3>1. StoreTypeOK'
      BY <2>10, StoreSteps DEF Undo
    <3> QED BY <2>10, <3>1 DEF Undo
  <2>11. CASE Restart
    BY <2>11 DEF Restart, StoreTypeOK
  <2>12. CASE UNCHANGED vars
    BY <2>12 DEF vars, StoreTypeOK
  <2> QED BY <2>1, <2>2, <2>3, <2>4, <2>5, <2>6, <2>7, <2>8, <2>9, <2>10, <2>11, <2>12
          DEF Next, ReactionStep
<1> QED
  BY <1>1, <1>2, PTL DEF Spec

-----------------------------------------------------------------------------
(* The way back.                                                            *)

IInv == TypeOK /\ NoticeIsNew /\ PausedCanReact

\* A usable notice stays usable as long as its entry stays and no goroutine
\* starts to delete it.
LEMMA UsableKept ==
    ASSUME NEW u \in Users, Usable(u) # {}, TypeOK,
           BeingDeleted' \subseteq BeingDeleted,
           registry \ BeingDeleted \subseteq registry',
           \A m \in DOMAIN posted : posted'[m] = posted[m]
    PROVE  Usable(u)' # {}
<1>1. PICK m \in registry \ BeingDeleted : posted[m] = u
  BY DEF Usable
<1>2. m \in DOMAIN posted
  BY <1>1 DEF TypeOK
<1> QED BY <1>1, <1>2 DEF Usable

\* Only a goroutine that moves to its last step takes a notice out of use.
LEMMA DeletedOnlyByStep ==
    ASSUME TypeOK,
           \A g \in Reactions : reaction'[g].step = "delete" => reaction'[g] = reaction[g]
    PROVE  BeingDeleted' \subseteq BeingDeleted
BY DEF BeingDeleted

\* A paused member keeps a notice he can react to, unless a restart, an undo or
\* an unsent message took it away.
THEOREM PausedCanAlwaysReact == Spec => []PausedCanReact
<1>1. Init => IInv
  <2>1. Init => TypeOK
    BY DEF Init, StoreInit, TypeOK, StoreTypeOK, NobodyPaused, NoPause, Sleeping
  <2> QED BY <2>1 DEF Init, StoreInit, NobodyPaused, NoPause, IInv, NoticeIsNew, PausedCanReact
<1>2. TypeOK /\ TypeOK' /\ NoticeIsNew /\ [Next]_vars => NoticeIsNew'
  <2> SUFFICES ASSUME TypeOK, TypeOK', NoticeIsNew, [Next]_vars, notice'.step = "put"
               PROVE  /\ Len(posted') \notin registry'
                      /\ \A g \in Reactions : reaction'[g].message # Len(posted')
    BY DEF NoticeIsNew
  <2> USE Distinct DEF NoticeIsNew
  <2>1. CASE SendNotice
    <3>1. Len(posted') = Len(posted) + 1 /\ Len(posted') \notin DOMAIN posted
      BY <2>1 DEF SendNotice, TypeOK
    <3>2. \A g \in Reactions : reaction[g].message \in DOMAIN posted \/ reaction[g].message = 0
      BY DEF TypeOK, Sleeping
    <3>3. Len(posted') # 0 /\ registry' = registry /\ reaction' = reaction
      BY <2>1, <3>1 DEF SendNotice, TypeOK
    <3> QED BY <3>1, <3>2, <3>3 DEF TypeOK
  <2>2. ASSUME NEW g \in Reactions, NEW u \in Users, NEW m \in 1 .. MaxNotices, LookUp(g, u, m)
        PROVE  /\ Len(posted') \notin registry'
               /\ \A r \in Reactions : reaction'[r].message # Len(posted')
    <3>1. notice' = notice /\ posted' = posted /\ registry' = registry
      BY <2>2 DEF LookUp
    <3>2. CASE reaction' = reaction
      BY <3>1, <3>2
    <3>3. CASE /\ m \in registry
               /\ reaction' = [reaction EXCEPT ![g] = [step |-> "resume", user |-> u, message |-> m]]
      BY <3>1, <3>3 DEF TypeOK
    <3> QED BY <2>2, <3>2, <3>3 DEF LookUp
  <2>3. ASSUME NEW g \in Reactions, ReactionStep(g)
        PROVE  /\ Len(posted') \notin registry'
               /\ \A r \in Reactions : reaction'[r].message # Len(posted')
    <3>1. notice' = notice /\ posted' = posted /\ registry' \subseteq registry
      BY <2>3 DEF ReactionStep, ReactionResume, ReactionGivesUp, ReactionDelete
    <3>2. \A r \in Reactions : reaction'[r].message \in {reaction[r].message, 0}
      BY <2>3 DEF ReactionStep, ReactionResume, ReactionGivesUp, ReactionDelete, TypeOK, Sleeping
    <3>3. Len(posted) # 0
      BY <3>1 DEF TypeOK
    <3> QED BY <3>1, <3>2, <3>3
  <2>4. ASSUME NEW u \in Users, NEW matches \in PauseLengths, SetPause(u, matches)
        PROVE  FALSE
    BY <2>4 DEF SetPause
  <2>5. CASE SendFails \/ Register \/ Restart
    BY <2>5 DEF SendFails, Register, Restart
  <2>6. CASE \/ \E u \in Users : Join(u) \/ Leave(u)
             \/ OtherCommand \/ Undo \/ UNCHANGED vars
    BY <2>6 DEF Join, Leave, OtherCommand, Undo, reacting, vars
  <2> QED BY <2>1, <2>2, <2>3, <2>4, <2>5, <2>6 DEF Next
<1>3. IInv /\ TypeOK' /\ [Next]_vars => PausedCanReact'
  <2> SUFFICES ASSUME IInv, TypeOK', [Next]_vars,
                      NEW u \in Users, pause'[u] > 0, u \notin cutOff', notice'.user # u
               PROVE  Usable(u)' # {}
    BY DEF PausedCanReact
  <2> USE Distinct DEF IInv
  <2>a. pause[u] > 0 /\ u \notin cutOff /\ notice.user # u => Usable(u) # {}
    BY DEF PausedCanReact
  <2>b. StoreTypeOK /\ (notice = NoPause => notice.user # u)
    BY NoneIsNoUser DEF TypeOK, NoPause
  <2>1. ASSUME NEW w \in Users, NEW matches \in PauseLengths, SetPause(w, matches)
        PROVE  Usable(u)' # {}
    <3>1. u # w /\ pause'[u] = pause[u]
      BY <2>1 DEF SetPause, StoreSetPause, TypeOK, StoreTypeOK
    <3> QED BY <2>1, <2>a, <2>b, <3>1 DEF SetPause, Usable, BeingDeleted
  <2>2. CASE SendNotice
    <3>1. \A m \in DOMAIN posted : posted'[m] = posted[m]
      BY <2>2 DEF SendNotice, TypeOK
    <3>2. Usable(u) # {}
      BY <2>2, <2>a DEF SendNotice, TypeOK
    <3>3. BeingDeleted' = BeingDeleted /\ registry' = registry
      BY <2>2 DEF SendNotice, BeingDeleted
    <3> QED BY <3>1, <3>2, <3>3, UsableKept
  <2>3. CASE SendFails
    <3>1. u # notice.user /\ u \notin cutOff /\ pause' = pause
      BY <2>3 DEF SendFails
    <3> QED BY <2>3, <2>a, <3>1 DEF SendFails, Usable, BeingDeleted
  <2>4. CASE Register
    <3>1. BeingDeleted' = BeingDeleted /\ posted' = posted /\ pause' = pause
      BY <2>4 DEF Register, BeingDeleted
    <3>2. CASE u = notice.user
      <4>1. Len(posted) \in registry' /\ posted[Len(posted)] = u
        BY <2>4, <3>2 DEF Register, TypeOK
      <4>2. Len(posted) \notin BeingDeleted
        BY <2>4 DEF Register, NoticeIsNew, BeingDeleted
      <4> QED BY <3>1, <4>1, <4>2 DEF Usable
    <3>3. CASE u # notice.user
      <4>1. Usable(u) # {}
        BY <2>4, <2>a, <3>1, <3>3 DEF Register
      <4>2. registry \subseteq registry'
        BY <2>4 DEF Register
      <4> QED BY <3>1, <4>1, <4>2, UsableKept
    <3> QED BY <3>2, <3>3
  <2>5. ASSUME NEW g \in Reactions, NEW w \in Users, NEW m \in 1 .. MaxNotices, LookUp(g, w, m)
        PROVE  Usable(u)' # {}
    <3>1. UNCHANGED <<pause, notice, posted, registry, cutOff>>
      BY <2>5 DEF LookUp
    <3>2. \A r \in Reactions : reaction'[r].step = "delete" => reaction'[r] = reaction[r]
      BY <2>5 DEF LookUp, TypeOK
    <3> QED BY <2>a, <3>1, <3>2, DeletedOnlyByStep, UsableKept
  <2>6. ASSUME NEW g \in Reactions, ReactionResume(g) PROVE Usable(u)' # {}
    <3>1. /\ reaction[g].user \in Users
          /\ reaction[g].user = posted[reaction[g].message]
          /\ UNCHANGED <<notice, posted, registry, cutOff>>
          /\ pause' = [pause EXCEPT ![reaction[g].user] = 0]
          /\ reaction' = [reaction EXCEPT ![g].step = "delete"]
      BY <2>6 DEF ReactionResume, TypeOK, StoreResume, StoreSetPause
    <3>2. u # reaction[g].user /\ pause[u] > 0
      BY <3>1 DEF TypeOK, StoreTypeOK
    <3>3. PICK m \in registry \ BeingDeleted : posted[m] = u
      BY <2>a, <3>1, <3>2 DEF Usable
    <3>4. BeingDeleted' \subseteq BeingDeleted \cup {reaction[g].message}
      BY <3>1 DEF BeingDeleted, TypeOK
    <3>5. m # reaction[g].message
      BY <3>1, <3>2, <3>3
    <3> QED BY <3>1, <3>3, <3>4, <3>5 DEF Usable
  <2>7. ASSUME NEW g \in Reactions, ReactionGivesUp(g) PROVE Usable(u)' # {}
    <3>1. UNCHANGED <<pause, notice, posted, registry, cutOff>>
      BY <2>7 DEF ReactionGivesUp
    <3>2. \A r \in Reactions : reaction'[r].step = "delete" => reaction'[r] = reaction[r]
      BY <2>7 DEF ReactionGivesUp, TypeOK
    <3> QED BY <2>a, <3>1, <3>2, DeletedOnlyByStep, UsableKept
  <2>8. ASSUME NEW g \in Reactions, ReactionDelete(g) PROVE Usable(u)' # {}
    <3>1. UNCHANGED <<pause, notice, posted, cutOff>> /\ registry' = registry \ {reaction[g].message}
      BY <2>8 DEF ReactionDelete
    <3>2. \A r \in Reactions : reaction'[r].step = "delete" => reaction'[r] = reaction[r]
      BY <2>8 DEF ReactionDelete, TypeOK
    <3>3. reaction[g].message \in BeingDeleted
      BY <2>8 DEF ReactionDelete, BeingDeleted
    <3> QED BY <2>a, <3>1, <3>2, <3>3, DeletedOnlyByStep, UsableKept
  <2>9. ASSUME NEW w \in Users, Join(w) \/ Leave(w) PROVE Usable(u)' # {}
    <3>1. pause[u] > 0
      BY <2>9, <2>b, NoNewPause DEF Join, Leave
    <3> QED BY <2>9, <2>a, <3>1 DEF Join, Leave, reacting, Usable, BeingDeleted
  <2>10. CASE OtherCommand
    <3>1. pause[u] > 0
      BY <2>10, <2>b, NoNewPause DEF OtherCommand
    <3> QED BY <2>10, <2>a, <3>1 DEF OtherCommand, reacting, Usable, BeingDeleted
  <2>11. CASE Undo
    BY <2>11 DEF Undo, StoreUndo
  <2>12. CASE Restart
    BY <2>12 DEF Restart
  <2>13. CASE UNCHANGED vars
    BY <2>13, <2>a DEF vars, Usable, BeingDeleted
  <2> QED BY <2>1, <2>2, <2>3, <2>4, <2>5, <2>6, <2>7, <2>8, <2>9, <2>10, <2>11, <2>12, <2>13
          DEF Next, ReactionStep
<1> QED
  BY <1>1, <1>2, <1>3, TypeCorrect, PTL DEF Spec, IInv

\* While a /pause is under way nobody ends a pause but the member himself, by
\* leaving or by a reaction.
THEOREM PauseEndsByMember == Spec => PauseEndedByMember
<1>1. TypeOK /\ [Next]_vars =>
        [\A u \in Users :
            notice # NoPause /\ pause[u] > 0 /\ pause'[u] = 0 =>
                \/ u \notin members'
                \/ \E g \in Reactions : /\ reaction[g].step = "resume"
                                        /\ reaction[g].user = u]_vars
  <2> SUFFICES ASSUME TypeOK, Next, NEW u \in Users,
                      notice # NoPause, pause[u] > 0, pause'[u] = 0
               PROVE  \/ u \notin members'
                      \/ \E g \in Reactions : /\ reaction[g].step = "resume"
                                              /\ reaction[g].user = u
    OBVIOUS
  <2>1. pause[u] # 0 /\ pause \in [Users -> Nat]
    BY DEF TypeOK, StoreTypeOK
  <2>2. ASSUME NEW w \in Users, Join(w) \/ Leave(w)
        PROVE  u \notin members'
    BY <2>1, <2>2 DEF Join, Leave, StoreJoin, StoreLeave
  <2>3. ASSUME NEW g \in Reactions, ReactionResume(g)
        PROVE  reaction[g].step = "resume" /\ reaction[g].user = u
    BY <2>1, <2>3 DEF ReactionResume, StoreResume, StoreSetPause
  <2>4. CASE \/ SendNotice \/ SendFails \/ Register \/ Restart
             \/ \E g \in Reactions : ReactionGivesUp(g) \/ ReactionDelete(g)
             \/ \E g \in Reactions, w \in Users, m \in 1 .. MaxNotices : LookUp(g, w, m)
    BY <2>1, <2>4 DEF SendNotice, SendFails, Register, Restart, ReactionGivesUp,
                      ReactionDelete, LookUp
  <2>5. CASE \/ \E w \in Users, matches \in PauseLengths : SetPause(w, matches)
             \/ OtherCommand \/ Undo
    BY <2>5 DEF SetPause, OtherCommand, Undo
  <2> QED BY <2>2, <2>3, <2>4, <2>5 DEF Next, ReactionStep
<1> QED
  BY <1>1, TypeCorrect, PTL DEF Spec, PauseEndedByMember
==============================================================================
