---------------------------- MODULE PauseReaction ----------------------------
(****************************************************************************)
(* Coming back from a pause by reacting to the pause notice.  /pause writes *)
(* the pause, posts a notice and only then registers the notice, all under  *)
(* the room's lock.  A reaction is handled in a goroutine of its own that   *)
(* takes no lock: it looks the notice up, ends the pause and deletes the    *)
(* entry in three separate steps.  The registry is in memory, the notices   *)
(* stay in the channel.                                                     *)
(*                                                                          *)
(* The other commands of the room appear as the one store call that may     *)
(* change a pause (module RoomCommands has their steps).                    *)
(****************************************************************************)
EXTENDS RoomStore, Sequences

CONSTANTS
    Reactions,   \* goroutines that handle a reaction
    MaxNotices   \* bound on the notices posted, for model checking

ASSUME NoneIsNoUser == None \notin Users

VARIABLES
    notice,     \* what the /pause that holds the room's lock does next
    posted,     \* for each notice in the channel, the member it was posted for
    registry,   \* pauseReactionRegistry: the notices it has entries for
    reaction,   \* what each reaction goroutine does next
    cutOff      \* history: who was paused when a restart, an undo or a message
                \* that was not sent left the pause without a usable notice

reacting == <<notice, posted, registry, reaction, cutOff>>
vars == <<members, pause, last, previous, notice, posted, registry, reaction, cutOff>>

NoPause == [step |-> "idle", user |-> None]

Sleeping == [step |-> "idle", user |-> None, message |-> 0]

Init ==
    /\ StoreInit
    /\ notice = NoPause
    /\ posted = <<>>
    /\ registry = {}
    /\ reaction = [g \in Reactions |-> Sleeping]
    /\ cutOff = {}

\* Notices a goroutine has used and is about to delete.
BeingDeleted == {reaction[g].message : g \in {g \in Reactions : reaction[g].step = "delete"}}

Usable(u) == {m \in registry \ BeingDeleted : posted[m] = u}

-----------------------------------------------------------------------------
(* /pause.                                                                  *)

SetPause(u, matches) ==
    /\ notice = NoPause
    /\ Len(posted) < MaxNotices
    /\ StoreSetPause(u, matches)
    /\ notice' = [step |-> "send", user |-> u]
    /\ UNCHANGED <<posted, registry, reaction, cutOff>>

SendNotice ==
    /\ notice.step = "send"
    /\ posted' = Append(posted, notice.user)
    /\ notice' = [notice EXCEPT !.step = "put"]
    /\ UNCHANGED <<members, pause, last, previous, registry, reaction, cutOff>>

\* Discord refuses the message: the pause stands, nothing is registered.
SendFails ==
    /\ notice.step = "send"
    /\ notice' = NoPause
    /\ cutOff' = cutOff \cup {notice.user}
    /\ UNCHANGED <<members, pause, last, previous, posted, registry, reaction>>

\* pauseReactionRegistry.put; the room's lock is released.
Register ==
    /\ notice.step = "put"
    /\ registry' = registry \cup {Len(posted)}
    /\ notice' = NoPause
    /\ cutOff' = cutOff \ {notice.user}
    /\ UNCHANGED <<members, pause, last, previous, posted, reaction>>

-----------------------------------------------------------------------------
(* processPauseResumeReaction.                                              *)

\* Mutant: anybody's reaction counts.
LookUpAnybody(g, u, m) ==
    /\ reaction[g] = Sleeping
    /\ m \in DOMAIN posted
    /\ reaction' = IF m \in registry
                   THEN [reaction EXCEPT ![g] = [step |-> "resume", user |-> u, message |-> m]]
                   ELSE reaction
    /\ UNCHANGED <<members, pause, last, previous, notice, posted, registry, cutOff>>

\* u puts a thumbs-up on the notice m.  Unless the notice is registered, and for
\* u, the handler returns without a word.
LookUp(g, u, m) ==
    /\ reaction[g] = Sleeping
    /\ m \in DOMAIN posted
    /\ reaction' = IF m \in registry /\ posted[m] = u
                   THEN [reaction EXCEPT ![g] = [step |-> "resume", user |-> u, message |-> m]]
                   ELSE reaction
    /\ UNCHANGED <<members, pause, last, previous, notice, posted, registry, cutOff>>

ReactionResume(g) ==
    /\ reaction[g].step = "resume"
    /\ StoreResume(reaction[g].user)
    /\ reaction' = [reaction EXCEPT ![g].step = "delete"]
    /\ UNCHANGED <<notice, posted, registry, cutOff>>

\* Resume failed: the member has left.  The entry stays.
ReactionGivesUp(g) ==
    /\ reaction[g].step = "resume"
    /\ reaction[g].user \notin members \/ StoreFaults
    /\ reaction' = [reaction EXCEPT ![g] = Sleeping]
    /\ UNCHANGED <<members, pause, last, previous, notice, posted, registry, cutOff>>

\* Mutant: every entry of the member is deleted, not the one he reacted to.
ReactionDeleteAll(g) ==
    /\ reaction[g].step = "delete"
    /\ registry' = {m \in registry : posted[m] # reaction[g].user}
    /\ reaction' = [reaction EXCEPT ![g] = Sleeping]
    /\ UNCHANGED <<members, pause, last, previous, notice, posted, cutOff>>

ReactionDelete(g) ==
    /\ reaction[g].step = "delete"
    /\ registry' = registry \ {reaction[g].message}
    /\ reaction' = [reaction EXCEPT ![g] = Sleeping]
    /\ UNCHANGED <<members, pause, last, previous, notice, posted, cutOff>>

-----------------------------------------------------------------------------
(* The rest of the room.                                                    *)

Join(u) == StoreJoin(u) /\ UNCHANGED reacting

Leave(u) == StoreLeave(u) /\ UNCHANGED reacting

\* Mutant: these commands do not take the room's lock.
OtherCommandUnlocked ==
    /\ \/ \E u \in Users : StoreResume(u)
       \/ StoreDecrementPauses
       \/ StoreSnapshot
       \/ StoreReset
    /\ UNCHANGED reacting

\* /resume, the count of a /next, the undo point of a /make or /next, /reset:
\* they hold the room's lock, so no /pause is under way.
OtherCommand ==
    /\ notice = NoPause
    /\ \/ \E u \in Users : StoreResume(u)
       \/ StoreDecrementPauses
       \/ StoreSnapshot
       \/ StoreReset
    /\ UNCHANGED reacting

\* /undo brings the pauses of the undo point back, and no notice with them.
Undo ==
    /\ notice = NoPause
    /\ StoreUndo
    /\ cutOff' = cutOff \cup {u \in Users : previous.pause[u] > 0}
    /\ UNCHANGED <<notice, posted, registry, reaction>>

Restart ==
    /\ notice' = NoPause
    /\ registry' = {}
    /\ reaction' = [g \in Reactions |-> Sleeping]
    /\ cutOff' = cutOff \cup {u \in Users : pause[u] > 0}
    /\ UNCHANGED <<members, pause, last, previous, posted>>

-----------------------------------------------------------------------------

ReactionStep(g) ==
    \/ ReactionResume(g)
    \/ ReactionGivesUp(g)
    \/ ReactionDelete(g)

Next ==
    \/ \E u \in Users, matches \in PauseLengths : SetPause(u, matches)
    \/ SendNotice
    \/ SendFails
    \/ Register
    \/ \E g \in Reactions, u \in Users, m \in 1 .. MaxNotices : LookUp(g, u, m)
    \/ \E g \in Reactions : ReactionStep(g)
    \/ \E u \in Users : Join(u) \/ Leave(u)
    \/ OtherCommand
    \/ Undo
    \/ Restart

Spec == Init /\ [][Next]_vars

-----------------------------------------------------------------------------
(* Properties.                                                              *)

\* Every variable keeps its type, and a goroutine that is past the look-up is
\* working on a notice that was posted for the member it is about to resume.
TypeOK ==
    /\ StoreTypeOK
    /\ notice \in [step : {"send", "put"}, user : Users] \cup {NoPause}
    /\ posted \in Seq(Users)
    /\ notice.step = "put" => posted # <<>> /\ posted[Len(posted)] = notice.user
    /\ registry \subseteq DOMAIN posted
    /\ cutOff \in SUBSET Users
    /\ reaction \in [Reactions -> [step : {"resume", "delete"}, user : Users, message : Nat]
                                 \cup {Sleeping}]
    /\ \A g \in Reactions : reaction[g] # Sleeping =>
          /\ reaction[g].message \in DOMAIN posted
          /\ reaction[g].user = posted[reaction[g].message]

\* Whoever is paused can come back by reacting: there is a registered notice for
\* him that no goroutine is about to delete, however reactions to older notices,
\* repeated reactions and repeated /pause commands overlap.  What does take the
\* way back away is a restart, an undo, or a notice that was never sent.
PausedCanReact ==
    \A u \in Users :
        pause[u] > 0 /\ u \notin cutOff /\ notice.user # u => Usable(u) # {}

\* A notice that has been sent and not yet registered is known to nobody: with
\* it, PausedCanReact is inductive.
NoticeIsNew ==
    notice.step = "put" =>
        /\ Len(posted) \notin registry
        /\ \A g \in Reactions : reaction[g].message # Len(posted)

\* While a /pause holds the room, a pause ends only because the paused member
\* leaves or because he himself has reacted to a notice posted for him.
PauseEndedByMember ==
    [][\A u \in Users :
        notice # NoPause /\ pause[u] > 0 /\ pause'[u] = 0 =>
            \/ u \notin members'
            \/ \E g \in Reactions : /\ reaction[g].step = "resume"
                                    /\ reaction[g].user = u]_vars
==============================================================================
