---------------------------- MODULE NoticePromise ----------------------------
(****************************************************************************)
(* What the pause notice says of itself: to come back, react to this        *)
(* message.  PauseReaction, with a record of who has done so.               *)
(****************************************************************************)
EXTENDS PauseReaction

VARIABLE asked   \* paused members who have reacted to their latest notice

promiseVars == <<members, pause, last, previous, notice, posted, registry,
                 reaction, cutOff, asked>>

LatestNotice(u, m) ==
    /\ posted[m] = u
    /\ \A later \in m + 1 .. Len(posted) : posted[later] # u

PromiseInit == Init /\ asked = {}

\* A member who reacts asks to come back, until he is paused again.
PromiseNext ==
    \/ \E g \in Reactions, u \in Users, m \in 1 .. MaxNotices :
          /\ LookUp(g, u, m)
          /\ asked' = IF LatestNotice(u, m) /\ notice # [step |-> "send", user |-> u]
                      THEN asked \cup {u} ELSE asked
    \/ \E u \in Users, matches \in PauseLengths :
          /\ SetPause(u, matches)
          /\ asked' = asked \ {u}
    \/ /\ \/ SendNotice \/ SendFails \/ Register
          \/ \E g \in Reactions : ReactionStep(g)
          \/ \E u \in Users : Join(u) \/ Leave(u)
          \/ OtherCommand
          \/ Undo
          \/ Restart
       /\ UNCHANGED asked

PromiseSpec == PromiseInit /\ [][PromiseNext]_promiseVars

\* "To come back, react to this message" (the notice of /pause): once no handler
\* is dealing with a reaction of his any more, a member who has reacted to the
\* latest notice posted for him is not paused.
ReactionHonoured ==
    \A u \in asked :
        pause[u] > 0 => \E g \in Reactions : reaction[g].user = u
==============================================================================
