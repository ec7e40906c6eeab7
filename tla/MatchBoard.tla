------------------------------ MODULE MatchBoard ------------------------------
(****************************************************************************)
(* What the commands of a room promise its players, with no handler, lock,  *)
(* pause or crash in sight: who is in the room, the match on the board and  *)
(* the state /undo would bring back.                                        *)
(*                                                                          *)
(*   - players enter and leave one at a time;                               *)
(*   - a match drawn from a new line-up goes on the board only when the     *)
(*     undo point holds the match it replaces, so /undo can bring it back;  *)
(*   - a reroll keeps the participants of the match on the board;           *)
(*   - an undo point is used at most once.                                  *)
(****************************************************************************)
EXTENDS Matches

VARIABLES
    members,  \* who is in the room
    last,     \* the match on the board, or None
    undo      \* the members and the match to go back to, or None

boardVars == <<members, last, undo>>

Recorded == [members |-> members, last |-> last]

BoardInit ==
    /\ members = {}
    /\ last = None
    /\ undo = None

Enter(u) ==
    /\ u \notin members
    /\ Cardinality(members) < MaxPlayers
    /\ members' = members \cup {u}
    /\ UNCHANGED <<last, undo>>

Exit(u) ==
    /\ u \in members
    /\ members' = members \ {u}
    /\ UNCHANGED <<last, undo>>

MarkUndoPoint ==
    /\ undo' = Recorded
    /\ UNCHANGED <<members, last>>

Publish(players) ==
    /\ undo # None
    /\ undo.last = last
    /\ last' \in Lineups(players)
    /\ UNCHANGED <<members, undo>>

Redraw ==
    /\ last # None
    /\ last' \in Lineups(last.players)
    /\ UNCHANGED <<members, undo>>

GoBack ==
    /\ undo # None
    /\ members' = undo.members
    /\ last' = undo.last
    /\ undo' = None

Clear ==
    /\ members' = {}
    /\ last' = None
    /\ undo' = None

BoardNext ==
    \/ \E u \in Users : Enter(u) \/ Exit(u)
    \/ MarkUndoPoint
    \/ \E players \in SUBSET Users : Publish(players)
    \/ Redraw
    \/ GoBack
    \/ Clear

BoardSpec == BoardInit /\ [][BoardNext]_boardVars
==============================================================================
