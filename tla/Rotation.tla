------------------------------- MODULE Rotation ------------------------------
(****************************************************************************)
(* Match after match in one room: RunMatchWithPlayers prices the players    *)
(* who are listed by the spectator history (combinedPenaltyFunc), has       *)
(* Matchmaking draw a match, and SaveLastMatch writes who sat out and which *)
(* teams played into what the next match is drawn with.                     *)
(*                                                                          *)
(* Time is counted in hours; the history's seen is 0 for a player who never *)
(* sat out.                                                                 *)
(****************************************************************************)
EXTENDS Matchmaking

CONSTANTS
    Members,  \* the players of the room, numbered
    Rooms,    \* rooms to follow: ratings, history, teams of the last match,
              \* weights, the lists that may be drawn from, number of matches
    Gaps,     \* hours that may go by between two matches
    Start     \* the hour at which a room is first looked at

ASSUME MembersNumbered == Members \subseteq Nat /\ IsFiniteSet(Members)
ASSUME TimeNatural     == Start \in Nat /\ Gaps \subseteq Nat

\* Nobody has sat out in the future, and a list that is too short is refused.
ASSUME RoomsAreRooms ==
    \A room \in Rooms :
        /\ room.power \in [Members -> Int]
        /\ room.history \in [Members -> [sat : Nat, seen : 0 .. Start]]
        /\ room.weight \in [rotation : Nat, sameTeam : Nat]
        /\ \A list \in room.lists :
               list \subseteq Members /\ Cardinality(list) >= 2 * TeamSize

VARIABLES
    power,    \* the players' ratings
    history,  \* SpectatorHistory: a record [sat, seen] for each player
    now,      \* the clock
    lists,    \* who may be listed: the others have left or are pausing
    left      \* matches still to draw: the bound of the run

vars == <<players, lastTeams, weight, drawn, power, history, now, lists, left>>

\* spectatorPenaltyFunc, for one spectator.
Recency(age) ==
    CASE age < 1 -> 300
      [] age \in 1 .. 5 -> 150
      [] age \in 6 .. 23 -> 60
      [] OTHER -> 0

\* Mutant: the count is left out once the last turn was long ago.
FadingCost(h, time) ==
    IF h.seen > 0 /\ time - h.seen >= 24 THEN 0
    ELSE 100 * h.sat + IF h.seen > 0 THEN Recency(time - h.seen) ELSE 0

Cost(h, time) == 100 * h.sat + IF h.seen > 0 THEN Recency(time - h.seen) ELSE 0

Init ==
    /\ \E room \in Rooms :
        /\ power = room.power
        /\ history = room.history
        /\ lastTeams = room.lastTeams
        /\ weight = room.weight
        /\ lists = room.lists
        /\ left = room.matches
    /\ now = Start
    /\ players = <<>>
    /\ drawn = NoMatch

\* /make or /next, some time later: the list, and the history read into the
\* penalty function.
LoadRoom ==
    /\ players = <<>> /\ left > 0
    /\ \E gap \in Gaps, list \in lists :
        /\ now' = now + gap
        /\ players' = [p \in list |->
                        [power |-> power[p], cost |-> Cost(history[p], now')]]
    /\ UNCHANGED <<lastTeams, weight, drawn, power, history, lists, left>>

Draw ==
    /\ players # <<>>
    /\ BuildMatch
    /\ UNCHANGED <<power, history, now, lists, left>>

\* Mutant: a turn is counted, but the time of the first one stays.
SatOutOnce(h) == [sat |-> h.sat + 1, seen |-> IF h.seen = 0 THEN now ELSE h.seen]

SatOut(h) == [sat |-> h.sat + 1, seen |-> now]

\* SaveLastMatch: the turn of every spectator is counted, and the teams become
\* the ones to avoid.
SaveLastMatch ==
    /\ drawn # NoMatch
    /\ history' = [p \in Members |->
                    IF p \in Spectators(drawn) THEN SatOut(history[p]) ELSE history[p]]
    /\ lastTeams' = {drawn.teamA, drawn.teamB}
    /\ players' = <<>>
    /\ drawn' = NoMatch
    /\ left' = left - 1
    /\ UNCHANGED <<weight, power, now, lists>>

Next == LoadRoom \/ Draw \/ SaveLastMatch

Spec == Init /\ [][Next]_vars

-----------------------------------------------------------------------------
(* Properties.                                                              *)

Sat  == [p \in Members |-> history[p].sat]
Seen == [p \in Members |-> history[p].seen]

Out == INSTANCE SittingOut WITH Players <- Members, sat <- Sat, seen <- Seen

\* Whoever is to sit out, the others can be divided within the slack, and the
\* avoidance of team mates is switched off: only the rotation decides.
RotationDecides ==
    /\ Slack > 0 /\ weight.rotation > 0 /\ weight.sameTeam = 0
    /\ drawn # NoMatch =>
        LET limit == BestDiff + Slack
        IN  \A pool \in Pools : \E s \in Splits(pool) : Diff(s) <= limit

\* Where the rotation decides, drawing a match is a step of SittingOut: nobody
\* sits out who has done so more often than a player who takes part, and not
\* less recently.
DrawsAreFair ==
    /\ Out!Init
    /\ [][RotationDecides =>
            \/ drawn = NoMatch /\ Out!Tick
            \/ drawn # NoMatch /\ Out!Draw(List, Spectators(drawn))]_<<history, now>>

\* Two listed players who were level stay level.
KeepsLevel == \A x, y \in List : Out!Level(x, y) => Out!Level(x, y)'

\* Where the rotation decides, a match leaves every two players who were both
\* listed for it within one turn of sitting out of each other, if they were so
\* before: no tie, no pause of other members and no passing of time makes one of
\* them sit out twice in a row while the other plays.
LevelStaysLevel == [][drawn # NoMatch /\ RotationDecides => KeepsLevel]_history
==============================================================================
