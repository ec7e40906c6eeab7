------------------------------- MODULE Matches -------------------------------
(****************************************************************************)
(* The parameters of a room and the matches that can be drawn in it.        *)
(****************************************************************************)
EXTENDS Naturals, FiniteSets

CONSTANTS
    Users,       \* the Discord users who may ever touch the room
    TeamSize,    \* players per team (4 in the program)
    MaxPlayers,  \* capacity of a room (10 in the program)
    None         \* no match, no undo point, nobody

ASSUME UsersFinite      == IsFiniteSet(Users)
ASSUME TeamSizePositive == TeamSize \in Nat \ {0}
ASSUME CapacityNatural  == MaxPlayers \in Nat

\* A match as SaveLastMatch keeps it: the players it was drawn from and the
\* two teams; the spectators are the remaining players.
Match == [players : SUBSET Users, teamA : SUBSET Users, teamB : SUBSET Users]

\* Who was in the room and which match it showed.
BoardState == [members : SUBSET Users, last : Match \cup {None}]

ASSUME NoneIsNoMatch      == None \notin Match
ASSUME NoneIsNoBoardState == None \notin BoardState

\* What BuildMatch may answer for a list of players: two disjoint full teams.
\* Which one it answers depends on ratings, history and the seed.
Lineups(players) ==
    {m \in [players : {players}, teamA : SUBSET players, teamB : SUBSET players] :
        /\ m.teamA \cap m.teamB = {}
        /\ Cardinality(m.teamA) = TeamSize
        /\ Cardinality(m.teamB) = TeamSize}

EnoughPlayers(players) == Cardinality(players) >= 2 * TeamSize
==============================================================================
