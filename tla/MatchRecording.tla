--------------------------- MODULE MatchRecording ---------------------------
(****************************************************************************)
(* What /result promises: a match and everything it does to the players'    *)
(* statistics are recorded together or not at all.  The statistics are      *)
(* shared by all rooms of all servers (player_stats is keyed by user only). *)
(****************************************************************************)
EXTENDS Integers, FiniteSets

CONSTANTS
    Users,       \* Discord users
    Rooms,       \* rooms that may record a result
    Draws,       \* the matches /make, /next and /reroll may have drawn
    RatingStep,  \* 10 in the program
    RatingLimit  \* 200 in the program

ASSUME StepPositive   == RatingStep \in Nat \ {0}
ASSUME LimitNatural   == RatingLimit \in Nat
ASSUME DrawsAreTeams  ==
    \A d \in Draws : /\ d.teamA \in SUBSET Users
                     /\ d.teamB \in SUBSET Users
                     /\ d.teamA \cap d.teamB = {}

VARIABLES
    stats,    \* player_stats: rating, wins and losses of every user
    matches   \* how often each result is in the matches table

recording == <<stats, matches>>

Sides == {"alpha", "bravo"}

Result == [room : Rooms, draw : Draws, winner : Sides]

Stat == [rating : -RatingLimit .. RatingLimit, wins : Nat, losses : Nat]

ClampRating(v) == IF v < -RatingLimit THEN -RatingLimit
                  ELSE IF v > RatingLimit THEN RatingLimit
                  ELSE v

\* Mutant: the new rating is not clamped.
NextRatingUnclamped(rating, won) ==
    IF won THEN rating + RatingStep ELSE rating - RatingStep

NextRating(rating, won) ==
    ClampRating(IF won THEN rating + RatingStep ELSE rating - RatingStep)

Winners(result) == IF result.winner = "alpha" THEN result.draw.teamA
                                              ELSE result.draw.teamB

Losers(result) == IF result.winner = "alpha" THEN result.draw.teamB
                                             ELSE result.draw.teamA

Played(result) == Winners(result) \cup Losers(result)

\* One player's row after a match.
Credited(stat, won) ==
    [rating |-> NextRating(stat.rating, won),
     wins   |-> IF won THEN stat.wins + 1 ELSE stat.wins,
     losses |-> IF won THEN stat.losses ELSE stat.losses + 1]

\* The whole table after the given players of a match have been credited.
CreditedAll(table, result, players) ==
    [u \in Users |-> IF u \in players
                     THEN Credited(table[u], u \in Winners(result))
                     ELSE table[u]]

RecordingInit ==
    /\ stats = [u \in Users |-> [rating |-> 0, wins |-> 0, losses |-> 0]]
    /\ matches = [result \in Result |-> 0]

Record(result) ==
    /\ matches' = [matches EXCEPT ![result] = @ + 1]
    /\ stats' = CreditedAll(stats, result, Played(result))

RecordingNext == \E result \in Result : Record(result)

RecordingSpec == RecordingInit /\ [][RecordingNext]_recording
=============================================================================
