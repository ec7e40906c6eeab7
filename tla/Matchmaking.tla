----------------------------- MODULE Matchmaking -----------------------------
(****************************************************************************)
(* BuildMatchWithResultPenalty: drawing two teams from the listed players.  *)
(* The program enumerates, for every pool of players who could play, the    *)
(* splits into two teams; keeps, of each pool, only the most balanced ones; *)
(* and chooses among those whose difference is within a slack of the best   *)
(* by what the spectators and the repeated team mates cost.                 *)
(*                                                                          *)
(* A player is a number; powers are the ratings after applyRatings; the     *)
(* spectator history comes as one cost per player, which Rotation computes. *)
(****************************************************************************)
EXTENDS Integers, Sequences, FiniteSets, FiniteSetsExt, Functions

CONSTANTS
    TeamSize,  \* 4 in the program
    Slack      \* rotationDiffSlack, 50 in the program

ASSUME SlackNatural     == Slack \in Nat
ASSUME TeamSizePositive == TeamSize \in Nat \ {0}

VARIABLES
    players,    \* the list: a record [power, cost] for each listed player
    lastTeams,  \* the two teams of the previous match, or the empty set
    weight,     \* the settings: weight of the rotation, weight of team mates
    drawn       \* the match that was built, or NoMatch

List == DOMAIN players

NoMatch == [teamA |-> {}, teamB |-> {}]

Power(team) == SumFunctionOnSet([p \in List |-> players[p].power], team)

Diff(split) ==
    LET d == Power(split.teamA) - Power(split.teamB)
    IN  IF d < 0 THEN -d ELSE d

First(pool) == Min(pool)

\* The pools: combinations of two full teams out of the list.
Pools == kSubset(2 * TeamSize, List)

\* The splits of a pool.  The first player of the pool plays in team A, so no
\* split comes twice with the teams exchanged.
Splits(pool) ==
    {[teamA |-> {First(pool)} \cup extra, teamB |-> pool \ ({First(pool)} \cup extra)] :
        extra \in kSubset(TeamSize - 1, pool \ {First(pool)})}

\* bestSplitsForPool: the most balanced splits of a pool.
BestSplitsForPool(pool) ==
    LET best == Min({Diff(s) : s \in Splits(pool)})
    IN  {s \in Splits(pool) : Diff(s) = best}

Candidates == UNION {BestSplitsForPool(pool) : pool \in Pools}

Spectators(split) == List \ (split.teamA \cup split.teamB)

\* teammatePairs of both teams.
Pairs(split) == kSubset(2, split.teamA) \cup kSubset(2, split.teamB)

\* combinedPenaltyFunc.
SpectatorPenalty(split) ==
    SumFunctionOnSet([p \in List |-> players[p].cost], Spectators(split))

LastPairs == UNION {kSubset(2, team) : team \in lastTeams}

SameTeamPenalty(split) == Cardinality(Pairs(split) \cap LastPairs)

Penalty(split) ==
    SpectatorPenalty(split) * weight.rotation + SameTeamPenalty(split) * weight.sameTeam

FilterByDiff(splits, diff) == {s \in splits : Diff(s) = diff}

BestDiff == Min({Diff(s) : s \in Candidates})

CheapestThenBalanced(eligible) ==
    LET least    == Min({Penalty(s) : s \in eligible})
        cheapest == {s \in eligible : Penalty(s) = least}
        closest  == Min({Diff(s) : s \in cheapest})
    IN  FilterByDiff(cheapest, closest)

\* Mutant: the balance is compared before the penalty is.
SelectBalanceFirst ==
    LET best  == FilterByDiff(Candidates, BestDiff)
        least == Min({Penalty(s) : s \in best})
    IN  {s \in best : Penalty(s) = least}

\* Mutant: the slack is applied twice.
SelectWithinTwiceSlack ==
    LET limit    == BestDiff + 2 * Slack
        eligible == {s \in Candidates : Diff(s) <= limit}
    IN  CheapestThenBalanced(eligible)

\* Mutant: the comparison of the penalties is turned around.
SelectDearest ==
    LET limit    == BestDiff + Slack
        eligible == {s \in Candidates : Diff(s) <= limit}
        dearest  == Max({Penalty(s) : s \in eligible})
    IN  {s \in eligible : Penalty(s) = dearest}

\* selectCandidatesByBalanceAndPenalty.
Select ==
    IF Slack = 0 THEN FilterByDiff(Candidates, BestDiff)
    ELSE LET limit    == BestDiff + Slack
             eligible == {s \in Candidates : Diff(s) <= limit}
         IN  CheapestThenBalanced(eligible)

-----------------------------------------------------------------------------
(* The call: one list of players in, one match out.  pickIndexBySeed makes  *)
(* the seed an index into the selected candidates.                          *)

BuildMatch ==
    /\ drawn = NoMatch
    /\ drawn' \in Select
    /\ UNCHANGED <<players, lastTeams, weight>>

-----------------------------------------------------------------------------
(* The reference: every way to fill two teams from the list.                *)

Teams == kSubset(TeamSize, List)

AllSplits == {s \in [teamA : Teams, teamB : Teams] : s.teamA \cap s.teamB = {}}

SmallestDiff == Min({Diff(s) : s \in AllSplits})

-----------------------------------------------------------------------------
(* Properties.                                                              *)

\* A match is two full teams of different listed players, and its difference is
\* at most the slack worse than that of the best division there is of all the
\* players into teams and spectators.
NearlyBalanced ==
    drawn # NoMatch => drawn \in AllSplits /\ Diff(drawn) <= SmallestDiff + Slack

\* "Team balance is still primary, and rotation is applied within the slack":
\* the match costs no more than any of the perfectly balanced ones.
NeverWorseThanBalanced ==
    drawn # NoMatch =>
        LET best == SmallestDiff
        IN  \A s \in AllSplits : Diff(s) = best => Penalty(drawn) <= Penalty(s)

\* With the avoidance of team mates switched off, throwing away all but the most
\* balanced splits of each pool loses nothing: no division within the slack
\* seats cheaper spectators, and none with equally cheap ones is better balanced.
RotationIsOptimal ==
    drawn # NoMatch /\ weight.sameTeam = 0 =>
        LET limit == SmallestDiff + Slack
        IN  \A s \in AllSplits : Diff(s) <= limit =>
                \/ Penalty(drawn) < Penalty(s)
                \/ Penalty(drawn) = Penalty(s) /\ Diff(drawn) <= Diff(s)
==============================================================================
