--------------------------- MODULE RotationProofs ---------------------------
(****************************************************************************)
(* What a draw promises, for every list, every ratings and every history:   *)
(* the match is balanced within the slack, the rotation costs no balance,   *)
(* and nobody sits out before his turn.                                     *)
(*                                                                          *)
(* The sections: facts about divisions into teams; the program's candidates *)
(* lose nothing against all divisions; what Select picks among them; the    *)
(* invariant of a room; and, by exchanging a spectator with a player, who   *)
(* sits out and who stays level.                                            *)
(****************************************************************************)
EXTENDS Rotation, InductionTheorems, TLAPS

-----------------------------------------------------------------------------
(* Subsets and minima.                                                      *)

\* Min of naturals is one of them, and the smallest.
LEMMA MinNat ==
    ASSUME NEW S \in SUBSET Nat, S # {}
    PROVE  Min(S) \in S /\ Min(S) \in Nat /\ \A n \in S : Min(S) <= n
BY LeastNatural DEF Min

\* A finite set has subsets of every size up to its own.
LEMMA SubsetOfSize ==
    ASSUME NEW S, IsFiniteSet(S), NEW n \in Nat, n <= Cardinality(S)
    PROVE  kSubset(n, S) # {}
<1> DEFINE Large == {s \in SUBSET S : Cardinality(s) >= n}
<1>1. S \in Large
  BY FS_CardinalityType
<1>2. Large \in SUBSET (SUBSET S) /\ Large # {}
  BY <1>1
<1> HIDE DEF Large
<1>3. PICK s \in Large : \A t \in Large : t \subseteq s => t = s
  BY <1>2, MinimalSubset
<1> USE DEF Large
<1>4. IsFiniteSet(s) /\ Cardinality(s) \in Nat /\ Cardinality(s) >= n
  BY FS_Subset, FS_CardinalityType
<1>5. CASE Cardinality(s) > n
  <2>1. s # {}
    BY <1>4, <1>5, FS_EmptySet
  <2>2. PICK x \in s : TRUE
    BY <2>1
  <2>3. Cardinality(s \ {x}) = Cardinality(s) - 1
    BY <1>4, FS_RemoveElement
  <2>4. s \ {x} \in Large
    BY <2>3, <1>4, <1>5
  <2> QED
    BY <2>4, <1>3
<1> QED
  BY <1>4, <1>5 DEF kSubset

\* The part of a set that another part leaves, and two parts put together.
LEMMA PartsOfASet ==
    ASSUME NEW S, IsFiniteSet(S), NEW A \in SUBSET S
    PROVE  /\ Cardinality(S \ A) = Cardinality(S) - Cardinality(A)
           /\ \A B \in SUBSET S : A \cap B = {} =>
                  Cardinality(A \cup B) = Cardinality(A) + Cardinality(B)
<1>1. IsFiniteSet(A) /\ S \cap A = A
  BY FS_Subset
<1>2. Cardinality(S \ A) = Cardinality(S) - Cardinality(S \cap A)
  BY FS_Difference
<1>3. ASSUME NEW B \in SUBSET S, A \cap B = {}
      PROVE  Cardinality(A \cup B) = Cardinality(A) + Cardinality(B)
  <2>1. IsFiniteSet(B)
    BY FS_Subset
  <2>2. Cardinality(A \cup B) = Cardinality(A) + Cardinality(B) - Cardinality(A \cap B)
    BY <1>1, <2>1, FS_Union
  <2>3. /\ Cardinality(A) \in Nat /\ Cardinality(B) \in Nat
        /\ Cardinality(A \cap B) = 0
    BY <1>1, <1>3, <2>1, FS_CardinalityType, FS_EmptySet
  <2> QED
    BY <2>2, <2>3
<1> QED
  BY <1>1, <1>2, <1>3

-----------------------------------------------------------------------------
(* Divisions into two teams.                                                *)

\* A list that may be drawn from: numbered players with ratings and costs, and
\* enough of them.
ListOK ==
    /\ IsFiniteSet(List) /\ List \subseteq Nat
    /\ Cardinality(List) >= 2 * TeamSize
    /\ \A p \in List : players[p].power \in Int /\ players[p].cost \in Nat
    /\ weight \in [rotation : Nat, sameTeam : Nat]

Swap(split) == [teamA |-> split.teamB, teamB |-> split.teamA]

Pool(split) == split.teamA \cup split.teamB

LEMMA PowerInt == ASSUME ListOK, NEW team \in SUBSET List PROVE Power(team) \in Int
<1> DEFINE f == [p \in List |-> players[p].power]
<1>1. IsFiniteSet(team)
  BY FS_Subset DEF ListOK
<1>2. \A p \in team : f[p] \in Int
  BY DEF ListOK
<1> QED
  BY <1>1, <1>2, SumInt DEF Power

LEMMA DiffNat ==
    ASSUME ListOK, NEW s \in AllSplits
    PROVE  Diff(s) \in Nat /\ Diff(Swap(s)) = Diff(s)
<1>1. s.teamA \in SUBSET List /\ s.teamB \in SUBSET List
  BY DEF AllSplits, Teams, kSubset
<1>2. Power(s.teamA) \in Int /\ Power(s.teamB) \in Int
  BY <1>1, PowerInt
<1>3. Swap(s).teamA = s.teamB /\ Swap(s).teamB = s.teamA
  BY DEF Swap
<1> QED
  BY <1>2, <1>3 DEF Diff

LEMMA PoolFacts ==
    ASSUME ListOK, NEW pool \in Pools
    PROVE  /\ pool \subseteq List /\ IsFiniteSet(pool) /\ Cardinality(pool) = 2 * TeamSize
           /\ First(pool) \in pool
           /\ IsFiniteSet(pool \ {First(pool)})
           /\ Cardinality(pool \ {First(pool)}) = 2 * TeamSize - 1
<1>1. pool \subseteq List /\ Cardinality(pool) = 2 * TeamSize
  BY DEF Pools, kSubset
<1>2. IsFiniteSet(pool)
  BY <1>1, FS_Subset DEF ListOK
<1>3. pool # {}
  BY <1>1, <1>2, FS_EmptySet, TeamSizePositive
<1>4. First(pool) \in pool
  BY <1>1, <1>3, MinNat DEF First, ListOK
<1> QED
  BY <1>1, <1>2, <1>4, FS_RemoveElement

LEMMA SplitFacts ==
    ASSUME ListOK, NEW pool \in Pools, NEW s \in Splits(pool)
    PROVE  s \in AllSplits /\ Pool(s) = pool
<1> DEFINE first == First(pool)
<1>0. /\ pool \subseteq List /\ IsFiniteSet(pool) /\ Cardinality(pool) = 2 * TeamSize
      /\ first \in pool
      /\ IsFiniteSet(pool \ {first})
  BY PoolFacts
<1>1. PICK extra \in kSubset(TeamSize - 1, pool \ {first}) :
          s = [teamA |-> {first} \cup extra, teamB |-> pool \ ({first} \cup extra)]
  BY DEF Splits
<1> DEFINE A == extra \cup {first}
<1>2. /\ extra \subseteq pool \ {first} /\ Cardinality(extra) = TeamSize - 1
      /\ IsFiniteSet(extra)
  BY <1>0, FS_Subset DEF kSubset
<1>3. IsFiniteSet(A) /\ Cardinality(A) = TeamSize
  BY <1>2, FS_AddElement, TeamSizePositive
<1>4. A \subseteq pool /\ pool \cap A = A
  BY <1>0, <1>2
<1>5. Cardinality(pool \ A) = TeamSize
  <2>1. Cardinality(pool \ A) = Cardinality(pool) - Cardinality(A)
    BY <1>0, <1>4, PartsOfASet
  <2> HIDE DEF A
  <2> QED
    BY <1>0, <1>3, <2>1, TeamSizePositive
<1>6. s.teamA = A /\ s.teamB = pool \ A /\ s = [teamA |-> A, teamB |-> pool \ A]
  BY <1>1
<1> HIDE DEF A
<1>7. A \in Teams /\ pool \ A \in Teams
  BY <1>0, <1>3, <1>4, <1>5 DEF Teams, kSubset
<1> QED
  BY <1>4, <1>6, <1>7 DEF AllSplits, Pool

LEMMA SplitsExist ==
    ASSUME ListOK, NEW pool \in Pools
    PROVE  Splits(pool) # {}
<1>1. kSubset(TeamSize - 1, pool \ {First(pool)}) # {}
  <2>1. TeamSize - 1 \in Nat /\ TeamSize - 1 <= 2 * TeamSize - 1
    BY TeamSizePositive
  <2> QED
    BY <2>1, PoolFacts, SubsetOfSize
<1> QED
  BY <1>1 DEF Splits

\* Every division of the players is one of its pool's splits, or is one with
\* the teams exchanged.
LEMMA EveryDivisionIsASplit ==
    ASSUME ListOK, NEW s \in AllSplits
    PROVE  /\ Pool(s) \in Pools
           /\ s \in Splits(Pool(s)) \/ Swap(s) \in Splits(Pool(s))
<1> DEFINE pool == Pool(s)
           first == First(pool)
<1>1. /\ s.teamA \subseteq List /\ Cardinality(s.teamA) = TeamSize
      /\ s.teamB \subseteq List /\ Cardinality(s.teamB) = TeamSize
      /\ s.teamA \cap s.teamB = {}
      /\ s = [teamA |-> s.teamA, teamB |-> s.teamB]
  BY DEF AllSplits, Teams, kSubset
<1>2. IsFiniteSet(s.teamA) /\ IsFiniteSet(s.teamB)
  BY <1>1, FS_Subset DEF ListOK
<1>3. Cardinality(pool) = 2 * TeamSize
  <2>1. Cardinality(s.teamA \cup s.teamB) = Cardinality(s.teamA) + Cardinality(s.teamB)
    <3>1. IsFiniteSet(List) /\ s.teamA \in SUBSET List /\ s.teamB \in SUBSET List
      BY <1>1 DEF ListOK
    <3>2. \A B \in SUBSET List : s.teamA \cap B = {} =>
             Cardinality(s.teamA \cup B) = Cardinality(s.teamA) + Cardinality(B)
      BY <3>1, PartsOfASet
    <3> QED
      BY <1>1, <3>1, <3>2
  <2> QED
    BY <1>1, <2>1, TeamSizePositive DEF Pool
<1>4. pool \in Pools
  BY <1>1, <1>3 DEF Pools, kSubset, Pool
<1>5. first \in pool
  BY <1>4, PoolFacts
<1>6. ASSUME NEW A \in {s.teamA, s.teamB}, first \in A
      PROVE  [teamA |-> A, teamB |-> pool \ A] \in Splits(pool)
  <2>1. A \ {first} \subseteq pool \ {first} /\ {first} \cup (A \ {first}) = A
    BY <1>6 DEF Pool
  <2>2. Cardinality(A \ {first}) = TeamSize - 1
    <3>1. IsFiniteSet(A) /\ Cardinality(A) = TeamSize
      BY <1>1, <1>2
    <3>2. Cardinality(A \ {first}) = Cardinality(A) - 1
      BY <1>6, <3>1, FS_RemoveElement
    <3> QED
      BY <3>1, <3>2
  <2>3. A \ {first} \in kSubset(TeamSize - 1, pool \ {first})
    BY <2>1, <2>2 DEF kSubset
  <2> QED
    BY <2>1, <2>3 DEF Splits
<1>7. CASE first \in s.teamA
  <2>1. pool \ s.teamA = s.teamB
    BY <1>1 DEF Pool
  <2> QED
    BY <1>1, <1>4, <1>6, <1>7, <2>1
<1>8. CASE first \in s.teamB
  <2>1. pool \ s.teamB = s.teamA
    BY <1>1 DEF Pool
  <2> QED
    BY <1>4, <1>6, <1>8, <2>1 DEF Swap
<1> QED
  BY <1>5, <1>7, <1>8 DEF Pool

-----------------------------------------------------------------------------
(* What a division costs.                                                   *)

LEMMA SpectatorPenaltyNat ==
    ASSUME ListOK, NEW s
    PROVE  SpectatorPenalty(s) \in Nat
<1> DEFINE f == [p \in List |-> players[p].cost]
<1>1. Spectators(s) \in SUBSET List
  BY DEF Spectators
<1>2. IsFiniteSet(List) /\ \A p \in List : f[p] \in Nat
  BY DEF ListOK
<1>3. \A T \in SUBSET List : SumFunctionOnSet(f, T) \in Nat
  BY <1>2, SumNat
<1> QED
  BY <1>1, <1>3 DEF SpectatorPenalty

LEMMA SameTeamPenaltyNat ==
    ASSUME ListOK, NEW s \in AllSplits
    PROVE  SameTeamPenalty(s) \in Nat
<1>1. IsFiniteSet(SUBSET List)
  BY FS_SUBSET DEF ListOK
<1>2. s.teamA \subseteq List /\ s.teamB \subseteq List
  BY DEF AllSplits, Teams, kSubset
<1>3. Pairs(s) \cap LastPairs \subseteq SUBSET List
  BY <1>2 DEF Pairs, kSubset
<1>4. IsFiniteSet(Pairs(s) \cap LastPairs)
  BY <1>1, <1>3, FS_Subset
<1> QED
  BY <1>4, FS_CardinalityType DEF SameTeamPenalty

LEMMA NatProduct == ASSUME NEW a \in Nat, NEW b \in Nat PROVE a * b \in Nat
OBVIOUS

LEMMA PenaltyNat ==
    ASSUME ListOK, NEW s \in AllSplits
    PROVE  Penalty(s) \in Nat
<1>1. weight.rotation \in Nat /\ weight.sameTeam \in Nat
  BY DEF ListOK
<1>2. /\ SpectatorPenalty(s) * weight.rotation \in Nat
      /\ SameTeamPenalty(s) * weight.sameTeam \in Nat
  BY <1>1, SpectatorPenaltyNat, SameTeamPenaltyNat, NatProduct
<1> QED
  BY <1>2 DEF Penalty

LEMMA SwapCostsTheSame ==
    ASSUME ListOK, NEW s \in AllSplits
    PROVE  Penalty(Swap(s)) = Penalty(s)
<1>1. Spectators(Swap(s)) = Spectators(s)
  BY DEF Spectators, Swap
<1>2. Pairs(Swap(s)) = Pairs(s)
  BY DEF Pairs, Swap
<1> QED
  BY <1>1, <1>2 DEF Penalty, SpectatorPenalty, SameTeamPenalty

\* With the avoidance of team mates switched off, who sits out decides.
LEMMA SpectatorsDecide ==
    ASSUME ListOK, NEW s \in AllSplits, weight.sameTeam = 0
    PROVE  Penalty(s) = SpectatorPenalty(s) * weight.rotation
<1>1. weight.rotation \in Nat /\ weight.sameTeam \in Nat
  BY DEF ListOK
<1>2. SpectatorPenalty(s) * weight.rotation \in Nat
  BY <1>1, SpectatorPenaltyNat, NatProduct
<1>3. SameTeamPenalty(s) * weight.sameTeam = 0
  BY SameTeamPenaltyNat
<1> QED
  BY <1>2, <1>3 DEF Penalty

-----------------------------------------------------------------------------
(* The candidates.                                                          *)

LEMMA BestSplits ==
    ASSUME ListOK, NEW pool \in Pools
    PROVE  /\ BestSplitsForPool(pool) # {}
           /\ \A c \in BestSplitsForPool(pool) :
                  c \in Splits(pool) /\ \A s \in Splits(pool) : Diff(c) <= Diff(s)
           /\ \A c \in Splits(pool) :
                  (\A s \in Splits(pool) : Diff(c) <= Diff(s)) => c \in BestSplitsForPool(pool)
<1> DEFINE Diffs == {Diff(s) : s \in Splits(pool)}
           best  == Min(Diffs)
<1>1. \A s \in Splits(pool) : Diff(s) \in Nat
  BY SplitFacts, DiffNat
<1>2. Diffs \in SUBSET Nat /\ Diffs # {}
  BY <1>1, SplitsExist
<1> HIDE DEF Diffs
<1>3. best \in Diffs /\ best \in Nat /\ \A d \in Diffs : best <= d
  BY <1>2, MinNat
<1> HIDE DEF best
<1>4. BestSplitsForPool(pool) = {s \in Splits(pool) : Diff(s) = best}
  BY DEF BestSplitsForPool, best, Diffs
<1>5. /\ \E s \in Splits(pool) : Diff(s) = best
      /\ \A s \in Splits(pool) : best <= Diff(s)
  BY <1>3 DEF Diffs
<1> QED
  BY <1>1, <1>3, <1>4, <1>5

LEMMA CandidateFacts ==
    ASSUME ListOK, NEW c \in Candidates
    PROVE  c \in AllSplits /\ Diff(c) \in Nat /\ Penalty(c) \in Nat
<1>1. PICK pool \in Pools : c \in BestSplitsForPool(pool)
  BY DEF Candidates
<1>2. c \in Splits(pool)
  BY <1>1, BestSplits
<1>3. c \in AllSplits
  BY <1>2, SplitFacts
<1> QED
  BY <1>3, DiffNat, PenaltyNat

\* Every division of the players has a candidate of the same pool, and so with
\* the same spectators, that is at least as balanced.
LEMMA CandidateForEveryDivision ==
    ASSUME ListOK, NEW s \in AllSplits
    PROVE  \E c \in Candidates : Spectators(c) = Spectators(s) /\ Diff(c) <= Diff(s)
<1>1. /\ Pool(s) \in Pools
      /\ s \in Splits(Pool(s)) \/ Swap(s) \in Splits(Pool(s))
  BY EveryDivisionIsASplit
<1>2. PICK t \in Splits(Pool(s)) : Diff(t) = Diff(s)
  BY <1>1, DiffNat
<1>3. PICK c \in BestSplitsForPool(Pool(s)) : TRUE
  BY <1>1, BestSplits
<1>4. c \in Splits(Pool(s)) /\ Diff(c) <= Diff(t)
  BY <1>1, BestSplits
<1>5. Pool(c) = Pool(s)
  BY <1>1, <1>4, SplitFacts
<1>6. c \in Candidates
  BY <1>1 DEF Candidates
<1> QED
  BY <1>2, <1>4, <1>5, <1>6 DEF Spectators, Pool

LEMMA DivisionsExist == ASSUME ListOK PROVE AllSplits # {} /\ Candidates # {}
<1>1. 2 * TeamSize \in Nat
  BY TeamSizePositive
<1>2. Pools # {}
  BY <1>1, SubsetOfSize DEF Pools, ListOK
<1>3. PICK pool \in Pools : TRUE
  BY <1>2
<1>4. PICK c \in BestSplitsForPool(pool) : TRUE
  BY BestSplits
<1>5. c \in Candidates
  BY DEF Candidates
<1> QED
  BY <1>5, CandidateFacts

\* Keeping only the most balanced splits of each pool loses no balance.
LEMMA BestDiffIsSmallest ==
    ASSUME ListOK
    PROVE  /\ BestDiff \in Nat /\ BestDiff = SmallestDiff
           /\ \A s \in AllSplits : BestDiff <= Diff(s)
<1> DEFINE C == {Diff(s) : s \in Candidates}
           A == {Diff(s) : s \in AllSplits}
<1>1. C \in SUBSET Nat /\ C # {} /\ A \in SUBSET Nat /\ A # {}
  BY DivisionsExist, CandidateFacts, DiffNat
<1>2. C \subseteq A
  BY CandidateFacts
<1>3. \A a \in A : \E c \in C : c <= a
  BY CandidateForEveryDivision
<1> HIDE DEF C, A
<1>4. /\ Min(C) \in C /\ Min(C) \in Nat /\ \A c \in C : Min(C) <= c
      /\ Min(A) \in A /\ Min(A) \in Nat /\ \A a \in A : Min(A) <= a
  BY <1>1, MinNat
<1>5. PICK c \in C : c <= Min(A)
  BY <1>3, <1>4
<1>6. c \in Nat /\ Min(C) <= c /\ Min(A) <= Min(C)
  BY <1>1, <1>2, <1>4
<1>7. Min(C) = Min(A)
  BY <1>4, <1>5, <1>6
<1>8. BestDiff = Min(C) /\ SmallestDiff = Min(A)
  BY DEF BestDiff, SmallestDiff, C, A
<1>9. \A s \in AllSplits : Diff(s) \in A
  BY DEF A
<1> QED
  BY <1>4, <1>7, <1>8, <1>9

\* A division as balanced as any is a candidate, or is one with its teams
\* exchanged.
LEMMA BalancedIsCandidate ==
    ASSUME ListOK, NEW s \in AllSplits, Diff(s) = SmallestDiff
    PROVE  \E c \in Candidates : Diff(c) = SmallestDiff /\ Penalty(c) = Penalty(s)
<1>1. /\ Pool(s) \in Pools
      /\ s \in Splits(Pool(s)) \/ Swap(s) \in Splits(Pool(s))
  BY EveryDivisionIsASplit
<1>2. PICK c \in Splits(Pool(s)) : Diff(c) = Diff(s) /\ Penalty(c) = Penalty(s)
  BY <1>1, DiffNat, SwapCostsTheSame
<1>3. \A t \in Splits(Pool(s)) : Diff(c) <= Diff(t)
  BY <1>1, <1>2, SplitFacts, BestDiffIsSmallest
<1>4. c \in Candidates
  BY <1>1, <1>3, BestSplits DEF Candidates
<1> QED
  BY <1>2, <1>4

-----------------------------------------------------------------------------
(* The selection.                                                           *)

\* The least of a non-empty set's costs: the members that have it, and their
\* diffs.
LEMMA CheapestFacts ==
    ASSUME ListOK, NEW eligible \in SUBSET Candidates, NEW m \in CheapestThenBalanced(eligible)
    PROVE  /\ m \in eligible
           /\ \A c \in eligible : \/ Penalty(m) < Penalty(c)
                                  \/ Penalty(m) = Penalty(c) /\ Diff(m) <= Diff(c)
<1> DEFINE P        == {Penalty(s) : s \in eligible}
           least    == Min(P)
           cheapest == {s \in eligible : Penalty(s) = least}
           D        == {Diff(s) : s \in cheapest}
           closest  == Min(D)
<1>1. CheapestThenBalanced(eligible) = {s \in cheapest : Diff(s) = closest}
  BY DEF CheapestThenBalanced, FilterByDiff
<1>2. m \in cheapest /\ Diff(m) = closest
  BY <1>1
<1>3. \A c \in eligible : Penalty(c) \in Nat /\ Diff(c) \in Nat
  BY CandidateFacts
<1>4. P \in SUBSET Nat /\ P # {} /\ D \in SUBSET Nat /\ D # {}
  BY <1>2, <1>3
<1> HIDE DEF P, D
<1>5. (\A c \in P : least <= c) /\ (\A d \in D : closest <= d)
  BY <1>4, MinNat
<1>6. /\ \A c \in eligible : least <= Penalty(c)
      /\ \A c \in cheapest : closest <= Diff(c)
  BY <1>5 DEF P, D
<1>7. m \in eligible /\ Penalty(m) = least
  BY <1>2
<1> HIDE DEF least, closest
<1> QED
  BY <1>2, <1>3, <1>6, <1>7

LEMMA SelectFacts ==
    ASSUME ListOK, NEW m \in Select
    PROVE  /\ m \in Candidates /\ Diff(m) <= SmallestDiff + Slack
           /\ Slack > 0 => \A c \in Candidates : Diff(c) <= SmallestDiff + Slack =>
                  \/ Penalty(m) < Penalty(c)
                  \/ Penalty(m) = Penalty(c) /\ Diff(m) <= Diff(c)
<1>1. BestDiff \in Nat /\ BestDiff = SmallestDiff
  BY BestDiffIsSmallest
<1>2. CASE Slack = 0
  <2>1. m \in Candidates /\ Diff(m) = BestDiff
    BY <1>2 DEF Select, FilterByDiff
  <2> QED
    BY <1>1, <1>2, <2>1
<1>3. CASE Slack # 0
  <2> DEFINE eligible == {s \in Candidates : Diff(s) <= BestDiff + Slack}
  <2>1. m \in CheapestThenBalanced(eligible)
    BY <1>3 DEF Select
  <2> QED
    BY <1>1, <2>1, CheapestFacts
<1> QED
  BY <1>2, <1>3

-----------------------------------------------------------------------------
(* The invariant of a room.                                                 *)

\* Ratings and history have every member, and nobody sat out in the future.
RoomOK ==
    /\ now \in Nat
    /\ power \in [Members -> Int]
    /\ history \in [Members -> [sat : Nat, seen : Nat]]
    /\ \A p \in Members : history[p].seen <= now
    /\ weight \in [rotation : Nat, sameTeam : Nat]
    /\ \A list \in lists : list \subseteq Members /\ Cardinality(list) >= 2 * TeamSize

\* The prices are those of the history as it is when the match is saved, and
\* the match is one the list and the prices allow.
IInv ==
    /\ RoomOK
    /\ players # <<>> =>
          /\ List \in lists
          /\ \A p \in List : players[p] = [power |-> power[p], cost |-> Cost(history[p], now)]
    /\ drawn # NoMatch => players # <<>> /\ drawn \in Select

LEMMA CostNat ==
    ASSUME NEW h \in [sat : Nat, seen : Nat], NEW time \in Nat, h.seen <= time
    PROVE  Cost(h, time) \in Nat
<1>1. time - h.seen \in Nat
  OBVIOUS
<1>2. Recency(time - h.seen) \in Nat
  BY <1>1 DEF Recency
<1> QED
  BY <1>2 DEF Cost

\* A turn more, not longer ago, costs more.
LEMMA CostGrows ==
    ASSUME NEW g \in [sat : Nat, seen : Nat], NEW h \in [sat : Nat, seen : Nat],
           NEW time \in Nat, h.seen <= time, g.sat < h.sat, g.seen <= h.seen
    PROVE  Cost(g, time) < Cost(h, time)
<1>1. time - g.seen \in Nat /\ time - h.seen \in Nat /\ time - h.seen <= time - g.seen
  OBVIOUS
<1>2. /\ Recency(time - g.seen) \in Nat /\ Recency(time - h.seen) \in Nat
      /\ Recency(time - g.seen) <= Recency(time - h.seen)
  BY <1>1 DEF Recency
<1> QED
  BY <1>2 DEF Cost

LEMMA ListIsOK == IInv /\ players # <<>> => ListOK
<1> SUFFICES ASSUME IInv, players # <<>> PROVE ListOK
  OBVIOUS
<1>1. List \subseteq Members /\ Cardinality(List) >= 2 * TeamSize
  BY DEF IInv, RoomOK
<1>2. IsFiniteSet(List) /\ List \subseteq Nat
  BY <1>1, MembersNumbered, FS_Subset
<1>3. ASSUME NEW p \in List
      PROVE  players[p].power \in Int /\ players[p].cost \in Nat
  <2>1. p \in Members /\ power[p] \in Int /\ now \in Nat
    BY <1>1 DEF IInv, RoomOK
  <2>2. history[p] \in [sat : Nat, seen : Nat] /\ history[p].seen <= now
    BY <2>1 DEF IInv, RoomOK
  <2>3. Cost(history[p], now) \in Nat
    BY <2>1, <2>2, CostNat
  <2> QED
    <3>1. players[p] = [power |-> power[p], cost |-> Cost(history[p], now)]
      BY DEF IInv
    <3> QED
      BY <2>1, <2>3, <3>1
<1> QED
  BY <1>1, <1>2, <1>3 DEF ListOK, IInv, RoomOK

LEMMA InitOK == Init => IInv
<1> SUFFICES ASSUME Init PROVE IInv
  OBVIOUS
<1>1. PICK room \in Rooms :
        power = room.power /\ history = room.history /\ weight = room.weight /\ lists = room.lists
  BY DEF Init
<1>2. \A p \in Members : /\ history[p] \in [sat : Nat, seen : Nat]
                         /\ history[p].seen <= Start
  BY <1>1, RoomsAreRooms, TimeNatural
<1>3. history \in [Members -> [sat : Nat, seen : Nat]]
  BY <1>1, <1>2, RoomsAreRooms
<1>4. RoomOK
  BY <1>1, <1>2, <1>3, RoomsAreRooms, TimeNatural DEF RoomOK, Init
<1> QED
  BY <1>4 DEF IInv, Init

\* What Select reads.
LEMMA SelectStays ==
    ASSUME UNCHANGED <<players, lastTeams, weight>>
    PROVE  Select' = Select
<1>1. List' = List
  BY DEF List
<1>2. \A s : Diff(s)' = Diff(s)
  <2>1. \A team : Power(team)' = Power(team)
    BY <1>1 DEF Power
  <2> QED
    BY <2>1 DEF Diff
<1>3. \A s : Penalty(s)' = Penalty(s)
  <2>1. \A s : SpectatorPenalty(s)' = SpectatorPenalty(s)
    BY <1>1 DEF SpectatorPenalty, Spectators
  <2>2. \A s : SameTeamPenalty(s)' = SameTeamPenalty(s)
    BY DEF SameTeamPenalty, LastPairs, Pairs
  <2> QED
    BY <2>1, <2>2 DEF Penalty
<1>4. Candidates' = Candidates
  <2>1. \A pool : BestSplitsForPool(pool)' = BestSplitsForPool(pool)
    BY <1>2 DEF BestSplitsForPool, Splits, First
  <2>2. Pools' = Pools
    BY <1>1 DEF Pools
  <2> QED
    BY <2>1, <2>2 DEF Candidates
<1>5. BestDiff' = BestDiff
  BY <1>2, <1>4 DEF BestDiff
<1>6. /\ \A splits, diff : FilterByDiff(splits, diff)' = FilterByDiff(splits, diff)
      /\ \A eligible : CheapestThenBalanced(eligible)' = CheapestThenBalanced(eligible)
  BY <1>2, <1>3 DEF FilterByDiff, CheapestThenBalanced
<1> QED
  BY <1>2, <1>4, <1>5, <1>6 DEF Select

LEMMA StepOK == IInv /\ [Next]_vars => IInv'
<1> SUFFICES ASSUME IInv, [Next]_vars PROVE IInv'
  OBVIOUS
<1>1. CASE LoadRoom
  <2>1. PICK gap \in Gaps, list \in lists :
          /\ now' = now + gap
          /\ players' = [p \in list |-> [power |-> power[p], cost |-> Cost(history[p], now')]]
          /\ UNCHANGED <<lastTeams, weight, drawn, power, history, lists, left>>
    BY <1>1 DEF LoadRoom
  <2>2. drawn = NoMatch
    BY <1>1 DEF LoadRoom, IInv
  <2>3. now' \in Nat /\ now <= now'
    BY <2>1, TimeNatural DEF IInv, RoomOK
  <2>4. RoomOK'
    BY <2>1, <2>3 DEF IInv, RoomOK
  <2>5. List' = list
    BY <2>1 DEF List
  <2> QED
    BY <2>1, <2>2, <2>4, <2>5 DEF IInv, NoMatch
<1>2. CASE Draw
  <2>1. /\ drawn' \in Select /\ players # <<>>
        /\ UNCHANGED <<players, lastTeams, weight, power, history, now, lists>>
    BY <1>2 DEF Draw, BuildMatch
  <2>2. Select' = Select /\ List' = List
    BY <2>1, SelectStays DEF List
  <2> QED
    BY <2>1, <2>2 DEF IInv, RoomOK
<1>3. CASE SaveLastMatch
  <2>1. /\ history' = [p \in Members |->
                         IF p \in Spectators(drawn) THEN SatOut(history[p]) ELSE history[p]]
        /\ players' = <<>> /\ drawn' = NoMatch
        /\ UNCHANGED <<weight, power, now, lists>>
    BY <1>3 DEF SaveLastMatch
  <2>2. ASSUME NEW p \in Members
        PROVE  history'[p] \in [sat : Nat, seen : Nat] /\ history'[p].seen <= now
    <3>1. history[p] \in [sat : Nat, seen : Nat] /\ history[p].seen <= now /\ now \in Nat
      BY DEF IInv, RoomOK
    <3>2. SatOut(history[p]) \in [sat : Nat, seen : Nat] /\ SatOut(history[p]).seen <= now
      BY <3>1 DEF SatOut
    <3> QED
      BY <2>1, <3>1, <3>2
  <2>3. history' \in [Members -> [sat : Nat, seen : Nat]]
    BY <2>1, <2>2
  <2>4. RoomOK'
    BY <2>1, <2>2, <2>3 DEF IInv, RoomOK
  <2> QED
    BY <2>1, <2>4 DEF IInv, NoMatch
<1>4. CASE UNCHANGED vars
  <2>1. /\ Select' = Select /\ List' = List
        /\ UNCHANGED <<players, drawn, weight, power, history, now, lists>>
    BY <1>4, SelectStays DEF vars, List
  <2> QED
    BY <2>1 DEF IInv, RoomOK, NoMatch
<1> QED
  BY <1>1, <1>2, <1>3, <1>4 DEF Next

\* What a room is priced by stays in range, and a match is saved with the prices
\* and from the list it was drawn with.
THEOREM RoomInvariant == Spec => []IInv
BY InitOK, StepOK, PTL DEF Spec

\* Every match is a division of the listed players, and no division is more
\* than the slack better balanced.
THEOREM MatchesAreBalanced == Spec => []NearlyBalanced
<1>1. IInv => NearlyBalanced
  <2> SUFFICES ASSUME IInv, drawn # NoMatch
               PROVE  drawn \in AllSplits /\ Diff(drawn) <= SmallestDiff + Slack
    BY DEF NearlyBalanced
  <2>1. ListOK /\ drawn \in Select
    BY ListIsOK DEF IInv
  <2> QED
    BY <2>1, SelectFacts, CandidateFacts
<1> QED
  BY <1>1, RoomInvariant, PTL

\* No perfectly balanced division is cheaper than the match.
THEOREM RotationIsFree ==
    ASSUME Slack > 0 PROVE Spec => []NeverWorseThanBalanced
<1>1. IInv => NeverWorseThanBalanced
  <2> SUFFICES ASSUME IInv, drawn # NoMatch,
                      NEW s \in AllSplits, Diff(s) = SmallestDiff
               PROVE  Penalty(drawn) <= Penalty(s)
    BY DEF NeverWorseThanBalanced
  <2>1. ListOK /\ drawn \in Select
    BY ListIsOK DEF IInv
  <2>2. PICK c \in Candidates : Diff(c) = SmallestDiff /\ Penalty(c) = Penalty(s)
    BY <2>1, BalancedIsCandidate
  <2>3. SmallestDiff \in Nat /\ Diff(c) <= SmallestDiff + Slack
    BY <2>1, <2>2, BestDiffIsSmallest, SlackNatural
  <2>4. \/ Penalty(drawn) < Penalty(c)
        \/ Penalty(drawn) = Penalty(c)
    BY <2>1, <2>3, SelectFacts
  <2>5. Penalty(drawn) \in Nat /\ Penalty(c) \in Nat
    BY <2>1, SelectFacts, CandidateFacts
  <2> QED
    BY <2>2, <2>4, <2>5
<1> QED
  BY <1>1, RoomInvariant, PTL

\* With the avoidance of team mates off, a match is the best there is.
LEMMA DrawnIsOptimal ==
    ASSUME Slack > 0, IInv, drawn # NoMatch, weight.sameTeam = 0,
           NEW s \in AllSplits, Diff(s) <= SmallestDiff + Slack
    PROVE  \/ Penalty(drawn) < Penalty(s)
           \/ Penalty(drawn) = Penalty(s) /\ Diff(drawn) <= Diff(s)
<1>1. ListOK /\ drawn \in Select
  BY ListIsOK DEF IInv
<1>2. PICK c \in Candidates : Spectators(c) = Spectators(s) /\ Diff(c) <= Diff(s)
  BY <1>1, CandidateForEveryDivision
<1>3. /\ SmallestDiff \in Nat /\ Diff(s) \in Nat /\ Diff(c) \in Nat
      /\ drawn \in Candidates /\ Diff(drawn) \in Nat
  BY <1>1, BestDiffIsSmallest, DiffNat, CandidateFacts, SelectFacts
<1>4. Diff(c) <= SmallestDiff + Slack
  BY <1>2, <1>3, SlackNatural
<1>5. Penalty(c) = Penalty(s)
  <2>1. SpectatorPenalty(c) = SpectatorPenalty(s)
    BY <1>2 DEF SpectatorPenalty
  <2> QED
    BY <1>1, <2>1, SpectatorsDecide, CandidateFacts
<1>6. \/ Penalty(drawn) < Penalty(c)
      \/ Penalty(drawn) = Penalty(c) /\ Diff(drawn) <= Diff(c)
  BY <1>1, <1>4, SelectFacts
<1> QED
  BY <1>2, <1>3, <1>5, <1>6

\* Dropping all but the most balanced splits of each pool loses nothing.
THEOREM RotationOptimal ==
    ASSUME Slack > 0 PROVE Spec => []RotationIsOptimal
<1>1. IInv => RotationIsOptimal
  BY DrawnIsOptimal DEF RotationIsOptimal
<1> QED
  BY <1>1, RoomInvariant, PTL

-----------------------------------------------------------------------------
(* Who sits out.                                                            *)

\* A spectator and a player who is not behind him: had they changed places, the
\* match would have cost less.
LEMMA DrawIsFair ==
    ASSUME IInv, drawn # NoMatch, RotationDecides,
           NEW x \in Spectators(drawn), NEW y \in List \ Spectators(drawn)
    PROVE  ~Out!Behind(y, x)
<1> SUFFICES ASSUME Out!Behind(y, x) PROVE FALSE
  OBVIOUS
<1>1. /\ ListOK /\ drawn \in Candidates /\ Slack > 0
      /\ weight.rotation \in Nat /\ weight.rotation > 0 /\ weight.sameTeam = 0
  BY ListIsOK, SelectFacts DEF IInv, RotationDecides, RoomOK
<1>2. drawn \in AllSplits /\ Pool(drawn) \in Pools
  BY <1>1, CandidateFacts, EveryDivisionIsASplit
<1>3. x \in List \ Pool(drawn) /\ y \in Pool(drawn) /\ Pool(drawn) \subseteq List
  BY <1>1, <1>2, PoolFacts DEF Spectators, Pool
<1> DEFINE other == (Pool(drawn) \ {y}) \cup {x}
<1>4. other \in Pools
  <2>1. IsFiniteSet(Pool(drawn)) /\ Cardinality(Pool(drawn)) = 2 * TeamSize
    BY <1>1, <1>2, PoolFacts
  <2>2. /\ IsFiniteSet(Pool(drawn) \ {y})
        /\ Cardinality(Pool(drawn) \ {y}) = Cardinality(Pool(drawn)) - 1
    BY <1>3, <2>1, FS_RemoveElement
  <2>3. Cardinality(other) = Cardinality(Pool(drawn) \ {y}) + 1
    BY <1>3, <2>2, FS_AddElement
  <2>4. Cardinality(other) = 2 * TeamSize
    BY <2>1, <2>2, <2>3, TeamSizePositive
  <2>5. other \subseteq List
    BY <1>3
  <2> QED
    BY <2>4, <2>5 DEF Pools, kSubset
<1>5. PICK s \in Splits(other) : Diff(s) <= SmallestDiff + Slack
  BY <1>1, <1>4, BestDiffIsSmallest DEF RotationDecides
<1>6. s \in AllSplits /\ Pool(s) = other
  BY <1>1, <1>4, SplitFacts
<1>7. Penalty(drawn) <= Penalty(s)
  <2>1. Penalty(drawn) \in Nat /\ Penalty(s) \in Nat
    BY <1>1, <1>2, <1>6, PenaltyNat
  <2> QED
    BY <1>1, <1>5, <1>6, <2>1, DrawnIsOptimal
<1> DEFINE cost == [p \in List |-> players[p].cost]
<1>8. cost[y] < cost[x]
  <2>1. x \in Members /\ y \in Members /\ now \in Nat
    BY <1>3 DEF IInv, RoomOK
  <2>2. /\ history[x] \in [sat : Nat, seen : Nat] /\ history[x].seen <= now
        /\ history[y] \in [sat : Nat, seen : Nat]
    BY <2>1 DEF IInv, RoomOK
  <2>3. history[y].sat < history[x].sat /\ history[y].seen <= history[x].seen
    BY <2>1 DEF Out!Behind, Sat, Seen
  <2>4. Cost(history[y], now) < Cost(history[x], now)
    BY <2>1, <2>2, <2>3, CostGrows
  <2>5. /\ players[x] = [power |-> power[x], cost |-> Cost(history[x], now)]
        /\ players[y] = [power |-> power[y], cost |-> Cost(history[y], now)]
    BY <1>3 DEF IInv
  <2> QED
    BY <1>3, <2>4, <2>5
<1>9. SpectatorPenalty(s) < SpectatorPenalty(drawn)
  <2> DEFINE spectators == Spectators(drawn)
  <2>1. /\ IsFiniteSet(List) /\ spectators \in SUBSET List
        /\ \A p \in List : cost[p] \in Int
    BY <1>1 DEF ListOK, Spectators
  <2>2. Spectators(s) = (spectators \ {x}) \cup {y}
    BY <1>3, <1>6 DEF Spectators, Pool
  <2> HIDE DEF cost, spectators
  <2>3. x \in spectators /\ y \in List \ spectators
    BY DEF spectators
  <2>4. SumFunctionOnSet(cost, (spectators \ {x}) \cup {y})
            = SumFunctionOnSet(cost, spectators) - cost[x] + cost[y]
    BY <2>1, <2>3, SumExchange
  <2>5. SumFunctionOnSet(cost, spectators) \in Int
    <3>1. IsFiniteSet(spectators) /\ \A p \in spectators : cost[p] \in Int
      BY <2>1, FS_Subset
    <3> QED
      BY <3>1, SumInt
  <2>6. cost[x] \in Int /\ cost[y] \in Int
    BY <2>1, <2>3
  <2>7. /\ SpectatorPenalty(s) = SumFunctionOnSet(cost, (spectators \ {x}) \cup {y})
        /\ SpectatorPenalty(drawn) = SumFunctionOnSet(cost, spectators)
    BY <2>2 DEF SpectatorPenalty, cost, spectators
  <2> QED
    BY <1>8, <2>4, <2>5, <2>6, <2>7
<1>10. /\ Penalty(drawn) = SpectatorPenalty(drawn) * weight.rotation
       /\ Penalty(s) = SpectatorPenalty(s) * weight.rotation
  BY <1>1, <1>2, <1>6, SpectatorsDecide
<1>11. SpectatorPenalty(drawn) \in Nat /\ SpectatorPenalty(s) \in Nat
  BY <1>1, SpectatorPenaltyNat
<1>12. ASSUME NEW a \in Nat, NEW b \in Nat, NEW w \in Nat, w > 0, a < b
       PROVE  ~(b * w <= a * w)
  BY <1>12
<1> QED
  BY <1>1, <1>7, <1>9, <1>10, <1>11, <1>12

LEMMA SaveIsADraw ==
    ASSUME IInv, SaveLastMatch, RotationDecides
    PROVE  Out!Draw(List, Spectators(drawn))
<1>1. drawn # NoMatch /\ now' = now
      /\ history' = [p \in Members |->
                       IF p \in Spectators(drawn) THEN SatOut(history[p]) ELSE history[p]]
  BY DEF SaveLastMatch
<1>2. /\ Sat' = [p \in Members |-> IF p \in Spectators(drawn) THEN Sat[p] + 1 ELSE Sat[p]]
      /\ Seen' = [p \in Members |-> IF p \in Spectators(drawn) THEN now ELSE Seen[p]]
  BY <1>1 DEF Sat, Seen, SatOut
<1>3. \A x \in Spectators(drawn), y \in List \ Spectators(drawn) : ~Out!Behind(y, x)
  BY <1>1, DrawIsFair
<1> QED
  BY <1>1, <1>2, <1>3 DEF Out!Draw

\* Between two matches the history stays as it is.
LEMMA OtherStepsTick ==
    ASSUME IInv, [Next]_vars, ~SaveLastMatch
    PROVE  /\ UNCHANGED history /\ now' \in Nat /\ now' >= now
           /\ UNCHANGED now \/ drawn = NoMatch
<1>1. CASE LoadRoom
  <2>1. PICK gap \in Gaps : now' = now + gap
    BY <1>1 DEF LoadRoom
  <2> QED
    BY <1>1, <2>1, TimeNatural DEF LoadRoom, IInv, RoomOK
<1>2. CASE UNCHANGED <<history, now>>
  BY <1>2 DEF IInv, RoomOK
<1> QED
  BY <1>1, <1>2 DEF Next, Draw, vars

LEMMA InitIsAHistory == Init => Out!Init
<1> SUFFICES ASSUME Init PROVE Out!Init
  OBVIOUS
<1>1. RoomOK
  BY InitOK DEF IInv
<1> QED
  BY <1>1 DEF RoomOK, Out!Init, Sat, Seen

\* Where the rotation decides, every match of the program is one the promise of
\* SittingOut allows: nobody sits out who has done so more often, and not less
\* recently, than a player who takes part.
THEOREM RotationIsFair == Spec => DrawsAreFair
<1>1. IInv /\ [Next]_vars =>
        [RotationDecides =>
            \/ drawn = NoMatch /\ Out!Tick
            \/ drawn # NoMatch /\ Out!Draw(List, Spectators(drawn))]_<<history, now>>
  <2> SUFFICES ASSUME IInv, [Next]_vars, RotationDecides,
                      ~ UNCHANGED <<history, now>>
               PROVE  \/ drawn = NoMatch /\ Out!Tick
                      \/ drawn # NoMatch /\ Out!Draw(List, Spectators(drawn))
    OBVIOUS
  <2>1. CASE SaveLastMatch
    BY <2>1, SaveIsADraw DEF SaveLastMatch
  <2>2. CASE ~SaveLastMatch
    BY <2>2, OtherStepsTick DEF Out!Tick, Sat, Seen
  <2> QED
    BY <2>1, <2>2
<1> QED
  BY <1>1, InitIsAHistory, RoomInvariant, PTL DEF DrawsAreFair, Spec

-----------------------------------------------------------------------------
(* What fair matches keep level.                                            *)

\* The history is made of natural numbers, and nobody sat out in the future.
HistoryInv ==
    /\ Sat \in [Members -> Nat]
    /\ Seen \in [Members -> Nat]
    /\ now \in Nat
    /\ \A p \in Members : Seen[p] <= now

LEMMA HistoryTick == HistoryInv /\ Out!Tick => HistoryInv'
  BY DEF HistoryInv, Out!Tick

LEMMA HistoryDraw ==
    ASSUME NEW listed \in SUBSET Members, NEW out \in SUBSET listed,
           HistoryInv, Out!Draw(listed, out)
    PROVE  HistoryInv'
<1>1. Sat' \in [Members -> Nat] /\ Seen' \in [Members -> Nat] /\ now' \in Nat
  BY DEF HistoryInv, Out!Draw
<1>2. ASSUME NEW p \in Members PROVE Seen'[p] <= now'
  BY DEF HistoryInv, Out!Draw
<1> QED
  BY <1>1, <1>2 DEF HistoryInv

LEMMA HistoryStep == HistoryInv /\ [Out!Next]_(Out!vars) => HistoryInv'
<1> SUFFICES ASSUME HistoryInv, [Out!Next]_(Out!vars) PROVE HistoryInv'
  OBVIOUS
<1>1. ASSUME NEW listed \in SUBSET Members, NEW out \in SUBSET listed, Out!Draw(listed, out)
      PROVE  HistoryInv'
  BY <1>1, HistoryDraw
<1>2. CASE UNCHANGED Out!vars
  BY <1>2 DEF HistoryInv, Out!vars
<1> QED
  BY <1>1, <1>2, HistoryTick DEF Out!Next

\* Every history the promise of SittingOut can reach is one (SaveLastMatch
\* stamps a turn with the clock).
THEOREM HistoryCorrect == Out!Spec => []HistoryInv
<1>1. Out!Init => HistoryInv
  BY DEF Out!Init, HistoryInv
<1> QED
  BY <1>1, HistoryStep, PTL DEF Out!Spec

\* One half of a match keeping two listed players level: x does not get ahead
\* of y, unless by one turn, the latest there is.
LEMMA DrawKeepsLead ==
    ASSUME NEW listed \in SUBSET Members, NEW out \in SUBSET listed,
           NEW x \in listed, NEW y \in listed,
           HistoryInv, Out!Draw(listed, out), Out!Level(x, y)
    PROVE  Out!Leads(x, y)'
<1>1. /\ Sat[x] \in Nat /\ Sat[y] \in Nat /\ Seen[x] \in Nat /\ Seen[y] \in Nat
      /\ now \in Nat /\ Seen[x] <= now /\ Seen[y] <= now
  BY DEF HistoryInv
<1>2. /\ Sat'[x] = (IF x \in out THEN Sat[x] + 1 ELSE Sat[x])
      /\ Sat'[y] = (IF y \in out THEN Sat[y] + 1 ELSE Sat[y])
      /\ Seen'[x] = (IF x \in out THEN now ELSE Seen[x])
      /\ Seen'[y] = (IF y \in out THEN now ELSE Seen[y])
  BY DEF HistoryInv, Out!Draw
<1>3. CASE x \in out /\ y \in out
  BY <1>1, <1>2, <1>3 DEF Out!Level, Out!Leads
<1>4. CASE x \in out /\ y \notin out
  <2>1. ~Out!Behind(y, x)
    BY <1>4 DEF Out!Draw
  <2>2. Sat[x] <= Sat[y]
    BY <2>1, <1>1 DEF Out!Behind, Out!Level, Out!Leads
  <2> QED
    BY <2>2, <1>1, <1>2, <1>4 DEF Out!Leads
<1>5. CASE x \notin out
  BY <1>1, <1>2, <1>5 DEF Out!Level, Out!Leads
<1> QED
  BY <1>3, <1>4, <1>5

LEMMA DrawKeepsLevel ==
    ASSUME NEW listed \in SUBSET Members, NEW out \in SUBSET listed,
           NEW x \in listed, NEW y \in listed,
           HistoryInv, Out!Draw(listed, out), Out!Level(x, y)
    PROVE  Out!Level(x, y)'
<1>1. Out!Level(y, x)
  BY DEF Out!Level
<1>2. Out!Leads(x, y)' /\ Out!Leads(y, x)'
  BY <1>1, DrawKeepsLead
<1> QED
  BY <1>2 DEF Out!Level

\* What a match does to its list: two players on it who were level stay level.
LevelStays ==
    \A listed \in SUBSET Members : \A out \in SUBSET listed :
        Out!Draw(listed, out) => \A x, y \in listed : Out!Level(x, y) => Out!Level(x, y)'

\* Whatever list each match is drawn from, no two players on it are driven apart
\* by a match that keeps the promise.
THEOREM LevelPreserved == Out!Spec => [][LevelStays]_(Out!vars)
<1>1. HistoryInv /\ [Out!Next]_(Out!vars) => [LevelStays]_(Out!vars)
  BY DrawKeepsLevel DEF LevelStays
<1> QED
  BY <1>1, HistoryCorrect, PTL DEF Out!Spec

\* Players who are listed for every match sit out equally often, give or take
\* one turn: of ten regulars nobody can have sat out five times and another
\* three times.
THEOREM TurnsAreShared == Out!TogetherSpec => []Out!Shared
<1> DEFINE Inv == HistoryInv /\ \A x, y \in Members : Out!Level(x, y)
<1>1. Out!TogetherInit => Inv
  BY DEF Out!TogetherInit, Out!Init, HistoryInv
<1>2. Inv /\ [Out!TogetherNext]_(Out!vars) => Inv'
  <2> SUFFICES ASSUME Inv, [Out!TogetherNext]_(Out!vars) PROVE Inv'
    OBVIOUS
  <2>1. CASE Out!Tick
    <3>1. HistoryInv'
      BY <2>1, HistoryTick
    <3> QED
      BY <2>1, <3>1 DEF Out!Tick, Out!Level, Out!Leads
  <2>2. ASSUME NEW out \in SUBSET Members, Out!Draw(Members, out) PROVE Inv'
    <3>1. HistoryInv'
      BY <2>2, HistoryDraw
    <3>2. ASSUME NEW x \in Members, NEW y \in Members PROVE Out!Level(x, y)'
      BY <2>2, DrawKeepsLevel
    <3> QED
      BY <3>1, <3>2
  <2>3. CASE UNCHANGED Out!vars
    BY <2>3 DEF HistoryInv, Out!Level, Out!Leads, Out!vars
  <2> QED
    BY <2>1, <2>2, <2>3 DEF Out!TogetherNext
<1>3. Inv => Out!Shared
  <2> SUFFICES ASSUME Inv, NEW x \in Members, NEW y \in Members PROVE Sat[x] <= Sat[y] + 1
    BY DEF Out!Shared
  <2>1. Sat[x] \in Nat /\ Sat[y] \in Nat /\ Out!Level(x, y)
    BY DEF HistoryInv
  <2> QED
    BY <2>1 DEF Out!Level, Out!Leads
<1> QED
  BY <1>1, <1>2, <1>3, PTL DEF Out!TogetherSpec

-----------------------------------------------------------------------------
(* What the program's own matches keep level.                               *)

\* Where the rotation decides, a match of the program leaves every two listed
\* players within one turn of sitting out of each other, if they were so before.
THEOREM MatchesKeepLevel == Spec => LevelStaysLevel
<1>1. IInv /\ [Next]_vars =>
        [drawn # NoMatch /\ RotationDecides => KeepsLevel]_history
  <2> SUFFICES ASSUME IInv, [Next]_vars, history' # history, drawn # NoMatch, RotationDecides,
                      NEW x \in List, NEW y \in List, Out!Level(x, y)
               PROVE  Out!Level(x, y)'
    BY DEF KeepsLevel
  <2>1. SaveLastMatch
    BY OtherStepsTick
  <2>2. Out!Draw(List, Spectators(drawn))
    BY <2>1, SaveIsADraw
  <2>3. HistoryInv
    BY DEF IInv, RoomOK, HistoryInv, Sat, Seen
  <2>4. List \in SUBSET Members /\ Spectators(drawn) \in SUBSET List
    BY DEF IInv, RoomOK, Spectators
  <2> QED
    BY <2>2, <2>3, <2>4, DrawKeepsLevel
<1> QED
  BY <1>1, RoomInvariant, PTL DEF LevelStaysLevel, Spec

\* Everybody is listed for every match.
Regulars == lists = {Members}

\* Of regulars who start level, as a new room's players do, nobody is ever two
\* turns of sitting out ahead of another, as long as their ratings leave the
\* rotation the decision.
THEOREM RegularsShareTurns ==
    Spec /\ Regulars /\ Out!TogetherInit /\ []RotationDecides => []Out!Shared
<1>1. Regulars /\ [Next]_vars => Regulars'
  BY DEF Regulars, Next, LoadRoom, Draw, SaveLastMatch, vars
<1>2. IInv /\ Regulars /\ RotationDecides /\ [Next]_vars => [Out!TogetherNext]_(Out!vars)
  <2> SUFFICES ASSUME IInv, Regulars, RotationDecides, [Next]_vars
               PROVE  [Out!TogetherNext]_(Out!vars)
    OBVIOUS
  <2>1. CASE SaveLastMatch
    <3>1. Out!Draw(List, Spectators(drawn))
      BY <2>1, SaveIsADraw
    <3>2. List = Members
      BY <2>1 DEF SaveLastMatch, IInv, Regulars
    <3>3. Spectators(drawn) \in SUBSET Members
      BY <3>2 DEF Spectators
    <3> QED
      BY <3>1, <3>2, <3>3 DEF Out!TogetherNext
  <2>2. CASE ~SaveLastMatch
    BY <2>2, OtherStepsTick DEF Out!TogetherNext, Out!Tick, Out!vars, Sat, Seen
  <2> QED
    BY <2>1, <2>2
<1> QED
  BY <1>1, <1>2, RoomInvariant, TurnsAreShared, PTL DEF Spec, Out!TogetherSpec
=============================================================================
