-------------------------- MODULE MatchLedgerProofs --------------------------
(****************************************************************************)
(* Proofs about MatchLedger and Export, for every set of users, rooms and   *)
(* draws, every rating step and limit, and every scope and limit of an      *)
(* export.                                                                  *)
(****************************************************************************)
EXTENDS Export, InductionTheorems, TLAPS

-----------------------------------------------------------------------------
(* Ratings.                                                                 *)

\* A rating that is clamped lies within its limits.
LEMMA ClampBounds ==
    ASSUME NEW v \in Int
    PROVE  ClampRating(v) \in -RatingLimit .. RatingLimit
BY LimitNatural DEF ClampRating

\* A rating within its limits is left alone.
LEMMA ClampIdle ==
    ASSUME NEW v \in -RatingLimit .. RatingLimit
    PROVE  ClampRating(v) = v
BY LimitNatural DEF ClampRating

LEMMA CreditedType ==
    ASSUME NEW stat \in Stat, NEW won \in BOOLEAN
    PROVE  Credited(stat, won) \in Stat
<1>1. stat.rating \in Int /\ RatingStep \in Int
  BY LimitNatural, StepPositive DEF Stat
<1>2. NextRating(stat.rating, won) \in -RatingLimit .. RatingLimit
  BY <1>1, ClampBounds DEF NextRating
<1> QED
  BY <1>2 DEF Credited, Stat

LEMMA CreditedAllType ==
    ASSUME NEW table \in [Users -> Stat], NEW result \in Result, NEW players
    PROVE  CreditedAll(table, result, players) \in [Users -> Stat]
<1> SUFFICES ASSUME NEW u \in Users
             PROVE  (IF u \in players THEN Credited(table[u], u \in Winners(result))
                                      ELSE table[u]) \in Stat
  BY DEF CreditedAll
<1>1. table[u] \in Stat /\ (u \in Winners(result)) \in BOOLEAN
  OBVIOUS
<1> QED
  BY <1>1, CreditedType

\* The two teams of a result are users, and nobody is in both.
LEMMA ResultTeams ==
    ASSUME NEW result \in Result
    PROVE  /\ Winners(result) \in SUBSET Users
           /\ Losers(result) \in SUBSET Users
           /\ Played(result) \in SUBSET Users
           /\ Winners(result) \cap Losers(result) = {}
BY DrawsAreTeams DEF Result, Winners, Losers, Played

-----------------------------------------------------------------------------
(* Type correctness.                                                        *)

LEMMA RecordingInitType == RecordingInit => stats \in [Users -> Stat] /\ matches \in [Result -> Nat]
BY LimitNatural DEF RecordingInit, Stat

\* No sequence of results, in whatever rooms, takes a rating past its limits.
THEOREM TypeCorrect == Spec => []TypeOK
<1>1. Init => TypeOK
  BY RecordingInitType DEF Init, TypeOK
<1>2. TypeOK /\ [Next]_vars => TypeOK'
  <2> SUFFICES ASSUME TypeOK, [Next]_vars PROVE TypeOK'
    OBVIOUS
  <2> USE DEF TypeOK
  <2>1. ASSUME NEW r \in Rooms, Draw(r) PROVE TypeOK'
    BY <2>1 DEF Draw
  <2>2. ASSUME NEW r \in Rooms, NEW winner \in Sides, Begin(r, winner) PROVE TypeOK'
    <3> DEFINE result == [room |-> r, draw |-> board[r], winner |-> winner]
    <3>1. board[r] \in Draws
      BY <2>2 DEF Begin
    <3>2. result \in Result
      BY <3>1 DEF Result
    <3>3. Played(result) \in SUBSET Users
      BY <3>2, ResultTeams
    <3>4. tx' = [result |-> result, rows |-> stats, todo |-> Played(result), inserted |-> FALSE]
      BY <2>2 DEF Begin
    <3>5. UNCHANGED <<stats, matches, board>>
      BY <2>2 DEF Begin
    <3> HIDE DEF result
    <3>6. tx' \in Transaction
      BY <3>2, <3>3, <3>4 DEF Transaction
    <3> QED BY <3>5, <3>6
  <2>3. ASSUME NEW u \in Users, UpdatePlayerStat(u) PROVE TypeOK'
    <3>1. tx \in Transaction /\ tx.rows \in [Users -> Stat]
      BY <2>3 DEF UpdatePlayerStat, Transaction
    <3>2. tx.rows[u] \in Stat /\ (u \in Winners(tx.result)) \in BOOLEAN
      BY <3>1
    <3>3. Credited(tx.rows[u], u \in Winners(tx.result)) \in Stat
      BY <3>2, CreditedType
    <3> QED BY <2>3, <3>1, <3>3 DEF UpdatePlayerStat, Transaction
  <2>4. CASE InsertMatch
    BY <2>4 DEF InsertMatch, Transaction
  <2>5. CASE Commit
    BY <2>5 DEF Commit, Transaction
  <2>6. CASE Rollback
    BY <2>6 DEF Rollback
  <2>7. CASE UNCHANGED vars
    BY <2>7 DEF vars
  <2> QED BY <2>1, <2>2, <2>3, <2>4, <2>5, <2>6, <2>7 DEF Next
<1> QED
  BY <1>1, <1>2, PTL DEF Spec

-----------------------------------------------------------------------------
(* The transaction.                                                         *)

\* At every statement the rows of the transaction are the committed ones with
\* exactly the players dealt with so far credited.
THEOREM TransactionConsistent == Spec => []TxConsistent
<1>1. Init => TxConsistent
  BY DEF Init, TxConsistent
<1>2. TypeOK /\ TxConsistent /\ [Next]_vars => TxConsistent'
  <2> SUFFICES ASSUME TypeOK, TxConsistent, [Next]_vars PROVE TxConsistent'
    OBVIOUS
  <2> USE DEF TypeOK
  <2>1. ASSUME NEW r \in Rooms, Draw(r) PROVE TxConsistent'
    BY <2>1 DEF Draw, TxConsistent
  <2>2. ASSUME NEW r \in Rooms, NEW winner \in Sides, Begin(r, winner)
        PROVE  TxConsistent'
    <3>1. tx'.todo = Played(tx'.result) /\ tx'.rows = stats /\ ~tx'.inserted /\ stats' = stats
      BY <2>2 DEF Begin
    <3>2. CreditedAll(stats, tx'.result, {}) = [u \in Users |-> stats[u]]
      BY DEF CreditedAll
    <3>3. [u \in Users |-> stats[u]] = stats
      OBVIOUS
    <3>4. Played(tx'.result) \ tx'.todo = {}
      BY <3>1
    <3> QED BY <3>1, <3>2, <3>3, <3>4 DEF TxConsistent
  <2>3. ASSUME NEW u \in Users, UpdatePlayerStat(u) PROVE TxConsistent'
    <3>1. /\ tx \in Transaction
          /\ tx'.result = tx.result /\ tx'.todo = tx.todo \ {u} /\ stats' = stats
          /\ tx'.rows = [tx.rows EXCEPT ![u] = Credited(tx.rows[u], u \in Winners(tx.result))]
          /\ tx'.inserted = tx.inserted
      BY <2>3 DEF UpdatePlayerStat, Transaction
    <3>2. /\ u \in tx.todo
          /\ tx.todo \subseteq Played(tx.result)
          /\ tx.rows = CreditedAll(stats, tx.result, Played(tx.result) \ tx.todo)
          /\ ~tx.inserted
      BY <2>3 DEF UpdatePlayerStat, TxConsistent
    <3>3. tx'.rows = CreditedAll(stats, tx.result, Played(tx.result) \ tx'.todo)
      BY <3>1, <3>2 DEF CreditedAll
    <3> QED BY <3>1, <3>2, <3>3 DEF TxConsistent
  <2>4. CASE InsertMatch
    BY <2>4 DEF InsertMatch, TxConsistent, Transaction
  <2>5. CASE Commit \/ Rollback
    BY <2>5 DEF Commit, Rollback, TxConsistent
  <2>6. CASE UNCHANGED vars
    BY <2>6 DEF vars, TxConsistent
  <2> QED BY <2>1, <2>2, <2>3, <2>4, <2>5, <2>6 DEF Next
<1> QED
  BY <1>1, <1>2, TypeCorrect, PTL DEF Spec

\* RecordMatchResult, for all its statements, failures and crashes, records a
\* match with all its credits or not at all.
THEOREM LedgerIsAtomic == Spec => ResultsAreAtomic
<1>1. Init => RecordingInit
  BY DEF Init
<1>2. TypeOK /\ TxConsistent /\ [Next]_vars => [RecordingNext]_recording
  <2> SUFFICES ASSUME TypeOK, TxConsistent, Next PROVE RecordingNext \/ UNCHANGED recording
    BY DEF vars, recording
  <2>1. CASE Commit
    <3>1. tx.result \in Result /\ tx.todo = {}
      BY <2>1 DEF Commit, TypeOK, Transaction, TxConsistent
    <3>2. stats' = CreditedAll(stats, tx.result, Played(tx.result))
      BY <2>1, <3>1 DEF Commit, TxConsistent
    <3> QED BY <2>1, <3>1, <3>2 DEF Commit, RecordingNext, Record
  <2>2. CASE ~Commit
    BY <2>2 DEF Next, Draw, Begin, UpdatePlayerStat, InsertMatch, Rollback, recording
  <2> QED BY <2>1, <2>2
<1> QED
  BY <1>1, <1>2, TypeCorrect, TransactionConsistent, PTL
     DEF Spec, ResultsAreAtomic, RecordingSpec

-----------------------------------------------------------------------------
(* Statistics and history.                                                  *)

\* Recording a result once more adds one to every sum over results that has it,
\* and leaves the others alone.
LEMMA OneMoreMatch ==
    ASSUME NEW old \in [Result -> Nat], NEW new \in [Result -> Nat], NEW result \in Result,
           new[result] = old[result] + 1, \A r \in Result \ {result} : new[r] = old[r],
           NEW S \in SUBSET Result, IsFiniteSet(S), result \in S => old[result] > 0,
           result \notin S => old[result] = 0
    PROVE  /\ SumFunctionOnSet(new, S \cup {result}) = SumFunctionOnSet(old, S) + 1
           /\ result \notin S => SumFunctionOnSet(new, S) = SumFunctionOnSet(old, S)
<1> DEFINE T == S \cup {result}
           R == S \ {result}
<1>1. /\ IsFiniteSet(T) /\ IsFiniteSet(R) /\ R \in SUBSET T /\ result \in T
      /\ T \ {result} = R
  BY FS_AddElement, FS_RemoveElement
<1>2. /\ \A r \in T : old[r] \in Int /\ new[r] \in Int
      /\ \A r \in R : old[r] \in Int /\ new[r] = old[r]
      /\ new[result] = old[result] + 1 /\ old[result] \in Nat
  OBVIOUS
<1>3. SumFunctionOnSet(old, R) = SumFunctionOnSet(new, R)
  BY <1>1, <1>2, SumSame
<1>4. SumFunctionOnSet(old, R) \in Int
  BY <1>1, <1>2, SumInt
<1>5. \A r \in T : new[r] \in Int
  BY <1>2
<1>6. SumFunctionOnSet(new, T) = new[result] + SumFunctionOnSet(new, R)
  <2> HIDE DEF T
  <2>1. T \in SUBSET T
    OBVIOUS
  <2>2. SumFunctionOnSet(new, T) = new[result] + SumFunctionOnSet(new, T \ {result})
    BY <1>1, <1>5, <2>1, SumTakeOut
  <2> QED BY <1>1, <2>2
<1>7. SumFunctionOnSet(old, S) = old[result] + SumFunctionOnSet(old, R)
  <2>1. CASE result \in S
    <3>1. \A r \in S : old[r] \in Int
      BY <1>2
    <3> QED BY <2>1, <3>1, SumTakeOut
  <2>2. CASE result \notin S
    <3>1. R = S /\ old[result] = 0
      BY <2>2
    <3> HIDE DEF R
    <3> QED BY <1>4, <3>1
  <2> QED BY <2>1, <2>2
<1>8. ASSUME result \notin S PROVE SumFunctionOnSet(new, S) = SumFunctionOnSet(old, S)
  <2>1. R = S
    BY <1>8
  <2> QED BY <1>3, <2>1
<1> HIDE DEF T, R
<1>9. SumFunctionOnSet(new, T) = SumFunctionOnSet(old, S) + 1
  BY <1>1, <1>2, <1>3, <1>4, <1>6, <1>7
<1> QED
  BY <1>8, <1>9 DEF T

\* The induction: finitely many results are recorded, and they account for the
\* statistics.
HistoryInv ==
    /\ stats \in [Users -> Stat]
    /\ matches \in [Result -> Nat]
    /\ IsFiniteSet(Recorded)
    /\ StatsMatchHistory

LEMMA HistoryInit == RecordingInit => HistoryInv
<1> SUFFICES ASSUME RecordingInit PROVE HistoryInv
  OBVIOUS
<1>1. Recorded = {} /\ IsFiniteSet({})
  BY FS_EmptySet DEF RecordingInit, Recorded
<1>2. \A u \in Users : stats[u].wins = 0 /\ stats[u].losses = 0
  BY DEF RecordingInit
<1>3. \A u \in Users : /\ {r \in Recorded : u \in Winners(r)} = {}
                       /\ {r \in Recorded : u \in Losers(r)} = {}
  BY <1>1
<1>4. StatsMatchHistory
  BY <1>2, <1>3, SumEmpty DEF StatsMatchHistory
<1> QED
  BY <1>1, <1>4, RecordingInitType DEF HistoryInv

LEMMA HistoryRecord ==
    ASSUME HistoryInv, NEW result \in Result, Record(result)
    PROVE  HistoryInv'
<1>1. /\ matches' = [matches EXCEPT ![result] = @ + 1]
      /\ stats' = CreditedAll(stats, result, Played(result))
  BY DEF Record
<1>2. stats' \in [Users -> Stat] /\ matches' \in [Result -> Nat]
  BY <1>1, CreditedAllType DEF HistoryInv
<1>3. Recorded' = Recorded \cup {result} /\ IsFiniteSet(Recorded')
  <2>1. Recorded' = Recorded \cup {result}
    BY <1>1 DEF Recorded, HistoryInv
  <2> QED BY <2>1, FS_AddElement DEF HistoryInv
<1>4. /\ matches' \in [Result -> Nat] /\ matches'[result] = matches[result] + 1
      /\ \A r \in Result \ {result} : matches'[r] = matches[r]
  BY <1>1, <1>2 DEF HistoryInv
<1>5. ASSUME NEW u \in Users
      PROVE  /\ stats'[u].wins = SumFunctionOnSet(matches', {r \in Recorded' : u \in Winners(r)})
             /\ stats'[u].losses = SumFunctionOnSet(matches', {r \in Recorded' : u \in Losers(r)})
  <2> DEFINE W == {r \in Recorded : u \in Winners(r)}
             L == {r \in Recorded : u \in Losers(r)}
             W2 == {r \in Recorded' : u \in Winners(r)}
             L2 == {r \in Recorded' : u \in Losers(r)}
  <2>1. /\ stats[u].wins = SumFunctionOnSet(matches, W)
        /\ stats[u].losses = SumFunctionOnSet(matches, L)
        /\ stats[u].wins \in Nat /\ stats[u].losses \in Nat
    BY DEF HistoryInv, StatsMatchHistory, Stat
  <2>2. /\ W \in SUBSET Result /\ IsFiniteSet(W) /\ L \in SUBSET Result /\ IsFiniteSet(L)
    BY FS_Subset DEF HistoryInv, Recorded
  <2>3. /\ W2 = IF u \in Winners(result) THEN W \cup {result} ELSE W
        /\ L2 = IF u \in Losers(result) THEN L \cup {result} ELSE L
    BY <1>3
  <2>4. /\ u \notin Winners(result) => result \notin W
        /\ u \notin Losers(result) => result \notin L
        /\ u \in Winners(result) => (result \in W <=> matches[result] > 0)
        /\ u \in Losers(result) => (result \in L <=> matches[result] > 0)
        /\ matches[result] \in Nat
    BY DEF Recorded, HistoryInv
  <2>5. /\ stats'[u].wins = stats[u].wins + (IF u \in Winners(result) THEN 1 ELSE 0)
        /\ stats'[u].losses = stats[u].losses + (IF u \in Losers(result) THEN 1 ELSE 0)
    BY <1>1, <2>1, ResultTeams DEF CreditedAll, Credited, Played
  <2> HIDE DEF W, L, W2, L2
  <2>6. SumFunctionOnSet(matches', W2)
            = SumFunctionOnSet(matches, W) + (IF u \in Winners(result) THEN 1 ELSE 0)
    <3>1. CASE u \in Winners(result)
      <4>1. /\ matches \in [Result -> Nat]
            /\ result \in W => matches[result] > 0
            /\ result \notin W => matches[result] = 0
        BY <2>4, <3>1 DEF HistoryInv
      <4>2. SumFunctionOnSet(matches', W \cup {result}) = SumFunctionOnSet(matches, W) + 1
        BY <1>4, <2>2, <4>1, OneMoreMatch
      <4> QED BY <2>3, <3>1, <4>2
    <3>2. CASE u \notin Winners(result)
      <4>1. \A r \in W : matches[r] \in Int /\ matches'[r] = matches[r]
        BY <1>1, <2>2, <2>4, <3>2 DEF HistoryInv
      <4>2. SumFunctionOnSet(matches, W) = SumFunctionOnSet(matches', W)
        BY <2>2, <4>1, SumSame
      <4> QED BY <2>1, <2>3, <3>2, <4>2
    <3> QED BY <3>1, <3>2
  <2>7. SumFunctionOnSet(matches', L2)
            = SumFunctionOnSet(matches, L) + (IF u \in Losers(result) THEN 1 ELSE 0)
    <3>1. CASE u \in Losers(result)
      <4>1. /\ matches \in [Result -> Nat]
            /\ result \in L => matches[result] > 0
            /\ result \notin L => matches[result] = 0
        BY <2>4, <3>1 DEF HistoryInv
      <4>2. SumFunctionOnSet(matches', L \cup {result}) = SumFunctionOnSet(matches, L) + 1
        BY <1>4, <2>2, <4>1, OneMoreMatch
      <4> QED BY <2>3, <3>1, <4>2
    <3>2. CASE u \notin Losers(result)
      <4>1. \A r \in L : matches[r] \in Int /\ matches'[r] = matches[r]
        BY <1>1, <2>2, <2>4, <3>2 DEF HistoryInv
      <4>2. SumFunctionOnSet(matches, L) = SumFunctionOnSet(matches', L)
        BY <2>2, <4>1, SumSame
      <4> QED BY <2>1, <2>3, <3>2, <4>2
    <3> QED BY <3>1, <3>2
  <2> QED BY <2>1, <2>5, <2>6, <2>7 DEF W2, L2
<1> QED
  BY <1>2, <1>3, <1>5 DEF HistoryInv, StatsMatchHistory

\* Atomic recording keeps the statistics the sums of the matches.
LEMMA HistoryAddsUp == RecordingSpec => []StatsMatchHistory
<1>1. HistoryInv /\ [RecordingNext]_recording => HistoryInv'
  <2> SUFFICES ASSUME HistoryInv, [RecordingNext]_recording PROVE HistoryInv'
    OBVIOUS
  <2>1. CASE UNCHANGED recording
    BY <2>1 DEF recording, HistoryInv, Recorded, StatsMatchHistory
  <2> QED BY <2>1, HistoryRecord DEF RecordingNext
<1>2. HistoryInv => StatsMatchHistory
  BY DEF HistoryInv
<1> QED
  BY <1>1, <1>2, HistoryInit, PTL DEF RecordingSpec

\* Wins and losses are those of the recorded matches, whatever failed, crashed or
\* ran in another room in between (RecordMatchResult, player_stats and matches).
THEOREM StatisticsAreTheHistory == Spec => []StatsMatchHistory
BY LedgerIsAtomic, HistoryAddsUp, PTL DEF ResultsAreAtomic

-----------------------------------------------------------------------------
(* Playing matches again.                                                   *)

\* A player's row after one more match, if there is one with that id.
RowStep(row, results, i, u) ==
    IF i \in DOMAIN results /\ u \in Played(results[i])
    THEN Credited(row, u \in Winners(results[i])) ELSE row

LEMMA RowStepType ==
    ASSUME NEW row \in Stat, NEW results, NEW i, NEW u
    PROVE  RowStep(row, results, i, u) \in Stat
<1>1. (u \in Winners(results[i])) \in BOOLEAN
  OBVIOUS
<1> QED
  BY <1>1, CreditedType DEF RowStep

\* The same, as the function whose recursion gives the rows.
StepFunction(results, u) == [p \in Nat \X Stat |-> RowStep(p[2], results, p[1], u)]

Stepped(results, u) == Endless(Stat, NewPlayer, StepFunction(results, u))

LEMMA SteppedEquation ==
    ASSUME NEW results, NEW u
    PROVE  /\ Stepped(results, u) \in [Nat -> Stat]
           /\ Unfolds(Stepped(results, u), NewPlayer, StepFunction(results, u))
<1>1. NewPlayer \in Stat
  BY LimitNatural DEF NewPlayer, Stat
<1>2. StepFunction(results, u) \in [Nat \X Stat -> Stat]
  BY RowStepType DEF StepFunction
<1> QED
  BY <1>1, <1>2, Recursion, Zenon DEF Stepped

\* The rows are what the recursion says.
LEMMA RowsEquation ==
    ASSUME NEW results, NEW u
    PROVE  /\ Rows(results, u) \in [Nat -> Stat]
           /\ Rows(results, u)[0] = NewPlayer
           /\ \A n \in Nat : Rows(results, u)[n + 1]
                                = RowStep(Rows(results, u)[n], results, n + 1, u)
<1> DEFINE step == StepFunction(results, u)
           row  == Rows(results, u)
           f    == Stepped(results, u)
<1>1. NewPlayer \in Stat
  BY LimitNatural DEF NewPlayer, Stat
<1>3. /\ f \in [Nat -> Stat] /\ f[0] = NewPlayer
      /\ \A n \in Nat : n # 0 => f[n] = step[<<n, f[n - 1]>>]
  BY SteppedEquation DEF Unfolds
<1> HIDE DEF f
<1>4. \A n \in Nat, s \in Stat : step[<<n, s>>] = RowStep(s, results, n, u)
  BY DEF StepFunction
<1>5. f = [i \in Nat |->
            IF i = 0 THEN NewPlayer
            ELSE IF i \in DOMAIN results /\ u \in Played(results[i])
            THEN Credited(f[i - 1], u \in Winners(results[i]))
            ELSE f[i - 1]]
  <2>1. \A n \in Nat : n # 0 => step[<<n, f[n - 1]>>] = RowStep(f[n - 1], results, n, u)
    <3> SUFFICES ASSUME NEW n \in Nat, n # 0
                 PROVE  step[<<n, f[n - 1]>>] = RowStep(f[n - 1], results, n, u)
      OBVIOUS
    <3>1. n - 1 \in Nat /\ f[n - 1] \in Stat
      BY <1>3
    <3> QED BY <1>4, <3>1
  <2> QED BY <1>3, <2>1 DEF RowStep
<1>6. row = [i \in Nat |->
              IF i = 0 THEN NewPlayer
              ELSE IF i \in DOMAIN results /\ u \in Played(results[i])
              THEN Credited(row[i - 1], u \in Winners(results[i]))
              ELSE row[i - 1]]
  BY <1>5 DEF Rows
<1> HIDE DEF row
<1>7. /\ row[0] = NewPlayer
      /\ \A n \in Nat : row[n + 1] = RowStep(row[n], results, n + 1, u)
  <2>1. row[0] = NewPlayer
    BY <1>6
  <2>2. ASSUME NEW n \in Nat PROVE row[n + 1] = RowStep(row[n], results, n + 1, u)
    <3>1. n + 1 \in Nat /\ n + 1 # 0 /\ (n + 1) - 1 = n
      OBVIOUS
    <3> QED BY <1>6, <3>1 DEF RowStep
  <2> QED BY <2>1, <2>2
<1>8. row \in [Nat -> Stat]
  <2> DEFINE Bad == {n \in Nat : row[n] \notin Stat}
  <2>1. ASSUME Bad # {} PROVE FALSE
    <3>1. PICK n \in Bad : \A m \in Bad : n <= m
      BY <2>1, LeastNatural
    <3>2. n # 0
      BY <1>1, <1>7, <3>1
    <3>3. n - 1 \in Nat /\ row[n - 1] \in Stat /\ (n - 1) + 1 = n
      BY <3>1, <3>2
    <3>4. row[n] = RowStep(row[n - 1], results, n, u)
      BY <1>7, <3>3
    <3> QED BY <3>1, <3>3, <3>4, RowStepType
  <2> QED BY <1>6, <2>1
<1> QED
  BY <1>7, <1>8 DEF row

\* The same matches have the ids up to n.
SameUpTo(f, g, n) ==
    \A i \in 1 .. n : /\ i \in DOMAIN f <=> i \in DOMAIN g
                      /\ i \in DOMAIN f => f[i] = g[i]

\* The rows up to an id depend only on the matches up to it.
LEMMA RowsPrefix ==
    ASSUME NEW f, NEW g, NEW u, NEW n \in Nat, SameUpTo(f, g, n)
    PROVE  Rows(f, u)[n] = Rows(g, u)[n]
<1> DEFINE Bad == {m \in Nat : m <= n /\ Rows(f, u)[m] # Rows(g, u)[m]}
<1>1. ASSUME Bad # {} PROVE FALSE
  <2>1. PICK m \in Bad : \A k \in Bad : m <= k
    BY <1>1, LeastNatural
  <2>2. m # 0
    BY <2>1, RowsEquation
  <2>3. m - 1 \in Nat /\ m - 1 <= n /\ (m - 1) + 1 = m /\ m \in 1 .. n /\ m - 1 \notin Bad
    BY <2>1, <2>2
  <2>4. Rows(f, u)[m - 1] = Rows(g, u)[m - 1]
    BY <2>3
  <2>5. /\ Rows(f, u)[m] = RowStep(Rows(f, u)[m - 1], f, m, u)
        /\ Rows(g, u)[m] = RowStep(Rows(g, u)[m - 1], g, m, u)
    BY <2>3, RowsEquation
  <2>6. RowStep(Rows(g, u)[m - 1], f, m, u) = RowStep(Rows(g, u)[m - 1], g, m, u)
    BY <2>3 DEF RowStep, SameUpTo
  <2> QED BY <2>1, <2>4, <2>5, <2>6
<1> QED
  BY <1>1

\* Leaving matches out leaves wins and losses out, and adds none.
LEMMA RowsOfAPart ==
    ASSUME NEW f, NEW g, NEW u, DOMAIN f \subseteq DOMAIN g, \A i \in DOMAIN f : f[i] = g[i]
    PROVE  \A n \in Nat : /\ Rows(f, u)[n].wins <= Rows(g, u)[n].wins
                          /\ Rows(f, u)[n].losses <= Rows(g, u)[n].losses
<1> DEFINE Fewer(n) == /\ Rows(f, u)[n].wins <= Rows(g, u)[n].wins
                       /\ Rows(f, u)[n].losses <= Rows(g, u)[n].losses
           Bad == {n \in Nat : ~Fewer(n)}
<1>1. ASSUME Bad # {} PROVE FALSE
  <2>1. PICK n \in Bad : \A k \in Bad : n <= k
    BY <1>1, LeastNatural
  <2>2. n # 0
    BY <2>1, RowsEquation DEF NewPlayer
  <2>3. n - 1 \in Nat /\ (n - 1) + 1 = n /\ Fewer(n - 1)
    BY <2>1, <2>2
  <2>4. /\ Rows(f, u)[n] = RowStep(Rows(f, u)[n - 1], f, n, u)
        /\ Rows(g, u)[n] = RowStep(Rows(g, u)[n - 1], g, n, u)
        /\ Rows(f, u)[n - 1] \in Stat /\ Rows(g, u)[n - 1] \in Stat
    BY <2>3, RowsEquation
  <2>5. n \in DOMAIN f => n \in DOMAIN g /\ f[n] = g[n]
    OBVIOUS
  <2>6. ASSUME NEW r \in Stat, NEW s \in Stat, r.wins <= s.wins, r.losses <= s.losses
        PROVE  /\ RowStep(r, f, n, u).wins <= RowStep(s, g, n, u).wins
               /\ RowStep(r, f, n, u).losses <= RowStep(s, g, n, u).losses
    BY <2>5, <2>6 DEF RowStep, Credited, Stat
  <2> QED BY <2>1, <2>3, <2>4, <2>6
<1> QED
  BY <1>1

-----------------------------------------------------------------------------
(* Exports.                                                                 *)

\* Exports and the ids of the matches are no more to the ledger than stuttering.
THEOREM ExportKeepsLedger == ExportSpec => Spec
<1>1. ExportInit => Init
  BY DEF ExportInit
<1>2. [ExportNext]_exportVars => [Next]_vars
  BY DEF ExportNext, exportVars, Next, SelectMatches, SelectStats, Finish
<1> QED
  BY <1>1, <1>2, PTL DEF ExportSpec, Spec

\* A row after one match more is the row before it, credited with that match.
LEMMA ReplayOneMore ==
    ASSUME NEW seq \in Seq(Result), NEW result \in Result, NEW u
    PROVE  Rows(Append(seq, result), u)[Len(seq) + 1]
               = IF u \in Played(result)
                 THEN Credited(Rows(seq, u)[Len(seq)], u \in Winners(result))
                 ELSE Rows(seq, u)[Len(seq)]
<1> DEFINE n    == Len(seq)
           more == Append(seq, result)
<1>1. n \in Nat /\ n + 1 \in DOMAIN more /\ more[n + 1] = result
  OBVIOUS
<1>2. SameUpTo(more, seq, n)
  BY DEF SameUpTo
<1> HIDE DEF n, more
<1>3. Rows(more, u)[n] = Rows(seq, u)[n]
  BY <1>1, <1>2, RowsPrefix
<1>4. Rows(more, u)[n + 1] = RowStep(Rows(seq, u)[n], more, n + 1, u)
  BY <1>1, <1>3, RowsEquation
<1> QED
  BY <1>1, <1>4 DEF RowStep, n, more

\* Every row is the replay of the matches table; what an export has read is a part
\* of that table, all of it if nothing was left out, and until the second query no
\* transaction opens and no match is added: that query sees the rows of the first.
ExportInv ==
    /\ log \in Seq(Result)
    /\ \A u \in Users : stats[u] = Rows(log, u)[Len(log)]
    /\ export # Nothing =>
           /\ export = [matches |-> export.matches, stats |-> export.stats,
                        whole |-> export.whole]
           /\ DOMAIN export.matches \subseteq DOMAIN log
           /\ \A i \in DOMAIN export.matches : export.matches[i] = log[i]
           /\ export.stats # Nothing => DOMAIN export.stats \subseteq Users
    /\ BetweenQueries =>
           /\ tx = Nothing
           /\ export.whole => DOMAIN export.matches = DOMAIN log
    /\ ExportIsOneMoment

LEMMA ExportInvInit == ExportInit => ExportInv
<1> SUFFICES ASSUME ExportInit PROVE ExportInv
  OBVIOUS
<1>1. log = <<>> /\ Len(log) = 0 /\ log \in Seq(Result) /\ export = Nothing
  BY DEF ExportInit
<1>2. \A u \in Users : stats[u] = Rows(log, u)[0]
  BY RowsEquation DEF ExportInit, Init, RecordingInit, NewPlayer
<1> QED
  BY <1>1, <1>2 DEF ExportInv, BetweenQueries, ExportIsOneMoment

\* A commit adds the match whose credits the rows have; an export that is there
\* has both its answers, and neither changes.
LEMMA ExportInvCommit ==
    ASSUME ExportInv, TypeOK, TxConsistent, Commit, log' = Append(log, tx.result),
           UNCHANGED export
    PROVE  ExportInv'
<1> DEFINE n == Len(log)
<1>1. /\ tx # Nothing /\ tx.result \in Result /\ tx.todo = {}
      /\ stats' = CreditedAll(stats, tx.result, Played(tx.result))
  BY DEF Commit, TypeOK, Transaction, TxConsistent
<1>2. /\ log \in Seq(Result) /\ log' \in Seq(Result) /\ n \in Nat /\ Len(log') = n + 1
      /\ DOMAIN log = 1 .. n /\ DOMAIN log' = 1 .. n + 1
      /\ \A i \in 1 .. n : log'[i] = log[i]
  BY <1>1 DEF ExportInv
<1>3. ASSUME NEW u \in Users PROVE stats'[u] = Rows(log', u)[Len(log')]
  <2>1. Rows(log', u)[n + 1]
            = IF u \in Played(tx.result)
              THEN Credited(Rows(log, u)[n], u \in Winners(tx.result))
              ELSE Rows(log, u)[n]
    BY <1>1, <1>2, ReplayOneMore
  <2>2. stats[u] = Rows(log, u)[n]
    BY DEF ExportInv
  <2> QED BY <1>1, <1>2, <2>1, <2>2 DEF CreditedAll
<1>4. ~BetweenQueries
  BY <1>1 DEF ExportInv
<1>5. ASSUME export # Nothing
      PROVE  /\ DOMAIN export.matches \subseteq DOMAIN log'
             /\ \A i \in DOMAIN export.matches : export.matches[i] = log'[i]
             /\ n + 1 \notin DOMAIN export.matches
  BY <1>2, <1>5 DEF ExportInv
<1>6. ExportIsOneMoment'
  <2> SUFFICES ASSUME export # Nothing, export.stats # Nothing, NEW u \in DOMAIN export.stats
               PROVE  /\ export.whole => export.stats[u] = Replayed(export.matches, u)'
                      /\ export.stats[u].wins >= Replayed(export.matches, u)'.wins
                      /\ export.stats[u].losses >= Replayed(export.matches, u)'.losses
    BY DEF ExportIsOneMoment
  <2>1. Rows(export.matches, u)[n + 1] = Rows(export.matches, u)[n]
    BY <1>2, <1>5, RowsEquation DEF RowStep
  <2>2. Replayed(export.matches, u)' = Replayed(export.matches, u)
    BY <1>2, <2>1 DEF Replayed
  <2> QED BY <2>2 DEF ExportInv, ExportIsOneMoment
<1> QED
  BY <1>2, <1>3, <1>4, <1>5, <1>6 DEF ExportInv, BetweenQueries

\* The first query keeps a part of the table.
LEMMA ExportInvMatches ==
    ASSUME ExportInv, NEW r, NEW scope, NEW limit, SelectMatches(r, scope, limit)
    PROVE  ExportInv'
<1> DEFINE ids   == Newest({i \in DOMAIN log : InScope(log[i], r, scope)}, limit)
           found == [i \in ids |-> log[i]]
<1>1. /\ tx = Nothing /\ UNCHANGED <<stats, tx, log>>
      /\ export' = [matches |-> found, stats |-> Nothing, whole |-> ids = DOMAIN log]
  BY DEF SelectMatches, MutexFree, vars
<1>2. ids \subseteq DOMAIN log /\ DOMAIN found = ids /\ \A i \in ids : found[i] = log[i]
  BY DEF Newest
<1> HIDE DEF ids, found
<1>3. /\ export'.matches = found /\ export'.stats = Nothing
      /\ export'.whole => ids = DOMAIN log
      /\ export' = [matches |-> export'.matches, stats |-> export'.stats,
                    whole |-> export'.whole]
  BY <1>1
<1> QED
  BY <1>1, <1>2, <1>3 DEF ExportInv, BetweenQueries, ExportIsOneMoment

\* The second query finds the rows that the matches of the first have made.
LEMMA ExportInvStats ==
    ASSUME ExportInv, TypeOK, SelectStats
    PROVE  ExportInv'
<1> DEFINE found == export.matches
           rows  == [u \in Named(found) |-> stats[u]]
           n     == Len(log)
<1>1. /\ tx = Nothing /\ UNCHANGED <<stats, tx, log>> /\ export # Nothing /\ BetweenQueries
      /\ export' = [export EXCEPT !.stats = rows]
  BY DEF SelectStats, vars, BetweenQueries
<1>2. /\ log \in Seq(Result) /\ DOMAIN log = 1 .. n /\ n \in Nat
      /\ DOMAIN found \subseteq DOMAIN log
      /\ \A i \in DOMAIN found : found[i] = log[i] /\ found[i] \in Result
      /\ export.whole => DOMAIN found = DOMAIN log
      /\ export = [matches |-> export.matches, stats |-> export.stats, whole |-> export.whole]
  BY <1>1 DEF ExportInv
<1>3. /\ export'.matches = found /\ export'.stats = rows /\ export'.whole = export.whole
      /\ export' = [matches |-> found, stats |-> rows, whole |-> export.whole]
  BY <1>1, <1>2
<1>4. Named(found) \subseteq Users
  BY <1>2, ResultTeams DEF Named
<1> HIDE DEF found
<1>5. ASSUME NEW u \in Named(found)
      PROVE  /\ export.whole => rows[u] = Rows(found, u)[n]
             /\ rows[u].wins >= Rows(found, u)[n].wins
             /\ rows[u].losses >= Rows(found, u)[n].losses
  <2>1. u \in Users /\ rows[u] = Rows(log, u)[n]
    BY <1>4, <1>5 DEF ExportInv
  <2>2. export.whole => Rows(found, u)[n] = Rows(log, u)[n]
    <3> SUFFICES ASSUME export.whole PROVE Rows(found, u)[n] = Rows(log, u)[n]
      OBVIOUS
    <3>1. SameUpTo(found, log, n)
      BY <1>2 DEF SameUpTo
    <3>2. n \in Nat
      BY <1>2
    <3> HIDE DEF n
    <3> QED BY <3>1, <3>2, RowsPrefix
  <2>3. /\ Rows(found, u)[n].wins <= Rows(log, u)[n].wins
        /\ Rows(found, u)[n].losses <= Rows(log, u)[n].losses
    BY <1>2, RowsOfAPart
  <2>4. Rows(found, u)[n] \in Stat /\ Rows(log, u)[n] \in Stat
    BY <1>2, RowsEquation
  <2> QED BY <2>1, <2>2, <2>3, <2>4 DEF Stat
<1>6. DOMAIN rows = Named(found)
  OBVIOUS
<1> HIDE DEF rows
<1>7. ExportIsOneMoment'
  BY <1>1, <1>3, <1>5, <1>6 DEF ExportIsOneMoment, Replayed
<1> QED
  BY <1>1, <1>2, <1>3, <1>4, <1>6, <1>7 DEF ExportInv, BetweenQueries, found

\* What an export shows is of one moment: the rows are what its matches make of a
\* new player, ratings with their limits included, if it has all matches, and are
\* never behind them (GetExportData under the store's mutex).
THEOREM ExportsAreOneMoment == ExportSpec => []ExportIsOneMoment
<1>1. ExportInv /\ TypeOK /\ TxConsistent /\ [ExportNext]_exportVars => ExportInv'
  <2> SUFFICES ASSUME ExportInv, TypeOK, TxConsistent, [ExportNext]_exportVars
               PROVE  ExportInv'
    OBVIOUS
  <2>1. CASE UNCHANGED <<stats, log, export>> /\ (tx' = tx \/ ~BetweenQueries)
    BY <2>1 DEF ExportInv, BetweenQueries, ExportIsOneMoment, Replayed
  <2>2. ASSUME NEW r \in Rooms, Draw(r) \/ \E winner \in Sides : Begin(r, winner),
               MutexFree, UNCHANGED <<log, export>>
        PROVE  ExportInv'
    BY <2>1, <2>2 DEF Draw, Begin, MutexFree
  <2>3. ASSUME \/ \E u \in Users : UpdatePlayerStat(u)
               \/ InsertMatch
               \/ Rollback,
               UNCHANGED <<log, export>>
        PROVE  ExportInv'
    <3>1. tx # Nothing /\ UNCHANGED stats
      BY <2>3 DEF UpdatePlayerStat, InsertMatch, Rollback
    <3> QED BY <2>1, <2>3, <3>1 DEF ExportInv
  <2>4. CASE Commit /\ log' = Append(log, tx.result) /\ UNCHANGED export
    BY <2>4, ExportInvCommit
  <2>5. ASSUME NEW r \in Rooms, NEW scope \in {"room", "all"}, NEW limit \in Limits,
               SelectMatches(r, scope, limit)
        PROVE  ExportInv'
    BY <2>5, ExportInvMatches
  <2>6. CASE SelectStats
    BY <2>6, ExportInvStats
  <2>7. CASE Finish
    BY <2>7 DEF Finish, ExportInv, BetweenQueries, ExportIsOneMoment, vars
  <2>8. CASE UNCHANGED exportVars
    BY <2>1, <2>8 DEF exportVars, vars
  <2> QED BY <2>2, <2>3, <2>4, <2>5, <2>6, <2>7, <2>8 DEF ExportNext
<1>2. ExportInv => ExportIsOneMoment
  BY DEF ExportInv
<1> QED
  BY <1>1, <1>2, ExportInvInit, ExportKeepsLedger, TypeCorrect, TransactionConsistent, PTL
     DEF ExportSpec
=============================================================================
