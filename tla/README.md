# Verification of the Splatoon team balancer bot

TLA+ models, model-checking runs and machine-checked proofs for the Discord bot
in `src/`: players `/join` a room (a Discord channel), `/make` draws two balanced
teams of four, `/next` draws the next match without those who pause, `/reroll`
draws the same players again, `/result` records who won, `/undo` takes the last
draw back.

## 1. Inventory of the system

| Component | State it keeps | Operations | Where |
|---|---|---|---|
| Room store | one row per room: players with pauses, last match, counters, undo point; settings; statistics; matches | `Join`, `Leave`, `SetPause`, `Resume`, `DecrementPauses`, `SaveLastMatch`, `SnapshotRoomState`, `UndoRoomState`, `ResetRoom`, ... | `internal/adapter/store/sqlite_store.go` |
| Room service | none | `Make`, `Next`, `Reroll`, `RecordResult`: sequences of store calls | `internal/app/usecase/room.go` |
| Command handlers | none | one per slash command, one goroutine per interaction | `internal/bot/commands.go`, `handler.go` |
| Room guards | in memory: a mutex and a cooldown per room | `tryLock`, `snapshot`, `consumeCooldown` | `internal/bot/commands.go` |
| Pause reactions | in memory: pause notice -> member | `put`, `get`, `delete`, `HandleReactionAdd` | `internal/bot/commands.go` |
| Matchmaking | none | exhaustive search, choice by difference and penalty | `internal/domain/matchmaking.go` |
| Ratings | rows of `player_stats`, shared by all rooms | `RecordMatchResult`, `NextRatingDelta` | `sqlite_store.go`, `internal/domain/rating.go` |
| Rotation history | per player, in the room's row: turns sat out, when last, matches played | read by `combinedPenaltyFunc`, written by `SaveLastMatch`, taken back by `UndoRoomState` | `app/usecase/room.go`, `sqlite_store.go` |
| Settings | rows of `room_settings` | `/settings`, `/reset`; read by `/make`, `/next`, `/reroll`, `/pause` | `internal/domain/room_settings.go` |
| Migrations | the schema and `schema_migrations` | run at start-up | `sqlite_store.go`, `migrations/`, `cmd/bot` |
| Memory store | the same as the room store, behind shared slices and maps | the default of `internal/bot` and of the tests; `main` installs the other | `internal/store/memory.go` |
| Export | none | `GetExportData`, two queries; the files are formatting | `sqlite_store.go`, `internal/util` |
| Presentation, configuration | none | formatting and I/O | `adapter/discord`, `config`, `cmd/bot` |

How they interact. discordgo runs a handler per interaction in a goroutine of its
own. `/make`, `/next`, `/reroll`, `/pause`, `/resume`, `/undo`, `/reset`,
`/result` and `/settings set` take the room's mutex with `TryLock` and answer
"processing" when they cannot; `/join`, `/leave` and the thumbs-up reaction take
no room lock. Every store operation holds the store's own mutex and rewrites the
room's row in one statement, so it is atomic; a command makes several of them and
other goroutines run in between. Room rows, settings, statistics and matches
survive a restart; guards, cooldowns and the pause registry do not.

What is hard, and what correctness means for each part:

* **Commands** - handlers interleave between any two store calls, and
  `SnapshotRoomState`, `SaveLastMatch`, `DecrementPauses` and `List` hide their
  errors. What a handler has read must still be right when it writes: `/next`
  must not field a paused player, `/result` must credit the match on the board,
  the undo point must hold the match that is being replaced, a pause must be
  counted once per `/next`, the room must stay within its capacity, and the
  lock must come back on every path.
* **Pause reactions** - looking up, resuming and deleting are three steps, and so
  are pausing, posting and registering. A member who is paused must be able to
  come back, and nobody else may do it for him.
* **Guards** - made on demand by racing handlers: a room must never get a second
  mutex while the first is in use; draws must be a cooldown
  apart, and commands repeated meanwhile must not push its end away.
* **Recording** - a dozen statements of one transaction, each of which may fail:
  a match and its credits are recorded together or not at all.
* **Matchmaking** - keeps only the best splits of every pool of eight and then
  trades balance for rotation within a slack: the shortcut must lose nothing.
* **Rotation** - a price, a search and two counters, fed back into the next
  price: over many matches nobody may sit out again and again while others play.
* **Migrations** - a crash, an error or a second process between any two
  statements, on a file of any age: no bot may serve a schema its queries do not
  fit, no rating may be lost, and no leftover may stop the starts that follow.
* **Memory store** - writes into slices and maps in place: undo points and states
  that were handed out must never see a later write.
* **Export** - two queries while results arrive: the statistics must be those of
  the matches beside them.

## 2. Modules

| Module | What it models |
|---|---|
| `Matches` | parameters of a room, matches and possible line-ups |
| `RoomStore` | the row of one room and the store's operations on it |
| `RoomRow` | abstract: `RoomStore` with counters, onboarding flag and the copies callers hold |
| `MemoryStore` | the memory store's operations on a room, with their references |
| `RoomCommands` | the handlers of one room over `RoomStore`, with restarts |
| `MatchBoard` | abstract: what the commands promise about members, board and undo |
| `UndoPromise` | `RoomCommands` with a history of what the last result replaced |
| `PauseReaction` | notices, registry and reaction goroutines over `RoomStore` |
| `NoticePromise` | `PauseReaction` with a history of who has asked to come back |
| `CommandGuard` | the guards of several rooms, cooldown, settings, `/diagnose` |
| `MatchRecording` | abstract: results recorded atomically, ratings |
| `MatchLedger` | `RecordMatchResult` statement by statement |
| `ResultOnce` | `MatchLedger` with a count of recordings per draw |
| `Export` | `MatchLedger` with exports that read it |
| `Matchmaking` | the search and the choice, against all divisions of a list |
| `SittingOut` | abstract: what the rotation promises, match after match |
| `Rotation` | the room around `Matchmaking`: prices, draws, histories |
| `Migrations` | start-up on a database of any age, with faults and rivals |
| `MC...` | instances for TLC; the configurations are the `.cfg` files |
| `RoomCommandsProofs`, `MatchLedgerProofs`, `PauseReactionProofs`, `CommandGuardProofs`, `RotationProofs`, `MemoryStoreProofs`, `MigrationsProofs` | theorems and proofs |
| `InductionTheorems` | lemmas on sums over finite sets and on functions defined along the naturals, for the proofs |

**RoomStore / RoomCommands.** `members`, `pause`, `last` and `previous` are
`Players`, `PauseRemaining`, `LastResult` with `LastPlayersSnapshot`, and
`PreviousState` of the row. An action `StoreX` is the store operation `X`. In
`RoomCommands` each handler `h` has a label `pc[h]` (the store call it makes
next) and the values it has read (`field`, `seen`); an action is one store call
with the code up to the next. `Refuse` stands for all early returns before the
first write, `RunMatch` for `RunMatchWithPlayers` on both its paths,
`NextDecrement` for the deferred count of pauses that follows either. A failing
`TryLock` changes nothing and is a stuttering step. With `StoreFaults` TRUE every
read may come back empty and every write may be lost where the code drops the
error; where it reports the error the command is refused. A missing row and an
empty row cannot be told apart by a command and are one state. Which of the
possible line-ups is drawn is left open here; `Matchmaking` says more.

**PauseReaction.** `/pause` is three steps (`SetPause`, `SendNotice` or
`SendFails`, `Register`) under the lock; a reaction goroutine is `LookUp`,
`ReactionResume` or `ReactionGivesUp`, `ReactionDelete`, without it. A look-up
that finds nothing changes nothing. `posted` is the channel (external), so it
survives `Restart`; `registry` does not. The other commands that may change a
pause are their one store call. `cutOff` is a history variable: whose pause is
known to have lost its notice to a restart, an undo or a message Discord refused.

**CommandGuard.** `Get` is `roomCommandGuardMap.get`, atomic under the map's
mutex; `TryLock` follows in a step of its own, as in the code. A draw then reads
its settings, the clock and the cooldown in three steps. `/settings set` and
`/reset` change the setting under the room's lock; `/diagnose` holds it for a
moment. `setting` is the stored row: `Effective` is what `RoomSettingsFromMap`
makes of it, and what is stored has passed `ValidateRoomSetting`. `drawn` is a
history variable.

**MatchRecording / MatchLedger.** One transaction at a time (the store's mutex);
players are credited winners first; the order among team mates is left open. A
result is a room, a draw and a winner, and `matches` counts how often each was
recorded.

**Export.** `log` is the table of matches in the order of their ids, and what is
exported of it a function from ids to results. An export is `SelectMatches` and `SelectStats`, between which the store's mutex
(`MutexFree`) lets no transaction begin; `/export` takes no room lock, so without
that mutex a result could fall in between.

**Matchmaking.** Players are indices into the list, as in the code. The sums,
pools, splits, candidates and penalties are those of the code; `AllSplits` is the
reference. The penalty of a spectator is a number per player. The seed hash picks
some index in range: any selected candidate.

**Rotation / SittingOut.** `LoadRoom` lists players and prices them from their
history (`combinedPenaltyFunc`), `Draw` is `BuildMatch`, and `SaveLastMatch`
writes turns and teams back. Hours stand for seconds; the clock does not go
backwards. `SittingOut` knows only turns and times, and promises that nobody sits
out who has done so more often and not less recently than a player who takes part.
A draw implements it where the rotation decides (`RotationDecides`: the avoidance
of team mates is off, and every pool can be divided within the slack); elsewhere
the code trades it away on purpose.

**RoomRow / MemoryStore.** `RoomRow` is the whole row as values. `MemoryStore`
keeps an address for every slice and map, writes in place where the Go code does,
and copies where `copyPlayers`, `snapshotFromState`, `GetState` and the others do;
`append` writes in place or moves. Its states, followed to the values behind them,
are shown to be those of `RoomRow`. `reader` is the state a caller got from
`GetState`.

**Migrations.** The schema is the set of tables and columns; a file is its list of
statements. `Check`, `Execute`, `Record` and `Commit` are the loop of `init` and
`applyMigration`. A transaction is deferred, as `database/sql` begins it: one
process at a time gets the write lock, and it cannot commit while another has read
in an open transaction. Whoever is refused ends itself (`Refused`), as `main` does.
`Fail` is a crash or any other error, after which the transaction is gone.

## 3. Runs

| Run | Bounds | Shows |
|---|---|---|
| `RoomCommands` | 3 users, 2 handlers, teams of 1, pauses of 1, no faults | exclusion, freshness of what `/next`, `/result`, `/reroll` have read, fresh undo points, refinement of `MatchBoard` |
| `RoomPauses` | 2 users, 2 handlers, pauses of 1 and 3, fair | each `/next` counts each pause once; the lock comes back |
| `RoomFaults` | 3 users for 2 places, faults | what survives silent read and write failures; capacity |
| `UndoPromise` | 2 users, 1 handler | violation: see findings |
| `PauseReaction` | 2 users, 2 goroutines, 3 notices | a usable notice for every paused member; only he uses it |
| `NoticePromise` | 1 user, 1 goroutine, 1 notice | violation: see findings |
| `CommandGuard` | 2 rooms, 2 handlers, cooldown 0 or the default of 2, 3 is refused, clock to 4 | one command per room, draws spaced, refusals only within a cooldown, no stale cooldown |
| `MatchLedger` | 3 users, 2 rooms, 3 draws, 2 matches, limit 15, step 10; exports of 1 or 4 matches | atomic recording, statistics equal to the history, an export of one moment |
| `ResultOnce` | as above | violation: see findings |
| `Rotation` | teams of 2, 4 to 6 players, ratings 0, 1, 3, slack 1; many rooms for one match, few for four | balance within the slack; the choice optimal for the rotation; draws implement `SittingOut` |
| `MemoryStore` | 3 users, 6 addresses, 8 operations | nothing shared; counters fit the matches; refinement of `RoomRow` |
| `Migrations` | 2 processes, 3 faults, 6 databases, fair | a whole schema, no rating lost, start-up gets through |

Why the bounds suffice. Two handlers are enough for every race of two
commands (a third can only be refused), and three users give a room that changes
while a match of two is built, with a spectator. Teams of one keep the line-ups
few; the code's team size only enters `EnoughPlayers` and `Lineups`. A pause of
three distinguishes one count from two. In `MatchLedger` two results move one
player by 20, past the limit of 15. Three notices allow a pause, its answer and a new
pause while the first goroutine has not finished, and one more. A clock of four
holds two cooldowns of two. In `Rotation` six players leave two spectators,
as ten do in the program; the gaps of 0 and 6 hours, with histories 2, 10 and 30
hours old, reach every price of a turn. In `MemoryStore` four states are held at
most, so that six addresses leave room for the two an operation allocates; eight
operations are a join, a match, an undo point, a copy and writes through each of
them. The databases of `Migrations` are a new file, the legacy schema of the
tests, and legacy files whose columns were added by hand in part or in full.
An export of four takes in all matches, one of one leaves some out. Symmetry is used where users, handlers, reactions,
rooms or guards are interchangeable and no liveness is checked.

Fairness. `FairSpec` assumes weak fairness of each handler's next step. The Go
scheduler runs a started goroutine, store calls end (the store's mutex is held
for one statement or one transaction), and Discord's calls return or time out. No
fairness of `Acquire`, of users or of restarts is assumed. In `Migrations` the steps of a
start-up that has begun are weakly fair, for the same reason; whether a process
is started again is the operator's business, so `EventuallyServes` speaks of one
that is not left down for good. It also asks that no rival is starting forever
(`Alone`): without that the run finds two processes, restarted side by side,
that keep refusing each other's writes and commits. One bot is started at a time.

`Rotation` and `MemoryStore` stop at their bounds (matches left, operations), and
deadlock is not checked there. In every other run it is.

## 4. What disagrees with the documents

* `UndoPromise`: a `/make` or `/next` that fails for want of players has already
  replaced the undo point; `/undo` then succeeds and does not take the last
  result back ("undo last /make or /next result", `commands.go:137`).
* `ResultOnce`: `/result` twice credits a match twice (`docs/DECISIONS.md:38`).
* `NoticePromise`: a reaction between the posting and the registration of the
  notice is dropped (`commands.go:483`).

Seen while modelling, and contradicting no document:

* A newcomer's count is zero, so he sits out until he has caught up.
* Where the avoidance of team mates is on, or no division within the slack is
  left, the same player may sit out twice in a row.
* `/undo` of the first match brings the onboarding flag back with the row, so the
  hint may be shown again.
* `SQLiteStore.GetState` leaves the undo point out of its answer, so a
  `ReplaceState` with it would drop the undo point; nothing in production does.
* `MemoryStore.RecordMatchResult` keeps no matches.
* An export of one room shows statistics that are shared by all servers.

## 5. Proofs

Every invariant and every action property that a passing run checks is a theorem;
the liveness properties are not. The theorems hold for every value of the constants, under
the named assumptions of the modules (a finite set of users, a positive team size,
a natural capacity, positive pause lengths, rooms whose lists are long enough to
draw from, model values distinct from data). Theorems about the undo point and
the pauses assume that the database does not fail (`~StoreFaults`), and two about
the rotation a positive slack (`Slack > 0`, 50 in the program).

* `RoomCommandsProofs`. The properties of the runs are not inductive one by one:
  that `/next`'s list stays right needs that nobody else is past the lock, and
  that needs the types. `IInv` is their conjunction and is proved to be
  inductive, one step per action, with or without faults; exclusion, freshness
  and `/result`'s match follow. `RoomWithinCapacity` is added on top of it: the
  undo point and the lists of handlers are bounded because the room was when they
  were taken. `FaultFreeInv` (assuming no faults) adds that the undo point is
  fresh and that no pause has grown since; from it follow `PausesCountedByNext`
  and, with lemmas per action, that every step is a step or a stutter of
  `MatchBoard` (`CommandsImplementBoard`). `UndoRevertsSuccessfulDraws` says where
  the promise of `/undo` holds that the run `UndoPromise` refutes: if no `/make` or
  `/next` finds too few players once it has taken its undo point, outside of a draw
  the undo point holds what the last result replaced (`UndoPointKept`).
* `MatchLedgerProofs`. `TypeOK`, which includes that no rating leaves its limits,
  then `TxConsistent`, the invariant of the open transaction; with it `Commit` is
  `Record` and every other step stutters (`LedgerIsAtomic`). That the statistics
  are the history (`StatisticsAreTheHistory`) is proved of the abstract, atomic
  recording, where a match adds one to the sums of its players and nothing to the
  others', and carried over by that refinement. Exports take nothing from the
  ledger (`ExportKeepsLedger`). `ExportInv` says that every row is the replay of
  the whole table, rating by rating; that what an export holds is a part of the
  table; and that between its queries no transaction is open, which is what the
  store's mutex is for. A later match has an id past all exported ones, so that it
  does not change their replay, and leaving matches out only makes a replay smaller
  (`RowsOfAPart`): `ExportsAreOneMoment`.
* `PauseReactionProofs`. `PausedCanReact` is stated of the notices no goroutine
  is about to delete, which with `NoticeIsNew` makes it inductive: whoever is
  about to delete a notice has ended its pause, and a later pause has a notice
  of its own. `PauseEndedByMember` follows from the types alone,
  one step per action.
* `CommandGuardProofs`. Each property rests on links that are not visible in it.
  `GuardsCurrent`: a handler past its lock holds the guard it found, and that
  guard is still the one in the map (`Exclusive`, `CooldownCurrent`).
  `GuardsDistinct`: no guard serves two rooms. `CooldownOfLastDraw`: the guard of
  a room carries the end of its last draw's cooldown, so that a draw comes after
  it (`DrawsAreSpaced`) and a refusal before it (`RefusalsAreJustified`); that a
  guard just made carries none is `UnusedAreNew`.
* `RotationProofs`. First the search: every division of the list is a split of its
  pool, possibly with the teams exchanged, so for every division there is a
  candidate with the same spectators that is at least as balanced
  (`CandidateForEveryDivision`). What the program throws away therefore contains
  neither a better balance (`MatchesAreBalanced`) nor, with the avoidance of team
  mates off, cheaper spectators (`RotationOptimal`); and a perfectly balanced
  division is never thrown away (`RotationIsFree`). `IInv` ties this to the room:
  a match is saved with the prices, and from the list, it was drawn with. That the
  program implements `SittingOut` (`RotationIsFair`) is an exchange argument
  (`DrawIsFair`): if a spectator has sat out more often, and not less recently,
  than a player, then with their places exchanged the match costs less, and can
  still be divided within the slack, so it would not have been chosen.
  Next the abstract rotation: if two listed players are within one turn of
  each other and the one ahead is not the one with the older turn (`Level`), a
  draw that respects `Behind` leaves them so (`LevelPreserved`), because the draw
  that would drive them apart is the one `Behind` forbids; that needs that no turn
  lies in the future (`HistoryInv`). Regulars therefore share the turns
  (`TurnsAreShared`). Both come back to the program through the refinement:
  `MatchesKeepLevel` and, for as long as the rotation decides, `RegularsShareTurns`.
* `MemoryStoreProofs`. `IInv` is the types and `NoSharing`. Only with `NoSharing`
  is a write in place a step of `RoomRow` on one state and no step on the others,
  so the refinement (`MemoryImplementsRow`) rests on it, operation by operation;
  the addresses chosen by an allocation are new by `EnoughAddresses`. The counters
  (`CountsFitTheMatches`) are shown to fit in `RoomRow`, where the row, its undo
  point and a copy are plain values, and carried back by the refinement.
* `MigrationsProofs`. That a recorded file was applied is not inductive while a
  transaction is open. `IInv` says the same of what the writer sees (`Writing`),
  and of every process where it stands in the loop (`Reached`): what the
  statements it has passed brought is in the schema it sees. `Sound` adds that
  versions have no gap, that the old column keeps the rating, and that the new
  one holds it too or is still zero.
* `InductionTheorems`. The prover has no induction over data that could be cited;
  these lemmas argue by a smallest counterexample, which needs no more than that a
  non-empty set of naturals has a least element and a non-empty family of subsets of
  a finite set a minimal one. On that rest the sums over finite sets (of ratings,
  penalties and counters) and the existence of a function that is given by its first
  value and a step (the replay of matches).

Only model-checked: the liveness properties `LockReleased` and `EventuallyServes`,
whose fairness needs ENABLED, which is beyond the prover. The three documented
promises that the runs refute are not theorems either; of the first, the part that
holds is (`UndoRevertsSuccessfulDraws`).

## 6. Not modelled, and what comes next

* Planned proofs: where the promises that `NoticePromise` and `ResultOnce` refute
  do hold.
* Of the four settings the cooldown is followed. The weights are constants of
  `Rotation` (a change between two matches is another room to start from), and the
  default of `/pause` is one of its lengths.
* The memory store's settings are one map under the same mutex, and its statistics
  are those of `MatchRecording` without matches.
* The onboarding message, the layout of the export's csv and json, the embeds of
  presentation, configuration and the registration of commands are wording,
  formatting or I/O. `/list`, `/paused`, `/whoami` and `/help` only read.
* Names, XPower values, pause reasons, seeds and times are abstracted in
  `RoomStore`; a re-join, which only rewrites them, is a stuttering step.
