----------------------------- MODULE CommandGuard -----------------------------
(****************************************************************************)
(* The guards of the rooms: one mutex and one cooldown per room, made on    *)
(* demand and kept in a map in memory.  RoomCommands takes for granted that *)
(* a room has one lock and that TryLock takes it; this module is about how  *)
(* the handlers of several rooms find that lock, and about the cooldown of  *)
(* /make and /next, the /settings that changes it and the /diagnose that    *)
(* peeks at both.                                                           *)
(****************************************************************************)
EXTENDS Integers, FiniteSets

CONSTANTS
    Rooms,
    Handlers,     \* goroutines
    Guards,       \* roomCommandGuardState objects
    NoGuard,      \* the map has no entry
    Nobody,       \* the mutex is free
    MaxCooldown,  \* 60 seconds in the program
    DefaultCooldown,  \* 3 seconds in the program
    Typed,        \* the cooldowns an administrator may type, sensible or not
    NotSet,       \* the room has no make_next_cooldown_seconds
    MaxTime       \* bound on the clock, for model checking

ASSUME CooldownsValid  == /\ MaxCooldown \in Nat
                          /\ DefaultCooldown \in 0 .. MaxCooldown
                          /\ Typed \subseteq Int
ASSUME NotSetNoCooldown == NotSet \notin Int
ASSUME RoomsExist      == Rooms # {}
ASSUME NobodyNoHandler == Nobody \notin Handlers
ASSUME NoGuardNoObject == NoGuard \notin Guards

VARIABLES
    guards,    \* roomCommandGuards.rooms
    holder,    \* who holds the mutex of each guard
    until,     \* makeNextCooldown of each guard
    setting,   \* make_next_cooldown_seconds of each room, as it is stored
    now,       \* the clock, in seconds
    command,   \* what each handler is doing
    drawn      \* history: when, and under which cooldown, the last draw of each
               \* room was let through since the process started

vars == <<guards, holder, until, setting, now, command, drawn>>

Kinds == {"draw", "set", "reset", "other", "diagnose"}

\* ValidateRoomSetting.
Valid(seconds) == seconds \in 0 .. MaxCooldown

\* RoomSettingsFromMap: what is not set, or not valid, is the default.
Effective(raw) == IF raw # NotSet /\ Valid(raw) THEN raw ELSE DefaultCooldown

\* What the table may hold.
Kept == {seconds \in Typed : Valid(seconds)} \cup {NotSet}

\* Past TryLock.
Locked == {"settings", "clock", "consume", "store", "reset", "work", "unlock"}

Idle == [pc |-> "idle", kind |-> "other", room |-> CHOOSE r \in Rooms : TRUE,
         guard |-> NoGuard, wait |-> 0, clock |-> 0]

NeverDrawn == [at |-> 0, wait |-> 0]

Init ==
    /\ guards = [r \in Rooms |-> NoGuard]
    /\ holder = [g \in Guards |-> Nobody]
    /\ until = [g \in Guards |-> 0]
    /\ setting \in [Rooms -> Kept]
    /\ now = 0
    /\ command = [h \in Handlers |-> Idle]
    /\ drawn = [r \in Rooms |-> NeverDrawn]

At(h, label) == command[h].pc = label

Goto(h, label) == command' = [command EXCEPT ![h].pc = label]

-----------------------------------------------------------------------------

Arrive(h, r, kind) ==
    /\ At(h, "idle")
    /\ command' = [command EXCEPT ![h] = [Idle EXCEPT !.pc = "get", !.kind = kind, !.room = r]]
    /\ UNCHANGED <<guards, holder, until, setting, now, drawn>>

Unused == {g \in Guards : \A r \in Rooms : guards[r] # g}

\* Mutant: the map is read before its mutex is taken, so an entry another
\* handler has just inserted is overwritten.
GetRacing(h) ==
    LET room == command[h].room
    IN  /\ At(h, "get")
        /\ \E g \in Unused :
              /\ guards' = [guards EXCEPT ![room] = g]
              /\ command' = [command EXCEPT ![h].guard = g, ![h].pc = "trylock"]
        /\ UNCHANGED <<holder, until, setting, now, drawn>>

\* roomCommandGuardMap.get: the room's guard, made if there is none.
Get(h) ==
    LET room == command[h].room
    IN  /\ At(h, "get")
        /\ \E g \in IF guards[room] = NoGuard THEN Unused ELSE {guards[room]} :
              /\ guards' = [guards EXCEPT ![room] = g]
              /\ command' = [command EXCEPT ![h].guard = g, ![h].pc = "trylock"]
        /\ UNCHANGED <<holder, until, setting, now, drawn>>

AfterLock(kind) ==
    CASE kind = "draw"  -> "settings"
      [] kind = "set"   -> "store"
      [] kind = "reset" -> "reset"
      [] OTHER          -> "work"

\* Mutant: /settings set goes ahead without the room's lock.
TryLockNotForSettings(h) ==
    LET c == command[h]
    IN  /\ At(h, "trylock")
        /\ \/ /\ holder[c.guard] = Nobody
              /\ holder' = [holder EXCEPT ![c.guard] = h]
              /\ Goto(h, AfterLock(c.kind))
           \/ /\ holder[c.guard] # Nobody
              /\ command' = [command EXCEPT ![h] = IF c.kind = "set" THEN [c EXCEPT !.pc = "store"]
                                                   ELSE Idle]
              /\ UNCHANGED holder
        /\ UNCHANGED <<guards, until, setting, now, drawn>>

\* TryLock: a command that fails answers "processing", a /diagnose reports the
\* room as locked, and both return.
TryLock(h) ==
    LET c == command[h]
    IN  /\ At(h, "trylock")
        /\ \/ /\ holder[c.guard] = Nobody
              /\ holder' = [holder EXCEPT ![c.guard] = h]
              /\ Goto(h, AfterLock(c.kind))
           \/ /\ holder[c.guard] # Nobody
              /\ command' = [command EXCEPT ![h] = Idle]
              /\ UNCHANGED holder
        /\ UNCHANGED <<guards, until, setting, now, drawn>>

\* /make and /next read the room's settings...
ReadSettings(h) ==
    /\ At(h, "settings")
    /\ command' = [command EXCEPT ![h].wait = Effective(setting[command[h].room]),
                                  ![h].pc = "clock"]
    /\ UNCHANGED <<guards, holder, until, setting, now, drawn>>

\* ... or fail to, and return.
SettingsUnreadable(h) ==
    /\ At(h, "settings")
    /\ Goto(h, "unlock")
    /\ UNCHANGED <<guards, holder, until, setting, now, drawn>>

ReadClock(h) ==
    /\ At(h, "clock")
    /\ command' = [command EXCEPT ![h].clock = now, ![h].pc = "consume"]
    /\ UNCHANGED <<guards, holder, until, setting, now, drawn>>

\* Mutant: a command that is refused starts the cooldown again, on top of what
\* was left of it.
ConsumeExtending(h) ==
    LET c == command[h]
    IN  /\ At(h, "consume")
        /\ until' = [until EXCEPT ![c.guard] =
                        (IF c.clock < until[c.guard] THEN until[c.guard] ELSE c.clock) + c.wait]
        /\ IF c.clock < until[c.guard]
           THEN /\ Goto(h, "unlock")
                /\ UNCHANGED drawn
           ELSE /\ Goto(h, "work")
                /\ drawn' = [drawn EXCEPT ![c.room] = [at |-> c.clock, wait |-> c.wait]]
        /\ UNCHANGED <<guards, holder, setting, now>>

\* Mutant: a command that is refused starts the cooldown again.
ConsumeRestarting(h) ==
    LET c == command[h]
    IN  /\ At(h, "consume")
        /\ until' = [until EXCEPT ![c.guard] = c.clock + c.wait]
        /\ \/ /\ c.clock < until[c.guard]
              /\ Goto(h, "unlock")
              /\ UNCHANGED drawn
           \/ /\ c.clock >= until[c.guard]
              /\ drawn' = [drawn EXCEPT ![c.room] = [at |-> c.clock, wait |-> c.wait]]
              /\ Goto(h, "work")
        /\ UNCHANGED <<guards, holder, setting, now>>

\* Mutant: the cooldown that was running is not looked at.
ConsumeUnchecked(h) ==
    LET c == command[h]
    IN  /\ At(h, "consume")
        /\ until' = [until EXCEPT ![c.guard] = c.clock + c.wait]
        /\ drawn' = [drawn EXCEPT ![c.room] = [at |-> c.clock, wait |-> c.wait]]
        /\ Goto(h, "work")
        /\ UNCHANGED <<guards, holder, setting, now>>

\* consumeCooldown with the time read before: refused, or let through with a
\* cooldown started, whatever becomes of the command afterwards.
Consume(h) ==
    LET c == command[h]
    IN  /\ At(h, "consume")
        /\ \/ /\ c.clock < until[c.guard]
              /\ Goto(h, "unlock")
              /\ UNCHANGED <<until, drawn>>
           \/ /\ c.clock >= until[c.guard]
              /\ until' = [until EXCEPT ![c.guard] = c.clock + c.wait]
              /\ drawn' = [drawn EXCEPT ![c.room] = [at |-> c.clock, wait |-> c.wait]]
              /\ Goto(h, "work")
        /\ UNCHANGED <<guards, holder, setting, now>>

\* /settings set make_next_cooldown_seconds: a valid value is stored; an invalid
\* one, any other key or a failed write changes nothing here.
StoreSetting(h) ==
    /\ At(h, "store")
    /\ \/ \E seconds \in Typed :
             /\ Valid(seconds)
             /\ setting' = [setting EXCEPT ![command[h].room] = seconds]
       \/ UNCHANGED setting
    /\ Goto(h, "unlock")
    /\ UNCHANGED <<guards, holder, until, now, drawn>>

\* /reset deletes the room's settings with its state, unless the administrator
\* is none or the delete fails; the cooldown that is running stays.
ResetSettings(h) ==
    /\ At(h, "reset")
    /\ \/ setting' = [setting EXCEPT ![command[h].room] = NotSet]
       \/ UNCHANGED setting
    /\ Goto(h, "unlock")
    /\ UNCHANGED <<guards, holder, until, now, drawn>>

\* The command itself (RoomCommands), or the look of /diagnose at the cooldown.
Work(h) ==
    /\ At(h, "work")
    /\ Goto(h, "unlock")
    /\ UNCHANGED <<guards, holder, until, setting, now, drawn>>

Unlock(h) ==
    /\ At(h, "unlock")
    /\ holder' = [holder EXCEPT ![command[h].guard] = Nobody]
    /\ command' = [command EXCEPT ![h] = Idle]
    /\ UNCHANGED <<guards, until, setting, now, drawn>>

Tick ==
    /\ now < MaxTime
    /\ now' = now + 1
    /\ UNCHANGED <<guards, holder, until, setting, command, drawn>>

\* The guards are in memory: the locks, and the cooldowns with them, are gone.
Restart ==
    /\ guards' = [r \in Rooms |-> NoGuard]
    /\ holder' = [g \in Guards |-> Nobody]
    /\ until' = [g \in Guards |-> 0]
    /\ command' = [h \in Handlers |-> Idle]
    /\ drawn' = [r \in Rooms |-> NeverDrawn]
    /\ UNCHANGED <<setting, now>>

Step(h) ==
    \/ Get(h)
    \/ TryLock(h)
    \/ ReadSettings(h)
    \/ SettingsUnreadable(h)
    \/ ReadClock(h)
    \/ Consume(h)
    \/ StoreSetting(h)
    \/ ResetSettings(h)
    \/ Work(h)
    \/ Unlock(h)

Next ==
    \/ \E h \in Handlers, r \in Rooms, kind \in Kinds : Arrive(h, r, kind)
    \/ \E h \in Handlers : Step(h)
    \/ Tick
    \/ Restart

Spec == Init /\ [][Next]_vars

-----------------------------------------------------------------------------
(* Properties.                                                              *)

\* Every variable keeps its type; above all, no sequence of accepted and refused
\* draws blocks a room for longer than the largest cooldown there is.
TypeOK ==
    /\ guards \in [Rooms -> Guards \cup {NoGuard}]
    /\ holder \in [Guards -> Handlers \cup {Nobody}]
    /\ until \in [Guards -> 0 .. now + MaxCooldown]
    /\ setting \in [Rooms -> Kept]
    /\ now \in Nat
    /\ command \in [Handlers -> [pc : Locked \cup {"idle", "get", "trylock"}, kind : Kinds,
                                 room : Rooms, guard : Guards \cup {NoGuard},
                                 wait : 0 .. MaxCooldown, clock : 0 .. now]]
    /\ drawn \in [Rooms -> [at : 0 .. now, wait : 0 .. MaxCooldown]]

\* Of the commands of one room at most one is past its TryLock, though each of
\* them looks the guard up, or makes it, for itself: the room never has a second
\* guard while a handler still works under the first.
OneCommandPerRoom ==
    \A h1, h2 \in Handlers :
        /\ command[h1].pc \in Locked
        /\ command[h2].pc \in Locked
        /\ command[h1].room = command[h2].room
        => h1 = h2

\* The cooldown a draw is about to start is the one the settings hold at that
\* moment: no /settings set or /reset falls between the reading and the use.
CooldownIsCurrent ==
    \A h \in Handlers : command[h].pc \in {"clock", "consume"} =>
        command[h].wait = Effective(setting[command[h].room])

\* Two draws of a room that are let through by the same process are at least the
\* cooldown of the earlier one apart.
DrawsSpaced ==
    [][\A r \in Rooms : drawn'[r] # drawn[r] /\ drawn'[r] # NeverDrawn =>
            drawn'[r].at >= drawn[r].at + drawn[r].wait]_vars

\* Who is refused has come within the cooldown of the last draw that was let
\* through: commands repeated meanwhile, which are refused too, do not push its
\* end away, nor does a draw of another room or a setting that was changed.
RefusedOnlyInCooldown ==
    [][\A h \in Handlers : At(h, "consume") /\ command'[h].pc = "unlock" =>
            LET last == drawn[command[h].room]
            IN  command[h].clock < last.at + last.wait]_vars
===============================================================================
