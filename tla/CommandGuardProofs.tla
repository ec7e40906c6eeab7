-------------------------- MODULE CommandGuardProofs --------------------------
(****************************************************************************)
(* Proofs about CommandGuard, for every number of rooms and handlers and    *)
(* every set of cooldowns.                                                  *)
(****************************************************************************)
EXTENDS CommandGuard, TLAPS

-----------------------------------------------------------------------------
(* The strengthening.                                                       *)

\* A handler that has found its guard has the guard that is in the map, and past
\* TryLock it holds it.
GuardsCurrent ==
    \A h \in Handlers :
        /\ command[h].pc \in Locked \cup {"trylock"} =>
              /\ guards[command[h].room] # NoGuard
              /\ command[h].guard = guards[command[h].room]
        /\ command[h].pc \in Locked => holder[command[h].guard] = h

\* No guard serves two rooms.
GuardsDistinct ==
    \A r1, r2 \in Rooms : r1 # r2 /\ guards[r1] # NoGuard => guards[r1] # guards[r2]

\* The cooldown of a room ends when its last draw says.
CooldownOfLastDraw ==
    \A r \in Rooms :
        /\ guards[r] = NoGuard => drawn[r] = NeverDrawn
        /\ guards[r] # NoGuard => until[guards[r]] = drawn[r].at + drawn[r].wait

\* A guard that is yet to be made has no cooldown.
UnusedAreNew == \A g \in Unused : until[g] = 0

IInv == TypeOK /\ GuardsCurrent /\ GuardsDistinct /\ CooldownOfLastDraw /\ UnusedAreNew

Record == [pc : Locked \cup {"idle", "get", "trylock"}, kind : Kinds, room : Rooms,
           guard : Guards \cup {NoGuard}, wait : 0 .. MaxCooldown, clock : 0 .. now]

-----------------------------------------------------------------------------
(* Type correctness.                                                        *)

LEMMA IdleType == ASSUME now \in Nat PROVE Idle \in Record
<1>1. (CHOOSE r \in Rooms : TRUE) \in Rooms
  BY RoomsExist
<1> QED
  BY <1>1, CooldownsValid DEF Idle, Record, Kinds

LEMMA AfterLockLocked == \A kind \in Kinds : AfterLock(kind) \in Locked
BY DEF Kinds, AfterLock, Locked

\* A record of a handler in which a field has been given a value of its type.
LEMMA RecordUpdate ==
    ASSUME NEW c \in Record
    PROVE  /\ \A label \in Locked \cup {"idle", "get", "trylock"} :
                 [c EXCEPT !.pc = label] \in Record
           /\ \A g \in Guards : [c EXCEPT !.guard = g, !.pc = "trylock"] \in Record
           /\ \A w \in 0 .. MaxCooldown : [c EXCEPT !.wait = w, !.pc = "clock"] \in Record
           /\ \A t \in 0 .. now : [c EXCEPT !.clock = t, !.pc = "consume"] \in Record
BY DEF Record, Locked

\* Whatever the table holds, the cooldown a draw is given is a valid one.
LEMMA EffectiveValid == ASSUME NEW raw PROVE Effective(raw) \in 0 .. MaxCooldown
BY CooldownsValid DEF Effective, Valid

LEMMA TypeStep == TypeOK /\ [Next]_vars => TypeOK'
<1> SUFFICES ASSUME TypeOK, [Next]_vars PROVE TypeOK'
  OBVIOUS
<1> USE DEF TypeOK
<1>a. /\ command \in [Handlers -> Record] /\ now \in Nat /\ Idle \in Record
      /\ MaxCooldown \in Nat
  BY IdleType, CooldownsValid DEF Record
<1>b. ASSUME /\ UNCHANGED now
             /\ command' \in [Handlers -> Record]
             /\ guards' \in [Rooms -> Guards \cup {NoGuard}]
             /\ holder' \in [Guards -> Handlers \cup {Nobody}]
             /\ until' \in [Guards -> 0 .. now + MaxCooldown]
             /\ setting' \in [Rooms -> Kept]
             /\ drawn' \in [Rooms -> [at : 0 .. now, wait : 0 .. MaxCooldown]]
      PROVE  TypeOK'
  BY <1>a, <1>b DEF Record
<1>1. ASSUME NEW h \in Handlers, NEW r \in Rooms, NEW kind \in Kinds, Arrive(h, r, kind)
      PROVE  TypeOK'
  <2>1. [Idle EXCEPT !.pc = "get", !.kind = kind, !.room = r] \in Record
    BY <1>a DEF Record
  <2>2. command' \in [Handlers -> Record]
    BY <1>1, <1>a, <2>1 DEF Arrive
  <2> QED BY <1>1, <1>b, <2>2 DEF Arrive
<1>2. ASSUME NEW h \in Handlers, Get(h) PROVE TypeOK'
  <2>1. PICK g \in Guards : /\ guards' = [guards EXCEPT ![command[h].room] = g]
                            /\ command' = [command EXCEPT ![h].guard = g, ![h].pc = "trylock"]
    BY <1>2, <1>a DEF Get, Unused, Record
  <2>2. command' = [command EXCEPT ![h] = [command[h] EXCEPT !.guard = g, !.pc = "trylock"]]
    BY <2>1, <1>a
  <2>3. command' \in [Handlers -> Record]
    BY <1>a, <2>2, RecordUpdate
  <2> QED BY <1>2, <1>b, <2>1, <2>3 DEF Get
<1>3. ASSUME NEW h \in Handlers, TryLock(h) PROVE TypeOK'
  <2>1. AfterLock(command[h].kind) \in Locked
    BY <1>a, AfterLockLocked DEF Record
  <2>2. \/ command' = [command EXCEPT ![h] = [command[h] EXCEPT !.pc = AfterLock(command[h].kind)]]
        \/ command' = [command EXCEPT ![h] = Idle]
    BY <1>3, <1>a DEF TryLock, Goto
  <2>3. command' \in [Handlers -> Record]
    <3>1. [command[h] EXCEPT !.pc = AfterLock(command[h].kind)] \in Record
      BY <1>a, <2>1, RecordUpdate
    <3> QED BY <1>a, <2>2, <3>1
  <2>4. holder' \in [Guards -> Handlers \cup {Nobody}]
    <3>1. CASE UNCHANGED holder
      BY <3>1
    <3>2. CASE holder' = [holder EXCEPT ![command[h].guard] = h]
      BY <3>2
    <3> QED BY <1>3, <3>1, <3>2 DEF TryLock
  <2> QED BY <1>3, <1>b, <2>3, <2>4 DEF TryLock
<1>4. ASSUME NEW h \in Handlers, ReadSettings(h) PROVE TypeOK'
  <2> DEFINE wait == Effective(setting[command[h].room])
  <2>1. wait \in 0 .. MaxCooldown
    BY EffectiveValid
  <2>2. command' = [command EXCEPT ![h] = [command[h] EXCEPT !.wait = wait, !.pc = "clock"]]
    BY <1>4, <1>a DEF ReadSettings
  <2> HIDE DEF wait
  <2>3. command' \in [Handlers -> Record]
    BY <1>a, <2>1, <2>2, RecordUpdate
  <2> QED BY <1>4, <1>b, <2>3 DEF ReadSettings
<1>5. ASSUME NEW h \in Handlers, NEW label \in Locked, Goto(h, label)
      PROVE  command' \in [Handlers -> Record]
  <2>1. command' = [command EXCEPT ![h] = [command[h] EXCEPT !.pc = label]]
    BY <1>5, <1>a DEF Goto
  <2> QED BY <1>a, <2>1, RecordUpdate
<1>6. ASSUME NEW h \in Handlers, SettingsUnreadable(h) \/ Work(h) PROVE TypeOK'
  <2>1. command' \in [Handlers -> Record]
    BY <1>5, <1>6 DEF SettingsUnreadable, Work, Locked
  <2> QED BY <1>6, <1>b, <2>1 DEF SettingsUnreadable, Work
<1>7. ASSUME NEW h \in Handlers, ReadClock(h) PROVE TypeOK'
  <2>1. now \in 0 .. now
    BY <1>a
  <2>2. command' = [command EXCEPT ![h] = [command[h] EXCEPT !.clock = now, !.pc = "consume"]]
    BY <1>7, <1>a DEF ReadClock
  <2>3. command' \in [Handlers -> Record]
    BY <1>a, <2>1, <2>2, RecordUpdate
  <2> QED BY <1>7, <1>b, <2>3 DEF ReadClock
<1>8. ASSUME NEW h \in Handlers, Consume(h) PROVE TypeOK'
  <2>1. command' \in [Handlers -> Record]
    BY <1>5, <1>8 DEF Consume, Locked
  <2>2. command[h].clock \in 0 .. now /\ command[h].wait \in 0 .. MaxCooldown
    BY <1>a DEF Record
  <2>3. command[h].clock + command[h].wait \in 0 .. now + MaxCooldown
    BY <1>a, <2>2
  <2>4. until' \in [Guards -> 0 .. now + MaxCooldown]
    BY <1>8, <2>3 DEF Consume
  <2>5. drawn' \in [Rooms -> [at : 0 .. now, wait : 0 .. MaxCooldown]]
    BY <1>8, <2>2 DEF Consume
  <2> QED BY <1>8, <1>b, <2>1, <2>4, <2>5 DEF Consume
<1>9. ASSUME NEW h \in Handlers, StoreSetting(h) \/ ResetSettings(h) PROVE TypeOK'
  <2>1. command' \in [Handlers -> Record]
    BY <1>5, <1>9 DEF StoreSetting, ResetSettings, Locked
  <2>2. setting' \in [Rooms -> Kept]
    BY <1>9 DEF StoreSetting, ResetSettings, Kept
  <2> QED BY <1>9, <1>b, <2>1, <2>2 DEF StoreSetting, ResetSettings
<1>10. ASSUME NEW h \in Handlers, Unlock(h) PROVE TypeOK'
  <2>1. command' \in [Handlers -> Record]
    BY <1>10, <1>a DEF Unlock
  <2>2. holder' \in [Guards -> Handlers \cup {Nobody}]
    BY <1>10 DEF Unlock
  <2> QED BY <1>10, <1>b, <2>1, <2>2 DEF Unlock
<1>11. CASE Tick
  <2>1. now' = now + 1 /\ UNCHANGED <<guards, holder, until, setting, command, drawn>>
    BY <1>11 DEF Tick
  <2>2. 0 .. now \subseteq 0 .. now' /\ 0 .. now + MaxCooldown \subseteq 0 .. now' + MaxCooldown
    BY <1>a, <2>1
  <2>3. Record \subseteq Record'
    BY <2>2 DEF Record
  <2>4. command' \in [Handlers -> Record']
    BY <1>a, <2>1, <2>3
  <2>5. until' \in [Guards -> 0 .. now' + MaxCooldown]
    BY <2>1, <2>2
  <2>6. drawn' \in [Rooms -> [at : 0 .. now', wait : 0 .. MaxCooldown]]
    BY <2>1, <2>2
  <2> QED BY <1>a, <2>1, <2>4, <2>5, <2>6 DEF Record
<1>12. CASE Restart
  <2>1. NeverDrawn \in [at : 0 .. now, wait : 0 .. MaxCooldown]
    BY <1>a DEF NeverDrawn
  <2>2. 0 \in 0 .. now + MaxCooldown
    BY <1>a
  <2> QED BY <1>12, <1>a, <1>b, <2>1, <2>2 DEF Restart
<1>13. CASE UNCHANGED vars
  BY <1>13 DEF vars
<1> QED BY <1>1, <1>2, <1>3, <1>4, <1>6, <1>7, <1>8, <1>9, <1>10, <1>11, <1>12, <1>13
        DEF Next, Step

LEMMA TypeInit == Init => TypeOK
<1> SUFFICES ASSUME Init PROVE TypeOK
  OBVIOUS
<1>1. Idle \in Record
  BY IdleType DEF Init
<1>2. NeverDrawn \in [at : 0 .. now, wait : 0 .. MaxCooldown]
  BY CooldownsValid DEF Init, NeverDrawn
<1>3. 0 \in 0 .. now + MaxCooldown
  BY CooldownsValid DEF Init
<1> QED
  BY <1>1, <1>2, <1>3, CooldownsValid DEF Init, TypeOK, Record

-----------------------------------------------------------------------------
(* The guards of the rooms and those who hold them.                         *)

\* A step of a handler leaves the commands of the others alone and never moves
\* its own to another room; only Get gives it a guard.
LEMMA StepOfOne ==
    ASSUME TypeOK, NEW h \in Handlers, Step(h)
    PROVE  /\ \A o \in Handlers \ {h} : command'[o] = command[o]
           /\ command'[h] # Idle => command'[h].room = command[h].room
           /\ command'[h] # Idle /\ ~Get(h) => command'[h].guard = command[h].guard
<1> USE DEF TypeOK
<1>1. CASE Get(h)
  <2>1. PICK g : command' = [command EXCEPT ![h].guard = g, ![h].pc = "trylock"]
    BY <1>1 DEF Get
  <2>2. command' = [command EXCEPT ![h] = [command[h] EXCEPT !.guard = g, !.pc = "trylock"]]
    BY <2>1
  <2> QED BY <1>1, <2>2
<1>2. CASE TryLock(h)
  BY <1>2 DEF TryLock, Goto
<1>3. CASE ReadSettings(h) \/ ReadClock(h)
  BY <1>3 DEF ReadSettings, ReadClock
<1>4. CASE Unlock(h)
  BY <1>4 DEF Unlock
<1>5. ASSUME NEW label, Goto(h, label)
      PROVE  /\ \A o \in Handlers \ {h} : command'[o] = command[o]
             /\ command'[h].room = command[h].room
             /\ command'[h].guard = command[h].guard
  BY <1>5 DEF Goto
<1>6. CASE SettingsUnreadable(h) \/ Consume(h) \/ StoreSetting(h) \/ ResetSettings(h) \/ Work(h)
  BY <1>5, <1>6 DEF SettingsUnreadable, Consume, StoreSetting, ResetSettings, Work
<1> QED
  BY <1>1, <1>2, <1>3, <1>4, <1>6 DEF Step

\* What Get does to the map: nothing where there was an entry.
LEMMA GetEffect ==
    ASSUME TypeOK, NEW h \in Handlers, Get(h)
    PROVE  LET room == command[h].room
               g    == command'[h].guard
           IN  /\ room \in Rooms /\ g \in Guards
               /\ guards' = [guards EXCEPT ![room] = g]
               /\ guards[room] = NoGuard \/ guards[room] = g
               /\ guards[room] = NoGuard => \A r \in Rooms : guards[r] # g
               /\ command'[h].pc = "trylock" /\ command'[h].room = room
BY NoGuardNoObject DEF TypeOK, Get, Unused, At

\* The steps of a handler between TryLock and Unlock.
Inside(h) ==
    \/ ReadSettings(h) \/ SettingsUnreadable(h) \/ ReadClock(h) \/ Consume(h)
    \/ StoreSetting(h) \/ ResetSettings(h) \/ Work(h)

LEMMA InsideEffect ==
    ASSUME TypeOK, NEW h \in Handlers, Inside(h)
    PROVE  /\ UNCHANGED <<guards, holder>>
           /\ command[h].pc \in Locked
           /\ command'[h].room = command[h].room
           /\ command'[h].guard = command[h].guard
<1> USE DEF TypeOK, At, Locked
<1>1. CASE ReadSettings(h) \/ ReadClock(h)
  BY <1>1 DEF ReadSettings, ReadClock
<1>2. ASSUME NEW label, Goto(h, label)
      PROVE  /\ command'[h].room = command[h].room
             /\ command'[h].guard = command[h].guard
  BY <1>2 DEF Goto
<1>3. CASE SettingsUnreadable(h) \/ StoreSetting(h) \/ ResetSettings(h) \/ Work(h)
  BY <1>2, <1>3 DEF SettingsUnreadable, StoreSetting, ResetSettings, Work
<1>4. CASE Consume(h)
  BY <1>2, <1>4 DEF Consume
<1> QED
  BY <1>1, <1>3, <1>4 DEF Inside

LEMMA CurrentStep == TypeOK /\ GuardsCurrent /\ [Next]_vars => GuardsCurrent'
<1> SUFFICES ASSUME TypeOK, GuardsCurrent, [Next]_vars PROVE GuardsCurrent'
  OBVIOUS
<1>idle. Idle.pc \notin Locked \cup {"trylock"}
  BY DEF Idle, Locked
<1>1. ASSUME NEW h \in Handlers, NEW r \in Rooms, NEW kind \in Kinds, Arrive(h, r, kind)
      PROVE  GuardsCurrent'
  <2>1. command'[h].pc \notin Locked \cup {"trylock"}
    BY <1>1 DEF Arrive, TypeOK, Idle, Locked
  <2>2. \A o \in Handlers \ {h} : command'[o] = command[o]
    BY <1>1 DEF Arrive, TypeOK
  <2> QED
    BY <1>1, <2>1, <2>2 DEF Arrive, GuardsCurrent
<1>2. ASSUME NEW h \in Handlers, Get(h) PROVE GuardsCurrent'
  <2> DEFINE room == command[h].room
             g    == command'[h].guard
  <2>1. /\ room \in Rooms /\ g \in Guards
        /\ guards' = [guards EXCEPT ![room] = g]
        /\ guards[room] = NoGuard \/ guards[room] = g
        /\ command'[h].pc = "trylock" /\ command'[h].room = room
    BY <1>2, GetEffect
  <2>2. \A o \in Handlers \ {h} : command'[o] = command[o]
    BY <1>2, StepOfOne DEF Step
  <2>3. \A r \in Rooms : guards[r] # NoGuard => guards'[r] = guards[r]
    BY <2>1 DEF TypeOK
  <2>4. \A o \in Handlers : command[o].room \in Rooms
    BY DEF TypeOK
  <2>5. guards'[room] = g /\ g # NoGuard
    BY <2>1, NoGuardNoObject DEF TypeOK
  <2>6. UNCHANGED holder
    BY <1>2 DEF Get
  <2>7. "trylock" \notin Locked
    BY DEF Locked
  <2> HIDE DEF room, g
  <2> QED
    BY <2>1, <2>2, <2>3, <2>4, <2>5, <2>6, <2>7 DEF GuardsCurrent, room, g
<1>3. ASSUME NEW h \in Handlers, TryLock(h) PROVE GuardsCurrent'
  <2>1. \A o \in Handlers \ {h} : command'[o] = command[o]
    BY <1>3, StepOfOne DEF Step
  <2>2. UNCHANGED guards
    BY <1>3 DEF TryLock
  <2>3. CASE command' = [command EXCEPT ![h] = Idle] /\ UNCHANGED holder
    <3>1. command'[h] = Idle
      BY <2>3 DEF TypeOK
    <3> QED
      BY <1>idle, <2>1, <2>2, <2>3, <3>1 DEF GuardsCurrent
  <2>4. CASE /\ holder[command[h].guard] = Nobody
             /\ holder' = [holder EXCEPT ![command[h].guard] = h]
             /\ Goto(h, AfterLock(command[h].kind))
    <3>1. command[h].pc = "trylock"
      BY <1>3 DEF TryLock, At
    <3>2. /\ command'[h].room = command[h].room
          /\ command'[h].guard = command[h].guard
      BY <2>4 DEF Goto, TypeOK
    <3>3. /\ guards[command[h].room] # NoGuard
          /\ command[h].guard = guards[command[h].room]
          /\ command[h].guard \in Guards
      BY <3>1 DEF GuardsCurrent, TypeOK
    <3>4. holder'[command[h].guard] = h
      BY <2>4, <3>3 DEF TypeOK
    <3>5. ASSUME NEW o \in Handlers \ {h}, command[o].pc \in Locked
          PROVE  holder'[command[o].guard] = o
      <4>1. /\ holder[command[o].guard] = o /\ command[o].guard \in Guards
        BY <3>5 DEF GuardsCurrent, TypeOK
      <4>2. command[o].guard # command[h].guard
        BY <2>4, <4>1, NobodyNoHandler
      <4> QED
        BY <2>4, <4>1, <4>2 DEF TypeOK
    <3> QED
      BY <2>1, <2>2, <3>2, <3>3, <3>4, <3>5 DEF GuardsCurrent
  <2> QED
    BY <1>3, <2>3, <2>4 DEF TryLock
<1>4. ASSUME NEW h \in Handlers, Unlock(h) PROVE GuardsCurrent'
  <2>1. \A o \in Handlers \ {h} : command'[o] = command[o]
    BY <1>4, StepOfOne DEF Step
  <2>2. command'[h] = Idle /\ UNCHANGED guards
    BY <1>4 DEF Unlock, TypeOK
  <2>3. holder[command[h].guard] = h
    BY <1>4 DEF Unlock, At, GuardsCurrent, Locked
  <2>4. ASSUME NEW o \in Handlers \ {h}, command[o].pc \in Locked
        PROVE  holder'[command[o].guard] = o
    <3>1. holder[command[o].guard] = o /\ command[o].guard \in Guards
      BY <2>4 DEF GuardsCurrent, TypeOK
    <3>2. command[o].guard # command[h].guard
      BY <2>3, <3>1
    <3> QED
      BY <1>4, <3>1, <3>2 DEF Unlock, TypeOK
  <2> QED
    BY <1>idle, <2>1, <2>2, <2>4 DEF GuardsCurrent
<1>5. ASSUME NEW h \in Handlers, Inside(h) PROVE GuardsCurrent'
  <2>1. \A o \in Handlers \ {h} : command'[o] = command[o]
    BY <1>5, StepOfOne DEF Step, Inside
  <2> QED
    BY <1>5, <2>1, InsideEffect DEF GuardsCurrent
<1>6. CASE Tick
  BY <1>6 DEF Tick, GuardsCurrent
<1>7. CASE Restart
  BY <1>7, <1>idle DEF Restart, GuardsCurrent
<1>8. CASE UNCHANGED vars
  BY <1>8 DEF vars, GuardsCurrent
<1> QED
  BY <1>1, <1>2, <1>3, <1>4, <1>5, <1>6, <1>7, <1>8 DEF Next, Step, Inside

LEMMA DistinctStep == TypeOK /\ GuardsDistinct /\ [Next]_vars => GuardsDistinct'
<1> SUFFICES ASSUME TypeOK, GuardsDistinct, [Next]_vars PROVE GuardsDistinct'
  OBVIOUS
<1>1. ASSUME NEW h \in Handlers, Get(h) PROVE GuardsDistinct'
  <2> DEFINE room == command[h].room
             g    == command'[h].guard
  <2>1. /\ room \in Rooms /\ g \in Guards
        /\ guards' = [guards EXCEPT ![room] = g]
        /\ guards[room] = NoGuard \/ guards[room] = g
        /\ guards[room] = NoGuard => \A r \in Rooms : guards[r] # g
    BY <1>1, GetEffect
  <2> HIDE DEF room, g
  <2>2. CASE guards[room] = g
    BY <2>1, <2>2 DEF GuardsDistinct, TypeOK
  <2>3. CASE guards[room] = NoGuard
    BY <2>1, <2>3 DEF GuardsDistinct, TypeOK
  <2> QED
    BY <2>1, <2>2, <2>3
<1>2. CASE UNCHANGED guards
  BY <1>2 DEF GuardsDistinct
<1>3. CASE Restart
  BY <1>3 DEF Restart, GuardsDistinct
<1>4. ASSUME NEW h \in Handlers, Inside(h) PROVE UNCHANGED guards
  BY <1>4, InsideEffect
<1> QED
  BY <1>1, <1>2, <1>3, <1>4 DEF Next, Step, Inside, Arrive, TryLock, Unlock, Tick, vars

-----------------------------------------------------------------------------
(* The cooldowns.                                                           *)

\* A draw that is let through, as Consume lets it, starts its cooldown on the
\* guard of its own room and leaves those of the others alone.
LetThrough(h) ==
    LET c == command[h]
    IN  /\ c.room \in Rooms /\ guards[c.room] \in Guards
        /\ c.clock >= until[guards[c.room]]
        /\ until' = [until EXCEPT ![guards[c.room]] = c.clock + c.wait]
        /\ drawn' = [drawn EXCEPT ![c.room] = [at |-> c.clock, wait |-> c.wait]]
        /\ \A r \in Rooms \ {c.room} : guards[r] # guards[c.room]

LEMMA ConsumeEffect ==
    ASSUME TypeOK, GuardsCurrent, GuardsDistinct, NEW h \in Handlers, Consume(h)
    PROVE  UNCHANGED guards /\ (UNCHANGED <<until, drawn>> \/ LetThrough(h))
<1>1. command[h].pc \in Locked
  BY DEF Consume, At, Locked
<1>2. /\ guards[command[h].room] # NoGuard
      /\ command[h].guard = guards[command[h].room]
  BY <1>1 DEF GuardsCurrent
<1>3. command[h].room \in Rooms /\ guards[command[h].room] \in Guards
  BY <1>2 DEF TypeOK
<1> QED
  BY <1>2, <1>3 DEF Consume, GuardsDistinct, LetThrough

LEMMA CooldownStep ==
    IInv /\ [Next]_vars => CooldownOfLastDraw' /\ UnusedAreNew'
<1> SUFFICES ASSUME TypeOK, GuardsCurrent, GuardsDistinct, CooldownOfLastDraw, UnusedAreNew,
                    [Next]_vars
             PROVE  CooldownOfLastDraw' /\ UnusedAreNew'
  BY DEF IInv
<1>1. ASSUME NEW h \in Handlers, Get(h) PROVE CooldownOfLastDraw' /\ UnusedAreNew'
  <2> DEFINE room == command[h].room
             g    == command'[h].guard
  <2>1. /\ room \in Rooms /\ g \in Guards
        /\ guards' = [guards EXCEPT ![room] = g]
        /\ guards[room] = NoGuard \/ guards[room] = g
        /\ guards[room] = NoGuard => \A r \in Rooms : guards[r] # g
    BY <1>1, GetEffect
  <2> HIDE DEF room, g
  <2>2. UNCHANGED <<until, drawn>>
    BY <1>1 DEF Get
  <2>3. CASE guards[room] = g
    BY <2>1, <2>2, <2>3 DEF CooldownOfLastDraw, UnusedAreNew, Unused, TypeOK
  <2>4. CASE guards[room] = NoGuard
    <3>1. g # NoGuard /\ until[g] = 0 /\ drawn[room] = NeverDrawn
      BY <2>1, <2>4, NoGuardNoObject DEF UnusedAreNew, Unused, CooldownOfLastDraw
    <3>2. until[g] = drawn[room].at + drawn[room].wait
      BY <3>1 DEF NeverDrawn
    <3>3. \A r \in Rooms : guards'[r] = IF r = room THEN g ELSE guards[r]
      BY <2>1 DEF TypeOK
    <3>4. CooldownOfLastDraw'
      BY <2>1, <2>2, <3>1, <3>2, <3>3 DEF CooldownOfLastDraw
    <3>5. \A o \in Guards : (\A r \in Rooms : guards'[r] # o) => \A r \in Rooms : guards[r] # o
      BY <2>1, <2>4, <3>3, NoGuardNoObject
    <3> QED
      BY <2>2, <3>4, <3>5 DEF UnusedAreNew, Unused
  <2> QED
    BY <2>1, <2>3, <2>4
<1>2. CASE UNCHANGED <<guards, until, drawn>>
  BY <1>2 DEF CooldownOfLastDraw, UnusedAreNew, Unused
<1>3. ASSUME NEW h \in Handlers, Consume(h) PROVE CooldownOfLastDraw' /\ UnusedAreNew'
  <2>1. CASE UNCHANGED <<until, drawn>>
    BY <1>2, <1>3, <2>1, ConsumeEffect
  <2>2. CASE LetThrough(h)
    <3> DEFINE c == command[h]
    <3>1. /\ c.room \in Rooms /\ guards[c.room] \in Guards
          /\ until' = [until EXCEPT ![guards[c.room]] = c.clock + c.wait]
          /\ drawn' = [drawn EXCEPT ![c.room] = [at |-> c.clock, wait |-> c.wait]]
          /\ \A r \in Rooms \ {c.room} : guards[r] # guards[c.room]
      BY <2>2 DEF LetThrough
    <3>2. UNCHANGED guards
      BY <1>3, ConsumeEffect
    <3> HIDE DEF c
    <3>3. ASSUME NEW r \in Rooms
          PROVE  /\ guards[r] = NoGuard => drawn'[r] = NeverDrawn
                 /\ guards[r] # NoGuard => until'[guards[r]] = drawn'[r].at + drawn'[r].wait
      <4>1. CASE r = c.room
        BY <3>1, <4>1, NoGuardNoObject DEF TypeOK
      <4>2. CASE r # c.room
        BY <3>1, <4>2 DEF CooldownOfLastDraw, TypeOK
      <4> QED
        BY <4>1, <4>2
    <3>4. \A g \in Unused : until'[g] = until[g]
      BY <3>1 DEF Unused, TypeOK
    <3> QED
      BY <3>2, <3>3, <3>4 DEF CooldownOfLastDraw, UnusedAreNew, Unused
  <2> QED
    BY <1>3, <2>1, <2>2, ConsumeEffect
<1>4. CASE Restart
  BY <1>4 DEF Restart, CooldownOfLastDraw, UnusedAreNew, Unused
<1> QED
  BY <1>1, <1>2, <1>3, <1>4 DEF Next, Step, Arrive, TryLock, ReadSettings,
     SettingsUnreadable, ReadClock, StoreSetting, ResetSettings, Work, Unlock, Tick, vars

LEMMA CurrentCooldownStep ==
    TypeOK /\ GuardsCurrent /\ CooldownIsCurrent /\ [Next]_vars => CooldownIsCurrent'
<1> SUFFICES ASSUME TypeOK, GuardsCurrent, CooldownIsCurrent, [Next]_vars
             PROVE  CooldownIsCurrent'
  OBVIOUS
<1>1. ASSUME NEW h \in Handlers, NEW r \in Rooms, NEW kind \in Kinds, Arrive(h, r, kind)
      PROVE  CooldownIsCurrent'
  <2>1. command'[h].pc = "get" /\ \A o \in Handlers \ {h} : command'[o] = command[o]
    BY <1>1 DEF Arrive, TypeOK, Idle
  <2> QED
    BY <1>1, <2>1 DEF Arrive, CooldownIsCurrent
<1>2. ASSUME NEW h \in Handlers, Step(h), UNCHANGED setting,
             command'[h].pc \notin {"clock", "consume"}
      PROVE  CooldownIsCurrent'
  BY <1>2, StepOfOne DEF CooldownIsCurrent
<1>3. ASSUME NEW h \in Handlers, ReadSettings(h) PROVE CooldownIsCurrent'
  <2>1. command'[h].wait = Effective(setting[command'[h].room]) /\ UNCHANGED setting
    BY <1>3 DEF ReadSettings, TypeOK
  <2>2. \A o \in Handlers \ {h} : command'[o] = command[o]
    BY <1>3, StepOfOne DEF Step
  <2> QED
    BY <2>1, <2>2 DEF CooldownIsCurrent
<1>4. ASSUME NEW h \in Handlers, ReadClock(h) PROVE CooldownIsCurrent'
  <2>1. /\ command[h].pc = "clock" /\ UNCHANGED setting
        /\ command'[h].wait = command[h].wait /\ command'[h].room = command[h].room
    BY <1>4 DEF ReadClock, At, TypeOK
  <2>2. \A o \in Handlers \ {h} : command'[o] = command[o]
    BY <1>4, StepOfOne DEF Step
  <2> QED
    BY <2>1, <2>2 DEF CooldownIsCurrent
<1>5. ASSUME NEW h \in Handlers, NEW label, Goto(h, label) PROVE command'[h].pc = label
  BY <1>5 DEF Goto, TypeOK
<1>6. ASSUME NEW h \in Handlers, StoreSetting(h) \/ ResetSettings(h) PROVE CooldownIsCurrent'
  <2>1. command'[h].pc = "unlock"
    BY <1>5, <1>6 DEF StoreSetting, ResetSettings
  <2>2. command[h].pc \in Locked
    BY <1>6 DEF StoreSetting, ResetSettings, At, Locked
  <2>3. \A r \in Rooms \ {command[h].room} : setting'[r] = setting[r]
    BY <1>6 DEF StoreSetting, ResetSettings, TypeOK
  <2>4. ASSUME NEW o \in Handlers \ {h}, command[o].pc \in {"clock", "consume"}
        PROVE  command[o].room \in Rooms \ {command[h].room}
    <3>1. command[o].pc \in Locked
      BY <2>4 DEF Locked
    <3> QED
      BY <2>2, <3>1 DEF GuardsCurrent, TypeOK
  <2>5. \A o \in Handlers \ {h} : command'[o] = command[o]
    BY <1>6, StepOfOne DEF Step
  <2> QED
    BY <2>1, <2>3, <2>4, <2>5 DEF CooldownIsCurrent
<1>7. ASSUME NEW h \in Handlers, Get(h)
      PROVE  CooldownIsCurrent'
  <2>1. command'[h].pc = "trylock"
    BY <1>7, GetEffect
  <2> QED
    BY <1>2, <1>7, <2>1 DEF Get, Step
<1>8. ASSUME NEW h \in Handlers, TryLock(h) PROVE CooldownIsCurrent'
  <2>1. command'[h].pc \notin {"clock", "consume"}
    BY <1>5, <1>8 DEF TryLock, AfterLock, TypeOK, Kinds, Idle
  <2> QED
    BY <1>2, <1>8, <2>1 DEF TryLock, Step
<1>9. ASSUME NEW h \in Handlers,
             SettingsUnreadable(h) \/ Consume(h) \/ Work(h) \/ Unlock(h)
      PROVE  CooldownIsCurrent'
  <2>1. command'[h].pc \notin {"clock", "consume"} /\ UNCHANGED setting
    BY <1>5, <1>9 DEF SettingsUnreadable, Consume, Work, Unlock, TypeOK, Idle
  <2> QED
    BY <1>2, <1>9, <2>1 DEF Step
<1>10. CASE Tick \/ UNCHANGED vars
  BY <1>10 DEF Tick, vars, CooldownIsCurrent
<1>11. CASE Restart
  BY <1>11 DEF Restart, CooldownIsCurrent, Idle
<1> QED
  BY <1>1, <1>3, <1>4, <1>6, <1>7, <1>8, <1>9, <1>10, <1>11 DEF Next, Step

-----------------------------------------------------------------------------
(* The theorems.                                                            *)

LEMMA InitIInv == Init => IInv
<1> SUFFICES ASSUME Init PROVE IInv
  OBVIOUS
<1>1. GuardsCurrent
  BY DEF Init, GuardsCurrent, Idle, Locked
<1> QED
  BY <1>1, TypeInit DEF Init, IInv, GuardsDistinct, CooldownOfLastDraw, UnusedAreNew, Unused

LEMMA Inductive == Spec => []IInv
<1>1. IInv /\ [Next]_vars => IInv'
  BY TypeStep, CurrentStep, DistinctStep, CooldownStep DEF IInv
<1> QED
  BY InitIInv, <1>1, PTL DEF Spec

\* The types of the guards, the cooldowns and the commands hold for every number
\* of rooms and handlers; no room is blocked for longer than MaxCooldown.
THEOREM TypeCorrect == Spec => []TypeOK
<1>1. IInv => TypeOK
  BY DEF IInv
<1> QED
  BY Inductive, <1>1, PTL

\* Two handlers that are past the TryLock of one room would hold one guard.
THEOREM Exclusive == Spec => []OneCommandPerRoom
<1>1. IInv => OneCommandPerRoom
  BY DEF IInv, GuardsCurrent, OneCommandPerRoom
<1> QED
  BY Inductive, <1>1, PTL

\* The settings of a room change under the lock that the reader holds.
THEOREM CooldownCurrent == Spec => []CooldownIsCurrent
<1>1. Init => CooldownIsCurrent
  BY DEF Init, CooldownIsCurrent, Idle
<1>2. IInv /\ CooldownIsCurrent /\ [Next]_vars => CooldownIsCurrent'
  BY CurrentCooldownStep DEF IInv
<1> QED
  BY Inductive, <1>1, <1>2, PTL DEF Spec

\* A draw is let through by the guard that the last draw of its room left its
\* cooldown on.
THEOREM DrawsAreSpaced == Spec => DrawsSpaced
<1> DEFINE Spaced ==
             \A r \in Rooms : drawn'[r] # drawn[r] /\ drawn'[r] # NeverDrawn =>
                drawn'[r].at >= drawn[r].at + drawn[r].wait
<1>1. ASSUME IInv, Next PROVE Spaced
  <2>1. CASE UNCHANGED drawn
    BY <2>1
  <2>2. ASSUME NEW h \in Handlers, Consume(h), LetThrough(h) PROVE Spaced
    <3> DEFINE c == command[h]
    <3>1. /\ c.room \in Rooms /\ guards[c.room] \in Guards /\ c.clock \in Nat
          /\ c.clock >= until[guards[c.room]]
          /\ drawn' = [drawn EXCEPT ![c.room] = [at |-> c.clock, wait |-> c.wait]]
      BY <1>1, <2>2 DEF LetThrough, IInv, TypeOK
    <3> HIDE DEF c
    <3> QED
      BY <1>1, <3>1, NoGuardNoObject DEF IInv, CooldownOfLastDraw, TypeOK
  <2>3. CASE Restart
    BY <2>3 DEF Restart
  <2> QED
    BY <1>1, <2>1, <2>2, <2>3, ConsumeEffect
    DEF IInv, Next, Step, Arrive, Get, TryLock, ReadSettings, SettingsUnreadable, ReadClock,
        StoreSetting, ResetSettings, Work, Unlock, Tick
<1>2. IInv /\ [Next]_vars => [Spaced]_vars
  BY <1>1
<1> QED
  BY Inductive, <1>2, PTL DEF Spec, DrawsSpaced

\* Only Consume sends a handler from the cooldown to its unlock, and it compares
\* the time with an end that GuardsCurrent and CooldownOfLastDraw make the one of
\* the last draw.
THEOREM RefusalsAreJustified == Spec => RefusedOnlyInCooldown
<1> DEFINE Justified ==
             \A h \in Handlers : At(h, "consume") /\ command'[h].pc = "unlock" =>
                LET last == drawn[command[h].room]
                IN  command[h].clock < last.at + last.wait
<1>1. ASSUME IInv, Next, NEW h \in Handlers, At(h, "consume"), command'[h].pc = "unlock"
      PROVE  command[h].clock < drawn[command[h].room].at + drawn[command[h].room].wait
  <2>1. command[h].pc = "consume" /\ command'[h] # command[h]
    BY <1>1 DEF At
  <2>2. Consume(h)
    <3>1. ASSUME NEW o \in Handlers, NEW r \in Rooms, NEW kind \in Kinds, Arrive(o, r, kind)
          PROVE  FALSE
      BY <1>1, <2>1, <3>1 DEF Arrive, At, Idle, IInv, TypeOK
    <3>2. ASSUME NEW o \in Handlers, Step(o) PROVE o = h
      BY <2>1, <1>1, <3>2, StepOfOne DEF IInv
    <3>3. ~Tick
      BY <2>1 DEF Tick
    <3>4. ~Restart
      BY <1>1 DEF Restart, Idle
    <3>5. Step(h)
      BY <1>1, <3>1, <3>2, <3>3, <3>4 DEF Next
    <3> QED
      BY <2>1, <3>5 DEF Step, Get, TryLock, ReadSettings, SettingsUnreadable, ReadClock,
                        StoreSetting, ResetSettings, Work, Unlock, At
  <2>3. command[h].clock < until[command[h].guard]
    <3>1. "work" # "unlock"
      OBVIOUS
    <3> QED
      BY <1>1, <2>2 DEF Consume, Goto, IInv, TypeOK
  <2>4. /\ guards[command[h].room] # NoGuard
        /\ command[h].guard = guards[command[h].room]
        /\ command[h].room \in Rooms
    BY <1>1, <2>1 DEF IInv, GuardsCurrent, Locked, TypeOK
  <2> QED
    BY <1>1, <2>3, <2>4 DEF IInv, CooldownOfLastDraw
<1>2. IInv /\ [Next]_vars => [Justified]_vars
  BY <1>1
<1> QED
  BY Inductive, <1>2, PTL DEF Spec, RefusedOnlyInCooldown
===============================================================================
