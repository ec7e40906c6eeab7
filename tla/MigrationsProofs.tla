--------------------------- MODULE MigrationsProofs ---------------------------
(****************************************************************************)
(* Proofs about Migrations, for any number of processes and of failures and *)
(* every unmigrated database.  What a start has done so far is not visible  *)
(* in the properties: the strengthening says it of every process, for the   *)
(* database as that process sees it.                                        *)
(****************************************************************************)
EXTENDS Migrations, TLAPS

-----------------------------------------------------------------------------
(* The strengthening.                                                       *)

Labels == {"down", "check", "statement", "record", "commit", "serving"}

TypeInv ==
    /\ db \in Contents
    /\ tx \in Contents \cup {None}
    /\ owner \in Processes \cup {None}
    /\ reading \in SUBSET Processes
    /\ pc \in [Processes -> Labels]
    /\ at \in [Processes -> Nat \ {0}]
    /\ stmt \in [Processes -> Nat \ {0}]
    /\ earned \in Int
    /\ faults \in Nat

\* A statement has had its effect on a database.
Done(s, d) ==
    IF s = Backfill THEN d.delta = earned ELSE s.thing \in d.schema

FileDone(v, d) == \A i \in DOMAIN Files[v] : Done(Files[v][i], d)

\* What is recorded has been applied, in order, and the rating is where the old
\* schema or the new one keeps it.
Sound(d) ==
    /\ \A v \in d.versions : 1 .. v \subseteq d.versions /\ FileDone(v, d)
    /\ d.rating = earned
    /\ d.delta \in {0, earned}

\* The files before a process's place are recorded, and the statements before
\* its statement are done.
Reached(p) ==
    /\ pc[p] = "down" => at[p] = 1
    /\ pc[p] \in {"check", "statement", "record", "commit"} =>
          /\ at[p] <= Len(Files) + 1
          /\ 1 .. at[p] - 1 \subseteq db.versions
    /\ pc[p] \in {"statement", "record", "commit"} => at[p] \in Versions
    /\ pc[p] = "statement" =>
          /\ stmt[p] \in DOMAIN Files[at[p]]
          /\ \A i \in 1 .. stmt[p] - 1 : Done(Files[at[p]][i], View(p))
    /\ pc[p] # "statement" => stmt[p] = 1
    /\ pc[p] \in {"record", "commit"} => FileDone(at[p], View(p))
    /\ pc[p] = "commit" => owner = p /\ at[p] \in tx.versions
    /\ pc[p] = "serving" => Versions \subseteq db.versions

\* The writing transaction holds all of the database, and more.
Writing ==
    /\ tx = None <=> owner = None
    /\ tx # None =>
          /\ pc[owner] \in {"statement", "record", "commit"}
          /\ db.schema \subseteq tx.schema
          /\ db.versions \subseteq tx.versions
          /\ Sound(tx)
          /\ db.delta = earned => tx.delta = earned

IInv == TypeInv /\ Sound(db) /\ Writing /\ \A p \in Processes : Reached(p)

-----------------------------------------------------------------------------
(* Files and statements.                                                    *)

LEMMA VersionsAre == Len(Files) = 5 /\ Versions = 1 .. 5
BY DEF Versions, Files

LEMMA FileLengths ==
    \A v \in Versions :
        /\ Len(Files[v]) \in Nat \ {0}
        /\ DOMAIN Files[v] = 1 .. Len(Files[v])
<1>1. Len(Files[1]) = 4 /\ DOMAIN Files[1] = 1 .. 4
  BY DEF Files
<1>2. Len(Files[2]) = 4 /\ DOMAIN Files[2] = 1 .. 4
  BY DEF Files
<1>3. Len(Files[3]) = 2 /\ DOMAIN Files[3] = 1 .. 2
  BY DEF Files
<1>4. Len(Files[4]) = 1 /\ DOMAIN Files[4] = 1 .. 1
  BY DEF Files
<1>5. Len(Files[5]) = 1 /\ DOMAIN Files[5] = 1 .. 1
  BY DEF Files
<1> QED
  BY <1>1, <1>2, <1>3, <1>4, <1>5, VersionsAre

\* What the statements of the files name is what the schema is made of.
LEMMA ColumnsOfFiles ==
    RoomColumns \cup PlayerColumns \cup {"last_result_at"} \subseteq Everything
<1>1. \A i \in DOMAIN Files[2] : Files[2][i] # Backfill => Files[2][i].thing \in Everything
  BY VersionsAre DEF Everything, Brought
<1>2. \A i \in DOMAIN Files[3] : Files[3][i] # Backfill => Files[3][i].thing \in Everything
  BY VersionsAre DEF Everything, Brought
<1>3. \A i \in DOMAIN Files[5] : Files[5][i] # Backfill => Files[5][i].thing \in Everything
  BY VersionsAre DEF Everything, Brought
<1>4. RoomColumns \subseteq Everything
  BY <1>1 DEF Files, RoomColumns, Column, Backfill
<1>5. PlayerColumns \subseteq Everything
  BY <1>2 DEF Files, PlayerColumns, Column, Backfill
<1>6. "last_result_at" \in Everything
  BY <1>3 DEF Files, Column, Backfill
<1> QED
  BY <1>4, <1>5, <1>6

LEMMA StatementsOfFiles ==
    \A v \in Versions : \A i \in DOMAIN Files[v] :
        /\ Files[v][i] # Backfill => Files[v][i].thing \in Everything
        /\ Files[v][i].brings \subseteq Everything
<1>1. \A v \in Versions : \A i \in DOMAIN Files[v] :
          Files[v][i] # Backfill => Files[v][i].thing \in Everything
  BY DEF Everything, Brought
<1>2. \A v \in Versions : \A i \in DOMAIN Files[v] :
          Files[v][i].brings \in {RoomColumns \cup {"last_result_at"}, PlayerColumns, {}}
  <2>1. \A i \in DOMAIN Files[1] :
            Files[1][i].brings \in {RoomColumns \cup {"last_result_at"}, PlayerColumns, {}}
    BY DEF Files, Table
  <2>2. \A i \in DOMAIN Files[2] : Files[2][i].brings = {}
    BY DEF Files, Column
  <2>3. \A i \in DOMAIN Files[3] : Files[3][i].brings = {}
    BY DEF Files, Column
  <2>4. \A i \in DOMAIN Files[4] : Files[4][i].brings = {}
    BY DEF Files, Backfill
  <2>5. \A i \in DOMAIN Files[5] : Files[5][i].brings = {}
    BY DEF Files, Column
  <2> QED
    BY <2>1, <2>2, <2>3, <2>4, <2>5, VersionsAre
<1> QED
  BY <1>1, <1>2, ColumnsOfFiles

\* e holds all that d holds.
Grown(d, e) ==
    /\ d.schema \subseteq e.schema
    /\ d.versions \subseteq e.versions
    /\ d.delta = earned => e.delta = earned

LEMMA DoneStaysDone ==
    ASSUME NEW d, NEW e, Grown(d, e), NEW s, Done(s, d)
    PROVE  Done(s, e)
BY DEF Grown, Done

\* A statement keeps a database of its kind, loses nothing and has its effect.
LEMMA ExecutedIsDone ==
    ASSUME TypeInv, NEW v \in Versions, NEW i \in DOMAIN Files[v], NEW d \in Contents, Sound(d)
    PROVE  LET e == Executed(Files[v][i], d)
           IN  e \in Contents /\ Sound(e) /\ Grown(d, e) /\ Done(Files[v][i], e)
<1> DEFINE s == Files[v][i]
           e == Executed(s, d)
<1>1. e \in Contents /\ e.versions = d.versions /\ e.rating = d.rating
      /\ d.schema \subseteq e.schema /\ e.delta \in {0, earned}
      /\ (d.delta = earned => e.delta = earned)
      /\ Done(s, e)
  <2>1. CASE s = Backfill
    BY <2>1 DEF Executed, Contents, Sound, Done
  <2>2. CASE s # Backfill
    <3>1. s.thing \in Everything /\ s.brings \subseteq Everything
      BY <2>2, StatementsOfFiles
    <3>2. CASE s.thing \in d.schema
      BY <2>2, <3>2 DEF Executed, Sound, Done
    <3>3. CASE s.thing \notin d.schema
      BY <2>2, <3>1, <3>3 DEF Executed, Contents, Sound, Done
    <3> QED
      BY <3>2, <3>3
  <2> QED
    BY <2>1, <2>2
<1>2. Grown(d, e)
  BY <1>1 DEF Grown
<1>3. Sound(e)
  BY <1>1, <1>2, DoneStaysDone DEF Sound, FileDone
<1> QED
  BY <1>1, <1>2, <1>3

\* A database in which a file is done, and all those before it recorded, stays
\* sound when that file is recorded.
LEMMA AppliedIsSound ==
    ASSUME NEW p \in Processes, at[p] \in Versions, NEW d \in Contents, Sound(d),
           1 .. at[p] - 1 \subseteq d.versions, FileDone(at[p], d)
    PROVE  /\ Applied(p, d) \in Contents
           /\ Sound(Applied(p, d))
           /\ Grown(d, Applied(p, d))
           /\ at[p] \in Applied(p, d).versions
<1> DEFINE e == Applied(p, d)
<1>1. e \in Contents /\ e.versions = d.versions \cup {at[p]} /\ e.schema = d.schema
      /\ e.rating = d.rating /\ e.delta = d.delta
  BY DEF Applied, Contents
<1>2. Grown(d, e)
  BY <1>1 DEF Grown
<1>3. ASSUME NEW v \in e.versions PROVE 1 .. v \subseteq e.versions /\ FileDone(v, e)
  <2>1. CASE v \in d.versions
    BY <1>1, <1>2, <2>1, DoneStaysDone DEF Sound, FileDone
  <2>2. CASE v = at[p]
    <3>1. 1 .. v \subseteq (1 .. at[p] - 1) \cup {at[p]}
      BY <2>2, VersionsAre
    <3>2. FileDone(v, e)
      BY <1>2, <2>2, DoneStaysDone DEF FileDone
    <3> QED
      BY <1>1, <3>1, <3>2
  <2> QED
    BY <1>1, <2>1, <2>2
<1> QED
  BY <1>1, <1>2, <1>3 DEF Sound

-----------------------------------------------------------------------------
(* What a step does to the processes that do not make it.                   *)

LEMMA ViewIsSound ==
    ASSUME IInv, NEW p \in Processes
    PROVE  View(p) \in Contents /\ Sound(View(p)) /\ Grown(db, View(p))
BY NoneIsNobody DEF IInv, TypeInv, Writing, View, Grown

LEMMA ReachedKept ==
    ASSUME NEW q \in Processes, Reached(q),
           pc'[q] = pc[q], at'[q] = at[q], stmt'[q] = stmt[q], earned' = earned,
           db.versions \subseteq db'.versions,
           Grown(View(q), View(q)'),
           owner = q => owner' = q /\ tx.versions \subseteq tx'.versions
    PROVE  Reached(q)'
<1>1. \A s : Done(s, View(q)) => Done(s, View(q))'
  BY DEF Done, Grown
<1>2. \A v : FileDone(v, View(q)) => FileDone(v, View(q))'
  BY <1>1 DEF FileDone
<1> QED
  BY <1>1, <1>2 DEF Reached

\* Nobody but p changes place.
Others(p) ==
    \A q \in Processes \ {p} : pc'[q] = pc[q] /\ at'[q] = at[q] /\ stmt'[q] = stmt[q]

\* p asks, and changes nothing but its own place.
LEMMA LookingStep ==
    ASSUME IInv, NEW p \in Processes, pc[p] \in {"down", "check"}, Others(p),
           UNCHANGED <<db, tx, owner, reading, earned, faults>>
    PROVE  Sound(db)' /\ Writing' /\ \A q \in Processes \ {p} : Reached(q)'
<1>1. Sound(db)'
  BY DEF IInv, Sound, FileDone, Done
<1>2. Writing'
  <2>1. owner # p
    BY NoneIsNobody DEF IInv, Writing
  <2>2. owner \in Processes => pc'[owner] = pc[owner]
    BY <2>1 DEF Others
  <2> QED
    BY <2>2 DEF IInv, TypeInv, Writing, Sound, FileDone, Done
<1>3. ASSUME NEW q \in Processes \ {p} PROVE Reached(q)'
  <2>1. Grown(View(q), View(q)')
    BY DEF View, Grown
  <2> QED
    BY <2>1, ReachedKept DEF IInv, Others
<1> QED
  BY <1>1, <1>2, <1>3

\* p writes, in its transaction.
LEMMA WritingStep ==
    ASSUME IInv, NEW p \in Processes, NEW d \in Contents, Sound(d), Grown(View(p), d),
           Write(p, d), Others(p), pc'[p] \in {"statement", "record", "commit"},
           UNCHANGED <<db, earned>>
    PROVE  /\ Sound(db)' /\ Writing' /\ \A q \in Processes \ {p} : Reached(q)'
           /\ View(p)' = d
           /\ tx' \in Contents /\ owner' \in Processes /\ reading' \in SUBSET Processes
<1>1. tx' = d /\ owner' = p /\ owner \in {None, p} /\ reading' = reading \cup {p}
  BY DEF Write
<1>2. Sound(db)'
  BY DEF IInv, Sound, FileDone, Done
<1>3. Writing'
  <2>1. Grown(db, d)
    BY ViewIsSound DEF Grown
  <2>2. Sound(d)'
    BY <1>1 DEF Sound, FileDone, Done
  <2>3. d # None
    BY NoneIsNoDatabase
  <2> QED
    BY <1>1, <2>1, <2>2, <2>3, NoneIsNobody DEF Writing, Grown, Sound, FileDone, Done
<1>4. ASSUME NEW q \in Processes \ {p} PROVE Reached(q)'
  <2>1. owner # q /\ owner' # q
    BY <1>1, NoneIsNobody
  <2>2. Grown(View(q), View(q)')
    BY <2>1 DEF View, Grown
  <2> QED
    BY <2>1, <2>2, ReachedKept DEF IInv, Others
<1>5. View(p)' = d
  BY <1>1 DEF View
<1> QED
  BY <1>1, <1>2, <1>3, <1>4, <1>5 DEF IInv, TypeInv

-----------------------------------------------------------------------------
(* One lemma per action.                                                    *)

LEMMA StartStep == ASSUME IInv, NEW p \in Processes, Start(p) PROVE IInv'
<1>1. Others(p)
  BY DEF Start, Goto, Others, IInv, TypeInv
<1>2. Sound(db)' /\ Writing' /\ \A q \in Processes \ {p} : Reached(q)'
  BY <1>1, LookingStep DEF Start
<1>3. TypeInv'
  BY DEF Start, Goto, IInv, TypeInv, Labels
<1>4. Reached(p)'
  BY DEF Start, Goto, IInv, TypeInv, Reached
<1> QED
  BY <1>2, <1>3, <1>4 DEF IInv

LEMMA CheckStep == ASSUME IInv, NEW p \in Processes, Check(p) PROVE IInv'
<1>1. Others(p)
  BY DEF Check, Goto, Advance, Others, IInv, TypeInv
<1>2. Sound(db)' /\ Writing' /\ \A q \in Processes \ {p} : Reached(q)'
  BY <1>1, LookingStep DEF Check
<1>3. TypeInv'
  BY DEF Check, Goto, Advance, IInv, TypeInv, Labels
<1>4. Reached(p)'
  <2>1. CASE at[p] \in db.versions /\ Advance(p) /\ UNCHANGED pc
    <3>1. at'[p] = at[p] + 1 /\ pc'[p] = "check" /\ stmt'[p] = 1
      BY <2>1 DEF Check, Advance, IInv, TypeInv, Reached
    <3>2. 1 .. at[p] \subseteq db.versions
      BY <2>1 DEF IInv, Sound
    <3>3. at'[p] <= Len(Files) + 1 /\ 1 .. at'[p] - 1 = 1 .. at[p]
      BY <3>1, VersionsAre DEF Check, IInv, TypeInv
    <3> QED
      BY <3>1, <3>2, <3>3 DEF Check, Reached
  <2>2. CASE at[p] \notin db.versions /\ Goto(p, "statement") /\ UNCHANGED at
    <3>1. pc'[p] = "statement" /\ stmt[p] = 1
      BY <2>2 DEF Check, Goto, IInv, TypeInv, Reached
    <3>2. 1 \in DOMAIN Files[at[p]] /\ at[p] <= Len(Files) + 1 /\ 1 .. at[p] - 1 \subseteq db.versions
      BY FileLengths DEF Check, IInv, TypeInv, Reached
    <3> QED
      BY <2>2, <3>1, <3>2 DEF Check, Reached
  <2> QED
    BY <2>1, <2>2 DEF Check
<1> QED
  BY <1>2, <1>3, <1>4 DEF IInv

LEMMA ServeStep == ASSUME IInv, NEW p \in Processes, Serve(p) PROVE IInv'
<1>1. Others(p)
  BY DEF Serve, Goto, Others, IInv, TypeInv
<1>2. Sound(db)' /\ Writing' /\ \A q \in Processes \ {p} : Reached(q)'
  BY <1>1, LookingStep DEF Serve
<1>3. TypeInv'
  BY DEF Serve, Goto, IInv, TypeInv, Labels
<1>4. Reached(p)'
  <2>1. at[p] - 1 = 5
    BY VersionsAre DEF Serve, IInv, TypeInv, Reached
  <2>2. Versions \subseteq db.versions
    BY <2>1, VersionsAre DEF Serve, IInv, Reached
  <2> QED
    BY <2>2 DEF Serve, Goto, IInv, TypeInv, Reached
<1> QED
  BY <1>2, <1>3, <1>4 DEF IInv

LEMMA ExecuteStep == ASSUME IInv, NEW p \in Processes, Execute(p) PROVE IInv'
<1> DEFINE s == Statement(p)
           d == View(p)
           e == Executed(s, d)
<1>1. /\ pc[p] = "statement" /\ at[p] \in Versions /\ stmt[p] \in DOMAIN Files[at[p]]
      /\ s = Files[at[p]][stmt[p]]
      /\ d \in Contents /\ Sound(d)
  BY ViewIsSound DEF Execute, Statement, IInv, Reached
<1>2. /\ Others(p)
      /\ pc'[p] \in {"statement", "record"}
      /\ pc' \in [Processes -> Labels] /\ stmt' \in [Processes -> Nat \ {0}]
      /\ pc'[p] = "statement" => stmt'[p] = stmt[p] + 1 /\ stmt[p] < Len(Files[at[p]])
      /\ pc'[p] = "record" => stmt'[p] = 1 /\ ~(stmt[p] < Len(Files[at[p]]))
      /\ UNCHANGED <<db, at, earned, faults>>
  <2>1. CASE stmt[p] < Len(Files[at[p]])
    <3>1. stmt' = [stmt EXCEPT ![p] = @ + 1] /\ UNCHANGED <<pc, db, at, earned, faults>>
      BY <2>1 DEF Execute, NextStatement
    <3>2. stmt' \in [Processes -> Nat \ {0}] /\ stmt'[p] = stmt[p] + 1
      BY <3>1 DEF IInv, TypeInv
    <3> QED
      BY <1>1, <2>1, <3>1, <3>2 DEF Others, IInv, TypeInv
  <2>2. CASE ~(stmt[p] < Len(Files[at[p]]))
    <3>1. /\ stmt' = [stmt EXCEPT ![p] = 1] /\ pc' = [pc EXCEPT ![p] = "record"]
          /\ UNCHANGED <<db, at, earned, faults>>
      BY <2>2 DEF Execute, NextStatement, Goto
    <3> QED
      BY <2>2, <3>1 DEF Others, IInv, TypeInv, Labels
  <2> QED
    BY <2>1, <2>2
<1>3. e \in Contents /\ Sound(e) /\ Grown(d, e) /\ Done(s, e)
  BY <1>1, ExecutedIsDone DEF IInv
<1>4. /\ Sound(db)' /\ Writing' /\ \A q \in Processes \ {p} : Reached(q)'
      /\ Grown(d, View(p)') /\ Done(s, View(p)')
      /\ tx' \in Contents \cup {None} /\ owner' \in Processes \cup {None}
      /\ reading' \in SUBSET Processes
  <2>1. CASE Changes(s, d) /\ Write(p, e)
    BY <1>2, <1>3, <2>1, WritingStep
  <2>2. CASE ~Changes(s, d) /\ Skip(p)
    <3>1. UNCHANGED <<tx, owner>> /\ reading' \in SUBSET Processes
      BY <2>2 DEF Skip, IInv, TypeInv
    <3>2. View(p)' = d /\ Grown(d, d) /\ Done(s, d)
      BY <1>2, <2>2, <3>1 DEF View, Grown, Done, Changes
    <3>3. Sound(db)'
      BY <1>2 DEF IInv, Sound, FileDone, Done
    <3>4. Writing'
      <4>1. tx # None => pc'[owner] \in {"statement", "record", "commit"}
        BY <1>2 DEF IInv, TypeInv, Writing, Others
      <4> QED
        BY <1>2, <3>1, <4>1 DEF IInv, Writing, Sound, FileDone, Done
    <3>5. ASSUME NEW q \in Processes \ {p} PROVE Reached(q)'
      <4>1. Grown(View(q), View(q)')
        BY <1>2, <3>1 DEF View, Grown
      <4> QED
        BY <1>2, <3>1, <4>1, ReachedKept DEF IInv, Others
    <3> QED
      BY <3>1, <3>2, <3>3, <3>4, <3>5 DEF IInv, TypeInv
  <2> QED
    BY <2>1, <2>2 DEF Execute
<1>5. Reached(p)'
  <2>1. \A i \in 1 .. stmt[p] : Done(Files[at[p]][i], View(p)')
    <3>1. \A i \in 1 .. stmt[p] - 1 : Done(Files[at[p]][i], d)
      BY <1>1 DEF IInv, Reached
    <3>2. ASSUME NEW i \in 1 .. stmt[p] PROVE Done(Files[at[p]][i], View(p)')
      <4>1. CASE i = stmt[p]
        BY <1>1, <1>4, <4>1
      <4>2. CASE i # stmt[p]
        <5>1. i \in 1 .. stmt[p] - 1
          BY <4>2 DEF IInv, TypeInv
        <5> QED
          BY <1>4, <3>1, <5>1, DoneStaysDone
      <4> QED
        BY <4>1, <4>2
    <3> QED
      BY <3>2
  <2>2. \A i \in 1 .. stmt[p] : Done(Files[at[p]][i], View(p))'
    BY <1>2, <2>1 DEF Done
  <2>3. stmt[p] \in Nat \ {0} /\ DOMAIN Files[at[p]] = 1 .. Len(Files[at[p]])
        /\ Len(Files[at[p]]) \in Nat
    BY <1>1, FileLengths DEF IInv, TypeInv
  <2>4. CASE pc'[p] = "statement"
    <3>1. stmt'[p] \in DOMAIN Files[at[p]] /\ stmt'[p] - 1 = stmt[p]
      BY <1>2, <2>3, <2>4
    <3> QED
      BY <1>1, <1>2, <2>2, <2>4, <3>1 DEF IInv, Reached
  <2>5. CASE pc'[p] = "record"
    <3>1. DOMAIN Files[at[p]] = 1 .. stmt[p]
      BY <1>1, <1>2, <2>3, <2>5
    <3>2. FileDone(at[p], View(p))'
      BY <2>2, <3>1, <1>2 DEF FileDone
    <3> QED
      BY <1>1, <1>2, <2>5, <3>2 DEF IInv, Reached
  <2> QED
    BY <1>2, <2>4, <2>5
<1>6. TypeInv'
  BY <1>2, <1>4 DEF IInv, TypeInv
<1> QED
  BY <1>4, <1>5, <1>6 DEF IInv

LEMMA GoneStep ==
    ASSUME IInv, NEW p \in Processes, Gone(p), faults' \in Nat
    PROVE  IInv'
<1>1. Others(p) /\ pc'[p] = "down" /\ at'[p] = 1 /\ stmt'[p] = 1 /\ UNCHANGED <<db, earned>>
  BY DEF Gone, Goto, Others, IInv, TypeInv
<1>2. TypeInv'
  BY DEF Gone, Goto, IInv, TypeInv, Labels
<1>3. Sound(db)'
  BY <1>1 DEF IInv, Sound, FileDone, Done
<1>4. Writing'
  <2>1. CASE owner = p
    BY <2>1 DEF Gone, Writing
  <2>2. CASE owner # p
    <3>1. UNCHANGED <<tx, owner>>
      BY <2>2 DEF Gone
    <3>2. tx # None => pc'[owner] \in {"statement", "record", "commit"}
      BY <1>1, <2>2 DEF IInv, TypeInv, Writing, Others
    <3> QED
      BY <1>1, <3>1, <3>2 DEF IInv, Writing, Sound, FileDone, Done
  <2> QED
    BY <2>1, <2>2
<1>5. ASSUME NEW q \in Processes \ {p} PROVE Reached(q)'
  <2>1. owner = q <=> owner' = q
    BY NoneIsNobody DEF Gone
  <2>2. owner = q => tx' = tx
    BY DEF Gone
  <2>3. Grown(View(q), View(q)')
    BY <1>1, <2>1, <2>2 DEF View, Grown
  <2> QED
    BY <1>1, <2>1, <2>2, <2>3, ReachedKept DEF IInv, Others
<1>6. Reached(p)'
  BY <1>1 DEF Reached
<1> QED
  BY <1>2, <1>3, <1>4, <1>5, <1>6 DEF IInv

LEMMA RecordStep == ASSUME IInv, NEW p \in Processes, Record(p) PROVE IInv'
<1>1. CASE at[p] \in View(p).versions
  BY <1>1, GoneStep DEF Record, IInv, TypeInv
<1>2. CASE at[p] \notin View(p).versions
  <2> DEFINE d == View(p)
             e == Applied(p, d)
  <2>1. /\ pc[p] = "record" /\ at[p] \in Versions /\ FileDone(at[p], d)
        /\ d \in Contents /\ Sound(d) /\ 1 .. at[p] - 1 \subseteq d.versions
    BY ViewIsSound DEF Record, IInv, Reached, Grown
  <2>2. e \in Contents /\ Sound(e) /\ Grown(d, e) /\ at[p] \in e.versions
    BY <2>1, AppliedIsSound
  <2>3. Write(p, e) /\ Goto(p, "commit") /\ UNCHANGED <<db, at, stmt, earned, faults>>
    BY <1>2 DEF Record
  <2>4. Others(p) /\ pc'[p] = "commit" /\ pc' \in [Processes -> Labels]
    BY <2>3 DEF Goto, Others, IInv, TypeInv, Labels
  <2>5. /\ Sound(db)' /\ Writing' /\ \A q \in Processes \ {p} : Reached(q)'
        /\ View(p)' = e
        /\ tx' \in Contents /\ owner' \in Processes /\ reading' \in SUBSET Processes
    BY <2>2, <2>3, <2>4, WritingStep
  <2>6. TypeInv'
    BY <2>3, <2>4, <2>5 DEF IInv, TypeInv
  <2>7. FileDone(at[p], View(p))'
    BY <2>1, <2>2, <2>3, <2>5, DoneStaysDone DEF FileDone, Done
  <2>8. Reached(p)'
    BY <2>1, <2>2, <2>3, <2>4, <2>7 DEF Write, IInv, Reached
  <2> QED
    BY <2>5, <2>6, <2>8 DEF IInv
<1> QED
  BY <1>1, <1>2

LEMMA CommitStep == ASSUME IInv, NEW p \in Processes, Commit(p) PROVE IInv'
<1>1. /\ pc[p] = "commit" /\ owner = p /\ tx # None /\ tx \in Contents
      /\ at[p] \in Versions /\ at[p] \in tx.versions /\ stmt[p] = 1
      /\ Sound(tx) /\ Grown(db, tx)
  BY NoneIsNobody DEF Commit, IInv, TypeInv, Reached, Writing, Grown
<1>2. /\ db' = tx /\ tx' = None /\ owner' = None /\ reading' = {}
      /\ pc' = [pc EXCEPT ![p] = "check"] /\ at' = [at EXCEPT ![p] = @ + 1]
      /\ UNCHANGED <<stmt, earned, faults>>
  BY DEF Commit, Goto, Advance
<1>3. TypeInv'
  BY <1>1, <1>2 DEF IInv, TypeInv, Labels
<1>4. Sound(db)'
  BY <1>1, <1>2 DEF Sound, FileDone, Done
<1>5. Writing'
  BY <1>2 DEF Writing
<1>6. ASSUME NEW q \in Processes \ {p} PROVE Reached(q)'
  <2>1. Grown(View(q), View(q)')
    BY <1>1, <1>2, NoneIsNobody DEF View, Grown
  <2>2. db.versions \subseteq db'.versions
    BY <1>1, <1>2 DEF Grown
  <2>3. pc'[q] = pc[q] /\ at'[q] = at[q] /\ stmt'[q] = stmt[q] /\ owner # q
    BY <1>1, <1>2 DEF IInv, TypeInv
  <2> QED
    BY <1>2, <2>1, <2>2, <2>3, ReachedKept DEF IInv
<1>7. Reached(p)'
  <2>1. pc'[p] = "check" /\ at'[p] = at[p] + 1 /\ stmt'[p] = 1
    BY <1>1, <1>2 DEF IInv, TypeInv
  <2>2. 1 .. at[p] \subseteq tx.versions
    BY <1>1 DEF Sound
  <2>3. at'[p] <= Len(Files) + 1 /\ at'[p] - 1 = at[p]
    BY <1>1, <2>1, VersionsAre
  <2> QED
    BY <1>2, <2>1, <2>2, <2>3 DEF Reached
<1> QED
  BY <1>3, <1>4, <1>5, <1>6, <1>7 DEF IInv

LEMMA ResultStep == ASSUME IInv, NEW p \in Processes, RecordResult(p) PROVE IInv'
<1>1. PICK r \in Ratings : db' = [db EXCEPT !.rating = r, !.delta = r] /\ earned' = r
  BY DEF RecordResult
<1>2. owner = None /\ tx = None /\ UNCHANGED <<tx, owner, reading, pc, at, stmt, faults>>
  BY DEF RecordResult, IInv, Writing
<1>3. /\ db' \in Contents /\ db'.schema = db.schema /\ db'.versions = db.versions
      /\ db'.rating = earned' /\ db'.delta = earned' /\ earned' \in Int
  BY <1>1, RatingsIntegers DEF IInv, TypeInv, Contents
<1>4. TypeInv'
  BY <1>2, <1>3 DEF IInv, TypeInv
<1>5. \A s : Done(s, db) => Done(s, db)'
  BY <1>3 DEF Done
<1>6. \A v : FileDone(v, db) => FileDone(v, db)'
  BY <1>5 DEF FileDone
<1>7. Sound(db)'
  BY <1>3, <1>6 DEF IInv, Sound
<1>8. Writing'
  BY <1>2 DEF IInv, Writing
<1>9. ASSUME NEW q \in Processes PROVE Reached(q)'
  <2>1. View(q) = db /\ View(q)' = db'
    BY <1>2, NoneIsNobody DEF View
  <2>2. \A s : Done(s, View(q)) => Done(s, View(q))'
    BY <1>5, <2>1 DEF Done
  <2>3. \A v : FileDone(v, View(q)) => FileDone(v, View(q))'
    BY <2>2 DEF FileDone
  <2> QED
    BY <1>2, <1>3, <2>2, <2>3 DEF IInv, Reached
<1> QED
  BY <1>4, <1>7, <1>8, <1>9 DEF IInv

-----------------------------------------------------------------------------

LEMMA InitStep == Init => IInv
<1> SUFFICES ASSUME Init PROVE IInv
  OBVIOUS
<1>1. /\ db \in Contents /\ db.versions = {} /\ db.rating = earned /\ db.delta \in {0, earned}
      /\ earned \in Int
  BY DatabasesUnmigrated DEF Init, Contents
<1>2. TypeInv
  BY <1>1, FaultsNatural DEF Init, TypeInv, Labels
<1>3. Sound(db)
  BY <1>1 DEF Sound
<1>4. Writing
  BY DEF Init, Writing
<1>5. \A p \in Processes : Reached(p)
  BY DEF Init, Reached
<1> QED
  BY <1>2, <1>3, <1>4, <1>5 DEF IInv

LEMMA NextStep == IInv /\ [Next]_vars => IInv'
<1> SUFFICES ASSUME IInv, [Next]_vars PROVE IInv'
  OBVIOUS
<1>1. ASSUME NEW p \in Processes, Start(p) PROVE IInv'
  BY <1>1, StartStep
<1>2. ASSUME NEW p \in Processes, StartUp(p) PROVE IInv'
  BY <1>2, CheckStep, ServeStep, ExecuteStep, RecordStep, CommitStep DEF StartUp
<1>3. ASSUME NEW p \in Processes, Refused(p) PROVE IInv'
  BY <1>3, GoneStep DEF Refused, IInv, TypeInv
<1>4. ASSUME NEW p \in Processes, Fail(p) PROVE IInv'
  BY <1>4, GoneStep DEF Fail, IInv, TypeInv
<1>5. ASSUME NEW p \in Processes, RecordResult(p) PROVE IInv'
  BY <1>5, ResultStep
<1>6. CASE UNCHANGED vars
  BY <1>6 DEF vars, IInv, TypeInv, Sound, FileDone, Done, Writing, Reached, View
<1> QED
  BY <1>1, <1>2, <1>3, <1>4, <1>5, <1>6 DEF Next

LEMMA IInvHolds == FairSpec => []IInv
BY InitStep, NextStep, PTL DEF FairSpec

-----------------------------------------------------------------------------
(* Theorems.                                                                *)

LEMMA BroughtByDone ==
    ASSUME NEW v \in Versions, NEW d, FileDone(v, d)
    PROVE  /\ Brought(v) \subseteq d.schema
           /\ Backfill \in {Files[v][i] : i \in DOMAIN Files[v]} => d.delta = earned
BY DEF Brought, FileDone, Done

\* Every row of schema_migrations stands for a file that was applied, after all
\* the files before it: applyMigration's transaction keeps the two together
\* whatever crashes, fails or runs beside it.
THEOREM RecordedApplied == FairSpec => []RecordedWereApplied
<1>1. IInv => RecordedWereApplied
  <2> SUFFICES ASSUME IInv, NEW v \in db.versions
               PROVE  /\ Brought(v) \subseteq db.schema
                      /\ 1 .. v \subseteq db.versions
                      /\ Backfill \in {Files[v][i] : i \in DOMAIN Files[v]} => db.delta = earned
    BY DEF RecordedWereApplied
  <2>1. v \in Versions
    BY DEF IInv, TypeInv, Contents
  <2> QED
    BY <2>1, BroughtByDone DEF IInv, Sound
<1> QED
  BY <1>1, IInvHolds, PTL

\* Whatever the database was, a bot that has come through NewSQLiteStore finds
\* every table and column of the migrations.
THEOREM WholeSchemaServed == FairSpec => []ServesWholeSchema
<1>1. IInv => ServesWholeSchema
  <2> SUFFICES ASSUME IInv, NEW p \in Processes, pc[p] = "serving"
               PROVE  Everything \subseteq db.schema
    BY DEF ServesWholeSchema
  <2>1. Versions \subseteq db.versions
    BY DEF IInv, Reached
  <2>2. \A v \in Versions : Brought(v) \subseteq db.schema
    BY <2>1, BroughtByDone DEF IInv, Sound
  <2> QED
    BY <2>2 DEF Everything
<1> QED
  BY <1>1, IInvHolds, PTL

\* No start of any process, completed or cut off, loses a rating or brings an
\* old one back.
THEOREM RatingsKept == FairSpec => []RatingsSurvive
<1>1. IInv => RatingsSurvive
  <2> SUFFICES ASSUME IInv, NEW p \in Processes, pc[p] = "serving"
               PROVE  db.delta = earned
    BY DEF RatingsSurvive
  <2>1. 4 \in db.versions /\ 4 \in Versions
    BY VersionsAre DEF IInv, Reached
  <2>2. 1 \in DOMAIN Files[4] /\ Files[4][1] = Backfill
    BY DEF Files
  <2> QED
    BY <2>1, <2>2, BroughtByDone DEF IInv, Sound
<1> QED
  BY <1>1, IInvHolds, PTL
===============================================================================
