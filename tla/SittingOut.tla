------------------------------ MODULE SittingOut -----------------------------
(****************************************************************************)
(* What the spectator rotation promises, without teams, ratings or costs:   *)
(* nobody sits out who has done so more often than a player who takes part  *)
(* and, on top of that, not less recently.                                  *)
(****************************************************************************)
EXTENDS Integers

CONSTANT Players

VARIABLES
    sat,   \* SpectatorCount: how many matches each player has sat out
    seen,  \* LastSpectatedAt: the time of the last one, 0 if there was none
    now    \* the clock

vars == <<sat, seen, now>>

Init ==
    /\ sat \in [Players -> Nat]
    /\ seen \in [Players -> Nat]
    /\ now \in Nat
    /\ \A p \in Players : seen[p] <= now

Tick == now' \in Nat /\ now' >= now /\ UNCHANGED <<sat, seen>>

\* y has sat out less often than x, and not more recently.
Behind(y, x) == sat[y] < sat[x] /\ seen[y] <= seen[x]

\* A match is drawn from the listed players, and those in out sit it out.
Draw(listed, out) ==
    /\ \A x \in out, y \in listed \ out : ~Behind(y, x)
    /\ sat' = [p \in Players |-> IF p \in out THEN sat[p] + 1 ELSE sat[p]]
    /\ seen' = [p \in Players |-> IF p \in out THEN now ELSE seen[p]]
    /\ UNCHANGED now

Next == Tick \/ \E listed \in SUBSET Players : \E out \in SUBSET listed : Draw(listed, out)

Spec == Init /\ [][Next]_vars

-----------------------------------------------------------------------------

\* x is at most one match ahead of y, and then not with the older turn.
Leads(x, y) == sat[x] > sat[y] => sat[x] = sat[y] + 1 /\ seen[x] >= seen[y]

Level(x, y) == Leads(x, y) /\ Leads(y, x)

\* A room whose players are all listed for every match, and start level.
TogetherInit == Init /\ \A x, y \in Players : Level(x, y)

TogetherNext == Tick \/ \E out \in SUBSET Players : Draw(Players, out)

TogetherSpec == TogetherInit /\ [][TogetherNext]_vars

\* Nobody is ever two turns ahead of anybody else.
Shared == \A x, y \in Players : sat[x] <= sat[y] + 1
==============================================================================
