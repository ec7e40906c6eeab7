------------------------------ MODULE MCRotation -----------------------------
(****************************************************************************)
(* Teams of two, drawn from four, five or six players: no spectator, one or *)
(* two.  Ratings 0, 1 and 3 and a slack of 1 give divisions that are equal, *)
(* within the slack and beyond it.  Histories are those of players who never*)
(* sat out, who did so two, ten and thirty hours before the start.          *)
(****************************************************************************)
EXTENDS Rotation

H(sat, hoursAgo) == [sat |-> sat, seen |-> Start - hoursAgo]
Never == [sat |-> 0, seen |-> 0]

Ascending(f) == \A p, q \in Members : p < q => f[p] <= f[q]
Powers == {f \in [Members -> {0, 1, 3}] : Ascending(f)}

Room(f, h, teams, w, ls, n) ==
    [power |-> f, history |-> h, lastTeams |-> teams,
     weight |-> [rotation |-> w[1], sameTeam |-> w[2]], lists |-> ls, matches |-> n]

LastMatch == {{1, 4}, {2, 5}}

\* Two of the six have sat out less than the others.
TwoOwing ==
    {[p \in Members |-> IF p \in two THEN Never ELSE H(1, 10)] : two \in kSubset(2, Members)}

\* Five players with every combination of four histories.
AnyOfFive ==
    {[p \in Members |-> IF p \in 1 .. 5 THEN h[p] ELSE Never] :
        h \in [1 .. 5 -> {Never, H(1, 2), H(1, 30), H(2, 10)}]}

\* Many rooms, for one match.
Wide ==
    {Room(f, h, LastMatch, w, {Members, Members \ {1}, Members \ {4}, Members \ {3, 6}}, 1) :
        f \in Powers, h \in TwoOwing, w \in {<<1, 0>>, <<1, 1>>}}
    \cup {Room(f, h, {}, <<1, 0>>, {1 .. 5}, 1) :
        f \in {<<0, 0, 0, 1, 1, 1>>, <<0, 0, 1, 1, 3, 3>>}, h \in AnyOfFive}
    \cup {Room(f, [p \in Members |-> Never], LastMatch, <<0, 1>>, {Members, Members \ {2}}, 1) :
        f \in Powers}
    \cup {Room(f, [p \in Members |-> Never], {}, <<1, 0>>, {1 .. 4}, 1) :
        f \in {f \in [Members -> {0, 1, 3}] : f[5] = 0 /\ f[6] = 0}}

\* Few rooms, for four matches: everybody new, and a newcomer among veterans.
Long ==
    {Room(<<0, 0, 0, 0, 1, 1>>, h, {}, w, {1 .. 5, {1, 2, 4, 5}}, 4) :
        h \in {[p \in Members |-> Never], [p \in Members |-> IF p = 5 THEN Never ELSE H(2, 10)]},
        w \in {<<1, 0>>, <<1, 1>>}}

MCRooms == Wide \cup Long
==============================================================================
