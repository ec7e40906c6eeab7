---------------------------- MODULE MCMatchLedger ----------------------------
(****************************************************************************)
(* Two rooms that share players: two users meet in one match, and each of   *)
(* them may play a third one.  Two results take a rating past a limit of 15 *)
(* in steps of 10, so the clamp acts on and off the grid of the steps.  The *)
(* rooms are of one server, and an export may leave all but one match out.  *)
(****************************************************************************)
EXTENDS Export, TLC

CONSTANTS u1, u2, u3

MCDraws == {[teamA |-> {u1}, teamB |-> {u2}], [teamA |-> {u2}, teamB |-> {u3}],
            [teamA |-> {u1, u2}, teamB |-> {u3}]}

OneServer(room) == "server"

Symmetry == Permutations(Rooms)
=============================================================================
