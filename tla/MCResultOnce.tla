----------------------------- MODULE MCResultOnce -----------------------------
(****************************************************************************)
(* One room, one match, two /result commands.                               *)
(****************************************************************************)
EXTENDS ResultOnce, TLC

CONSTANTS u1, u2

MCDraws == {[teamA |-> {u1}, teamB |-> {u2}]}
=============================================================================
