---------------------------- MODULE MCCommandGuard ----------------------------
(****************************************************************************)
(* Two handlers that may meet in one of two rooms, a default cooldown of    *)
(* two ticks, an administrator who types zero or more than is allowed, and  *)
(* a clock of four: a draw, the end of its cooldown and the end of the next *)
(* one fit, and the cooldown can be changed in between.                     *)
(****************************************************************************)
EXTENDS CommandGuard, TLC

Symmetry == Permutations(Handlers) \cup Permutations(Guards)
===============================================================================
