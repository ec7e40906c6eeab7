--------------------------- MODULE MCRoomCommands ---------------------------
(****************************************************************************)
(* Small instances of RoomCommands.  Users and handlers are interchangeable *)
(* in every definition, so their permutations are a symmetry of the runs    *)
(* without liveness; RoomPauses does without.                               *)
(****************************************************************************)
EXTENDS RoomCommands, TLC

Symmetry == Permutations(Users) \cup Permutations(Handlers)
=============================================================================
