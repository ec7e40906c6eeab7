---------------------------- MODULE MCUndoPromise ----------------------------
(****************************************************************************)
(* Two users, one handler: the shortest history that overwrites the undo    *)
(* point.                                                                   *)
(****************************************************************************)
EXTENDS UndoPromise, TLC
=============================================================================
