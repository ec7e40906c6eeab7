----------------------------- MODULE UndoPromise -----------------------------
(****************************************************************************)
(* RoomCommands beside the promise of the command list: "undo last /make or *)
(* /next result".  A history variable keeps the match that was on the board *)
(* before the last /make or /next that produced a result.  No crash is      *)
(* needed to break the promise, so none is taken: Restart is left out.      *)
(****************************************************************************)
EXTENDS RoomCommands

VARIABLE replaced   \* the match the last result of /make or /next replaced

\* /make or /next answers with a match (and not with an error).
Draws(h) ==
    /\ pc[h] \in {"make_build", "next_build"}
    /\ EnoughPlayers(field[h])
    /\ RunMatch(h)

PromiseInit == Init /\ replaced = None

\* After an /undo or a /reset there is nothing to undo.
PromiseNext ==
    /\ Serve
    /\ replaced' = IF \E h \in Handlers : Draws(h) THEN last
                   ELSE IF \E h \in Handlers : Undo(h) \/ Reset(h) THEN last'
                   ELSE replaced

PromiseSpec == PromiseInit /\ [][PromiseNext]_<<vars, replaced>>

\* commands.go:137, "undo last /make or /next result": a step of /undo that
\* goes through brings back the match that this result replaced.
UndoRevertsLastResult ==
    [][\A h \in Handlers : Undo(h) => last' = replaced]_<<vars, replaced>>
=============================================================================
