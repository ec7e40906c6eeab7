------------------------------ MODULE ResultOnce ------------------------------
(****************************************************************************)
(* MatchLedger beside the intention of docs/DECISIONS.md:38, that repeated  *)
(* and double execution of a command does not corrupt the state.  A history *)
(* variable counts how often the match now on a room's board was recorded.  *)
(****************************************************************************)
EXTENDS MatchLedger

VARIABLE credited   \* per room: recordings of the match on its board

OnceInit == Init /\ credited = [r \in Rooms |-> 0]

OnceNext ==
    /\ Next
    /\ credited' =
         IF Commit THEN [credited EXCEPT ![tx.result.room] = @ + 1]
         ELSE [r \in Rooms |-> IF Draw(r) THEN 0 ELSE credited[r]]

OnceSpec == OnceInit /\ [][OnceNext]_<<vars, credited>>

\* DECISIONS.md:38, "prevents the state from being broken by repeated presses
\* or double execution on Discord": a match counts once in the ratings, however
\* often /result is sent for it.
MatchCreditedOnce == \A r \in Rooms : credited[r] <= 1
=============================================================================
