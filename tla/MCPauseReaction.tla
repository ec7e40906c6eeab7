--------------------------- MODULE MCPauseReaction ---------------------------
(****************************************************************************)
(* Two members, two reactions under way at once and three notices: a member *)
(* can be paused again, and answer the new notice, while the goroutine of   *)
(* an older notice has not finished.                                        *)
(****************************************************************************)
EXTENDS PauseReaction, TLC

Symmetry == Permutations(Users) \cup Permutations(Reactions)
==============================================================================
