--------------------------- MODULE MCNoticePromise ---------------------------
(****************************************************************************)
(* One member, one reaction and one notice are enough.                      *)
(****************************************************************************)
EXTENDS NoticePromise
==============================================================================
