----------------------------- MODULE AtomicCopy -----------------------------
(***************************************************************************)
(* What pal_file_copy_atomic promises its callers: the destination is      *)
(* replaced by a complete copy in one step, or never, and the result says  *)
(* which.  TreeCopy makes its copies of files in this way.                 *)
(***************************************************************************)
VARIABLES
  content,   \* what the destination names: its "old" contents or the "new" ones
  result     \* "none" until the call returns "OK" or "ERR"

atomicCopyVars == <<content, result>>

AtomicInit == content = "old" /\ result = "none"

Replace ==
  /\ result = "none" /\ content = "old"
  /\ content' = "new"
  /\ UNCHANGED result

Return ==
  /\ result = "none"
  /\ result' = IF content = "new" THEN "OK" ELSE "ERR"
  /\ UNCHANGED content

AtomicSpec == AtomicInit /\ [][Replace \/ Return]_atomicCopyVars

=============================================================================
