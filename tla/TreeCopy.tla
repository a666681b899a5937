------------------------------ MODULE TreeCopy ------------------------------
(***************************************************************************)
(* Copying or moving a directory tree to another file system:              *)
(* pal_copy_cross_device_r_ex and pal_dir_remove_recursive of              *)
(* pal_fileio.c.                                                           *)
(*                                                                         *)
(* An entry of the tree is named by its path below the root, <<>>.  The    *)
(* recursion of the two functions is the variable stack, its top frame     *)
(* last; ret is "call" when the top frame is a call that has not started,  *)
(* and otherwise what the last call returned.  Copying one file either     *)
(* succeeds or leaves the destination alone, which is what FileCopy shows. *)
(***************************************************************************)
EXTENDS Naturals, Sequences, SequencesExt

CONSTANTS
  Node,        \* the entries there may be
  Dir,         \* those that are directories
  Special,     \* those that are neither directories nor regular files
  MaxDepth     \* PAL_MOVE_MAX_DEPTH

Root == <<>>
Parent(n) == Front(n)
Closed(S) == \A n \in S : n = Root \/ Parent(n) \in S

ASSUME NodeAssumption ==
  /\ Root \in Node /\ Closed(Node)
  /\ Dir \subseteq Node /\ Special \subseteq Node \ (Dir \cup {Root})
  /\ \A n \in Node \ {Root} : Parent(n) \in Dir
ASSUME DepthAssumption == MaxDepth \in Nat

File == Node \ (Dir \cup Special)

VARIABLES
  keep_src,    \* copy, rather than move
  src,         \* the entries at the source
  dst,         \* what is at the destination: nothing, something old, or new
  src0, dst0,  \* both as they were when the call was made
  stack,       \* the frames of the recursion
  ret,         \* "call", "OK" or "ERR"
  rolledback,  \* ghost: a rollback has begun
  rmfailed     \* ghost: some step of a rollback failed

ghostVars == <<keep_src, src0, dst0>>
treeVars == <<keep_src, src, dst, src0, dst0, stack, ret, rolledback, rmfailed>>

\* A call of the copy for entry n, or of the removal at the given depth.
CopyCall(n) == [op |-> "copy", node |-> n, todo |-> {}, created |-> FALSE,
                depth |-> Len(n), at |-> "start"]
RemoveCall(n, d) == [op |-> "remove", node |-> n, todo |-> {},
                     created |-> FALSE, depth |-> d, at |-> "start"]

TreeInit ==
  /\ keep_src \in BOOLEAN
  /\ src \in {S \in SUBSET Node : Root \in S /\ Closed(S)} /\ src0 = src
  /\ \E S \in SUBSET Node :
       Closed(S) /\ dst = [n \in Node |-> IF n \in S THEN "old" ELSE "none"]
  /\ dst0 = dst
  /\ stack = <<CopyCall(Root)>> /\ ret = "call"
  /\ rolledback = FALSE /\ rmfailed = FALSE

Top == Last(stack)
Here == Top.node
At(op, at) == stack # <<>> /\ Top.op = op /\ Top.at = at
Kids(n, S) == {m \in S \ {Root} : Parent(m) = n}

Call(f) == stack' = Append(stack, f) /\ ret' = "call"
Return(r) == stack' = Front(stack) /\ ret' = r
Goto(f) == stack' = Append(Front(stack), f)

-----------------------------------------------------------------------------
(***************************************************************************)
(* pal_copy_cross_device_r_ex                                              *)
(***************************************************************************)
\* The tree is too deep, or stat() of the source, the copy of a file, or mkdir()
\* of a directory fails.
CopyFails ==
  /\ At("copy", "start")
  /\ Return("ERR")
  /\ UNCHANGED <<ghostVars, src, dst, rolledback, rmfailed>>

\* Variant: the source is deleted first.
CopyFileAfterDelete ==
  /\ At("copy", "start") /\ Top.depth <= MaxDepth
  /\ Here \in File
  /\ IF keep_src
     THEN /\ dst' = [dst EXCEPT ![Here] = "new"]
          /\ Return("OK") /\ UNCHANGED src
     ELSE /\ src' = src \ {Here}
          /\ Goto([Top EXCEPT !.at = "unlink"]) /\ UNCHANGED <<ret, dst>>
  /\ UNCHANGED <<ghostVars, rolledback, rmfailed>>

\* A regular file: pal_file_copy_atomic_ex, which replaces what was there.
CopyFile ==
  /\ At("copy", "start") /\ Top.depth <= MaxDepth
  /\ Here \in File
  /\ dst' = [dst EXCEPT ![Here] = "new"]
  /\ IF keep_src THEN Return("OK")
     ELSE Goto([Top EXCEPT !.at = "unlink"]) /\ UNCHANGED ret
  /\ UNCHANGED <<ghostVars, src, rolledback, rmfailed>>

\* When moving, the source is unlinked once its copy is in place.
UnlinkSource ==
  /\ At("copy", "unlink")
  /\ \/ src' = src \ {Here} /\ Return("OK")
     \/ UNCHANGED src /\ Return("ERR")
  /\ UNCHANGED <<ghostVars, dst, rolledback, rmfailed>>

\* Devices and the like are skipped.
SkipSpecial ==
  /\ At("copy", "start") /\ Top.depth <= MaxDepth
  /\ Here \in Special
  /\ Return("OK")
  /\ UNCHANGED <<ghostVars, src, dst, rolledback, rmfailed>>

\* Variant: dst_created_by_us is never set.
MakeDirNotOurs ==
  /\ At("copy", "start") /\ Top.depth <= MaxDepth
  /\ Here \in Dir
  /\ dst' = [dst EXCEPT ![Here] = IF @ = "none" THEN "new" ELSE @]
  /\ Goto([Top EXCEPT !.at = "loop", !.todo = Kids(Here, src)])
  /\ ret' = "OK"
  /\ UNCHANGED <<ghostVars, src, rolledback, rmfailed>>

\* A directory: mkdir() unless it exists, and opendir() of the source.
MakeDir ==
  /\ At("copy", "start") /\ Top.depth <= MaxDepth
  /\ Here \in Dir
  /\ dst' = [dst EXCEPT ![Here] = IF @ = "none" THEN "new" ELSE @]
  /\ Goto([Top EXCEPT !.at = "loop", !.created = dst[Here] = "none",
                      !.todo = Kids(Here, src)])
  /\ ret' = "OK"
  /\ UNCHANGED <<ghostVars, src, rolledback, rmfailed>>

\* opendir() fails: a directory this call made is removed again, if rmdir() can.
OpenFails ==
  /\ At("copy", "start") /\ Top.depth <= MaxDepth
  /\ Here \in Dir
  /\ \/ UNCHANGED <<dst, rmfailed>>
     \/ /\ dst[Here] = "none"
        /\ dst' = [dst EXCEPT ![Here] = "new"] /\ rmfailed' = TRUE
  /\ Return("ERR")
  /\ UNCHANGED <<ghostVars, src, rolledback>>

\* readdir() returns the next entry, and the function calls itself.
NextEntry ==
  /\ At("copy", "loop") /\ ret = "OK"
  /\ \E m \in Top.todo :
       stack' = Append(Append(Front(stack), [Top EXCEPT !.todo = @ \ {m}]),
                       CopyCall(m))
  /\ ret' = "call"
  /\ UNCHANGED <<ghostVars, src, dst, rolledback, rmfailed>>

\* An entry failed: what this call created is removed again.
RollBack ==
  /\ At("copy", "loop") /\ ret = "ERR"
  /\ IF Top.created
     THEN /\ stack' = Append(Append(Front(stack), [Top EXCEPT !.at = "failed"]),
                             RemoveCall(Here, 0))
          /\ ret' = "call" /\ rolledback' = TRUE
     ELSE Return("ERR") /\ UNCHANGED rolledback
  /\ UNCHANGED <<ghostVars, src, dst, rmfailed>>

RolledBack ==
  /\ At("copy", "failed") /\ ret # "call"
  /\ Return("ERR")
  /\ UNCHANGED <<ghostVars, src, dst, rolledback, rmfailed>>

\* All entries are done; when moving, rmdir() of the source must succeed, which
\* it does not when something is left in it.
DirDone ==
  /\ At("copy", "loop") /\ ret = "OK" /\ Top.todo = {}
  /\ \/ keep_src /\ Return("OK") /\ UNCHANGED src
     \/ /\ ~keep_src /\ Kids(Here, src) = {}
        /\ src' = src \ {Here} /\ Return("OK")
     \/ ~keep_src /\ Return("ERR") /\ UNCHANGED src
  /\ UNCHANGED <<ghostVars, dst, rolledback, rmfailed>>

CopyTree == CopyFails \/ CopyFile \/ UnlinkSource \/ SkipSpecial \/ MakeDir
        \/ OpenFails \/ NextEntry \/ RollBack \/ RolledBack \/ DirDone

-----------------------------------------------------------------------------
(***************************************************************************)
(* pal_dir_remove_recursive                                                *)
(***************************************************************************)
Present == {n \in Node : dst[n] # "none"}

\* Too deep, or opendir(), stat(), unlink() or rmdir() fails.
RemoveFails ==
  /\ stack # <<>> /\ Top.op = "remove" /\ ret \in {"call", "OK"}
  /\ Return("ERR")
  /\ rmfailed' = TRUE
  /\ UNCHANGED <<ghostVars, src, dst, rolledback>>

RemoveOpen ==
  /\ At("remove", "start") /\ Top.depth <= MaxDepth
  /\ Goto([Top EXCEPT !.at = "loop", !.todo = Kids(Here, Present)])
  /\ ret' = "OK"
  /\ UNCHANGED <<ghostVars, src, dst, rolledback, rmfailed>>

RemoveEntry ==
  /\ At("remove", "loop") /\ ret = "OK"
  /\ \E m \in Top.todo :
       LET f == [Top EXCEPT !.todo = @ \ {m}] IN
       IF m \in Dir
       THEN /\ stack' = Append(Append(Front(stack), f),
                               RemoveCall(m, Top.depth + 1))
            /\ ret' = "call" /\ UNCHANGED dst
       ELSE /\ Goto(f) /\ UNCHANGED ret
            /\ dst' = [dst EXCEPT ![m] = "none"]
  /\ UNCHANGED <<ghostVars, src, rolledback, rmfailed>>

\* A nested removal failed: so does this one.
RemoveStops ==
  /\ At("remove", "loop") /\ ret = "ERR"
  /\ Return("ERR")
  /\ UNCHANGED <<ghostVars, src, dst, rolledback, rmfailed>>

RemoveDone ==
  /\ At("remove", "loop") /\ ret = "OK" /\ Top.todo = {}
  /\ dst' = [dst EXCEPT ![Here] = "none"]
  /\ Return("OK")
  /\ UNCHANGED <<ghostVars, src, rolledback, rmfailed>>

RemoveTree == RemoveFails \/ RemoveOpen \/ RemoveEntry \/ RemoveStops \/ RemoveDone

Finished == stack = <<>>
TreeEnded == Finished /\ UNCHANGED treeVars

TreeNext == CopyTree \/ RemoveTree \/ TreeEnded

TreeSpec == TreeInit /\ [][TreeNext]_treeVars

-----------------------------------------------------------------------------
(***************************************************************************)
(* Properties                                                              *)
(***************************************************************************)

\* The variables keep their types, and the recursion is no deeper than the
\* limit on both functions allows.
TreeTypeOK ==
  /\ keep_src \in BOOLEAN /\ rolledback \in BOOLEAN /\ rmfailed \in BOOLEAN
  /\ src \subseteq Node /\ src0 \subseteq Node
  /\ dst \in [Node -> {"none", "old", "new"}] /\ dst0 \in [Node -> {"none", "old"}]
  /\ ret \in {"call", "OK", "ERR"}
  /\ Len(stack) <= 2 * (MaxDepth + 2)
  /\ \A i \in DOMAIN stack :
       /\ stack[i].node \in Node /\ stack[i].todo \subseteq Node
       /\ stack[i].depth <= MaxDepth + 1

\* "never touch a directory that existed before this call": nothing that was at
\* the destination before is ever gone from it; files may have been replaced.
\* And until a rollback begins, every file of the source is still there or is at
\* the destination, even if the process is stopped at any point.
NothingLostEarly ==
  /\ \A n \in Node : dst0[n] = "old" => dst[n] # "none"
  /\ ~rolledback => \A n \in src0 \cap File : n \in src \/ dst[n] = "new"

\* FTP_OK means that everything but special files is at the destination, and,
\* for a move, that nothing is left at the source.  "On failure the partial
\* destination is cleaned up": a copy that fails leaves nothing where there was
\* nothing, unless removing it failed too.
ResultIsTrue ==
  Finished =>
    /\ ret = "OK" =>
         /\ \A n \in src0 \ Special :
              dst[n] = "new" \/ (n \in Dir /\ dst[n] = "old")
         /\ ~keep_src => src = {}
    /\ (ret = "ERR" /\ keep_src /\ dst0[Root] = "none" /\ ~rmfailed) => Present = {}

\* "On failure the partial destination is cleaned up and the source is left
\* intact so the user can retry": no file is gone from both places.
NoFileLost == \A n \in src0 \cap File : n \in src \/ dst[n] = "new"

=============================================================================
