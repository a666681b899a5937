------------------------------- MODULE Copies -------------------------------
(***************************************************************************)
(* The layers of a copy made on the server: the thread a session starts    *)
(* for it (AsyncCopy), the walk over the tree (TreeCopy), the copy of one  *)
(* file (FileCopy) and the allocator its buffers come from (BuddyAlloc).   *)
(* A layer sees of the one below only that it returns, and with which      *)
(* result, so each is checked by itself: a behaviour shows one of them,    *)
(* chosen at the start.                                                    *)
(*                                                                         *)
(* The tree is a file beside a directory that holds a file, a special file *)
(* and another directory; the directory below that one is beyond the depth *)
(* limit.                                                                  *)
(***************************************************************************)
EXTENDS AsyncCopy, FileCopy, TreeCopy, BuddyAlloc

MCNode == {<<>>, <<"a">>, <<"d">>, <<"d", "b">>, <<"d", "s">>,
           <<"d", "e">>, <<"d", "e", "g">>, <<"d", "e", "g", "h">>}
MCDir == {<<>>, <<"d">>, <<"d", "e">>, <<"d", "e", "g">>}
MCSpecial == {<<"d", "s">>}

VARIABLE layer

copiesVars == <<layer, asyncVars, fileCopyVars, treeVars, allocVars>>

\* The layers that are not shown stay at one of their initial states.
SomeFile == size = 0
SomeTree == keep_src /\ src = {Root} /\ \A n \in Node : dst[n] = "none"

CopiesInit ==
  /\ layer \in {"thread", "file", "tree", "heap"}
  /\ AsyncInit /\ FileInit /\ TreeInit /\ BuddyInit
  /\ layer # "file" => SomeFile
  /\ layer # "tree" => SomeTree

\* A step of one layer.
OfThread(A) == layer = "thread" /\ A /\ UNCHANGED <<layer, fileCopyVars, treeVars, allocVars>>
OfFile(A) == layer = "file" /\ A /\ UNCHANGED <<layer, asyncVars, treeVars, allocVars>>
OfTree(A) == layer = "tree" /\ A /\ UNCHANGED <<layer, asyncVars, fileCopyVars, allocVars>>
OfHeap(A) == layer = "heap" /\ A /\ UNCHANGED <<layer, asyncVars, fileCopyVars, treeVars>>

SessionClosed == spc = "closed" /\ UNCHANGED asyncVars

CopiesNext ==
  \/ OfThread(AsyncNext \/ SessionClosed) \/ OfFile(FileNext)
  \/ OfTree(TreeNext) \/ OfHeap(BuddyNext)

\* Threads keep running, read() and write() return, and copy_mutex is granted
\* to a thread that waits for it whenever it is free again and again.
CopiesSpec ==
  /\ CopiesInit /\ [][CopiesNext]_copiesVars
  /\ WF_copiesVars(OfThread(Refuse \/ Accept)) /\ WF_copiesVars(OfThread(Join))
  /\ WF_copiesVars(OfThread(Create \/ CreateFails))
  /\ WF_copiesVars(OfThread(CleanupJoin)) /\ WF_copiesVars(OfThread(DestroyMutex))
  /\ WF_copiesVars(OfThread(\E k \in Copy : CopyEnds(k) \/ CopyUnlock(k) \/ CopyExit(k)))
  /\ SF_copiesVars(OfThread(\E k \in Copy : ClearInProgress(k)))
  /\ WF_copiesVars(OfFile(Opening)) /\ WF_copiesVars(OfFile(Reader)) /\ WF_copiesVars(OfFile(Finishing))
  /\ WF_copiesVars(OfFile(WriterStart \/ WriteOk \/ WriteFails \/ Cancelled))
  /\ WF_copiesVars(OfFile(JoinReader))
  /\ WF_copiesVars(OfTree(CopyTree \/ RemoveTree))

-----------------------------------------------------------------------------
\* Every call returns.  Joining the previous copy thread with copy_mutex held
\* does not deadlock, and a session that ends while a copy runs is cleaned up.
\* The walk over a tree returns whatever fails, and the copy of a file unless
\* both threads of its pipeline wait for each other, which done (set at the end
\* of the source, by an error or by a cancellation) rules out.
CopyCallsReturn ==
  /\ JoinsReturn
  /\ (layer = "tree") ~> Finished
  /\ (layer = "file") ~> CopyOver
  /\ (layer = "file" /\ done) ~> (pc = "end")

=============================================================================
