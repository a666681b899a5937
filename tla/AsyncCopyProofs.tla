--------------------------- MODULE AsyncCopyProofs --------------------------
(***************************************************************************)
(* The safety of the background copy, for any number of copies.            *)
(*                                                                         *)
(* The invariant IInv relates the mutex to the place of its holder         *)
(* (MutexHolder), numbers the threads (Created), says which threads are    *)
(* joined where (ToJoin, PastMutex), and, the heart of the argument, that  *)
(* once start_async_copy has found the flag clear under the mutex the      *)
(* previous thread has left its critical section (PastMutex).              *)
(***************************************************************************)
EXTENDS AsyncCopy, TLAPS

USE DEF Copy, Nobody

\* The session thread is told apart from the copy threads and from nobody.
LEMMA Holders ==
  Session # Nobody /\ \A k \in Copy : k # Session /\ k # Nobody
BY MaxCopiesAssumption DEF Session

\* AsyncInit establishes the invariant.
LEMMA InitIInv == AsyncInit => IInv
<1> SUFFICES ASSUME AsyncInit PROVE IInv
  OBVIOUS
<1>0. last \in 0 .. MaxCopies
  BY MaxCopiesAssumption DEF AsyncInit
<1>1. AsyncTypeOK
  BY <1>0 DEF AsyncInit, AsyncTypeOK
<1>2. OneCopyThread /\ Created /\ NoUseAfterDestroy /\ FlagCoversCopy
  BY MaxCopiesAssumption DEF AsyncInit, OneCopyThread, Created,
     NoUseAfterDestroy, FlagCoversCopy
<1>3. MutexHolder
  BY Holders, MaxCopiesAssumption DEF AsyncInit, MutexHolder
<1>4. JoinedOnce /\ ToJoin /\ PastMutex
  BY MaxCopiesAssumption DEF AsyncInit, JoinedOnce, ToJoin, PastMutex, JoinedUpTo
<1> QED
  BY <1>1, <1>2, <1>3, <1>4 DEF IInv

\* start_async_copy takes the mutex.
LEMMA LockIInv == IInv /\ Lock => IInv'
<1> SUFFICES ASSUME IInv, Lock PROVE IInv'
  OBVIOUS
<1>1. AsyncTypeOK'
  BY MaxCopiesAssumption DEF Lock, copyVars, IInv, AsyncTypeOK
<1>2. OneCopyThread' /\ Created' /\ NoUseAfterDestroy' /\ FlagCoversCopy'
  BY MaxCopiesAssumption DEF Lock, copyVars, IInv, AsyncTypeOK, OneCopyThread,
     Created, NoUseAfterDestroy, FlagCoversCopy
<1>3. MutexHolder'
  BY Holders, MaxCopiesAssumption DEF Lock, copyVars, IInv, AsyncTypeOK, MutexHolder
<1>4. JoinedOnce' /\ ToJoin' /\ PastMutex'
  BY MaxCopiesAssumption DEF Lock, copyVars, IInv, AsyncTypeOK, JoinedOnce,
     ToJoin, PastMutex, JoinedUpTo
<1> QED
  BY <1>1, <1>2, <1>3, <1>4 DEF IInv

\* It gives up.
LEMMA RefuseIInv == IInv /\ Refuse => IInv'
<1> SUFFICES ASSUME IInv, Refuse PROVE IInv'
  OBVIOUS
<1>1. AsyncTypeOK'
  BY MaxCopiesAssumption DEF Refuse, Unlock, copyVars, IInv, AsyncTypeOK
<1>2. OneCopyThread' /\ Created' /\ NoUseAfterDestroy' /\ FlagCoversCopy'
  BY MaxCopiesAssumption DEF Refuse, Unlock, copyVars, IInv, AsyncTypeOK,
     OneCopyThread, Created, NoUseAfterDestroy, FlagCoversCopy
<1>3. MutexHolder'
  BY Holders, MaxCopiesAssumption DEF Refuse, Unlock, copyVars, IInv, AsyncTypeOK,
     MutexHolder
<1>4. JoinedOnce' /\ ToJoin' /\ PastMutex'
  BY MaxCopiesAssumption DEF Refuse, Unlock, copyVars, IInv, AsyncTypeOK,
     JoinedOnce, ToJoin, PastMutex, JoinedUpTo
<1> QED
  BY <1>1, <1>2, <1>3, <1>4 DEF IInv

\* It takes the flag: with the mutex held and the flag clear, no copy thread is
\* before its unlock.
LEMMA AcceptIInv == IInv /\ Accept => IInv'
<1> SUFFICES ASSUME IInv, Accept PROVE IInv'
  OBVIOUS
<1>1. AsyncTypeOK'
  BY MaxCopiesAssumption DEF Accept, copyVars, IInv, AsyncTypeOK
<1>2. OneCopyThread' /\ Created' /\ NoUseAfterDestroy' /\ FlagCoversCopy'
  BY MaxCopiesAssumption DEF Accept, copyVars, IInv, AsyncTypeOK, OneCopyThread,
     Created, NoUseAfterDestroy, FlagCoversCopy
<1>3. MutexHolder'
  BY Holders, MaxCopiesAssumption DEF Accept, copyVars, IInv, AsyncTypeOK, MutexHolder
<1>4. JoinedOnce' /\ ToJoin'
  BY MaxCopiesAssumption DEF Accept, copyVars, IInv, AsyncTypeOK, JoinedOnce,
     ToJoin, JoinedUpTo
<1>5. \A k \in Copy : cpc[k] \in {"none", "exit", "exited"}
  BY Holders DEF Accept, IInv, AsyncTypeOK, FlagCoversCopy, MutexHolder
<1>6. PastMutex'
  BY <1>5 DEF Accept, copyVars, IInv, ToJoin, PastMutex, JoinedUpTo
<1> QED
  BY <1>1, <1>2, <1>3, <1>4, <1>6 DEF IInv

\* The previous thread is joined.
LEMMA JoinIInv == IInv /\ Join => IInv'
<1> SUFFICES ASSUME IInv, Join PROVE IInv'
  OBVIOUS
<1>0. last \in Copy
  <2>1. valid
    BY DEF Join, IInv, ToJoin
  <2> QED
    BY <2>1, MaxCopiesAssumption DEF IInv, AsyncTypeOK, ToJoin
<1>1. AsyncTypeOK'
  BY MaxCopiesAssumption, <1>0 DEF Join, IInv, AsyncTypeOK
<1>2. OneCopyThread' /\ Created' /\ NoUseAfterDestroy' /\ FlagCoversCopy'
  BY MaxCopiesAssumption DEF Join, IInv, AsyncTypeOK, OneCopyThread, Created,
     NoUseAfterDestroy, FlagCoversCopy
<1>3. MutexHolder'
  BY Holders, MaxCopiesAssumption DEF Join, IInv, AsyncTypeOK, MutexHolder
<1>4. JoinedOnce' /\ ToJoin' /\ PastMutex'
  BY MaxCopiesAssumption, <1>0 DEF Join, IInv, AsyncTypeOK, JoinedOnce, ToJoin,
     PastMutex, JoinedUpTo
<1> QED
  BY <1>1, <1>2, <1>3, <1>4 DEF IInv

\* No thread could be created.
LEMMA CreateFailsIInv == IInv /\ CreateFails => IInv'
<1> SUFFICES ASSUME IInv, CreateFails PROVE IInv'
  OBVIOUS
<1>1. AsyncTypeOK'
  BY MaxCopiesAssumption DEF CreateFails, Unlock, copyVars, IInv, AsyncTypeOK
<1>2. OneCopyThread' /\ Created' /\ NoUseAfterDestroy' /\ FlagCoversCopy'
  BY MaxCopiesAssumption DEF CreateFails, Unlock, copyVars, IInv, AsyncTypeOK,
     OneCopyThread, Created, NoUseAfterDestroy, FlagCoversCopy, PastMutex
<1>3. MutexHolder'
  BY Holders, MaxCopiesAssumption DEF CreateFails, Unlock, copyVars, IInv, AsyncTypeOK,
     MutexHolder
<1>4. JoinedOnce' /\ ToJoin' /\ PastMutex'
  BY MaxCopiesAssumption DEF CreateFails, Unlock, copyVars, IInv, AsyncTypeOK,
     JoinedOnce, ToJoin, PastMutex, JoinedUpTo
<1> QED
  BY <1>1, <1>2, <1>3, <1>4 DEF IInv

\* A new thread is created when all the earlier ones have been joined.
LEMMA CreateIInv == IInv /\ Create => IInv'
<1> SUFFICES ASSUME IInv, Create PROVE IInv'
  OBVIOUS
<1> USE MaxCopiesAssumption
<1>1. AsyncTypeOK' /\ last' = last + 1 /\ last' \in Copy
  BY DEF Create, Unlock, IInv, AsyncTypeOK
<1>2. \A k \in Copy : cpc'[k] = IF k = last' THEN "copy" ELSE cpc[k]
  BY <1>1 DEF Create, IInv, AsyncTypeOK
<1>3. JoinedUpTo(last) /\ joined' = joined /\ valid' /\ spc' = "idle"
  BY DEF Create, IInv, PastMutex
<1>4. \A k \in Copy : k # last' => cpc[k] \in {"none", "exited"}
  <2> SUFFICES ASSUME NEW k \in Copy, k # last' PROVE cpc[k] \in {"none", "exited"}
    OBVIOUS
  <2>1. k <= last \/ k > last
    BY DEF IInv, AsyncTypeOK
  <2> QED
    BY <1>3, <2>1 DEF IInv, AsyncTypeOK, JoinedOnce, Created, JoinedUpTo
<1>5. OneCopyThread'
  BY <1>2, <1>4 DEF OneCopyThread
<1>6. JoinedOnce'
  BY <1>1, <1>2, <1>3 DEF IInv, AsyncTypeOK, JoinedOnce, JoinedUpTo
<1>7. NoUseAfterDestroy' /\ PastMutex'
  BY <1>3 DEF Create, IInv, NoUseAfterDestroy, PastMutex
<1>8. FlagCoversCopy'
  BY <1>2, <1>4 DEF Create, IInv, PastMutex, FlagCoversCopy
<1>9. MutexHolder'
  BY Holders, <1>1, <1>2, <1>4 DEF Create, Unlock, IInv, AsyncTypeOK, MutexHolder
<1>10. Created'
  BY <1>1, <1>2 DEF IInv, AsyncTypeOK, Created
<1>11. ToJoin'
  BY <1>1, <1>3 DEF IInv, AsyncTypeOK, ToJoin
<1> QED
  BY <1>1, <1>5, <1>6, <1>7, <1>8, <1>9, <1>10, <1>11 DEF IInv

\* ftp_session_cleanup.
LEMMA CleanupBeginIInv == IInv /\ CleanupBegin => IInv'
<1> SUFFICES ASSUME IInv, CleanupBegin PROVE IInv'
  OBVIOUS
<1>1. AsyncTypeOK'
  BY MaxCopiesAssumption DEF CleanupBegin, copyVars, IInv, AsyncTypeOK
<1>2. OneCopyThread' /\ Created' /\ NoUseAfterDestroy' /\ FlagCoversCopy'
  BY MaxCopiesAssumption DEF CleanupBegin, copyVars, IInv, AsyncTypeOK,
     OneCopyThread, Created, NoUseAfterDestroy, FlagCoversCopy
<1>3. MutexHolder'
  BY Holders, MaxCopiesAssumption DEF CleanupBegin, copyVars, IInv, AsyncTypeOK,
     MutexHolder
<1>4. JoinedOnce' /\ ToJoin' /\ PastMutex'
  BY MaxCopiesAssumption DEF CleanupBegin, copyVars, IInv, AsyncTypeOK,
     JoinedOnce, ToJoin, PastMutex, JoinedUpTo
<1> QED
  BY <1>1, <1>2, <1>3, <1>4 DEF IInv

\* Its join.
LEMMA CleanupJoinIInv == IInv /\ CleanupJoin => IInv'
<1> SUFFICES ASSUME IInv, CleanupJoin PROVE IInv'
  OBVIOUS
<1>0. last \in Copy
  <2>1. valid
    BY DEF CleanupJoin, IInv, ToJoin
  <2> QED
    BY <2>1, MaxCopiesAssumption DEF IInv, AsyncTypeOK, ToJoin
<1>1. AsyncTypeOK'
  BY MaxCopiesAssumption, <1>0 DEF CleanupJoin, IInv, AsyncTypeOK
<1>2. OneCopyThread' /\ Created' /\ NoUseAfterDestroy' /\ FlagCoversCopy'
  BY MaxCopiesAssumption DEF CleanupJoin, IInv, AsyncTypeOK, OneCopyThread,
     Created, NoUseAfterDestroy, FlagCoversCopy
<1>3. MutexHolder'
  BY Holders, MaxCopiesAssumption DEF CleanupJoin, IInv, AsyncTypeOK, MutexHolder
<1>4. JoinedOnce' /\ ToJoin' /\ PastMutex'
  BY MaxCopiesAssumption, <1>0 DEF CleanupJoin, IInv, AsyncTypeOK, JoinedOnce,
     ToJoin, PastMutex, JoinedUpTo
<1> QED
  BY <1>1, <1>2, <1>3, <1>4 DEF IInv

\* When the mutex is destroyed every thread has been joined.
LEMMA DestroyMutexIInv == IInv /\ DestroyMutex => IInv'
<1> SUFFICES ASSUME IInv, DestroyMutex PROVE IInv'
  OBVIOUS
<1>1. AsyncTypeOK'
  BY MaxCopiesAssumption DEF DestroyMutex, copyVars, IInv, AsyncTypeOK
<1>2. OneCopyThread' /\ Created' /\ NoUseAfterDestroy' /\ FlagCoversCopy'
  BY MaxCopiesAssumption DEF DestroyMutex, copyVars, IInv, AsyncTypeOK,
     OneCopyThread, Created, NoUseAfterDestroy, FlagCoversCopy, PastMutex,
     JoinedOnce, JoinedUpTo
<1>3. MutexHolder'
  BY Holders, MaxCopiesAssumption DEF DestroyMutex, copyVars, IInv, AsyncTypeOK,
     MutexHolder
<1>4. JoinedOnce' /\ ToJoin' /\ PastMutex'
  BY MaxCopiesAssumption DEF DestroyMutex, copyVars, IInv, AsyncTypeOK,
     JoinedOnce, ToJoin, PastMutex, JoinedUpTo
<1> QED
  BY <1>1, <1>2, <1>3, <1>4 DEF IInv

\* The copy of thread k is over.
LEMMA CopyEndsIInv ==
  ASSUME NEW k \in Copy PROVE IInv /\ CopyEnds(k) => IInv'
<1> SUFFICES ASSUME IInv, CopyEnds(k) PROVE IInv'
  OBVIOUS
<1>0. k = last /\ k \notin joined /\ ~destroyed
  BY DEF CopyEnds, IInv, OneCopyThread, JoinedOnce, NoUseAfterDestroy
<1>1. AsyncTypeOK'
  BY MaxCopiesAssumption DEF CopyEnds, IInv, AsyncTypeOK
<1>2. OneCopyThread' /\ Created' /\ NoUseAfterDestroy' /\ FlagCoversCopy'
  BY MaxCopiesAssumption, <1>0 DEF CopyEnds, IInv, AsyncTypeOK, OneCopyThread,
     Created, NoUseAfterDestroy, FlagCoversCopy
<1>3. MutexHolder'
  BY Holders, MaxCopiesAssumption, <1>0 DEF CopyEnds, IInv, AsyncTypeOK, MutexHolder
<1>4. JoinedOnce' /\ ToJoin' /\ PastMutex'
  BY MaxCopiesAssumption, <1>0 DEF CopyEnds, IInv, AsyncTypeOK, JoinedOnce,
     ToJoin, PastMutex, MutexHolder, JoinedUpTo
<1> QED
  BY <1>1, <1>2, <1>3, <1>4 DEF IInv

\* It takes the mutex and clears the flag.
LEMMA ClearInProgressIInv ==
  ASSUME NEW k \in Copy PROVE IInv /\ ClearInProgress(k) => IInv'
<1> SUFFICES ASSUME IInv, ClearInProgress(k) PROVE IInv'
  OBVIOUS
<1>0. k = last /\ k \notin joined /\ ~destroyed
  BY DEF ClearInProgress, IInv, OneCopyThread, JoinedOnce, NoUseAfterDestroy
<1>1. AsyncTypeOK'
  BY MaxCopiesAssumption DEF ClearInProgress, IInv, AsyncTypeOK
<1>2. OneCopyThread' /\ Created' /\ NoUseAfterDestroy' /\ FlagCoversCopy'
  BY MaxCopiesAssumption, <1>0 DEF ClearInProgress, IInv, AsyncTypeOK,
     OneCopyThread, Created, NoUseAfterDestroy, FlagCoversCopy
<1>3. MutexHolder'
  BY Holders, MaxCopiesAssumption, <1>0 DEF ClearInProgress, IInv, AsyncTypeOK,
     MutexHolder
<1>4. JoinedOnce' /\ ToJoin' /\ PastMutex'
  BY MaxCopiesAssumption, <1>0 DEF ClearInProgress, IInv, AsyncTypeOK,
     JoinedOnce, ToJoin, PastMutex, MutexHolder, JoinedUpTo
<1> QED
  BY <1>1, <1>2, <1>3, <1>4 DEF IInv

\* It releases the mutex.
LEMMA CopyUnlockIInv ==
  ASSUME NEW k \in Copy PROVE IInv /\ CopyUnlock(k) => IInv'
<1> SUFFICES ASSUME IInv, CopyUnlock(k) PROVE IInv'
  OBVIOUS
<1>0. k = last /\ k \notin joined /\ ~destroyed
  BY DEF CopyUnlock, IInv, OneCopyThread, JoinedOnce, NoUseAfterDestroy
<1>1. AsyncTypeOK'
  BY MaxCopiesAssumption DEF CopyUnlock, Unlock, IInv, AsyncTypeOK
<1>2. OneCopyThread' /\ Created' /\ NoUseAfterDestroy' /\ FlagCoversCopy'
  BY MaxCopiesAssumption, <1>0 DEF CopyUnlock, Unlock, IInv, AsyncTypeOK,
     OneCopyThread, Created, NoUseAfterDestroy, FlagCoversCopy
<1>3. MutexHolder'
  BY Holders, MaxCopiesAssumption, <1>0 DEF CopyUnlock, Unlock, IInv, AsyncTypeOK,
     MutexHolder
<1>4. JoinedOnce' /\ ToJoin' /\ PastMutex'
  BY MaxCopiesAssumption, <1>0 DEF CopyUnlock, Unlock, IInv, AsyncTypeOK,
     JoinedOnce, ToJoin, PastMutex, MutexHolder, JoinedUpTo
<1> QED
  BY <1>1, <1>2, <1>3, <1>4 DEF IInv

\* It exits.
LEMMA CopyExitIInv ==
  ASSUME NEW k \in Copy PROVE IInv /\ CopyExit(k) => IInv'
<1> SUFFICES ASSUME IInv, CopyExit(k) PROVE IInv'
  OBVIOUS
<1>0. k = last /\ k \notin joined /\ ~destroyed
  BY DEF CopyExit, IInv, OneCopyThread, JoinedOnce, NoUseAfterDestroy
<1>1. AsyncTypeOK'
  BY MaxCopiesAssumption DEF CopyExit, IInv, AsyncTypeOK
<1>2. OneCopyThread' /\ Created' /\ NoUseAfterDestroy' /\ FlagCoversCopy'
  BY MaxCopiesAssumption, <1>0 DEF CopyExit, IInv, AsyncTypeOK, OneCopyThread,
     Created, NoUseAfterDestroy, FlagCoversCopy
<1>3. MutexHolder'
  BY Holders, MaxCopiesAssumption, <1>0 DEF CopyExit, IInv, AsyncTypeOK, MutexHolder
<1>4. JoinedOnce' /\ ToJoin' /\ PastMutex'
  BY MaxCopiesAssumption, <1>0 DEF CopyExit, IInv, AsyncTypeOK, JoinedOnce,
     ToJoin, PastMutex, MutexHolder, JoinedUpTo
<1> QED
  BY <1>1, <1>2, <1>3, <1>4 DEF IInv

\* Every step of the session thread and of a copy thread keeps the invariant.
LEMMA NextIInv == IInv /\ [AsyncNext]_asyncVars => IInv'
<1>1. IInv /\ UNCHANGED asyncVars => IInv'
  BY DEF asyncVars, IInv, AsyncTypeOK, OneCopyThread, JoinedOnce, NoUseAfterDestroy,
         FlagCoversCopy, MutexHolder, Created, ToJoin, PastMutex, JoinedUpTo
<1> QED
  BY <1>1, LockIInv, RefuseIInv, AcceptIInv, JoinIInv, CreateIInv,
     CreateFailsIInv, CleanupBeginIInv, CleanupJoinIInv, DestroyMutexIInv,
     CopyEndsIInv, ClearInProgressIInv, CopyUnlockIInv, CopyExitIInv
     DEF AsyncNext, SessionStep, CopyStep

\* The inductive invariant holds throughout.
LEMMA SpecIInv == AsyncSpec => []IInv
BY InitIInv, NextIInv, PTL DEF AsyncSpec

\* However many copies a session starts, at most one copy thread is alive.
THEOREM CopiesAreSerial == AsyncSpec => []OneCopyThread
<1>1. IInv => OneCopyThread
  BY DEF IInv
<1> QED
  BY SpecIInv, <1>1, PTL

\* Every copy thread is joined exactly once, all are when the session ends, and
\* none uses copy_mutex, or the session, after ftp_session_cleanup destroyed it.
THEOREM ThreadsAreJoined == AsyncSpec => []JoinedBeforeDestroy
<1>1. IInv => JoinedBeforeDestroy
  BY DEF IInv, JoinedBeforeDestroy
<1> QED
  BY SpecIInv, <1>1, PTL

=============================================================================
