------------------------------ MODULE AsyncCopy -----------------------------
(***************************************************************************)
(* The background copy of a session: start_async_copy and                  *)
(* ftp_session_cleanup, run by the session thread, and                     *)
(* ftp_copy_thread_func, run by one copy thread after another.             *)
(*                                                                         *)
(* The session thread joins the previous copy thread while it holds        *)
(* copy_mutex, which a copy thread needs to end.                           *)
(***************************************************************************)
EXTENDS Integers

CONSTANT MaxCopies      \* bound on the copy threads a session starts
ASSUME MaxCopiesAssumption == MaxCopies \in Nat

Copy == 1 .. MaxCopies  \* copy threads, in the order they are created

VARIABLES
  spc,                  \* where the session thread is
  in_progress,          \* session->copy_in_progress
  valid,                \* session->copy_thread_valid
  mutex,                \* who holds copy_mutex: 0 for nobody, -1 for the
                        \* session thread, or a copy thread
  destroyed,            \* pthread_mutex_destroy was called
  last,                 \* session->copy_thread: the last thread created, or 0
  cpc,                  \* where each copy thread is
  joined                \* the threads that were joined

asyncVars == <<spc, in_progress, valid, mutex, destroyed, last, cpc, joined>>
copyVars == <<cpc, joined>>

Nobody == 0
Session == -1

AsyncInit ==
  /\ spc = "idle"
  /\ in_progress = FALSE /\ valid = FALSE
  /\ mutex = Nobody /\ destroyed = FALSE
  /\ last = 0
  /\ cpc = [k \in Copy |-> "none"]
  /\ joined = {}

Unlock == mutex' = Nobody

-----------------------------------------------------------------------------
(***************************************************************************)
(* start_async_copy                                                        *)
(***************************************************************************)
\* A CPTO, COPY or RNTO across devices.
Lock ==
  /\ spc = "idle"
  /\ mutex = Nobody /\ mutex' = Session
  /\ spc' = "check"
  /\ UNCHANGED <<in_progress, valid, destroyed, last, copyVars>>

\* 450: a copy is running.  Or 550, 553 or 451: a path is not valid, source and
\* destination are the same, or there is no memory for the task.
Refuse ==
  /\ spc = "check"
  /\ Unlock
  /\ spc' = "idle"
  /\ UNCHANGED <<in_progress, valid, destroyed, last, copyVars>>

\* Variant: the previous thread is not joined.
AcceptNoJoin ==
  /\ spc = "check"
  /\ ~in_progress
  /\ in_progress' = TRUE
  /\ spc' = "create"
  /\ UNCHANGED <<valid, mutex, destroyed, last, copyVars>>

Accept ==
  /\ spc = "check"
  /\ ~in_progress
  /\ in_progress' = TRUE
  /\ spc' = IF valid THEN "join" ELSE "create"
  /\ UNCHANGED <<valid, mutex, destroyed, last, copyVars>>

Join ==
  /\ spc = "join"
  /\ cpc[last] = "exited"
  /\ joined' = joined \cup {last}
  /\ spc' = "create"
  /\ UNCHANGED <<in_progress, valid, mutex, destroyed, last, cpc>>

Create ==
  /\ spc = "create"
  /\ last < MaxCopies
  /\ last' = last + 1
  /\ cpc' = [cpc EXCEPT ![last + 1] = "copy"]
  /\ valid' = TRUE
  /\ Unlock
  /\ spc' = "idle"
  /\ UNCHANGED <<in_progress, destroyed, joined>>

CreateFails ==
  /\ spc = "create"
  /\ in_progress' = FALSE /\ valid' = FALSE
  /\ Unlock
  /\ spc' = "idle"
  /\ UNCHANGED <<destroyed, last, copyVars>>

-----------------------------------------------------------------------------
(***************************************************************************)
(* ftp_session_cleanup                                                     *)
(***************************************************************************)
\* Variant: the mutex is destroyed before the join.
CleanupDestroysFirst ==
  /\ spc = "idle"
  /\ spc' = IF valid THEN "cleanup_join" ELSE "destroy"
  /\ destroyed' = TRUE
  /\ UNCHANGED <<in_progress, valid, mutex, last, copyVars>>

CleanupBegin ==
  /\ spc = "idle"
  /\ spc' = IF valid THEN "cleanup_join" ELSE "destroy"
  /\ UNCHANGED <<in_progress, valid, mutex, destroyed, last, copyVars>>

CleanupJoin ==
  /\ spc = "cleanup_join"
  /\ cpc[last] = "exited"
  /\ joined' = joined \cup {last}
  /\ spc' = "destroy"
  /\ UNCHANGED <<in_progress, valid, mutex, destroyed, last, cpc>>

DestroyMutex ==
  /\ spc = "destroy"
  /\ destroyed' = TRUE
  /\ spc' = "closed"
  /\ UNCHANGED <<in_progress, valid, mutex, last, copyVars>>

-----------------------------------------------------------------------------
(***************************************************************************)
(* ftp_copy_thread_func                                                    *)
(***************************************************************************)
CopyEnds(k) ==
  /\ cpc[k] = "copy"
  /\ cpc' = [cpc EXCEPT ![k] = "lock"]
  /\ UNCHANGED <<spc, in_progress, valid, mutex, destroyed, last, joined>>

ClearInProgress(k) ==
  /\ cpc[k] = "lock"
  /\ mutex = Nobody /\ mutex' = k
  /\ in_progress' = FALSE
  /\ cpc' = [cpc EXCEPT ![k] = "unlock"]
  /\ UNCHANGED <<spc, valid, destroyed, last, joined>>

CopyUnlock(k) ==
  /\ cpc[k] = "unlock"
  /\ Unlock
  /\ cpc' = [cpc EXCEPT ![k] = "exit"]
  /\ UNCHANGED <<spc, in_progress, valid, destroyed, last, joined>>

\* The result is logged and the task freed.
CopyExit(k) ==
  /\ cpc[k] = "exit"
  /\ cpc' = [cpc EXCEPT ![k] = "exited"]
  /\ UNCHANGED <<spc, in_progress, valid, mutex, destroyed, last, joined>>

SessionStep == Lock \/ Refuse \/ Accept \/ Join \/ Create \/ CreateFails
               \/ CleanupBegin \/ CleanupJoin \/ DestroyMutex
CopyStep(k) == CopyEnds(k) \/ ClearInProgress(k) \/ CopyUnlock(k) \/ CopyExit(k)

AsyncNext == SessionStep \/ (\E k \in Copy : CopyStep(k))

AsyncSpec == AsyncInit /\ [][AsyncNext]_asyncVars

-----------------------------------------------------------------------------
(***************************************************************************)
(* Properties                                                              *)
(***************************************************************************)

\* The variables keep their types.
AsyncTypeOK ==
  /\ spc \in {"idle", "check", "join", "create", "cleanup_join",
              "destroy", "closed"}
  /\ in_progress \in BOOLEAN /\ valid \in BOOLEAN /\ destroyed \in BOOLEAN
  /\ mutex \in {Nobody, Session} \cup Copy
  /\ last \in 0 .. MaxCopies
  /\ cpc \in [Copy -> {"none", "copy", "lock", "unlock", "exit", "exited"}]
  /\ joined \subseteq Copy

\* A session never has two copies under way: a thread is only created when
\* every earlier one has exited, and only the last one can be alive.
OneCopyThread == \A k \in Copy : cpc[k] \notin {"none", "exited"} => k = last

JoinedUpTo(n) == \A k \in Copy : k \in joined <=> k <= n

\* No copy thread is leaked, and pthread_join is never called on a thread that
\* was joined before: between commands all threads are joined except the last,
\* and the last too unless copy_thread_valid says otherwise; in the end all are.
JoinedOnce ==
  /\ spc = "idle" /\ valid => JoinedUpTo(last - 1)
  /\ spc = "idle" /\ ~valid => JoinedUpTo(last)
  /\ spc = "closed" => JoinedUpTo(last)
  /\ \A k \in joined : cpc[k] = "exited"

\* The session struct and its mutex outlive the copy thread, which uses both
\* until it exits.
NoUseAfterDestroy ==
  destroyed => \A k \in Copy : cpc[k] \in {"none", "exited"}

\* So a session's copy threads are all joined, once, and before their mutex goes.
JoinedBeforeDestroy == JoinedOnce /\ NoUseAfterDestroy

\* The parts of the inductive invariant: copy_in_progress is cleared only by a
\* copy that is over, ...
FlagCoversCopy == \A k \in Copy : cpc[k] \in {"copy", "lock"} => in_progress

\* ... the mutex is held by the thread that is between lock and unlock, ...
MutexHolder ==
  /\ mutex = Session <=> spc \in {"check", "join", "create"}
  /\ \A k \in Copy : mutex = k <=> cpc[k] = "unlock"

\* ... threads are created in order, ...
Created == \A k \in Copy : cpc[k] = "none" <=> k > last

\* ... a thread that is about to be joined exists and is not joined yet, ...
ToJoin ==
  /\ valid => last > 0
  /\ spc = "check" /\ valid => JoinedUpTo(last - 1)
  /\ spc = "check" /\ ~valid => JoinedUpTo(last)
  /\ spc \in {"join", "cleanup_join"} => valid /\ JoinedUpTo(last - 1)

\* ... and from the moment the flag is taken the previous thread is past its
\* last use of the mutex, which lives until the end of the session.
PastMutex ==
  /\ spc \in {"join", "create"} =>
       in_progress /\ \A k \in Copy : cpc[k] \in {"none", "exit", "exited"}
  /\ spc \in {"create", "destroy", "closed"} =>
       JoinedUpTo(last)
  /\ destroyed => spc = "closed"

IInv == AsyncTypeOK /\ OneCopyThread /\ JoinedOnce /\ NoUseAfterDestroy
        /\ FlagCoversCopy /\ MutexHolder /\ Created /\ ToJoin /\ PastMutex

\* Joining the previous copy thread with copy_mutex held does not deadlock: once
\* the flag is clear that thread has no further use for the mutex.  And a
\* session that ends while a copy runs is cleaned up in the end.
JoinsReturn ==
  /\ (spc = "join") ~> (spc = "idle")
  /\ (spc = "cleanup_join") ~> (spc = "closed")

=============================================================================
