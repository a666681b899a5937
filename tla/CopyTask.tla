------------------------------ MODULE CopyTask ------------------------------
(***************************************************************************)
(* The copy started from the web page (/api/copy in http_api.c).           *)
(*                                                                         *)
(* One global record of atomic flags, g_copy_progress, is shared by the    *)
(* event loop, which runs the four handlers one after another, and by a    *)
(* detached thread per copy.  The stores of api_copy are one step: of the  *)
(* other threads only the last store of an earlier copy can fall between   *)
(* them, and it then has the same effect just before or just after.  What  *)
(* the thread copies is TreeCopy; here a copy succeeds or fails.           *)
(***************************************************************************)
EXTENDS Integers

CONSTANT MaxCopies    \* bound on the copies that get a thread

ASSUME MaxCopiesAssumption == MaxCopies \in Nat

Copy == 1 .. MaxCopies

VARIABLES
  active, done, error, cancel, paused,   \* the flags of g_copy_progress
  copies,      \* how many copies got a thread
  copyPc,      \* where the thread of a copy is in copy_thread_fn
  copyRc,      \* what pal_file_copy_recursive_ex returned to it
  unstarted,   \* history: the last api_copy found no memory or no thread
  loading,     \* which flag api_copy_progress loads next: "none" between calls
  report       \* what it has loaded, until the next copy

copyVars == <<active, done, error, cancel, paused, copies, copyPc, copyRc, unstarted,
              loading, report>>

CopyFlagsOK ==
  /\ active \in BOOLEAN /\ done \in BOOLEAN /\ error \in BOOLEAN
  /\ cancel \in BOOLEAN /\ paused \in BOOLEAN /\ unstarted \in BOOLEAN

CopyTypeOK ==
  /\ CopyFlagsOK
  /\ copies \in 0 .. MaxCopies
  /\ copyPc \in [Copy -> {"none", "work", "held", "tail", "clear", "mark", "exit"}]
  /\ copyRc \in [Copy -> {"none", "ok", "failed"}]
  /\ loading \in {"none", "done", "error"}
  /\ report \in [active : BOOLEAN, done : BOOLEAN, error : BOOLEAN]

NoReport == [active |-> FALSE, done |-> FALSE, error |-> FALSE]

CopyInit ==
  /\ active = FALSE /\ done = FALSE /\ error = FALSE
  /\ cancel = FALSE /\ paused = FALSE
  /\ copies = 0
  /\ copyPc = [k \in Copy |-> "none"]
  /\ copyRc = [k \in Copy |-> "none"]
  /\ unstarted = FALSE
  /\ loading = "none"
  /\ report = NoReport

-----------------------------------------------------------------------------
(* The handlers, on the thread of the event loop.                          *)

\* Variant: a second copy is not refused.
ApiCopyUnguarded ==
  /\ loading = "none"
  /\ copies < MaxCopies
  /\ copies' = copies + 1
  /\ copyPc' = [copyPc EXCEPT ![copies + 1] = "work"]
  /\ active' = TRUE /\ done' = FALSE /\ error' = FALSE
  /\ cancel' = FALSE /\ paused' = FALSE /\ unstarted' = FALSE
  /\ report' = NoReport
  /\ UNCHANGED <<copyRc, loading>>

\* api_copy past its checks of the request; those that fail change nothing.
api_copy ==
  /\ loading = "none"
  /\ ~active
  /\ done' = FALSE /\ error' = FALSE /\ cancel' = FALSE /\ paused' = FALSE
  /\ report' = NoReport
  /\ \/ /\ copies < MaxCopies
        /\ copies' = copies + 1
        /\ copyPc' = [copyPc EXCEPT ![copies + 1] = "work"]
        /\ active' = TRUE
        /\ unstarted' = FALSE
     \/ \* malloc or pthread_create fails
        /\ active' = FALSE
        /\ unstarted' = TRUE
        /\ UNCHANGED <<copies, copyPc>>
  /\ UNCHANGED <<copyRc, loading>>

api_copy_cancel ==
  /\ loading = "none"
  /\ cancel' = TRUE
  /\ UNCHANGED <<active, done, error, paused, copies, copyPc, copyRc, unstarted, loading, report>>

api_copy_pause ==
  /\ loading = "none"
  /\ paused' = ~paused
  /\ UNCHANGED <<active, done, error, cancel, copies, copyPc, copyRc, unstarted, loading, report>>

Loads(r, next) ==
  /\ report' = r
  /\ loading' = next
  /\ UNCHANGED <<active, done, error, cancel, paused, copies, copyPc, copyRc, unstarted>>

\* Variant: error is loaded before the flags that say that the copy is over.
ProgressErrorFirst ==
  \/ loading = "none" /\ Loads([report EXCEPT !.error = error], "done")
  \/ loading = "done" /\ Loads([report EXCEPT !.done = done], "error")
  \/ loading = "error" /\ Loads([report EXCEPT !.active = active], "none")

\* The flags are loaded one after another, while the threads go on.
api_copy_progress ==
  \/ loading = "none" /\ Loads([report EXCEPT !.active = active], "done")
  \/ loading = "done" /\ Loads([report EXCEPT !.done = done], "error")
  \/ loading = "error" /\ Loads([report EXCEPT !.error = error], "none")

-----------------------------------------------------------------------------
(* The thread of copy k.                                                   *)

CopyGoto(k, from, to) ==
  /\ copyPc[k] = from
  /\ copyPc' = [copyPc EXCEPT ![k] = to]

CopyReturns(k, from, rc) ==
  /\ CopyGoto(k, from, "tail")
  /\ copyRc' = [copyRc EXCEPT ![k] = rc]
  /\ UNCHANGED <<active, done, error, cancel, paused, copies, unstarted, loading, report>>

\* pal_file_copy_recursive_ex returns for a reason of its own.
CopyEnds(k) == \E rc \in {"ok", "failed"} : CopyReturns(k, "work", rc)

\* The callback after a buffer finds the copy cancelled, paused or neither.
CallbackAborts(k) == ~paused /\ cancel /\ CopyReturns(k, "work", "failed")

CallbackHeld(k) ==
  /\ paused
  /\ CopyGoto(k, "work", "held")
  /\ UNCHANGED <<active, done, error, cancel, paused, copies, copyRc, unstarted, loading, report>>

\* Variant: a paused copy does not look at cancel.
HeldAbortsNever(k) == FALSE /\ CopyReturns(k, "held", "failed")

\* In the loop of copy_progress_cb: cancel is looked at while paused is set.
HeldAborts(k) == cancel /\ CopyReturns(k, "held", "failed")

HeldResumes(k) ==
  /\ ~paused
  /\ ~cancel
  /\ CopyGoto(k, "held", "work")
  /\ UNCHANGED <<active, done, error, cancel, paused, copies, copyRc, unstarted, loading, report>>

\* After the copy: the error flags, then active, then done.
StoreError(k) ==
  /\ CopyGoto(k, "tail", "clear")
  /\ error' = (error \/ copyRc[k] # "ok" \/ cancel)
  /\ UNCHANGED <<active, done, cancel, paused, copies, copyRc, unstarted, loading, report>>

ClearActive(k) ==
  /\ CopyGoto(k, "clear", "mark")
  /\ active' = FALSE
  /\ UNCHANGED <<done, error, cancel, paused, copies, copyRc, unstarted, loading, report>>

StoreDone(k) ==
  /\ CopyGoto(k, "mark", "exit")
  /\ done' = TRUE
  /\ UNCHANGED <<active, error, cancel, paused, copies, copyRc, unstarted, loading, report>>

copy_thread_fn(k) ==
  \/ CopyEnds(k) \/ CallbackAborts(k) \/ CallbackHeld(k)
  \/ HeldAborts(k) \/ HeldResumes(k)
  \/ StoreError(k) \/ ClearActive(k) \/ StoreDone(k)

CopyNext ==
  \/ api_copy \/ api_copy_cancel \/ api_copy_pause \/ api_copy_progress
  \/ \E k \in Copy : copy_thread_fn(k)

CopySpec == CopyInit /\ [][CopyNext]_copyVars

\* Threads are scheduled and a recursive copy returns (Returns of TreeCopy).
CopyFairness == \A k \in Copy : WF_copyVars(copy_thread_fn(k))

-----------------------------------------------------------------------------

Running(k) == copyPc[k] \in {"work", "held", "tail", "clear"}

(* At most one copy works on the file system at a time, and active is set  *)
(* exactly while it does: api_copy refuses a second copy on this flag.     *)
OneCopyAtATime ==
  /\ \A j, k \in Copy : Running(j) /\ Running(k) => j = k
  /\ active <=> \E k \in Copy : Running(k)

(* What api_copy_progress reports.  A client that is told done, and neither *)
(* active nor error, has a finished, successful copy, although the flags   *)
(* are loaded one by one while the thread stores them, and although the    *)
(* thread of the copy before may store its done into the flags of this one.*)
CopyReportIsTrue ==
  loading = "none" /\ report.done /\ ~report.active /\ ~report.error /\ ~unstarted =>
    /\ copies > 0
    /\ copyPc[copies] \in {"mark", "exit"}
    /\ copyRc[copies] = "ok"

(* A cancelled copy ends, paused or not: copy_progress_cb looks at cancel  *)
(* in its loop.                                                            *)
CancelEndsCopy == cancel /\ active ~> ~active

=============================================================================
