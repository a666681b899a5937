------------------------------ MODULE WebTasks ------------------------------
(***************************************************************************)
(* The background tasks of the web server: copies, downloads, extractions. *)
(*                                                                         *)
(* Their handlers run one after another on the thread of the event loop,   *)
(* their threads are detached, and they share no variable.  A step of one  *)
(* leaves the others as they are, so no property of one depends on the     *)
(* others; a behaviour uses one of them (task), and the state space is the *)
(* sum of theirs.                                                          *)
(***************************************************************************)
EXTENDS CopyTask, Downloads, Extraction

VARIABLE task   \* the task the requests of this behaviour are about

vars == <<task, copyVars, dlVars, xVars>>

Init ==
  /\ task \in {"copy", "download", "extract"}
  /\ CopyInit
  /\ DownloadsInit
  /\ ExtractionInit

Next ==
  /\ UNCHANGED task
  /\ \/ task = "copy" /\ CopyNext /\ UNCHANGED <<dlVars, xVars>>
     \/ task = "download" /\ DownloadsNext /\ UNCHANGED <<copyVars, xVars>>
     \/ task = "extract" /\ ExtractionNext /\ UNCHANGED <<copyVars, dlVars>>

Spec == Init /\ [][Next]_vars

FairSpec == Spec /\ CopyFairness /\ DownloadsFairness

(* Nothing is left waiting by a pause: a copy ends once it is cancelled,   *)
(* held by copy_progress_cb or not, and a download that has opened its     *)
(* file ends although invoke_write_cb may hold it.                         *)
TasksEnd == CancelEndsCopy /\ PausedDownloadEnds

=============================================================================
