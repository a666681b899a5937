----------------------------- MODULE AtomicPool -----------------------------
(***************************************************************************)
(* What ftp_buffer_acquire and ftp_buffer_release promise their callers: a *)
(* call takes one free buffer, or returns NULL because at that moment none *)
(* was free, in a single step.                                             *)
(***************************************************************************)
CONSTANTS Thread, Buffer

VARIABLES
  held,     \* the buffers each thread holds
  result    \* what each thread's last ftp_buffer_acquire returned

vars == <<held, result>>

Free == Buffer \ UNION {held[t] : t \in Thread}

Init ==
  /\ held = [t \in Thread |-> {}]
  /\ result = [t \in Thread |-> "none"]

Acquire(t, b) ==
  /\ b \in Free
  /\ held' = [held EXCEPT ![t] = @ \cup {b}]
  /\ result' = [result EXCEPT ![t] = "buffer"]

AcquireFails(t) ==
  /\ Free = {}
  /\ result' = [result EXCEPT ![t] = "NULL"]
  /\ UNCHANGED held

Release(t, b) ==
  /\ b \in held[t]
  /\ held' = [held EXCEPT ![t] = @ \ {b}]
  /\ UNCHANGED result

Next == \E t \in Thread :
  \/ \E b \in Buffer : Acquire(t, b) \/ Release(t, b)
  \/ AcquireFails(t)

Spec == Init /\ [][Next]_vars

=============================================================================
