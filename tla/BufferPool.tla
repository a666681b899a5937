----------------------------- MODULE BufferPool -----------------------------
(***************************************************************************)
(* The lock-free pool of stream buffers (ftp_buffer_pool.c).               *)
(*                                                                         *)
(* g_stream_buffer_mask is the set of its bits that are 1.  An acquire     *)
(* loads it, scans the copy for the lowest clear bit, and tries to set     *)
(* that bit with a compare-and-exchange; when the scan finds none it loads *)
(* the mask once more before it gives up.  The scan touches only the copy  *)
(* and is part of the load.  A thread may hold several buffers: STOR takes *)
(* two.                                                                    *)
(***************************************************************************)
EXTENDS Integers

CONSTANTS
  Thread,       \* session threads
  NBuffers      \* FTP_STREAM_BUFFER_COUNT

ASSUME NBuffersAssumption == NBuffers \in Nat

StreamBuffer == 0 .. NBuffers - 1

VARIABLES
  mask,         \* g_stream_buffer_mask
  apc,          \* "idle", or where the thread is in ftp_buffer_acquire:
                \* "load", "cas" or "recheck"
  seen,         \* the copy of the mask it works with
  held,         \* the buffers a thread has been given and not released
  result        \* what its last acquire returned

poolVars == <<mask, apc, seen, held, result>>

PoolInit ==
  /\ mask = {}
  /\ apc = [t \in Thread |-> "idle"]
  /\ seen = [t \in Thread |-> {}]
  /\ held = [t \in Thread |-> {}]
  /\ result = [t \in Thread |-> "none"]

ftp_buffer_acquire(t) ==
  /\ apc[t] = "idle"
  /\ apc' = [apc EXCEPT ![t] = "load"]
  /\ UNCHANGED <<mask, seen, held, result>>

\* The atomic load and the scan of what it returned.
Load(t) ==
  /\ apc[t] = "load"
  /\ seen' = [seen EXCEPT ![t] = mask]
  /\ apc' = [apc EXCEPT ![t] = IF StreamBuffer \subseteq mask THEN "recheck" ELSE "cas"]
  /\ UNCHANGED <<mask, held, result>>

\* b is the buffer of the lowest clear bit of the copy.
FirstClear(t, b) == b \notin seen[t] /\ \A c \in StreamBuffer : c < b => c \in seen[t]

\* ftp_buffer_acquire returns; its local variables are gone.
Return(t, r) ==
  /\ result' = [result EXCEPT ![t] = r]
  /\ apc' = [apc EXCEPT ![t] = "idle"]
  /\ seen' = [seen EXCEPT ![t] = {}]

Retry(t) ==
  /\ apc' = [apc EXCEPT ![t] = "load"]
  /\ seen' = [seen EXCEPT ![t] = {}]
  /\ UNCHANGED result

CompareExchange(t) ==
  /\ apc[t] = "cas"
  /\ mask = seen[t]
  /\ \E b \in StreamBuffer :
        /\ FirstClear(t, b)
        /\ mask' = mask \cup {b}
        /\ held' = [held EXCEPT ![t] = @ \cup {b}]
  /\ Return(t, "buffer")

\* Variant: a thread that lost the race gives up.
CompareExchangeGivesUp(t) ==
  /\ apc[t] = "cas"
  /\ mask # seen[t]
  /\ Return(t, "NULL")
  /\ UNCHANGED <<mask, held>>

\* The mask has changed since it was loaded: start over.
CompareExchangeFails(t) ==
  /\ apc[t] = "cas"
  /\ mask # seen[t]
  /\ Retry(t)
  /\ UNCHANGED <<mask, held>>

\* No bit was clear in the copy; the mask is compared with a second load.
Recheck(t) ==
  /\ apc[t] = "recheck"
  /\ \/ mask = seen[t] /\ Return(t, "NULL")
     \/ mask # seen[t] /\ Retry(t)
  /\ UNCHANGED <<mask, held>>

\* The callers release only buffers that they acquired, once.
ftp_buffer_release(t, b) ==
  /\ apc[t] = "idle" /\ b \in held[t]
  /\ mask' = mask \ {b}
  /\ held' = [held EXCEPT ![t] = @ \ {b}]
  /\ UNCHANGED <<apc, seen, result>>

PoolNext == \E t \in Thread :
  \/ ftp_buffer_acquire(t) \/ Load(t) \/ CompareExchange(t) \/ CompareExchangeFails(t)
  \/ Recheck(t)
  \/ \E b \in StreamBuffer : ftp_buffer_release(t, b)

PoolSpec == PoolInit /\ [][PoolNext]_poolVars

-----------------------------------------------------------------------------
(***************************************************************************)
(* Properties                                                              *)
(***************************************************************************)

\* The variables keep their types.
PoolTypeOK ==
  /\ mask \subseteq StreamBuffer
  /\ apc \in [Thread -> {"idle", "load", "cas", "recheck"}]
  /\ seen \in [Thread -> SUBSET StreamBuffer]
  /\ held \in [Thread -> SUBSET StreamBuffer]
  /\ result \in [Thread -> {"none", "buffer", "NULL"}]

\* No stream buffer is in use by two transfers at once.
Exclusive == \A t, u \in Thread : t # u => held[t] \cap held[u] = {}

\* The bits that are set are those of the buffers in use: no buffer is lost
\* and none is handed out while in use.
MaskIsHeld == mask = UNION {held[t] : t \in Thread}

\* What a thread remembers of the mask between its steps.
SeenFull == \A t \in Thread : apc[t] = "recheck" => seen[t] = StreamBuffer

PoolInv == PoolTypeOK /\ Exclusive /\ MaskIsHeld /\ SeenFull

AtomicPool == INSTANCE AtomicPool WITH
  Thread <- Thread, Buffer <- StreamBuffer, held <- held, result <- result

\* To its callers an acquire is a single step that takes a free buffer, and it
\* returns NULL only if at that step every buffer was in use: losing the race
\* for a bit is never reported as an empty pool.
AcquireIsAtomic == AtomicPool!Spec

\* When several threads race for buffers, some call returns: threads make each
\* other retry only by completing calls.
SomeCallReturns ==
  (\A t \in Thread : apc[t] # "idle") ~> (\E t \in Thread : apc[t] = "idle")

=============================================================================
