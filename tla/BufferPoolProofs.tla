-------------------------- MODULE BufferPoolProofs --------------------------
(***************************************************************************)
(* The pool of stream buffers is safe for any number of threads and        *)
(* buffers, and implements AtomicPool.                                     *)
(*                                                                         *)
(* The inductive invariant PoolInv adds to the exclusion of buffers that the  *)
(* mask is the set of the buffers held (so a successful compare-and-       *)
(* exchange on an up-to-date copy finds its bit free), and that a thread   *)
(* about to look at the mask again has a copy in which every bit was set   *)
(* (so an unchanged mask means a full pool).                               *)
(***************************************************************************)
EXTENDS BufferPool, TLAPS

\* PoolInit establishes the invariant.
LEMMA InitIInv == PoolInit => PoolInv
BY DEF PoolInit, PoolInv, PoolTypeOK, Exclusive, MaskIsHeld, SeenFull

\* Giving thread t a buffer that nobody holds keeps the buffers exclusive and
\* adds that buffer to those in use.
LEMMA GiveBuffer ==
  ASSUME PoolInv, NEW t \in Thread, NEW b \in StreamBuffer, b \notin mask,
         held' = [held EXCEPT ![t] = @ \cup {b}], mask' = mask \cup {b}
  PROVE  /\ held' \in [Thread -> SUBSET StreamBuffer] /\ mask' \subseteq StreamBuffer
         /\ Exclusive' /\ MaskIsHeld'
<1>1. held' \in [Thread -> SUBSET StreamBuffer] /\ mask' \subseteq StreamBuffer
  BY DEF PoolInv, PoolTypeOK
<1>2. \A u \in Thread : b \notin held[u]
  BY DEF PoolInv, MaskIsHeld
<1>3. \A u \in Thread : held'[u] = IF u = t THEN held[u] \cup {b} ELSE held[u]
  BY DEF PoolInv, PoolTypeOK
<1>4. Exclusive'
  BY <1>2, <1>3 DEF PoolInv, Exclusive
<1>5. MaskIsHeld'
  BY <1>3 DEF PoolInv, MaskIsHeld
<1> QED
  BY <1>1, <1>4, <1>5

\* Taking back a buffer that thread t holds keeps the buffers exclusive and
\* takes that buffer, and no other, from those in use.
LEMMA TakeBuffer ==
  ASSUME PoolInv, NEW t \in Thread, NEW b \in held[t],
         held' = [held EXCEPT ![t] = @ \ {b}], mask' = mask \ {b}
  PROVE  /\ held' \in [Thread -> SUBSET StreamBuffer] /\ mask' \subseteq StreamBuffer
         /\ Exclusive' /\ MaskIsHeld'
<1>1. held' \in [Thread -> SUBSET StreamBuffer] /\ mask' \subseteq StreamBuffer
  BY DEF PoolInv, PoolTypeOK
<1>2. \A u \in Thread : u # t => b \notin held[u]
  BY DEF PoolInv, Exclusive
<1>3. \A u \in Thread : held'[u] = IF u = t THEN held[u] \ {b} ELSE held[u]
  BY DEF PoolInv, PoolTypeOK
<1>4. Exclusive'
  BY <1>3 DEF PoolInv, Exclusive
<1>5. MaskIsHeld'
  BY <1>2, <1>3 DEF PoolInv, MaskIsHeld
<1> QED
  BY <1>1, <1>4, <1>5

\* Every step of ftp_buffer_acquire and ftp_buffer_release preserves the
\* invariant.
LEMMA NextIInv == PoolInv /\ [PoolNext]_poolVars => PoolInv'
<1> SUFFICES ASSUME PoolInv, [PoolNext]_poolVars PROVE PoolInv'
  OBVIOUS
<1>1. CASE UNCHANGED poolVars
  BY <1>1 DEF PoolInv, PoolTypeOK, Exclusive, MaskIsHeld, SeenFull, poolVars
<1>2. ASSUME NEW t \in Thread, ftp_buffer_acquire(t) PROVE PoolInv'
  BY <1>2 DEF ftp_buffer_acquire, PoolInv, PoolTypeOK, Exclusive, MaskIsHeld, SeenFull
<1>3. ASSUME NEW t \in Thread, Load(t) PROVE PoolInv'
  <2>1. PoolTypeOK'
    BY <1>3 DEF Load, PoolInv, PoolTypeOK
  <2>2. Exclusive' /\ MaskIsHeld'
    BY <1>3 DEF Load, PoolInv, Exclusive, MaskIsHeld
  <2>3. SeenFull'
    BY <1>3 DEF Load, PoolInv, PoolTypeOK, SeenFull
  <2> QED
    BY <2>1, <2>2, <2>3 DEF PoolInv
<1>4. ASSUME NEW t \in Thread, CompareExchange(t) PROVE PoolInv'
  <2>1. PICK b \in StreamBuffer : /\ FirstClear(t, b)
                            /\ mask' = mask \cup {b}
                            /\ held' = [held EXCEPT ![t] = @ \cup {b}]
    BY <1>4 DEF CompareExchange
  <2>2. b \notin mask
    BY <1>4, <2>1 DEF CompareExchange, FirstClear
  <2>3. /\ held' \in [Thread -> SUBSET StreamBuffer] /\ mask' \subseteq StreamBuffer
        /\ Exclusive' /\ MaskIsHeld'
    BY <2>1, <2>2, GiveBuffer
  <2>4. PoolTypeOK'
    BY <1>4, <2>3 DEF CompareExchange, Return, PoolInv, PoolTypeOK
  <2>5. SeenFull'
    BY <1>4 DEF CompareExchange, Return, PoolInv, PoolTypeOK, SeenFull
  <2> QED
    BY <2>3, <2>4, <2>5 DEF PoolInv
<1>5. ASSUME NEW t \in Thread, CompareExchangeFails(t) PROVE PoolInv'
  BY <1>5 DEF CompareExchangeFails, Retry, PoolInv, PoolTypeOK, Exclusive, MaskIsHeld,
              SeenFull
<1>6. ASSUME NEW t \in Thread, Recheck(t) PROVE PoolInv'
  BY <1>6 DEF Recheck, Return, Retry, PoolInv, PoolTypeOK, Exclusive, MaskIsHeld,
              SeenFull
<1>7. ASSUME NEW t \in Thread, NEW b \in StreamBuffer, ftp_buffer_release(t, b)
      PROVE  PoolInv'
  <2>1. /\ held' \in [Thread -> SUBSET StreamBuffer] /\ mask' \subseteq StreamBuffer
        /\ Exclusive' /\ MaskIsHeld'
    BY <1>7, TakeBuffer DEF ftp_buffer_release
  <2> QED
    BY <1>7, <2>1 DEF ftp_buffer_release, PoolInv, PoolTypeOK, SeenFull
<1> QED
  BY <1>1, <1>2, <1>3, <1>4, <1>5, <1>6, <1>7 DEF PoolNext

LEMMA SpecIInv == PoolSpec => []PoolInv
BY InitIInv, NextIInv, PTL DEF PoolSpec

\* For any number of threads and buffers, no stream buffer that
\* ftp_buffer_acquire has handed out is handed out again before its release.
THEOREM BuffersExclusive == PoolSpec => []Exclusive
<1>1. PoolInv => Exclusive
  BY DEF PoolInv
<1> QED
  BY SpecIInv, <1>1, PTL

\* The bit mask never drifts from the buffers in use: no bit is lost to a
\* concurrent acquire or release.
THEOREM MaskExact == PoolSpec => []MaskIsHeld
<1>1. PoolInv => MaskIsHeld
  BY DEF PoolInv
<1> QED
  BY SpecIInv, <1>1, PTL

-----------------------------------------------------------------------------
(***************************************************************************)
(* BufferPool implements AtomicPool                                        *)
(***************************************************************************)

\* The initial states agree.
LEMMA InitAtomic == PoolInit => AtomicPool!Init
BY DEF PoolInit, AtomicPool!Init

\* The successful compare-and-exchange is where a buffer is taken, the second
\* load of an unchanged mask is where the pool is found empty, and the other
\* steps of an acquire are not visible to the callers.
LEMMA NextAtomic ==
  PoolInv /\ [PoolNext]_poolVars => [AtomicPool!Next]_(AtomicPool!vars)
<1> SUFFICES ASSUME PoolInv, [PoolNext]_poolVars
             PROVE  AtomicPool!Next \/ UNCHANGED AtomicPool!vars
  OBVIOUS
<1>1. AtomicPool!Free = StreamBuffer \ mask
  BY DEF PoolInv, MaskIsHeld, AtomicPool!Free
<1>2. CASE UNCHANGED poolVars
  BY <1>2 DEF poolVars, AtomicPool!vars
<1>3. ASSUME NEW t \in Thread,
             ftp_buffer_acquire(t) \/ Load(t) \/ CompareExchangeFails(t)
      PROVE  UNCHANGED AtomicPool!vars
  BY <1>3 DEF ftp_buffer_acquire, Load, CompareExchangeFails, Retry, AtomicPool!vars
<1>4. ASSUME NEW t \in Thread, CompareExchange(t) PROVE AtomicPool!Next
  <2>1. PICK b \in StreamBuffer : /\ FirstClear(t, b)
                            /\ held' = [held EXCEPT ![t] = @ \cup {b}]
    BY <1>4 DEF CompareExchange
  <2>2. AtomicPool!Acquire(t, b)
    BY <1>1, <1>4, <2>1 DEF CompareExchange, FirstClear, Return,
                            AtomicPool!Acquire
  <2> QED
    BY <2>2 DEF AtomicPool!Next
<1>5. ASSUME NEW t \in Thread, Recheck(t)
      PROVE  AtomicPool!Next \/ UNCHANGED AtomicPool!vars
  <2>1. CASE mask = seen[t] /\ Return(t, "NULL")
    <3>1. AtomicPool!Free = {}
      BY <1>1, <1>5, <2>1 DEF Recheck, PoolInv, SeenFull
    <3>2. AtomicPool!AcquireFails(t)
      BY <1>5, <2>1, <3>1 DEF Recheck, Return, AtomicPool!AcquireFails
    <3> QED
      BY <3>2 DEF AtomicPool!Next
  <2>2. CASE mask # seen[t] /\ Retry(t)
    BY <1>5, <2>2 DEF Recheck, Retry, AtomicPool!vars
  <2> QED
    BY <1>5, <2>1, <2>2 DEF Recheck
<1>6. ASSUME NEW t \in Thread, NEW b \in StreamBuffer, ftp_buffer_release(t, b)
      PROVE  AtomicPool!Next
  <2>1. AtomicPool!Release(t, b)
    BY <1>6 DEF ftp_buffer_release, AtomicPool!Release
  <2> QED
    BY <2>1 DEF AtomicPool!Next
<1> QED
  BY <1>2, <1>3, <1>4, <1>5, <1>6 DEF PoolNext

\* For any number of threads and buffers, an acquire behaves as one atomic
\* step, and its NULL means that every buffer was in use.
THEOREM PoolIsAtomic == PoolSpec => AcquireIsAtomic
BY SpecIInv, InitAtomic, NextAtomic, PTL DEF PoolSpec, AcquireIsAtomic, AtomicPool!Spec

=============================================================================
