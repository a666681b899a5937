-------------------------------- MODULE Heap --------------------------------
(***************************************************************************)
(* What pal_alloc.c promises its callers: a call returns, in one step, an  *)
(* aligned block of the order it needs that meets no block in use, or NULL *)
(* because at that moment there is no such block.                          *)
(***************************************************************************)
EXTENDS Integers

CONSTANTS
  Thread,     \* the callers
  TopOrder    \* the order of the whole arena

VARIABLES
  blocks,     \* the blocks in use
  wanted      \* the order of the block each caller waits for, or -1

heapVars == <<blocks, wanted>>

Extent(b) == b.off .. b.off + 2^b.order - 1

\* The aligned blocks of an order that are clear of those in use.
Room(order) ==
  IF order > TopOrder THEN {}
  ELSE {b \in {[off |-> k * 2^order, order |-> order] : k \in 0 .. 2^(TopOrder - order) - 1} :
          \A c \in blocks : Extent(b) \cap Extent(c) = {}}

HeapInit == blocks = {} /\ wanted = [t \in Thread |-> -1]

Ask(t) ==
  /\ wanted[t] = -1
  /\ wanted'[t] \in Nat
  /\ wanted' = [wanted EXCEPT ![t] = wanted'[t]]
  /\ UNCHANGED blocks

Give(t) ==
  /\ wanted[t] # -1
  /\ \E b \in Room(wanted[t]) : blocks' = blocks \cup {b}
  /\ wanted' = [wanted EXCEPT ![t] = -1]

Refuse(t) ==
  /\ wanted[t] # -1
  /\ Room(wanted[t]) = {}
  /\ wanted' = [wanted EXCEPT ![t] = -1]
  /\ UNCHANGED blocks

Release(b) == blocks' = blocks \ {b} /\ UNCHANGED wanted

HeapNext ==
  \/ \E t \in Thread : Ask(t) \/ Give(t) \/ Refuse(t)
  \/ \E b \in blocks : Release(b)

HeapSpec == HeapInit /\ [][HeapNext]_heapVars

=============================================================================
