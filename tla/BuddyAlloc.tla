----------------------------- MODULE BuddyAlloc -----------------------------
(***************************************************************************)
(* The buddy allocator of pal_alloc.c, from which the copies of files and  *)
(* the bindings of other languages take their buffers.                     *)
(*                                                                         *)
(* An address is counted in words of 8 bytes from the start of the arena.  *)
(* A header is two words, the smallest block (32 bytes) four, and a block  *)
(* of order k has 2^k words, so the model's order 2 is the code's order 5. *)
(* The sections under the spin lock are single steps; what a thread does   *)
(* between two of them (the test of "initialized", the allocation and the  *)
(* release inside pal_allocator_realloc) are steps of its own.             *)
(*                                                                         *)
(* What callers write in their blocks is no header: the words before a     *)
(* pointer are a header only where a block has started.                    *)
(***************************************************************************)
EXTENDS Integers, Sequences, FiniteSets
LOCAL INSTANCE FiniteSetsExt

CONSTANTS
  Threads,     \* the threads that allocate
  MaxOrder,    \* the order of the whole arena
  Base,        \* the address of the arena, in words; 16-byte aligned
  Sizes,       \* the sizes asked for, in words
  Alignments,  \* the alignments asked for, in words
  MaxLive      \* bound on the blocks in use at the same time

MinOrder == 2
HdrSize == 2
Order == MinOrder .. MaxOrder
Words == 0 .. 2^MaxOrder - 1
Starts == {w \in Words : w % 2^MinOrder = 0}

ASSUME BuddyAssumption ==
  /\ MaxOrder \in Nat /\ MaxOrder >= MinOrder
  /\ Base \in Nat /\ Base % 2 = 0
  /\ Sizes \subseteq Nat \ {0}
  /\ \A a \in Alignments : \E k \in 0 .. MaxOrder : a = 2^k
  /\ MaxLive \in Nat

VARIABLES
  initialized,   \* a->initialized
  hdr,           \* the header last written at each place a block can start
  free_lists,    \* a->free_lists
  bytes_in_use,  \* a->bytes_in_use, in words
  caller,        \* each thread's place in its call
  live,          \* history: the blocks handed out and not freed
  torn           \* history: the arena was initialised under live blocks

allocVars == <<initialized, hdr, free_lists, bytes_in_use, caller, live, torn>>

Idle == [at |-> "idle"]
NoHeader == [magic |-> FALSE, order |-> 0, used |-> FALSE]
Header(order, used) == [magic |-> TRUE, order |-> order, used |-> used]
NULL == [off |-> -1]

BuddyInit ==
  /\ initialized = FALSE
  /\ hdr = [s \in Starts |-> NoHeader]
  /\ free_lists = [o \in Order |-> <<>>]
  /\ bytes_in_use = 0
  /\ caller = [t \in Threads |-> Idle]
  /\ live = {}
  /\ torn = FALSE

-----------------------------------------------------------------------------
(* Calls.  A call that allocates carries the size it passes to             *)
(* pal_allocator_malloc, the alignment (0 when there is none) and the      *)
(* pointer that realloc replaces.                                          *)

Owned(t) == {p \in live : p.by = t}
Asks(t, at, size, align, old) ==
  caller' = [caller EXCEPT ![t] = [at |-> at, size |-> size, align |-> align, old |-> old]]

\* pal_malloc, and pal_calloc for a product that does not overflow.
pal_malloc(t, n) ==
  /\ caller[t] = Idle
  /\ Cardinality(live) < MaxLive
  /\ Asks(t, "check", n, 0, NULL)
  /\ UNCHANGED <<initialized, hdr, free_lists, bytes_in_use, live, torn>>

\* pal_aligned_alloc and pal_posix_memalign: room for the alignment and for
\* the word that leads back to the block.
pal_aligned_alloc(t, a, n) ==
  /\ caller[t] = Idle
  /\ Cardinality(live) < MaxLive
  /\ Asks(t, "check", n + a + 1, a, NULL)
  /\ UNCHANGED <<initialized, hdr, free_lists, bytes_in_use, live, torn>>

HeaderAt(w) == IF w \in Starts THEN hdr[w] ELSE NoHeader

\* pal_realloc of a block in use.  The header is read without the lock; the
\* pointer of an aligned block has none and gets NULL, a size that fits gets
\* the same pointer back, and both leave everything as it was.
pal_realloc(t, p, n) ==
  /\ caller[t] = Idle
  /\ initialized
  /\ Cardinality(live) < MaxLive
  /\ LET h == HeaderAt(p.ptr - HdrSize) IN
       /\ h.magic /\ h.used
       /\ n > 2^h.order - HdrSize
  /\ Asks(t, "malloc", n, 0, p)
  /\ UNCHANGED <<initialized, hdr, free_lists, bytes_in_use, live, torn>>

-----------------------------------------------------------------------------
(* First use.                                                              *)

\* pal_malloc and pal_alloc_init_default look at "initialized", nothing is
\* locked, and the thread that finds it 0 initialises the arena.
CheckInitialized(t) ==
  /\ caller[t].at = "check"
  /\ caller' = [caller EXCEPT ![t].at = IF initialized THEN "malloc" ELSE "init"]
  /\ UNCHANGED <<initialized, hdr, free_lists, bytes_in_use, live, torn>>

\* The locked part: one free block, the arena, and the counters back to 0.
pal_allocator_init(t) ==
  /\ caller[t].at = "init"
  /\ initialized' = TRUE
  /\ free_lists' = [o \in Order |-> IF o = MaxOrder THEN <<0>> ELSE <<>>]
  /\ hdr' = [hdr EXCEPT ![0] = Header(MaxOrder, FALSE)]
  /\ bytes_in_use' = 0
  /\ caller' = [caller EXCEPT ![t].at = "malloc"]
  /\ torn' = (live # {})
  /\ UNCHANGED live

-----------------------------------------------------------------------------
(* pal_allocator_malloc.                                                   *)

\* The smallest order whose blocks hold n words and a header.
OrderFor(n) == Min({o \in MinOrder .. MaxOrder + n : 2^o >= n + HdrSize})

\* The order of the block that alloc_locked takes, of the orders that have one.
Candidates(order) == {o \in Order : o >= order /\ free_lists[o] # <<>>}

\* The block is halved down to the order wanted, each upper half made free.
Splits(node, order, cur) ==
  free_lists' = [o \in Order |->
                   IF o = cur THEN Tail(free_lists[o])
                   ELSE IF order <= o /\ o < cur THEN <<node + 2^o>> \o free_lists[o]
                   ELSE free_lists[o]]

SplitHeaders(node, order, cur) ==
  hdr' = [s \in Starts |->
            IF s = node THEN Header(order, TRUE)
            ELSE IF \E o \in order .. cur - 1 : s = node + 2^o
            THEN Header(Min({o \in order .. cur - 1 : s = node + 2^o}), FALSE)
            ELSE hdr[s]]

\* The pointer that pal_allocator_aligned_alloc makes of the block's: past the
\* word that leads back, at the next multiple of the alignment.
RoundUp(w, a) == ((Base + w + a - 1) \div a) * a - Base
PointerIn(node, align) ==
  LET raw == node + HdrSize IN IF align = 0 THEN raw ELSE RoundUp(raw + 1, align)

\* The call returns; when it was made by realloc the old block is freed next.
Returns(t, p) ==
  /\ live' = live \cup {p}
  /\ caller' = [caller EXCEPT ![t] =
                  IF @.old = NULL THEN Idle ELSE [at |-> "free", old |-> @.old]]

alloc_locked(t, order) ==
  LET cur == Min(Candidates(order))
      node == Head(free_lists[cur])
      c == caller[t]
  IN /\ Splits(node, order, cur)
     /\ SplitHeaders(node, order, cur)
     /\ bytes_in_use' = bytes_in_use + 2^order
     /\ Returns(t, [off |-> node, order |-> order, by |-> t,
                    ptr |-> PointerIn(node, c.align),
                    size |-> IF c.align = 0 THEN c.size ELSE c.size - c.align - 1,
                    align |-> c.align])

pal_allocator_malloc(t) ==
  /\ caller[t].at = "malloc"
  /\ LET order == OrderFor(caller[t].size) IN
       IF Candidates(order) # {}
       THEN alloc_locked(t, order)
       ELSE /\ caller' = [caller EXCEPT ![t] = Idle]
            /\ UNCHANGED <<hdr, free_lists, bytes_in_use, live>>
  /\ UNCHANGED <<initialized, torn>>

-----------------------------------------------------------------------------
(* pal_allocator_free.                                                     *)

\* The block a pointer belongs to: the one whose header is before it or, when
\* that is none in use, the one whose pointer is in the word before it.  The
\* word before the pointer of a plain block is the header's padding, 0.
BlockOf(p) ==
  LET h == HeaderAt(p.ptr - HdrSize) IN
  IF h.magic /\ h.used THEN p.ptr - HdrSize
  ELSE IF p.align # 0 /\ hdr[p.off].magic /\ hdr[p.off].used THEN p.off
  ELSE -1

\* The block of order k that contains the word w, and the one it merges with.
Enclosing(w, k) == (w \div 2^k) * 2^k
Buddy(w, k) == IF (w \div 2^k) % 2 = 0 THEN Enclosing(w, k) + 2^k ELSE Enclosing(w, k) - 2^k

\* Variant: a buddy is merged without a look at its order.
MergesAnyOrder(off, k) ==
  /\ k < MaxOrder
  /\ LET b == Buddy(off, k) IN hdr[b].magic /\ ~hdr[b].used

\* The loop goes on at order k: the buddy is free, of the same order, and
\* list_remove finds it.  Its header is not one that the loop has written.
Merges(off, k) ==
  /\ k < MaxOrder
  /\ LET b == Buddy(off, k) IN
       /\ hdr[b].magic /\ ~hdr[b].used /\ hdr[b].order = k
       /\ \E i \in DOMAIN free_lists[k] : free_lists[k][i] = b

\* Variant: a block that is freed is not merged with its buddy.
MergedOrderIsOwn(off, order) == order

\* The order at which the loop ends, for a block freed at this order.
MergedOrder(off, order) == Min({k \in order .. MaxOrder : ~Merges(off, k)})

Without(list, b) == SelectSeq(list, LAMBDA x : x # b)

\* The counters are updated before the loop merges anything.
CountsFreed(order, last) == bytes_in_use' = bytes_in_use - 2^order

free_locked(off) ==
  LET order == hdr[off].order
      last == MergedOrder(off, order)
  IN /\ CountsFreed(order, last)
     /\ hdr' = [s \in Starts |->
                  IF \E k \in order .. last : s = Enclosing(off, k)
                  THEN Header(Max({k \in order .. last : s = Enclosing(off, k)}), FALSE)
                  ELSE hdr[s]]
     /\ free_lists' = [o \in Order |->
                         IF o = last THEN <<Enclosing(off, o)>> \o free_lists[o]
                         ELSE IF order <= o /\ o < last
                         THEN Without(free_lists[o], Buddy(off, o))
                         ELSE free_lists[o]]

Freed(p) ==
  /\ live' = live \ {p}
  /\ IF BlockOf(p) = -1
     THEN UNCHANGED <<hdr, free_lists, bytes_in_use>>
     ELSE free_locked(BlockOf(p))
  /\ UNCHANGED <<initialized, torn>>

pal_free(t, p) ==
  /\ caller[t] = Idle
  /\ Freed(p)
  /\ UNCHANGED caller

\* The end of pal_allocator_realloc, after the copy of the contents.
ReallocFrees(t) ==
  /\ caller[t].at = "free"
  /\ Freed(caller[t].old)
  /\ caller' = [caller EXCEPT ![t] = Idle]

-----------------------------------------------------------------------------
\* When the arena was initialised under live blocks, the next blocks handed
\* out overlap them, and what callers write is read as headers and list
\* nodes: nothing can be said of the behaviour from here on.
Undefined == torn /\ UNCHANGED allocVars

BuddyNext ==
  \/ /\ ~torn
     /\ \E t \in Threads :
          \/ \E n \in Sizes : pal_malloc(t, n)
          \/ \E n \in Sizes, a \in Alignments : pal_aligned_alloc(t, a, n)
          \/ \E n \in Sizes, p \in Owned(t) : pal_realloc(t, p, n)
          \/ \E p \in Owned(t) : pal_free(t, p)
          \/ CheckInitialized(t)
          \/ pal_allocator_init(t)
          \/ pal_allocator_malloc(t)
          \/ ReallocFrees(t)
  \/ Undefined

BuddySpec == BuddyInit /\ [][BuddyNext]_allocVars

-----------------------------------------------------------------------------
(* Properties.                                                             *)

Span(b) == b.off .. b.off + 2^b.order - 1
FreeBlocks == UNION {{[off |-> free_lists[o][i], order |-> o] : i \in DOMAIN free_lists[o]} : o \in Order}
NodesOnLists == MapThenSumSet(LAMBDA o : Len(free_lists[o]), Order)
Handed(p) == p.ptr .. p.ptr + p.size - 1

\* The free blocks and the blocks in use tile the arena: alloc_locked and
\* free_locked, in any order and from any thread, aligned blocks and moves by
\* realloc included, neither lose a word nor hand one out twice, and what a
\* caller was promised lies in its block, behind the header and the slot.  And
\* bytes_in_use is what the live blocks occupy, so it is 0 once all are freed
\* (what test_alloc.c asks at its end), whatever was merged meanwhile.
ArenaIsTiled ==
  initialized /\ ~torn =>
    /\ \A w \in Words :
         Cardinality({b \in FreeBlocks : w \in Span(b)})
           + Cardinality({p \in live : w \in Span(p)}) = 1
    /\ NodesOnLists = Cardinality(FreeBlocks)
    /\ \A p \in live :
         /\ Handed(p) \subseteq Span(p)
         /\ p.ptr >= p.off + HdrSize + (IF p.align = 0 THEN 0 ELSE 1)
         /\ p.align # 0 => (Base + p.ptr) % p.align = 0
    /\ bytes_in_use = MapThenSumSet(LAMBDA p : 2^p.order, live)

Wanted(t) ==
  IF caller[t].at \in {"check", "init", "malloc"} THEN OrderFor(caller[t].size) ELSE -1
AbstractHeap == INSTANCE Heap WITH
  Thread <- Threads,
  TopOrder <- MaxOrder,
  blocks <- {[off |-> p.off, order |-> p.order] : p \in live},
  wanted <- [t \in Threads |-> Wanted(t)]

\* To its callers every call is one step of Heap: pal_allocator_malloc gives
\* a block that meets no other, and refuses only when no aligned span of the
\* order wanted is clear of the blocks in use.  However long the calls go on,
\* free neighbours have been merged and no room is lost to old splits.
CallsAreAtomic == AbstractHeap!HeapSpec

=============================================================================
