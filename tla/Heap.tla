-------------------------------- MODULE Heap --------------------------------
(***************************************************************************)
(* The kernel heap (kernel/mm/heap.c): one arena cut into blocks, each     *)
(* behind a header, in a doubly linked list; first fit, split, and         *)
(* coalescing on free.  kmalloc, kfree and krealloc (kernel/mm/slab.c) go  *)
(* to it, since slab_init leaves the slab allocator disabled.  Addresses   *)
(* and sizes are in words of sizeof(void* ) bytes from heap_state.start.   *)
(***************************************************************************)
EXTENDS Integers, Sequences, FiniteSets, FiniteSetsExt, Functions

CONSTANTS HEAP_WORDS,     \* heap_state.total_size
          HEADER,         \* sizeof(block_header_t)
          MIN_BLOCK_SIZE,
          ALIGNMENT,
          OBJ_SIZE,       \* caches[0].obj_size, all that slab_init sets
          PAGE_WORDS,
          Lengths,        \* sizes callers ask for
          Alignments,     \* alignments callers ask for, powers of two
          MAX_LIVE        \* bound: allocations a program holds at a time

ASSUME HeapAssumption ==
  /\ {HEAP_WORDS, HEADER, MIN_BLOCK_SIZE, ALIGNMENT, OBJ_SIZE, PAGE_WORDS} \subseteq Nat \ {0}
  /\ HEAP_WORDS > HEADER /\ MIN_BLOCK_SIZE > HEADER
  /\ \A n \in {HEAP_WORDS, HEADER, MIN_BLOCK_SIZE} : n % ALIGNMENT = 0
  /\ Lengths \subseteq Nat \ {0} /\ Alignments \subseteq Nat \ {0}

VARIABLES block,      \* the headers in the list, by address
          used_size,
          live        \* what programs hold: pointer, raw pointer, size, intact words

heap_vars == <<block, used_size, live>>

NoBlock == -1

HeapInit ==
  /\ block = [a \in {0} |-> [size |-> HEAP_WORDS - HEADER, used |-> FALSE,
                             next |-> NoBlock, prev |-> NoBlock]]
  /\ used_size = HEADER
  /\ live = {}

-----------------------------------------------------------------------------
align_size(n) == ((n + ALIGNMENT - 1) \div ALIGNMENT) * ALIGNMENT

\* The headers after block a has been cut down to n words, if what remains
\* is worth a block.
split_block(b, a, n) ==
  IF b[a].size + HEADER < n + HEADER + MIN_BLOCK_SIZE THEN b
  ELSE LET new  == a + HEADER + n
           next == b[a].next
           rest == [size |-> b[a].size - n - HEADER, used |-> FALSE, next |-> next, prev |-> a]
       IN [x \in DOMAIN b \cup {new} |->
             CASE x = new  -> rest
               [] x = a    -> [b[a] EXCEPT !.size = n, !.next = new]
               [] x = next -> [b[x] EXCEPT !.prev = new]
               [] OTHER    -> b[x]]

\* The first block of the list, which runs in address order (BlocksTile), that
\* is free and large enough; none if there is none.
FirstFit(n) ==
  LET fits == {a \in DOMAIN block : ~block[a].used /\ block[a].size >= n}
  IN {a \in fits : \A c \in fits : a <= c}

\* Mutant: the size asked for is counted, not the size given.
AccountAsked(b, a, n) == n + HEADER

\* What an allocation of n words that gets block a adds to used_size.
Account(b, a, n) == b[a].size + HEADER

\* The headers after heap_alloc of n words has taken block a.
Allocated(b, a, n) == [split_block(b, a, align_size(n)) EXCEPT ![a].used = TRUE]

\* heap_alloc of n words in block a, by a program that holds it as h.
Take(a, n, h) ==
  /\ block' = Allocated(block, a, n)
  /\ used_size' = used_size + Account(block', a, align_size(n))
  /\ live' = live \cup {h}

\* What a program knows of n words that it got at block a.
Plain(a, n, intact) ==
  [ptr |-> a + HEADER, raw |-> a + HEADER, size |-> n, align |-> 1, intact |-> intact]

\* heap_alloc that succeeds; else nothing changes and NULL is returned.
heap_alloc(n) ==
  /\ Cardinality(live) < MAX_LIVE
  /\ \E a \in FirstFit(align_size(n)) : Take(a, n, Plain(a, n, n))

\* Mutant: no room is kept for the pointer in front of the aligned address.
AlignedNoRoom(raw, align) == ((raw + align - 1) \div align) * align

\* The aligned address, with room for the original pointer in front of it.
Aligned(raw, align) == ((raw + 1 + align - 1) \div align) * align

heap_alloc_aligned(n, align) ==
  /\ Cardinality(live) < MAX_LIVE
  /\ LET total == n + align + 1 IN
     \E a \in FirstFit(align_size(total)) :
       Take(a, total, [ptr |-> Aligned(a + HEADER, align), raw |-> a + HEADER, size |-> n,
                       align |-> align, intact |-> n])

\* The headers after block n, which follows p, has been absorbed by p.
Absorb(b, p, n) ==
  LET next == b[n].next IN
  [x \in DOMAIN b \ {n} |->
     CASE x = p    -> [b[p] EXCEPT !.size = @ + b[n].size + HEADER, !.next = next]
       [] x = next -> [b[x] EXCEPT !.prev = p]
       [] OTHER    -> b[x]]

Free(b, a) == a # NoBlock /\ ~b[a].used

\* Mutant: only the following block is joined.
CoalesceNext(b, a) == IF Free(b, b[a].next) THEN Absorb(b, a, b[a].next) ELSE b

\* The headers after the free block a has been joined with its neighbours,
\* the following one first.
Coalesce(b, a) ==
  LET joined == IF Free(b, b[a].next) THEN Absorb(b, a, b[a].next) ELSE b
  IN IF Free(joined, joined[a].prev) THEN Absorb(joined, joined[a].prev, a) ELSE joined

Release(b, raw) ==
  LET a == raw - HEADER IN
  [block |-> Coalesce([b EXCEPT ![a].used = FALSE], a), size |-> b[a].size + HEADER]

\* heap_free, or heap_free_aligned, which finds the raw pointer in front.
heap_free(h) ==
  LET r == Release(block, h.raw) IN
  /\ block' = r.block /\ used_size' = used_size - r.size
  /\ live' = live \ {h}

\* The words krealloc copies: the search for the slab's object size ends at
\* the first cache whose obj_size, 0 for all but one, is below the new size.
Copied(h, n) ==
  IF h.raw % PAGE_WORDS = 0 THEN n ELSE IF n > OBJ_SIZE THEN OBJ_SIZE ELSE 0

\* A new block is allocated before the old one is freed.
krealloc(h, n) ==
  \E a \in FirstFit(align_size(n)) :
    LET got  == Allocated(block, a, n)
        r    == Release(got, h.raw)
        kept == Copied(h, n) >= Min({h.size, n}) /\ h.intact = h.size
    IN /\ block' = r.block
       /\ used_size' = (used_size + Account(got, a, align_size(n))) - r.size
       /\ live' = (live \ {h}) \cup
                  {Plain(a, n, IF kept THEN n ELSE Min({Copied(h, n), h.intact, n}))}

HeapNext ==
  \/ \E n \in Lengths : heap_alloc(n) \/ \E align \in Alignments : heap_alloc_aligned(n, align)
  \/ \E h \in live : heap_free(h) \/ (h.align = 1 /\ \E n \in Lengths : krealloc(h, n))

HeapSpec == HeapInit /\ [][HeapNext]_heap_vars

-----------------------------------------------------------------------------
(* Properties.                                                             *)

\* Where block a ends.
End(b, a) == a + HEADER + b[a].size

\* The blocks tile the arena in the order of the list, which reads the same
\* backwards.
BlocksTile ==
  \A a \in DOMAIN block :
    /\ IF block[a].next = NoBlock THEN End(block, a) = HEAP_WORDS
       ELSE /\ End(block, a) = block[a].next /\ block[a].next \in DOMAIN block
            /\ block[block[a].next].prev = a
    /\ block[a].prev = NoBlock <=> a = 0

NoFreeNeighbours == \A a \in DOMAIN block : Free(block, a) => ~Free(block, block[a].next)

\* The list of blocks is sound after every order of splits and joins, and
\* used_size counts the used blocks and their headers (heap.c:127 and 209).
HeapSound ==
  /\ BlocksTile /\ NoFreeNeighbours
  /\ used_size = HEADER + MapThenSumSet(LAMBDA a : block[a].size + HEADER,
                                        {a \in DOMAIN block : block[a].used})

Disjoint(h, k) == h.ptr + h.size <= k.ptr \/ k.ptr + k.size <= h.ptr

\* What a program holds lies in a used block, as large as asked for and
\* aligned, with the raw pointer of an aligned one in front of it; no two
\* allocations overlap; and no used block is held by nobody.
LiveOwned ==
  /\ \A h \in live :
       LET a == h.raw - HEADER IN
       /\ a \in DOMAIN block /\ block[a].used
       /\ h.ptr % h.align = 0 /\ h.raw <= h.ptr /\ h.ptr + h.size <= End(block, a)
       /\ h.align > 1 => h.ptr - 1 >= h.raw
  /\ \A h, k \in live : h # k => Disjoint(h, k)
  /\ \A a \in DOMAIN block : block[a].used => \E h \in live : h.raw - HEADER = a

\* slab.c:333 "Copy old data": a reallocation keeps what the block held, up to
\* the smaller size.
ReallocKeepsData == \A h \in live : h.intact = h.size
=============================================================================
