------------------------------ MODULE Virtqueue ------------------------------
(***************************************************************************)
(* A split virtqueue (kernel/drivers/block/virtio_blk.c:59-251): a table   *)
(* of descriptors whose free ones are linked through their "next" fields,  *)
(* the available ring the driver fills and the used ring the device fills. *)
(* The ring indices are free-running counters of 16 bits, here modulo      *)
(* IDX_MOD, a multiple of the queue's size as 2^16 is.                     *)
(***************************************************************************)
EXTENDS Integers, Sequences, FiniteSets, SequencesExt

CONSTANTS Sizes,    \* numbers of descriptors devices offer, powers of 2
          IDX_MOD,  \* ring indices wrap here (2^16)
          Addrs     \* buffers a descriptor may point to; "none" before its first use

ASSUME VirtqueueAssumption ==
  /\ Sizes \subseteq Nat \ {0} /\ Sizes # {} /\ IDX_MOD \in Nat
  /\ \A n \in Sizes : IDX_MOD % n = 0 /\ IDX_MOD > n

Descs == 0..(Max(Sizes) - 1)   \* room for every queue; the first "size" are used
Nil   == -1                  \* 0xFFFF

VARIABLES size,              \* vq->size, what the device offered
          desc,              \* the descriptor table
          freeHead, freeCount,
          avail, availIdx,   \* written by the driver
          used, usedIdx,     \* written by the device
          lastUsed           \* last_used_idx

freeVars  == <<desc, freeHead, freeCount>>
availVars == <<avail, availIdx>>
usedVars  == <<used, usedIdx>>
vqVars    == <<size, freeVars, availVars, usedVars, lastUsed>>

Flags == {"NEXT", "WRITE"}

\* The n-th descriptor (from 0) of the chain that starts at "from".
Walk(from, n) ==
  LET at[k \in 0..n] == IF k = 0 THEN from
                        ELSE IF at[k - 1] = Nil THEN Nil ELSE desc[at[k - 1]].next
  IN at[n]

virtqueue_alloc ==
  /\ size \in Sizes
  /\ desc = [i \in Descs |-> [addr  |-> "none",
                              flags |-> IF i < size - 1 THEN {"NEXT"} ELSE {},
                              next  |-> IF i < size - 1 THEN i + 1 ELSE Nil]]
  /\ freeHead = 0 /\ freeCount = size
  /\ avail = [i \in Descs |-> 0] /\ availIdx = 0
  /\ used = [i \in Descs |-> 0] /\ usedIdx = 0
  /\ lastUsed = 0

\* The descriptors n calls of virtqueue_alloc_desc return, while n are free.
virtqueue_alloc_desc(n) == [k \in 1..n |-> Walk(freeHead, k - 1)]

\* The table and the head of the free list after virtqueue_free_desc of each
\* descriptor of s in order; the descriptors of s differ.
virtqueue_free_desc(d, head, s) ==
  [desc |-> [i \in Descs |->
               IF \E k \in 1..Len(s) : s[k] = i
               THEN LET k == CHOOSE k \in 1..Len(s) : s[k] = i IN
                      [d[i] EXCEPT !.next = IF k = 1 THEN head ELSE s[k - 1], !.flags = {"NEXT"}]
               ELSE d[i]],
   head |-> IF s = <<>> THEN head ELSE s[Len(s)]]

virtqueue_kick(head) ==
  /\ avail' = [avail EXCEPT ![availIdx % size] = head]
  /\ availIdx' = (availIdx + 1) % IDX_MOD

virtqueue_has_used == usedIdx # lastUsed

\* The head virtqueue_get_used returns, and its consumption.
UsedHead == used[lastUsed % size]
virtqueue_get_used == lastUsed' = IF virtqueue_has_used THEN (lastUsed + 1) % IDX_MOD ELSE lastUsed

VirtqueueTypeOK ==
  /\ size \in Sizes
  /\ desc \in [Descs -> [addr : Addrs, flags : SUBSET Flags, next : Descs \cup {Nil}]]
  /\ freeHead \in Descs \cup {Nil} /\ freeCount \in 0..size
  /\ avail \in [Descs -> Descs] /\ availIdx \in 0..(IDX_MOD - 1)
  /\ used \in [Descs -> Descs] /\ usedIdx \in 0..(IDX_MOD - 1)
  /\ lastUsed \in 0..(IDX_MOD - 1)

\* The free list holds freeCount different descriptors and then ends.
FreeList == {Walk(freeHead, k) : k \in 0..(freeCount - 1)}
FreeListIntact == /\ FreeList \subseteq Descs /\ Cardinality(FreeList) = freeCount
                  /\ Walk(freeHead, freeCount) = Nil
=============================================================================
