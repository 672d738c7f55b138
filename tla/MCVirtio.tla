------------------------------ MODULE MCVirtio ------------------------------
(* A TLC instance of the two VirtIO drivers.  They have queues of their own  *)
(* and share no state, so each behaviour moves one of them.                  *)
EXTENDS MCVirtioBlk, VirtioNet

VARIABLE part

\* The driver that does not move starts in one state.  Contents and sectors are
\* interchangeable, so nothing is lost by the choice of the first call and buffer.
VirtioInit ==
  /\ part \in {"block", "net"}
  /\ Init /\ NetInit
  /\ call.sector = CHOOSE s \in Sectors : TRUE
  /\ \A b \in Buffers : buffer[b] = CHOOSE d \in Data : TRUE
  /\ part = "block" => rxSize = 2 /\ ~netLate
  /\ part = "net" => /\ size = 2
                     /\ \A s \in Sectors : disk[s] = CHOOSE d \in Data : TRUE

VirtioNext ==
  /\ \/ part = "block" /\ Next /\ UNCHANGED net_vars
     \/ part = "net" /\ NetNext /\ UNCHANGED vars
  /\ UNCHANGED part

VirtioSpec == VirtioInit /\ [][VirtioNext]_<<part, vars, net_vars>>

\* Every field of both drivers and devices has its type.
VirtioTypeOK == TypeOK /\ NetTypeOK

\* The used entry a block request takes is its own (virtio_blk.c:733), and in
\* all queues the descriptors nobody holds are in the free list, each once,
\* after failed allocations and timeouts too (virtio_blk.c:671, virtio_net.c:393).
VirtqueueSound == UsedHeadMatches /\ FreeListSound /\ NetQueuesSound
=============================================================================
