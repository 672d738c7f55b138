------------------------------ MODULE MCKernel ------------------------------
(* A TLC instance of the locks and the heap.  They share no state (the heap  *)
(* takes no lock), so each behaviour moves one of them.                      *)
EXTENDS MCLocks, Heap

VARIABLE part

KernelInit == part \in {"locks", "heap"} /\ LocksInit /\ HeapInit

KernelNext ==
  /\ \/ part = "locks" /\ LocksNext /\ UNCHANGED heap_vars
     \/ part = "heap" /\ HeapNext /\ UNCHANGED locks_vars
  /\ UNCHANGED part

\* LocksFairSpec's fairness, where the locks move.
KernelSpec ==
  /\ KernelInit /\ [][KernelNext]_<<part, locks_vars, heap_vars>>
  /\ \A c \in Contexts :
       WF_<<locks_vars>>(/\ part = "locks"
                         /\ Served(c) \/ __raw_spin_unlock(c) \/ arch_irq_restore(c)
                         /\ UNCHANGED <<heap_vars, part>>)
=============================================================================
