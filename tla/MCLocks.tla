------------------------------ MODULE MCLocks ------------------------------
(* TLC instances of Locks: two CPUs, the first with a handler. *)
EXTENDS Locks, TLC
CONSTANTS t1, h1
FirstCpu == (h1 :> t1)
=============================================================================
