----------------------------- MODULE MCVirtioBlk -----------------------------
(* TLC instances of VirtioBlk. *)
EXTENDS VirtioBlk

AllAddrs == {"none", "hdr", "status"} \cup Buffers
=============================================================================
