------------------------------- MODULE MCNvme -------------------------------
(* TLC instances of Nvme: no definition tells one block's contents from      *)
(* another's, so permuting them is sound for the safety runs.                *)
EXTENDS Nvme, TLC

DataSymmetry == Permutations(Data)
=============================================================================
