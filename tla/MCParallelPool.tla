--------------------------- MODULE MCParallelPool ---------------------------
(* TLC instances of ParallelPool. *)
EXTENDS ParallelPool

TooMany   == {9}       \* clamped to PARALLEL_MAX_THREADS
Three     == {3}
TwoTotals == {1, 3}
AutoOrTwo == {0, 2}    \* 0 asks for a chunk size made from the thread count
BothModes == {FALSE, TRUE}
=============================================================================
