----------------------------- MODULE MCScheduler -----------------------------
(* TLC instances of Scheduler: the values of the set-valued constants. *)
EXTENDS Scheduler

Shell      == {1}       \* the shell, created first, never blocks or exits
NoSlots    == {}
TwoPrios   == {0, 9}    \* 9 is out of range and clamped
OnlyLowest == {1}
NoDeadlines  == {}
SomeDeadlines  == {0, 1, 2}
EarlyDeadlines == {0, 1}
MissAndNear   == {1, 2}  \* at tick 2 one is missed and one is near
=============================================================================
