--------------------------- MODULE MCSchedulerHeap --------------------------
(* Model checking of SchedulerHeap.                                        *)
EXTENDS SchedulerHeap, TLC

SleeperSymmetry == Permutations(Sleepers) \cup Permutations(Idents)
=============================================================================
