---------------------------- MODULE MCScheduler -----------------------------
(* Model checking of Scheduler.                                            *)
EXTENDS Scheduler

CONSTANTS c1, c2, w1, w2

\* One thread calls await() on c1.
AwaitC1 == [w \in Workers |-> IF w = w1 THEN c1 ELSE Nobody]

\* Every worker is a thread of create_thread.
NoneAwaited == [w \in Workers |-> Nobody]
=============================================================================
