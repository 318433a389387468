---------------------------- MODULE MCMultiLock -----------------------------
EXTENDS MultiLock, TLC

CONSTANTS l1, l2, A, B, C

\* Two objects that list the same three mutexes in a different order.
ThreeOrders == [l \in Lockers |-> IF l = l1 THEN 0 :> A @@ 1 :> B @@ 2 :> C
                                  ELSE 0 :> B @@ 1 :> A @@ 2 :> C]

\* Objects that list the same two mutexes in the same order.
SameOrder == [l \in Lockers |-> 0 :> A @@ 1 :> B]
=============================================================================
