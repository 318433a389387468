---------------------------- MODULE WhenAllProofs ---------------------------
(***************************************************************************)
(* Proofs about WhenAll for any finite set of awaiters.                    *)
(***************************************************************************)
EXTENDS WhenAll, FiniteSetTheorems, TLAPS

\* The awaiters that hold one unit of the count.
Counted == {a \in Awaiters : op[a] \in {"suspending", "pending", "forgotten", "resumed"}}

\* The owner holds one until it arrives in await_suspend.
OwnerCounts == owner \in {"building", "adding", "store", "arrive"}

\* The inductive invariant: what the count counts, in each phase of the owner.
CountInv ==
  /\ r \in BOOLEAN
  /\ owner \in {"building", "adding", "store", "arrive", "suspended", "joined",
                "destroyed"}
  /\ op \in [Awaiters -> Ops]
  /\ round \in 1..MaxRounds
  /\ count \in Nat
  /\ r => owner \in {"arrive", "suspended"}
  /\ OwnerCounts => /\ count = Cardinality(Counted) + 1
                    /\ \A a \in Awaiters : op[a] # "last"
  /\ owner = "suspended" => /\ count = Cardinality(Counted)
                            /\ (\E a \in Awaiters : op[a] = "last") => count = 0
                            /\ \A a, b \in Awaiters :
                                 op[a] = "last" /\ op[b] = "last" => a = b
  /\ owner \in {"joined", "destroyed"} => /\ count \in {0, 1}
                                          /\ Counted = {}
                                          /\ \A a \in Awaiters : op[a] # "last"

\* What adding or removing one awaiter does to the number of the counted.
LEMMA CountedChange ==
  ASSUME NEW S, NEW T, IsFiniteSet(S), NEW a
  PROVE  /\ a \notin S /\ T = S \cup {a} => Cardinality(T) = Cardinality(S) + 1
         /\ a \in S /\ T = S \ {a} => Cardinality(T) = Cardinality(S) - 1
         /\ Cardinality(S) \in Nat
         /\ Cardinality(S) = 0 <=> S = {}
<1>1. Cardinality(S) \in Nat
  BY FS_CardinalityType
<1>2. Cardinality(S) = 0 <=> S = {}
  BY FS_EmptySet
<1>3. a \notin S /\ T = S \cup {a} => Cardinality(T) = Cardinality(S) + 1
  BY FS_AddElement
<1>4. a \in S /\ T = S \ {a} => Cardinality(T) = Cardinality(S) - 1
  BY FS_RemoveElement
<1> QED
  BY <1>1, <1>2, <1>3, <1>4

\* There are finitely many of them.
LEMMA CountedFinite == IsFiniteSet(Counted)
  BY WhenAllConstants, FS_Subset DEF Counted

\* A new object counts its owner alone.
LEMMA InitCount == Init => CountInv
<1> SUFFICES ASSUME Init PROVE CountInv
  OBVIOUS
<1>1. Counted = {}
  BY DEF Init, Counted
<1>2. Cardinality(Counted) = 0
  BY <1>1, FS_EmptySet
<1>3. op \in [Awaiters -> Ops] /\ \A a \in Awaiters : op[a] # "last"
  BY DEF Init, Ops
<1>4. count = 1 /\ owner = "building" /\ r = FALSE /\ round \in 1..MaxRounds
  BY WhenAllConstants DEF Init
<1>5. r \in BOOLEAN /\ ~r
  BY <1>4
<1>6. count \in Nat /\ count = Cardinality(Counted) + 1
  BY <1>2, <1>4
<1> QED
  BY <1>3, <1>4, <1>5, <1>6 DEF CountInv, OwnerCounts

\* Every step keeps the balance of the count.
LEMMA NextCount == CountInv /\ [Next]_vars => CountInv'
<1> SUFFICES ASSUME CountInv, [Next]_vars PROVE CountInv'
  OBVIOUS
<1> USE WhenAllConstants
<1>0. IsFiniteSet(Counted) /\ Cardinality(Counted) \in Nat
  BY CountedFinite, FS_CardinalityType
<1>1. ASSUME NEW a \in Awaiters, add(a) PROVE CountInv'
  <2>1. CASE op' = [op EXCEPT ![a] = "done"] /\ UNCHANGED <<count, owner>>
    <3>1. Counted' = Counted
      BY <1>1, <2>1 DEF add, CountInv, Counted
    <3> QED
      BY <1>1, <2>1, <3>1 DEF add, CountInv, Ops, OwnerCounts
  <2>2. CASE /\ count' = count + 1 /\ owner' = "adding"
             /\ op' = [op EXCEPT ![a] = "suspending"]
    <3>1. a \notin Counted /\ Counted' = Counted \cup {a}
      BY <1>1, <2>2 DEF add, CountInv, Counted
    <3>2. Cardinality(Counted') = Cardinality(Counted) + 1
      BY <1>0, <3>1, CountedChange
    <3> QED
      BY <1>0, <1>1, <2>2, <3>2 DEF add, CountInv, Ops, OwnerCounts
  <2> QED
    BY <1>1, <2>1, <2>2 DEF add
<1>2. ASSUME NEW a \in Awaiters, call_await_suspend(a) PROVE CountInv'
  <2>1. PICK l \in {"forgotten", "pending", "resumed"} : op' = [op EXCEPT ![a] = l]
    BY <1>2 DEF call_await_suspend
  <2>2. Counted' = Counted
    BY <1>2, <2>1 DEF call_await_suspend, CountInv, Counted
  <2> QED
    BY <1>2, <2>1, <2>2 DEF call_await_suspend, CountInv, Ops, OwnerCounts
<1>3. CASE await_ready
  <2>1. Counted' = Counted
    BY <1>3 DEF await_ready, Counted
  <2>2. CASE count <= 1
    <3>1. Cardinality(Counted) = 0
      BY <1>0, <1>3, <2>2 DEF await_ready, CountInv, OwnerCounts
    <3>2. Counted = {}
      BY <1>0, <3>1, CountedChange
    <3> QED
      BY <1>0, <1>3, <2>1, <2>2, <3>1, <3>2 DEF await_ready, CountInv, OwnerCounts
  <2>3. CASE ~(count <= 1)
    BY <1>3, <2>1, <2>3 DEF await_ready, CountInv, OwnerCounts
  <2> QED
    BY <2>2, <2>3
<1>4. CASE await_suspend_store
  <2>1. Counted' = Counted
    BY <1>4 DEF await_suspend_store, Counted
  <2> QED
    BY <1>4, <2>1 DEF await_suspend_store, CountInv, OwnerCounts
<1>5. CASE await_suspend_arrive
  <2>1. Counted' = Counted /\ count = Cardinality(Counted) + 1
    BY <1>5 DEF await_suspend_arrive, Counted, CountInv, OwnerCounts
  <2>2. count = 1 => Counted = {}
    BY <1>0, <2>1, CountedChange
  <2>3. CASE count = 1
    <3>1. count' = 0 /\ r' = FALSE /\ owner' = "joined" /\ Counted' = {}
      BY <1>5, <2>1, <2>2, <2>3 DEF await_suspend_arrive
    <3>2. r' \in BOOLEAN /\ ~r'
      BY <3>1
    <3>3. op' = op /\ round' = round /\ \A a \in Awaiters : op'[a] # "last"
      BY <1>5 DEF await_suspend_arrive, CountInv, OwnerCounts
    <3>4. count' \in Nat /\ count' \in {0, 1}
      BY <3>1
    <3> QED
      BY <3>1, <3>2, <3>3, <3>4 DEF CountInv, OwnerCounts
  <2>4. CASE count # 1
    <3>1. /\ count' = Cardinality(Counted') /\ count' \in Nat
          /\ owner' = "suspended" /\ r' = r
      BY <1>0, <1>5, <2>1, <2>4 DEF await_suspend_arrive
    <3> QED
      BY <1>5, <3>1 DEF await_suspend_arrive, CountInv, OwnerCounts
  <2> QED
    BY <2>3, <2>4
<1>6. CASE reset
  <2>1. Counted' = {}
    BY <1>6 DEF reset, Counted
  <2>2. Cardinality(Counted') = 0
    BY <2>1, FS_EmptySet
  <2> QED
    BY <1>6, <2>2 DEF reset, CountInv, Ops, OwnerCounts
<1>7. CASE destroy
  BY <1>7 DEF destroy, CountInv, OwnerCounts, Counted
<1>8. ASSUME NEW a \in Awaiters, complete(a) PROVE CountInv'
  <2>1. Counted' = Counted
    BY <1>8 DEF complete, CountInv, Counted
  <2> QED
    BY <1>8, <2>1 DEF complete, CountInv, Ops, OwnerCounts
<1>9. ASSUME NEW a \in Awaiters, do_resume(a) PROVE CountInv'
  <2>1. a \in Counted /\ Counted' = Counted \ {a}
    BY <1>9 DEF do_resume, CountInv, Counted
  <2>2. Cardinality(Counted') = Cardinality(Counted) - 1 /\ Cardinality(Counted) # 0
    BY <1>0, <2>1, CountedChange
  <2>3. OwnerCounts \/ owner = "suspended"
    BY <2>1 DEF CountInv, OwnerCounts
  <2>4. CASE OwnerCounts
    <3>1. count # 1 /\ count - 1 \in Nat
      BY <1>0, <2>2, <2>4 DEF CountInv
    <3> QED
      BY <1>0, <1>9, <2>2, <2>4, <3>1 DEF do_resume, CountInv, Ops, OwnerCounts
  <2>5. CASE owner = "suspended"
    BY <1>0, <1>9, <2>2, <2>5 DEF do_resume, CountInv, Ops, OwnerCounts
  <2> QED
    BY <2>3, <2>4, <2>5
<1>10. ASSUME NEW a \in Awaiters, do_resume_move_r(a) PROVE CountInv'
  <2>1. owner = "suspended" /\ count = 0 /\ Cardinality(Counted) = 0
    BY <1>10 DEF do_resume_move_r, CountInv, OwnerCounts
  <2>2. Counted = {} /\ Counted' = Counted
    <3>1. Counted = {}
      BY <1>0, <2>1, CountedChange
    <3> QED
      BY <1>10, <3>1 DEF do_resume_move_r, CountInv, Counted
  <2> QED
    BY <1>10, <2>1, <2>2 DEF do_resume_move_r, CountInv, Ops, OwnerCounts
<1>11. CASE UNCHANGED vars
  BY <1>11 DEF vars, CountInv, OwnerCounts, Counted
<1> QED
  BY <1>1, <1>2, <1>3, <1>4, <1>5, <1>6, <1>7, <1>8, <1>9, <1>10, <1>11
     DEF Next, Owner, Awaiter

\* Whatever the order of completions, the owner of when_all goes on only when
\* every awaiter it added has completed and has left do_resume().
THEOREM Joins == Spec => []JoinsAll
<1>1. CountInv => JoinsAll
  BY DEF CountInv, JoinsAll, Counted, Ops
<1> QED
  BY <1>1, InitCount, NextCount, PTL DEF Spec

\* The count stays within its type: it never wraps below zero, nor exceeds
\* one unit for each awaiter and one for the owner.
THEOREM TypeCorrect == Spec => []TypeOK
<1>1. CountInv => TypeOK
  <2> SUFFICES ASSUME CountInv PROVE TypeOK
    OBVIOUS
  <2>1. /\ Cardinality(Counted) \in Nat /\ Cardinality(Awaiters) \in Nat
        /\ Cardinality(Counted) <= Cardinality(Awaiters)
    BY WhenAllConstants, FS_Subset, FS_CardinalityType DEF Counted
  <2>2. count \in 0..(Cardinality(Awaiters) + 1)
    BY <2>1 DEF CountInv, OwnerCounts
  <2> QED
    BY <2>2 DEF CountInv, TypeOK
<1> QED
  BY <1>1, InitCount, NextCount, PTL DEF Spec
=============================================================================
