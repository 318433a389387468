--------------------------- MODULE SchedulerProofs --------------------------
(***************************************************************************)
(* Proofs about coro_scheduler.h: about SchedulerHeap for heaps of any     *)
(* size, and about Scheduler for any number of coroutines and workers.     *)
(***************************************************************************)
EXTENDS SchedulerHeap, Scheduler, WellFoundedInduction, TLAPS

-----------------------------------------------------------------------------
(* The order of a heap                                                     *)

\* The parent of k has k as one of its two children.
LEMMA ParentFacts ==
  ASSUME NEW k \in Nat, k > 0
  PROVE  Parent(k) \in Nat /\ Parent(k) < k
         /\ \A p \in Nat : Parent(k) = p <=> k = 2 * p + 1 \/ k = 2 * p + 2
  BY DEF Parent

\* A set of natural numbers that is not empty has a least element.
LEMMA LeastElement ==
  ASSUME NEW B, B \subseteq Nat, B # {}
  PROVE  \E m \in B : \A i \in B : m <= i
<1> DEFINE R == OpToRel(<, Nat)
<1>1. IsWellFoundedOn(R, Nat)
  BY NatLessThanWellFounded, Zenon
<1>2. \A x, y \in Nat : <<y, x>> \in R <=> y < x
  BY DEF OpToRel
<1> HIDE DEF R
<1>3. PICK m \in B : \A y \in B : ~ (<<y, m>> \in R)
  BY <1>1, WFMin
<1>4. \A y \in B : ~(y < m) /\ y \in Nat /\ m \in Nat
  BY <1>2, <1>3
<1>5. \A y \in B : m <= y
  BY <1>4
<1> QED
  BY <1>5

\* Where no deadline is before that of its parent, none is before the first:
\* the least index of an earlier one would have an earlier parent.
LEMMA RootMin ==
  ASSUME NEW L \in Nat, NEW t \in [0..(L-1) -> Int],
     \A k \in 1..(L-1) : t[Parent(k)] <= t[k], NEW j \in 0..(L-1)
  PROVE  t[0] <= t[j]
<1> DEFINE B == {k \in Nat : k < L /\ ~(t[0] <= t[k])}
<1> SUFFICES ASSUME B # {} PROVE FALSE
  OBVIOUS
<1>1. B \subseteq Nat
  OBVIOUS
<1> HIDE DEF B
<1>2. PICK m \in B : \A i \in B : m <= i
  BY <1>1, LeastElement
<1> USE DEF B
<1>3. m \in Nat /\ m < L /\ m # 0 /\ t[m] \in Int /\ t[0] \in Int
  OBVIOUS
<1>4. Parent(m) \in Nat /\ Parent(m) < m
  BY <1>3, ParentFacts
<1>5. Parent(m) \notin B
  BY <1>2, <1>4, <1>3
<1>6. t[0] <= t[Parent(m)]
  BY <1>3, <1>4, <1>5
<1> QED
  BY <1>3, <1>4, <1>6

\* The deadline at k is not before that of its parent.
Ordered(t, k) == t[Parent(k)] <= t[k]

\* The first L deadlines are a heap, ...
HeapOrder(t, L) == \A k \in 1 .. (L - 1) : Ordered(t, k)

\* ... except that the one at p may be before its parent: its children are in
\* order with its parent, or ...
UpOrder(t, L, p) ==
  /\ \A k \in 1 .. (L - 1) : k # p => Ordered(t, k)
  /\ p > 0 => \A k \in 1 .. (L - 1) : Parent(k) = p => t[Parent(p)] <= t[k]

\* ... after its children.
DownOrder(t, L, p) ==
  /\ \A k \in 1 .. (L - 1) : Parent(k) # p => Ordered(t, k)
  /\ p > 0 => \A k \in 1 .. (L - 1) : Parent(k) = p => t[Parent(p)] <= t[k]

\* Two deadlines change places.
Swap(t, a, b) == [t EXCEPT ![a] = t[b], ![b] = t[a]]

\* Parents in the range.
LEMMA Parents ==
  ASSUME NEW L \in Nat, NEW k \in 1 .. (L - 1)
  PROVE  Parent(k) \in 0 .. (L - 1) /\ Parent(k) < k /\ k \in 0 .. (L - 1)
  BY ParentFacts

\* An item that is earlier than its parent changes places with it, and is now
\* the only one that may be.
LEMMA UpStep ==
  ASSUME NEW L \in Nat, NEW t \in [0 .. (L - 1) -> Int], NEW p \in 1 .. (L - 1),
         UpOrder(t, L, p), t[Parent(p)] > t[p]
  PROVE  UpOrder(Swap(t, Parent(p), p), L, Parent(p))
<1> DEFINE q == Parent(p)
           u == Swap(t, q, p)
<1>1. q \in 0 .. (L - 1) /\ q < p /\ p \in 0 .. (L - 1)
  BY Parents
<1>2. /\ u[q] = t[p] /\ u[p] = t[q]
      /\ \A k \in 0 .. (L - 1) : k # p /\ k # q => u[k] = t[k]
      /\ \A k \in 0 .. (L - 1) : t[k] \in Int /\ u[k] \in Int
  BY <1>1 DEF Swap
<1>3. /\ \A k \in 1 .. (L - 1) : k # p => t[Parent(k)] <= t[k]
      /\ \A k \in 1 .. (L - 1) : Parent(k) = p => t[q] <= t[k]
  BY DEF UpOrder, Ordered
<1>4. t[q] > t[p]
  OBVIOUS
<1> HIDE DEF u, q
<1>5. ASSUME NEW k \in 1 .. (L - 1), k # q PROVE u[Parent(k)] <= u[k]
  <2>1. Parent(k) \in 0 .. (L - 1) /\ Parent(k) < k /\ k \in 0 .. (L - 1)
    BY Parents
  <2>2. CASE k = p
    BY <2>2, <1>1, <1>2, <1>4 DEF q
  <2>3. CASE k # p /\ Parent(k) = p
    BY <2>1, <2>3, <1>5, <1>1, <1>2, <1>3
  <2>4. CASE k # p /\ Parent(k) = q
    BY <2>1, <2>4, <1>5, <1>1, <1>2, <1>3, <1>4
  <2>5. CASE k # p /\ Parent(k) # q /\ Parent(k) # p
    BY <2>1, <2>5, <1>5, <1>2, <1>3
  <2> QED
    BY <2>2, <2>3, <2>4, <2>5
<1>6. ASSUME q > 0, NEW k \in 1 .. (L - 1), Parent(k) = q PROVE u[Parent(q)] <= u[k]
  <2>1. q \in 1 .. (L - 1) /\ q # p
    BY <1>1, <1>6
  <2>2. Parent(q) \in 0 .. (L - 1) /\ Parent(q) < q
    BY <2>1, Parents
  <2>3. u[Parent(q)] = t[Parent(q)] /\ t[Parent(q)] <= t[q]
    BY <2>1, <2>2, <1>1, <1>2, <1>3
  <2>4. t[q] <= u[k]
    <3>1. k \in 0 .. (L - 1) /\ k # q
      BY Parents, <1>6
    <3> QED
      BY <3>1, <1>2, <1>3, <1>6, <1>1
  <2> QED
    <3>1. t[q] \in Int /\ t[Parent(q)] \in Int /\ u[k] \in Int
      BY <2>2, <1>1, <1>2, Parents
    <3> QED
      BY <2>3, <2>4, <3>1
<1> QED
  <2>1. UpOrder(u, L, q)
    BY <1>5, <1>6 DEF UpOrder, Ordered
  <2> QED
    BY <2>1 DEF u, q


\* An item that is later than one of its children changes places with the
\* earliest of them, among the first L, and is now the only one that may be.
LEMMA DownStep ==
  ASSUME NEW L \in Nat, NEW m \in Nat, L <= m, NEW t \in [0 .. (m - 1) -> Int],
         NEW p \in Nat, NEW f \in 1 .. (L - 1), Parent(f) = p,
         DownOrder(t, L, p), t[f] < t[p],
         \A k \in 1 .. (L - 1) : Parent(k) = p => t[f] <= t[k]
  PROVE  DownOrder(Swap(t, p, f), L, f)
<1> DEFINE u == Swap(t, p, f)
<1>1. p \in 0 .. (L - 1) /\ p < f /\ f \in 0 .. (L - 1) /\ 0 .. (L - 1) \subseteq 0 .. (m - 1)
  BY Parents
<1>2. /\ u[f] = t[p] /\ u[p] = t[f]
      /\ \A k \in 0 .. (L - 1) : k # p /\ k # f => u[k] = t[k]
      /\ \A k \in 0 .. (L - 1) : t[k] \in Int
  BY <1>1 DEF Swap
<1>3. /\ \A k \in 1 .. (L - 1) : Parent(k) # p => t[Parent(k)] <= t[k]
      /\ p > 0 => \A k \in 1 .. (L - 1) : Parent(k) = p => t[Parent(p)] <= t[k]
  BY DEF DownOrder, Ordered
<1> HIDE DEF u
<1>5. ASSUME NEW k \in 1 .. (L - 1), Parent(k) # f PROVE u[Parent(k)] <= u[k]
  <2>1. Parent(k) \in 0 .. (L - 1) /\ Parent(k) < k /\ k \in 0 .. (L - 1)
    BY Parents
  <2>2. CASE k = f
    BY <2>2, <1>1, <1>2
  <2>3. CASE k = p
    BY <2>1, <2>3, <1>1, <1>2, <1>3, <1>5
  <2>4. CASE k # f /\ Parent(k) = p
    BY <2>1, <2>4, <1>1, <1>2
  <2>5. CASE k # p /\ k # f /\ Parent(k) # p
    BY <2>1, <2>5, <1>5, <1>2, <1>3
  <2> QED
    BY <2>2, <2>3, <2>4, <2>5
<1>6. ASSUME NEW k \in 1 .. (L - 1), Parent(k) = f PROVE u[Parent(f)] <= u[k]
  <2>1. f < k /\ k \in 0 .. (L - 1)
    BY Parents, <1>6
  <2> QED
    BY <2>1, <1>1, <1>2, <1>3, <1>6
<1> QED
  <2>1. DownOrder(u, L, f)
    BY <1>5, <1>6 DEF DownOrder, Ordered
  <2> QED
    BY <2>1 DEF u

\* Another deadline at p disturbs the heap above p or below p, according to
\* how it compares with the old one.
LEMMA Update ==
  ASSUME NEW L \in Nat, NEW t \in [0 .. (L - 1) -> Int], NEW p \in 0 .. (L - 1), NEW v \in Int,
         HeapOrder(t, L)
  PROVE  /\ v < t[p] => UpOrder([t EXCEPT ![p] = v], L, p)
         /\ v >= t[p] => DownOrder([t EXCEPT ![p] = v], L, p)
<1> DEFINE u == [t EXCEPT ![p] = v]
<1>1. /\ u[p] = v
      /\ \A k \in 0 .. (L - 1) : k # p => u[k] = t[k]
      /\ \A k \in 0 .. (L - 1) : t[k] \in Int
  OBVIOUS
<1>2. \A k \in 1 .. (L - 1) : t[Parent(k)] <= t[k]
  BY DEF HeapOrder, Ordered
<1>3. \A k \in 1 .. (L - 1) : Parent(k) \in 0 .. (L - 1) /\ Parent(k) < k /\ k \in 0 .. (L - 1)
  BY Parents
<1> HIDE DEF u
<1>4. p > 0 => \A k \in 1 .. (L - 1) : Parent(k) = p => u[Parent(p)] <= u[k]
  <2> SUFFICES ASSUME p > 0, NEW k \in 1 .. (L - 1), Parent(k) = p PROVE u[Parent(p)] <= u[k]
    OBVIOUS
  <2>1. p \in 1 .. (L - 1)
    OBVIOUS
  <2>2. t[Parent(p)] <= t[p] /\ t[p] <= t[k] /\ Parent(p) \in 0 .. (L - 1) /\ Parent(p) < p
        /\ p < k /\ k \in 0 .. (L - 1)
    BY <2>1, <1>2, <1>3
  <2> QED
    BY <2>2, <1>1
<1>5. ASSUME v < t[p], NEW k \in 1 .. (L - 1), k # p PROVE u[Parent(k)] <= u[k]
  <2>1. u[k] = t[k] /\ t[Parent(k)] <= t[k] /\ t[Parent(k)] \in Int /\ t[k] \in Int
    BY <1>1, <1>2, <1>3, <1>5
  <2>2. u[Parent(k)] = t[Parent(k)] \/ (u[Parent(k)] = v /\ v < t[Parent(k)])
    BY <1>1, <1>3, <1>5
  <2> QED
    BY <2>1, <2>2
<1>6. ASSUME v >= t[p], NEW k \in 1 .. (L - 1), Parent(k) # p PROVE u[Parent(k)] <= u[k]
  <2>1. u[Parent(k)] = t[Parent(k)] /\ t[Parent(k)] <= t[k] /\ t[Parent(k)] \in Int /\ t[k] \in Int
    BY <1>1, <1>2, <1>3, <1>6
  <2>2. u[k] = t[k] \/ (u[k] = v /\ v >= t[k])
    BY <1>1, <1>3, <1>6
  <2> QED
    BY <2>1, <2>2
<1>7. /\ v < t[p] => UpOrder(u, L, p)
      /\ v >= t[p] => DownOrder(u, L, p)
  BY <1>4, <1>5, <1>6 DEF UpOrder, DownOrder, Ordered
<1> QED
  BY <1>7 DEF u

\* The first and the last item change places: without the last one, only the
\* new first item may be later than its children.
LEMMA PopOrder ==
  ASSUME NEW L \in Nat, L > 0, NEW t \in [0 .. (L - 1) -> Int], HeapOrder(t, L)
  PROVE  DownOrder(Swap(t, 0, L - 1), L - 1, 0)
<1> DEFINE u == Swap(t, 0, L - 1)
<1>1. \A k \in 0 .. (L - 1) : k # 0 /\ k # L - 1 => u[k] = t[k]
  BY DEF Swap
<1>2. \A k \in 1 .. (L - 1) : t[Parent(k)] <= t[k]
  BY DEF HeapOrder, Ordered
<1>3. \A k \in 1 .. (L - 1) : Parent(k) \in 0 .. (L - 1) /\ Parent(k) < k /\ k \in 0 .. (L - 1)
  BY Parents
<1> HIDE DEF u
<1>4. ASSUME NEW k \in 1 .. (L - 2), Parent(k) # 0 PROVE u[Parent(k)] <= u[k]
  <2>1. k \in 1 .. (L - 1) /\ k # L - 1
    OBVIOUS
  <2> QED
    BY <2>1, <1>1, <1>2, <1>3, <1>4
<1>5. DownOrder(u, L - 1, 0)
  <2>1. (L - 1) - 1 = L - 2
    OBVIOUS
  <2> QED
    BY <2>1, <1>4 DEF DownOrder, Ordered
<1> QED
  BY <1>5 DEF u

-----------------------------------------------------------------------------
(* The inductive invariant                                                 *)

\* The deadlines in the array.
Stamps == [k \in Indices |-> heap[k].timestamp]

\* One of the two loops of update_heap_element is running.
Sifting == phase \in {"up", "down"}

\* pop_heap has put the first item last.
Popping == phase = "popped" \/ (Sifting /\ after = "popped")

\* The order of the heap, as far as the loops have restored it.
Order ==
  /\ phase \in {"idle", "scan"} => HeapOrder(Stamps, size)
  /\ phase = "popped" => HeapOrder(Stamps, size - 1)
  /\ phase = "up" => UpOrder(Stamps, size, pos)
  /\ phase = "down" => DownOrder(Stamps, n, pos)

\* Every result is in one item, and only the last item may be moved from,
\* while a removal goes on.
Results ==
  /\ \A k \in Indices : heap[k].res = None =>
       /\ k = size - 1
       /\ Popping \/ (Sifting /\ after = "pop_back")
  /\ \A j, k \in Indices : heap[j].res = heap[k].res => j = k

\* What the end of a removal can rely on.
Removal ==
  /\ phase = "popped" => after = "popped"
  /\ Sifting /\ after = "popped" => phase = "down"
  /\ Sifting /\ after = "pop_back" => /\ pos # size - 1
                                      /\ heap[size - 1].res = None
                                      /\ heap[pos].timestamp = heap[size - 1].timestamp
  /\ Popping /\ heap[size - 1].res # None =>
       \A k \in Indices : heap[size - 1].timestamp <= heap[k].timestamp

\* k is due in time, if set_time is about it.
Reached(k) == heap[k].ident = arg[1] => heap[k].timestamp <= arg[2]

\* What set_time has done.
Scan ==
  /\ phase = "scan" => /\ arg \in Idents \X Times /\ out = Nothing
                       /\ \A k \in Indices : k < scan => Reached(k)
  /\ Sifting /\ after = "scan" =>
       /\ arg \in Idents \X Times /\ out = Nothing
       /\ \A k \in Indices : k <= scan => Reached(k)
       /\ phase = "up" => pos <= scan
       /\ phase = "down" => pos >= scan /\ heap[pos].timestamp = arg[2]

\* The inductive invariant.  The heap alone is not inductive: it is broken
\* while a loop runs, and a loop can restore it only because one item at most
\* is out of order, in one direction.
HeapInv == HeapTypeOK /\ Order /\ Results /\ Removal /\ Scan

\* The parts of an item.
LEMMA ItemFacts ==
  ASSUME NEW m, NEW h \in [0 .. m -> Item], NEW k \in 0 .. m
  PROVE  /\ h[k] \in Item
         /\ h[k].timestamp \in Int /\ h[k].timestamp \in Times
         /\ h[k].res \in Sleepers \cup {None} /\ h[k].ident \in Idents
<1>1. h[k] \in Item
  OBVIOUS
<1> QED
  BY <1>1, HeapConstants DEF Item

\* There is a deadline for every item.
LEMMA StampsType ==
  ASSUME HeapTypeOK
  PROVE  /\ Stamps \in [0 .. (size - 1) -> Int]
         /\ \A k \in Indices : Stamps[k] = heap[k].timestamp
  BY ItemFacts DEF HeapTypeOK, Stamps, Indices

\* Two items of the array change places.
LEMMA SwapItems ==
  ASSUME HeapTypeOK, NEW h \in [Indices -> Item], NEW a \in Indices, NEW b \in Indices,
         heap' = Swapped(h, a, b), size' = size
  PROVE  /\ heap' \in [Indices' -> Item] /\ Indices' = Indices
         /\ heap'[a] = h[b] /\ heap'[b] = h[a]
         /\ \A k \in Indices : k # a /\ k # b => heap'[k] = h[k]
         /\ (\A k \in Indices : h[k].timestamp = heap[k].timestamp) =>
              Stamps' = Swap(Stamps, a, b)
<1> HIDE DEF Item
<1>1. Indices' = Indices
  BY DEF Indices
<1>2. /\ heap' \in [Indices -> Item]
      /\ heap'[a] = h[b] /\ heap'[b] = h[a]
      /\ \A k \in Indices : k # a /\ k # b => heap'[k] = h[k]
  BY DEF Swapped
<1>3. ASSUME \A k \in Indices : h[k].timestamp = heap[k].timestamp
      PROVE  Stamps' = Swap(Stamps, a, b)
  <2>1. Stamps' = [k \in Indices |-> heap'[k].timestamp]
    BY <1>1 DEF Stamps
  <2>2. Swap(Stamps, a, b) = [k \in Indices |-> IF k = b THEN Stamps[a]
                                               ELSE IF k = a THEN Stamps[b] ELSE Stamps[k]]
    BY DEF Stamps, Swap
  <2>3. \A k \in Indices : Stamps[k] = h[k].timestamp
    BY <1>3 DEF Stamps
  <2> QED
    BY <2>1, <2>2, <2>3, <1>2
<1> QED
  BY <1>1, <1>2, <1>3

\* An empty array.
LEMMA InitInv == HeapInit => HeapInv
<1> SUFFICES ASSUME HeapInit PROVE HeapInv
  OBVIOUS
<1>1. size = 0 /\ Indices = {} /\ phase = "idle" /\ after = "return" /\ pos = 0 /\ n = 0 /\ scan = 0
  BY DEF HeapInit, Indices
<1>2. heap \in [Indices -> Item]
  <2>1. 0 .. (-1) = {}
    OBVIOUS
  <2> QED
    BY <1>1, <2>1 DEF HeapInit
<1>3. HeapTypeOK
  BY <1>1, <1>2 DEF HeapTypeOK
<1>4. Order
  BY <1>1 DEF Order, HeapOrder
<1>5. Results /\ Removal /\ Scan
  BY <1>1 DEF Results, Removal, Scan, Sifting, Popping
<1> QED
  BY <1>3, <1>4, <1>5 DEF HeapInv

\* A last item is added that may be too early for its place.
LEMMA PushOrder ==
  ASSUME NEW L \in Nat, NEW t, NEW u, \A k \in 0 .. (L - 1) : u[k] = t[k], HeapOrder(t, L)
  PROVE  UpOrder(u, L + 1, L)
<1>1. ASSUME NEW k \in 1 .. ((L + 1) - 1) PROVE Parent(k) # L /\ Parent(k) \in 0 .. (L - 1)
  BY ParentFacts
<1>2. ASSUME NEW k \in 1 .. ((L + 1) - 1), k # L PROVE u[Parent(k)] <= u[k]
  BY <1>1, <1>2 DEF HeapOrder, Ordered
<1> QED
  BY <1>1, <1>2 DEF UpOrder, Ordered

\* schedule_at keeps the invariant.
LEMMA Keeps_schedule_at ==
  ASSUME HeapInv, NEW s \in Sleepers, NEW t \in Times, NEW i \in Idents, schedule_at(s, t, i)
  PROVE  HeapInv'
<1> DEFINE new == [timestamp |-> t, res |-> s, ident |-> i]
<1>0. HeapTypeOK /\ size \in Nat /\ heap \in [0 .. (size - 1) -> Item] /\ phase = "idle"
  BY DEF HeapInv, HeapTypeOK, Indices, schedule_at
<1>1. /\ heap' = [k \in 0 .. size |-> IF k < size THEN heap[k] ELSE new]
      /\ size' = size + 1 /\ phase' = "up" /\ after' = "return" /\ pos' = size
      /\ n' = n /\ scan' = scan /\ s \notin Held
  BY DEF schedule_at
<1>2. new \in Item /\ new.timestamp = t /\ new.res = s
  BY DEF Item
<1> HIDE DEF new
<1>3. Indices' = 0 .. size
  BY <1>0, <1>1 DEF Indices
<1>4. /\ heap' \in [0 .. size -> Item] /\ heap'[size] = new
      /\ \A k \in 0 .. (size - 1) : heap'[k] = heap[k]
  <2> HIDE DEF Item
  <2> QED
    BY <1>0, <1>1, <1>2
<1>5. HeapTypeOK'
  BY <1>0, <1>1, <1>3, <1>4 DEF HeapInv, HeapTypeOK
<1>6. Order'
  <2>1. \A k \in 0 .. (size - 1) : Stamps'[k] = Stamps[k]
    <3>1. Stamps' = [k \in 0 .. size |-> heap'[k].timestamp]
      BY <1>3 DEF Stamps
    <3>2. Stamps = [k \in 0 .. (size - 1) |-> heap[k].timestamp]
      BY DEF Stamps, Indices
    <3>3. 0 .. (size - 1) \subseteq 0 .. size
      BY <1>0
    <3> QED
      BY <3>1, <3>2, <3>3, <1>4
  <2>2. HeapOrder(Stamps, size)
    BY <1>0 DEF HeapInv, Order
  <2>3. UpOrder(Stamps', size + 1, size)
    BY <1>0, <2>1, <2>2, PushOrder
  <2> QED
    BY <1>1, <2>3 DEF Order
<1>7. Results'
  <2>1. \A k \in 0 .. (size - 1) : heap[k].res # None /\ heap[k].res # s
    BY <1>0, <1>1, HeapConstants DEF HeapInv, Results, Held, Indices, Popping, Sifting
  <2>2. \A j, k \in 0 .. (size - 1) : heap[j].res = heap[k].res => j = k
    BY DEF HeapInv, Results, Indices
  <2>3. s # None
    BY HeapConstants
  <2>4. \A k \in 0 .. size : k = size \/ k \in 0 .. (size - 1)
    BY <1>0
  <2>5. \A k \in 0 .. size : heap'[k].res # None
    BY <2>1, <2>3, <2>4, <1>2, <1>4
  <2>6. \A j, k \in 0 .. size : heap'[j].res = heap'[k].res => j = k
    BY <2>1, <2>2, <2>4, <1>2, <1>4
  <2> QED
    BY <2>5, <2>6, <1>3 DEF Results
<1>8. Removal' /\ Scan'
  BY <1>1 DEF Removal, Scan, Popping, Sifting
<1> QED
  BY <1>5, <1>6, <1>7, <1>8 DEF HeapInv

-----------------------------------------------------------------------------
(* The loops                                                               *)

\* A step of a loop keeps the results, when it leaves alone the item that is
\* moved from.
LEMMA SwapResults ==
  ASSUME HeapInv, NEW a \in Indices, NEW b \in Indices,
         heap[a].res # None, heap[b].res # None,
         heap' = Swapped(heap, a, b), UNCHANGED <<size, phase, after>>
  PROVE  Results'
<1>1. /\ Indices' = Indices
      /\ heap'[a] = heap[b] /\ heap'[b] = heap[a]
      /\ \A k \in Indices : k # a /\ k # b => heap'[k] = heap[k]
  BY SwapItems DEF HeapInv, HeapTypeOK
<1>2. /\ \A k \in Indices : heap[k].res = None =>
           /\ k = size - 1
           /\ Popping \/ (Sifting /\ after = "pop_back")
      /\ \A j, k \in Indices : heap[j].res = heap[k].res => j = k
  BY DEF HeapInv, Results
<1>3. \A k \in Indices : heap'[k].res = None => k # a /\ k # b /\ heap[k].res = None
  BY <1>1
<1>4. ASSUME NEW j \in Indices, NEW k \in Indices, heap'[j].res = heap'[k].res PROVE j = k
  BY <1>1, <1>2, <1>4
<1>5. Popping' = Popping /\ Sifting' = Sifting
  BY DEF Popping, Sifting
<1> QED
  BY <1>1, <1>2, <1>3, <1>4, <1>5 DEF Results

\* The bounds of the loops.
LEMMA LoopBounds ==
  ASSUME HeapInv, Sifting
  PROVE  /\ size \in Nat /\ pos \in Nat /\ pos < size /\ pos \in Indices
         /\ phase = "down" => n \in Nat /\ n <= size /\ n = IF after = "popped" THEN size - 1 ELSE size
  BY DEF HeapInv, HeapTypeOK, Sifting, Indices

\* An iteration of the loop that moves an item up.
LEMMA MoveUp ==
  ASSUME HeapInv, phase = "up", pos > 0, compare(heap[Parent(pos)], heap[pos]),
         heap' = Swapped(heap, Parent(pos), pos), pos' = Parent(pos),
         UNCHANGED <<size, phase, after, n, scan, arg, out>>
  PROVE  HeapInv'
<1> DEFINE q == Parent(pos)
<1>0. Sifting /\ HeapTypeOK
  BY DEF Sifting, HeapInv
<1>1. size \in Nat /\ pos \in Nat /\ pos < size /\ pos \in Indices /\ Indices = 0 .. (size - 1)
  BY <1>0, LoopBounds DEF Indices
<1>2. q \in Nat /\ q < pos /\ q \in Indices
  BY <1>1, ParentFacts
<1> HIDE DEF q
<1>3. /\ heap' \in [Indices' -> Item] /\ Indices' = Indices
      /\ heap'[q] = heap[pos] /\ heap'[pos] = heap[q]
      /\ \A k \in Indices : k # q /\ k # pos => heap'[k] = heap[k]
      /\ Stamps' = Swap(Stamps, q, pos)
  <2>1. heap \in [Indices -> Item] /\ heap' = Swapped(heap, q, pos) /\ size' = size
    BY <1>0 DEF HeapTypeOK, q
  <2> QED
    BY <1>0, <1>1, <1>2, <2>1, SwapItems
<1>4. HeapTypeOK'
  BY <1>0, <1>1, <1>2, <1>3 DEF HeapTypeOK, q
<1>5. Order'
  <2>1. UpOrder(Stamps, size, pos)
    BY DEF HeapInv, Order
  <2>2. Stamps[Parent(pos)] > Stamps[pos]
    BY <1>0, <1>1, <1>2, StampsType DEF compare, q
  <2>3. UpOrder(Swap(Stamps, Parent(pos), pos), size, Parent(pos))
    BY <1>0, <1>1, <2>1, <2>2, UpStep, StampsType
  <2> QED
    BY <1>3, <2>3 DEF Order, q
<1>6. after = "pop_back" => pos # size - 1
  BY <1>0 DEF HeapInv, Removal
<1>7. after # "popped"
  BY <1>0 DEF HeapInv, Removal
<1>8. Results'
  <2>1. heap[q].res # None /\ heap[pos].res # None
    BY <1>1, <1>2, <1>6, <1>7 DEF HeapInv, Results, Popping
  <2> QED
    BY <1>1, <1>2, <2>1, SwapResults DEF q
<1>9. Removal'
  <2>1. ~Popping'
    BY <1>7 DEF Popping
  <2>2. ASSUME after = "pop_back"
        PROVE  q # size - 1 /\ heap'[size - 1] = heap[size - 1] /\ heap'[q] = heap[pos]
    <3>1. size - 1 \in Indices /\ size - 1 # q /\ size - 1 # pos
      BY <1>1, <1>2, <1>6, <2>2
    <3> QED
      BY <3>1, <1>3
  <2> QED
    BY <1>0, <1>7, <2>1, <2>2 DEF HeapInv, Removal, Sifting, q
<1>10. Scan'
  <2>1. ASSUME after = "scan"
        PROVE  /\ arg \in Idents \X Times /\ out = Nothing /\ pos <= scan /\ scan \in Nat
               /\ \A k \in Indices : k <= scan => Reached(k)
    BY <1>0, <2>1 DEF HeapInv, Scan, HeapTypeOK
  <2>2. ASSUME after = "scan", NEW k \in Indices, k <= scan PROVE Reached(k)'
    <3>1. Reached(pos) /\ Reached(q)
      BY <1>1, <1>2, <2>1, <2>2
    <3> QED
      BY <1>3, <2>1, <2>2, <3>1 DEF Reached
  <2> QED
    BY <1>1, <1>2, <1>3, <2>1, <2>2 DEF Scan, Sifting, q
<1> QED
  BY <1>4, <1>5, <1>8, <1>9, <1>10 DEF HeapInv

\* The loop that moves an item up ends with a heap.
LEMMA StopUp ==
  ASSUME HeapInv, phase = "up", ~(pos > 0 /\ compare(heap[Parent(pos)], heap[pos]))
  PROVE  HeapOrder(Stamps, size)
<1>0. Sifting /\ HeapTypeOK
  BY DEF Sifting, HeapInv
<1>1. size \in Nat /\ pos \in Nat /\ pos < size /\ Indices = 0 .. (size - 1)
  BY <1>0, LoopBounds DEF Indices
<1>2. UpOrder(Stamps, size, pos)
  BY DEF HeapInv, Order
<1>3. ASSUME pos > 0 PROVE Stamps[Parent(pos)] <= Stamps[pos]
  <2>1. Parent(pos) \in Indices /\ pos \in Indices
    BY <1>1, <1>3, ParentFacts
  <2>2. ~(heap[Parent(pos)].timestamp > heap[pos].timestamp)
    BY <1>3 DEF compare
  <2> QED
    BY <1>0, <1>1, <2>1, <2>2, StampsType
<1> QED
  BY <1>1, <1>2, <1>3 DEF UpOrder, HeapOrder, Ordered

\* The child that shift_down chooses.
LEMMA FirstFacts ==
  ASSUME HeapInv, phase = "down"
  PROVE  /\ First(pos) = pos =>
              \A k \in 1 .. (n - 1) : Parent(k) = pos => Stamps[pos] <= Stamps[k]
         /\ First(pos) # pos =>
              /\ First(pos) \in 1 .. (n - 1) /\ Parent(First(pos)) = pos
              /\ Stamps[First(pos)] < Stamps[pos]
              /\ \A k \in 1 .. (n - 1) : Parent(k) = pos => Stamps[First(pos)] <= Stamps[k]
<1> DEFINE left == 2 * pos + 1
           right == 2 * pos + 2
           l == IF left < n /\ compare(heap[pos], heap[left]) THEN left ELSE pos
<1>0. Sifting /\ HeapTypeOK
  BY DEF Sifting, HeapInv
<1>1. size \in Nat /\ pos \in Nat /\ pos < size /\ n \in Nat /\ n <= size /\ Indices = 0 .. (size - 1)
  BY <1>0, LoopBounds DEF Indices
<1>2. First(pos) = IF right < n /\ compare(heap[l], heap[right]) THEN right ELSE l
  BY DEF First
<1>3. /\ Parent(left) = pos /\ Parent(right) = pos
      /\ \A k \in 1 .. (n - 1) : Parent(k) = pos => k = left \/ k = right
  BY <1>1, ParentFacts
<1>4. /\ left \in Nat /\ right \in Nat /\ left > 0 /\ right > 0
      /\ left < n => left \in 1 .. (n - 1) /\ left \in Indices
      /\ right < n => right \in 1 .. (n - 1) /\ right \in Indices
      /\ pos \in Indices /\ left # pos /\ right # pos /\ left < right
  BY <1>1
<1>5. \A k \in Indices : Stamps[k] = heap[k].timestamp /\ Stamps[k] \in Int
  BY <1>0, <1>1, StampsType
<1>6. \A j, k \in Indices : compare(heap[j], heap[k]) <=> Stamps[j] > Stamps[k]
  BY <1>5 DEF compare
<1> HIDE DEF left, right
<1>7. CASE left < n /\ Stamps[pos] > Stamps[left]
  <2>1. l = left /\ l \in Indices
    BY <1>7, <1>4, <1>6
  <2> HIDE DEF l
  <2>2. First(pos) = IF right < n /\ Stamps[left] > Stamps[right] THEN right ELSE left
    BY <1>2, <2>1, <1>4, <1>6
  <2>3. CASE right < n /\ Stamps[left] > Stamps[right]
    BY <2>2, <2>3, <1>3, <1>4, <1>5, <1>7
  <2>4. CASE ~(right < n /\ Stamps[left] > Stamps[right])
    BY <2>2, <2>4, <1>1, <1>3, <1>4, <1>5, <1>7
  <2> QED
    BY <2>3, <2>4
<1>8. CASE ~(left < n /\ Stamps[pos] > Stamps[left])
  <2>1. l = pos /\ l \in Indices
    BY <1>8, <1>4, <1>6
  <2> HIDE DEF l
  <2>2. First(pos) = IF right < n /\ Stamps[pos] > Stamps[right] THEN right ELSE pos
    BY <1>2, <2>1, <1>4, <1>6
  <2>3. CASE right < n /\ Stamps[pos] > Stamps[right]
    BY <2>2, <2>3, <1>1, <1>3, <1>4, <1>5, <1>8
  <2>4. CASE ~(right < n /\ Stamps[pos] > Stamps[right])
    BY <2>2, <2>4, <1>1, <1>3, <1>4, <1>5, <1>8
  <2> QED
    BY <2>3, <2>4
<1> QED
  BY <1>7, <1>8

\* The loop that moves an item down ends with a heap.
LEMMA StopDown ==
  ASSUME HeapInv, phase = "down", First(pos) = pos
  PROVE  HeapOrder(Stamps, n)
<1>1. DownOrder(Stamps, n, pos)
  BY DEF HeapInv, Order
<1> QED
  BY <1>1, FirstFacts DEF DownOrder, HeapOrder, Ordered

\* An iteration of the loop that moves an item down.
LEMMA MoveDown ==
  ASSUME HeapInv, phase = "down", First(pos) # pos,
         heap' = Swapped(heap, pos, First(pos)), pos' = First(pos),
         UNCHANGED <<size, phase, after, n, scan, arg, out>>
  PROVE  HeapInv'
<1> DEFINE f == First(pos)
<1>0. Sifting /\ HeapTypeOK
  BY DEF Sifting, HeapInv
<1>1. /\ size \in Nat /\ pos \in Nat /\ pos < size /\ pos \in Indices /\ Indices = 0 .. (size - 1)
      /\ n \in Nat /\ n <= size /\ n = IF after = "popped" THEN size - 1 ELSE size
  BY <1>0, LoopBounds DEF Indices
<1>2. /\ f \in 1 .. (n - 1) /\ Parent(f) = pos /\ Stamps[f] < Stamps[pos]
      /\ \A k \in 1 .. (n - 1) : Parent(k) = pos => Stamps[f] <= Stamps[k]
  BY FirstFacts
<1> HIDE DEF f
<1>3. f \in Nat /\ pos < f /\ f < n /\ f \in Indices
  BY <1>1, <1>2, ParentFacts
<1>4. /\ heap' \in [Indices' -> Item] /\ Indices' = Indices
      /\ heap'[pos] = heap[f] /\ heap'[f] = heap[pos]
      /\ \A k \in Indices : k # pos /\ k # f => heap'[k] = heap[k]
      /\ Stamps' = Swap(Stamps, pos, f)
  <2>1. heap \in [Indices -> Item] /\ heap' = Swapped(heap, pos, f) /\ size' = size
    BY <1>0 DEF HeapTypeOK, f
  <2> QED
    BY <1>0, <1>1, <1>3, <2>1, SwapItems
<1>5. \A k \in Indices : Stamps[k] = heap[k].timestamp /\ Stamps[k] \in Int
  BY <1>0, <1>1, StampsType
<1>6. HeapTypeOK'
  BY <1>0, <1>1, <1>3, <1>4 DEF HeapTypeOK, f
<1>7. Order'
  <2>1. DownOrder(Stamps, n, pos)
    BY DEF HeapInv, Order
  <2>2. DownOrder(Swap(Stamps, pos, f), n, f)
    BY <1>0, <1>1, <1>2, <2>1, DownStep, StampsType
  <2> QED
    BY <1>4, <2>2 DEF Order, f
<1>8. after \in {"popped", "pop_back"} => pos # size - 1 /\ f # size - 1
  <2>1. ASSUME after = "pop_back" PROVE pos # size - 1 /\ f # size - 1
    <3>1. pos # size - 1 /\ heap[pos].timestamp = heap[size - 1].timestamp
      BY <1>0, <2>1 DEF HeapInv, Removal
    <3> QED
      BY <3>1, <1>1, <1>2, <1>3, <1>5
  <2> QED
    BY <1>1, <1>3, <2>1
<1>9. Results'
  <2>1. heap[f].res # None /\ heap[pos].res # None
    BY <1>1, <1>3, <1>8 DEF HeapInv, Results, Popping
  <2> QED
    BY <1>1, <1>3, <2>1, SwapResults DEF f
<1>10. Removal'
  <2>1. ASSUME after \in {"popped", "pop_back"}
        PROVE  size - 1 \in Indices /\ heap'[size - 1] = heap[size - 1]
    <3>1. size - 1 \in Indices /\ size - 1 # f /\ size - 1 # pos
      BY <1>1, <1>8, <2>1
    <3> QED
      BY <3>1, <1>4
  <2>2. ASSUME after = "popped", heap'[size - 1].res # None, NEW k \in Indices
        PROVE  heap'[size - 1].timestamp <= heap'[k].timestamp
    <3>1. \A j \in Indices : heap[size - 1].timestamp <= heap[j].timestamp
      BY <1>0, <2>1, <2>2 DEF HeapInv, Removal, Popping
    <3>2. \E j \in Indices : heap'[k] = heap[j]
      BY <1>1, <1>3, <1>4
    <3> QED
      BY <2>1, <2>2, <3>1, <3>2
  <2>3. ASSUME after = "pop_back"
        PROVE  /\ f # size - 1 /\ heap'[size - 1].res = None
               /\ heap'[f].timestamp = heap'[size - 1].timestamp
    BY <1>0, <1>4, <1>8, <2>1, <2>3 DEF HeapInv, Removal
  <2>4. phase' = "down" /\ size' = size /\ pos' = f /\ after' = after /\ Indices' = Indices
    BY <1>4 DEF f
  <2> QED
    BY <2>2, <2>3, <2>4 DEF Removal, Popping, Sifting
<1>11. Scan'
  <2>1. ASSUME after = "scan"
        PROVE  /\ arg \in Idents \X Times /\ out = Nothing /\ pos >= scan /\ scan \in Nat
               /\ heap[pos].timestamp = arg[2]
               /\ \A k \in Indices : k <= scan => Reached(k)
    BY <1>0, <2>1 DEF HeapInv, Scan, HeapTypeOK
  <2>2. ASSUME after = "scan", NEW k \in Indices, k <= scan PROVE Reached(k)'
    <3>1. CASE k = pos
      <4>1. heap'[k].timestamp < arg[2] /\ heap'[k].timestamp \in Int /\ arg[2] \in Int
        BY <1>1, <1>2, <1>3, <1>4, <1>5, <2>1, <2>2, <3>1
      <4> QED
        BY <4>1 DEF Reached
    <3>2. CASE k # pos
      <4>1. k # f
        BY <1>1, <1>3, <2>1, <2>2
      <4>2. heap'[k] = heap[k] /\ Reached(k)
        BY <1>4, <2>1, <2>2, <3>2, <4>1
      <4> QED
        BY <4>2 DEF Reached
    <3> QED
      BY <3>1, <3>2
  <2>3. ASSUME after = "scan" PROVE f >= scan /\ heap'[f].timestamp = arg[2]
    BY <1>1, <1>3, <1>4, <2>1, <2>3
  <2>4. phase' = "down" /\ pos' = f /\ after' = after /\ Indices' = Indices
    BY <1>4 DEF f
  <2> QED
    BY <2>1, <2>2, <2>3, <2>4 DEF Scan, Sifting
<1> QED
  BY <1>6, <1>7, <1>9, <1>10, <1>11 DEF HeapInv

\* A heap does not depend on what follows it.
LEMMA HeapPrefix ==
  ASSUME NEW L \in Nat, NEW m \in Nat, m <= L, NEW t, NEW u,
         \A k \in 0 .. (m - 1) : u[k] = t[k], HeapOrder(t, L)
  PROVE  HeapOrder(u, m)
<1> SUFFICES ASSUME NEW k \in 1 .. (m - 1) PROVE u[Parent(k)] <= u[k]
  BY DEF HeapOrder, Ordered
<1>1. Parent(k) \in 0 .. (m - 1) /\ k \in 0 .. (m - 1) /\ k \in 1 .. (L - 1)
  BY Parents
<1> QED
  BY <1>1 DEF HeapOrder, Ordered

\* What pop_back leaves.
LEMMA PopBack ==
  ASSUME HeapTypeOK, size > 0, pop_back
  PROVE  /\ size' \in Nat /\ size' = size - 1
         /\ Indices' = 0 .. (size - 2) /\ Indices' = Indices \ {size - 1}
         /\ heap' \in [Indices' -> Item]
         /\ \A k \in Indices' : heap'[k] = heap[k] /\ Stamps'[k] = Stamps[k]
<1>1. size \in Nat /\ size' = size - 1 /\ size' \in Nat
  BY DEF HeapTypeOK, pop_back
<1>2. (size - 1) - 1 = size - 2
  BY <1>1
<1>3. Indices' = 0 .. (size - 2) /\ Indices' = Indices \ {size - 1}
  BY <1>1, <1>2 DEF Indices
<1>4. heap' = [k \in Indices' |-> heap[k]] /\ heap \in [Indices -> Item] /\ Indices' \subseteq Indices
  BY <1>3 DEF pop_back, HeapTypeOK
<1> HIDE DEF Item
<1>5. heap' \in [Indices' -> Item] /\ \A k \in Indices' : heap'[k] = heap[k]
  BY <1>4
<1>6. Stamps' = [k \in Indices' |-> heap'[k].timestamp]
  BY DEF Stamps
<1>7. \A k \in Indices' : Stamps'[k] = Stamps[k]
  BY <1>4, <1>5, <1>6 DEF Stamps
<1> QED
  BY <1>1, <1>3, <1>5, <1>7

\* A call that ends leaves a heap without items that are moved from.
LEMMA EndOfCall ==
  ASSUME HeapTypeOK', HeapOrder(Stamps', size'), phase' = "idle",
         \A k \in Indices' : heap'[k].res # None,
         \A j, k \in Indices' : heap'[j].res = heap'[k].res => j = k
  PROVE  HeapInv'
  BY DEF HeapInv, Order, Results, Removal, Scan, Sifting, Popping

\* What follows the loops keeps the invariant.
LEMMA Keeps_Return ==
  ASSUME HeapInv, Sifting, Return, UNCHANGED <<arg, out>>,
         HeapOrder(Stamps, IF after = "popped" THEN size - 1 ELSE size)
  PROVE  HeapInv'
<1>0. HeapTypeOK
  BY DEF HeapInv
<1>1. size \in Nat /\ pos \in Nat /\ size > 0 /\ pos \in Indices /\ Indices = 0 .. (size - 1)
  BY LoopBounds DEF Indices
<1>2. /\ \A k \in Indices : heap[k].res = None => k = size - 1 /\ after \in {"popped", "pop_back"}
      /\ \A j, k \in Indices : heap[j].res = heap[k].res => j = k
  BY DEF HeapInv, Results, Popping, Sifting
<1>3. CASE after = "return"
  <2>1. phase' = "idle" /\ heap' = heap /\ size' = size /\ scan' = scan
        /\ after' = "return" /\ pos' = 0 /\ n' = 0
    BY <1>3 DEF Return, EndCall
  <2>2. Indices' = Indices /\ Stamps' = Stamps
    BY <2>1 DEF Indices, Stamps
  <2>3. HeapTypeOK'
    BY <1>0, <2>1, <2>2 DEF HeapTypeOK
  <2>4. HeapOrder(Stamps', size')
    BY <1>3, <2>1, <2>2
  <2> QED
    BY <1>2, <1>3, <2>1, <2>2, <2>3, <2>4, EndOfCall
<1>4. CASE after = "popped"
  <2>1. phase' = "popped" /\ heap' = heap /\ size' = size /\ scan' = scan
        /\ after' = after /\ pos' = pos /\ n' = n
    BY <1>4 DEF Return
  <2>2. Indices' = Indices /\ Stamps' = Stamps
    BY <2>1 DEF Indices, Stamps
  <2>3. HeapTypeOK'
    BY <1>0, <1>1, <2>1, <2>2 DEF HeapTypeOK
  <2>4. Order'
    BY <1>4, <2>1, <2>2 DEF Order
  <2>5. Results'
    BY <1>2, <2>1, <2>2 DEF Results, Popping
  <2>6. Removal'
    BY <1>4, <2>1, <2>2 DEF HeapInv, Removal, Popping, Sifting
  <2>7. Scan'
    BY <2>1 DEF Scan, Sifting
  <2> QED
    BY <2>3, <2>4, <2>5, <2>6, <2>7 DEF HeapInv
<1>5. CASE after = "pop_back"
  <2>1. phase' = "idle" /\ pop_back /\ scan' = scan /\ after' = "return" /\ pos' = 0 /\ n' = 0
    BY <1>5 DEF Return, EndCall
  <2>2. /\ size' \in Nat /\ size' = size - 1
        /\ Indices' = 0 .. (size - 2) /\ Indices' = Indices \ {size - 1}
        /\ heap' \in [Indices' -> Item]
        /\ \A k \in Indices' : heap'[k] = heap[k] /\ Stamps'[k] = Stamps[k]
    BY <1>0, <1>1, <2>1, PopBack
  <2>3. HeapTypeOK'
    BY <1>0, <2>1, <2>2 DEF HeapTypeOK
  <2>4. HeapOrder(Stamps', size')
    <3>1. Indices' = 0 .. (size' - 1) /\ size' <= size
      BY <1>1, <2>2
    <3>2. HeapOrder(Stamps, size)
      BY <1>5
    <3> QED
      BY <1>1, <2>2, <3>1, <3>2, HeapPrefix
  <2> QED
    BY <1>2, <2>1, <2>2, <2>3, <2>4, EndOfCall
<1>6. CASE after = "scan"
  <2>1. phase' = "scan" /\ heap' = heap /\ size' = size /\ scan' = scan + 1
        /\ after' = "return" /\ pos' = 0 /\ n' = 0
    BY <1>6 DEF Return
  <2>2. Indices' = Indices /\ Stamps' = Stamps
    BY <2>1 DEF Indices, Stamps
  <2>3. HeapTypeOK'
    BY <1>0, <1>1, <2>1, <2>2 DEF HeapTypeOK
  <2>4. Order'
    BY <1>6, <2>1, <2>2 DEF Order
  <2>5. Results'
    BY <1>2, <1>6, <2>1, <2>2 DEF Results
  <2>6. Removal'
    BY <2>1 DEF Removal, Popping, Sifting
  <2>7. /\ arg \in Idents \X Times /\ out = Nothing /\ scan \in Nat
        /\ \A k \in Indices : k <= scan => Reached(k)
    BY <1>0, <1>6 DEF HeapInv, Scan, HeapTypeOK
  <2>8. \A k \in Indices : k < scan + 1 => k <= scan
    BY <1>1, <2>7
  <2>9. Scan'
    BY <2>1, <2>2, <2>7, <2>8 DEF Scan, Sifting, Reached
  <2> QED
    BY <2>3, <2>4, <2>5, <2>6, <2>9 DEF HeapInv
<1> QED
  BY <1>3, <1>4, <1>5, <1>6 DEF Return

\* Both loops keep the invariant.
LEMMA Keeps_shift ==
  ASSUME HeapInv, shift_up \/ shift_down
  PROVE  HeapInv'
<1>1. CASE shift_up
  <2>1. phase = "up" /\ Sifting /\ after # "popped"
    BY <1>1 DEF shift_up, Sifting, HeapInv, Removal
  <2>2. CASE pos > 0 /\ compare(heap[Parent(pos)], heap[pos])
    BY <1>1, <2>1, <2>2, MoveUp DEF shift_up
  <2>3. CASE ~(pos > 0 /\ compare(heap[Parent(pos)], heap[pos]))
    <3>1. Return /\ UNCHANGED <<arg, out>>
      BY <1>1, <2>3 DEF shift_up
    <3>2. HeapOrder(Stamps, size)
      BY <2>1, <2>3, StopUp
    <3> QED
      BY <2>1, <3>1, <3>2, Keeps_Return
  <2> QED
    BY <2>2, <2>3
<1>2. CASE shift_down
  <2>1. phase = "down" /\ Sifting
    BY <1>2 DEF shift_down, Sifting
  <2>2. CASE First(pos) # pos
    BY <1>2, <2>1, <2>2, MoveDown DEF shift_down
  <2>3. CASE First(pos) = pos
    <3>1. Return /\ UNCHANGED <<arg, out>>
      BY <1>2, <2>3 DEF shift_down
    <3>2. HeapOrder(Stamps, n) /\ n = IF after = "popped" THEN size - 1 ELSE size
      BY <2>1, <2>3, StopDown, LoopBounds
    <3> QED
      BY <2>1, <3>1, <3>2, Keeps_Return
  <2> QED
    BY <2>2, <2>3
<1> QED
  BY <1>1, <1>2

-----------------------------------------------------------------------------
(* The operations                                                          *)

\* pop_heap, also of an array whose first result was taken, keeps the
\* invariant.
LEMMA Keeps_pop_heap ==
  ASSUME HeapInv, phase = "idle", size > 0, NEW h \in [Indices -> Item],
         \A k \in Indices : h[k].timestamp = heap[k].timestamp,
         \A k \in Indices : k # 0 => h[k] = heap[k],
         h[0].res \in {heap[0].res, None},
         pop_heap(h), size' = size, scan' = scan
  PROVE  HeapInv'
<1>0. HeapTypeOK /\ HeapOrder(Stamps, size)
  BY DEF HeapInv, Order
<1>1. size \in Nat /\ Indices = 0 .. (size - 1) /\ 0 \in Indices /\ size - 1 \in Indices
  BY <1>0 DEF HeapTypeOK, Indices
<1>2. phase' = "down" /\ after' = "popped" /\ pos' = 0 /\ n' = size - 1
  BY DEF pop_heap
<1>3. /\ heap' \in [Indices' -> Item] /\ Indices' = Indices
      /\ heap'[0] = h[size - 1] /\ heap'[size - 1] = h[0]
      /\ \A k \in Indices : k # 0 /\ k # size - 1 => heap'[k] = h[k]
      /\ Stamps' = Swap(Stamps, 0, size - 1)
  <2>1. heap' = Swapped(h, 0, size - 1)
    BY DEF pop_heap
  <2> QED
    BY <1>0, <1>1, <2>1, SwapItems
<1>4. /\ \A k \in Indices : heap[k].res # None
      /\ \A j, k \in Indices : heap[j].res = heap[k].res => j = k
  BY DEF HeapInv, Results, Popping, Sifting
<1>5. HeapTypeOK'
  BY <1>0, <1>1, <1>2, <1>3 DEF HeapTypeOK
<1>6. Order'
  BY <1>0, <1>1, <1>2, <1>3, PopOrder, StampsType DEF Order
<1>7. Results'
  <2>1. ASSUME NEW k \in Indices, k # size - 1
        PROVE  \E j \in Indices : j # 0 /\ heap'[k] = heap[j]
    BY <1>1, <1>3, <2>1
  <2>2. ASSUME NEW k \in Indices, heap'[k].res = None PROVE k = size - 1
    BY <1>4, <2>1, <2>2
  <2>3. ASSUME NEW j \in Indices, NEW k \in Indices, heap'[j].res = heap'[k].res PROVE j = k
    <3>1. \A i \in Indices : i # size - 1 =>
            heap'[i].res = heap[IF i = 0 THEN size - 1 ELSE i].res
      BY <1>1, <1>3
    <3>2. heap'[size - 1].res \in {heap[0].res, None}
      BY <1>3
    <3> QED
      BY <1>1, <1>4, <2>3, <3>1, <3>2
  <2> QED
    BY <1>2, <1>3, <2>2, <2>3 DEF Results, Popping, Sifting
<1>8. Removal'
  <2>1. \A j \in Indices : heap[0].timestamp <= heap[j].timestamp
    <3>1. \A j \in Indices : Stamps[0] <= Stamps[j]
      BY <1>0, <1>1, RootMin, StampsType DEF HeapOrder, Ordered
    <3> QED
      BY <1>0, <1>1, <3>1, StampsType
  <2>2. \A k \in Indices : \E j \in Indices : heap'[k].timestamp = heap[j].timestamp
    BY <1>1, <1>3
  <2>3. heap'[size - 1].timestamp = heap[0].timestamp
    BY <1>1, <1>3
  <2>4. \A k \in Indices : heap'[size - 1].timestamp <= heap'[k].timestamp
    BY <2>1, <2>2, <2>3
  <2> QED
    BY <1>2, <1>3, <2>4 DEF Removal, Popping, Sifting
<1>9. Scan'
  BY <1>2 DEF Scan, Sifting
<1> QED
  BY <1>5, <1>6, <1>7, <1>8, <1>9 DEF HeapInv

\* update_heap_element starts the loop that can repair the heap.
LEMMA UpdateElement ==
  ASSUME HeapTypeOK, HeapOrder(Stamps, size), NEW h \in [Indices -> Item],
         \A k \in Indices : h[k].timestamp = heap[k].timestamp,
         NEW p \in Indices, NEW item \in Item, update_heap_element(h, p, item), size' = size
  PROVE  /\ heap' \in [Indices' -> Item] /\ Indices' = Indices
         /\ heap'[p] = item
         /\ \A k \in Indices : k # p => heap'[k] = h[k]
         /\ phase' \in {"up", "down"} /\ pos' = p /\ n' = size
         /\ Order'
<1>1. size \in Nat /\ Indices = 0 .. (size - 1) /\ Indices' = Indices
  BY DEF HeapTypeOK, Indices
<1>2. /\ heap' = [h EXCEPT ![p] = item] /\ pos' = p /\ n' = size
      /\ phase' = IF compare(h[p], item) THEN "up" ELSE "down"
  BY DEF update_heap_element
<1>3. /\ heap' \in [Indices -> Item] /\ heap'[p] = item
      /\ \A k \in Indices : k # p => heap'[k] = h[k]
  <2> HIDE DEF Item
  <2> QED
    BY <1>2
<1>4. item.timestamp \in Int
  BY HeapConstants DEF Item
<1>5. Stamps' = [Stamps EXCEPT ![p] = item.timestamp]
  <2>1. Stamps' = [k \in Indices |-> heap'[k].timestamp]
    BY <1>1 DEF Stamps
  <2>2. [Stamps EXCEPT ![p] = item.timestamp] =
          [k \in Indices |-> IF k = p THEN item.timestamp ELSE Stamps[k]]
    BY DEF Stamps
  <2>3. \A k \in Indices : Stamps[k] = h[k].timestamp
    BY DEF Stamps
  <2> QED
    BY <2>1, <2>2, <2>3, <1>3
<1>6. compare(h[p], item) <=> Stamps[p] > item.timestamp
  BY StampsType DEF compare
<1>7. Stamps[p] \in Int
  BY <1>1, StampsType
<1>8. Order'
  <2>1. /\ item.timestamp < Stamps[p] => UpOrder(Stamps', size, p)
        /\ item.timestamp >= Stamps[p] => DownOrder(Stamps', size, p)
    BY <1>1, <1>4, <1>5, Update, StampsType
  <2> QED
    BY <1>2, <1>4, <1>6, <1>7, <2>1 DEF Order
<1> QED
  BY <1>1, <1>2, <1>3, <1>8

\* remove_first keeps the invariant.
LEMMA Keeps_remove_first ==
  ASSUME HeapInv, remove_first
  PROVE  HeapInv'
<1>1. heap \in [Indices -> Item] /\ phase = "idle" /\ size > 0 /\ pop_heap(heap)
      /\ size' = size /\ scan' = scan
  BY DEF remove_first, HeapInv, HeapTypeOK
<1> QED
  BY <1>1, Keeps_pop_heap

\* The end of remove_first keeps the invariant.
LEMMA Keeps_remove_first_pop ==
  ASSUME HeapInv, remove_first_pop
  PROVE  HeapInv'
<1>0. HeapTypeOK /\ phase = "popped" /\ size > 0 /\ size \in Nat /\ HeapOrder(Stamps, size - 1)
  BY DEF HeapInv, remove_first_pop, HeapTypeOK, Order
<1>1. phase' = "idle" /\ pop_back /\ scan' = scan /\ after' = "return" /\ pos' = 0 /\ n' = 0
  BY DEF remove_first_pop, EndCall
<1>2. /\ size' \in Nat /\ size' = size - 1
      /\ Indices' = 0 .. (size - 2) /\ Indices' = Indices \ {size - 1}
      /\ heap' \in [Indices' -> Item]
      /\ \A k \in Indices' : heap'[k] = heap[k] /\ Stamps'[k] = Stamps[k]
  BY <1>0, <1>1, PopBack
<1>3. HeapTypeOK'
  BY <1>0, <1>1, <1>2 DEF HeapTypeOK
<1>4. HeapOrder(Stamps', size')
  <2>1. Indices' = 0 .. (size' - 1)
    BY <1>0, <1>2
  <2> QED
    BY <1>0, <1>2, <2>1, HeapPrefix
<1>5. /\ \A k \in Indices : heap[k].res = None => k = size - 1
      /\ \A j, k \in Indices : heap[j].res = heap[k].res => j = k
  BY DEF HeapInv, Results
<1> QED
  BY <1>1, <1>2, <1>3, <1>4, <1>5, EndOfCall

\* remove_by_ident keeps the invariant.
LEMMA Keeps_remove_by_ident ==
  ASSUME HeapInv, NEW i \in Idents, remove_by_ident(i)
  PROVE  HeapInv'
<1>0. /\ HeapTypeOK /\ phase = "idle" /\ HeapOrder(Stamps, size) /\ heap \in [Indices -> Item]
      /\ scan' = scan
  BY DEF HeapInv, remove_by_ident, HeapTypeOK, Order
<1>1. PICK k \in Indices :
        LET h == [heap EXCEPT ![k].res = None] IN
          \/ k = 0 /\ pop_heap(h) /\ UNCHANGED size
          \/ k # 0 /\ k = size - 1 /\ pop_back /\ UNCHANGED <<phase, after, pos, n>>
          \/ /\ k # 0 /\ k # size - 1
             /\ update_heap_element([h EXCEPT ![size - 1].res = None], k, heap[size - 1])
             /\ after' = "pop_back" /\ UNCHANGED size
  BY DEF remove_by_ident
<1>2. size \in Nat /\ Indices = 0 .. (size - 1) /\ size > 0 /\ size - 1 \in Indices /\ 0 \in Indices
  BY <1>0 DEF HeapTypeOK, Indices
<1>3. /\ \A j \in Indices : heap[j].res # None
      /\ \A j, l \in Indices : heap[j].res = heap[l].res => j = l
  BY <1>0 DEF HeapInv, Results, Popping, Sifting
<1> DEFINE h == [heap EXCEPT ![k].res = None]
<1>4. /\ h \in [Indices -> Item] /\ h[k].res = None
      /\ \A j \in Indices : h[j].timestamp = heap[j].timestamp
      /\ \A j \in Indices : j # k => h[j] = heap[j]
  <2>1. heap[k] \in Item
    BY <1>0
  <2>2. /\ [heap[k] EXCEPT !.res = None] \in Item
        /\ [heap[k] EXCEPT !.res = None].res = None
        /\ [heap[k] EXCEPT !.res = None].timestamp = heap[k].timestamp
    BY <2>1 DEF Item
  <2>3. h = [heap EXCEPT ![k] = [heap[k] EXCEPT !.res = None]]
    BY <1>0
  <2> HIDE DEF Item, h
  <2>4. h \in [Indices -> Item] /\ h[k] = [heap[k] EXCEPT !.res = None]
        /\ \A j \in Indices : j # k => h[j] = heap[j]
    BY <1>0, <2>2, <2>3
  <2> QED
    BY <2>2, <2>4
<1> HIDE DEF h
<1>5. CASE k = 0 /\ pop_heap(h) /\ UNCHANGED size
  BY <1>0, <1>2, <1>4, <1>5, Keeps_pop_heap
<1>6. CASE k # 0 /\ k = size - 1 /\ pop_back /\ UNCHANGED <<phase, after, pos, n>>
  <2>1. /\ size' \in Nat /\ size' = size - 1
        /\ Indices' = 0 .. (size - 2) /\ Indices' = Indices \ {size - 1}
        /\ heap' \in [Indices' -> Item]
        /\ \A j \in Indices' : heap'[j] = heap[j] /\ Stamps'[j] = Stamps[j]
    BY <1>0, <1>2, <1>6, PopBack
  <2>2. HeapTypeOK'
    BY <1>0, <1>6, <2>1 DEF HeapTypeOK
  <2>3. HeapOrder(Stamps', size')
    <3>1. Indices' = 0 .. (size' - 1) /\ size' <= size
      BY <1>2, <2>1
    <3> QED
      BY <1>0, <1>2, <2>1, <3>1, HeapPrefix
  <2> QED
    BY <1>0, <1>3, <1>6, <2>1, <2>2, <2>3, EndOfCall
<1>7. CASE /\ k # 0 /\ k # size - 1
           /\ update_heap_element([h EXCEPT ![size - 1].res = None], k, heap[size - 1])
           /\ after' = "pop_back" /\ UNCHANGED size
  <2> DEFINE g == [h EXCEPT ![size - 1].res = None]
  <2>1. /\ g \in [Indices -> Item] /\ g[size - 1].res = None
        /\ \A j \in Indices : g[j].timestamp = heap[j].timestamp
        /\ \A j \in Indices : j # k /\ j # size - 1 => g[j] = heap[j]
    <3>1. h[size - 1] \in Item
      BY <1>2, <1>4
    <3>2. /\ [h[size - 1] EXCEPT !.res = None] \in Item
          /\ [h[size - 1] EXCEPT !.res = None].res = None
          /\ [h[size - 1] EXCEPT !.res = None].timestamp = h[size - 1].timestamp
      BY <3>1 DEF Item
    <3>3. g = [h EXCEPT ![size - 1] = [h[size - 1] EXCEPT !.res = None]]
      BY <1>4
    <3> HIDE DEF Item, g
    <3>4. g \in [Indices -> Item] /\ g[size - 1] = [h[size - 1] EXCEPT !.res = None]
          /\ \A j \in Indices : j # size - 1 => g[j] = h[j]
      BY <1>2, <1>4, <3>2, <3>3
    <3> QED
      BY <1>2, <1>4, <3>2, <3>4
  <2>2. update_heap_element(g, k, heap[size - 1]) /\ heap[size - 1] \in Item
    BY <1>0, <1>2, <1>7
  <2> HIDE DEF g
  <2>3. /\ heap' \in [Indices' -> Item] /\ Indices' = Indices
        /\ heap'[k] = heap[size - 1]
        /\ \A j \in Indices : j # k => heap'[j] = g[j]
        /\ phase' \in {"up", "down"} /\ pos' = k /\ n' = size
        /\ Order'
    BY <1>0, <1>7, <2>1, <2>2, UpdateElement
  <2>4. HeapTypeOK'
    BY <1>0, <1>2, <1>7, <2>3 DEF HeapTypeOK
  <2>5. /\ heap'[size - 1].res = None /\ heap'[size - 1].timestamp = heap[size - 1].timestamp
        /\ \A j \in Indices : j # k /\ j # size - 1 => heap'[j] = heap[j]
    BY <1>2, <1>7, <2>1, <2>3
  <2>6. Results'
    <3>1. \A j \in Indices : heap'[j].res = None => j = size - 1
      BY <1>2, <1>3, <2>3, <2>5
    <3>2. \A j, l \in Indices : heap'[j].res = heap'[l].res => j = l
      BY <1>2, <1>3, <1>7, <2>3, <2>5
    <3> QED
      BY <1>7, <2>3, <3>1, <3>2 DEF Results, Sifting
  <2>7. Removal'
    BY <1>7, <2>3, <2>5 DEF Removal, Popping, Sifting
  <2>8. Scan'
    BY <1>7, <2>3 DEF Scan, Sifting
  <2> QED
    BY <2>3, <2>4, <2>6, <2>7, <2>8 DEF HeapInv
<1> QED
  BY <1>1, <1>5, <1>6, <1>7 DEF h

\* set_time keeps the invariant.
LEMMA Keeps_set_time ==
  ASSUME HeapInv, NEW i \in Idents, NEW t \in Times, set_time(i, t)
  PROVE  HeapInv'
<1>1. /\ phase = "idle" /\ phase' = "scan" /\ scan' = 0 /\ arg' = <<i, t>> /\ out' = Nothing
      /\ heap' = heap /\ size' = size /\ after' = after /\ pos' = pos /\ n' = n
  BY DEF set_time
<1>2. Indices' = Indices /\ Stamps' = Stamps
  BY <1>1 DEF Indices, Stamps
<1>3. HeapTypeOK'
  BY <1>1, <1>2 DEF HeapInv, HeapTypeOK
<1>4. Order'
  BY <1>1, <1>2 DEF HeapInv, Order
<1>5. Results'
  BY <1>1, <1>2 DEF HeapInv, Results, Popping, Sifting
<1>6. Removal'
  BY <1>1 DEF Removal, Popping, Sifting
<1>7. Scan'
  BY <1>1, <1>2 DEF Scan, Sifting, Indices, Reached
<1> QED
  BY <1>3, <1>4, <1>5, <1>6, <1>7 DEF HeapInv

\* The loop of set_time keeps the invariant.
LEMMA Keeps_set_time_scan ==
  ASSUME HeapInv, set_time_scan
  PROVE  HeapInv'
<1>0. /\ HeapTypeOK /\ phase = "scan" /\ HeapOrder(Stamps, size) /\ heap \in [Indices -> Item]
      /\ size' = size /\ out' = out /\ scan \in Nat
  BY DEF HeapInv, set_time_scan, HeapTypeOK, Order
<1>1. size \in Nat /\ Indices = 0 .. (size - 1)
  BY <1>0 DEF HeapTypeOK, Indices
<1>2. /\ arg \in Idents \X Times /\ out = Nothing
      /\ \A k \in Indices : k < scan => Reached(k)
  BY <1>0 DEF HeapInv, Scan
<1>3. /\ \A k \in Indices : heap[k].res # None
      /\ \A j, k \in Indices : heap[j].res = heap[k].res => j = k
  BY <1>0 DEF HeapInv, Results, Popping, Sifting
<1>4. CASE /\ scan < size
           /\ heap[scan].ident = arg[1]
           /\ update_heap_element(heap, scan, [heap[scan] EXCEPT !.timestamp = arg[2]])
           /\ after' = "scan"
           /\ UNCHANGED <<scan, arg>>
  <2> DEFINE item == [heap[scan] EXCEPT !.timestamp = arg[2]]
  <2>1. scan \in Indices /\ heap[scan] \in Item
    BY <1>0, <1>1, <1>4
  <2>2. item \in Item /\ item.timestamp = arg[2] /\ item.res = heap[scan].res
        /\ arg[2] \in Int
    BY <2>1, <1>2, HeapConstants DEF Item
  <2> HIDE DEF item
  <2>3. /\ heap' \in [Indices' -> Item] /\ Indices' = Indices
        /\ heap'[scan] = item
        /\ \A k \in Indices : k # scan => heap'[k] = heap[k]
        /\ phase' \in {"up", "down"} /\ pos' = scan /\ n' = size
        /\ Order'
    <3>1. update_heap_element(heap, scan, item)
      BY <1>4 DEF item
    <3> QED
      BY <1>0, <2>1, <2>2, <3>1, UpdateElement
  <2>4. HeapTypeOK'
    BY <1>0, <1>1, <1>4, <2>3 DEF HeapTypeOK
  <2>5. \A k \in Indices : heap'[k].res = heap[k].res
    BY <2>2, <2>3
  <2>6. Results'
    BY <1>3, <2>3, <2>5 DEF Results
  <2>7. Removal'
    BY <1>4, <2>3 DEF Removal, Popping, Sifting
  <2>8. ASSUME NEW k \in Indices, k <= scan PROVE Reached(k)'
    <3>1. CASE k = scan
      BY <1>4, <2>2, <2>3, <3>1 DEF Reached
    <3>2. CASE k # scan
      <4>1. k < scan
        BY <1>0, <1>1, <2>8, <3>2
      <4> QED
        BY <1>2, <1>4, <2>3, <3>2, <4>1 DEF Reached
    <3> QED
      BY <3>1, <3>2
  <2>9. Scan'
    BY <1>0, <1>2, <1>4, <2>2, <2>3, <2>8 DEF Scan, Sifting
  <2> QED
    BY <2>3, <2>4, <2>6, <2>7, <2>9 DEF HeapInv
<1>5. CASE /\ scan < size
           /\ heap[scan].ident # arg[1]
           /\ scan' = scan + 1
           /\ UNCHANGED <<heap, phase, after, pos, n, arg>>
  <2>1. Indices' = Indices /\ Stamps' = Stamps
    BY <1>0, <1>5 DEF Indices, Stamps
  <2>2. HeapTypeOK'
    BY <1>0, <1>5, <2>1 DEF HeapTypeOK
  <2>3. Order'
    BY <1>0, <1>5, <2>1 DEF Order
  <2>4. Results'
    BY <1>3, <1>5, <2>1 DEF Results
  <2>5. Removal'
    BY <1>0, <1>5 DEF Removal, Popping, Sifting
  <2>6. \A k \in Indices : k < scan + 1 => k < scan \/ k = scan
    BY <1>0, <1>1
  <2>7. Scan'
    BY <1>0, <1>2, <1>5, <2>1, <2>6 DEF Scan, Sifting, Reached
  <2> QED
    BY <2>2, <2>3, <2>4, <2>5, <2>7 DEF HeapInv
<1>6. CASE scan >= size /\ EndCall /\ scan' = 0 /\ arg' = Nothing /\ UNCHANGED heap
  <2>1. Indices' = Indices /\ Stamps' = Stamps /\ phase' = "idle"
    BY <1>0, <1>6 DEF Indices, Stamps, EndCall
  <2>2. HeapTypeOK'
    BY <1>0, <1>6, <2>1 DEF HeapTypeOK, EndCall
  <2> QED
    BY <1>0, <1>3, <1>6, <2>1, <2>2, EndOfCall
<1> QED
  BY <1>4, <1>5, <1>6 DEF set_time_scan

\* Every step keeps the invariant.
LEMMA NextInv == HeapInv /\ [HeapNext]_heapVars => HeapInv'
<1> SUFFICES ASSUME HeapInv, [HeapNext]_heapVars PROVE HeapInv'
  OBVIOUS
<1>1. CASE HeapNext
  BY <1>1, Keeps_schedule_at, Keeps_remove_first, Keeps_remove_first_pop,
     Keeps_remove_by_ident, Keeps_set_time, Keeps_set_time_scan, Keeps_shift
     DEF HeapNext
<1>2. CASE UNCHANGED heapVars
  BY <1>2 DEF heapVars, HeapInv, HeapTypeOK, Order, Results, Removal, Scan, Sifting, Popping, Stamps,
     Indices, Reached
<1> QED
  BY <1>1, <1>2

\* The inductive invariant holds always.
LEMMA Invariance == HeapSpec => []HeapInv
  BY InitInv, NextInv, PTL DEF HeapSpec

\* For heaps of any size, the loops of update_heap_element stay inside of the
\* array, and items are where they should be.
THEOREM HeapTypeCorrect == HeapSpec => []HeapTypeOK
<1>1. HeapInv => HeapTypeOK
  BY DEF HeapInv
<1> QED
  BY <1>1, Invariance, PTL

\* Whatever sequence of schedule_at, remove_first, remove_by_ident and set_time
\* is called, the array is a heap when the call returns: both loops, started
\* in the direction that update_heap_element chooses, repair it.
THEOREM HeapRestored == HeapSpec => []HeapBetweenCalls
<1>1. HeapInv => HeapBetweenCalls
  <2> SUFFICES ASSUME HeapInv, phase = "idle", NEW k \in 1 .. (size - 1)
               PROVE  ~compare(heap[Parent(k)], heap[k])
    BY DEF HeapBetweenCalls, IsHeap
  <2>1. HeapTypeOK /\ size \in Nat /\ Stamps[Parent(k)] <= Stamps[k] /\ Indices = 0 .. (size - 1)
    BY DEF HeapInv, HeapTypeOK, Order, HeapOrder, Ordered, Indices
  <2>2. Parent(k) \in Indices /\ k \in Indices
    BY <2>1, Parents
  <2> QED
    BY <2>1, <2>2, StampsType DEF compare
<1> QED
  BY <1>1, Invariance, PTL

\* No call loses or duplicates the result object of a sleeping coroutine, and
\* none leaves an item in the array whose result was moved out.
THEOREM NoResultLost == HeapSpec => []ResultsKept
<1>1. HeapInv => ResultsKept
  BY DEF HeapInv, Results, ResultsKept, Popping, Sifting
<1> QED
  BY <1>1, Invariance, PTL

\* When the loop of set_time ends, no item with the identity is due later than
\* the new time: what update_heap_element moves across the index of the loop
\* is due by then already, or had another identity.
THEOREM AllReached == HeapSpec => []SetTimeReachesAll
<1>1. HeapInv => SetTimeReachesAll
  <2> SUFFICES ASSUME HeapInv, phase = "scan", scan >= size, NEW k \in Indices,
                      heap[k].ident = arg[1]
               PROVE  heap[k].timestamp <= arg[2]
    BY DEF SetTimeReachesAll
  <2>1. k < scan
    BY DEF HeapInv, HeapTypeOK, Indices
  <2> QED
    BY <2>1 DEF HeapInv, Scan, Reached
<1> QED
  BY <1>1, Invariance, PTL

-----------------------------------------------------------------------------
(* The refinement of TimerQueue                                            *)

\* What IsTimerQueue substitutes for the variables of TimerQueue.
Timestamps == [s \in Sleepers |-> IF s \in Held THEN heap[Place(s)].timestamp ELSE None]
Identities == [s \in Sleepers |-> IF s \in Held THEN heap[Place(s)].ident ELSE None]

\* d and e show the items of the array h with the indices in D, except for
\* those that are moved from.
Shows(d, e, h, D) ==
  /\ d = [s \in Sleepers |-> d[s]] /\ e = [s \in Sleepers |-> e[s]]
  /\ \A s \in Sleepers :
       /\ \A k \in D : h[k].res = s => d[s] = h[k].timestamp /\ e[s] = h[k].ident
       /\ (\A k \in D : h[k].res # s) => d[s] = None /\ e[s] = None

\* They do so when no result is in two items.
LEMMA ShowsItems ==
  ASSUME NEW h, NEW D, \A j, k \in D : h[j].res = h[k].res => j = k
  PROVE  LET held == {h[k].res : k \in D} \ {None}
             place(s) == CHOOSE k \in D : h[k].res = s
         IN  Shows([s \in Sleepers |-> IF s \in held THEN h[place(s)].timestamp ELSE None],
                   [s \in Sleepers |-> IF s \in held THEN h[place(s)].ident ELSE None], h, D)
<1> DEFINE held == {h[k].res : k \in D} \ {None}
           place(s) == CHOOSE k \in D : h[k].res = s
           d == [s \in Sleepers |-> IF s \in held THEN h[place(s)].timestamp ELSE None]
           e == [s \in Sleepers |-> IF s \in held THEN h[place(s)].ident ELSE None]
<1>1. ASSUME NEW s \in Sleepers, NEW k \in D, h[k].res = s
      PROVE  d[s] = h[k].timestamp /\ e[s] = h[k].ident
  <2>1. s \in held
    BY <1>1, HeapConstants
  <2>2. place(s) \in D /\ h[place(s)].res = s
    BY <1>1
  <2>3. place(s) = k
    BY <1>1, <2>2
  <2> HIDE DEF held, place
  <2> QED
    BY <2>1, <2>3
<1>2. ASSUME NEW s \in Sleepers, \A k \in D : h[k].res # s
      PROVE  d[s] = None /\ e[s] = None
  <2>1. s \notin held
    BY <1>2
  <2> HIDE DEF held
  <2> QED
    BY <2>1
<1>3. d = [s \in Sleepers |-> d[s]] /\ e = [s \in Sleepers |-> e[s]]
  <2> HIDE DEF held, place
  <2> QED
    OBVIOUS
<1>4. Shows(d, e, h, D)
  <2> HIDE DEF d, e
  <2> QED
    BY <1>1, <1>2, <1>3 DEF Shows
<1> QED
  BY <1>4

\* The two functions of the refinement show the items of the array, ...
LEMMA ShowsBefore == ASSUME HeapInv PROVE Shows(Timestamps, Identities, heap, Indices)
<1>1. \A j, k \in Indices : heap[j].res = heap[k].res => j = k
  BY DEF HeapInv, Results
<1> QED
  BY <1>1, ShowsItems DEF Timestamps, Identities, Held, Place

\* ... after a step as before it.
LEMMA ShowsAfter == ASSUME HeapInv' PROVE Shows(Timestamps', Identities', heap', Indices')
<1>1. \A j, k \in Indices' : heap'[j].res = heap'[k].res => j = k
  BY DEF HeapInv, Results
<1> QED
  BY <1>1, ShowsItems DEF Timestamps, Identities, Held, Place

\* The same items, in whatever order, show as the same.
LEMMA SameItems ==
  ASSUME NEW d, NEW e, NEW h, NEW D, NEW a, NEW b, NEW g, NEW C,
         Shows(d, e, h, D), Shows(a, b, g, C),
         \A k \in D : h[k].res # None => \E j \in C : g[j] = h[k],
         \A j \in C : g[j].res # None => \E k \in D : h[k] = g[j]
  PROVE  a = d /\ b = e
<1>1. ASSUME NEW s \in Sleepers PROVE a[s] = d[s] /\ b[s] = e[s]
  <2>0. s # None
    BY HeapConstants
  <2>1. CASE \E k \in D : h[k].res = s
    <3>1. PICK k \in D : h[k].res = s
      BY <2>1
    <3>2. PICK j \in C : g[j] = h[k]
      BY <2>0, <3>1
    <3> QED
      BY <3>1, <3>2 DEF Shows
  <2>2. CASE \A k \in D : h[k].res # s
    <3>1. \A j \in C : g[j].res # s
      BY <2>0, <2>2
    <3> QED
      BY <2>2, <3>1 DEF Shows
  <2> QED
    BY <2>1, <2>2
<1> QED
  BY <1>1 DEF Shows

\* Every item of h, but the one that holds s and those that are moved from,
\* is in g.
Within(h, D, s, g, C) ==
  \A k \in D : h[k].res # None /\ h[k].res # s => \E j \in C : g[j] = h[k]

\* Without the item that holds s, they show as before without s.
LEMMA ItemRemoved ==
  ASSUME NEW d, NEW e, NEW h, NEW D, NEW a, NEW b, NEW g, NEW C, NEW s \in Sleepers,
         Shows(d, e, h, D), Shows(a, b, g, C),
         Within(h, D, s, g, C), Within(g, C, s, h, D), \A j \in C : g[j].res # s
  PROVE  a = [d EXCEPT ![s] = None] /\ b = [e EXCEPT ![s] = None]
<1>0. \A q \in Sleepers : q # None
  BY HeapConstants
<1>1. a[s] = None /\ b[s] = None
  BY <1>0 DEF Shows
<1>2. ASSUME NEW q \in Sleepers, q # s PROVE a[q] = d[q] /\ b[q] = e[q]
  <2>1. CASE \E k \in D : h[k].res = q
    <3>1. PICK k \in D : h[k].res = q
      BY <2>1
    <3>2. PICK j \in C : g[j] = h[k]
      BY <1>0, <1>2, <3>1 DEF Within
    <3> QED
      BY <3>1, <3>2 DEF Shows
  <2>2. CASE \A k \in D : h[k].res # q
    <3>1. \A j \in C : g[j].res # q
      BY <1>0, <1>2, <2>2 DEF Within
    <3> QED
      BY <2>2, <3>1 DEF Shows
  <2> QED
    BY <2>1, <2>2
<1>3. a = [q \in Sleepers |-> a[q]] /\ b = [q \in Sleepers |-> b[q]]
      /\ d = [q \in Sleepers |-> d[q]] /\ e = [q \in Sleepers |-> e[q]]
  BY DEF Shows
<1> QED
  BY <1>1, <1>2, <1>3

\* With another item that holds s, or another in the place of the one that
\* held it, they show as before with that item's data for s.
LEMMA ItemSet ==
  ASSUME NEW d, NEW e, NEW h, NEW D, NEW a, NEW b, NEW g, NEW C, NEW s \in Sleepers, NEW p \in C,
         Shows(d, e, h, D), Shows(a, b, g, C), g[p].res = s,
         Within(h, D, s, g, C), Within(g, C, s, h, D)
  PROVE  a = [d EXCEPT ![s] = g[p].timestamp] /\ b = [e EXCEPT ![s] = g[p].ident]
<1>0. \A q \in Sleepers : q # None
  BY HeapConstants
<1>1. a[s] = g[p].timestamp /\ b[s] = g[p].ident
  BY DEF Shows
<1>2. ASSUME NEW q \in Sleepers, q # s PROVE a[q] = d[q] /\ b[q] = e[q]
  <2>1. CASE \E k \in D : h[k].res = q
    <3>1. PICK k \in D : h[k].res = q
      BY <2>1
    <3>2. PICK j \in C : g[j] = h[k]
      BY <1>0, <1>2, <3>1 DEF Within
    <3> QED
      BY <3>1, <3>2 DEF Shows
  <2>2. CASE \A k \in D : h[k].res # q
    <3>1. \A j \in C : g[j].res # q
      BY <1>0, <1>2, <2>2 DEF Within
    <3> QED
      BY <2>2, <3>1 DEF Shows
  <2> QED
    BY <2>1, <2>2
<1>3. a = [q \in Sleepers |-> a[q]] /\ b = [q \in Sleepers |-> b[q]]
      /\ d = [q \in Sleepers |-> d[q]] /\ e = [q \in Sleepers |-> e[q]]
  BY DEF Shows
<1> QED
  BY <1>1, <1>2, <1>3

\* The steps of TimerQueue in terms of what is substituted for its variables:
\* a call that takes nobody out forgets what the last one returned.
LEMMA MapForget ==
  ASSUME Timestamps' = Timestamps, Identities' = Identities, out' = Nothing
  PROVE  Queue!Next
  BY DEF Queue!Next, Queue!Forget, Queue!Nothing, Nothing, Timestamps, Identities

\* A step without effect on the queue.
LEMMA MapStutter ==
  ASSUME Timestamps' = Timestamps, Identities' = Identities, out' = out
  PROVE  UNCHANGED Queue!vars
  BY DEF Queue!vars, Timestamps, Identities

\* Somebody new is scheduled.
LEMMA MapSchedule ==
  ASSUME NEW s \in Sleepers, NEW t \in Times, NEW i \in Idents, Timestamps[s] = None,
         Timestamps' = [Timestamps EXCEPT ![s] = t], Identities' = [Identities EXCEPT ![s] = i],
         out' = Nothing
  PROVE  Queue!Next
<1>1. Queue!Schedule(s, t, i)
  BY DEF Queue!Schedule, Queue!Scheduled, Queue!Nothing, Nothing, Timestamps, Identities
<1> QED
  BY <1>1 DEF Queue!Next

\* Somebody is taken out, ...
LEMMA MapTakeOut ==
  ASSUME NEW s \in Sleepers, NEW how, Timestamps[s] # None,
         Timestamps' = [Timestamps EXCEPT ![s] = None],
         Identities' = [Identities EXCEPT ![s] = None], out' = <<how, s>>
  PROVE  Queue!TakeOut(s, how)
  BY DEF Queue!TakeOut, Queue!Scheduled, Timestamps, Identities

\* ... as one of those with the earliest deadline, ...
LEMMA MapRemoveFirst ==
  ASSUME NEW s \in Sleepers, Queue!TakeOut(s, None),
         \A q \in Sleepers : Timestamps[q] # None => Timestamps[s] <= Timestamps[q]
  PROVE  Queue!Next
<1>1. Queue!RemoveFirst(s)
  BY DEF Queue!RemoveFirst, Queue!TakeOut, Queue!Scheduled, Timestamps
<1> QED
  BY <1>1 DEF Queue!Next

\* ... or as one of those with the identity.
LEMMA MapRemoveByIdent ==
  ASSUME NEW s \in Sleepers, NEW i \in Idents, Queue!TakeOut(s, i), Identities[s] = i
  PROVE  Queue!Next
<1>1. Queue!RemoveByIdent(s, i)
  BY DEF Queue!RemoveByIdent, Identities
<1> QED
  BY <1>1 DEF Queue!Next

\* Somebody who sleeps gets another deadline.
LEMMA MapSetTime ==
  ASSUME NEW s \in Sleepers, NEW t \in Times, Timestamps[s] # None,
         Timestamps' = [Timestamps EXCEPT ![s] = t], Identities' = Identities,
         out' = Nothing
  PROVE  Queue!Next
<1>1. Queue!SetTime(s, t)
  BY DEF Queue!SetTime, Queue!Scheduled, Queue!Nothing, Nothing, Timestamps, Identities
<1> QED
  BY <1>1 DEF Queue!Next

\* schedule_at schedules.
LEMMA Maps_schedule_at ==
  ASSUME HeapInv, HeapInv', NEW s \in Sleepers, NEW t \in Times, NEW i \in Idents,
         schedule_at(s, t, i)
  PROVE  Queue!Next
<1> DEFINE new == [timestamp |-> t, res |-> s, ident |-> i]
<1>0. size \in Nat /\ Indices = 0 .. (size - 1)
  BY DEF HeapInv, HeapTypeOK, Indices
<1>1. /\ heap' = [k \in 0 .. size |-> IF k < size THEN heap[k] ELSE new]
      /\ size' = size + 1 /\ s \notin Held /\ out' = Nothing
  BY DEF schedule_at
<1>2. new.timestamp = t /\ new.res = s /\ new.ident = i
  OBVIOUS
<1> HIDE DEF new
<1>3. Indices' = 0 .. size
  BY <1>0, <1>1 DEF Indices
<1>4. size \in Indices' /\ heap'[size] = new /\ \A k \in Indices : k \in Indices' /\ heap'[k] = heap[k]
  BY <1>0, <1>1, <1>3
<1>5. \A k \in Indices' : k = size \/ k \in Indices
  BY <1>0, <1>3
<1>6. \A k \in Indices : heap[k].res # s
  BY <1>1, HeapConstants DEF Held
<1>7. Shows(Timestamps, Identities, heap, Indices) /\ Shows(Timestamps', Identities', heap', Indices')
  BY ShowsBefore, ShowsAfter
<1>8. Timestamps' = [Timestamps EXCEPT ![s] = t] /\ Identities' = [Identities EXCEPT ![s] = i]
  <2>1. heap'[size].res = s
    BY <1>2, <1>4
  <2>2. Within(heap, Indices, s, heap', Indices')
    BY <1>4 DEF Within
  <2>3. Within(heap', Indices', s, heap, Indices)
    BY <2>1, <1>4, <1>5 DEF Within
  <2>4. /\ Timestamps' = [Timestamps EXCEPT ![s] = heap'[size].timestamp]
        /\ Identities' = [Identities EXCEPT ![s] = heap'[size].ident]
    BY <1>4, <1>7, <2>1, <2>2, <2>3, ItemSet
  <2> QED
    BY <1>2, <1>4, <2>4
<1>9. Timestamps[s] = None
  BY <1>6, <1>7 DEF Shows
<1> QED
  BY <1>1, <1>8, <1>9, MapSchedule

\* The loops, and pop_heap of remove_first, only change the order.
LEMMA Swapping ==
  ASSUME HeapInv, HeapInv', NEW a \in Indices, NEW b \in Indices,
         heap' = Swapped(heap, a, b), size' = size
  PROVE  Timestamps' = Timestamps /\ Identities' = Identities
<1>1. /\ Indices' = Indices
      /\ heap'[a] = heap[b] /\ heap'[b] = heap[a]
      /\ \A k \in Indices : k # a /\ k # b => heap'[k] = heap[k]
  BY SwapItems DEF HeapInv, HeapTypeOK
<1>2. /\ \A k \in Indices : \E j \in Indices' : heap'[j] = heap[k]
      /\ \A j \in Indices' : \E k \in Indices : heap[k] = heap'[j]
  BY <1>1
<1> QED
  BY <1>2, ShowsBefore, ShowsAfter, SameItems

\* An item that is moved from is popped without a trace.
LEMMA Dropping ==
  ASSUME HeapInv, HeapInv', pop_back, size > 0, heap[size - 1].res = None
  PROVE  Timestamps' = Timestamps /\ Identities' = Identities
<1>1. /\ Indices' = Indices \ {size - 1}
      /\ \A k \in Indices' : heap'[k] = heap[k]
  BY PopBack DEF HeapInv
<1>2. /\ \A k \in Indices : heap[k].res # None => \E j \in Indices' : heap'[j] = heap[k]
      /\ \A j \in Indices' : \E k \in Indices : heap[k] = heap'[j]
  BY <1>1
<1> QED
  BY <1>2, ShowsBefore, ShowsAfter, SameItems

\* Nothing happens to the items.
LEMMA Keeping ==
  ASSUME heap' = heap, size' = size
  PROVE  Timestamps' = Timestamps /\ Identities' = Identities
  BY DEF Timestamps, Identities, Held, Place, Indices

\* The loops, and what follows them, are not visible.
LEMMA Maps_shift ==
  ASSUME HeapInv, HeapInv', shift_up \/ shift_down
  PROVE  UNCHANGED Queue!vars
<1>1. out' = out /\ Sifting
  BY DEF shift_up, shift_down, Sifting
<1>2. size \in Nat /\ size > 0 /\ pos \in Nat /\ pos < size /\ pos \in Indices /\ Indices = 0 .. (size - 1)
  BY <1>1, LoopBounds DEF Indices
<1>3. CASE Return
  <2>1. \/ heap' = heap /\ size' = size
        \/ after = "pop_back" /\ pop_back
    BY <1>3 DEF Return
  <2>2. after = "pop_back" => heap[size - 1].res = None
    BY <1>1 DEF HeapInv, Removal
  <2> QED
    BY <1>1, <1>2, <2>1, <2>2, Dropping, Keeping, MapStutter
<1>4. CASE shift_up /\ ~Return
  <2>1. pos > 0 /\ heap' = Swapped(heap, Parent(pos), pos) /\ size' = size
    BY <1>4 DEF shift_up
  <2>2. Parent(pos) \in Indices
    BY <1>2, <2>1, ParentFacts
  <2> QED
    BY <1>1, <1>2, <2>1, <2>2, Swapping, MapStutter
<1>5. CASE shift_down /\ ~Return
  <2>1. phase = "down" /\ First(pos) # pos /\ heap' = Swapped(heap, pos, First(pos)) /\ size' = size
    BY <1>5 DEF shift_down
  <2>2. First(pos) \in Indices
    <3>1. First(pos) \in 1 .. (n - 1) /\ n \in Nat /\ n <= size
      BY <1>1, <2>1, FirstFacts, LoopBounds
    <3> QED
      BY <1>2, <3>1
  <2> QED
    BY <1>1, <1>2, <2>1, <2>2, Swapping, MapStutter
<1> QED
  BY <1>3, <1>4, <1>5

\* remove_first begins.
LEMMA Maps_remove_first ==
  ASSUME HeapInv, HeapInv', remove_first
  PROVE  Queue!Next
<1>1. heap' = Swapped(heap, 0, size - 1) /\ size' = size /\ size > 0 /\ out' = Nothing
  BY DEF remove_first, pop_heap
<1>2. 0 \in Indices /\ size - 1 \in Indices
  BY <1>1 DEF HeapInv, HeapTypeOK, Indices
<1> QED
  BY <1>1, <1>2, Swapping, MapForget

\* What is shown of an item.
LEMMA Shown ==
  ASSUME HeapInv, NEW k \in Indices, heap[k].res # None
  PROVE  /\ heap[k].res \in Sleepers
         /\ Timestamps[heap[k].res] = heap[k].timestamp /\ Identities[heap[k].res] = heap[k].ident
         /\ Timestamps[heap[k].res] # None
<1>1. heap \in [0 .. (size - 1) -> Item] /\ k \in 0 .. (size - 1)
  BY DEF HeapInv, HeapTypeOK, Indices
<1>2. heap[k].res \in Sleepers /\ heap[k].timestamp \in Times
  BY <1>1, ItemFacts
<1> QED
  BY <1>2, ShowsBefore, HeapConstants DEF Shows

\* remove_first ends: it takes out one of those with the earliest deadline.
LEMMA Maps_remove_first_pop ==
  ASSUME HeapInv, HeapInv', remove_first_pop
  PROVE  Queue!Next \/ UNCHANGED Queue!vars
<1>0. HeapTypeOK /\ phase = "popped" /\ size \in Nat /\ size > 0 /\ pop_back
  BY DEF HeapInv, HeapTypeOK, remove_first_pop
<1>1. size - 1 \in Indices
  BY <1>0 DEF Indices
<1>2. CASE heap[size - 1].res = None
  <2>1. out' = out
    BY <1>2 DEF remove_first_pop
  <2> QED
    BY <1>0, <1>2, <2>1, Dropping, MapStutter
<1>3. CASE heap[size - 1].res # None
  <2> DEFINE s == heap[size - 1].res
  <2>1. out' = <<None, s>>
    BY <1>3 DEF remove_first_pop
  <2>2. /\ s \in Sleepers /\ Timestamps[s] = heap[size - 1].timestamp /\ Timestamps[s] # None
    BY <1>1, <1>3, Shown
  <2>3. /\ Indices' = Indices \ {size - 1}
        /\ \A k \in Indices' : heap'[k] = heap[k]
    BY <1>0, PopBack
  <2>4. \A j, k \in Indices : heap[j].res = heap[k].res => j = k
    BY DEF HeapInv, Results
  <2>5. /\ Within(heap, Indices, s, heap', Indices') /\ Within(heap', Indices', s, heap, Indices)
        /\ \A j \in Indices' : heap'[j].res # s
    BY <1>1, <2>3, <2>4 DEF Within
  <2>6. \A k \in Indices : heap[size - 1].timestamp <= heap[k].timestamp
    BY <1>0, <1>3 DEF HeapInv, Removal, Popping
  <2>7. ASSUME NEW q \in Sleepers, Timestamps[q] # None PROVE Timestamps[s] <= Timestamps[q]
    <3>1. PICK k \in Indices : heap[k].res = q
      BY <2>7, ShowsBefore DEF Shows
    <3>2. q # None
      BY HeapConstants
    <3>3. Timestamps[q] = heap[k].timestamp
      BY <3>1, <3>2, Shown
    <3> QED
      BY <2>2, <2>6, <3>3
  <2> HIDE DEF s
  <2>8. Timestamps' = [Timestamps EXCEPT ![s] = None] /\ Identities' = [Identities EXCEPT ![s] = None]
    BY <2>2, <2>5, ShowsBefore, ShowsAfter, ItemRemoved
  <2>9. Queue!TakeOut(s, None)
    BY <2>1, <2>2, <2>8, MapTakeOut
  <2> QED
    BY <2>2, <2>7, <2>9, MapRemoveFirst
<1> QED
  BY <1>2, <1>3

\* remove_by_ident takes out somebody with that identity.
LEMMA Maps_remove_by_ident ==
  ASSUME HeapInv, HeapInv', NEW i \in Idents, remove_by_ident(i)
  PROVE  Queue!Next
<1>0. HeapTypeOK /\ phase = "idle" /\ heap \in [Indices -> Item]
  BY DEF HeapInv, remove_by_ident, HeapTypeOK
<1>1. PICK k \in Indices :
        /\ heap[k].ident = i /\ out' = <<i, heap[k].res>>
        /\ LET h == [heap EXCEPT ![k].res = None] IN
           \/ k = 0 /\ pop_heap(h) /\ UNCHANGED size
           \/ k # 0 /\ k = size - 1 /\ pop_back
           \/ /\ k # 0 /\ k # size - 1
              /\ update_heap_element([h EXCEPT ![size - 1].res = None], k, heap[size - 1])
              /\ UNCHANGED size
  BY DEF remove_by_ident, FirstWith
<1>2. size \in Nat /\ Indices = 0 .. (size - 1) /\ size > 0 /\ size - 1 \in Indices /\ 0 \in Indices
  BY <1>0 DEF HeapTypeOK, Indices
<1>3. /\ \A j \in Indices : heap[j].res # None
      /\ \A j, l \in Indices : heap[j].res = heap[l].res => j = l
  BY <1>0 DEF HeapInv, Results, Popping, Sifting
<1> DEFINE s == heap[k].res
           h == [heap EXCEPT ![k].res = None]
<1>4. /\ s \in Sleepers /\ Identities[s] = i /\ Timestamps[s] # None
  BY <1>1, <1>3, Shown
<1>5. h[k].res = None /\ \A j \in Indices : j # k => h[j] = heap[j]
  <2>1. heap[k] \in Item
    BY <1>0
  <2>2. [heap[k] EXCEPT !.res = None].res = None
    BY <2>1 DEF Item
  <2>3. h = [heap EXCEPT ![k] = [heap[k] EXCEPT !.res = None]]
    BY <1>0
  <2> HIDE DEF Item, h
  <2> QED
    BY <1>0, <2>2, <2>3
<1>6. h \in [Indices -> {h[j] : j \in Indices}]
  <2>1. h = [j \in Indices |-> h[j]]
    BY <1>0
  <2> HIDE DEF h
  <2> QED
    BY <2>1
<1> HIDE DEF h
<1>7. /\ \A l \in Indices : l # k => \E j \in Indices' : heap'[j] = heap[l]
      /\ \A j \in Indices' : heap'[j].res # None => \E l \in Indices \ {k} : heap[l] = heap'[j]
  <2>1. CASE k = 0 /\ pop_heap(h) /\ UNCHANGED size
    <3>1. heap' = [h EXCEPT ![0] = h[size - 1], ![size - 1] = h[0]] /\ Indices' = Indices
      BY <2>1 DEF pop_heap, Swapped, Indices
    <3>2. /\ heap'[size - 1] = h[0] /\ (size - 1 # 0 => heap'[0] = h[size - 1])
          /\ \A j \in Indices : j # 0 /\ j # size - 1 => heap'[j] = h[j]
      BY <1>2, <1>6, <3>1
    <3>3. \A l \in Indices : l # k => \E j \in Indices' : heap'[j] = heap[l]
      BY <1>2, <1>5, <2>1, <3>1, <3>2
    <3>4. ASSUME NEW j \in Indices', heap'[j].res # None
          PROVE  \E l \in Indices \ {k} : heap[l] = heap'[j]
      <4>1. j \in Indices /\ j # size - 1
        BY <1>5, <2>1, <3>1, <3>2, <3>4
      <4>2. CASE j = 0
        <5>1. heap'[j] = heap[size - 1] /\ size - 1 \in Indices \ {k}
          BY <1>2, <1>5, <2>1, <3>2, <4>1, <4>2
        <5> QED
          BY <5>1
      <4>3. CASE j # 0
        <5>1. heap'[j] = heap[j] /\ j \in Indices \ {k}
          BY <1>5, <2>1, <3>2, <4>1, <4>3
        <5> QED
          BY <5>1
      <4> QED
        BY <4>2, <4>3
    <3> QED
      BY <3>3, <3>4
  <2>2. CASE k # 0 /\ k = size - 1 /\ pop_back
    <3>1. /\ Indices' = Indices \ {size - 1}
          /\ \A j \in Indices' : heap'[j] = heap[j]
      BY <1>0, <1>2, <2>2, PopBack
    <3> QED
      BY <2>2, <3>1
  <2>3. CASE /\ k # 0 /\ k # size - 1
             /\ update_heap_element([h EXCEPT ![size - 1].res = None], k, heap[size - 1])
             /\ UNCHANGED size
    <3> DEFINE g == [h EXCEPT ![size - 1].res = None]
    <3>1. heap' = [g EXCEPT ![k] = heap[size - 1]] /\ Indices' = Indices
      BY <2>3 DEF update_heap_element, Indices
    <3>2. g = [h EXCEPT ![size - 1] = [h[size - 1] EXCEPT !.res = None]]
      BY <1>6
    <3>3. h[size - 1] \in Item
      BY <1>0, <1>2, <1>5, <2>3
    <3>4. [h[size - 1] EXCEPT !.res = None].res = None
      BY <3>3 DEF Item
    <3>5. g = [j \in Indices |-> g[j]]
      BY <1>6
    <3> HIDE DEF g
    <3>6. g[size - 1].res = None /\ \A j \in Indices : j # size - 1 => g[j] = h[j]
      BY <1>2, <1>6, <3>2, <3>4
    <3>7. heap'[k] = heap[size - 1] /\ \A j \in Indices : j # k => heap'[j] = g[j]
      BY <3>1, <3>5
    <3>8. \A l \in Indices : l # k => \E j \in Indices' : heap'[j] = heap[l]
      BY <1>2, <1>5, <2>3, <3>1, <3>6, <3>7
    <3>9. \A j \in Indices' : heap'[j].res # None => \E l \in Indices \ {k} : heap[l] = heap'[j]
      BY <1>2, <1>5, <2>3, <3>1, <3>6, <3>7
    <3> QED
      BY <3>8, <3>9
  <2> QED
    BY <1>1, <2>1, <2>2, <2>3 DEF h
<1>8. /\ Within(heap, Indices, s, heap', Indices') /\ Within(heap', Indices', s, heap, Indices)
      /\ \A j \in Indices' : heap'[j].res # s
  BY <1>3, <1>7 DEF Within
<1>9. out' = <<i, s>>
  BY <1>1
<1> HIDE DEF s
<1>10. Timestamps' = [Timestamps EXCEPT ![s] = None] /\ Identities' = [Identities EXCEPT ![s] = None]
  BY <1>4, <1>8, ShowsBefore, ShowsAfter, ItemRemoved
<1>11. Queue!TakeOut(s, i)
  BY <1>4, <1>9, <1>10, MapTakeOut
<1> QED
  BY <1>4, <1>11, MapRemoveByIdent

\* The loop of set_time sets the deadline of one result after the other.
LEMMA Maps_set_time_scan ==
  ASSUME HeapInv, HeapInv', set_time_scan
  PROVE  Queue!Next \/ UNCHANGED Queue!vars
<1>0. /\ HeapTypeOK /\ phase = "scan" /\ heap \in [Indices -> Item] /\ size \in Nat
      /\ size' = size /\ out' = out /\ scan \in Nat /\ Indices = 0 .. (size - 1) /\ Indices' = Indices
  BY DEF HeapInv, set_time_scan, HeapTypeOK, Indices
<1>1. arg \in Idents \X Times /\ out = Nothing
  BY <1>0 DEF HeapInv, Scan
<1>2. CASE heap' = heap
  BY <1>0, <1>2, Keeping, MapStutter
<1>3. CASE /\ scan < size
           /\ update_heap_element(heap, scan, [heap[scan] EXCEPT !.timestamp = arg[2]])
  <2> DEFINE item == [heap[scan] EXCEPT !.timestamp = arg[2]]
             s == heap[scan].res
  <2>1. scan \in Indices /\ heap[scan] \in Item /\ arg[2] \in Times
    BY <1>0, <1>1, <1>3
  <2>2. item.timestamp = arg[2] /\ item.res = s /\ item.ident = heap[scan].ident
    BY <2>1 DEF Item
  <2>3. heap' = [heap EXCEPT ![scan] = item]
    BY <1>3 DEF update_heap_element
  <2> HIDE DEF item
  <2>4. heap'[scan] = item /\ \A k \in Indices : k # scan => heap'[k] = heap[k]
    BY <1>0, <2>1, <2>3
  <2>5. /\ \A k \in Indices : heap[k].res # None
        /\ \A j, k \in Indices : heap[j].res = heap[k].res => j = k
    BY <1>0 DEF HeapInv, Results, Popping, Sifting
  <2>6. s \in Sleepers /\ Timestamps[s] # None /\ Identities[s] = heap[scan].ident
    BY <2>1, <2>5, Shown
  <2>7. /\ Within(heap, Indices, s, heap', Indices') /\ Within(heap', Indices', s, heap, Indices)
        /\ heap'[scan].res = s /\ scan \in Indices'
    BY <1>0, <2>1, <2>2, <2>4 DEF Within
  <2> HIDE DEF s
  <2>8. /\ Timestamps' = [Timestamps EXCEPT ![s] = heap'[scan].timestamp]
        /\ Identities' = [Identities EXCEPT ![s] = heap'[scan].ident]
    BY <2>6, <2>7, ShowsBefore, ShowsAfter, ItemSet
  <2>9. Identities' = Identities
    <3>1. Identities' = [Identities EXCEPT ![s] = Identities[s]]
      BY <2>2, <2>4, <2>6, <2>8
    <3> QED
      BY <3>1 DEF Identities
  <2> QED
    BY <1>0, <1>1, <2>1, <2>2, <2>4, <2>6, <2>8, <2>9, MapSetTime
<1> QED
  BY <1>2, <1>3 DEF set_time_scan

\* Every step is one of the abstract queue, or none.
LEMMA NextMaps ==
  ASSUME HeapInv, HeapInv', [HeapNext]_heapVars
  PROVE  Queue!Next \/ UNCHANGED Queue!vars
<1>1. ASSUME NEW i \in Idents, NEW t \in Times, set_time(i, t) PROVE Queue!Next
  <2>1. heap' = heap /\ size' = size /\ out' = Nothing
    BY <1>1 DEF set_time
  <2> QED
    BY <2>1, Keeping, MapForget
<1>2. CASE UNCHANGED heapVars
  <2>1. heap' = heap /\ size' = size /\ out' = out
    BY <1>2 DEF heapVars
  <2> QED
    BY <2>1, Keeping, MapStutter
<1> QED
  BY <1>1, <1>2, Maps_schedule_at, Maps_remove_first, Maps_remove_first_pop,
     Maps_remove_by_ident, Maps_set_time_scan, Maps_shift
     DEF HeapNext

\* An empty array shows as an empty queue.
LEMMA InitMaps == HeapInit => Queue!Init
<1> SUFFICES ASSUME HeapInit PROVE Queue!Init
  OBVIOUS
<1>1. Held = {} /\ out = Nothing
  BY DEF HeapInit, Held, Indices
<1> QED
  BY <1>1 DEF Queue!Init, Queue!Nothing, Nothing

\* generic_scheduler implements TimerQueue: remove_first takes out somebody
\* with the earliest deadline, remove_by_ident somebody with the identity, and
\* no operation disturbs the deadline or the identity of anybody else.
THEOREM HeapRefinement == HeapSpec => IsTimerQueue
<1>1. HeapInv /\ HeapInv' /\ [HeapNext]_heapVars => [Queue!Next]_(Queue!vars)
  BY NextMaps
<1> QED
  BY <1>1, InitMaps, Invariance, PTL DEF HeapSpec, IsTimerQueue, Queue!Spec

-----------------------------------------------------------------------------
(* Class scheduler                                                         *)

\* The named actions of a step.
LEMMA NextCases ==
  ASSUME Next
  PROVE  \/ \E s \in Coros, tp \in Deadlines :
              sleep_until(s, tp) \/ sleep_until_alertable(s, tp)
         \/ \E s \in Coros : test_and_reset(s) \/ complete(s) \/ alert(s)
         \/ \E t \in Threads, s \in Coros : cancel(t, s)
         \/ \E w \in Workers : \/ request_stop(w) \/ start(w) \/ loop(w)
                               \/ execute_first(w) \/ wait(w) \/ timeout(w)
                               \/ relock(w) \/ stop_callback(w)
                               \/ spurious_wakeup(w)
         \/ Tick
  BY DEF Next, Coroutine, Caller, Worker

\* Threads that run code of the program are workers or outer threads.
LEMMA ThreadsType == TypeOK => Threads \subseteq Workers \cup {Outer}
  BY DEF TypeOK, Threads, Running

\* The initial state has the right types.
LEMMA InitType == Init => TypeOK
  BY SchedulerConstants DEF Init, TypeOK, Awake, Forever, Sleeping

\* Every step keeps the types, and the facts that tell the sleeping from the
\* running and the completed coroutines.
LEMMA NextType == TypeOK /\ [Next]_vars => TypeOK'
<1> SUFFICES ASSUME TypeOK, [Next]_vars PROVE TypeOK'
  OBVIOUS
<1> USE SchedulerConstants DEF TypeOK, Awake, Forever, Sleeping
<1>1. ASSUME NEW s \in Coros, NEW tp \in Deadlines,
             sleep_until(s, tp) \/ sleep_until_alertable(s, tp)
      PROVE  TypeOK'
  BY <1>1 DEF sleep_until, sleep_until_alertable, sch_schedule_at, notify_all,
     notify_none, Deadlines
<1>2. ASSUME NEW s \in Coros, test_and_reset(s) PROVE TypeOK'
  BY <1>2 DEF test_and_reset
<1>3. ASSUME NEW s \in Coros, complete(s) PROVE TypeOK'
  BY <1>3 DEF complete
<1>4. ASSUME NEW s \in Coros, alert(s) PROVE TypeOK'
  BY <1>4 DEF alert, notify_all
<1>5. ASSUME NEW t \in Threads, NEW s \in Coros, cancel(t, s) PROVE TypeOK'
  BY <1>5, ThreadsType DEF cancel, sch_remove_by_ident
<1>6. ASSUME NEW w \in Workers, request_stop(w) PROVE TypeOK'
  BY <1>6 DEF request_stop
<1>7. ASSUME NEW w \in Workers, start(w) PROVE TypeOK'
  BY <1>7 DEF start, Goto
<1>8. ASSUME NEW w \in Workers, loop(w) PROVE TypeOK'
  BY <1>8 DEF loop, Goto
<1>9. ASSUME NEW w \in Workers, execute_first(w) PROVE TypeOK'
  BY <1>9 DEF execute_first, Goto, IsFirst
<1>10. ASSUME NEW w \in Workers, wait(w) PROVE TypeOK'
  BY <1>10 DEF wait, Goto, IsFirst
<1>11. ASSUME NEW w \in Workers, timeout(w) \/ spurious_wakeup(w) PROVE TypeOK'
  BY <1>11 DEF timeout, spurious_wakeup, Goto
<1>12. ASSUME NEW w \in Workers, relock(w) PROVE TypeOK'
  BY <1>12 DEF relock, Goto
<1>13. ASSUME NEW w \in Workers, stop_callback(w) PROVE TypeOK'
  BY <1>13 DEF stop_callback, notify_all
<1>14. CASE Tick
  BY <1>14 DEF Tick
<1>15. CASE UNCHANGED vars
  BY <1>15 DEF vars
<1> QED
  BY <1>1, <1>2, <1>3, <1>4, <1>5, <1>6, <1>7, <1>8, <1>9, <1>10, <1>11, <1>12,
     <1>13, <1>14, <1>15, NextCases

\* Clock, heap, mutex and workers keep their types, and no coroutine sleeps
\* and runs, or sleeps and has completed, at the same time.
THEOREM SchedulerTypeCorrect == Spec => []TypeOK
BY InitType, NextType, PTL DEF Spec

\* Whoever schedules an earlier deadline notifies, and a worker that goes to
\* wait looks at the heap in the same critical section.
LEMMA NextOversleeps ==
  ~Alertable /\ TypeOK /\ NobodyOversleeps /\ [Next]_vars => NobodyOversleeps'
<1> SUFFICES ASSUME ~Alertable, TypeOK, NobodyOversleeps, [Next]_vars,
                    NEW v \in Workers, pc'[v] = "wait",
                    NEW q \in Sleeping'
             PROVE  until'[v] <= deadline'[q]
  BY DEF NobodyOversleeps
<1> USE SchedulerConstants DEF TypeOK, NobodyOversleeps, Awake, Forever, Sleeping
<1>1. ASSUME NEW s \in Coros, NEW tp \in Deadlines, sleep_until(s, tp)
      PROVE  until'[v] <= deadline'[q]
  <2>1. PICK f \in Sleeping : ~(tp < deadline[f])
    BY <1>1 DEF sleep_until, notify_all, BeforeAll
  <2>2. until[v] <= deadline[f] /\ until' = until
    BY <1>1, <2>1 DEF sleep_until, notify_all, notify_none
  <2>3. until[v] <= tp /\ tp \in Nat
    BY <2>1, <2>2 DEF Deadlines
  <2>4. pc' = pc
    BY <1>1 DEF sleep_until, notify_all, notify_none
  <2>5. deadline' = [deadline EXCEPT ![s] = tp]
    BY <1>1 DEF sleep_until, sch_schedule_at
  <2> QED
    BY <2>2, <2>3, <2>4, <2>5
<1>2. ASSUME NEW s \in Coros, test_and_reset(s) PROVE until'[v] <= deadline'[q]
  BY <1>2 DEF test_and_reset
<1>3. ASSUME NEW s \in Coros, complete(s) PROVE until'[v] <= deadline'[q]
  BY <1>3 DEF complete
<1>4. ASSUME NEW s \in Coros, alert(s) PROVE until'[v] <= deadline'[q]
  BY <1>4 DEF alert, notify_all
<1>5. ASSUME NEW t \in Threads, NEW s \in Coros, cancel(t, s)
      PROVE  until'[v] <= deadline'[q]
  BY <1>5 DEF cancel, sch_remove_by_ident
<1>6. ASSUME NEW w \in Workers, request_stop(w) PROVE until'[v] <= deadline'[q]
  BY <1>6 DEF request_stop
<1>7. ASSUME NEW w \in Workers, start(w) PROVE until'[v] <= deadline'[q]
  BY <1>7 DEF start, Goto
<1>8. ASSUME NEW w \in Workers, loop(w) PROVE until'[v] <= deadline'[q]
  BY <1>8 DEF loop, Goto
<1>9. ASSUME NEW w \in Workers, execute_first(w) PROVE until'[v] <= deadline'[q]
  BY <1>9 DEF execute_first, Goto, IsFirst
<1>10. ASSUME NEW w \in Workers, wait(w) PROVE until'[v] <= deadline'[q]
  BY <1>10 DEF wait, Goto, IsFirst
<1>11. ASSUME NEW w \in Workers, timeout(w) \/ spurious_wakeup(w)
       PROVE  until'[v] <= deadline'[q]
  BY <1>11 DEF timeout, spurious_wakeup, Goto
<1>12. ASSUME NEW w \in Workers, relock(w) PROVE until'[v] <= deadline'[q]
  BY <1>12 DEF relock, Goto
<1>13. ASSUME NEW w \in Workers, stop_callback(w) PROVE until'[v] <= deadline'[q]
  BY <1>13 DEF stop_callback, notify_all
<1>14. CASE Tick
  BY <1>14 DEF Tick
<1>15. CASE UNCHANGED vars
  BY <1>15 DEF vars
<1>16. \A s \in Coros, tp \in Deadlines : ~sleep_until_alertable(s, tp)
  BY DEF sleep_until_alertable
<1> QED
  BY <1>1, <1>2, <1>3, <1>4, <1>5, <1>6, <1>7, <1>8, <1>9, <1>10, <1>11, <1>12,
     <1>13, <1>14, <1>15, <1>16, NextCases

\* Without sleep_until_alertable, no worker ever waits beyond the first
\* deadline, however many threads schedule, cancel, alert and wait.
THEOREM NoOversleeping == ASSUME ~Alertable PROVE Spec => []NobodyOversleeps
<1>1. Init => NobodyOversleeps
  BY DEF Init, NobodyOversleeps
<1>2. TypeOK /\ NobodyOversleeps /\ [Next]_vars => NobodyOversleeps'
  BY NextOversleeps
<1> QED
  BY <1>1, <1>2, SchedulerTypeCorrect, PTL DEF Spec

\* alert() makes the sleep due, and a set flag lets no new sleep begin.
LEMMA NextAlerts == TypeOK /\ AlertsAreDue /\ [Next]_vars => AlertsAreDue'
<1> SUFFICES ASSUME TypeOK, AlertsAreDue, [Next]_vars,
                    NEW q \in (Sleeping \cap onAlert)', alerted'[q]
             PROVE  deadline'[q] <= now'
  BY DEF AlertsAreDue
<1> USE SchedulerConstants DEF TypeOK, AlertsAreDue, Awake, Sleeping
<1>1. ASSUME NEW s \in Coros, NEW tp \in Deadlines, sleep_until(s, tp)
      PROVE  deadline'[q] <= now'
  BY <1>1 DEF sleep_until, sch_schedule_at
<1>2. ASSUME NEW s \in Coros, NEW tp \in Deadlines, sleep_until_alertable(s, tp)
      PROVE  deadline'[q] <= now'
  BY <1>2 DEF sleep_until_alertable, sch_schedule_at
<1>3. ASSUME NEW s \in Coros, test_and_reset(s) PROVE deadline'[q] <= now'
  BY <1>3 DEF test_and_reset
<1>4. ASSUME NEW s \in Coros, complete(s) PROVE deadline'[q] <= now'
  BY <1>4 DEF complete
<1>5. ASSUME NEW s \in Coros, alert(s) PROVE deadline'[q] <= now'
  BY <1>5 DEF alert
<1>6. ASSUME NEW t \in Threads, NEW s \in Coros, cancel(t, s)
      PROVE  deadline'[q] <= now'
  BY <1>6 DEF cancel, sch_remove_by_ident
<1>7. ASSUME NEW w \in Workers,
             \/ request_stop(w) \/ start(w) \/ loop(w) \/ wait(w) \/ timeout(w)
             \/ relock(w) \/ stop_callback(w) \/ spurious_wakeup(w)
      PROVE  deadline'[q] <= now'
  BY <1>7 DEF request_stop, start, loop, wait, timeout, relock, stop_callback,
     spurious_wakeup
<1>8. ASSUME NEW w \in Workers, execute_first(w) PROVE deadline'[q] <= now'
  BY <1>8 DEF execute_first
<1>9. CASE Tick
  BY <1>9 DEF Tick
<1>10. CASE UNCHANGED vars
  BY <1>10 DEF vars
<1> QED
  BY <1>1, <1>2, <1>3, <1>4, <1>5, <1>6, <1>7, <1>8, <1>9, <1>10, NextCases

\* alert() and sleep_until_alertable() never miss each other: the flag and
\* the heap are read and written under one mutex.
THEOREM NoMissedAlert == Spec => []AlertsAreDue
<1>1. Init => AlertsAreDue
  BY DEF Init, AlertsAreDue, Sleeping
<1> QED
  BY <1>1, NextAlerts, SchedulerTypeCorrect, PTL DEF Spec
=============================================================================
