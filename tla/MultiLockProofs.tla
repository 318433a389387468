--------------------------- MODULE MultiLockProofs --------------------------
(***************************************************************************)
(* Proofs about MultiLock for any users, any mutexes and any lists of N of *)
(* them, also lists that name a mutex twice.                               *)
(***************************************************************************)
EXTENDS MultiLock, FiniteSetTheorems, SequenceTheorems, TLAPS

Ownerships == Mutexes \cup {Null}

Objects ==
  [at : Active \cup {"idle", "prepared", "waiting", "locked"},
   owns : [Index -> Ownerships], o : Ownerships, trial : Ownerships,
   i : 1 .. N, first : Index, caller : Users \cup {Null}]

Types == /\ holder \in [Mutexes -> Users \cup {Null}]
         /\ queue \in [Mutexes -> Seq(Lockers)]
         /\ obj \in [Lockers -> Objects]
         /\ uses \in [Users -> 0 .. MaxUses]

\* The mutexes that the ownerships of an object in state r hold.
Has(r) == {m \in Mutexes : m = r.o \/ m = r.trial \/ \E k \in Index : r.owns[k] = m}

\* Which ownerships hold something at which point of the code: of owns only
\* the element that first names, and not together with the local of lock();
\* the local of lock_others() only at the end of an iteration.
Consistent(r) ==
  /\ \A k \in Index : r.owns[k] # Null => k = r.first /\ r.o = Null
  /\ r.trial # Null <=> r.at = "trial"
  /\ r.trial # Null => r.trial # r.o /\ r.trial # r.owns[r.first]
  /\ r.at = "leave" => r.o # Null
  /\ r.at = "locked" => r.o = Null
  /\ r.at \in {"idle", "prepared", "first", "waiting"} =>
       r.o = Null /\ r.owns[r.first] = Null
  /\ r.at \in {"trial", "failed"} => r.i < N

\* The ownerships tell who holds the mutexes.
Matched == \A l \in Lockers : /\ Consistent(obj[l])
                              /\ \A m \in Mutexes : holder[m] = l <=> m \in Has(obj[l])

\* l waits for m.
WaitsFor(l, m) == obj[l].at = "waiting" /\ locking[l][obj[l].first] = m

\* The queue of a mutex holds the lockers that wait for it, each once.
Queued == \A m \in Mutexes :
            /\ \A j, k \in DOMAIN queue[m] : queue[m][j] = queue[m][k] => j = k
            /\ \A l \in Lockers : WaitsFor(l, m) <=> \E k \in DOMAIN queue[m] : queue[m][k] = l

\* A mutex that somebody waits for is held by somebody, whose release will
\* pass it on.
WaitersServed == \A l \in Lockers, m \in Mutexes :
                   WaitsFor(l, m) => holder[m] # Null /\ holder[m] # l

MultiLockInv == Types /\ Matched /\ Queued /\ WaitersServed

-----------------------------------------------------------------------------
(* What the accesses to a mutex do to the invariant                        *)

\* The kinds of names are distinct.
LEMMA Names == /\ \A l \in Lockers : l # Null /\ l \notin Clients
               /\ \A u \in Users : u # Null
               /\ \A m \in Mutexes : m # Null
               /\ \A l \in Lockers, k \in Index : locking[l][k] \in Mutexes
               /\ Lockers \subseteq Users /\ Clients \subseteq Users
  BY MultiLockConstants DEF Users

\* A locker moves on, and takes at most one mutex, which is free.
LEMMA Move ==
  ASSUME MultiLockInv, NEW l \in Lockers, NEW r \in Objects, Consistent(r),
         obj[l].at # "waiting", r.at # "waiting",
         obj' = [obj EXCEPT ![l] = r], queue' = queue,
         uses' \in [Users -> 0 .. MaxUses],
         \/ holder' = holder /\ Has(r) = Has(obj[l])
         \/ \E m \in Mutexes : /\ holder[m] = Null
                               /\ holder' = [holder EXCEPT ![m] = l]
                               /\ Has(r) = Has(obj[l]) \cup {m}
  PROVE  MultiLockInv'
<1> USE DEF MultiLockInv
<1>1. Types'
  BY Names DEF Types
<1>2. /\ obj'[l] = r
      /\ \A k \in Lockers : k # l => obj'[k] = obj[k]
  BY DEF Types
<1>3. \A k \in Lockers, m \in Mutexes : WaitsFor(k, m)' <=> WaitsFor(k, m)
  BY <1>2 DEF WaitsFor
<1>4. Queued'
  BY <1>3 DEF Queued
<1>5. CASE holder' = holder /\ Has(r) = Has(obj[l])
  <2>1. Matched'
    BY <1>2, <1>5 DEF Matched
  <2>2. WaitersServed'
    BY <1>3, <1>5 DEF WaitersServed
  <2> QED
    BY <1>1, <1>4, <2>1, <2>2
<1>6. ASSUME NEW m \in Mutexes, holder[m] = Null, holder' = [holder EXCEPT ![m] = l],
             Has(r) = Has(obj[l]) \cup {m}
      PROVE  MultiLockInv'
  <2>1. /\ holder'[m] = l
        /\ \A n \in Mutexes : n # m => holder'[n] = holder[n]
    BY <1>6 DEF Types
  <2>2. Matched'
    BY <1>2, <1>6, <2>1, Names DEF Matched
  <2>3. WaitersServed'
    BY <1>3, <1>6, <2>1 DEF WaitersServed
  <2> QED
    BY <1>1, <1>4, <2>2, <2>3
<1> QED
  BY <1>5, <1>6

\* A locker without anything queues for a mutex that is held.
LEMMA Wait ==
  ASSUME MultiLockInv, NEW l \in Lockers, obj[l].at = "first",
         NEW m, m = locking[l][obj[l].first], holder[m] # Null,
         queue' = [queue EXCEPT ![m] = Append(queue[m], l)],
         obj' = [obj EXCEPT ![l] = [obj[l] EXCEPT !.at = "waiting"]],
         UNCHANGED <<holder, uses>>
  PROVE  /\ MultiLockInv'
         /\ holder[m] # l
         /\ \A k \in DOMAIN queue[m] : queue[m][k] # l
<1> USE DEF MultiLockInv
<1> DEFINE r == [obj[l] EXCEPT !.at = "waiting"]
<1>0. obj[l] \in Objects /\ m \in Mutexes /\ queue[m] \in Seq(Lockers)
  BY Names DEF Types, Objects
<1>1. /\ r \in Objects /\ r.at = "waiting" /\ r.o = obj[l].o /\ r.trial = obj[l].trial
      /\ r.owns = obj[l].owns /\ r.first = obj[l].first /\ r.i = obj[l].i
  BY <1>0 DEF Objects, Active
<1>2. Consistent(obj[l]) /\ \A n \in Mutexes : holder[n] = l <=> n \in Has(obj[l])
  BY DEF Matched
<1> HIDE DEF r
<1>3. Consistent(r) /\ Has(r) = Has(obj[l])
  BY <1>1, <1>2 DEF Consistent, Has
<1>4. Has(obj[l]) = {}
  BY <1>0, <1>2, Names DEF Consistent, Has, Objects
<1>5. holder[m] # l
  BY <1>0, <1>2, <1>4
<1>6. \A k \in DOMAIN queue[m] : queue[m][k] # l
  BY <1>0 DEF Queued, WaitsFor
<1>7. /\ obj'[l] = r
      /\ \A k \in Lockers : k # l => obj'[k] = obj[k]
  BY DEF Types, r
<1>8. /\ queue'[m] = Append(queue[m], l)
      /\ \A n \in Mutexes : n # m => queue'[n] = queue[n]
  BY <1>0 DEF Types
<1>9. /\ Len(queue[m]) \in Nat
      /\ DOMAIN queue[m] = 1 .. Len(queue[m])
      /\ DOMAIN queue'[m] = 1 .. Len(queue[m]) + 1
      /\ \A k \in DOMAIN queue[m] : queue'[m][k] = queue[m][k]
      /\ queue'[m][Len(queue[m]) + 1] = l
      /\ queue'[m] \in Seq(Lockers)
  BY <1>0, <1>8
<1>10. Types'
  <2>1. queue' \in [Mutexes -> Seq(Lockers)]
    BY <1>0, <1>9 DEF Types
  <2>2. obj' \in [Lockers -> Objects]
    BY <1>1 DEF Types, r
  <2> QED
    BY <2>1, <2>2 DEF Types
<1>11. Matched'
  BY <1>3, <1>7 DEF Matched
<1>12. \A k \in Lockers, n \in Mutexes :
         WaitsFor(k, n)' <=> WaitsFor(k, n) \/ (k = l /\ n = m)
  BY <1>1, <1>7 DEF WaitsFor
<1>13. Queued'
  <2>1. ASSUME NEW n \in Mutexes, n # m
        PROVE  /\ \A j, k \in DOMAIN queue'[n] : queue'[n][j] = queue'[n][k] => j = k
               /\ \A x \in Lockers : WaitsFor(x, n)' <=> \E k \in DOMAIN queue'[n] : queue'[n][k] = x
    BY <1>8, <1>12, <2>1 DEF Queued
  <2>2. \A j, k \in DOMAIN queue'[m] : queue'[m][j] = queue'[m][k] => j = k
    <3>1. \A j, k \in DOMAIN queue[m] : queue[m][j] = queue[m][k] => j = k
      BY <1>0 DEF Queued
    <3>2. \A k \in DOMAIN queue'[m] : k \in DOMAIN queue[m] \/ k = Len(queue[m]) + 1
      BY <1>9
    <3>3. ASSUME NEW j \in DOMAIN queue'[m], NEW k \in DOMAIN queue'[m],
                 queue'[m][j] = queue'[m][k]
          PROVE  j = k
      <4>1. CASE j \in DOMAIN queue[m] /\ k \in DOMAIN queue[m]
        BY <1>9, <3>1, <3>3, <4>1
      <4>2. CASE j \in DOMAIN queue[m] /\ k = Len(queue[m]) + 1
        BY <1>6, <1>9, <3>3, <4>2
      <4>3. CASE k \in DOMAIN queue[m] /\ j = Len(queue[m]) + 1
        BY <1>6, <1>9, <3>3, <4>3
      <4> QED
        BY <3>2, <4>1, <4>2, <4>3
    <3> QED
      BY <3>3
  <2>3. \A x \in Lockers : WaitsFor(x, m)' <=> \E k \in DOMAIN queue'[m] : queue'[m][k] = x
    <3>1. \A x \in Lockers : (\E k \in DOMAIN queue'[m] : queue'[m][k] = x)
                             <=> x = l \/ \E k \in DOMAIN queue[m] : queue[m][k] = x
      <4>1. \A k \in DOMAIN queue'[m] : k \in DOMAIN queue[m] \/ k = Len(queue[m]) + 1
        BY <1>9
      <4>2. /\ \A k \in DOMAIN queue[m] : k \in DOMAIN queue'[m]
            /\ Len(queue[m]) + 1 \in DOMAIN queue'[m]
        BY <1>9
      <4> QED
        BY <1>9, <4>1, <4>2
    <3> QED
      BY <1>0, <1>12, <3>1 DEF Queued
  <2> QED
    BY <2>1, <2>2, <2>3 DEF Queued
<1>14. WaitersServed'
  BY <1>5, <1>12 DEF WaitersServed
<1> QED
  BY <1>5, <1>6, <1>10, <1>11, <1>13, <1>14

\* do_resume() stores the ownership in the element that first names.
LEMMA Resumed ==
  ASSUME NEW x \in Objects, Consistent(x), x.at \in {"waiting", "first"},
         NEW m \in Mutexes, NEW u \in Users \cup {Null},
         NEW r, r = do_resume(x, m, u)
  PROVE  /\ r \in Objects /\ Consistent(r) /\ r.at = "others"
         /\ Has(x) = {} /\ Has(r) = {m}
<1>1. /\ r.at = "others" /\ r.o = x.o /\ r.trial = x.trial /\ r.first = x.first
      /\ r.owns = [x.owns EXCEPT ![x.first] = m] /\ r.i = 1 /\ r.caller = u
  BY DEF do_resume, lock_complete, Objects
<1>2. r \in Objects
  <2> DEFINE x1 == [x EXCEPT !.caller = u]
             x2 == [x1 EXCEPT !.owns[x1.first] = m]
             x3 == [x2 EXCEPT !.i = 1]
  <2>1. x1 \in Objects /\ x1.first = x.first
    BY DEF Objects
  <2>2. x2 \in Objects
    <3>1. [x1.owns EXCEPT ![x1.first] = m] \in [Index -> Ownerships]
      BY <2>1 DEF Objects, Ownerships
    <3> HIDE DEF x1
    <3> QED
      BY <2>1, <3>1 DEF Objects
  <2>3. x3 \in Objects
    <3> HIDE DEF x2
    <3> QED
      BY <2>2, MultiLockConstants DEF Objects
  <2>4. [x3 EXCEPT !.at = "others"] \in Objects
    <3> HIDE DEF x3
    <3> QED
      BY <2>3 DEF Objects, Active
  <2> QED
    BY <2>4 DEF do_resume, lock_complete
<1>3. /\ x.o = Null /\ x.trial = Null /\ \A k \in Index : x.owns[k] = Null
  BY DEF Consistent
<1>4. \A k \in Index : r.owns[k] = IF k = x.first THEN m ELSE Null
  BY <1>1, <1>3 DEF Objects
<1>5. x.first \in Index /\ r.owns[x.first] = m
  BY <1>4 DEF Objects
<1>6. Consistent(r)
  BY <1>1, <1>3, <1>4, <1>5 DEF Consistent
<1>7. Has(x) = {} /\ Has(r) = {m}
  BY <1>1, <1>3, <1>4, <1>5, Names DEF Has
<1> QED
  BY <1>1, <1>2, <1>6, <1>7

\* A mutex is released, to the locker that has waited longest if there is
\* one.
LEMMA Pass ==
  ASSUME MultiLockInv, NEW u \in Users, NEW m \in Mutexes, holder[m] = u,
         NEW r, release(u, m, r),
         u \in Lockers => /\ r \in Objects /\ Consistent(r)
                          /\ obj[u].at # "waiting" /\ r.at # "waiting"
                          /\ Has(r) = Has(obj[u]) \ {m}
  PROVE  MultiLockInv'
<1> USE DEF MultiLockInv
<1> DEFINE w == IF queue[m] = <<>> THEN Null ELSE Head(queue[m])
<1>0. /\ holder' = [holder EXCEPT ![m] = w]
      /\ queue' = [queue EXCEPT ![m] = IF w = Null THEN queue[m] ELSE Tail(queue[m])]
      /\ obj' = [l \in Lockers |-> IF l = u THEN r
                                   ELSE IF l = w THEN do_resume(obj[l], m, u)
                                   ELSE obj[l]]
      /\ uses' = uses
  BY DEF release
<1>1. queue[m] \in Seq(Lockers) /\ \A l \in Lockers : obj[l] \in Objects
  BY DEF Types
<1>2. /\ holder'[m] = w
      /\ \A n \in Mutexes : n # m => holder'[n] = holder[n]
      /\ queue'[m] = IF w = Null THEN queue[m] ELSE Tail(queue[m])
      /\ \A n \in Mutexes : n # m => queue'[n] = queue[n]
  BY <1>0 DEF Types
<1>3. u \in Lockers => obj'[u] = r
  BY <1>0
<1>4. CASE queue[m] = <<>>
  <2>1. /\ w = Null /\ queue' = queue
        /\ \A l \in Lockers : l # u => obj'[l] = obj[l]
    BY <1>0, <1>4, Names DEF Types
  <2>2. Types'
    BY <1>0, <1>3, <2>1, Names DEF Types
  <2>3. Matched'
    BY <1>2, <1>3, <2>1, Names DEF Matched
  <2>4. \A k \in Lockers, n \in Mutexes : WaitsFor(k, n)' <=> WaitsFor(k, n)
    BY <1>3, <2>1 DEF WaitsFor
  <2>5. Queued'
    BY <2>1, <2>4 DEF Queued
  <2>6. \A k \in Lockers : ~WaitsFor(k, m)
    BY <1>4 DEF Queued
  <2>7. WaitersServed'
    BY <1>2, <2>4, <2>6 DEF WaitersServed
  <2> QED
    BY <2>2, <2>3, <2>5, <2>7
<1>5. CASE queue[m] # <<>>
  <2>1. /\ Len(queue[m]) \in Nat \ {0} /\ DOMAIN queue[m] = 1 .. Len(queue[m])
        /\ w = queue[m][1] /\ w \in Lockers
        /\ Tail(queue[m]) \in Seq(Lockers)
        /\ DOMAIN Tail(queue[m]) = 1 .. Len(queue[m]) - 1
        /\ \A k \in 1 .. Len(queue[m]) - 1 : Tail(queue[m])[k] = queue[m][k + 1]
    BY <1>1, <1>5
  <2> HIDE DEF w
  <2>2. WaitsFor(w, m) /\ w # u /\ w # Null
    <3>1. WaitsFor(w, m)
      BY <2>1 DEF Queued
    <3> QED
      BY <2>1, <3>1, Names DEF WaitsFor
  <2>3. /\ obj'[w] \in Objects /\ Consistent(obj'[w]) /\ obj'[w].at = "others"
        /\ Has(obj[w]) = {} /\ Has(obj'[w]) = {m}
    <3>1. obj'[w] = do_resume(obj[w], m, u)
      BY <1>0, <2>1, <2>2
    <3>2. Consistent(obj[w]) /\ obj[w].at = "waiting" /\ obj[w] \in Objects
      BY <1>1, <2>1, <2>2 DEF Matched, WaitsFor
    <3> QED
      BY <3>1, <3>2, Resumed
  <2>4. \A l \in Lockers : l # u /\ l # w => obj'[l] = obj[l]
    BY <1>0
  <2>5. Types'
    <3>1. obj' \in [Lockers -> Objects]
      BY <1>0, <1>1, <1>3, <2>3, <2>4
    <3>2. queue' \in [Mutexes -> Seq(Lockers)]
      BY <1>0, <2>1, <2>2 DEF Types
    <3> QED
      BY <1>0, <2>1, <3>1, <3>2, Names DEF Types
  <2>6. Matched'
    <3>1. ASSUME NEW l \in Lockers, l # u, l # w
          PROVE  Consistent(obj'[l]) /\ \A n \in Mutexes : holder'[n] = l <=> n \in Has(obj'[l])
      BY <1>2, <2>4, <3>1 DEF Matched
    <3>2. \A n \in Mutexes : holder'[n] = w <=> n \in Has(obj'[w])
      BY <1>2, <2>1, <2>3 DEF Matched
    <3>3. u \in Lockers => \A n \in Mutexes : holder'[n] = u <=> n \in Has(obj'[u])
      BY <1>2, <1>3, <2>2 DEF Matched
    <3> QED
      BY <1>3, <2>3, <3>1, <3>2, <3>3 DEF Matched
  <2>7. \A k \in Lockers, n \in Mutexes : WaitsFor(k, n)' <=> WaitsFor(k, n) /\ k # w
    BY <1>3, <2>2, <2>3, <2>4 DEF WaitsFor
  <2>8. Queued'
    <3>1. ASSUME NEW n \in Mutexes, n # m
          PROVE  /\ \A j, k \in DOMAIN queue'[n] : queue'[n][j] = queue'[n][k] => j = k
                 /\ \A x \in Lockers : WaitsFor(x, n)' <=> \E k \in DOMAIN queue'[n] : queue'[n][k] = x
      <4>1. ~WaitsFor(w, n)
        BY <2>2, <3>1 DEF WaitsFor
      <4> QED
        BY <1>2, <2>7, <3>1, <4>1 DEF Queued
    <3>2. queue'[m] = Tail(queue[m])
      BY <1>2, <2>2
    <3>3. \A j, k \in DOMAIN queue[m] : queue[m][j] = queue[m][k] => j = k
      BY DEF Queued
    <3>4. \A j, k \in DOMAIN queue'[m] : queue'[m][j] = queue'[m][k] => j = k
      <4>1. ASSUME NEW j \in DOMAIN queue'[m], NEW k \in DOMAIN queue'[m],
                   queue'[m][j] = queue'[m][k]
            PROVE  j = k
        <5>1. /\ j + 1 \in DOMAIN queue[m] /\ queue'[m][j] = queue[m][j + 1]
              /\ k + 1 \in DOMAIN queue[m] /\ queue'[m][k] = queue[m][k + 1]
          BY <2>1, <3>2
        <5>2. j + 1 = k + 1
          BY <3>3, <4>1, <5>1
        <5> QED
          BY <2>1, <3>2, <5>2
      <4> QED
        BY <4>1
    <3>5. ASSUME NEW x \in Lockers
          PROVE  WaitsFor(x, m)' <=> \E k \in DOMAIN queue'[m] : queue'[m][k] = x
      <4>1. ASSUME NEW k \in DOMAIN queue'[m], queue'[m][k] = x
            PROVE  WaitsFor(x, m) /\ x # w
        <5>1. k + 1 \in DOMAIN queue[m] /\ queue[m][k + 1] = x /\ k + 1 # 1
          BY <2>1, <3>2, <4>1
        <5> QED
          BY <2>1, <3>3, <5>1 DEF Queued
      <4>2. ASSUME WaitsFor(x, m), x # w
            PROVE  \E k \in DOMAIN queue'[m] : queue'[m][k] = x
        <5>1. PICK k \in DOMAIN queue[m] : queue[m][k] = x
          BY <4>2 DEF Queued
        <5>2. k - 1 \in DOMAIN queue'[m] /\ queue'[m][k - 1] = x
          BY <2>1, <3>2, <4>2, <5>1
        <5> QED
          BY <5>2
      <4> QED
        BY <2>7, <4>1, <4>2
    <3> QED
      BY <3>1, <3>4, <3>5 DEF Queued
  <2>9. WaitersServed'
    BY <1>2, <2>2, <2>7 DEF WaitersServed
  <2> QED
    BY <2>5, <2>6, <2>8, <2>9
<1> QED
  BY <1>4, <1>5

-----------------------------------------------------------------------------
(* The invariant is inductive                                              *)

\* Nothing is locked at first.
LEMMA InitInv == Init => MultiLockInv
<1> SUFFICES ASSUME Init PROVE MultiLockInv
  OBVIOUS
<1>1. Unlocked \in Objects
  BY MultiLockConstants DEF Unlocked, Objects, Ownerships, Index, Active
<1>2. /\ Unlocked.at = "idle" /\ Unlocked.o = Null /\ Unlocked.trial = Null
      /\ Unlocked.first = 0 /\ Unlocked.owns = [k \in Index |-> Null] /\ 0 \in Index
  BY MultiLockConstants DEF Unlocked, Index
<1>3. Consistent(Unlocked) /\ Has(Unlocked) = {}
  BY <1>2, Names DEF Consistent, Has
<1>4. Types
  BY <1>1, MultiLockConstants DEF Init, Types
<1>5. Matched
  BY <1>3, Names DEF Init, Matched
<1>6. \A l \in Lockers, m \in Mutexes : ~WaitsFor(l, m)
  BY <1>2 DEF Init, WaitsFor
<1>7. Queued /\ WaitersServed
  BY <1>6 DEF Init, Queued, WaitersServed
<1> QED
  BY <1>4, <1>5, <1>7 DEF MultiLockInv

\* What is known of an object, and of its list.
LEMMA ObjectFacts ==
  ASSUME MultiLockInv, NEW l \in Lockers
  PROVE  /\ obj[l] \in Objects /\ Consistent(obj[l])
         /\ obj[l].owns \in [Index -> Ownerships]
         /\ obj[l].i \in 1 .. N /\ obj[l].first \in Index
         /\ \A m \in Mutexes : holder[m] = l <=> m \in Has(obj[l])
         /\ uses \in [Users -> 0 .. MaxUses]
  BY DEF MultiLockInv, Types, Matched, Objects

\* lock()
LEMMA StepLock ==
  ASSUME MultiLockInv, NEW l \in Lockers, lock(l)
  PROVE  MultiLockInv'
<1> DEFINE x == obj[l]
           m == locking[l][0]
           y == [x EXCEPT !.caller = Null]
<1>1. x \in Objects /\ Consistent(x) /\ x.at = "idle" /\ m \in Mutexes
  BY ObjectFacts, Names, MultiLockConstants DEF lock, At, Index
<1>2. /\ queue' = queue
      /\ \/ /\ holder[m] = Null /\ holder' = [holder EXCEPT ![m] = l]
            /\ obj' = [obj EXCEPT ![l] = [y EXCEPT !.o = m, !.i = 1, !.at = "others"]]
         \/ /\ holder' = holder
            /\ obj' = [obj EXCEPT ![l] = [y EXCEPT !.at = "prepared"]]
  BY DEF lock, try_lock, become
<1>3. uses' \in [Users -> 0 .. MaxUses]
  BY ObjectFacts, Names, MultiLockConstants DEF lock
<1> HIDE DEF x, m
<1>4. ASSUME NEW r, r = [y EXCEPT !.o = m, !.i = 1, !.at = "others"]
      PROVE  /\ r \in Objects /\ Consistent(r) /\ Has(r) = Has(x) \cup {m}
             /\ r.at = "others"
  <2>1. r \in Objects
    <3>1. y \in Objects
      BY <1>1 DEF Objects
    <3> HIDE DEF y
    <3>2. 1 \in 1 .. N /\ m \in Ownerships /\ "others" \in Active
      BY <1>1, MultiLockConstants DEF Ownerships, Active
    <3> QED
      BY <1>4, <3>1, <3>2 DEF Objects
  <2>2. /\ r.o = m /\ r.at = "others" /\ r.trial = x.trial /\ r.owns = x.owns
        /\ r.first = x.first /\ r.i = 1
    BY <1>1, <1>4 DEF Objects
  <2>3. x.o = Null /\ x.trial = Null /\ \A k \in Index : x.owns[k] = Null
    BY <1>1 DEF Consistent
  <2> QED
    BY <1>1, <2>1, <2>2, <2>3, Names DEF Consistent, Has
<1>5. ASSUME NEW r, r = [y EXCEPT !.at = "prepared"]
      PROVE  r \in Objects /\ Consistent(r) /\ Has(r) = Has(x) /\ r.at = "prepared"
  <2>1. r \in Objects
    BY <1>1, <1>5 DEF Objects
  <2>2. /\ r.o = x.o /\ r.at = "prepared" /\ r.trial = x.trial /\ r.owns = x.owns
        /\ r.first = x.first /\ r.i = x.i
    BY <1>1, <1>5 DEF Objects
  <2> QED
    BY <1>1, <2>1, <2>2 DEF Consistent, Has
<1> HIDE DEF y
<1> QED
  BY <1>1, <1>2, <1>3, <1>4, <1>5, Move DEF x

\* The steps that change only where the object is, or first.
LEMMA Relabel ==
  ASSUME MultiLockInv, NEW l \in Lockers, NEW r \in Objects,
         obj[l].at \notin {"waiting", "trial"}, r.at \notin {"waiting", "trial"},
         r.o = obj[l].o, r.trial = obj[l].trial, r.owns = obj[l].owns,
         r.first = obj[l].first \/ Owned(l) = {},
         r.at = "leave" => r.o # Null,
         r.at = "locked" => r.o = Null,
         r.at \in {"idle", "prepared", "first"} => r.o = Null /\ Owned(l) = {},
         r.at = "failed" => r.i < N,
         obj' = [obj EXCEPT ![l] = r], UNCHANGED <<holder, queue, uses>>
  PROVE  MultiLockInv'
<1>1. obj[l] \in Objects /\ Consistent(obj[l]) /\ uses' \in [Users -> 0 .. MaxUses]
  BY ObjectFacts
<1>2. Has(r) = Has(obj[l])
  BY DEF Has
<1>3. Owned(l) = {} => \A k \in Index : r.owns[k] = Null
  BY DEF Owned
<1>4. r.first \in Index
  BY DEF Objects
<1>5. Consistent(r)
  BY <1>1, <1>3, <1>4 DEF Consistent
<1> QED
  BY <1>1, <1>2, <1>5, Move

\* await(), lock_others_end(), the ends of rollback() and of unlock()
LEMMA StepRelabel ==
  ASSUME MultiLockInv, NEW l \in Lockers,
         \/ await(l) \/ lock_others_end(l)
         \/ At(l, "failed") /\ Owned(l) = {} /\ rollback(l)
         \/ At(l, "locked") /\ Owned(l) = {} /\ unlock(l)
  PROVE  MultiLockInv'
<1>1. /\ obj[l] \in Objects /\ Consistent(obj[l]) /\ obj[l].i \in 1 .. N
  BY ObjectFacts
<1>2. \A k \in Index : obj[l].owns[k] # Null => k = obj[l].first
  BY <1>1 DEF Consistent
<1>3. CASE await(l)
  <2>1. PICK label \in {"first", "idle"} :
          obj' = [obj EXCEPT ![l] = [obj[l] EXCEPT !.at = label]]
    BY <1>3 DEF await, become
  <2> DEFINE r == [obj[l] EXCEPT !.at = label]
  <2>2. /\ r \in Objects /\ r.at = label /\ r.o = obj[l].o /\ r.trial = obj[l].trial
        /\ r.owns = obj[l].owns /\ r.first = obj[l].first
    BY <1>1 DEF Objects, Active
  <2>3. obj[l].at = "prepared" /\ UNCHANGED <<holder, queue, uses>> /\ obj' = [obj EXCEPT ![l] = r]
    BY <1>3, <2>1 DEF await, At
  <2>4. obj[l].o = Null /\ Owned(l) = {}
    BY <1>1, <1>2, <2>3 DEF Consistent, Owned
  <2> HIDE DEF r
  <2> QED
    BY <2>2, <2>3, <2>4, Relabel
<1>4. CASE lock_others_end(l)
  <2> DEFINE label == IF obj[l].o = Null THEN "locked" ELSE "leave"
             r == [obj[l] EXCEPT !.at = label]
  <2>1. /\ r \in Objects /\ r.at = label /\ r.o = obj[l].o /\ r.trial = obj[l].trial
        /\ r.owns = obj[l].owns /\ r.first = obj[l].first
    BY <1>1 DEF Objects, Active
  <2>2. /\ obj[l].at = "others" /\ UNCHANGED <<holder, queue, uses>>
        /\ obj' = [obj EXCEPT ![l] = r]
    BY <1>4 DEF lock_others_end, At, become
  <2> HIDE DEF r
  <2> QED
    BY <2>1, <2>2, Relabel
<1>5. CASE At(l, "failed") /\ Owned(l) = {} /\ rollback(l)
  <2> DEFINE label == IF obj[l].o = Null THEN "first" ELSE "leave"
             r == [obj[l] EXCEPT !.first = obj[l].i, !.at = label]
  <2>1. obj[l].at = "failed" /\ obj[l].i \in Index
    BY <1>1, <1>5, MultiLockConstants DEF At, Consistent, Index
  <2>2. /\ r \in Objects /\ r.at = label /\ r.o = obj[l].o /\ r.trial = obj[l].trial
        /\ r.owns = obj[l].owns
    BY <1>1, <2>1 DEF Objects, Active
  <2>3. obj' = [obj EXCEPT ![l] = r] /\ UNCHANGED <<holder, queue, uses>>
    BY <1>5 DEF rollback, become
  <2> HIDE DEF r
  <2> QED
    BY <1>5, <2>1, <2>2, <2>3, Relabel
<1>6. CASE At(l, "locked") /\ Owned(l) = {} /\ unlock(l)
  <2> DEFINE r == [obj[l] EXCEPT !.at = "idle"]
  <2>1. /\ r \in Objects /\ r.at = "idle" /\ r.o = obj[l].o /\ r.trial = obj[l].trial
        /\ r.owns = obj[l].owns /\ r.first = obj[l].first
    BY <1>1 DEF Objects, Active
  <2>2. obj[l].at = "locked" /\ obj[l].o = Null
    BY <1>1, <1>6 DEF At, Consistent
  <2>3. obj' = [obj EXCEPT ![l] = r] /\ UNCHANGED <<holder, queue, uses>>
    BY <1>6 DEF unlock, become
  <2> HIDE DEF r
  <2> QED
    BY <1>6, <2>1, <2>2, <2>3, Relabel
<1> QED
  BY <1>3, <1>4, <1>5, <1>6

\* lock_others(): the mutex that is tried is one of the list.
LEMMA StepLockOthers ==
  ASSUME MultiLockInv, NEW l \in Lockers, lock_others(l)
  PROVE  MultiLockInv'
<1> DEFINE x == obj[l]
           m == locking[l][(x.i + x.first) % N]
<1>1. /\ x \in Objects /\ Consistent(x) /\ x.i \in 1 .. N /\ x.first \in Index
      /\ x.at = "others" /\ x.i < N
      /\ \A n \in Mutexes : holder[n] = l <=> n \in Has(x)
      /\ uses \in [Users -> 0 .. MaxUses]
  BY ObjectFacts DEF lock_others, At
<1>2. m \in Mutexes
  <2>1. (x.i + x.first) % N \in Index
    BY <1>1, MultiLockConstants DEF Index
  <2> QED
    BY <2>1, Names
<1>3. /\ UNCHANGED <<queue, uses>>
      /\ \/ /\ holder[m] = Null /\ holder' = [holder EXCEPT ![m] = l]
            /\ obj' = [obj EXCEPT ![l] = [x EXCEPT !.trial = m, !.at = "trial"]]
         \/ /\ holder' = holder
            /\ obj' = [obj EXCEPT ![l] = [x EXCEPT !.at = "failed"]]
  BY DEF lock_others, try_lock, become
<1> HIDE DEF x, m
<1>4. CASE /\ holder[m] = Null /\ holder' = [holder EXCEPT ![m] = l]
           /\ obj' = [obj EXCEPT ![l] = [x EXCEPT !.trial = m, !.at = "trial"]]
  <2> DEFINE r == [x EXCEPT !.trial = m, !.at = "trial"]
  <2>1. /\ r \in Objects /\ r.at = "trial" /\ r.o = x.o /\ r.trial = m
        /\ r.owns = x.owns /\ r.first = x.first /\ r.i = x.i
    BY <1>1, <1>2 DEF Objects, Active, Ownerships
  <2> HIDE DEF r
  <2>2. m \notin Has(x)
    BY <1>1, <1>2, <1>4, Names
  <2>3. Consistent(r) /\ Has(r) = Has(x) \cup {m}
    <3>1. x.trial = Null
      BY <1>1 DEF Consistent
    <3>2. m # x.o /\ \A k \in Index : m # x.owns[k]
      BY <1>2, <2>2 DEF Has
    <3>3. Consistent(r)
      BY <1>1, <1>2, <2>1, <3>2, Names DEF Consistent
    <3> QED
      BY <1>2, <2>1, <3>1, <3>3, Names DEF Has
  <2>4. obj' = [obj EXCEPT ![l] = r]
    BY <1>4 DEF r
  <2> QED
    BY <1>1, <1>2, <1>3, <1>4, <2>1, <2>3, <2>4, Move DEF x
<1>5. CASE /\ holder' = holder
           /\ obj' = [obj EXCEPT ![l] = [x EXCEPT !.at = "failed"]]
  <2> DEFINE r == [x EXCEPT !.at = "failed"]
  <2>1. /\ r \in Objects /\ r.at = "failed" /\ r.o = x.o /\ r.trial = x.trial
        /\ r.owns = x.owns /\ r.first = x.first /\ r.i = x.i
    BY <1>1 DEF Objects, Active
  <2> HIDE DEF r
  <2>2. obj' = [obj EXCEPT ![l] = r]
    BY <1>5 DEF r
  <2> QED
    BY <1>1, <1>3, <1>5, <2>1, <2>2, Relabel DEF x
<1> QED
  BY <1>3, <1>4, <1>5

\* One element of owns is released, by rollback() or by unlock().
LEMMA ReleaseOwns ==
  ASSUME MultiLockInv, NEW l \in Lockers, NEW k \in Owned(l),
         NEW r, r = [obj[l] EXCEPT !.owns[k] = Null]
  PROVE  /\ obj[l].owns[k] \in Mutexes /\ holder[obj[l].owns[k]] = l
         /\ r \in Objects /\ Consistent(r) /\ r.at = obj[l].at
         /\ Has(r) = Has(obj[l]) \ {obj[l].owns[k]}
<1> DEFINE x == obj[l]
           m == x.owns[k]
<1>1. /\ x \in Objects /\ Consistent(x) /\ x.owns \in [Index -> Ownerships]
      /\ \A n \in Mutexes : holder[n] = l <=> n \in Has(x)
  BY ObjectFacts
<1>2. k \in Index /\ x.owns[k] # Null
  BY DEF Owned
<1>3. m \in Mutexes
  BY <1>1, <1>2 DEF Ownerships
<1>4. r = [x EXCEPT !.owns[k] = Null]
  OBVIOUS
<1> HIDE DEF x
<1>5. m \in Has(x) /\ holder[m] = l
  BY <1>1, <1>2, <1>3 DEF Has
<1>6. [x.owns EXCEPT ![k] = Null] \in [Index -> Ownerships]
  BY <1>1, <1>2 DEF Ownerships
<1>7. /\ r.owns = [x.owns EXCEPT ![k] = Null] /\ r.at = x.at /\ r.o = x.o
      /\ r.trial = x.trial /\ r.first = x.first /\ r.i = x.i
  BY <1>1, <1>4 DEF Objects
<1>8. r \in Objects
  BY <1>1, <1>4, <1>6 DEF Objects
<1>9. k = x.first /\ x.o = Null /\ (x.trial # Null => x.trial # m)
  BY <1>1, <1>2 DEF Consistent
<1>10. \A j \in Index : x.owns[j] = (IF j = k THEN m ELSE Null) /\ r.owns[j] = Null
  BY <1>1, <1>2, <1>7, <1>9 DEF Consistent
<1>11. Consistent(r)
  BY <1>1, <1>2, <1>7, <1>9, <1>10 DEF Consistent
<1>12. Has(r) = Has(x) \ {m}
  BY <1>2, <1>3, <1>7, <1>9, <1>10, Names DEF Has
<1> QED
  BY <1>3, <1>5, <1>7, <1>8, <1>11, <1>12 DEF x

\* The local of lock_others() is released at the end of an iteration.
LEMMA ReleaseTrial ==
  ASSUME MultiLockInv, NEW l \in Lockers, obj[l].at = "trial",
         NEW r, r = [obj[l] EXCEPT !.trial = Null, !.i = obj[l].i + 1, !.at = "others"]
  PROVE  /\ obj[l].trial \in Mutexes /\ holder[obj[l].trial] = l
         /\ r \in Objects /\ Consistent(r) /\ r.at = "others"
         /\ Has(r) = Has(obj[l]) \ {obj[l].trial}
<1> DEFINE x == obj[l]
           m == x.trial
<1>1. /\ x \in Objects /\ Consistent(x) /\ x.at = "trial" /\ x.i \in 1 .. N
      /\ x.first \in Index
      /\ \A n \in Mutexes : holder[n] = l <=> n \in Has(x)
  BY ObjectFacts
<1>2. r = [x EXCEPT !.trial = Null, !.i = x.i + 1, !.at = "others"]
  OBVIOUS
<1> HIDE DEF x
<1>3. m \in Mutexes /\ x.i < N
  BY <1>1 DEF Consistent, Objects, Ownerships
<1>4. m \in Has(x) /\ holder[m] = l
  BY <1>1, <1>3 DEF Has
<1>5. Null \in Ownerships /\ x.i + 1 \in 1 .. N /\ "others" \in Active
  BY <1>1, <1>3, MultiLockConstants DEF Ownerships, Active
<1>6. r \in Objects
  BY <1>1, <1>2, <1>5 DEF Objects
<1>7. /\ r.owns = x.owns /\ r.at = "others" /\ r.o = x.o
      /\ r.trial = Null /\ r.first = x.first
  BY <1>1, <1>2 DEF Objects
<1>8. x.o # m /\ \A k \in Index : x.owns[k] # m
  BY <1>1, <1>3, Names DEF Consistent
<1>9. Consistent(r)
  BY <1>1, <1>7 DEF Consistent
<1>10. Has(r) = Has(x) \ {m}
  BY <1>3, <1>7, <1>8, Names DEF Has
<1> QED
  BY <1>3, <1>4, <1>6, <1>7, <1>9, <1>10 DEF x

\* The local of lock() is released when it returns.
LEMMA ReleaseLocal ==
  ASSUME MultiLockInv, NEW l \in Lockers, obj[l].at = "leave",
         NEW r, r = [obj[l] EXCEPT !.o = Null,
                                   !.at = IF obj[l].i = N THEN "locked" ELSE "prepared"]
  PROVE  /\ obj[l].o \in Mutexes /\ holder[obj[l].o] = l
         /\ r \in Objects /\ Consistent(r) /\ r.at # "waiting"
         /\ Has(r) = Has(obj[l]) \ {obj[l].o}
<1> DEFINE x == obj[l]
           m == x.o
           label == IF x.i = N THEN "locked" ELSE "prepared"
<1>1. /\ x \in Objects /\ Consistent(x) /\ x.at = "leave" /\ x.first \in Index
      /\ \A n \in Mutexes : holder[n] = l <=> n \in Has(x)
  BY ObjectFacts
<1>2. r = [x EXCEPT !.o = Null, !.at = label]
  OBVIOUS
<1> HIDE DEF x
<1>3. m \in Mutexes
  BY <1>1 DEF Consistent, Objects, Ownerships
<1>4. m \in Has(x) /\ holder[m] = l
  BY <1>1, <1>3 DEF Has
<1>5. Null \in Ownerships
  BY DEF Ownerships
<1>6. r \in Objects
  BY <1>1, <1>2, <1>5 DEF Objects
<1>7. /\ r.owns = x.owns /\ r.at = label /\ r.o = Null
      /\ r.trial = x.trial /\ r.first = x.first
  BY <1>1, <1>2 DEF Objects
<1>8. x.trial = Null /\ \A k \in Index : x.owns[k] = Null
  BY <1>1, <1>3, Names DEF Consistent
<1>9. Consistent(r)
  BY <1>1, <1>7, <1>8 DEF Consistent
<1>10. Has(r) = Has(x) \ {m}
  BY <1>3, <1>7, <1>8, Names DEF Has
<1> QED
  BY <1>3, <1>4, <1>6, <1>7, <1>9, <1>10 DEF x

\* The mutexes' view of a step: none is touched, or one that is free is
\* taken, or one is released by its holder, or one that is held is queued
\* for by a locker that neither holds it nor waits for it.
Untouched == UNCHANGED <<holder, queue>>
Taken == \E u \in Users, m \in Mutexes :
           /\ holder[m] = Null
           /\ holder' = [holder EXCEPT ![m] = u] /\ queue' = queue
Released == \E u \in Users, m \in Mutexes :
              /\ holder[m] = u
              /\ LET w == IF queue[m] = <<>> THEN Null ELSE Head(queue[m]) IN
                 /\ holder' = [holder EXCEPT ![m] = w]
                 /\ queue' = [queue EXCEPT ![m] = IF w = Null THEN queue[m]
                                                  ELSE Tail(queue[m])]
Enqueued == \E l \in Lockers, m \in Mutexes :
              /\ holder[m] # Null /\ holder[m] # l
              /\ \A k \in DOMAIN queue[m] : queue[m][k] # l
              /\ queue' = [queue EXCEPT ![m] = Append(queue[m], l)] /\ holder' = holder

LockMoves == Untouched \/ Taken \/ Released \/ Enqueued

\* The four steps of a locker that release a mutex.
LEMMA StepRelease ==
  ASSUME MultiLockInv, NEW l \in Lockers,
         \/ lock_others_next(l) \/ leave(l)
         \/ At(l, "failed") /\ Owned(l) # {} /\ rollback(l)
         \/ At(l, "locked") /\ Owned(l) # {} /\ unlock(l)
  PROVE  MultiLockInv' /\ LockMoves
<1>1. \E m \in Mutexes, r \in Objects :
        /\ holder[m] = l /\ release(l, m, r) /\ Consistent(r)
        /\ obj[l].at # "waiting" /\ r.at # "waiting" /\ Has(r) = Has(obj[l]) \ {m}
  <2>1. CASE lock_others_next(l)
    <3> DEFINE r == [obj[l] EXCEPT !.trial = Null, !.i = obj[l].i + 1, !.at = "others"]
    <3>1. obj[l].at = "trial" /\ release(l, obj[l].trial, r)
      BY <2>1 DEF lock_others_next, At
    <3> HIDE DEF r
    <3>2. /\ obj[l].trial \in Mutexes /\ holder[obj[l].trial] = l
          /\ r \in Objects /\ Consistent(r) /\ r.at = "others"
          /\ Has(r) = Has(obj[l]) \ {obj[l].trial}
      BY <3>1, ReleaseTrial DEF r
    <3> QED
      BY <3>1, <3>2
  <2>2. CASE leave(l)
    <3> DEFINE r == [obj[l] EXCEPT !.o = Null,
                                   !.at = IF obj[l].i = N THEN "locked" ELSE "prepared"]
    <3>1. obj[l].at = "leave" /\ release(l, obj[l].o, r)
      BY <2>2 DEF leave, At
    <3> HIDE DEF r
    <3>2. /\ obj[l].o \in Mutexes /\ holder[obj[l].o] = l
          /\ r \in Objects /\ Consistent(r) /\ r.at # "waiting"
          /\ Has(r) = Has(obj[l]) \ {obj[l].o}
      BY <3>1, ReleaseLocal DEF r
    <3> QED
      BY <3>1, <3>2
  <2>3. ASSUME NEW k \in Owned(l), obj[l].at \in {"failed", "locked"},
               release(l, obj[l].owns[k], [obj[l] EXCEPT !.owns[k] = Null])
        PROVE  \E m \in Mutexes, r \in Objects :
                 /\ holder[m] = l /\ release(l, m, r) /\ Consistent(r)
                 /\ obj[l].at # "waiting" /\ r.at # "waiting" /\ Has(r) = Has(obj[l]) \ {m}
    <3> DEFINE r == [obj[l] EXCEPT !.owns[k] = Null]
    <3>1. release(l, obj[l].owns[k], r)
      BY <2>3
    <3> HIDE DEF r
    <3>2. /\ obj[l].owns[k] \in Mutexes /\ holder[obj[l].owns[k]] = l
          /\ r \in Objects /\ Consistent(r) /\ r.at = obj[l].at
          /\ Has(r) = Has(obj[l]) \ {obj[l].owns[k]}
      BY ReleaseOwns DEF r
    <3> QED
      BY <2>3, <3>1, <3>2
  <2>4. CASE At(l, "failed") /\ Owned(l) # {} /\ rollback(l)
    <3>1. PICK k \in Owned(l) :
            release(l, obj[l].owns[k], [obj[l] EXCEPT !.owns[k] = Null])
      BY <2>4 DEF rollback
    <3> QED
      BY <2>3, <2>4, <3>1 DEF At
  <2>5. CASE At(l, "locked") /\ Owned(l) # {} /\ unlock(l)
    <3>1. PICK k \in Owned(l) :
            release(l, obj[l].owns[k], [obj[l] EXCEPT !.owns[k] = Null])
      BY <2>5 DEF unlock
    <3> QED
      BY <2>3, <2>5, <3>1 DEF At
  <2> QED
    BY <2>1, <2>2, <2>4, <2>5
<1>2. PICK m \in Mutexes, r \in Objects :
        /\ holder[m] = l /\ release(l, m, r) /\ Consistent(r)
        /\ obj[l].at # "waiting" /\ r.at # "waiting" /\ Has(r) = Has(obj[l]) \ {m}
  BY <1>1
<1>3. l \in Users
  BY Names
<1>4. MultiLockInv'
  BY <1>2, <1>3, Pass
<1>5. Released
  BY <1>2, <1>3 DEF Released, release
<1> QED
  BY <1>4, <1>5 DEF LockMoves

\* lock_first(): the first mutex is taken, or queued for.
LEMMA StepLockFirst ==
  ASSUME MultiLockInv, NEW l \in Lockers, lock_first(l)
  PROVE  MultiLockInv' /\ LockMoves
<1> DEFINE m == locking[l][obj[l].first]
<1>1. /\ obj[l] \in Objects /\ Consistent(obj[l]) /\ obj[l].first \in Index
      /\ obj[l].caller \in Users \cup {Null}
      /\ obj[l].at = "first" /\ uses' \in [Users -> 0 .. MaxUses]
  BY ObjectFacts DEF lock_first, At, Objects
<1>2. m \in Mutexes /\ l \in Users
  BY <1>1, Names
<1>3. CASE holder[m] = Null
  <2>1. /\ holder' = [holder EXCEPT ![m] = l] /\ queue' = queue
        /\ obj' = [obj EXCEPT ![l] = do_resume(obj[l], m, obj[l].caller)]
    BY <1>3 DEF lock_first, await_cont, try_lock, become
  <2> DEFINE r == do_resume(obj[l], m, obj[l].caller)
  <2> HIDE DEF m
  <2>2. /\ r \in Objects /\ Consistent(r) /\ r.at = "others"
        /\ Has(obj[l]) = {} /\ Has(r) = {m}
    BY <1>1, <1>2, Resumed
  <2> HIDE DEF r
  <2>3. obj' = [obj EXCEPT ![l] = r]
    BY <2>1 DEF r
  <2>4. MultiLockInv'
    BY <1>1, <1>2, <1>3, <2>1, <2>2, <2>3, Move
  <2> QED
    BY <1>2, <1>3, <2>1, <2>4 DEF LockMoves, Taken
<1>4. CASE holder[m] # Null
  <2>1. /\ queue' = [queue EXCEPT ![m] = Append(queue[m], l)]
        /\ obj' = [obj EXCEPT ![l] = [obj[l] EXCEPT !.at = "waiting"]]
        /\ UNCHANGED <<holder, uses>>
    BY <1>4 DEF lock_first, await_cont, try_lock, become
  <2>2. /\ MultiLockInv' /\ holder[m] # l
        /\ \A k \in DOMAIN queue[m] : queue[m][k] # l
    BY <1>1, <1>4, <2>1, Wait
  <2> QED
    BY <1>2, <1>4, <2>1, <2>2 DEF LockMoves, Enqueued
<1> QED
  BY <1>3, <1>4

\* A client takes or releases a mutex.
LEMMA StepClient ==
  ASSUME MultiLockInv, NEW c \in Clients, NEW m \in Mutexes,
         client_lock(c, m) \/ client_unlock(c, m)
  PROVE  MultiLockInv' /\ LockMoves
<1>1. c \in Users /\ c \notin Lockers
  BY Names
<1>2. CASE client_lock(c, m)
  <2>1. /\ holder[m] = Null /\ holder' = [holder EXCEPT ![m] = c]
        /\ uses[c] < MaxUses /\ uses' = [uses EXCEPT ![c] = uses[c] + 1]
        /\ UNCHANGED <<queue, obj>>
    BY <1>2 DEF client_lock, try_lock
  <2>2. Types'
    BY <1>1, <2>1, MultiLockConstants DEF MultiLockInv, Types
  <2>3. \A n \in Mutexes : holder'[n] = IF n = m THEN c ELSE holder[n]
    BY <2>1 DEF MultiLockInv, Types
  <2>4. Matched'
    BY <1>1, <2>1, <2>3, Names DEF MultiLockInv, Matched
  <2>5. Queued' /\ WaitersServed'
    BY <1>1, <2>1, <2>3, Names DEF MultiLockInv, Queued, WaitersServed, WaitsFor
  <2> QED
    BY <1>1, <2>1, <2>2, <2>4, <2>5 DEF MultiLockInv, LockMoves, Taken
<1>3. CASE client_unlock(c, m)
  <2>1. holder[m] = c /\ release(c, m, Null)
    BY <1>3 DEF client_unlock
  <2>2. MultiLockInv'
    BY <1>1, <2>1, Pass
  <2>3. Released
    BY <1>1, <2>1 DEF Released, release
  <2> QED
    BY <2>2, <2>3 DEF LockMoves
<1> QED
  BY <1>2, <1>3

\* Every step keeps the invariant, and is one of the mutexes' steps.
LEMMA NextInv ==
  ASSUME MultiLockInv, [Next]_vars
  PROVE  MultiLockInv' /\ LockMoves
<1>1. ASSUME NEW l \in Lockers, lock(l) PROVE MultiLockInv' /\ LockMoves
  <2>1. locking[l][0] \in Mutexes /\ l \in Users
    BY Names, MultiLockConstants DEF Index
  <2>2. Untouched \/ Taken
    BY <1>1, <2>1 DEF lock, try_lock, Untouched, Taken
  <2> QED
    BY <1>1, <2>2, StepLock DEF LockMoves
<1>2. ASSUME NEW l \in Lockers,
             \/ await(l) \/ lock_others_end(l)
             \/ At(l, "failed") /\ Owned(l) = {} /\ rollback(l)
             \/ At(l, "locked") /\ Owned(l) = {} /\ unlock(l)
      PROVE  MultiLockInv' /\ LockMoves
  <2>1. Untouched
    BY <1>2 DEF await, lock_others_end, rollback, unlock, Untouched
  <2> QED
    BY <1>2, <2>1, StepRelabel DEF LockMoves
<1>3. ASSUME NEW l \in Lockers, lock_others(l) PROVE MultiLockInv' /\ LockMoves
  <2>1. obj[l].i \in 1 .. N /\ obj[l].first \in Index
    BY ObjectFacts
  <2>2. (obj[l].i + obj[l].first) % N \in Index
    BY <2>1, MultiLockConstants DEF Index
  <2>3. locking[l][(obj[l].i + obj[l].first) % N] \in Mutexes /\ l \in Users
    BY <2>2, Names
  <2>4. Untouched \/ Taken
    BY <1>3, <2>3 DEF lock_others, try_lock, Untouched, Taken
  <2> QED
    BY <1>3, <2>4, StepLockOthers DEF LockMoves
<1>4. ASSUME NEW l \in Lockers,
             \/ lock_others_next(l) \/ leave(l)
             \/ At(l, "failed") /\ Owned(l) # {} /\ rollback(l)
             \/ At(l, "locked") /\ Owned(l) # {} /\ unlock(l)
      PROVE  MultiLockInv' /\ LockMoves
  BY <1>4, StepRelease
<1>5. ASSUME NEW l \in Lockers, lock_first(l) PROVE MultiLockInv' /\ LockMoves
  BY <1>5, StepLockFirst
<1>6. ASSUME NEW c \in Clients, NEW m \in Mutexes, client_lock(c, m) \/ client_unlock(c, m)
      PROVE  MultiLockInv' /\ LockMoves
  BY <1>6, StepClient
<1>7. CASE UNCHANGED vars
  <2>1. Types' /\ Matched' /\ Queued' /\ WaitersServed'
    BY <1>7 DEF vars, MultiLockInv, Types, Matched, Queued, WaitersServed, WaitsFor
  <2> QED
    BY <1>7, <2>1 DEF vars, MultiLockInv, LockMoves, Untouched
<1>8. ASSUME NEW l \in Lockers, rollback(l) \/ unlock(l) PROVE MultiLockInv' /\ LockMoves
  <2>1. \/ At(l, "failed") /\ rollback(l)
        \/ At(l, "locked") /\ unlock(l)
    BY <1>8 DEF rollback, unlock
  <2> QED
    BY <1>2, <1>4, <2>1
<1> QED
  BY <1>1, <1>2, <1>3, <1>4, <1>5, <1>6, <1>7, <1>8 DEF Next, Proceed

-----------------------------------------------------------------------------
(* The theorems                                                            *)

\* The invariant holds in every reachable state.
LEMMA Invariance == Spec => []MultiLockInv
<1>1. Init => MultiLockInv
  BY InitInv
<1>2. MultiLockInv /\ [Next]_vars => MultiLockInv'
  BY NextInv
<1> QED
  BY <1>1, <1>2, PTL DEF Spec

\* The two ways to say which mutexes an object's ownerships hold.
LEMMA HeldIsHas ==
  ASSUME MultiLockInv, NEW l \in Lockers
  PROVE  Held(l) = Has(obj[l])
<1>1. /\ obj[l].owns \in [Index -> Ownerships] /\ obj[l].o \in Ownerships
      /\ obj[l].trial \in Ownerships
  BY ObjectFacts DEF Objects
<1>2. \A m \in Ownerships : m # Null <=> m \in Mutexes
  BY Names DEF Ownerships
<1>3. Held(l) \subseteq Has(obj[l])
  BY <1>1, <1>2 DEF Held, Has
<1>4. Has(obj[l]) \subseteq Held(l)
  BY <1>1, <1>2, Names DEF Held, Has
<1> QED
  BY <1>3, <1>4

\* The numbers of elements of the sets that OwnershipsMatch counts.
LEMMA Counts ==
  /\ Cardinality({}) = 0
  /\ \A a : Cardinality({a}) = 1
  /\ \A a, b : a # b => Cardinality({a, b}) = 2
<1>1. Cardinality({}) = 0
  BY FS_EmptySet
<1>2. \A a : IsFiniteSet({a}) /\ Cardinality({a}) = 1
  BY FS_Singleton
<1>3. ASSUME NEW a, NEW b, a # b PROVE Cardinality({a, b}) = 2
  <2>1. b \notin {a} /\ {a, b} = {a} \cup {b}
    BY <1>3
  <2>2. Cardinality({a} \cup {b}) = Cardinality({a}) + 1
    BY <1>2, <2>1, FS_AddElement
  <2> QED
    BY <1>2, <2>1, <2>2
<1> QED
  BY <1>1, <1>2, <1>3

\* Types of the mutexes' and the objects' state.
THEOREM TypeCorrect == Spec => []Types
<1>1. MultiLockInv => Types
  BY DEF MultiLockInv
<1> QED
  BY <1>1, Invariance, PTL

\* A multi_lock never waits for a mutex while it holds another.
THEOREM EmptyHanded == Spec => []WaitsEmptyHanded
<1>1. MultiLockInv => WaitsEmptyHanded
  <2> SUFFICES ASSUME MultiLockInv, NEW l \in Lockers,
                      obj[l].at \in {"idle", "prepared", "first", "waiting"}
               PROVE  Held(l) = {}
    BY DEF WaitsEmptyHanded
  <2>1. Consistent(obj[l])
    BY ObjectFacts
  <2>2. obj[l].o = Null /\ obj[l].trial = Null /\ \A k \in Index : obj[l].owns[k] = Null
    BY <2>1 DEF Consistent
  <2> QED
    BY <2>2 DEF Held
<1> QED
  BY <1>1, Invariance, PTL

\* Every mutex that a locker holds is held by exactly one of its ownership
\* objects, and the other way round: nothing leaks and nothing is released
\* twice.
THEOREM NoLeakedOwnership == Spec => []OwnershipsMatch
<1>1. MultiLockInv => OwnershipsMatch
  <2> SUFFICES ASSUME MultiLockInv, NEW l \in Lockers
               PROVE  /\ Held(l) = {m \in Mutexes : holder[m] = l}
                      /\ Cardinality(Owned(l)) + Cardinality({obj[l].o} \ {Null})
                         + Cardinality({obj[l].trial} \ {Null}) = Cardinality(Held(l))
    BY DEF OwnershipsMatch
  <2> DEFINE x == obj[l]
             p == x.owns[x.first]
  <2>1. Held(l) = {m \in Mutexes : holder[m] = l}
    BY HeldIsHas, ObjectFacts DEF Has
  <2>2. Consistent(x) /\ x.first \in Index
    BY ObjectFacts
  <2>3. Owned(l) = IF p = Null THEN {} ELSE {x.first}
    BY <2>2 DEF Owned, Consistent
  <2>4. Held(l) = {p, x.o, x.trial} \ {Null}
    <3>1. {x.owns[k] : k \in Index} \ {Null} = {p} \ {Null}
      BY <2>2 DEF Consistent
    <3> QED
      BY <3>1 DEF Held
  <2>5. /\ p = Null \/ x.o = Null
        /\ x.trial # Null => x.trial # x.o /\ x.trial # p
    BY <2>2 DEF Consistent
  <2> HIDE DEF p, x
  <2>6. Cardinality(Owned(l)) = IF p = Null THEN 0 ELSE 1
    BY <2>3, Counts
  <2>7. /\ Cardinality({x.o} \ {Null}) = IF x.o = Null THEN 0 ELSE 1
        /\ Cardinality({x.trial} \ {Null}) = IF x.trial = Null THEN 0 ELSE 1
    <3>1. \A a : {a} \ {Null} = IF a = Null THEN {} ELSE {a}
      OBVIOUS
    <3> QED
      BY <3>1, Counts
  <2>8. ASSUME p = Null, x.o = Null
        PROVE  Cardinality(Owned(l)) + Cardinality({x.o} \ {Null})
               + Cardinality({x.trial} \ {Null}) = Cardinality(Held(l))
    <3>1. Held(l) = {x.trial} \ {Null}
      BY <2>4, <2>8
    <3> QED
      BY <2>6, <2>7, <2>8, <3>1
  <2>9. ASSUME p # Null \/ x.o # Null
        PROVE  Cardinality(Owned(l)) + Cardinality({x.o} \ {Null})
               + Cardinality({x.trial} \ {Null}) = Cardinality(Held(l))
    <3> DEFINE q == IF p # Null THEN p ELSE x.o
    <3>1. Held(l) = IF x.trial = Null THEN {q} ELSE {q, x.trial}
      BY <2>4, <2>5, <2>9
    <3>2. x.trial # Null => q # x.trial
      BY <2>5
    <3> HIDE DEF q
    <3>3. Cardinality(Held(l)) = IF x.trial = Null THEN 1 ELSE 2
      <4>1. CASE x.trial = Null
        BY <3>1, <4>1, Counts
      <4>2. CASE x.trial # Null
        <5>1. Held(l) = {q, x.trial} /\ q # x.trial
          BY <3>1, <3>2, <4>2
        <5>2. Cardinality({q, x.trial}) = 2
          BY <5>1, Counts, Zenon
        <5> QED
          BY <4>2, <5>1, <5>2
      <4> QED
        BY <4>1, <4>2
    <3> QED
      BY <2>5, <2>6, <2>7, <2>9, <3>3
  <2>10. Cardinality(Owned(l)) + Cardinality({x.o} \ {Null})
         + Cardinality({x.trial} \ {Null}) = Cardinality(Held(l))
    BY <2>8, <2>9
  <2> QED
    BY <2>1, <2>10 DEF x
<1> QED
  BY <1>1, Invariance, PTL

\* Nobody waits in vain: a locker that waits is in the queue of one mutex,
\* once, and that mutex is held by somebody else, whose release passes it on.
THEOREM WaitersAreQueued == Spec => [](Queued /\ WaitersServed)
<1>1. MultiLockInv => Queued /\ WaitersServed
  BY DEF MultiLockInv
<1> QED
  BY <1>1, Invariance, PTL

\* A step as the mutexes see it is a step of the abstract lock, for each.
LEMMA FifoStep ==
  ASSUME MultiLockInv, LockMoves, NEW n \in Mutexes
  PROVE  [Mutex(n)!Next]_<<holder[n], queue[n]>>
<1>1. /\ holder \in [Mutexes -> Users \cup {Null}]
      /\ queue \in [Mutexes -> Seq(Lockers)]
  BY DEF MultiLockInv, Types
<1>2. CASE Untouched
  BY <1>2 DEF Untouched
<1>3. CASE Taken
  <2>1. PICK u \in Users, m \in Mutexes :
          /\ holder[m] = Null
          /\ holder' = [holder EXCEPT ![m] = u] /\ queue' = queue
    BY <1>3 DEF Taken
  <2>2. CASE n = m
    <3>1. holder[n] = Null /\ holder'[n] = u /\ queue'[n] = queue[n]
      BY <1>1, <2>1, <2>2
    <3> QED
      BY <3>1 DEF Mutex!Next, Mutex!Acquire
  <2>3. CASE n # m
    BY <1>1, <2>1, <2>3
  <2> QED
    BY <2>2, <2>3
<1>4. CASE Released
  <2>1. PICK u \in Users, m \in Mutexes :
          /\ holder[m] = u
          /\ LET w == IF queue[m] = <<>> THEN Null ELSE Head(queue[m]) IN
             /\ holder' = [holder EXCEPT ![m] = w]
             /\ queue' = [queue EXCEPT ![m] = IF w = Null THEN queue[m] ELSE Tail(queue[m])]
    BY <1>4 DEF Released
  <2>2. CASE n = m /\ queue[n] = <<>>
    <3>1. holder[n] # Null /\ holder'[n] = Null /\ queue'[n] = queue[n]
      BY <1>1, <2>1, <2>2, Names
    <3> QED
      BY <2>2, <3>1 DEF Mutex!Next, Mutex!Release
  <2>3. CASE n = m /\ queue[n] # <<>>
    <3>1. Head(queue[n]) \in Lockers
      BY <1>1, <2>3
    <3>2. /\ holder[n] # Null /\ holder'[n] = Head(queue[n]) /\ queue'[n] = Tail(queue[n])
      BY <1>1, <2>1, <2>3, <3>1, Names
    <3> QED
      BY <2>3, <3>2 DEF Mutex!Next, Mutex!HandOff
  <2>4. CASE n # m
    BY <1>1, <2>1, <2>4
  <2> QED
    BY <2>2, <2>3, <2>4
<1>5. CASE Enqueued
  <2>1. PICK l \in Lockers, m \in Mutexes :
          /\ holder[m] # Null /\ holder[m] # l
          /\ \A k \in DOMAIN queue[m] : queue[m][k] # l
          /\ queue' = [queue EXCEPT ![m] = Append(queue[m], l)] /\ holder' = holder
    BY <1>5 DEF Enqueued
  <2>2. CASE n = m
    <3>1. /\ holder[n] \notin {Null, l} /\ holder'[n] = holder[n] /\ l \in Users
          /\ queue'[n] = Append(queue[n], l)
      BY <1>1, <2>1, <2>2, Names
    <3>2. ~Mutex(n)!IsWaiting(l)
      BY <2>1, <2>2 DEF Mutex!IsWaiting
    <3> QED
      BY <3>1, <3>2 DEF Mutex!Next, Mutex!Enqueue
  <2>3. CASE n # m
    BY <1>1, <2>1, <2>3
  <2> QED
    BY <2>2, <2>3
<1> QED
  BY <1>2, <1>3, <1>4, <1>5 DEF LockMoves

\* A multi_lock uses every mutex as the first-come first-served lock that
\* coro_mutex implements.
THEOREM Refinement == Spec => UsesFifoLocks
<1>1. Init => \A m \in Mutexes : Mutex(m)!Init
  BY DEF Init, Mutex!Init
<1>2. MultiLockInv /\ [Next]_vars
      => [\A m \in Mutexes : [Mutex(m)!Next]_<<holder[m], queue[m]>>]_vars
  BY NextInv, FifoStep
<1> QED
  BY <1>1, <1>2, Invariance, PTL DEF Spec, UsesFifoLocks

=============================================================================
