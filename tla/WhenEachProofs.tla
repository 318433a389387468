--------------------------- MODULE WhenEachProofs ---------------------------
(***************************************************************************)
(* Proofs about WhenEach for any number of awaitables of both kinds, and a *)
(* consumer that may use co_await, wait() and the join of the destructor.  *)
(***************************************************************************)
EXTENDS WhenEach, FiniteSetTheorems, SequenceTheorems, TLAPS

\* The awaitables that have reserved a place, and those that have written
\* their index into it.
Placed == {a \in Indices : completer[a] \in {"exchange", "move_r", "done"}}
Written == {a \in Indices : completer[a] \in {"move_r", "done"}}

\* The constructor has not reached the awaitables that have no completion.
Fresh == \A a \in Indices : a >= added => completer[a] = "new"

\* The reserved places are distinct, and there are free_slot of them.
Places == /\ free_slot = Cardinality(Placed)
          /\ \A a \in Placed : wridx[a] < free_slot
          /\ \A a, b \in Placed : wridx[a] = wridx[b] => a = b

\* What the places hold: the index of the awaitable that has reserved it, or
\* the mark of a consumer that is suspended.
Slots == /\ ResultsRecorded
         /\ \A k \in Indices : finished[k] >= 2 =>
              /\ finished[k] - 2 \in Written
              /\ wridx[finished[k] - 2] = k
         /\ \A k \in Indices : finished[k] = 1 => k = nx /\ consumer = "suspended"

\* Who is about to take the handle has found the mark of the consumer.
Takers == \A a \in Indices :
            completer[a] = "move_r" => consumer = "suspended" /\ wridx[a] = nx

\* Where the consumer is, and what it has found there.
Consumer ==
  /\ consumer \in {"store", "cas", "suspended", "resume", "waits_unsignalled"} => nx < N
  /\ consumer \in {"cas", "suspended"} => r
  /\ consumer = "suspended" =>
       finished[nx] = 1 \/ \E a \in Indices : completer[a] = "move_r"
  /\ consumer \in {"destroy_r", "destroyed"} => nx = N

\* The i-th result is what the i-th place holds, unless the place was read
\* before there was a result in it.
Results ==
  /\ Len(delivered) = nx
  /\ \A i \in 1 .. nx :
       \/ finished[i - 1] >= 2 /\ delivered[i] = finished[i - 1] - 2
       \/ delivered[i] = Wrapped

\* As long as nothing was refused no handle is left in _r, so that the consumer
\* runs on only when its place holds a result.
NothingLeft ==
  ~refused =>
    /\ consumer \notin {"cas", "suspended"} => ~r
    /\ consumer \notin {"waits_unsignalled", "undefined"}
    /\ consumer = "resume" => finished[nx] >= 2
    /\ \A k \in Indices : k < nx => finished[k] >= 2

WhenEachInv == /\ TypeOK /\ Fresh /\ Places /\ Slots /\ Takers /\ Consumer
               /\ Results /\ NothingLeft

\* Results come in the order in which the awaitables have completed.
DeliversInOrder == \A i \in DOMAIN delivered :
                     delivered[i] # Wrapped => wridx[delivered[i]] = i - 1

-----------------------------------------------------------------------------
(* Counting places                                                         *)

\* There are N awaitables.
LEMMA CountIndices == IsFiniteSet(Indices) /\ Cardinality(Indices) = N
  BY WhenEachConstants, FS_Interval DEF Indices

\* So there are at most N reserved places, and as long as an awaitable has
\* none there are fewer.
LEMMA RoomLeft ==
  ASSUME NEW S, S \subseteq Indices
  PROVE  /\ IsFiniteSet(S) /\ Cardinality(S) \in 0 .. N
         /\ \A a \in Indices \ S : /\ Cardinality(S) < N
                                   /\ Cardinality(S \cup {a}) = Cardinality(S) + 1
         /\ Cardinality(S) = N => S = Indices
<1>1. IsFiniteSet(S) /\ Cardinality(S) <= N /\ (Cardinality(S) = N => S = Indices)
  BY CountIndices, FS_Subset
<1>2. Cardinality(S) \in Nat
  BY <1>1, FS_CardinalityType
<1>3. ASSUME NEW a \in Indices \ S
      PROVE  Cardinality(S) < N /\ Cardinality(S \cup {a}) = Cardinality(S) + 1
  <2>1. Cardinality(S \cup {a}) = Cardinality(S) + 1
    BY <1>1, <1>3, FS_AddElement
  <2>2. Cardinality(S \cup {a}) <= N
    <3>1. S \cup {a} \subseteq Indices
      OBVIOUS
    <3> QED
      BY <3>1, CountIndices, FS_Subset
  <2> QED
    BY <1>2, <2>1, <2>2, WhenEachConstants
<1> QED
  BY <1>1, <1>2, <1>3, WhenEachConstants

-----------------------------------------------------------------------------
(* The invariant is inductive                                              *)

\* Nothing is complete at first.
LEMMA InitInv == Init => WhenEachInv
<1> SUFFICES ASSUME Init PROVE WhenEachInv
  OBVIOUS
<1>1. /\ finished = [i \in Indices |-> 0] /\ free_slot = 0 /\ nx = 0 /\ r = FALSE /\ added = 0
      /\ how = "co_await" /\ consumer = "ctor" /\ completer = [a \in Indices |-> "new"]
      /\ wridx = [a \in Indices |-> 0] /\ delivered = <<>> /\ refused = FALSE
  BY DEF Init
<1>2. Placed = {} /\ Written = {}
  BY <1>1 DEF Placed, Written
<1>3. TypeOK
  <2>1. 0 \in 0 .. N + 1 /\ 0 \in 0 .. N /\ 0 \in Indices
    BY WhenEachConstants DEF Indices
  <2>2. /\ finished \in [Indices -> 0 .. (N + 1)] /\ wridx \in [Indices -> Indices]
        /\ completer \in [Indices -> {"new", "pending", "forgotten", "resumed", "exchange",
                                     "move_r", "done"}]
    BY <1>1, <2>1
  <2> QED
    BY <1>1, <2>1, <2>2 DEF TypeOK
<1>4. Places
  BY <1>1, <1>2, FS_EmptySet DEF Places
<1>5. Fresh /\ Slots /\ Takers
  BY <1>1 DEF Fresh, Slots, ResultsRecorded, Takers
<1>6. Consumer /\ Results /\ NothingLeft
  BY <1>1 DEF Consumer, Results, NothingLeft, Indices
<1> QED
  BY <1>3, <1>4, <1>5, <1>6 DEF WhenEachInv

\* A step that leaves the places alone keeps what they say of each other.
LEMMA SamePlaces ==
  ASSUME WhenEachInv, Placed' = Placed, UNCHANGED <<free_slot, wridx>>
  PROVE  Places'
  BY DEF WhenEachInv, Places

\* A slot that is neither free nor marked holds a result.
LEMMA SlotValue ==
  ASSUME WhenEachInv, NEW k \in Indices
  PROVE  /\ finished[k] \in 0 .. N + 1
         /\ finished[k] # 0 /\ consumer # "suspended" => finished[k] >= 2
         /\ finished[k] >= 2 => finished[k] - 2 \in Indices /\ finished[k] - 2 # Wrapped
<1>1. finished[k] \in 0 .. N + 1
  BY DEF WhenEachInv, TypeOK
<1>2. finished[k] # 0 /\ consumer # "suspended" => finished[k] >= 2
  <2>1. finished[k] = 1 => consumer = "suspended"
    BY DEF WhenEachInv, Slots
  <2> QED
    BY <1>1, <2>1, WhenEachConstants
<1>3. finished[k] >= 2 => finished[k] - 2 \in Indices
  BY DEF WhenEachInv, Slots, Written
<1>4. Wrapped \notin Indices
  BY WhenEachConstants DEF Wrapped, Indices
<1> QED
  BY <1>1, <1>2, <1>3, <1>4

\* The constructor registers an awaitable.
LEMMA StepAdd ==
  ASSUME WhenEachInv, add
  PROVE  WhenEachInv'
<1> USE DEF WhenEachInv
<1>1. PICK l \in {"pending", "resumed", "forgotten"} : completer' = [completer EXCEPT ![added] = l]
  BY DEF add
<1>2. /\ added \in Indices /\ added' = added + 1 /\ completer[added] = "new"
      /\ consumer = "ctor" /\ consumer' \in {"run", "ctor"}
      /\ UNCHANGED <<finished, free_slot, nx, r, how, wridx, delivered, refused>>
  BY WhenEachConstants DEF add, TypeOK, Fresh, Indices
<1>3. /\ completer'[added] = l
      /\ \A a \in Indices : a # added => completer'[a] = completer[a]
  BY <1>1, <1>2 DEF TypeOK
<1>4. Placed' = Placed /\ Written' = Written
  BY <1>2, <1>3 DEF Placed, Written
<1>5. TypeOK'
  <2>1. added + 1 \in 0 .. N
    BY <1>2, WhenEachConstants DEF Indices
  <2> QED
    BY <1>1, <1>2, <2>1 DEF TypeOK
<1>6. Fresh'
  BY <1>2, <1>3 DEF Fresh, Indices, TypeOK
<1>7. Places'
  BY <1>2, <1>4, SamePlaces
<1>8. Slots'
  BY <1>2, <1>3, <1>4 DEF Slots, ResultsRecorded
<1>9. Takers' /\ Consumer' /\ Results' /\ NothingLeft'
  BY <1>2, <1>3 DEF Takers, Consumer, Results, NothingLeft
<1> QED
  BY <1>5, <1>6, <1>7, <1>8, <1>9

\* The steps of the consumer that look at its place, and the destructor.
LEMMA StepLook ==
  ASSUME WhenEachInv,
         await_ready \/ await_suspend_store \/ destroy \/ destroy_r
         \/ (await_suspend_cas /\ finished[nx] # 0)
  PROVE  WhenEachInv'
<1> USE DEF WhenEachInv
<1>1. /\ consumer \in {"run", "store", "cas", "destroy_r"}
      /\ r' \in BOOLEAN /\ how' \in {"co_await", "wait", "join"}
      /\ consumer' \in {"resume", "store", "cas", "waits_unsignalled", "destroy_r",
                        "destroyed", "undefined"}
      /\ refused' \in BOOLEAN
      /\ UNCHANGED <<finished, free_slot, nx, added, completer, wridx, delivered>>
      /\ consumer' \in {"destroy_r", "destroyed"} => nx >= N
      /\ consumer' \notin {"destroy_r", "destroyed", "undefined"} => nx < N
      /\ consumer' = "cas" => r' = TRUE
  <2>1. CASE await_ready
    BY <2>1 DEF await_ready, TypeOK
  <2>2. CASE await_suspend_store
    BY <2>2 DEF await_suspend_store, TypeOK, Consumer
  <2>3. CASE destroy
    BY <2>3 DEF destroy, TypeOK
  <2>4. CASE destroy_r
    <3>1. nx = N /\ N >= N
      BY <2>4, WhenEachConstants DEF destroy_r, Consumer
    <3> QED
      BY <2>4, <3>1 DEF destroy_r, TypeOK
  <2>5. CASE await_suspend_cas /\ finished[nx] # 0
    BY <2>5 DEF await_suspend_cas, AfterRefusal, TypeOK, Consumer
  <2> QED
    BY <2>1, <2>2, <2>3, <2>4, <2>5
<1>2. TypeOK'
  BY <1>1 DEF TypeOK
<1>3. Placed' = Placed /\ Written' = Written
  BY <1>1 DEF Placed, Written
<1>4. Fresh' /\ Places'
  BY <1>1, <1>3, SamePlaces DEF Fresh
<1>5. Slots' /\ Takers'
  BY <1>1, <1>3 DEF Slots, Takers, ResultsRecorded
<1>6. Consumer'
  <2>1. consumer' \in {"destroy_r", "destroyed"} => nx = N
    BY <1>1, WhenEachConstants DEF TypeOK
  <2> QED
    BY <1>1, <2>1 DEF Consumer
<1>7. Results'
  BY <1>1 DEF Results
<1>8. NothingLeft'
  <2>1. consumer = "run" /\ nx < N /\ finished[nx] # 0 => finished[nx] >= 2
    <3> HIDE DEF WhenEachInv
    <3>1. nx < N => nx \in Indices
      BY WhenEachConstants DEF WhenEachInv, TypeOK, Indices
    <3> QED
      BY <3>1, SlotValue
  <2>2. CASE await_ready
    BY <1>1, <2>1, <2>2 DEF await_ready, NothingLeft
  <2>3. CASE await_suspend_store
    BY <1>1, <2>3 DEF await_suspend_store, NothingLeft
  <2>4. CASE destroy
    BY <1>1, <2>4 DEF destroy, NothingLeft
  <2>5. CASE destroy_r
    BY <1>1, <2>5 DEF destroy_r, NothingLeft
  <2>6. CASE await_suspend_cas /\ finished[nx] # 0
    BY <2>6 DEF await_suspend_cas, NothingLeft
  <2> QED
    BY <2>2, <2>3, <2>4, <2>5, <2>6
<1> QED
  BY <1>2, <1>4, <1>5, <1>6, <1>7, <1>8

\* The compare-exchange that suspends the consumer.
LEMMA StepSuspend ==
  ASSUME WhenEachInv, await_suspend_cas, finished[nx] = 0
  PROVE  WhenEachInv'
<1> USE DEF WhenEachInv
<1>1. /\ consumer = "cas" /\ consumer' = "suspended" /\ r /\ nx \in Indices /\ nx < N
      /\ finished' = [finished EXCEPT ![nx] = 1]
      /\ UNCHANGED <<free_slot, nx, r, added, how, completer, wridx, delivered, refused>>
  BY WhenEachConstants DEF await_suspend_cas, Consumer, TypeOK, Indices
<1>2. /\ finished'[nx] = 1
      /\ \A k \in Indices : k # nx => finished'[k] = finished[k]
  BY <1>1 DEF TypeOK
<1>3. TypeOK'
  BY <1>1, WhenEachConstants DEF TypeOK
<1>4. Placed' = Placed /\ Written' = Written
  BY <1>1 DEF Placed, Written
<1>5. Fresh' /\ Places'
  BY <1>1, <1>4, SamePlaces DEF Fresh
<1>6. Slots'
  <2>1. \A a \in Indices : wridx[a] \in Indices
    BY DEF TypeOK
  <2>2. ResultsRecorded'
    BY <1>1, <1>2, <2>1 DEF Slots, ResultsRecorded, Indices
  <2>3. \A k \in Indices : finished'[k] >= 2 => finished[k] >= 2 /\ finished'[k] = finished[k]
    BY <1>2
  <2>4. \A k \in Indices : finished'[k] = 1 => k = nx
    BY <1>1, <1>2 DEF Slots
  <2> QED
    BY <1>1, <1>4, <2>2, <2>3, <2>4 DEF Slots
<1>7. Takers' /\ Consumer'
  BY <1>1, <1>2 DEF Takers, Consumer
<1>8. Results'
  <2>1. \A i \in 1 .. nx : i - 1 \in Indices /\ i - 1 # nx
    BY <1>1, WhenEachConstants DEF Indices
  <2> QED
    BY <1>1, <1>2, <2>1 DEF Results
<1>9. NothingLeft'
  BY <1>1, <1>2 DEF NothingLeft
<1> QED
  BY <1>3, <1>5, <1>6, <1>7, <1>8, <1>9

\* The consumer takes the result of its place.
LEMMA StepResume ==
  ASSUME WhenEachInv, await_resume
  PROVE  WhenEachInv'
<1> USE DEF WhenEachInv
<1> DEFINE v == ResultOf(finished[nx])
<1>1. /\ consumer = "resume" /\ nx < N /\ nx' = nx + 1 /\ consumer' = "run"
      /\ delivered' = Append(delivered, v)
      /\ UNCHANGED <<finished, free_slot, r, added, how, completer, wridx, refused>>
  BY DEF await_resume, Consumer
<1>2. nx \in Indices /\ nx \in Nat /\ Len(delivered) = nx
  BY <1>1, WhenEachConstants DEF TypeOK, Indices, Results
<1>3. IF finished[nx] >= 2 THEN v = finished[nx] - 2 /\ v \in Indices ELSE v = Wrapped
  BY <1>2, SlotValue DEF ResultOf
<1> HIDE DEF v
<1>4. v \in 0 .. N
  BY <1>3, WhenEachConstants DEF Indices, Wrapped
<1>5. TypeOK'
  BY <1>1, <1>4, WhenEachConstants DEF TypeOK
<1>6. Placed' = Placed /\ Written' = Written
  BY <1>1 DEF Placed, Written
<1>7. Fresh' /\ Places'
  BY <1>1, <1>6, SamePlaces DEF Fresh
<1>8. Slots' /\ Takers'
  BY <1>1, <1>6 DEF Slots, Takers, ResultsRecorded
<1>9. Consumer'
  BY <1>1 DEF Consumer
<1>10. Results'
  <2>1. /\ Len(delivered') = nx + 1 /\ delivered'[nx + 1] = v
        /\ \A i \in 1 .. nx : delivered'[i] = delivered[i]
    BY <1>1, <1>2, <1>4 DEF TypeOK
  <2>2. ASSUME NEW i \in 1 .. nx'
        PROVE  \/ finished'[i - 1] >= 2 /\ delivered'[i] = finished'[i - 1] - 2
               \/ delivered'[i] = Wrapped
    <3>1. CASE i \in 1 .. nx
      BY <1>1, <2>1, <3>1 DEF Results
    <3>2. CASE i = nx + 1
      <4>1. i - 1 = nx
        BY <1>2, <3>2
      <4> QED
        BY <1>1, <1>3, <2>1, <3>2, <4>1
    <3> QED
      BY <1>1, <1>2, <3>1, <3>2
  <2> QED
    BY <1>1, <2>1, <2>2 DEF Results
<1>11. NothingLeft'
  <2>1. \A k \in Indices : k < nx + 1 => k < nx \/ k = nx
    BY <1>2 DEF Indices
  <2> QED
    BY <1>1, <2>1 DEF NothingLeft
<1> QED
  BY <1>5, <1>7, <1>8, <1>9, <1>10, <1>11

\* An awaitable completes.
LEMMA StepComplete ==
  ASSUME WhenEachInv, NEW a \in Indices, complete(a)
  PROVE  WhenEachInv'
<1> USE DEF WhenEachInv
<1>1. /\ completer[a] = "pending" /\ completer' = [completer EXCEPT ![a] = "resumed"]
      /\ UNCHANGED <<finished, free_slot, nx, r, added, how, consumer, wridx, delivered, refused>>
  BY DEF complete
<1>2. /\ completer'[a] = "resumed"
      /\ \A b \in Indices : b # a => completer'[b] = completer[b]
  BY <1>1 DEF TypeOK
<1>3. Placed' = Placed /\ Written' = Written
  BY <1>1, <1>2 DEF Placed, Written
<1>4. TypeOK' /\ Fresh'
  BY <1>1, <1>2 DEF TypeOK, Fresh
<1>5. Places'
  BY <1>1, <1>3, SamePlaces
<1>6. Slots' /\ Takers'
  BY <1>1, <1>2, <1>3 DEF Slots, Takers, ResultsRecorded
<1>7. Consumer' /\ Results' /\ NothingLeft'
  BY <1>1, <1>2 DEF Consumer, Results, NothingLeft
<1> QED
  BY <1>4, <1>5, <1>6, <1>7

\* It reserves the next place, of which there is one left.
LEMMA StepResumed ==
  ASSUME WhenEachInv, NEW a \in Indices, resumed(a)
  PROVE  WhenEachInv'
<1> USE DEF WhenEachInv
<1>1. /\ completer[a] = "resumed" /\ completer' = [completer EXCEPT ![a] = "exchange"]
      /\ wridx' = [wridx EXCEPT ![a] = free_slot] /\ free_slot' = free_slot + 1
      /\ UNCHANGED <<finished, nx, r, added, how, consumer, delivered, refused>>
  BY DEF resumed
<1>2. /\ completer'[a] = "exchange" /\ wridx'[a] = free_slot
      /\ \A b \in Indices : b # a => completer'[b] = completer[b] /\ wridx'[b] = wridx[b]
  BY <1>1 DEF TypeOK
<1>3. a \notin Placed /\ Placed' = Placed \cup {a} /\ Written' = Written /\ a \notin Written
  BY <1>1, <1>2 DEF Placed, Written
<1>4. /\ free_slot = Cardinality(Placed) /\ free_slot < N /\ free_slot \in Nat
      /\ Cardinality(Placed') = free_slot + 1
  <2>1. Placed \subseteq Indices /\ a \in Indices \ Placed /\ free_slot = Cardinality(Placed)
    BY <1>3 DEF Placed, Places
  <2> QED
    BY <1>3, <2>1, RoomLeft
<1>5. TypeOK'
  <2>1. free_slot \in Indices /\ free_slot + 1 \in 0 .. N
    BY <1>4, WhenEachConstants DEF Indices
  <2> QED
    BY <1>1, <2>1 DEF TypeOK
<1>6. Fresh'
  BY <1>1, <1>2 DEF Fresh
<1>7. Places'
  <2>1. \A b \in Placed : b \in Indices /\ b # a /\ wridx[b] < free_slot /\ wridx[b] \in Nat
    <3>1. \A b \in Placed : b \in Indices /\ b # a /\ wridx[b] < free_slot
      BY <1>3 DEF Places, Placed
    <3>2. \A b \in Indices : wridx[b] \in Indices
      BY DEF TypeOK
    <3>3. Indices \subseteq Nat
      BY DEF Indices
    <3> QED
      BY <3>1, <3>2, <3>3
  <2>2. \A b \in Placed' : wridx'[b] < free_slot'
    BY <1>1, <1>2, <1>3, <1>4, <2>1
  <2>3. \A b, c \in Placed' : wridx'[b] = wridx'[c] => b = c
    BY <1>2, <1>3, <1>4, <2>1 DEF Places
  <2> QED
    BY <1>1, <1>4, <2>2, <2>3 DEF Places
<1>8. Slots'
  <2>1. \A b \in Indices : b \in Written => b # a /\ wridx'[b] = wridx[b]
    BY <1>2, <1>3
  <2>2. ResultsRecorded'
    BY <1>1, <1>2 DEF Slots, ResultsRecorded
  <2> QED
    BY <1>1, <1>3, <2>1, <2>2 DEF Slots, Written
<1>9. Takers' /\ Consumer' /\ Results' /\ NothingLeft'
  BY <1>1, <1>2 DEF Takers, Consumer, Results, NothingLeft
<1> QED
  BY <1>5, <1>6, <1>7, <1>8, <1>9

\* It writes its index into the place, and finds out whether the consumer
\* is suspended there.
LEMMA StepExchange ==
  ASSUME WhenEachInv, NEW a \in Indices, resumed_exchange(a)
  PROVE  WhenEachInv'
<1> USE DEF WhenEachInv
<1> DEFINE w == wridx[a]
<1>1. /\ completer[a] = "exchange" /\ finished' = [finished EXCEPT ![w] = a + 2]
      /\ completer' = [completer EXCEPT ![a] = IF finished[w] = 1 THEN "move_r" ELSE "done"]
      /\ UNCHANGED <<free_slot, nx, r, added, how, consumer, wridx, delivered, refused>>
  BY DEF resumed_exchange
<1>2. w \in Indices /\ a \in Nat /\ a + 2 \in 0 .. N + 1
  BY WhenEachConstants DEF TypeOK, Indices
<1>3. /\ finished'[w] = a + 2
      /\ \A k \in Indices : k # w => finished'[k] = finished[k]
      /\ completer'[a] = IF finished[w] = 1 THEN "move_r" ELSE "done"
      /\ \A b \in Indices : b # a => completer'[b] = completer[b]
  BY <1>1, <1>2 DEF TypeOK
<1>4. /\ a \in Placed /\ Placed' = Placed /\ a \notin Written
      /\ Written' = Written \cup {a} /\ Written \subseteq Placed
  BY <1>1, <1>3 DEF Placed, Written
<1>5. \A b \in Written : wridx[b] # w
  BY <1>4 DEF Places
<1>6. ~(finished[w] >= 2)
  BY <1>2, <1>5 DEF Slots
<1>7. TypeOK'
  <2>1. finished' \in [Indices -> 0 .. (N + 1)]
    BY <1>1, <1>2 DEF TypeOK
  <2>2. completer' \in [Indices -> {"new", "pending", "forgotten", "resumed", "exchange",
                                     "move_r", "done"}]
    BY <1>1 DEF TypeOK
  <2> QED
    BY <1>1, <2>1, <2>2 DEF TypeOK
<1>8. Fresh' /\ Places'
  BY <1>1, <1>3, <1>4, SamePlaces DEF Fresh
<1> HIDE DEF w
<1>9. Slots'
  <2>1. ResultsRecorded'
    <3>1. \A b \in Written : b \in Indices /\ wridx[b] \in Indices /\ finished[wridx[b]] = b + 2
      BY DEF Written, Slots, ResultsRecorded, TypeOK
    <3>2. \A b \in Written' : finished'[wridx[b]] = b + 2
      BY <1>2, <1>3, <1>4, <1>5, <3>1 DEF w
    <3> QED
      BY <1>1, <3>2 DEF ResultsRecorded, Written
  <2>2. ASSUME NEW k \in Indices, finished'[k] >= 2
        PROVE  finished'[k] - 2 \in Written' /\ wridx'[finished'[k] - 2] = k
    <3>1. CASE k = w
      <4>1. finished'[k] - 2 = a
        BY <1>2, <1>3, <3>1
      <4> QED
        BY <1>1, <1>4, <3>1, <4>1 DEF w
    <3>2. CASE k # w
      BY <1>1, <1>3, <1>4, <2>2, <3>2 DEF Slots
    <3> QED
      BY <3>1, <3>2
  <2>3. ASSUME NEW k \in Indices, finished'[k] = 1
        PROVE  k = nx' /\ consumer' = "suspended"
    <3>1. k # w
      BY <1>2, <1>3, <2>3
    <3> QED
      BY <1>1, <1>3, <2>3, <3>1 DEF Slots
  <2> QED
    BY <2>1, <2>2, <2>3 DEF Slots
<1>10. Takers'
  <2>1. finished[w] = 1 => w = nx /\ consumer = "suspended"
    BY <1>2 DEF Slots
  <2> QED
    BY <1>1, <1>3, <2>1 DEF Takers, w
<1>11. Consumer'
  <2>1. consumer = "suspended" => finished'[nx] = 1 \/ \E b \in Indices : completer'[b] = "move_r"
    <3> SUFFICES ASSUME consumer = "suspended"
                 PROVE  finished'[nx] = 1 \/ \E b \in Indices : completer'[b] = "move_r"
      OBVIOUS
    <3>1. nx \in Indices
      BY WhenEachConstants DEF Consumer, TypeOK, Indices
    <3>2. CASE finished[nx] = 1 /\ nx = w
      BY <1>3, <3>2
    <3>3. CASE finished[nx] = 1 /\ nx # w
      BY <1>3, <3>1, <3>3
    <3>4. CASE \E b \in Indices : completer[b] = "move_r"
      <4>1. PICK b \in Indices : completer[b] = "move_r"
        BY <3>4
      <4>2. b # a /\ completer'[b] = "move_r"
        BY <1>1, <1>3, <4>1
      <4> QED
        BY <4>2
    <3> QED
      BY <3>2, <3>3, <3>4 DEF Consumer
  <2> QED
    BY <1>1, <2>1 DEF Consumer
<1>12. Results'
  <2>1. \A i \in 1 .. nx : i - 1 \in Indices
    BY WhenEachConstants DEF TypeOK, Indices
  <2>2. \A i \in 1 .. nx : finished[i - 1] >= 2 => finished'[i - 1] = finished[i - 1]
    BY <1>3, <1>6, <2>1
  <2> QED
    BY <1>1, <2>2 DEF Results
<1>13. NothingLeft'
  <2>1. \A k \in Indices : finished[k] >= 2 => finished'[k] = finished[k]
    BY <1>3, <1>6
  <2>2. consumer = "resume" => nx \in Indices
    BY WhenEachConstants DEF Consumer, TypeOK, Indices
  <2> QED
    BY <1>1, <2>1, <2>2 DEF NothingLeft
<1> QED
  BY <1>7, <1>8, <1>9, <1>10, <1>11, <1>12, <1>13

\* It takes the handle and resumes the consumer.
LEMMA StepMoveR ==
  ASSUME WhenEachInv, NEW a \in Indices, resumed_move_r(a)
  PROVE  WhenEachInv'
<1> USE DEF WhenEachInv
<1>1. /\ completer[a] = "move_r" /\ completer' = [completer EXCEPT ![a] = "done"]
      /\ consumer = "suspended" /\ r /\ consumer' = "resume" /\ r' = FALSE
      /\ wridx[a] = nx /\ nx < N
      /\ UNCHANGED <<finished, free_slot, nx, added, how, wridx, delivered, refused>>
  BY DEF resumed_move_r, Takers, Consumer
<1>2. /\ completer'[a] = "done"
      /\ \A b \in Indices : b # a => completer'[b] = completer[b]
  BY <1>1 DEF TypeOK
<1>3. Placed' = Placed /\ Written' = Written /\ a \in Written /\ Written \subseteq Placed
  BY <1>1, <1>2 DEF Placed, Written
<1>4. finished[nx] = a + 2 /\ finished[nx] >= 2
  BY <1>1, WhenEachConstants DEF Slots, ResultsRecorded, Indices
<1>5. TypeOK' /\ Fresh'
  BY <1>1, <1>2 DEF TypeOK, Fresh
<1>6. Places'
  BY <1>1, <1>3, SamePlaces
<1>7. \A k \in Indices : finished[k] # 1
  BY <1>4 DEF Slots
<1>8. Slots'
  BY <1>1, <1>3, <1>7 DEF Slots, ResultsRecorded, Written
<1>9. Takers'
  <2>1. \A b \in Indices : completer[b] = "move_r" => b = a
    BY <1>1, <1>3 DEF Takers, Places, Placed
  <2> QED
    BY <1>2, <2>1 DEF Takers
<1>10. Consumer' /\ Results' /\ NothingLeft'
  BY <1>1, <1>4 DEF Consumer, Results, NothingLeft
<1> QED
  BY <1>5, <1>6, <1>8, <1>9, <1>10

\* Every step keeps the invariant.
LEMMA NextInv == WhenEachInv /\ [Next]_vars => WhenEachInv'
<1> SUFFICES ASSUME WhenEachInv, [Next]_vars PROVE WhenEachInv'
  OBVIOUS
<1>1. CASE add
  BY <1>1, StepAdd
<1>2. CASE await_ready \/ await_suspend_store \/ destroy \/ destroy_r
  BY <1>2, StepLook
<1>3. CASE await_suspend_cas
  BY <1>3, StepLook, StepSuspend
<1>4. CASE await_resume
  BY <1>4, StepResume
<1>5. ASSUME NEW a \in Indices, Complete(a) PROVE WhenEachInv'
  BY <1>5, StepComplete, StepResumed, StepExchange, StepMoveR DEF Complete
<1>6. CASE UNCHANGED vars
  <2>1. Placed' = Placed /\ Written' = Written
    BY <1>6 DEF vars, Placed, Written
  <2>2. TypeOK' /\ Fresh' /\ Places'
    BY <1>6, <2>1, SamePlaces DEF vars, WhenEachInv, TypeOK, Fresh
  <2>3. Slots' /\ Takers'
    BY <1>6, <2>1 DEF vars, WhenEachInv, Slots, ResultsRecorded, Takers
  <2>4. Consumer' /\ Results' /\ NothingLeft'
    BY <1>6 DEF vars, WhenEachInv, Consumer, Results, NothingLeft
  <2> QED
    BY <2>2, <2>3, <2>4 DEF WhenEachInv
<1> QED
  BY <1>1, <1>2, <1>3, <1>4, <1>5, <1>6 DEF Next, Consume

-----------------------------------------------------------------------------
(* The theorems                                                            *)

\* The invariant holds in every reachable state.
LEMMA Invariance == Spec => []WhenEachInv
<1>1. Init => WhenEachInv
  BY InitInv
<1>2. WhenEachInv /\ [Next]_vars => WhenEachInv'
  BY NextInv
<1> QED
  BY <1>1, <1>2, PTL DEF Spec

\* The types; in particular no completion reserves a place beyond the last,
\* which would write outside of _finished.
THEOREM TypeCorrect == Spec => []TypeOK
<1>1. WhenEachInv => TypeOK
  BY DEF WhenEachInv
<1> QED
  BY <1>1, Invariance, PTL

\* No completion is lost to another one or to a mark of the consumer.
THEOREM NothingOverwritten == Spec => []ResultsRecorded
<1>1. WhenEachInv => ResultsRecorded
  BY DEF WhenEachInv, Slots
<1> QED
  BY <1>1, Invariance, PTL

\* What is known of a result that was delivered.
LEMMA DeliveredFacts ==
  ASSUME WhenEachInv, NEW i \in DOMAIN delivered, delivered[i] # Wrapped
  PROVE  /\ i \in Nat \ {0}
         /\ delivered[i] \in Written /\ wridx[delivered[i]] = i - 1
<1> USE DEF WhenEachInv
<1>1. DOMAIN delivered = 1 .. nx /\ nx \in 0 .. N
  BY DEF TypeOK, Results
<1>2. i \in 1 .. nx /\ i - 1 \in Indices
  BY <1>1, WhenEachConstants DEF Indices
<1>3. finished[i - 1] >= 2 /\ delivered[i] = finished[i - 1] - 2
  BY <1>2 DEF Results
<1> QED
  BY <1>1, <1>2, <1>3 DEF Slots

\* What is delivered has completed, and nothing is delivered twice.
THEOREM DeliveredOnce == Spec => []DeliversOnce
<1>1. WhenEachInv => DeliversOnce
  <2> SUFFICES ASSUME WhenEachInv PROVE DeliversOnce
    OBVIOUS
  <2>1. \A i \in DOMAIN delivered :
          delivered[i] # Wrapped => completer[delivered[i]] \in {"move_r", "done"}
    BY DeliveredFacts DEF Written
  <2>2. ASSUME NEW i \in DOMAIN delivered, NEW j \in DOMAIN delivered,
               delivered[i] = delivered[j], delivered[i] # Wrapped
        PROVE  i = j
    <3>1. /\ i \in Nat /\ wridx[delivered[i]] = i - 1
          /\ j \in Nat /\ wridx[delivered[j]] = j - 1
      BY <2>2, DeliveredFacts
    <3> QED
      BY <2>2, <3>1
  <2> QED
    BY <2>1, <2>2 DEF DeliversOnce
<1> QED
  BY <1>1, Invariance, PTL

\* Results come in the order of completion: the i-th is that of the awaitable
\* that was the i-th to reserve a place in resumed().
THEOREM DeliveredInOrder == Spec => []DeliversInOrder
<1>1. WhenEachInv => DeliversInOrder
  BY DeliveredFacts DEF DeliversInOrder
<1> QED
  BY <1>1, Invariance, PTL

\* No wake-up is lost between the consumer's test of its place, its
\* suspension and the exchange of the completion.
THEOREM NoLostWakeUp == Spec => []WakeUpOwed
<1>1. WhenEachInv => WakeUpOwed
  <2> SUFFICES ASSUME WhenEachInv, consumer = "suspended"
               PROVE  LET takers == {a \in Indices : completer[a] = "move_r"}
                      IN  /\ r
                          /\ finished[nx] = 1 <=> takers = {}
                          /\ \A a, b \in takers : a = b
    BY DEF WakeUpOwed
  <2> DEFINE takers == {a \in Indices : completer[a] = "move_r"}
  <2> USE DEF WhenEachInv
  <2>1. r /\ (finished[nx] = 1 \/ takers # {})
    BY DEF Consumer
  <2>2. \A a \in takers : a \in Placed /\ wridx[a] = nx /\ finished[nx] = a + 2
    BY DEF Takers, Placed, Slots, ResultsRecorded
  <2>3. \A a, b \in takers : a = b
    BY <2>2 DEF Places
  <2>4. \A a \in takers : finished[nx] # 1
    BY <2>2, WhenEachConstants DEF Indices
  <2> HIDE DEF takers
  <2>5. finished[nx] = 1 <=> takers = {}
    BY <2>1, <2>4
  <2> QED
    BY <2>1, <2>3, <2>5 DEF takers
<1> QED
  BY <1>1, Invariance, PTL

\* Unless a suspension was refused, nobody uses the object once it is
\* destroyed: the N-th result was delivered, so N places are reserved and
\* written, and no handle was left in _r.
THEOREM SafeDestruction == Spec => []NoUseAfterDestruction
<1>1. WhenEachInv => NoUseAfterDestruction
  <2> SUFFICES ASSUME WhenEachInv, ~refused, consumer \in {"destroy_r", "destroyed"},
                      NEW a \in Indices
               PROVE  ~r /\ completer[a] = "done"
    BY WhenEachConstants DEF NoUseAfterDestruction, UnusedOnceDestroyed, Indices
  <2> USE DEF WhenEachInv
  <2>1. nx = N /\ N \in Nat /\ N >= 1 /\ ~r
    BY WhenEachConstants DEF Consumer, NothingLeft
  <2>2. \A k \in Indices : finished[k] >= 2
    <3>1. \A k \in Indices : k < nx
      BY <2>1 DEF Indices
    <3> QED
      BY <3>1 DEF NothingLeft
  <2>3. Placed = Indices
    <3>1. N - 1 \in Indices
      BY <2>1 DEF Indices
    <3>2. PICK b \in Written : wridx[b] = N - 1
      BY <2>2, <3>1 DEF Slots
    <3>3. N - 1 < free_slot
      BY <3>2 DEF Places, Placed, Written
    <3>4. Placed \subseteq Indices /\ free_slot = Cardinality(Placed) /\ free_slot \in 0 .. N
      BY DEF Placed, Places, TypeOK
    <3>5. Cardinality(Placed) = N
      BY <2>1, <3>3, <3>4
    <3> QED
      BY <3>4, <3>5, RoomLeft
  <2>4. a \in Written
    <3>1. wridx[a] \in Indices
      BY DEF TypeOK
    <3>2. PICK b \in Written : wridx[b] = wridx[a]
      BY <2>2, <3>1 DEF Slots
    <3>3. b \in Placed /\ a \in Placed
      BY <2>3 DEF Written, Placed
    <3> QED
      BY <3>2, <3>3 DEF Places
  <2>5. completer[a] # "move_r"
    BY DEF Takers
  <2> QED
    BY <2>1, <2>4, <2>5 DEF Written
<1> QED
  BY <1>1, Invariance, PTL

=============================================================================
