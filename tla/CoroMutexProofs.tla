--------------------------- MODULE CoroMutexProofs --------------------------
(***************************************************************************)
(* Proofs about CoroMutex for any set of clients, in programs that never   *)
(* run another thread inside the window of lines 145 to 147.               *)
(*                                                                         *)
(* The inductive invariant is TypeOK /\ ListsHoldWaiters.  The proof names *)
(* its witnesses: the holder h, the number m of slots under a running      *)
(* make_queue and the number k of slots no longer on the stack of          *)
(* requests.  There is one lemma per operation, which says how the         *)
(* operation moves these three.                                            *)
(***************************************************************************)
EXTENDS CoroMutex, TLAPS

IInv == TypeOK /\ ListsHoldWaiters

\* The invariant with its witnesses.
InvWith(h, m, k) ==
  /\ h \in Clients \cup {Null}
  /\ m \in Nat
  /\ k \in Nat
  /\ TypeOK
  /\ ArrivalIsWaiters
  /\ AddersSuspended
  /\ Shape(h, m, k)

\* What the invariant says of each waiting slot on its own.
SlotFacts(h, m, k) ==
  /\ Len(arrival) \in Nat
  /\ m <= k /\ k <= Len(arrival)
  /\ \A i \in 1..Len(arrival) :
       /\ arrival[i] \in Clients
       /\ Waits(arrival[i])
       /\ arrival[i] # h
       /\ next[arrival[i]] \in Pointers
  /\ \A i \in (m + 1)..k : next[arrival[i]] \in Clients \cup {Null}

-----------------------------------------------------------------------------
(* Sequences                                                               *)

\* What Append does to the history of arrivals, element by element.
LEMMA AppendFacts ==
  ASSUME NEW S, NEW s \in Seq(S), NEW e \in S
  PROVE  /\ Append(s, e) \in Seq(S)
         /\ Len(Append(s, e)) = Len(s) + 1
         /\ \A i \in 1..Len(s) : Append(s, e)[i] = s[i]
         /\ Append(s, e)[Len(s) + 1] = e
  OBVIOUS

\* What Tail does to the history of arrivals, element by element.
LEMMA TailFacts ==
  ASSUME NEW S, NEW s \in Seq(S), s # <<>>
  PROVE  /\ Tail(s) \in Seq(S)
         /\ Len(Tail(s)) = Len(s) - 1
         /\ Len(s) \in Nat /\ Len(s) > 0
         /\ \A i \in 1..(Len(s) - 1) : Tail(s)[i] = s[i + 1]
  OBVIOUS

-----------------------------------------------------------------------------
(* Consequences of the invariant                                           *)

\* The invariant is InvWith for some witnesses.
LEMMA IInvHasWitnesses == IInv <=> \E h, m, k : InvWith(h, m, k)
<1>1. ASSUME IInv PROVE \E h, m, k : InvWith(h, m, k)
  <2>1. PICK h \in Clients \cup {Null}, m, k \in 0..Len(arrival) :
          Shape(h, m, k)
    BY <1>1 DEF IInv, ListsHoldWaiters
  <2>2. m \in Nat /\ k \in Nat
    BY <1>1 DEF IInv, TypeOK
  <2>3. InvWith(h, m, k)
    BY <1>1, <2>1, <2>2 DEF IInv, ListsHoldWaiters, InvWith
  <2> QED
    BY <2>3
<1>2. ASSUME NEW h, NEW m, NEW k, InvWith(h, m, k) PROVE IInv
  <2>1. Len(arrival) \in Nat
    BY <1>2 DEF InvWith, TypeOK
  <2>2. m \in 0..Len(arrival) /\ k \in 0..Len(arrival)
    BY <1>2, <2>1 DEF InvWith, Shape
  <2> QED
    BY <1>2, <2>2 DEF InvWith, IInv, ListsHoldWaiters
<1> QED
  BY <1>1, <1>2

\* Every slot in arrival is live, its link is a pointer, and a link of the
\* queue is a slot or nullptr.
LEMMA InvSlotFacts ==
  ASSUME NEW h, NEW m, NEW k, InvWith(h, m, k)
  PROVE  SlotFacts(h, m, k)
<1> USE PointersDistinct DEF InvWith
<1>1. /\ Len(arrival) \in Nat
      /\ m <= k /\ k <= Len(arrival)
      /\ \A i \in 1..Len(arrival) : arrival[i] \in Clients
  BY DEF TypeOK, Shape
<1>2. ASSUME NEW i \in 1..Len(arrival)
      PROVE  Waits(arrival[i]) /\ arrival[i] # h
  <2>1. Waits(arrival[i])
    BY <1>1 DEF ArrivalIsWaiters
  <2> QED
    BY <1>1, <2>1 DEF Waits, Shape, Holds, Owns, AddsFirst
<1>3. ASSUME NEW i \in (m + 1)..k
      PROVE  next[arrival[i]] \in Clients \cup {Null}
  BY <1>1 DEF Shape, QueueIs
<1>4. ASSUME NEW i \in 1..Len(arrival)
      PROVE  next[arrival[i]] \in Pointers
  <2>1. CASE i \in 1..m
    <3>1. WalkTo(h) \in Pointers
      BY <2>1 DEF Shape, WalkIs, Walks, WalkTo, Pointers
    <3> QED
      BY <1>1, <2>1, <3>1 DEF Shape, WalkIs, Pointers
  <2>2. CASE i \in (k + 1)..Len(arrival)
    <3>1. Bottom(h) \in Pointers
      BY DEF Bottom, Pointers
    <3> QED
      BY <1>1, <2>2, <3>1 DEF Shape, StackIs, Pointers
  <2> QED
    BY <1>1, <1>3, <2>1, <2>2 DEF Pointers
<1> QED
  BY <1>1, <1>2, <1>3, <1>4 DEF SlotFacts

-----------------------------------------------------------------------------
(* The initial state and one lemma per operation                           *)

\* Nobody holds the new mutex and its lists are empty.
LEMMA InitInv == Init => InvWith(Null, 0, 0)
<1> SUFFICES ASSUME Init PROVE InvWith(Null, 0, 0)
  OBVIOUS
<1> USE DEF Init
<1>1. TypeOK
  BY DEF TypeOK, Pointers, PCs, Adders
<1>2. Len(arrival) = 0
  OBVIOUS
<1>3. \A c \in Clients : ~Holds(c) /\ ~Waits(c) /\ adder[c] = "none"
  BY DEF Holds, Owns, AddsFirst, Waits
<1>4. ArrivalIsWaiters /\ AddersSuspended
  BY <1>2, <1>3 DEF ArrivalIsWaiters, AddersSuspended
<1>5. Shape(Null, 0, 0)
  BY <1>2, <1>3, PointersDistinct
     DEF Shape, StackIs, QueueIs, WalkIs, PhaseIs, Bottom, Walks
<1> QED
  BY <1>1, <1>4, <1>5 DEF InvWith

\* A free mutex has no waiters and no holder.
LEMMA FreeMutex ==
  ASSUME NEW h, NEW m, NEW k, InvWith(h, m, k), requests = Null
  PROVE  /\ h = Null /\ m = 0 /\ k = 0 /\ arrival = <<>> /\ queue = Null
         /\ \A c \in Clients : ~Holds(c) /\ ~Waits(c)
<1> USE PointersDistinct DEF InvWith
<1>1. SlotFacts(h, m, k)
  BY InvSlotFacts
<1>2. k = Len(arrival) /\ Bottom(h) = Null
  BY <1>1 DEF SlotFacts, Shape, StackIs, Bottom
<1>3. h = Null
  BY <1>2 DEF Bottom
<1>4. arrival = <<>>
  BY <1>3 DEF Shape, PhaseIs
<1>5. Len(arrival) = 0
  BY <1>4
<1>6. ASSUME NEW c \in Clients, Waits(c) PROVE FALSE
  <2>1. PICK i \in 1..Len(arrival) : arrival[i] = c
    BY <1>6 DEF ArrivalIsWaiters
  <2> QED
    BY <1>5, <2>1
<1>7. \A c \in Clients : ~Holds(c)
  BY <1>3 DEF Shape
<1> QED
  BY <1>1, <1>2, <1>3, <1>4, <1>5, <1>6, <1>7 DEF SlotFacts, Shape, QueueIs

\* lock() that finds the mutex free makes the caller its holder.
LEMMA TryLockInv ==
  ASSUME NEW h, NEW m, NEW k, InvWith(h, m, k),
         NEW c \in Clients, lock(c), try_lock(c)
  PROVE  InvWith(c, 0, 0)'
<1> USE PointersDistinct DEF InvWith, lock, try_lock
<1>1. /\ arrival = <<>> /\ queue = Null
      /\ \A d \in Clients : ~Holds(d) /\ ~Waits(d)
  BY FreeMutex
<1>2. adder[c] = "none"
  BY DEF AddersSuspended
<1>3. \A d \in Clients : (Holds(d)' <=> d = c) /\ ~Waits(d)'
  BY <1>1, <1>2 DEF Holds, Owns, AddsFirst, Waits, TypeOK
<1>4. TypeOK'
  BY DEF TypeOK, Pointers, PCs
<1>5. ArrivalIsWaiters'
  BY <1>1, <1>3 DEF ArrivalIsWaiters
<1>6. AddersSuspended'
  BY <1>2 DEF AddersSuspended, TypeOK
<1>7. Shape(c, 0, 0)'
  BY <1>1, <1>2, <1>3
     DEF Shape, StackIs, QueueIs, WalkIs, PhaseIs, Bottom, Walks, AddsFirst, TypeOK
<1> QED
  BY <1>4, <1>5, <1>6, <1>7

\* A step that leaves the lists and the holder alone preserves their shape.
LEMMA Frame ==
  ASSUME NEW h, NEW m, NEW k, InvWith(h, m, k),
         TypeOK', AddersSuspended', UNCHANGED <<requests, queue, arrival>>,
         \A d \in Clients : Holds(d)' <=> Holds(d),
         \A d \in Clients : Waits(d)' <=> Waits(d),
         \A d \in Clients : Waits(d) => next'[d] = next[d],
         h # Null => /\ AddsFirst(h)' <=> AddsFirst(h)
                     /\ Walks(h)' <=> Walks(h)
                     /\ UNCHANGED <<WalkTo(h), WalkFrom(h)>>,
         PhaseIs(h, k)'
  PROVE  InvWith(h, m, k)'
<1> USE PointersDistinct DEF InvWith
<1>1. SlotFacts(h, m, k)
  BY InvSlotFacts
<1>2. \A i \in 1..Len(arrival) : next'[arrival[i]] = next[arrival[i]]
  BY <1>1 DEF SlotFacts
<1>3. ArrivalIsWaiters'
  BY DEF ArrivalIsWaiters
<1>4. StackIs(k, Bottom(h))'
  <2>1. Bottom(h)' = Bottom(h)
    BY DEF Bottom
  <2> QED
    BY <1>1, <1>2, <2>1 DEF Shape, StackIs, SlotFacts
<1>5. QueueIs(m, k)'
  BY <1>1, <1>2 DEF Shape, QueueIs, SlotFacts
<1>6. WalkIs(h, m)'
  <2>1. CASE h = Null
    BY <2>1 DEF Shape, WalkIs, Walks
  <2>2. CASE h # Null
    BY <1>1, <1>2, <2>2 DEF Shape, WalkIs, SlotFacts
  <2> QED
    BY <2>1, <2>2
<1>7. Shape(h, m, k)'
  BY <1>4, <1>5, <1>6 DEF Shape
<1> QED
  BY <1>3, <1>7

\* lock() that finds the mutex locked only prepares an awaitable.
LEMMA LockPendingInv ==
  ASSUME NEW h, NEW m, NEW k, InvWith(h, m, k),
         NEW c \in Clients, lock(c), ~try_lock(c)
  PROVE  InvWith(h, m, k)'
<1> USE PointersDistinct DEF InvWith, lock
<1>1. adder[c] = "none" /\ h # c
  BY DEF AddersSuspended, Shape, Holds, Owns, AddsFirst
<1>2. TypeOK'
  BY DEF TypeOK, PCs
<1>3. AddersSuspended'
  BY <1>1 DEF AddersSuspended, TypeOK
<1>4. \A d \in Clients : (Holds(d)' <=> Holds(d)) /\ (Waits(d)' <=> Waits(d))
  BY <1>1 DEF Holds, Owns, AddsFirst, Waits, TypeOK
<1>5. /\ h # Null => /\ AddsFirst(h)' <=> AddsFirst(h)
                     /\ Walks(h)' <=> Walks(h)
                     /\ UNCHANGED <<WalkTo(h), WalkFrom(h)>>
      /\ PhaseIs(h, k)'
  BY <1>1 DEF AddsFirst, Walks, WalkTo, WalkFrom, Shape, PhaseIs, TypeOK
<1> QED
  BY <1>2, <1>3, <1>4, <1>5, Frame

\* An awaitable that is given up changes nothing for the others.
LEMMA DiscardInv ==
  ASSUME NEW h, NEW m, NEW k, InvWith(h, m, k), NEW c \in Clients, discard(c)
  PROVE  InvWith(h, m, k)'
<1> USE PointersDistinct DEF InvWith, discard
<1>1. adder[c] = "none" /\ h # c
  BY DEF AddersSuspended, Shape, Holds, Owns, AddsFirst
<1>2. TypeOK'
  BY DEF TypeOK, PCs
<1>3. AddersSuspended'
  BY <1>1 DEF AddersSuspended, TypeOK
<1>4. \A d \in Clients : (Holds(d)' <=> Holds(d)) /\ (Waits(d)' <=> Waits(d))
  BY <1>1 DEF Holds, Owns, AddsFirst, Waits, TypeOK
<1>5. /\ h # Null => /\ AddsFirst(h)' <=> AddsFirst(h)
                     /\ Walks(h)' <=> Walks(h)
                     /\ UNCHANGED <<WalkTo(h), WalkFrom(h)>>
      /\ PhaseIs(h, k)'
  BY <1>1 DEF AddsFirst, Walks, WalkTo, WalkFrom, Shape, PhaseIs, TypeOK
<1> QED
  BY <1>2, <1>3, <1>4, <1>5, Frame

\* A slot that is being set up is on no list yet.
LEMMA CoAwaitInv ==
  ASSUME NEW h, NEW m, NEW k, InvWith(h, m, k), NEW c \in Clients, co_await(c)
  PROVE  InvWith(h, m, k)'
<1> USE PointersDistinct DEF InvWith, co_await
<1>1. h # c /\ ~Waits(c)
  BY DEF Shape, Holds, Owns, AddsFirst, Waits
<1>2. TypeOK'
  BY DEF TypeOK, Pointers, PCs, Adders
<1>3. AddersSuspended'
  BY DEF AddersSuspended, TypeOK
<1>4. \A d \in Clients : (Holds(d)' <=> Holds(d)) /\ (Waits(d)' <=> Waits(d))
  BY DEF Holds, Owns, AddsFirst, Waits, TypeOK
<1>5. \A d \in Clients : Waits(d) => next'[d] = next[d]
  BY <1>1 DEF TypeOK
<1>6. /\ h # Null => /\ AddsFirst(h)' <=> AddsFirst(h)
                     /\ Walks(h)' <=> Walks(h)
                     /\ UNCHANGED <<WalkTo(h), WalkFrom(h)>>
      /\ PhaseIs(h, k)'
  BY <1>1 DEF AddsFirst, Walks, WalkTo, WalkFrom, Shape, PhaseIs, TypeOK
<1> QED
  BY <1>2, <1>3, <1>4, <1>5, <1>6, Frame

\* A failed compare-exchange writes the link of a slot that is on no list.
LEMMA CasFailsInv ==
  ASSUME NEW h, NEW m, NEW k, InvWith(h, m, k),
         NEW c \in Clients, add_request_cas(c), requests # next[c]
  PROVE  InvWith(h, m, k)'
<1> USE PointersDistinct DEF InvWith, add_request_cas
<1>1. h # c /\ ~Waits(c)
  BY DEF Shape, Holds, Owns, AddsFirst, Waits, AddersSuspended
<1>2. TypeOK'
  BY DEF TypeOK, Pointers
<1>3. AddersSuspended'
  BY DEF AddersSuspended, TypeOK, Pointers
<1>4. \A d \in Clients : (Holds(d)' <=> Holds(d)) /\ (Waits(d)' <=> Waits(d))
  BY DEF Holds, Owns, AddsFirst, Waits, TypeOK
<1>5. \A d \in Clients : Waits(d) => next'[d] = next[d]
  BY <1>1 DEF TypeOK
<1>6. /\ h # Null => /\ AddsFirst(h)' <=> AddsFirst(h)
                     /\ Walks(h)' <=> Walks(h)
                     /\ UNCHANGED <<WalkTo(h), WalkFrom(h)>>
      /\ PhaseIs(h, k)'
  BY <1>1 DEF AddsFirst, Walks, WalkTo, WalkFrom, Shape, PhaseIs, TypeOK
<1> QED
  BY <1>2, <1>3, <1>4, <1>5, <1>6, Frame

\* The test of a link nobody has touched tells whether the mutex was free.
LEMMA CheckInv ==
  ASSUME NEW h, NEW m, NEW k, InvWith(h, m, k),
         NEW c \in Clients, add_request_check(c)
  PROVE  InvWith(h, m, k)'
<1> USE PointersDistinct DEF InvWith, add_request_check
<1>1. next[c] # Dead
  <2>1. SUFFICES ASSUME next[c] = Dead PROVE FALSE
    OBVIOUS
  <2>2. Waits(c)
    BY <2>1 DEF Waits, AddersSuspended
  <2>3. SlotFacts(h, m, k)
    BY InvSlotFacts
  <2> QED
    BY <2>1, <2>2, <2>3 DEF SlotFacts, ArrivalIsWaiters, Pointers
<1>2. TypeOK'
  BY DEF TypeOK, Adders
<1>3. AddersSuspended'
  BY DEF AddersSuspended, TypeOK
<1>4. \A d \in Clients : (Holds(d)' <=> Holds(d)) /\ (Waits(d)' <=> Waits(d))
  BY <1>1 DEF Holds, Owns, AddsFirst, Waits, TypeOK, AddersSuspended
<1>5. /\ h # Null => /\ AddsFirst(h)' <=> AddsFirst(h)
                     /\ Walks(h)' <=> Walks(h)
                     /\ UNCHANGED <<WalkTo(h), WalkFrom(h)>>
      /\ PhaseIs(h, k)'
  BY <1>1 DEF AddsFirst, Walks, WalkTo, WalkFrom, Shape, PhaseIs, TypeOK
<1> QED
  BY <1>2, <1>3, <1>4, <1>5, Frame

\* A successful compare-exchange of nullptr makes the slot's client the
\* holder, and the slot itself the bottom of the stack.
LEMMA CasLocksInv ==
  ASSUME NEW h, NEW m, NEW k, InvWith(h, m, k), NEW c \in Clients,
         add_request_cas(c), requests = next[c], next[c] = Null,
         \A d \in Clients \ {c} : adder[d] # "check"
  PROVE  InvWith(c, 0, 0)'
<1> USE PointersDistinct DEF InvWith, add_request_cas
<1>1. /\ arrival = <<>> /\ queue = Null
      /\ \A d \in Clients : ~Holds(d) /\ ~Waits(d)
  BY FreeMutex
<1>2. Len(arrival) = 0
  BY <1>1
<1>3. \A d \in Clients : (Holds(d)' <=> d = c) /\ ~Waits(d)'
  BY <1>1 DEF Holds, Owns, AddsFirst, Waits, TypeOK
<1>4. TypeOK'
  BY DEF TypeOK, Pointers, Adders
<1>5. ArrivalIsWaiters'
  BY <1>2, <1>3 DEF ArrivalIsWaiters
<1>6. AddersSuspended'
  BY DEF AddersSuspended, TypeOK
<1>7. AddsFirst(c)' /\ ~Walks(c)'
  BY DEF AddsFirst, Walks, TypeOK, AddersSuspended
<1>8. Shape(c, 0, 0)'
  BY <1>1, <1>2, <1>3, <1>7 DEF Shape, StackIs, QueueIs, WalkIs, PhaseIs, Bottom,
     AddersSuspended
<1> QED
  BY <1>4, <1>5, <1>6, <1>8

\* A successful compare-exchange of anything else pushes the slot of a new
\* waiter onto the stack of requests.
LEMMA CasPushesInv ==
  ASSUME NEW h, NEW m, NEW k, InvWith(h, m, k), NEW c \in Clients,
         add_request_cas(c), requests = next[c], next[c] # Null,
         \A d \in Clients \ {c} : adder[d] # "check"
  PROVE  InvWith(h, m, k)'
<1> USE PointersDistinct DEF InvWith
<1> DEFINE n == Len(arrival)
<1>1. SlotFacts(h, m, k)
  BY InvSlotFacts
<1>2. /\ requests' = c
      /\ adder' = [adder EXCEPT ![c] = "check"]
      /\ arrival' = Append(arrival, c)
      /\ UNCHANGED <<next, queue, pc, aFrom, uFrom>>
      /\ adder[c] = "cas" /\ pc[c] = "suspended"
  BY DEF add_request_cas, AddersSuspended
<1>3. /\ arrival' \in Seq(Clients)
      /\ Len(arrival') = n + 1
      /\ \A i \in 1..n : arrival'[i] = arrival[i]
      /\ arrival'[n + 1] = c
  BY <1>2, AppendFacts DEF TypeOK
<1>4. h # c /\ ~Waits(c) /\ Waits(c)'
  BY <1>2 DEF Shape, Holds, Owns, AddsFirst, Waits, TypeOK
<1>5. \A d \in Clients : /\ Holds(d)' <=> Holds(d)
                         /\ d # c => (Waits(d)' <=> Waits(d))
  BY <1>2 DEF Holds, Owns, AddsFirst, Waits, TypeOK
<1>6. TypeOK'
  BY <1>2, <1>3 DEF TypeOK, Pointers, Adders
<1>7. AddersSuspended'
  BY <1>2 DEF AddersSuspended, TypeOK
<1>8. ArrivalIsWaiters'
  <2>1. \A i \in 1..n : arrival[i] # c
    BY <1>1, <1>4 DEF SlotFacts
  <2>2. \A i, j \in 1..(n + 1) : arrival'[i] = arrival'[j] => i = j
    BY <1>1, <1>3, <2>1 DEF ArrivalIsWaiters, SlotFacts
  <2>3. ASSUME NEW d \in Clients
        PROVE  Waits(d)' <=> \E i \in 1..(n + 1) : arrival'[i] = d
    <3>1. CASE d = c
      BY <1>1, <1>3, <1>4, <3>1 DEF SlotFacts
    <3>2. CASE d # c
      BY <1>1, <1>3, <1>5, <3>2 DEF SlotFacts, ArrivalIsWaiters
    <3> QED
      BY <3>1, <3>2
  <2> QED
    BY <1>3, <2>2, <2>3 DEF ArrivalIsWaiters
<1>9. h # Null => /\ AddsFirst(h)' <=> AddsFirst(h)
                  /\ Walks(h)' <=> Walks(h)
                  /\ UNCHANGED <<WalkTo(h), WalkFrom(h)>>
  BY <1>2, <1>4 DEF AddsFirst, Walks, WalkTo, WalkFrom, TypeOK
<1>10. StackIs(k, Bottom(h))'
  <2>1. Bottom(h)' = Bottom(h)
    BY <1>9 DEF Bottom
  <2>2. requests' = arrival'[n + 1] /\ k < n + 1
    BY <1>1, <1>2, <1>3 DEF SlotFacts
  <2>3. next[c] = IF n + 1 = k + 1 THEN Bottom(h) ELSE arrival[n]
    BY <1>1 DEF SlotFacts, Shape, StackIs
  <2>4. ASSUME NEW i \in (k + 1)..(n + 1)
        PROVE  next'[arrival'[i]] = IF i = k + 1 THEN Bottom(h) ELSE arrival'[i - 1]
    BY <1>1, <1>2, <1>3, <2>3 DEF SlotFacts, Shape, StackIs
  <2> QED
    BY <1>3, <2>1, <2>2, <2>4 DEF StackIs
<1>11. QueueIs(m, k)'
  BY <1>1, <1>2, <1>3 DEF Shape, QueueIs, SlotFacts
<1>12. WalkIs(h, m)'
  <2>1. CASE h = Null
    BY <2>1 DEF Shape, WalkIs, Walks
  <2>2. CASE h # Null
    BY <1>1, <1>2, <1>3, <1>9, <2>2 DEF Shape, WalkIs, SlotFacts
  <2> QED
    BY <2>1, <2>2
<1>13. PhaseIs(h, k)'
  <2>1. h # Null
    BY <1>1 DEF Shape, StackIs, PhaseIs, Bottom, SlotFacts
  <2> QED
    BY <1>2, <1>3, <1>9, <2>1 DEF Shape, PhaseIs
<1> QED
  BY <1>1, <1>3, <1>5, <1>6, <1>7, <1>8, <1>10, <1>11, <1>12, <1>13
     DEF Shape, SlotFacts

\* The exchange of add_request() detaches the whole stack, for make_queue to
\* walk it down to the slot at its bottom.
LEMMA AddExchangeInv ==
  ASSUME NEW h, NEW m, NEW k, InvWith(h, m, k), NEW n, n = Len(arrival),
         NEW c \in Clients, add_request_exchange(c)
  PROVE  InvWith(c, n, n)'
<1> USE PointersDistinct DEF InvWith, add_request_exchange
<1>1. SlotFacts(h, m, k)
  BY InvSlotFacts
<1>2. h = c /\ AddsFirst(c) /\ m = 0 /\ k = 0 /\ queue = Null
  BY <1>1 DEF Shape, Holds, AddsFirst, PhaseIs, QueueIs, SlotFacts
<1>3. \A d \in Clients : (Holds(d)' <=> Holds(d)) /\ (Waits(d)' <=> Waits(d))
  BY DEF Holds, Owns, AddsFirst, Waits, TypeOK
<1>4. TypeOK'
  BY DEF TypeOK, Pointers, Adders
<1>5. ArrivalIsWaiters'
  BY <1>3 DEF ArrivalIsWaiters
<1>6. AddersSuspended'
  BY DEF AddersSuspended, TypeOK
<1>7. /\ adder'[c] = "make_queue" /\ pc'[c] = "suspended"
      /\ aFrom'[c] = requests
  BY DEF TypeOK, AddersSuspended
<1>8. Bottom(c)' = Doorman /\ Bottom(c) = c
  BY <1>2, <1>7 DEF Bottom, AddsFirst
<1>9. StackIs(n, Bottom(c))' /\ QueueIs(n, n)'
  BY <1>1, <1>2, <1>8 DEF StackIs, QueueIs, SlotFacts
<1>10. WalkIs(c, n)'
  BY <1>1, <1>2, <1>7, <1>8 DEF Shape, StackIs, WalkIs, Walks, WalkTo, WalkFrom, SlotFacts
<1>11. PhaseIs(c, n)'
  BY <1>7 DEF PhaseIs, AddsFirst
<1> QED
  BY <1>1, <1>2, <1>3, <1>4, <1>5, <1>6, <1>9, <1>10, <1>11 DEF Shape, SlotFacts

\* The exchange of unlock() detaches the whole stack, for make_queue to walk
\* it down to the doorman.
LEMMA UnlockExchangeInv ==
  ASSUME NEW h, NEW m, NEW k, InvWith(h, m, k), NEW n, n = Len(arrival),
         NEW c \in Clients, unlock_exchange(c)
  PROVE  InvWith(c, n, n)'
<1> USE PointersDistinct DEF InvWith, unlock_exchange
<1>1. SlotFacts(h, m, k)
  BY InvSlotFacts
<1>2. h = c /\ adder[c] = "none" /\ ~AddsFirst(c)
  BY DEF Shape, Holds, Owns, AddersSuspended, AddsFirst
<1>3. m = 0 /\ k = 0 /\ queue = Null /\ n > 0
  BY <1>1, <1>2 DEF Shape, PhaseIs, QueueIs, SlotFacts, TypeOK
<1>4. \A d \in Clients : (Holds(d)' <=> Holds(d)) /\ (Waits(d)' <=> Waits(d))
  BY DEF Holds, Owns, AddsFirst, Waits, TypeOK
<1>5. TypeOK'
  BY DEF TypeOK, Pointers, PCs
<1>6. ArrivalIsWaiters'
  BY <1>4 DEF ArrivalIsWaiters
<1>7. AddersSuspended'
  BY <1>2 DEF AddersSuspended, TypeOK
<1>8. adder'[c] = "none" /\ pc'[c] = "u_make_queue" /\ uFrom'[c] = requests
  BY <1>2 DEF TypeOK
<1>9. Bottom(c)' = Doorman /\ Bottom(c) = Doorman
  BY <1>2, <1>8 DEF Bottom, AddsFirst
<1>10. StackIs(n, Bottom(c))' /\ QueueIs(n, n)'
  BY <1>1, <1>3, <1>9 DEF StackIs, QueueIs, SlotFacts
<1>11. WalkIs(c, n)'
  BY <1>1, <1>2, <1>3, <1>8, <1>9
     DEF Shape, StackIs, WalkIs, Walks, WalkTo, WalkFrom, SlotFacts
<1>12. PhaseIs(c, n)'
  BY <1>3, <1>8 DEF PhaseIs, AddsFirst
<1> QED
  BY <1>1, <1>2, <1>4, <1>5, <1>6, <1>7, <1>10, <1>11, <1>12 DEF Shape, SlotFacts

\* One iteration of make_queue moves the newest slot of the walked stack to
\* the front of the queue.
LEMMA ReverseStep ==
  ASSUME NEW h, NEW m, NEW k, InvWith(h, m, k), m > 0, Walks(h),
         make_queue(arrival[m]), UNCHANGED <<requests, pc, adder, arrival>>,
         \A d \in Clients \ {h} : adder[d] # "check"
  PROVE  /\ m - 1 \in Nat /\ m - 1 <= k /\ k <= Len(arrival)
         /\ arrival[m] \in Clients
         /\ next' \in [Clients -> Pointers \cup {Dead}]
         /\ queue' \in Clients
         /\ ArrivalIsWaiters' /\ AddersSuspended'
         /\ \A d \in Clients : Holds(d)' <=> d = h
         /\ StackIs(k, Bottom(h))'
         /\ QueueIs(m - 1, k)'
         /\ PhaseIs(h, k)'
         /\ \A i \in 1..(m - 1) : next'[arrival[i]] = next[arrival[i]]
<1> USE PointersDistinct DEF InvWith
<1>1. SlotFacts(h, m, k)
  BY InvSlotFacts
<1> DEFINE f == arrival[m]
<1>2. /\ m \in 1..Len(arrival) /\ m - 1 \in Nat
      /\ f \in Clients /\ Waits(f) /\ f # h
  BY <1>1 DEF SlotFacts
<1>3. next' = [next EXCEPT ![f] = queue] /\ queue' = f
  BY DEF make_queue
<1>4. /\ next' \in [Clients -> Pointers \cup {Dead}]
      /\ queue \in Clients \cup {Null}
      /\ next'[f] = queue
      /\ \A d \in Clients : d # f => next'[d] = next[d]
  BY <1>2, <1>3 DEF TypeOK, Pointers
<1>5. \A i \in 1..Len(arrival) : i # m => next'[arrival[i]] = next[arrival[i]]
  BY <1>1, <1>2, <1>4 DEF SlotFacts, ArrivalIsWaiters
<1>6. ~AddsFirst(h) /\ h \in Clients
  BY DEF Walks, AddsFirst, AddersSuspended
<1>7. adder[f] # "check"
  BY <1>2
<1>8. \A d \in Clients : /\ Holds(d)' <=> Holds(d)
                         /\ Waits(d)' <=> Waits(d)
  BY <1>2, <1>4, <1>7 DEF Holds, Owns, AddsFirst, Waits
<1>9. ArrivalIsWaiters'
  BY <1>8 DEF ArrivalIsWaiters
<1>10. AddersSuspended'
  BY <1>2, <1>4, <1>7 DEF AddersSuspended, Waits
<1>11. StackIs(k, Bottom(h))'
  <2>1. Bottom(h)' = Bottom(h)
    BY <1>2, <1>4, <1>6 DEF Bottom, AddsFirst
  <2> QED
    BY <1>1, <1>5, <2>1 DEF Shape, StackIs, SlotFacts
<1>12. QueueIs(m - 1, k)'
  <2>1. m - 1 < k /\ queue' = arrival[(m - 1) + 1]
    BY <1>1, <1>2, <1>3 DEF SlotFacts
  <2>2. ASSUME NEW i \in m..k
        PROVE  next'[arrival[i]] = IF i = k THEN Null ELSE arrival[i + 1]
    BY <1>1, <1>2, <1>4, <1>5 DEF SlotFacts, Shape, QueueIs
  <2> QED
    BY <1>2, <2>1, <2>2 DEF QueueIs
<1>13. PhaseIs(h, k)'
  BY <1>2, <1>4, <1>6 DEF Shape, PhaseIs, AddsFirst
<1> QED
  BY <1>1, <1>2, <1>3, <1>4, <1>5, <1>8, <1>9, <1>10, <1>11, <1>12, <1>13
     DEF SlotFacts, Shape

\* make_queue in add_request() takes one more slot of the stack.
LEMMA AddReverseInv ==
  ASSUME NEW h, NEW m, NEW k, InvWith(h, m, k), NEW c \in Clients,
         add_request_make_queue(c), aFrom[c] # c,
         \A d \in Clients \ {c} : adder[d] # "check"
  PROVE  InvWith(h, m - 1, k)'
<1> USE PointersDistinct DEF InvWith
<1>1. SlotFacts(h, m, k)
  BY InvSlotFacts
<1>2. /\ adder[c] = "make_queue"
      /\ make_queue(aFrom[c])
      /\ aFrom' = [aFrom EXCEPT ![c] = next[aFrom[c]]]
      /\ UNCHANGED <<pc, adder, requests, uFrom, arrival>>
  BY DEF add_request_make_queue
<1>3. h = c /\ Walks(h)
  BY <1>2 DEF Shape, Holds, Walks
<1>4. m > 0 /\ aFrom[c] = arrival[m]
  BY <1>2, <1>3 DEF Shape, WalkIs, WalkTo, WalkFrom
<1>5. /\ m - 1 \in Nat /\ m - 1 <= k /\ k <= Len(arrival)
      /\ next' \in [Clients -> Pointers \cup {Dead}]
      /\ queue' \in Clients
      /\ ArrivalIsWaiters' /\ AddersSuspended'
      /\ \A d \in Clients : Holds(d)' <=> d = h
      /\ StackIs(k, Bottom(h))'
      /\ QueueIs(m - 1, k)'
      /\ PhaseIs(h, k)'
      /\ \A i \in 1..(m - 1) : next'[arrival[i]] = next[arrival[i]]
  BY <1>2, <1>3, <1>4, ReverseStep
<1>6. next[arrival[m]] = IF m = 1 THEN c ELSE arrival[m - 1]
  BY <1>2, <1>3, <1>4 DEF Shape, WalkIs, WalkTo
<1>7. aFrom'[c] = IF m - 1 = 0 THEN c ELSE arrival[m - 1]
  BY <1>2, <1>4, <1>6 DEF TypeOK
<1>8. WalkIs(h, m - 1)'
  BY <1>1, <1>2, <1>3, <1>4, <1>5, <1>7
     DEF Shape, WalkIs, Walks, WalkTo, WalkFrom, SlotFacts
<1>9. TypeOK'
  <2>1. aFrom' \in [Clients -> Pointers]
    BY <1>1, <1>2, <1>4 DEF TypeOK, SlotFacts
  <2> QED
    BY <1>2, <1>5, <2>1 DEF TypeOK
<1> QED
  BY <1>2, <1>5, <1>8, <1>9 DEF Shape

\* make_queue in unlock() takes one more slot of the stack.
LEMMA UnlockReverseInv ==
  ASSUME NEW h, NEW m, NEW k, InvWith(h, m, k), NEW c \in Clients,
         unlock_make_queue(c), uFrom[c] # Doorman,
         \A d \in Clients \ {c} : adder[d] # "check"
  PROVE  InvWith(h, m - 1, k)'
<1> USE PointersDistinct DEF InvWith
<1>1. SlotFacts(h, m, k)
  BY InvSlotFacts
<1>2. /\ pc[c] = "u_make_queue"
      /\ make_queue(uFrom[c])
      /\ uFrom' = [uFrom EXCEPT ![c] = next[uFrom[c]]]
      /\ UNCHANGED <<requests, pc, adder, aFrom, arrival>>
  BY DEF unlock_make_queue
<1>3. h = c /\ Walks(h) /\ adder[c] = "none"
  BY <1>2 DEF Shape, Holds, Owns, Walks, AddersSuspended
<1>4. m > 0 /\ uFrom[c] = arrival[m]
  BY <1>2, <1>3 DEF Shape, WalkIs, WalkTo, WalkFrom
<1>5. /\ m - 1 \in Nat /\ m - 1 <= k /\ k <= Len(arrival)
      /\ next' \in [Clients -> Pointers \cup {Dead}]
      /\ queue' \in Clients
      /\ ArrivalIsWaiters' /\ AddersSuspended'
      /\ \A d \in Clients : Holds(d)' <=> d = h
      /\ StackIs(k, Bottom(h))'
      /\ QueueIs(m - 1, k)'
      /\ PhaseIs(h, k)'
      /\ \A i \in 1..(m - 1) : next'[arrival[i]] = next[arrival[i]]
  BY <1>2, <1>3, <1>4, ReverseStep
<1>6. next[arrival[m]] = IF m = 1 THEN Doorman ELSE arrival[m - 1]
  BY <1>2, <1>3, <1>4 DEF Shape, WalkIs, WalkTo
<1>7. uFrom'[c] = IF m - 1 = 0 THEN Doorman ELSE arrival[m - 1]
  BY <1>2, <1>4, <1>6 DEF TypeOK
<1>8. WalkIs(h, m - 1)'
  BY <1>1, <1>2, <1>3, <1>4, <1>5, <1>7
     DEF Shape, WalkIs, Walks, WalkTo, WalkFrom, SlotFacts
<1>9. TypeOK'
  <2>1. uFrom' \in [Clients -> Pointers]
    BY <1>1, <1>2, <1>4 DEF TypeOK, SlotFacts
  <2> QED
    BY <1>2, <1>5, <2>1 DEF TypeOK
<1> QED
  BY <1>2, <1>5, <1>8, <1>9 DEF Shape

\* The walk of add_request() ends at its own slot, whose client resumes.
LEMMA AddResumeInv ==
  ASSUME NEW h, NEW m, NEW k, InvWith(h, m, k), NEW c \in Clients,
         add_request_make_queue(c), aFrom[c] = c
  PROVE  InvWith(c, 0, k)'
<1> USE PointersDistinct DEF InvWith
<1>1. SlotFacts(h, m, k)
  BY InvSlotFacts
<1>2. /\ adder[c] = "make_queue" /\ pc[c] = "suspended"
      /\ pc' = [pc EXCEPT ![c] = "owns"]
      /\ next' = [next EXCEPT ![c] = Dead]
      /\ adder' = [adder EXCEPT ![c] = "none"]
      /\ UNCHANGED <<requests, queue, aFrom, uFrom, arrival>>
  BY DEF add_request_make_queue, resume_slot, AddersSuspended
<1>3. h = c /\ Walks(h) /\ ~Waits(c)
  BY <1>2 DEF Shape, Holds, Walks, Waits
<1>4. m = 0
  BY <1>1, <1>2, <1>3 DEF Shape, WalkIs, WalkTo, WalkFrom, SlotFacts
<1>5. \A d \in Clients : (Holds(d)' <=> d = c) /\ (Waits(d)' <=> Waits(d))
  BY <1>2, <1>3 DEF Shape, Holds, Owns, AddsFirst, Waits, TypeOK
<1>6. TypeOK'
  BY <1>2 DEF TypeOK, PCs, Adders
<1>7. ArrivalIsWaiters'
  BY <1>2, <1>5 DEF ArrivalIsWaiters
<1>8. AddersSuspended'
  BY <1>2 DEF AddersSuspended, TypeOK
<1>9. \A i \in 1..Len(arrival) : next'[arrival[i]] = next[arrival[i]]
  BY <1>1, <1>2, <1>3 DEF SlotFacts, TypeOK
<1>10. ~AddsFirst(c)' /\ ~Walks(c)' /\ pc'[c] = "owns"
  BY <1>2 DEF AddsFirst, Walks, TypeOK
<1>11. Bottom(c)' = Bottom(c)
  BY <1>2, <1>10 DEF Bottom, AddsFirst
<1>12. StackIs(k, Bottom(c))'
  BY <1>1, <1>2, <1>3, <1>9, <1>11 DEF Shape, StackIs, SlotFacts
<1>13. QueueIs(0, k)'
  BY <1>1, <1>2, <1>4, <1>9 DEF Shape, QueueIs, SlotFacts
<1>14. WalkIs(c, 0)' /\ PhaseIs(c, k)'
  BY <1>10 DEF WalkIs, PhaseIs
<1> QED
  BY <1>1, <1>2, <1>5, <1>6, <1>7, <1>8, <1>12, <1>13, <1>14 DEF Shape, SlotFacts

\* The hand-over: the first slot of the queue is the one that arrived first,
\* and its client is the new holder.
LEMMA PickInv ==
  ASSUME NEW h, NEW m, NEW k, InvWith(h, m, k), m = 0, k > 0,
         NEW c \in Clients, pc[c] \in {"owns", "u_make_queue"},
         NEW q, q = queue, unlock_pick(c),
         \A d \in Clients \ {c} : adder[d] # "check"
  PROVE  /\ InvWith(q, 0, k - 1)'
         /\ h = c /\ q = Head(arrival) /\ arrival # <<>> /\ arrival' = Tail(arrival)
<1> USE PointersDistinct DEF InvWith
<1> DEFINE n == Len(arrival)
<1>1. SlotFacts(h, m, k)
  BY InvSlotFacts
<1>2. /\ pc' = [pc EXCEPT ![c] = "idle", ![q] = "owns"]
      /\ next' = [next EXCEPT ![q] = Dead]
      /\ queue' = next[q]
      /\ arrival' = Tail(arrival)
      /\ UNCHANGED <<requests, adder, aFrom, uFrom>>
  BY DEF unlock_pick, resume_slot
<1>3. h = c /\ adder[c] = "none" /\ ~Waits(c)
  BY DEF Shape, Holds, Owns, Waits, AddersSuspended
<1>4. n > 0 /\ q = arrival[1] /\ arrival # <<>> /\ q = Head(arrival)
  BY <1>1 DEF Shape, QueueIs, SlotFacts, TypeOK
<1>5. /\ arrival' \in Seq(Clients)
      /\ Len(arrival') = n - 1
      /\ \A i \in 1..(n - 1) : arrival'[i] = arrival[i + 1]
  BY <1>2, <1>4, TailFacts DEF TypeOK
<1>6. /\ q \in Clients /\ Waits(q) /\ q # c
      /\ next[q] \in Clients \cup {Null}
      /\ adder[q] = "none" /\ pc[q] = "suspended"
  BY <1>1, <1>3, <1>4 DEF SlotFacts, Waits
<1>7. \A d \in Clients : /\ Holds(d)' <=> d = q
                         /\ Waits(d)' <=> Waits(d) /\ d # q
  BY <1>2, <1>3, <1>6 DEF Shape, Holds, Owns, AddsFirst, Waits, TypeOK
<1>8. TypeOK'
  BY <1>2, <1>5, <1>6 DEF TypeOK, PCs
<1>9. AddersSuspended'
  BY <1>2, <1>3, <1>6 DEF AddersSuspended, TypeOK
<1>10. ArrivalIsWaiters'
  <2>1. \A i, j \in 1..(n - 1) : arrival'[i] = arrival'[j] => i = j
    BY <1>1, <1>5 DEF ArrivalIsWaiters, SlotFacts
  <2>2. ASSUME NEW d \in Clients, Waits(d)'
        PROVE  \E i \in 1..(n - 1) : arrival'[i] = d
    <3>1. PICK i \in 1..n : arrival[i] = d
      BY <1>7, <2>2 DEF ArrivalIsWaiters
    <3>2. i # 1
      BY <1>4, <1>7, <2>2, <3>1
    <3>3. i - 1 \in 1..(n - 1) /\ arrival'[i - 1] = d
      BY <1>1, <1>5, <3>1, <3>2 DEF SlotFacts
    <3> QED
      BY <3>3
  <2>3. ASSUME NEW d \in Clients, NEW i \in 1..(n - 1), arrival'[i] = d
        PROVE  Waits(d)'
    <3>1. i + 1 \in 1..n /\ i + 1 # 1 /\ 1 \in 1..n
      BY <1>1, <1>4 DEF SlotFacts
    <3>2. arrival[i + 1] # q /\ arrival[i + 1] \in Clients /\ Waits(arrival[i + 1])
      BY <1>1, <1>4, <3>1 DEF ArrivalIsWaiters, SlotFacts
    <3> QED
      BY <1>5, <1>7, <2>3, <3>2
  <2> QED
    BY <1>5, <2>1, <2>2, <2>3 DEF ArrivalIsWaiters
<1>11. \A i \in 2..n : next'[arrival[i]] = next[arrival[i]]
  <2>1. \A i \in 2..n : arrival[i] # q
    BY <1>1, <1>4 DEF ArrivalIsWaiters, SlotFacts
  <2> QED
    BY <1>1, <1>2, <1>6, <2>1 DEF SlotFacts, TypeOK
<1>12. pc'[q] = "owns" /\ adder'[q] = "none" /\ ~AddsFirst(q)' /\ ~Walks(q)'
  BY <1>2, <1>6 DEF AddsFirst, Walks, TypeOK
<1>13. Bottom(h) = Doorman /\ Bottom(q)' = Doorman
  BY <1>3, <1>6, <1>12 DEF Bottom, AddsFirst
<1>14. StackIs(k - 1, Bottom(q))'
  <2>1. requests = IF k - 1 < n - 1 THEN arrival'[n - 1] ELSE Doorman
    BY <1>1, <1>4, <1>5, <1>13 DEF Shape, StackIs, SlotFacts
  <2>2. ASSUME NEW i \in k..(n - 1)
        PROVE  next'[arrival'[i]] = IF i = k THEN Doorman ELSE arrival'[i - 1]
    <3>1. /\ i + 1 \in (k + 1)..n /\ i + 1 \in 2..n
          /\ arrival'[i] = arrival[i + 1]
          /\ i # k => arrival'[i - 1] = arrival[i]
      BY <1>1, <1>5 DEF SlotFacts
    <3> QED
      BY <1>1, <1>11, <1>13, <3>1 DEF Shape, StackIs, SlotFacts
  <2> QED
    BY <1>1, <1>2, <1>5, <1>13, <2>1, <2>2 DEF StackIs, SlotFacts
<1>15. QueueIs(0, k - 1)'
  <2>1. next[q] = IF k = 1 THEN Null ELSE arrival[2]
    BY <1>1, <1>4 DEF Shape, QueueIs, SlotFacts
  <2>2. queue' = IF 0 < k - 1 THEN arrival'[1] ELSE Null
    BY <1>1, <1>2, <1>5, <2>1 DEF SlotFacts
  <2>3. ASSUME NEW i \in 1..(k - 1)
        PROVE  next'[arrival'[i]] = IF i = k - 1 THEN Null ELSE arrival'[i + 1]
    <3>1. /\ i + 1 \in 1..k /\ i + 1 \in 2..n
          /\ arrival'[i] = arrival[i + 1]
      BY <1>1, <1>5 DEF SlotFacts
    <3>2. i # k - 1 => arrival'[i + 1] = arrival[(i + 1) + 1]
      BY <1>1, <1>5 DEF SlotFacts
    <3> QED
      BY <1>1, <1>11, <3>1, <3>2 DEF Shape, QueueIs, SlotFacts
  <2> QED
    BY <1>1, <2>2, <2>3 DEF QueueIs, SlotFacts
<1>16. WalkIs(q, 0)' /\ PhaseIs(q, k - 1)'
  BY <1>6, <1>12 DEF WalkIs, PhaseIs
<1> QED
  BY <1>1, <1>2, <1>3, <1>4, <1>5, <1>6, <1>7, <1>8, <1>9, <1>10, <1>14, <1>15, <1>16
     DEF Shape, SlotFacts

\* unlock() with a queue, and the end of its make_queue, hand over.
LEMMA UnlockPicks ==
  ASSUME NEW h, NEW m, NEW k, InvWith(h, m, k), NEW c \in Clients,
         \/ unlock(c) /\ queue # Null
         \/ unlock_make_queue(c) /\ uFrom[c] = Doorman
  PROVE  m = 0 /\ k > 0 /\ unlock_pick(c) /\ pc[c] \in {"owns", "u_make_queue"}
<1> USE PointersDistinct DEF InvWith
<1>1. SlotFacts(h, m, k)
  BY InvSlotFacts
<1>2. CASE unlock(c) /\ queue # Null
  <2>1. pc[c] = "owns" /\ unlock_pick(c)
    BY <1>2 DEF unlock
  <2>2. h = c /\ ~Walks(h)
    BY <2>1 DEF Shape, Holds, Owns, Walks, AddersSuspended
  <2> QED
    BY <1>1, <1>2, <2>1, <2>2 DEF Shape, WalkIs, QueueIs, SlotFacts
<1>3. CASE unlock_make_queue(c) /\ uFrom[c] = Doorman
  <2>1. pc[c] = "u_make_queue" /\ unlock_pick(c)
    BY <1>3 DEF unlock_make_queue
  <2>2. h = c /\ Walks(h) /\ adder[c] = "none"
    BY <2>1 DEF Shape, Holds, Owns, Walks, AddersSuspended
  <2>3. k > 0
    BY <2>1, <2>2 DEF Shape, PhaseIs
  <2>4. m = 0
    BY <1>1, <1>3, <2>2 DEF Shape, WalkIs, WalkFrom, SlotFacts
  <2> QED
    BY <2>1, <2>3, <2>4
<1> QED
  BY <1>2, <1>3

\* unlock() that finds the doorman alone leaves a free mutex.
LEMMA UnlockFreesInv ==
  ASSUME NEW h, NEW m, NEW k, InvWith(h, m, k), NEW c \in Clients,
         unlock(c), queue = Null, requests = Doorman
  PROVE  InvWith(Null, 0, 0)' /\ h = c /\ arrival = <<>>
<1> USE PointersDistinct DEF InvWith
<1>1. SlotFacts(h, m, k)
  BY InvSlotFacts
<1>2. /\ pc[c] = "owns" /\ pc' = [pc EXCEPT ![c] = "idle"] /\ requests' = Null
      /\ UNCHANGED <<queue, next, adder, aFrom, uFrom, arrival>>
  BY DEF unlock
<1>3. h = c /\ adder[c] = "none" /\ ~Walks(c)
  BY <1>2 DEF Shape, Holds, Owns, AddersSuspended, Walks
<1>4. m = 0 /\ k = 0 /\ Len(arrival) = 0
  BY <1>1, <1>3 DEF Shape, WalkIs, QueueIs, StackIs, SlotFacts
<1>5. arrival = <<>>
  BY <1>4 DEF TypeOK
<1>6. \A d \in Clients : ~Holds(d)' /\ (Waits(d)' <=> Waits(d))
  BY <1>2, <1>3 DEF Shape, Holds, Owns, AddsFirst, Waits, TypeOK
<1>7. TypeOK'
  BY <1>2 DEF TypeOK, Pointers, PCs
<1>8. AddersSuspended'
  BY <1>2, <1>3 DEF AddersSuspended, TypeOK
<1>9. ArrivalIsWaiters'
  BY <1>2, <1>6 DEF ArrivalIsWaiters
<1>10. Shape(Null, 0, 0)'
  BY <1>2, <1>4, <1>5, <1>6
     DEF Shape, StackIs, QueueIs, WalkIs, PhaseIs, Bottom, Walks
<1> QED
  BY <1>3, <1>5, <1>7, <1>8, <1>9, <1>10

\* unlock() that finds requests is about to take them.
LEMMA UnlockFindsInv ==
  ASSUME NEW h, NEW m, NEW k, InvWith(h, m, k), NEW c \in Clients,
         unlock(c), queue = Null, requests # Doorman
  PROVE  InvWith(h, m, k)'
<1> USE PointersDistinct DEF InvWith
<1>1. SlotFacts(h, m, k)
  BY InvSlotFacts
<1>2. /\ pc[c] = "owns" /\ pc' = [pc EXCEPT ![c] = "u_exchange"]
      /\ UNCHANGED <<requests, queue, next, adder, aFrom, uFrom, arrival>>
  BY DEF unlock
<1>3. h = c /\ adder[c] = "none" /\ ~Walks(c) /\ ~AddsFirst(c)
  BY <1>2 DEF Shape, Holds, Owns, AddersSuspended, Walks, AddsFirst
<1>4. k = 0
  BY <1>1, <1>3 DEF Shape, WalkIs, QueueIs, SlotFacts
<1>5. arrival # <<>>
  <2>1. Len(arrival) # 0
    BY <1>1, <1>3, <1>4 DEF Shape, StackIs, Bottom, SlotFacts
  <2> QED
    BY <2>1
<1>6. TypeOK'
  BY <1>2 DEF TypeOK, PCs
<1>7. AddersSuspended'
  BY <1>2, <1>3 DEF AddersSuspended, TypeOK
<1>8. \A d \in Clients : (Holds(d)' <=> Holds(d)) /\ (Waits(d)' <=> Waits(d))
  BY <1>2, <1>3 DEF Holds, Owns, AddsFirst, Waits, TypeOK
<1>9. /\ AddsFirst(h)' <=> AddsFirst(h)
      /\ Walks(h)' <=> Walks(h)
      /\ UNCHANGED <<WalkTo(h), WalkFrom(h)>>
  BY <1>2, <1>3 DEF AddsFirst, Walks, WalkTo, WalkFrom, TypeOK
<1>10. PhaseIs(h, k)'
  BY <1>2, <1>3, <1>4, <1>5, <1>9 DEF PhaseIs, TypeOK
<1> QED
  BY <1>2, <1>6, <1>7, <1>8, <1>9, <1>10, Frame

-----------------------------------------------------------------------------
(* The theorems                                                            *)

\* A step of the abstract lock, or a stutter: h is its owner, arrival the
\* queue of its waiters.
LockMoves(h, h1) ==
  \/ h1 = h /\ arrival' = arrival
  \/ h = Null /\ h1 \in Clients /\ arrival' = arrival
  \/ \E d \in Clients : /\ h \notin {Null, d} /\ h1 = h /\ ~Waits(d)
                         /\ arrival' = Append(arrival, d)
  \/ h # Null /\ arrival = <<>> /\ h1 = Null /\ arrival' = arrival
  \/ /\ h # Null /\ arrival # <<>>
     /\ h1 = Head(arrival) /\ arrival' = Tail(arrival)

\* The owner of the refinement mapping is the witness h.
LEMMA MappedIsHolder ==
  ASSUME NEW h, NEW m, NEW k, InvWith(h, m, k)
  PROVE  (IF \E c \in Clients : Holds(c)
          THEN CHOOSE c \in Clients : Holds(c) ELSE Null) = h
<1> USE PointersDistinct DEF InvWith
<1>1. \A c \in Clients : Holds(c) <=> c = h
  BY DEF Shape
<1>2. CASE h \in Clients
  BY <1>1, <1>2
<1>3. CASE h = Null
  BY <1>1, <1>3
<1> QED
  BY <1>2, <1>3

\* Every step of a client moves the witnesses, and moves the abstract lock.
LEMMA StepInv ==
  ASSUME ~Overtaking, NEW h, NEW m, NEW k, InvWith(h, m, k),
         NEW c \in Clients, Step(c)
  PROVE  \E h1, m1, k1 : InvWith(h1, m1, k1)' /\ LockMoves(h, h1)
<1> USE PointersDistinct DEF LockMoves
<1>1. \A d \in Clients \ {c} : adder[d] # "check"
  BY DEF Step, MayRun
<1>2. CASE lock(c)
  <2>1. CASE try_lock(c)
    <3>1. InvWith(c, 0, 0)' /\ h = Null
      BY <1>2, <2>1, TryLockInv, FreeMutex DEF try_lock
    <3> QED
      BY <1>2, <3>1 DEF lock
  <2>2. CASE ~try_lock(c)
    BY <1>2, <2>2, LockPendingInv DEF lock
  <2> QED
    BY <2>1, <2>2
<1>3. CASE discard(c)
  BY <1>3, DiscardInv DEF discard
<1>4. CASE co_await(c)
  BY <1>4, CoAwaitInv DEF co_await
<1>5. CASE add_request_cas(c)
  <2>1. CASE requests # next[c]
    BY <1>5, <2>1, CasFailsInv DEF add_request_cas
  <2>2. CASE requests = next[c] /\ next[c] = Null
    <3>1. InvWith(c, 0, 0)' /\ h = Null
      BY <1>1, <1>5, <2>2, CasLocksInv, FreeMutex
    <3> QED
      BY <1>5, <2>2, <3>1 DEF add_request_cas
  <2>3. CASE requests = next[c] /\ next[c] # Null
    <3>1. InvWith(h, m, k)'
      BY <1>1, <1>5, <2>3, CasPushesInv
    <3>2. arrival' = Append(arrival, c) /\ adder[c] = "cas" /\ ~Waits(c)
      BY <1>5, <2>3 DEF add_request_cas, Waits
    <3>3. h # c
      BY <3>2 DEF InvWith, Shape, Holds, Owns, AddsFirst, AddersSuspended
    <3>4. h # Null
      <4>1. SUFFICES ASSUME h = Null PROVE FALSE
        OBVIOUS
      <4>2. Len(arrival) = 0 /\ k = 0
        BY <4>1, InvSlotFacts DEF InvWith, Shape, PhaseIs, SlotFacts
      <4> QED
        BY <2>3, <4>1, <4>2 DEF InvWith, Shape, StackIs, Bottom
    <3> QED
      BY <3>1, <3>2, <3>3, <3>4
  <2> QED
    BY <2>1, <2>2, <2>3
<1>6. CASE add_request_check(c)
  BY <1>6, CheckInv DEF add_request_check
<1>7. CASE add_request_exchange(c)
  <2>1. PICK n : n = Len(arrival)
    OBVIOUS
  <2>2. InvWith(c, n, n)' /\ arrival' = arrival
    BY <1>7, <2>1, AddExchangeInv DEF add_request_exchange
  <2>3. h = c
    BY <1>7 DEF add_request_exchange, InvWith, Shape, Holds, AddsFirst
  <2> QED
    BY <2>2, <2>3
<1>8. CASE add_request_make_queue(c)
  <2>1. arrival' = arrival
    BY <1>8 DEF add_request_make_queue
  <2>2. CASE aFrom[c] # c
    BY <1>1, <1>8, <2>1, <2>2, AddReverseInv
  <2>3. CASE aFrom[c] = c
    <3>1. InvWith(c, 0, k)'
      BY <1>8, <2>3, AddResumeInv
    <3>2. h = c
      BY <1>8 DEF add_request_make_queue, InvWith, Shape, Holds
    <3> QED
      BY <2>1, <3>1, <3>2
  <2> QED
    BY <2>2, <2>3
<1>9. CASE unlock_exchange(c)
  <2>1. PICK n : n = Len(arrival)
    OBVIOUS
  <2>2. InvWith(c, n, n)' /\ arrival' = arrival
    BY <1>9, <2>1, UnlockExchangeInv DEF unlock_exchange
  <2>3. h = c
    BY <1>9 DEF unlock_exchange, InvWith, Shape, Holds, Owns
  <2> QED
    BY <2>2, <2>3
<1>10. CASE \/ unlock(c) /\ queue # Null
            \/ unlock_make_queue(c) /\ uFrom[c] = Doorman
  <2>1. m = 0 /\ k > 0 /\ unlock_pick(c) /\ pc[c] \in {"owns", "u_make_queue"}
    BY <1>10, UnlockPicks
  <2>2. PICK q : q = queue
    OBVIOUS
  <2>3. /\ InvWith(q, 0, k - 1)'
        /\ h = c /\ q = Head(arrival) /\ arrival # <<>> /\ arrival' = Tail(arrival)
    BY <1>1, <2>1, <2>2, PickInv
  <2> QED
    BY <2>3
<1>11. CASE unlock(c) /\ queue = Null /\ requests = Doorman
  <2>1. InvWith(Null, 0, 0)' /\ h = c /\ arrival = <<>>
    BY <1>11, UnlockFreesInv
  <2>2. arrival' = arrival
    BY <1>11 DEF unlock
  <2> QED
    BY <2>1, <2>2
<1>12. CASE unlock(c) /\ queue = Null /\ requests # Doorman
  <2>1. InvWith(h, m, k)'
    BY <1>12, UnlockFindsInv
  <2>2. arrival' = arrival
    BY <1>12 DEF unlock
  <2> QED
    BY <2>1, <2>2
<1>13. CASE unlock_make_queue(c) /\ uFrom[c] # Doorman
  <2>1. InvWith(h, m - 1, k)'
    BY <1>1, <1>13, UnlockReverseInv
  <2>2. arrival' = arrival
    BY <1>13 DEF unlock_make_queue
  <2> QED
    BY <2>1, <2>2
<1> QED
  <2>1. \/ lock(c) \/ discard(c) \/ co_await(c) \/ add_request_cas(c)
        \/ add_request_check(c) \/ add_request_exchange(c)
        \/ add_request_make_queue(c) \/ unlock(c) \/ unlock_exchange(c)
        \/ unlock_make_queue(c)
    BY DEF Step, Progress
  <2> QED
    BY <1>2, <1>3, <1>4, <1>5, <1>6, <1>7, <1>8, <1>9, <1>10, <1>11, <1>12, <1>13, <2>1

\* A step that changes no variable keeps the witnesses.
LEMMA StutterInv ==
  ASSUME NEW h, NEW m, NEW k, InvWith(h, m, k), UNCHANGED vars
  PROVE  InvWith(h, m, k)' /\ arrival' = arrival
BY DEF vars, InvWith, TypeOK, ArrivalIsWaiters, AddersSuspended, Shape, StackIs,
       QueueIs, WalkIs, PhaseIs, Bottom, Walks, WalkTo, WalkFrom, Holds, Owns,
       AddsFirst, Waits

\* The inductive step.
LEMMA NextIInv == ~Overtaking /\ IInv /\ [Next]_vars => IInv'
<1> SUFFICES ASSUME ~Overtaking, IInv, [Next]_vars PROVE IInv'
  OBVIOUS
<1>1. PICK h, m, k : InvWith(h, m, k)
  BY IInvHasWitnesses
<1>2. \E h1, m1, k1 : InvWith(h1, m1, k1)'
  <2>1. CASE UNCHANGED vars
    BY <1>1, <2>1, StutterInv
  <2>2. CASE Next
    BY <1>1, <2>2, StepInv DEF Next
  <2> QED
    BY <2>1, <2>2
<1>3. ASSUME NEW h1, NEW m1, NEW k1, InvWith(h1, m1, k1)' PROVE IInv'
  <2>1. Len(arrival)' \in Nat
    BY <1>3 DEF InvWith, TypeOK
  <2>2. m1 \in 0..Len(arrival)' /\ k1 \in 0..Len(arrival)'
    BY <1>3, <2>1 DEF InvWith, Shape
  <2> QED
    BY <1>3, <2>2 DEF InvWith, IInv, ListsHoldWaiters
<1> QED
  BY <1>2, <1>3

\* In every reachable state the three linked lists of the mutex hold exactly
\* the waiting slots, each once, in order of arrival.
THEOREM Lists == ASSUME ~Overtaking PROVE Spec => [](TypeOK /\ ListsHoldWaiters)
<1>1. Init => IInv
  BY InitInv, IInvHasWitnesses
<1>2. IInv /\ [Next]_vars => IInv'
  BY NextIInv
<1> QED
  BY <1>1, <1>2, PTL DEF Spec, IInv

\* _requests, _queue and the cursors of make_queue always hold pointers the
\* code may follow from there.
THEOREM TypeCorrect == ASSUME ~Overtaking PROVE Spec => []TypeOK
BY Lists, PTL

\* No two coroutines or threads ever own the mutex at once.
THEOREM Exclusion == ASSUME ~Overtaking PROVE Spec => []MutualExclusion
<1>1. IInv => MutualExclusion
  <2> SUFFICES ASSUME IInv PROVE MutualExclusion
    OBVIOUS
  <2>1. PICK h, m, k : InvWith(h, m, k)
    BY IInvHasWitnesses
  <2>2. \A c \in Clients : Owns(c) \/ InOwnersPart(c) => c = h
    BY <2>1 DEF InvWith, Shape, Holds, AddsFirst, InOwnersPart
  <2>3. \A c \in Clients : ~(Owns(c) /\ InOwnersPart(c))
    BY <2>1 DEF InvWith, AddersSuspended, Owns, InOwnersPart
  <2> QED
    BY <2>2, <2>3 DEF MutualExclusion
<1> QED
  BY <1>1, Lists, PTL DEF IInv

\* make_queue and unlock never follow a pointer to anything but a waiting
\* slot.
THEOREM LiveWalks == ASSUME ~Overtaking PROVE Spec => []WalksLiveSlots
<1>1. IInv => WalksLiveSlots
  <2> SUFFICES ASSUME IInv PROVE WalksLiveSlots
    OBVIOUS
  <2>1. PICK h, m, k : InvWith(h, m, k)
    BY IInvHasWitnesses
  <2>2. SlotFacts(h, m, k)
    BY <2>1, InvSlotFacts
  <2>3. queue # Null => LiveSlot(queue)
    BY <2>1, <2>2 DEF InvWith, Shape, QueueIs, SlotFacts, LiveSlot
  <2>4. ASSUME NEW c \in Clients, adder[c] = "make_queue"
        PROVE  aFrom[c] = c \/ LiveSlot(aFrom[c])
    <3>1. h = c /\ Walks(h)
      BY <2>1, <2>4, PointersDistinct DEF InvWith, Shape, Holds, Walks
    <3> QED
      BY <2>1, <2>2, <2>4, <3>1
         DEF InvWith, Shape, WalkIs, WalkTo, WalkFrom, SlotFacts, LiveSlot
  <2>5. ASSUME NEW c \in Clients, pc[c] = "u_make_queue"
        PROVE  LiveSlot(uFrom[c]) \/ (uFrom[c] = Doorman /\ queue # Null)
    <3>1. h = c /\ Walks(h) /\ adder[c] = "none" /\ k > 0
      BY <2>1, <2>5, PointersDistinct
         DEF InvWith, Shape, Holds, Owns, Walks, AddersSuspended, PhaseIs
    <3>2. uFrom[c] = IF m = 0 THEN Doorman ELSE arrival[m]
      BY <2>1, <3>1 DEF InvWith, Shape, WalkIs, WalkTo, WalkFrom
    <3>3. CASE m = 0
      BY <2>1, <2>2, <3>1, <3>2, <3>3, PointersDistinct
         DEF InvWith, Shape, QueueIs, SlotFacts
    <3>4. CASE m # 0
      BY <2>1, <2>2, <3>2, <3>4 DEF InvWith, SlotFacts, LiveSlot
    <3> QED
      BY <3>3, <3>4
  <2> QED
    BY <2>3, <2>4, <2>5 DEF WalksLiveSlots
<1> QED
  BY <1>1, Lists, PTL DEF IInv

\* coro_mutex implements the abstract first-come first-served lock.
THEOREM Refinement == ASSUME ~Overtaking PROVE Spec => FifoHandOver
<1> DEFINE owner == IF \E c \in Clients : Holds(c)
                    THEN CHOOSE c \in Clients : Holds(c) ELSE Null
<1>1. Init => Fifo!Init
  <2> SUFFICES ASSUME Init PROVE owner = Null /\ arrival = <<>>
    BY DEF Fifo!Init
  <2>1. owner = Null
    BY InitInv, MappedIsHolder
  <2> QED
    BY <2>1 DEF Init
<1>2. IInv /\ IInv' /\ [Next]_vars => [Fifo!Next]_(Fifo!vars)
  <2> SUFFICES ASSUME IInv, [Next]_vars PROVE [Fifo!Next]_(Fifo!vars)
    OBVIOUS
  <2>1. PICK h, m, k : InvWith(h, m, k)
    BY IInvHasWitnesses
  <2>2. PICK h1, m1, k1 : InvWith(h1, m1, k1)' /\ LockMoves(h, h1)
    <3>1. CASE UNCHANGED vars
      BY <2>1, <3>1, StutterInv DEF LockMoves
    <3>2. CASE Next
      BY <2>1, <3>2, StepInv DEF Next
    <3> QED
      BY <3>1, <3>2
  <2>3. owner = h
    BY <2>1, MappedIsHolder
  <2>4. owner' = h1
    <3>1. \A c \in Clients : Holds(c)' <=> c = h1
      BY <2>2 DEF InvWith, Shape
    <3>2. CASE h1 \in Clients
      BY <3>1, <3>2
    <3>3. CASE h1 = Null
      BY <3>1, <3>3, PointersDistinct
    <3> QED
      BY <2>2, <3>2, <3>3 DEF InvWith
  <2>5. \A d \in Clients : Waits(d) <=> Fifo!IsWaiting(d)
    <3>1. DOMAIN arrival = 1..Len(arrival)
      BY <2>1 DEF InvWith, TypeOK
    <3> QED
      BY <2>1, <3>1 DEF InvWith, ArrivalIsWaiters, Fifo!IsWaiting, Waits
  <2> QED
    BY <2>2, <2>3, <2>4, <2>5 DEF LockMoves, Fifo!Next, Fifo!vars, Fifo!Acquire,
       Fifo!Enqueue, Fifo!Release, Fifo!HandOff
<1>3. Init => IInv
  BY InitInv, IInvHasWitnesses
<1>4. IInv /\ [Next]_vars => IInv'
  BY NextIInv
<1> QED
  BY <1>1, <1>2, <1>3, <1>4, PTL DEF Spec, FifoHandOver, Fifo!Spec
=============================================================================
