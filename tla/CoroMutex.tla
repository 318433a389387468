----------------------------- MODULE CoroMutex ------------------------------
(***************************************************************************)
(* The lock-free mutex of coroutines, class coro_mutex of coro_mutex.h.    *)
(*                                                                         *)
(* A client is a coroutine (or a callback) that locks and releases the     *)
(* mutex.  A client that has to wait is suspended, and the slot that       *)
(* queues it lives in the awaitable it is suspended on: a slot is named by *)
(* its client.  Two activities belong to a client: the coroutine itself    *)
(* (pc), which calls lock() and unlock(), and the thread that suspended it *)
(* and is executing add_request() for its slot (adder).  They are separate *)
(* because a slot is published, and its coroutine may be resumed by        *)
(* another thread, before add_request() has returned.                      *)
(*                                                                         *)
(* A step makes one access to the shared atomic _requests, or one          *)
(* iteration of make_queue; everything else it does is private to its      *)
(* thread.  Atomics are sequentially consistent, as their default memory   *)
(* order is in the source.                                                 *)
(***************************************************************************)
EXTENDS Naturals, Sequences

CONSTANTS
  Clients,     (* the coroutines that use the mutex                         *)
  Null,        (* nullptr                                                   *)
  Doorman,     (* the address of the static slot coro_mutex::doorman        *)
  Dead,        (* content of a slot whose memory has been given to a result *)
  Overtaking   (* may other threads run between the publication of a slot   *)
               (* (line 145) and the test of its _next field (line 147)?    *)
               (* TRUE: preemptive threads.  FALSE: programs in which this  *)
               (* window is never hit, single-threaded ones among them.     *)

ASSUME PointersDistinct ==
  /\ {Null, Doorman, Dead} \cap Clients = {}
  /\ Null # Doorman /\ Null # Dead /\ Doorman # Dead

ASSUME OvertakingIsBoolean == Overtaking \in BOOLEAN

VARIABLES
  requests,  (* _requests: Null unlocked, Doorman locked, else newest slot  *)
  queue,     (* _queue: the slot to be served next, owned by the lock owner *)
  next,      (* slot::_next of each slot                                    *)
  pc,        (* where each client's coroutine is                            *)
  adder,     (* where the thread running add_request() for a slot is        *)
  aFrom,     (* make_queue's "from" in add_request() of each slot           *)
  uFrom,     (* make_queue's "from" in unlock() of each client              *)
  arrival    (* history: the published slots not yet served, oldest first   *)

vars == <<requests, queue, next, pc, adder, aFrom, uFrom, arrival>>

Pointers == Clients \cup {Null, Doorman}

PCs == {"idle",         (* does not use the mutex                           *)
        "pending",      (* holds an awaitable of lock() that is not ready   *)
        "suspended",    (* co_awaits the awaitable                          *)
        "owns",         (* owns the mutex                                   *)
        "u_exchange",   (* in unlock(), found requests, before line 191     *)
        "u_make_queue"} (* in unlock(), in make_queue                       *)

Adders == {"none", "cas", "check", "exchange", "make_queue"}

Init == /\ requests = Null
        /\ queue = Null
        /\ next = [c \in Clients |-> Dead]
        /\ pc = [c \in Clients |-> "idle"]
        /\ adder = [c \in Clients |-> "none"]
        /\ aFrom = [c \in Clients |-> Null]
        /\ uFrom = [c \in Clients |-> Null]
        /\ arrival = <<>>

-----------------------------------------------------------------------------
(* Locking without waiting                                                 *)

\* A defective try_lock that takes the mutex whatever its state (a store in
\* the place of the compare-exchange).
try_lock_unconditional(c) ==
  /\ requests' = Doorman
  /\ pc' = [pc EXCEPT ![c] = "owns"]

\* try_lock(): the compare-exchange of nullptr by the doorman succeeds.  A
\* try_lock() that fails returns an empty ownership and changes nothing.
try_lock(c) ==
  /\ requests = Null
  /\ requests' = Doorman
  /\ pc' = [pc EXCEPT ![c] = "owns"]

\* lock() returns an ownership, or an awaitable that is not ready.
lock(c) ==
  /\ pc[c] = "idle"
  /\ \/ try_lock(c)
     \/ /\ requests # Null
        /\ pc' = [pc EXCEPT ![c] = "pending"]
        /\ UNCHANGED requests
  /\ UNCHANGED <<queue, next, adder, aFrom, uFrom, arrival>>

\* The awaitable is destroyed or cancelled instead of awaited: its callback
\* gets an empty result, finds no temporary state and gives up.
discard(c) ==
  /\ pc[c] = "pending"
  /\ pc' = [pc EXCEPT ![c] = "idle"]
  /\ UNCHANGED <<requests, queue, next, adder, aFrom, uFrom, arrival>>

\* The client suspends on the awaitable; its slot is set up.  (A client
\* starts a new wait after its previous add_request() has returned.)
co_await(c) ==
  /\ pc[c] = "pending"
  /\ adder[c] = "none"
  /\ next' = [next EXCEPT ![c] = Null]
  /\ pc' = [pc EXCEPT ![c] = "suspended"]
  /\ adder' = [adder EXCEPT ![c] = "cas"]
  /\ UNCHANGED <<requests, queue, aFrom, uFrom, arrival>>

-----------------------------------------------------------------------------
(* Handing the mutex over                                                  *)

\* resume_slot: the result of the slot's awaitable is set to an ownership,
\* which is constructed in the memory of the slot, and its coroutine runs.
\* pcs is the pc function of the step that resumes the slot.
resume_slot(s, pcs) ==
  /\ pc' = [pcs EXCEPT ![s] = "owns"]
  /\ next' = [next EXCEPT ![s] = Dead]

\* One iteration of the loop of make_queue on the slot f, which moves it
\* from the stack it is walking to the front of the queue.
make_queue(f) ==
  /\ next' = [next EXCEPT ![f] = queue]
  /\ queue' = f

-----------------------------------------------------------------------------
(* Waiting: add_request() of the slot of c                                 *)

\* One compare-exchange of the loop.  On success the slot is the newest
\* request, or the only one of a mutex that was free; on failure _next
\* receives the value that was found.
add_request_cas(c) ==
  /\ adder[c] = "cas"
  /\ \/ /\ requests = next[c]
        /\ requests' = c
        /\ adder' = [adder EXCEPT ![c] = "check"]
        /\ arrival' = IF next[c] = Null THEN arrival ELSE Append(arrival, c)
        /\ UNCHANGED next
     \/ /\ requests # next[c]
        /\ next' = [next EXCEPT ![c] = requests]
        /\ UNCHANGED <<requests, adder, arrival>>
  /\ UNCHANGED <<queue, pc, aFrom, uFrom>>

\* The test of s->_next.  The field is read after the slot is published, so
\* the value may have been replaced by the walk of another thread, or be
\* what a result left in its memory: nullptr or not.
add_request_check(c) ==
  /\ adder[c] = "check"
  /\ \/ /\ next[c] \in {Null, Dead}
        /\ adder' = [adder EXCEPT ![c] = "exchange"]
     \/ /\ next[c] # Null
        /\ adder' = [adder EXCEPT ![c] = "none"]
  /\ UNCHANGED <<requests, queue, next, pc, aFrom, uFrom, arrival>>

\* First in line: put the doorman at the bottom, take what was pushed above.
add_request_exchange(c) ==
  /\ adder[c] = "exchange"
  /\ aFrom' = [aFrom EXCEPT ![c] = requests]
  /\ requests' = Doorman
  /\ adder' = [adder EXCEPT ![c] = "make_queue"]
  /\ UNCHANGED <<queue, next, pc, uFrom, arrival>>

\* make_queue(requests, s), then resume_slot(s).
add_request_make_queue(c) ==
  /\ adder[c] = "make_queue"
  /\ \/ /\ aFrom[c] # c
        /\ aFrom[c] \in Clients
        /\ make_queue(aFrom[c])
        /\ aFrom' = [aFrom EXCEPT ![c] = next[aFrom[c]]]
        /\ UNCHANGED <<pc, adder>>
     \/ /\ aFrom[c] = c
        /\ resume_slot(c, pc)
        /\ adder' = [adder EXCEPT ![c] = "none"]
        /\ UNCHANGED <<queue, aFrom>>
  /\ UNCHANGED <<requests, uFrom, arrival>>

-----------------------------------------------------------------------------
(* Releasing: unlock() by the owner c, from release() or ~ownership()      *)

\* A defective hand-over that drops the rest of the queue.
unlock_pick_last(c) ==
  /\ resume_slot(queue, [pc EXCEPT ![c] = "idle"])
  /\ queue' = Null
  /\ arrival' = Tail(arrival)
  /\ UNCHANGED <<requests, adder, aFrom, uFrom>>

\* A defective hand-over that does not advance the queue.
unlock_pick_stuck(c) ==
  /\ resume_slot(queue, [pc EXCEPT ![c] = "idle"])
  /\ arrival' = Tail(arrival)
  /\ UNCHANGED <<requests, queue, adder, aFrom, uFrom>>

\* The first slot of the queue receives the mutex.
unlock_pick(c) ==
  /\ resume_slot(queue, [pc EXCEPT ![c] = "idle"])
  /\ queue' = next[queue]
  /\ arrival' = Tail(arrival)
  /\ UNCHANGED <<requests, adder, aFrom, uFrom>>

\* A defective unlock that frees the mutex without looking for requests.
unlock_store(c) ==
  /\ pc[c] = "owns"
  /\ \/ queue # Null /\ unlock_pick(c)
     \/ /\ queue = Null
        /\ requests' = Null
        /\ pc' = [pc EXCEPT ![c] = "idle"]
        /\ UNCHANGED <<queue, next, adder, aFrom, uFrom, arrival>>

\* A defective unlock that looks at the requests although there is a queue.
unlock_eager(c) ==
  /\ pc[c] = "owns"
  /\ \/ requests = Doorman /\ queue # Null /\ unlock_pick(c)
     \/ /\ requests = Doorman
        /\ queue = Null
        /\ requests' = Null
        /\ pc' = [pc EXCEPT ![c] = "idle"]
        /\ UNCHANGED <<queue, next, adder, aFrom, uFrom, arrival>>
     \/ /\ requests # Doorman
        /\ pc' = [pc EXCEPT ![c] = "u_exchange"]
        /\ UNCHANGED <<requests, queue, next, adder, aFrom, uFrom, arrival>>

\* With a queue, its first slot is served.  Without one, the mutex is freed
\* if the doorman is alone, else the requests are taken.
unlock(c) ==
  /\ pc[c] = "owns"
  /\ \/ queue # Null /\ unlock_pick(c)
     \/ /\ queue = Null
        /\ requests = Doorman
        /\ requests' = Null
        /\ pc' = [pc EXCEPT ![c] = "idle"]
        /\ UNCHANGED <<queue, next, adder, aFrom, uFrom, arrival>>
     \/ /\ queue = Null
        /\ requests # Doorman
        /\ pc' = [pc EXCEPT ![c] = "u_exchange"]
        /\ UNCHANGED <<requests, queue, next, adder, aFrom, uFrom, arrival>>

unlock_exchange(c) ==
  /\ pc[c] = "u_exchange"
  /\ uFrom' = [uFrom EXCEPT ![c] = requests]
  /\ requests' = Doorman
  /\ pc' = [pc EXCEPT ![c] = "u_make_queue"]
  /\ UNCHANGED <<queue, next, adder, aFrom, arrival>>

\* A defective walk that expects nullptr at the bottom of the stack.
unlock_make_queue_to_null(c) ==
  /\ pc[c] = "u_make_queue"
  /\ \/ /\ uFrom[c] # Null
        /\ queue' = uFrom[c]
        /\ next' = [next EXCEPT ![uFrom[c]] = queue]
        /\ uFrom' = [uFrom EXCEPT ![c] = IF @ = Doorman THEN Null ELSE next[@]]
        /\ UNCHANGED <<requests, pc, adder, aFrom, arrival>>
     \/ uFrom[c] = Null /\ unlock_pick(c)

\* make_queue(requests, doorman), then the hand-over.
unlock_make_queue(c) ==
  /\ pc[c] = "u_make_queue"
  /\ \/ /\ uFrom[c] # Doorman
        /\ uFrom[c] \in Clients
        /\ make_queue(uFrom[c])
        /\ uFrom' = [uFrom EXCEPT ![c] = next[uFrom[c]]]
        /\ UNCHANGED <<requests, pc, adder, aFrom, arrival>>
     \/ /\ uFrom[c] = Doorman
        /\ queue \in Clients
        /\ unlock_pick(c)

-----------------------------------------------------------------------------

\* Steps the program must take once it is in the middle of a call, and the
\* release by an owner, which does not keep the mutex for ever.
Progress(c) ==
  \/ add_request_cas(c)
  \/ add_request_check(c)
  \/ add_request_exchange(c)
  \/ add_request_make_queue(c)
  \/ unlock(c)
  \/ unlock_exchange(c)
  \/ unlock_make_queue(c)

\* Without overtaking, a thread inside the window of lines 145 to 147 is the
\* only one that runs.
MayRun(c) == Overtaking \/ \A d \in Clients \ {c} : adder[d] # "check"

Step(c) == MayRun(c) /\ (lock(c) \/ discard(c) \/ co_await(c) \/ Progress(c))

Next == \E c \in Clients : Step(c)

Spec == Init /\ [][Next]_vars

FairSpec == Spec /\ \A c \in Clients : WF_vars(MayRun(c) /\ Progress(c))

-----------------------------------------------------------------------------
(* Properties                                                              *)

\* The variables hold what their declarations in the code allow: _requests is
\* never a dangling slot, and _queue is never the doorman.
TypeOK ==
  /\ requests \in Pointers
  /\ queue \in Clients \cup {Null}
  /\ next \in [Clients -> Pointers \cup {Dead}]
  /\ pc \in [Clients -> PCs]
  /\ adder \in [Clients -> Adders]
  /\ aFrom \in [Clients -> Pointers]
  /\ uFrom \in [Clients -> Pointers]
  /\ arrival \in Seq(Clients)

\* c's coroutine owns the mutex, or is releasing it.
Owns(c) == pc[c] \in {"owns", "u_exchange", "u_make_queue"}

\* A thread executes lines 148 to 152 of add_request() for c, which only the
\* owner of the mutex may do.
InOwnersPart(c) == adder[c] \in {"exchange", "make_queue"}

\* The slot of c has locked a free mutex: add_request() has found, or is
\* about to find, that it is the first one.
AddsFirst(c) == \/ adder[c] = "exchange"
                \/ adder[c] = "check" /\ next[c] = Null

\* The mutex is locked by c, or by a thread on its behalf.
Holds(c) == Owns(c) \/ AddsFirst(c) \/ adder[c] = "make_queue"

\* c's slot is published and waits to be served.
Waits(c) == /\ pc[c] = "suspended"
            /\ \/ adder[c] = "none"
               \/ adder[c] = "check" /\ next[c] # Null

\* At most one activity owns the mutex: neither two coroutines, nor two
\* threads in the part of add_request() that relies on ownership, nor a
\* coroutine and the thread that suspended it.
MutualExclusion ==
  /\ \A c, d \in Clients : /\ Owns(c) \/ InOwnersPart(c)
                           /\ Owns(d) \/ InOwnersPart(d)
                           => c = d
  /\ \A c \in Clients : ~(Owns(c) /\ InOwnersPart(c))

\* make_queue and unlock follow _next fields that other threads wrote.  They
\* only ever arrive at slots whose client still waits: never at memory that
\* a result occupies, at nullptr, or past the doorman.
LiveSlot(p) == p \in Clients /\ Waits(p)

WalksLiveSlots ==
  /\ queue # Null => LiveSlot(queue)
  /\ \A c \in Clients :
       /\ adder[c] = "make_queue" => aFrom[c] = c \/ LiveSlot(aFrom[c])
       /\ pc[c] = "u_make_queue" =>
            \/ LiveSlot(uFrom[c])
            \/ uFrom[c] = Doorman /\ queue # Null

\* coro_mutex is a fair lock of its clients: the one that published its slot
\* first is served first, and a mutex that has waiters is never free.
Fifo == INSTANCE FifoLock
          WITH owner <- IF \E c \in Clients : Holds(c)
                        THEN CHOOSE c \in Clients : Holds(c) ELSE Null,
               waiters <- arrival

FifoHandOver == Fifo!Spec

\* No lost wake-up: a published slot is eventually served, if every owner
\* eventually releases the mutex.
EveryWaiterServed == \A c \in Clients : Waits(c) ~> Owns(c)

-----------------------------------------------------------------------------
(* The shape of the linked lists                                           *)
(*                                                                         *)
(* The waiting slots, oldest first, are arrival[1..n].  The first m of     *)
(* them are on the stack a running make_queue has still to walk, the next  *)
(* k - m are the queue, the rest is the stack of requests.  h holds the    *)
(* mutex; h = Null when nobody does.                                       *)

\* What lies at the bottom of the stack of requests.
Bottom(h) == IF h = Null THEN Null ELSE IF AddsFirst(h) THEN h ELSE Doorman

StackIs(k, b) ==
  LET n == Len(arrival)
  IN  /\ requests = IF k < n THEN arrival[n] ELSE b
      /\ \A i \in (k + 1)..n :
           next[arrival[i]] = IF i = k + 1 THEN b ELSE arrival[i - 1]

QueueIs(m, k) ==
  /\ queue = IF m < k THEN arrival[m + 1] ELSE Null
  /\ \A i \in (m + 1)..k :
       next[arrival[i]] = IF i = k THEN Null ELSE arrival[i + 1]

Walks(h) == h # Null /\ (adder[h] = "make_queue" \/ pc[h] = "u_make_queue")
WalkTo(h) == IF adder[h] = "make_queue" THEN h ELSE Doorman
WalkFrom(h) == IF adder[h] = "make_queue" THEN aFrom[h] ELSE uFrom[h]

WalkIs(h, m) ==
  /\ ~Walks(h) => m = 0
  /\ Walks(h) => WalkFrom(h) = IF m = 0 THEN WalkTo(h) ELSE arrival[m]
  /\ \A i \in 1..m :
       next[arrival[i]] = IF i = 1 THEN WalkTo(h) ELSE arrival[i - 1]

\* How far the queue can be built in each phase of the holder.
PhaseIs(h, k) ==
  /\ h = Null => arrival = <<>>
  /\ h # Null => /\ AddsFirst(h) => k = 0
                 /\ pc[h] = "u_exchange" => k = 0 /\ arrival # <<>>
                 /\ pc[h] = "u_make_queue" => k > 0

\* arrival lists the waiting clients, each once.
ArrivalIsWaiters ==
  /\ \A c \in Clients :
       Waits(c) <=> \E i \in 1..Len(arrival) : arrival[i] = c
  /\ \A i, j \in 1..Len(arrival) : arrival[i] = arrival[j] => i = j

\* A client whose add_request() has not returned is still suspended, and at
\* most one thread is between the publication of its slot and the test.
AddersSuspended ==
  /\ \A c \in Clients : adder[c] # "none" => pc[c] = "suspended"
  /\ \A c, d \in Clients : adder[c] = "check" /\ adder[d] = "check" => c = d
  /\ \A c \in Clients : adder[c] = "cas" => next[c] # Dead

Shape(h, m, k) ==
  /\ m <= k /\ k <= Len(arrival)
  /\ \A c \in Clients : Holds(c) <=> c = h
  /\ StackIs(k, Bottom(h))
  /\ QueueIs(m, k)
  /\ WalkIs(h, m)
  /\ PhaseIs(h, k)

\* The stack of requests, the queue and the stack under a running make_queue
\* together hold every waiting slot exactly once, linked in the order of
\* arrival, and end where the code that walks them expects it: no slot is
\* lost or linked twice by the concurrent pushes, exchanges and reversals.
ListsHoldWaiters ==
  /\ ArrivalIsWaiters
  /\ AddersSuspended
  /\ \E h \in Clients \cup {Null}, m, k \in 0..Len(arrival) : Shape(h, m, k)
=============================================================================
