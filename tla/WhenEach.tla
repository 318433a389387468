------------------------------ MODULE WhenEach ------------------------------
(***************************************************************************)
(* Class when_each of coroutine.h: a coroutine receives the indices of N   *)
(* awaitables in the order in which they complete, each by co_await or by  *)
(* wait(), which is sync_await.  It destroys the object at any time after  *)
(* a request; the destructor then waits for the results that are left.     *)
(*                                                                         *)
(* Each awaitable completes on a thread of its own.  A step makes one      *)
(* access to an atomic of the object, or one to its plain member _r;       *)
(* atomics are sequentially consistent.                                    *)
(***************************************************************************)
EXTENDS Naturals, Sequences

CONSTANTS
  N,          (* count: the number of awaitables                           *)
  Voids       (* those of them whose await_suspend returns void            *)

Indices == 0..(N - 1)

ASSUME WhenEachConstants == N \in Nat \ {0} /\ Voids \subseteq Indices

VARIABLES
  finished,   (* _finished: 0 free, 1 awaited, idx + 2 of a complete one   *)
  free_slot,  (* _free_slot                                                *)
  nx,         (* _nx                                                       *)
  r,          (* does _r hold the handle of the consumer?                  *)
  added,      (* the number of awaitables the constructor has registered   *)
  how,        (* how it makes its request: by co_await, by wait(), or by   *)
              (* the wait() of the destructor ("join")                     *)
  consumer,   (* where the consumer is; "undefined": it has resumed a      *)
              (* coroutine that is running, anything may follow            *)
  completer,  (* where the completion of each awaitable is                 *)
  wridx,      (* the local wridx of resumed() for each awaitable           *)
  delivered,  (* history: the results of co_await or wait()                *)
  refused     (* history: has await_suspend() refused to suspend?          *)

vars == <<finished, free_slot, nx, r, added, how, consumer, completer, wridx, delivered,
          refused>>

Init == /\ finished = [i \in Indices |-> 0]
        /\ free_slot = 0
        /\ nx = 0
        /\ r = FALSE
        /\ added = 0
        /\ how = "co_await"
        /\ consumer = "ctor"
        /\ completer = [a \in Indices |-> "new"]
        /\ wridx = [a \in Indices |-> 0]
        /\ delivered = <<>>
        /\ refused = FALSE

-----------------------------------------------------------------------------
(* The consumer                                                            *)

\* The constructor: the next awaitable is associated with its slot.  One that
\* is ready enters resumed() at once.  call_await_suspend() does not call an
\* await_suspend() that returns void, so that such an awaitable which is not
\* ready has nobody to resume.
add ==
  /\ consumer = "ctor"
  /\ added < N
  /\ \E l \in {"resumed", IF added \in Voids THEN "forgotten" ELSE "pending"} :
       completer' = [completer EXCEPT ![added] = l]
  /\ added' = added + 1
  /\ consumer' = IF added + 1 = N THEN "run" ELSE "ctor"
  /\ UNCHANGED <<finished, free_slot, nx, r, how, wridx, delivered,
                 refused>>

\* The consumer asks for the next result, or the destructor does, which asks
\* until there is none left: await_ready().
await_ready ==
  /\ consumer = "run"
  /\ nx < N
  /\ how' \in IF how = "join" THEN {"join"} ELSE {"co_await", "wait", "join"}
  /\ consumer' = IF finished[nx] # 0 THEN "resume" ELSE "store"
  /\ UNCHANGED <<finished, free_slot, nx, r, added, completer, wridx, delivered,
                 refused>>

\* await_suspend(), first line: the handle is stored in _r.  A handle that
\* _r still holds is dropped after that, and a dropped handle is resumed.  It
\* is that of the consumer, which a refused co_await has left: suspended in
\* another co_await, the consumer runs again inside of await_suspend(),
\* although nothing is complete; inside of wait(), it is running.
await_suspend_store ==
  /\ consumer = "store"
  /\ r' = TRUE
  /\ consumer' = IF ~r THEN "cas"
                 ELSE IF how = "co_await" THEN "resume" ELSE "undefined"
  /\ UNCHANGED <<finished, free_slot, nx, added, how, completer, wridx, delivered,
                 refused>>

\* A defective await_suspend that suspends whatever it finds.
await_suspend_always ==
  /\ consumer = "cas"
  /\ finished' = [finished EXCEPT ![nx] = 1]
  /\ consumer' = "suspended"
  /\ UNCHANGED <<free_slot, nx, r, added, how, completer, wridx, delivered,
                 refused>>

\* What a suspension that was refused leads to.  A coroutine goes on;
\* sync_await marks its frame as done and then waits for a signal that only
\* a resumption of that frame would give.
AfterRefusal == IF how = "co_await" THEN "resume" ELSE "waits_unsignalled"

\* await_suspend(), the compare-exchange.
await_suspend_cas ==
  /\ consumer = "cas"
  /\ \/ /\ finished[nx] = 0
        /\ finished' = [finished EXCEPT ![nx] = 1]
        /\ consumer' = "suspended"
        /\ UNCHANGED refused
     \/ /\ finished[nx] # 0
        /\ consumer' = AfterRefusal
        /\ refused' = TRUE
        /\ UNCHANGED finished
  /\ UNCHANGED <<free_slot, nx, r, added, how, completer, wridx, delivered>>

\* What await_resume() returns for the value v of a slot: v - 2, which is no
\* index when it wraps around zero.
Wrapped == N
ResultOf(v) == IF v >= 2 THEN v - 2 ELSE Wrapped

\* A defective await_resume that does not go on to the next place.
await_resume_stuck ==
  /\ consumer = "resume"
  /\ delivered' = Append(delivered, ResultOf(finished[nx]))
  /\ consumer' = "run"
  /\ UNCHANGED <<finished, free_slot, nx, r, added, how, completer, wridx, refused>>

\* await_resume(), which goes on whether or not the slot holds a result.
await_resume ==
  /\ consumer = "resume"
  /\ delivered' = Append(delivered, ResultOf(finished[nx]))
  /\ nx' = nx + 1
  /\ consumer' = "run"
  /\ UNCHANGED <<finished, free_slot, r, added, how, completer, wridx, refused>>

\* A defective destructor that does not join.
destroy_early ==
  /\ consumer = "run"
  /\ how' = "join"
  /\ consumer' = "destroy_r"
  /\ UNCHANGED <<finished, free_slot, nx, r, added, completer, wridx, delivered,
                 refused>>

\* The destructor has nothing left to wait for.
destroy ==
  /\ consumer = "run"
  /\ nx >= N
  /\ how' = "join"
  /\ consumer' = "destroy_r"
  /\ UNCHANGED <<finished, free_slot, nx, r, added, completer, wridx, delivered,
                 refused>>

\* The destruction of member _r, which resumes the handle that it holds: that
\* of the consumer, which is running.
destroy_r ==
  /\ consumer = "destroy_r"
  /\ r' = FALSE
  /\ consumer' = IF r THEN "undefined" ELSE "destroyed"
  /\ UNCHANGED <<finished, free_slot, nx, added, how, completer, wridx, delivered,
                 refused>>

-----------------------------------------------------------------------------
(* The completion of awaitable a                                           *)

complete(a) ==
  /\ completer[a] = "pending"
  /\ completer' = [completer EXCEPT ![a] = "resumed"]
  /\ UNCHANGED <<finished, free_slot, nx, r, added, how, consumer, wridx, delivered,
                 refused>>

\* A defective resumed() that increments before it takes the place.
resumed_preincrement(a) ==
  /\ completer[a] = "resumed"
  /\ wridx' = [wridx EXCEPT ![a] = free_slot + 1]
  /\ free_slot' = free_slot + 1
  /\ completer' = [completer EXCEPT ![a] = "exchange"]
  /\ UNCHANGED <<finished, nx, r, added, how, consumer, delivered, refused>>

\* resumed(): the next place in the order of completion is reserved.
resumed(a) ==
  /\ completer[a] = "resumed"
  /\ wridx' = [wridx EXCEPT ![a] = free_slot]
  /\ free_slot' = free_slot + 1
  /\ completer' = [completer EXCEPT ![a] = "exchange"]
  /\ UNCHANGED <<finished, nx, r, added, how, consumer, delivered, refused>>

\* A defective exchange that never finds somebody awaiting.
resumed_no_wakeup(a) ==
  /\ completer[a] = "exchange"
  /\ finished' = [finished EXCEPT ![wridx[a]] = a + 2]
  /\ completer' = [completer EXCEPT ![a] = "done"]
  /\ UNCHANGED <<free_slot, nx, r, added, how, consumer, wridx, delivered,
                 refused>>

\* The exchange publishes the result, and tells whether somebody awaits it.
resumed_exchange(a) ==
  /\ completer[a] = "exchange"
  /\ finished' = [finished EXCEPT ![wridx[a]] = a + 2]
  /\ completer' = [completer EXCEPT
                     ![a] = IF finished[wridx[a]] = 1 THEN "move_r" ELSE "done"]
  /\ UNCHANGED <<free_slot, nx, r, added, how, consumer, wridx, delivered,
                 refused>>

\* std::move(_r), and the consumer is resumed.
resumed_move_r(a) ==
  /\ completer[a] = "move_r"
  /\ r' = FALSE
  /\ consumer' = IF r THEN "resume" ELSE consumer
  /\ completer' = [completer EXCEPT ![a] = "done"]
  /\ UNCHANGED <<finished, free_slot, nx, added, how, wridx, delivered,
                 refused>>

-----------------------------------------------------------------------------

Consume == \/ add \/ await_ready \/ await_suspend_store \/ await_suspend_cas
           \/ await_resume \/ destroy \/ destroy_r

Complete(a) == complete(a) \/ resumed(a) \/ resumed_exchange(a) \/ resumed_move_r(a)

Next == Consume \/ \E a \in Indices : Complete(a)

Spec == Init /\ [][Next]_vars

\* The consumer keeps asking for results, or destroys the object, and every
\* awaitable completes.
FairSpec == Spec /\ WF_vars(Consume) /\ \A a \in Indices : WF_vars(Complete(a))

-----------------------------------------------------------------------------
(* Properties                                                              *)

\* The variables have their types; a reserved place is one of the N.
TypeOK ==
  /\ finished \in [Indices -> 0..(N + 1)]
  /\ free_slot \in 0..N
  /\ nx \in 0..N
  /\ r \in BOOLEAN
  /\ added \in 0..N
  /\ how \in {"co_await", "wait", "join"}
  /\ consumer \in {"ctor", "run", "store", "cas", "suspended", "resume",
                   "waits_unsignalled", "destroy_r", "destroyed", "undefined"}
  /\ completer \in [Indices -> {"new", "pending", "forgotten", "resumed", "exchange",
                                "move_r", "done"}]
  /\ wridx \in [Indices -> Indices]
  /\ delivered \in Seq(0..N)
  /\ refused \in BOOLEAN

\* Every awaitable that is delivered has completed, and none is delivered
\* twice, however the completions and the consumer interleave.
DeliversOnce ==
  /\ \A i \in DOMAIN delivered :
       delivered[i] # Wrapped => completer[delivered[i]] \in {"move_r", "done"}
  /\ \A i, j \in DOMAIN delivered :
       delivered[i] = delivered[j] /\ delivered[i] # Wrapped => i = j

\* The place of a completed awaitable keeps its index: no completion is lost
\* to another one, or to a consumer that marks the place as awaited.
ResultsRecorded ==
  \A a \in Indices : completer[a] \in {"move_r", "done"} => finished[wridx[a]] = a + 2

\* No wake-up is lost: while the consumer is suspended _r holds its handle,
\* and either its place is marked as awaited, or exactly one completion has
\* seen the mark and is about to take the handle.
WakeUpOwed ==
  LET takers == {a \in Indices : completer[a] = "move_r"}
  IN  consumer = "suspended" =>
        /\ r
        /\ finished[nx] = 1 <=> takers = {}
        /\ \A a, b \in takers : a = b

\* Once the object is destroyed nobody is going to use it: every completion
\* has left it, and _r holds no handle whose destruction resumes the consumer
\* that is running the destructor.
UnusedOnceDestroyed ==
  consumer \in {"destroy_r", "destroyed"} =>
    ~r /\ \A a \in Indices : completer[a] = "done"

\* That is so as long as await_suspend() has not refused: whichever way the
\* consumer asks, and whenever it leaves the rest to the destructor.
NoUseAfterDestruction == ~refused => UnusedOnceDestroyed

\* The object is destroyed in the end, with every awaitable delivered to the
\* consumer or to the destructor, unless await_suspend() has refused or an
\* awaitable has been left without a call of its await_suspend().
AllDelivered ==
  <>(\/ consumer = "destroyed" /\ {delivered[i] : i \in DOMAIN delivered} = Indices
     \/ refused
     \/ \E a \in Indices : completer[a] = "forgotten")

\* A consumer that asks for a result gets one.
WaitReturns == consumer \in {"store", "cas", "suspended", "waits_unsignalled"}
                 ~> consumer = "run"
=============================================================================
