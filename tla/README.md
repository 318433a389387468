# A TLA+ model of minicoro

minicoro is a header-only C++20 library of coroutines: awaitables and the
operations behind them, combinators that wait for several of them, a lock-free
mutex, timers, generators, distributors and queues.  This directory holds its
specifications, the TLC configurations that check them on small instances,
and proofs, checked by TLAPS, that hold for every instance.

Every definition is translated from a range of source lines; `PROJECT.json`
gives the correspondence (`map`), the hazards, the findings and the mutants.

## 1. Inventory

| Component | State | Operations | What makes it correct |
|---|---|---|---|
| `awaitable`, `awaitable_result`, `coroutine` (coroutine.h) | `_state`, `_owner`, a union of value, exception, coroutine and callback; `_ptr` or `_target` of the operation | construct, move, `cancel`, destroy, `co_await`, `wait`, `set_callback`, `has_value`, `operator!`, `begin`; `set_value`, `set_exception`, `drop`, `wakeup`; `co_return`, finisher, destruction of the promise | an operation is started once; the waiter is resumed once, with what was delivered; nothing points to an awaitable that is gone |
| `awaiting_callback` | a callback and its own awaitable | create, `do_resume` | called once, deleted once |
| `prepared_coro`, `coro_frame`, `sync_frame`, `sync_await` | a handle; a signal | resume, drop (which resumes); wait | a handle is resumed once; a synchronous wait ends |
| `when_all` | `count`, `r` | `add`, `co_await`, `wait`, `reset`, destroy; `do_resume` by awaiters on any thread | the owner goes on when all awaiters are complete, and no later step touches the object |
| `when_each` | `_slots`, `_finished`, the counters `_free_slot`, `_nx`, `_cnt`, the handle `_r` | `add`, `co_await`, `wait`, destroy; `resumed` by awaiters on any thread | every completion is delivered once, the consumer is woken, no thread uses the object after its destruction |
| `coro_mutex` | `_requests` (atomic stack), `_queue`, slots in the awaitables of the waiters | `try_lock`, `lock`, `unlock` | exclusion, order of arrival, no lost waiter |
| `multi_lock`, `await_member_callback` | mutexes and their ownerships, the mutex to start with, a frame that is a member | `lock`, `lock_others`, `lock_complete`, `get_ownership` | holds nothing while it waits; ownerships and mutexes agree; locking ends |
| `generic_scheduler` | `_heap` | `schedule_at`, `remove_first`, `remove_by_ident`, `set_time` | a heap between calls; no result lost |
| `scheduler`, `alert_flag_type` | `_sch`, `_mx`, `_cv`, stop tokens, alert flags | `sleep_until`, `sleep_until_alertable`, `cancel`, `alert`, `run_thread`, `await`, `create_thread` | no worker oversleeps, sleeps end, alerts and stops are honoured |
| `manual_scheduler` | a `generic_scheduler` and a clock | `advance_time_until` | same as above, in one thread |
| `async_generator` | the promise: `_target`, `_param`, `_started` | `operator()`, `start`, `next`, `co_yield`, end, exception, destroy, iterator | no value lost or seen twice, every awaited request answered, no pointer to a cell of the client kept |
| `distributor` | `_results`, `_ready_to_run`, alert flags | register, `broadcast`, `kick_out`, `alert` | each registration is resolved once, by the next broadcast, a removal or an alert |
| `coro_queue`, `limited_queue` | ring buffer, waiting pushers and poppers | push, pop, close | bounded, nothing lost |
| `reusable_allocator`, `unlock_on_suspend` | a buffer; a lock | allocate; suspend | ownership |

The components interact through handles: an operation takes the `_owner` of
an awaitable and hands it out as a `prepared_coro`, and whoever destroys or
calls that object runs the waiting coroutine.  The mutex, the scheduler and the
combinators are callbacks or frames at the two ends of this mechanism, and the
difficulty is that the handle may be resumed on another thread before the call
that published it has returned.  The hard behaviours are: lock-free publication
(mutex, when_each, when_all), a condition variable whose waiters compute
their deadline before they wait (scheduler), stop tokens, operations that are
dropped or destroyed instead of completed, an array heap that is repaired
after removals from the middle, and code that runs inside of somebody else's call
because that call drops a handle (`multi_lock`, `distributor`).  `PROJECT.json` lists the hazards, each at its
line.

## 2. Modules

| Module | Models | Correspondence |
|---|---|---|
| `Awaitable` | awaitable, result, promise, callbacks, the reader frames | `state`, `owner` are `_state`, `_owner` of each variable; `target` is `_ptr` or `_target`; `prepared` is a `prepared_coro`; one action per operation |
| `AwaitableProofs` | | proofs |
| `FifoLock` | what a lock of coroutines promises | abstract specification |
| `CoroMutex` | `coro_mutex` | `requests`, `queue`, `next` are the pointers; one step per access to the atomic or iteration of `make_queue`; `pc` is the coroutine, `adder` the thread that executes `add_request` for it |
| `CoroMutexProofs` | | proofs, refinement of `FifoLock` included |
| `TimerQueue` | what the scheduler needs of its container | abstract specification |
| `SchedulerHeap` | `generic_scheduler` | the array, one step per loop iteration; refines `TimerQueue` |
| `Scheduler` | `scheduler`, alert flags, worker threads | critical sections are steps; `pc`, `until` are a worker in `run_thread`; `stop`, `notifying` the stop token and its callback |
| `SchedulerProofs` | | proofs about `SchedulerHeap` and `Scheduler` |
| `WhenAll`, `WhenEach` | the combinators | one step per access to an atomic or to the shared member that holds the waiter's handle; in `WhenEach`, `how` is how the request is made (`co_await`, `wait()`, or the `wait()` of the destructor), and a consumer that a dropped handle resumes is followed like any other, until it resumes a coroutine that is running (`undefined`) |
| `WhenAllProofs`, `WhenEachProofs` | | proofs |
| `Distributor` | `distributor`, alert flags | every function is a step, as it works under `_mx`; `broadcast(args)` is one step and then one per handle that `_ready_to_run.clear()` destroys (`pos`), and everybody else goes on meanwhile; `since`, `got`, `broadcasts` are history |
| `AsyncGenerator` | `async_generator`, `sync_frame`, `awaitable::wait` | `gen` is where the generator is suspended; `_target`, `_param`, `_started` are members of the promise; `cell` is the client's awaitables; `handle` is the client's handle between `wakeup()` and its resumption; `_signal`, `notifying` are the synchronous wait |
| `DistributorProofs`, `AsyncGeneratorProofs` | | proofs |
| `MultiLock` | `multi_lock`, `await_member_callback` | the object is a record of its members and of the locals of `lock` and `lock_others`; each `try_lock`, release and wait is a step; `caller` is the user in whose release its code is executed |
| `MultiLockProofs` | | proofs, use of every mutex as a `FifoLock` included |
| `MCCoroMutex`, `MCScheduler`, `MCSchedulerHeap`, `MCDistributor`, `MCMultiLock` | | constants and symmetry for TLC |

`Scheduler` uses the heap through the view of `TimerQueue`, a function from
sleepers to deadlines; `SchedulerHeap` shows that the array provides that view.
The operations of `manual_scheduler` that compile pass the call on to the same
container; what they do with its results is not modelled.  `MultiLock` composes
several mutexes, each seen as a `FifoLock`, which `CoroMutex` is proved to
implement; `UsesFifoLocks` says that it uses them as such.

Definitions described as *defective*, or as a *variant*, are forms of the operation that follows
them; no specification uses them.  Each stands for a plausible mistake and
violates one property, which shows that the property can be violated
(`mutants`).

Abstractions: values are reduced to the state of an awaitable, exceptions to
their presence; atomics are sequentially consistent, as most of them are in the
code (the relaxed ones are hazards with a note); the clock is a small number.

## 3. Runs

| Run | Constants | Shows |
|---|---|---|
| `awaitable` | two variables | `HandleHeldOnce`, `OperationHeldOnce`, `TargetIsLive`, `SeesDelivered`, `EveryWaitEnds` under every order of moves, starts, deliveries and destructions |
| `coro_mutex` | three clients, no overtaking | exclusion, list shape, `FifoHandOver` (refinement), `EveryWaiterServed` |
| `coro_mutex_race` | three clients, overtaking | **violated**: two owners, because line 147 tests a link that others may have rewritten |
| `scheduler_heap` | six sleepers, two identities, three times | `HeapBetweenCalls`, `ResultsKept`, `SetTimeReachesAll`, refinement of `TimerQueue` |
| `scheduler_await` | one thread in `await()`, two coroutines, alerts | `AlertsAreDue`, `StopIsHonoured` |
| `scheduler_threads` | two workers of `create_thread`, two coroutines, calls and stop requests from other threads | `NobodyOversleeps`, `EverySleepEnds` |
| `when_each` | four awaitables, one with a void `await_suspend`; `co_await`, `wait()` and destruction at any time | `DeliversOnce`, `ResultsRecorded`, `WakeUpOwed`, under every interleaving of the completions with `await_suspend`, and for a consumer that a left-over handle resumes; `NoUseAfterDestruction`, `AllDelivered` as long as no suspension was refused |
| `when_all` | four awaiters, one with a void `await_suspend`, three rounds | `JoinsAll`, `WaitEnds` |
| `distributor` | three coroutines, two idents, two broadcasts | `HeldOnce`, `GetsNextBroadcast`, `AlertedDoNotListen`, while a broadcast is being delivered and the coroutines it resumes register again |
| `async_generator` | two cells, four values | `NothingSkipped`, `WorksForRequest`, `EveryRequestAnswered`, with generators that wait, throw, end and are replaced and clients of both kinds |
| `multi_lock` | two objects that list three mutexes in different orders, one client, two uses each | `WaitsEmptyHanded`, `OwnershipsMatch`, `UsesFifoLocks` |
| `multi_lock_deadlock` | one object with two mutexes, a client that may hold both | **violated**: the object locks and releases the same mutex for ever, inside of the client's release |

Some configurations are kept for their counterexample only: the code does not have
the property, and the run that passes leaves the case out.

| Configuration | Module | Counterexample |
|---|---|---|
| `MCSchedulerStop.cfg` | `MCScheduler` | `StopIsHonoured`: the stop callback notifies without `_mx` (coro_scheduler.h:364), so that a stop between the test of line 366 and the wait of line 379 is lost |
| `MCSchedulerAlertable.cfg` | `MCScheduler` | `EverySleepEnds`: line 299 compares a time with an optional that is empty for the first sleeper, and notifies nobody |
| `MCWhenEachRace.cfg` | `WhenEach` | `UnusedOnceDestroyed`: the handle that a failed compare-exchange leaves in `_r` (coroutine.h:1861) is dropped, and resumed, by the next `await_suspend`; the consumer runs on with `_nx` raised although nothing is complete, and destroys the object while completions are pending. If that was the last result, the destruction of `_r` (line 1914) resumes the consumer that is running |
| `MCWhenEachSync.cfg` | `WhenEach` | `WaitReturns`: `sync_await` waits for the signal after a refused suspension (coroutine.h:2123) |
| `MCWhenAllVoid.cfg` | `WhenAll` | `JoinEnds`: `call_await_suspend` never calls an `await_suspend` that returns void (coroutine.h:309), although its doc (line 285) says so, and the awaiter is counted |
| `MCMultiLockHolds.cfg` | `MCMultiLock` | `HoldsAll`: the ownerships are locals of `lock` and `lock_others` (coro_mutex.h:238, 304) and are released when these return; "the object holds the ownership" (line 231) of one mutex at most |
| `MCDistributorReentrant.cfg` | `MCDistributor` | `HeldOnce`: a coroutine resumed by `broadcast(args)` that calls it again clears the same vector from its start (coro_distributor.h:92) |

The runs that pass exclude the case that is shown to be wrong by a
constant (`Overtaking`, `Alertable`, `Stopping`, `Reentrant`), or the property
names it: `WaitEnds` and `AllDelivered`, the awaiter whose void `await_suspend` is never called;
`NoUseAfterDestruction` and `AllDelivered`, the suspension that was `refused` because an
awaitable completed between the consumer's `await_ready()` and its compare-exchange.
They say what programs can rely on that do not meet that case; single-threaded programs
do not meet the races.  The other properties of `when_each` hold with refusals too.

Usage that `AsyncGenerator`, `Distributor` and `MultiLock` assume, since the code does not
test for it: the client
of a generator awaits one request at a time, the last it has made, a request of
`start()` only as the first, and destroys the generator only while it is at rest and
no request refers to it; a coroutine registers with a distributor under its own
alert flag (`alert` removes one entry only), and awaits its registration (one that is
dropped is started by its destructor and lists a result that nobody awaits,
coro_distributor.h:50-59); resolvers of `kick_out` return the handle
instead of resuming under the lock; a `multi_lock` is used again only when it has
been released, and has no null pointers in its list (`first`, line 281, might name
one).  The continuation of a coroutine that has locked runs on a thread of its own.

One disagreement of code and doc needs no run: `begin()` of a ready awaitable
without a value returns a pointer to a value (coroutine.h:2041), where the doc
(line 767) promises the end.

Bounds.  Three clients of the mutex are the smallest number for which a
reversal meets a queue of several and a concurrent push; six items make a heap
of three levels, in which the last item can go up as well as down when it
replaces another; equal deadlines and shared identities are included.  Two
workers and two coroutines are needed for a notification meant for one worker
to be consumed by another.  Clock bounds (`MaxTime`) leave room for a deadline
before and after another one and for the clock to go beyond both.  `MaxRounds`
allows for the reuse of a `when_all` object.  Three coroutines let a distributor
remove the first, a middle and the last entry; two broadcasts let the second come
while the first is being delivered.  Two cells let one request be dropped while
another is awaited, four values let a generator end and be replaced.  Two objects
and three mutexes make rollbacks from every position; two uses leave a `first` that is
not 0 to the second.  There are no other bounds: the other variables are finite by
themselves.

Deadlock is checked except for the scheduler, whose clock ends, for `MultiLock`, whose
uses end, and where a program may have nothing left to do.

Fairness.  `CoroMutex`: a thread in the middle of a call goes on, and an owner
releases the mutex (`ownership` does so in its destructor).  `Scheduler`: workers
and callbacks run, coroutines complete or sleep again, time passes; spurious
wake-ups are possible and never relied upon.  `WhenAll`, `WhenEach`: the owner
executes its program and awaiters complete.  `Awaitable`: a result object or a
promise that exists is eventually used or destroyed, each of which resolves the
awaitable, and a `prepared_coro` is resumed at the latest by its destructor.
`AsyncGenerator`: the waiter, the resumer and what the generator waits for make
progress, and a generator that runs again and again yields or ends in the end (strong
fairness: between two values it may suspend any number of times, but not for ever).
`MultiLock`, in the run of its counterexample: every thread goes on, and clients release
what they hold.

## 4. Proofs

All for any number of clients, workers, coroutines, awaiters and variables.

* `CoroMutexProofs` (assumes `~Overtaking`).  The inductive invariant is
  `TypeOK /\ ListsHoldWaiters`: there are a holder `h` and two numbers
  `m <= k <= Len(arrival)` such that the first `m` waiters, in order of arrival,
  are on the stack that `make_queue` has still to walk, the next `k - m` are the
  queue, and the rest is the stack of requests, each linked and terminated as
  the walking code expects.  Exclusion alone is not inductive: whether a new
  slot may take the mutex depends on what is at the bottom of the stack, and
  that on how the stack was taken.  Each action has a lemma that says how
  `(h, m, k)` change.  From it follow `Exclusion`, `LiveWalks`, `TypeCorrect` and
  `Refinement`: pushes map to `Enqueue`, hand-overs to `HandOff`, the rest to
  stuttering.
* `SchedulerProofs`, about `SchedulerHeap`, for heaps of any size.  That the array is a heap
  is not inductive: it is none while a loop runs.  `HeapInv` says how much of one it is
  (`Order`): a heap except that one item may be earlier than its parent while it moves up
  (`UpOrder`), or later than its children while it moves down (`DownOrder`), and that the
  children of that item are in order with its parent, which is what makes an exchange safe.
  `Results` says which item may be moved from and when, `Removal` what the end of a removal
  relies on (the last item is the one to pop, and the earliest), `Scan` that whatever is at
  or before the index of `set_time` has been dealt with.  Lemmas about functions of indices
  (`UpStep`, `DownStep`, `Update`, `PopOrder`, `RootMin`) carry the argument; `RootMin`, that
  the front is the earliest, takes the least index that contradicts it, which exists because
  `<` is well-founded.  Hence `HeapRestored`, `NoResultLost`, `AllReached` and
  `HeapTypeCorrect`.  `HeapRefinement` maps an iteration of the loops to stuttering,
  as it changes the order of the items and not the items (`SameItems`), and the first or last
  step of each removal or insertion, and each match of `set_time`, to its step of
  `TimerQueue`.
* `SchedulerProofs`, about `Scheduler`.  `SchedulerTypeCorrect` includes that a sleeper is suspended.
  `NoOversleeping` (assumes `~Alertable`) is inductive relative to it: whoever
  schedules before the first deadline notifies, whoever goes to wait reads the
  heap under the same lock.  `NoMissedAlert` needs no restriction.
* `WhenAllProofs`.  The invariant says that `count` is the number of awaiters that
  have not left `do_resume`, plus one while the owner has not arrived, and that
  `r` is set exactly while the owner waits; hence `Joins`.  It needs finite
  cardinalities, cited from `FiniteSetTheorems`.
* `AwaitableProofs`.  `IInv` adds to the four properties the phases of
  the operation (when there is a target, when a handle has been taken) and who
  can wait where.  `ResumedOnce` and `StartedOnce` are proved in a form without
  sets of places (`HandlesUnfolded`, `OperationUnfolded`) which `Folding` shows to
  imply the original one.  `LearnsDelivered` needs `SeesInv` beside it: the operation
  delivers to the one who asked, nobody but `get_temp_state` writes there before, and
  what a handle in a `prepared_coro` is about to read is what was delivered, although
  the consumer may move, cancel and destroy other variables until it is resumed.
* `WhenEachProofs`, for any number of awaitables, any of them with a void `await_suspend`.
  `WhenEachInv` says that the reserved places are distinct and `free_slot` of them
  (`Places`), what a place holds (`Slots`: the index of the one who has reserved it, or the
  mark of a consumer that is suspended at it), that whoever takes the handle has found
  that mark (`Takers`), and that the i-th result is what the i-th place holds
  (`Results`; a consumer resumed by a left-over handle may have read its place too early).
  `DeliveredOnce` and `DeliveredInOrder` follow because places are distinct, with refusals
  and without.  `SafeDestruction` is about the time until a suspension is refused, since
  after that it is false (`MCWhenEachRace.cfg`).  `NothingLeft` says that until then `_r` is
  empty unless the consumer is about to suspend or suspended, and that all places before
  `_nx` are filled; N results fill N places, which leaves no awaitable without one and no
  consumer for anybody to wake up.
* `DistributorProofs` (assume `~Reentrant`).  `HeldOnce` is not inductive: it counts,
  for each coroutine, the lists it is in.  `DistributorInv` says instead that no handle
  is in two entries of a list (`Distinct`), that the places exclude each other and cover
  all coroutines (`Places`), and that a flag in the list is the coroutine's own
  (`OwnFlag`, for alerts).  Lemmas say what the removal of an entry and the move of the
  whole list do to them; `Folding` counts at the end.
* `AsyncGeneratorProofs`.  `GeneratorInv` ties the client to the generator: only the
  target's cell is pending, a handle that was taken is that of a client that waits and has
  not been signalled, and the client lacks a value exactly when it has been answered and
  has not looked yet (`Delivery`).  `NoLostWakeUp` is the safety part of
  `EveryRequestAnswered`: a client that waits, also one between its test of the flag and
  its sleep, is owed a wake-up by a generator that works, the holder of its handle or the
  flag.
* `MultiLockProofs`, for any users and mutexes and any lists, also lists that name a mutex
  twice.  `Consistent` says which ownerships can hold something at which point of the code,
  `Matched` that they tell exactly which mutexes the object holds, `Queued` and
  `WaitersServed` that the queues are the waiters.  There is one lemma for each way to
  access a mutex (take, wait, release to a waiter, release to nobody), which the
  actions cite.  `Refinement` maps every step to a step of `FifoLock`, or none, for each
  mutex.

Only model-checked: the liveness properties (`EveryWaiterServed`,
`EverySleepEnds`, `StopIsHonoured`, `AllDelivered`, `WaitEnds`, `EveryWaitEnds`,
`EveryRequestAnswered`), since the provers have no rules for fairness, and the
counterexamples of section 3.

## 5. What is not modelled

* Memory orders weaker than sequential consistency, and lifetimes of objects
  below the granularity of a step (the memory of a `sync_frame` that is notified after
  its wait has returned, the closure of a callback, the stop state): see the hazards
  with a note.
* `coro_basic_queue::push` and `pop`, `manual_scheduler::advance_time_until` and
  `unlock_on_suspend` do not compile when they are instantiated; there is no
  behaviour to model.  `limited_queue` is only used by `coro_basic_queue`.
  `generator_agregator` is commented out.
* `reusable_allocator`: a cache of one buffer without concurrency; the allocation that
  throws is a hazard with a note.
* Destroying a coroutine that waits for an awaitable: the destructor throws, the
  program terminates (hazard at coroutine.h:662).
* What a program does once it has resumed a coroutine that is running, which is undefined
  (`WhenEach`, the left-over handle in `_r`).
* Contents of values, allocation of coroutine frames, the default handler of unhandled exceptions.

## 6. Plan

Done: the modules above, in the order `CoroMutex`, `Scheduler`, `WhenEach`,
`WhenAll`, `SchedulerHeap`, `Awaitable`, `Distributor`, `AsyncGenerator`, `MultiLock`, with
the proofs of section 4.  What is left of the source is in section 5.

Next, the safety part of liveness properties that are only model-checked, as
`NoLostWakeUp` is for `AsyncGenerator` and `WhenEach`: that a worker in `Scheduler` which
ought to wake up is owed a notification, and that a suspended consumer of `Awaitable` is
owed a resumption.
