----------------------------- MODULE Scheduler ------------------------------
(***************************************************************************)
(* Class scheduler of coro_scheduler.h: coroutines that sleep until a time *)
(* point, and threads that wait on a condition variable for the first of   *)
(* them to be due.                                                         *)
(*                                                                         *)
(* The heap of generic_scheduler is a function here, from the sleeping     *)
(* coroutines to their deadlines (its array is module SchedulerHeap).  A   *)
(* function of the class that holds the mutex throughout is one step; a    *)
(* worker, which keeps the mutex between steps of run_thread, has a pc.    *)
(***************************************************************************)
EXTENDS Naturals, FiniteSets

CONSTANTS
  Coros,      (* the coroutines                                            *)
  Workers,    (* the threads that call run_thread                          *)
  Outer,      (* stands for every thread that is not a worker              *)
  Awaited,    (* Awaited[w]: the coroutine w passes to scheduler::await,   *)
              (* or Nobody for a worker of create_thread                   *)
  Nobody,     (* no thread, no coroutine                                   *)
  Threaded,   (* may coroutines and calls come from Outer threads?         *)
  Alertable,  (* may coroutines call sleep_until_alertable?                *)
  Stopping,   (* may Outer threads request workers of create_thread to     *)
              (* stop, as the destructor of std::jthread does?             *)
  MaxTime     (* bound on the clock                                        *)

ASSUME SchedulerConstants ==
  /\ MaxTime \in Nat \ {0}
  /\ Awaited \in [Workers -> Coros \cup {Nobody}]
  /\ {Threaded, Alertable, Stopping} \subseteq BOOLEAN
  /\ Coros \cap Workers = {} /\ {Outer, Nobody} \cap (Coros \cup Workers) = {}
  /\ Outer # Nobody

VARIABLES
  now,      (* the system clock                                            *)
  deadline, (* _sch: the deadline of each sleeping coroutine, else Awake   *)
  alerted,  (* the alert flag of each coroutine                            *)
  onAlert,  (* the coroutines whose sleep can be alerted (by ident)        *)
  host,     (* the thread each coroutine runs on, Nobody when it does not  *)
  ended,    (* the coroutines that have completed                          *)
  mx,       (* the worker that has _mx locked, or Nobody                   *)
  pc,       (* where each worker is in run_thread                          *)
  until,    (* what each waiting worker waits for: a time, or Forever      *)
  stop,     (* the workers whose stop token has been signalled             *)
  notifying (* the workers whose stop callback has yet to notify           *)

coVars == <<deadline, alerted, onAlert, host, ended>>
vars == <<now, deadline, alerted, onAlert, host, ended, mx, pc, until, stop, notifying>>

Awake == MaxTime + 1    (* the deadline of a coroutine that is not asleep  *)
Forever == MaxTime + 1  (* the deadline of an untimed wait                 *)

Sleeping == {s \in Coros : deadline[s] # Awake}
Running == {s \in Coros : host[s] # Nobody}

\* s is a top of the heap: get_first_scheduled_time() is its deadline.
IsFirst(s) == s \in Sleeping /\ \A q \in Sleeping : deadline[s] <= deadline[q]

\* tp comes before every deadline in the heap, which may be empty.
BeforeAll(tp) == \A s \in Sleeping : tp < deadline[s]

\* Initially every coroutine runs: on the thread that is about to await one
\* of them, or on threads of their own.
Init == /\ now = 0
        /\ deadline = [s \in Coros |-> Awake]
        /\ alerted = [s \in Coros |-> FALSE]
        /\ onAlert = {}
        /\ host \in [Coros -> IF Threaded THEN {Outer}
                              ELSE {w \in Workers : Awaited[w] # Nobody}]
        /\ ended = {}
        /\ mx = Nobody
        /\ pc = [w \in Workers |-> "start"]
        /\ until = [w \in Workers |-> Forever]
        /\ stop = {}
        /\ notifying = {}

-----------------------------------------------------------------------------
(* The condition variable                                                  *)

\* _cv.notify_all(): every waiting worker goes for the mutex.
notify_all == pc' = [w \in Workers |-> IF pc[w] = "wait" THEN "relock" ELSE pc[w]]

notify_none == UNCHANGED pc

-----------------------------------------------------------------------------
(* Sleeping                                                                *)

\* _sch.schedule_at(): the coroutine is suspended, its result is in the heap.
sch_schedule_at(s, tp) ==
  /\ deadline' = [deadline EXCEPT ![s] = tp]
  /\ host' = [host EXCEPT ![s] = Nobody]

\* A defective sleep_until that does not notify when it adds the first item.
sleep_until_quiet(s, tp) ==
  /\ host[s] # Nobody /\ mx = Nobody
  /\ IF Sleeping # {} /\ BeforeAll(tp) THEN notify_all ELSE notify_none
  /\ sch_schedule_at(s, tp)
  /\ onAlert' = onAlert \ {s}
  /\ UNCHANGED <<now, alerted, ended, mx, until, stop, notifying>>

\* sleep_until(tp): a worker that waits for something later is notified.
sleep_until(s, tp) ==
  /\ host[s] # Nobody /\ mx = Nobody
  /\ IF BeforeAll(tp) THEN notify_all ELSE notify_none
  /\ sch_schedule_at(s, tp)
  /\ onAlert' = onAlert \ {s}
  /\ UNCHANGED <<now, alerted, ended, mx, until, stop, notifying>>

\* sleep_until_alertable(flag, tp).  With the flag set the awaitable is
\* resolved at once.  The comparison of tp with the empty optional of an
\* empty heap is false, and nobody is notified.
sleep_until_alertable(s, tp) ==
  /\ Alertable
  /\ host[s] # Nobody /\ mx = Nobody
  /\ ~alerted[s]
  /\ IF Sleeping # {} /\ BeforeAll(tp) THEN notify_all ELSE notify_none
  /\ sch_schedule_at(s, tp)
  /\ onAlert' = onAlert \cup {s}
  /\ UNCHANGED <<now, alerted, ended, mx, until, stop, notifying>>

\* flag.test_and_reset() by the coroutine, as in the loop of the test
\* scheduler_cycle.
test_and_reset(s) ==
  /\ host[s] # Nobody
  /\ alerted[s]
  /\ alerted' = [alerted EXCEPT ![s] = FALSE]
  /\ UNCHANGED <<now, deadline, onAlert, host, ended, mx, pc, until, stop, notifying>>

\* The coroutine completes.  If a worker awaits it, its completion resumes a
\* stop_source_coro_frame: the stop token is signalled, and then the stop
\* callback of run_thread, if it is registered, runs on this thread.
complete(s) ==
  /\ host[s] # Nobody
  /\ host' = [host EXCEPT ![s] = Nobody]
  /\ ended' = ended \cup {s}
  /\ LET ws == {w \in Workers : Awaited[w] = s /\ pc[w] # "start"}
     IN  /\ stop' = stop \cup ws
         /\ notifying' = notifying \cup ws
  /\ UNCHANGED <<now, deadline, alerted, onAlert, mx, pc, until>>

-----------------------------------------------------------------------------
(* Calls from any thread t that runs code of the program                   *)

Threads == {host[s] : s \in Running} \cup (IF Threaded THEN {Outer} ELSE {})

\* A defective cancel() that resumes the sleeper and leaves it in the heap.
cancel_keep(t, s) ==
  /\ mx = Nobody
  /\ s \in Sleeping
  /\ host' = [host EXCEPT ![s] = t]
  /\ UNCHANGED <<now, deadline, alerted, onAlert, ended, mx, pc, until, stop, notifying>>

\* _sch.remove_by_ident(), or remove_first(): the sleeper leaves the heap.
sch_remove_by_ident(s) ==
  /\ mx = Nobody
  /\ s \in Sleeping
  /\ deadline' = [deadline EXCEPT ![s] = Awake]

\* cancel(ident): the result of the sleeper is set, and whoever called
\* resumes it.
cancel(t, s) ==
  /\ sch_remove_by_ident(s)
  /\ host' = [host EXCEPT ![s] = t]
  /\ UNCHANGED <<now, alerted, onAlert, ended, mx, pc, until, stop, notifying>>

\* A defective alert() that sets the flag and leaves the sleeper in place.
alert_flag_only(s) ==
  /\ mx = Nobody
  /\ now < MaxTime
  /\ alerted' = [alerted EXCEPT ![s] = TRUE]
  /\ notify_all
  /\ UNCHANGED <<now, deadline, onAlert, host, ended, mx, until, stop, notifying>>

\* alert(flag): the flag is set, a sleep that depends on it is due now.
\* (MaxTime bounds the clock, which has to go beyond that time.)
alert(s) ==
  /\ mx = Nobody
  /\ now < MaxTime
  /\ alerted' = [alerted EXCEPT ![s] = TRUE]
  /\ deadline' = IF s \in Sleeping \cap onAlert
                 THEN [deadline EXCEPT ![s] = now] ELSE deadline
  /\ notify_all
  /\ UNCHANGED <<now, onAlert, host, ended, mx, until, stop, notifying>>

\* request_stop() of the token of a worker of create_thread.  A token that
\* is signalled before run_thread has registered its callback makes the
\* registration run it.
request_stop(w) ==
  /\ Stopping
  /\ Awaited[w] = Nobody
  /\ w \notin stop
  /\ stop' = stop \cup {w}
  /\ notifying' = IF pc[w] = "start" THEN notifying ELSE notifying \cup {w}
  /\ UNCHANGED <<now, deadline, alerted, onAlert, host, ended, mx, pc, until>>

\* The stop callback.  It does not lock the mutex.
stop_callback(w) ==
  /\ w \in notifying
  /\ notifying' = notifying \ {w}
  /\ notify_all
  /\ UNCHANGED <<now, deadline, alerted, onAlert, host, ended, mx, until, stop>>

-----------------------------------------------------------------------------
(* run_thread                                                              *)

Idle(w) == \A s \in Coros : host[s] # w

Goto(w, l) == pc' = [pc EXCEPT ![w] = l]

\* The thread starts: await() returns at once if its coroutine has ended,
\* else run_thread locks the mutex and registers the stop callback.
start(w) ==
  /\ pc[w] = "start"
  /\ Idle(w)
  /\ \/ /\ Awaited[w] \in ended
        /\ Goto(w, "done")
        /\ UNCHANGED mx
     \/ /\ Awaited[w] \notin ended
        /\ mx = Nobody
        /\ mx' = w
        /\ pc' = [v \in Workers |->
                    IF v = w THEN "loop"
                    ELSE IF pc[v] = "wait" /\ w \in stop THEN "relock" ELSE pc[v]]
  /\ UNCHANGED <<now, deadline, alerted, onAlert, host, ended, until, stop, notifying>>

\* The test of the stop token.  On return the destructor of the callback
\* waits for a callback that is being called by another thread.
loop(w) ==
  /\ pc[w] = "loop"
  /\ \/ /\ w \in stop
        /\ w \notin notifying
        /\ Goto(w, "done")
        /\ mx' = Nobody
     \/ /\ w \notin stop
        /\ Goto(w, "decide")
        /\ UNCHANGED mx
  /\ UNCHANGED <<now, deadline, alerted, onAlert, host, ended, until, stop, notifying>>

\* remove_first(), unlock, and the executor resumes the coroutine here.
execute_first(w) ==
  /\ pc[w] = "decide"
  /\ \E s \in Coros :
       /\ IsFirst(s)
       /\ now > deadline[s]
       /\ deadline' = [deadline EXCEPT ![s] = Awake]
       /\ host' = [host EXCEPT ![s] = w]
  /\ mx' = Nobody
  /\ Goto(w, "execute")
  /\ UNCHANGED <<now, alerted, onAlert, ended, until, stop, notifying>>

\* A defective wait that always waits for a notification.
wait_untimed(w) ==
  /\ pc[w] = "decide"
  /\ \A s \in Sleeping : now <= deadline[s]
  /\ until' = [until EXCEPT ![w] = Forever]
  /\ mx' = Nobody
  /\ Goto(w, "wait")
  /\ UNCHANGED <<now, deadline, alerted, onAlert, host, ended, stop, notifying>>

\* wait_until the first deadline, or wait if there is none.
wait(w) ==
  /\ pc[w] = "decide"
  /\ \/ /\ Sleeping = {}
        /\ until' = [until EXCEPT ![w] = Forever]
     \/ \E s \in Coros : /\ IsFirst(s)
                         /\ now <= deadline[s]
                         /\ until' = [until EXCEPT ![w] = deadline[s]]
  /\ mx' = Nobody
  /\ Goto(w, "wait")
  /\ UNCHANGED <<now, deadline, alerted, onAlert, host, ended, stop, notifying>>

timeout(w) ==
  /\ pc[w] = "wait"
  /\ until[w] <= now
  /\ Goto(w, "relock")
  /\ UNCHANGED <<now, deadline, alerted, onAlert, host, ended, mx, until, stop, notifying>>

\* A condition variable may wake a thread for no reason.
spurious_wakeup(w) ==
  /\ pc[w] = "wait"
  /\ Goto(w, "relock")
  /\ UNCHANGED <<now, deadline, alerted, onAlert, host, ended, mx, until, stop, notifying>>

\* A defective loop that does not look at its stop token again.
relock_unchecked(w) ==
  /\ \/ pc[w] = "relock"
     \/ pc[w] = "execute" /\ Idle(w)
  /\ mx = Nobody
  /\ mx' = w
  /\ Goto(w, "decide")
  /\ UNCHANGED <<now, deadline, alerted, onAlert, host, ended, until, stop, notifying>>

\* The mutex is locked again after a wait, or when the executor has returned.
relock(w) ==
  /\ \/ pc[w] = "relock"
     \/ pc[w] = "execute" /\ Idle(w)
  /\ mx = Nobody
  /\ mx' = w
  /\ Goto(w, "loop")
  /\ UNCHANGED <<now, deadline, alerted, onAlert, host, ended, until, stop, notifying>>

Tick == /\ now < MaxTime
        /\ now' = now + 1
        /\ UNCHANGED <<deadline, alerted, onAlert, host, ended, mx, pc, until, stop, notifying>>

-----------------------------------------------------------------------------

\* Time points a coroutine sleeps until: not past, and such that the clock
\* can still go beyond them.
Deadlines == now..(MaxTime - 1)

Coroutine(s) == \/ \E tp \in Deadlines : \/ sleep_until(s, tp)
                                         \/ sleep_until_alertable(s, tp)
                \/ test_and_reset(s)
                \/ complete(s)

Caller == \/ \E t \in Threads, s \in Coros : cancel(t, s) \/ alert(s)
          \/ \E w \in Workers : request_stop(w)

Worker(w) == start(w) \/ loop(w) \/ execute_first(w) \/ wait(w) \/ timeout(w) \/ relock(w)

Next == \/ \E s \in Coros : Coroutine(s)
        \/ Caller
        \/ \E w \in Workers : Worker(w) \/ stop_callback(w) \/ spurious_wakeup(w)
        \/ Tick

Spec == Init /\ [][Next]_vars

\* Workers and callbacks run, a coroutine that runs completes or sleeps, and
\* time passes.  Nothing makes the spurious wake-ups happen.
FairSpec == /\ Spec
            /\ \A w \in Workers : WF_vars(Worker(w)) /\ WF_vars(stop_callback(w))
            /\ \A s \in Coros : WF_vars(complete(s))
            /\ WF_vars(Tick)

-----------------------------------------------------------------------------
(* Properties                                                              *)

\* The variables have their types, and a coroutine that sleeps is suspended.
TypeOK ==
  /\ now \in 0..MaxTime
  /\ deadline \in [Coros -> 0..Awake]
  /\ alerted \in [Coros -> BOOLEAN]
  /\ onAlert \subseteq Coros
  /\ host \in [Coros -> Workers \cup {Outer, Nobody}]
  /\ ended \subseteq Coros
  /\ mx \in Workers \cup {Nobody}
  /\ pc \in [Workers -> {"start", "loop", "decide", "execute", "wait", "relock", "done"}]
  /\ until \in [Workers -> 0..Forever]
  /\ stop \subseteq Workers
  /\ notifying \subseteq stop
  /\ \A s \in Sleeping : deadline[s] < MaxTime /\ host[s] = Nobody /\ s \notin ended
  /\ \A s \in ended : host[s] = Nobody

\* No thread oversleeps: a worker that is left waiting wakes up no later than
\* the first deadline in the heap, whatever was scheduled, cancelled or
\* alerted since it went to wait.
NobodyOversleeps ==
  \A w \in Workers : pc[w] = "wait" => \A s \in Sleeping : until[w] <= deadline[s]

\* No alert is missed: a coroutine whose flag is set does not go on sleeping
\* on that flag, its sleep is due.
AlertsAreDue == \A s \in Sleeping \cap onAlert : alerted[s] => deadline[s] <= now

\* Every sleep ends, as long as there is a worker that nobody has asked to
\* stop: one that returns takes no wake-up with it that another one needs.
EverySleepEnds ==
  \A s \in Coros : s \in Sleeping ~> s \notin Sleeping \/ Workers \subseteq stop

\* A worker whose stop token is signalled returns from run_thread.
StopIsHonoured == \A w \in Workers : w \in stop ~> pc[w] = "done"
=============================================================================
