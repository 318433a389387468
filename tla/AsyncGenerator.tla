--------------------------- MODULE AsyncGenerator ---------------------------
(***************************************************************************)
(* Class async_generator of async_generator.h and class sync_frame of      *)
(* coroutine.h: a generator and its client, who keeps requests for values  *)
(* in awaitable variables (cells) and waits for them with co_await or, as  *)
(* the iterator does, with wait().                                         *)
(*                                                                         *)
(* The generator may itself wait, and goes on then on any thread.  The     *)
(* client is one coroutine or one thread: it awaits one request at a time, *)
(* the last one it has made, and a request made by start() only as the     *)
(* first.  The code tests none of this.                                    *)
(***************************************************************************)
EXTENDS Naturals

CONSTANTS
  Cells,       (* the awaitable variables of the client                    *)
  None,        (* no cell                                                  *)
  MaxYields    (* bound on the number of values that are yielded           *)

ASSUME GeneratorConstants == None \notin Cells /\ MaxYields \in Nat

VARIABLES
  gen,         (* where the generator is                                   *)
  _target,     (* promise: the cell that receives the value                *)
  _param,      (* promise: the cell whose request has set the parameter    *)
  _started,    (* promise: has a value been yielded?                       *)
  cell,        (* state of each cell                                       *)
  value,       (* the value in a cell that is ready, 0 for none            *)
  client,      (* where the client is                                      *)
  awaited,     (* the cell the client waits for                            *)
  handle,      (* has the client's handle been taken to be resumed?        *)
  _signal,     (* sync_frame: the flag of the client's wait()              *)
  notifying,   (* sync_frame: is a call of notify_all() due?               *)
  yielded,     (* history: the number of values the generator has yielded  *)
  received     (* history: the last value that the client has received     *)

promise == <<_target, _param, _started>>
waiting == <<client, awaited, handle, _signal, notifying>>
vars == <<gen, promise, cell, value, waiting, yielded, received>>

GenStates == {"none",      (* there is no generator                        *)
              "initial",   (* suspended at its start                       *)
              "running",
              "awaiting",  (* suspended by a co_await of its own           *)
              "yielded",   (* suspended by co_yield                        *)
              "done"}      (* at its final suspend point                   *)

Prepared == {"call", "start"}   (* requests that have not been awaited     *)

Free == client = "free"

Init == /\ gen = "none"
        /\ _target = None /\ _param = None /\ _started = FALSE
        /\ cell = [c \in Cells |-> "ready"]
        /\ value = [c \in Cells |-> 0]
        /\ client = "free" /\ awaited = None /\ handle = FALSE
        /\ _signal = FALSE /\ notifying = FALSE
        /\ yielded = 0 /\ received = 0

-----------------------------------------------------------------------------
(* The client                                                              *)

\* A new generator: initial_suspend, with a new promise.
create ==
  /\ Free
  /\ gen = "none"
  /\ gen' = "initial"
  /\ _target' = None /\ _param' = None /\ _started' = FALSE
  /\ UNCHANGED <<cell, value, waiting, yielded, received>>

\* The deleter destroys the frame.  The client may do so while the generator
\* is suspended by its own hand and no request refers to it.
destroy ==
  /\ Free
  /\ gen \in {"initial", "yielded", "done"}
  /\ \A c \in Cells : cell[c] \notin Prepared
  /\ gen' = "none"
  /\ UNCHANGED <<promise, cell, value, waiting, yielded, received>>

\* Variant of dropped: next() is called with the empty result.
dropped_next(c) ==
  IF cell[c] \in Prepared /\ gen # "done"
  THEN gen' = "running" /\ _target' = None
  ELSE UNCHANGED <<gen, _target>>

\* The cell is overwritten or destroyed: a request in it is called with an
\* empty result and returns.
dropped(c) == UNCHANGED <<gen, _target>>

\* A cell receives a new request, or no value.
assign(c, request) ==
  /\ Free
  /\ dropped(c)
  /\ cell' = [cell EXCEPT ![c] = request]
  /\ value' = [value EXCEPT ![c] = 0]
  /\ UNCHANGED <<_started, waiting, yielded, received>>

\* operator(): the parameter is set at once, whether or not the request will
\* be awaited.
call(c) ==
  /\ assign(c, IF gen = "none" THEN "ready" ELSE "call")
  /\ _param' = IF gen = "none" THEN _param ELSE c

start(c) ==
  /\ assign(c, IF gen = "none" \/ _started THEN "ready" ELSE "start")
  /\ UNCHANGED _param

\* ~awaitable(), cancel()
drop(c) ==
  /\ assign(c, "ready")
  /\ UNCHANGED _param

\* co_await or wait(), and next(): the generator takes over, unless it has
\* ended: then the result is dropped, which resolves the cell to no value.
next(c, mode) ==
  /\ Free
  /\ \/ cell[c] = "call" /\ c = _param
     \/ cell[c] = "start" /\ gen = "initial"
  /\ client' = mode
  /\ awaited' = c
  /\ _signal' = FALSE
  /\ \/ /\ gen = "done"
        /\ cell' = [cell EXCEPT ![c] = "ready"]
        /\ handle' = TRUE
        /\ UNCHANGED <<gen, _target>>
     \/ /\ gen # "done"
        /\ cell' = [cell EXCEPT ![c] = "pending"]
        /\ _target' = c
        /\ gen' = "running"
        /\ UNCHANGED handle
  /\ UNCHANGED <<_param, _started, value, notifying, yielded, received>>

-----------------------------------------------------------------------------
(* The generator                                                           *)

\* Variant of forget_target: the target is kept.
forget_target_not == UNCHANGED _target

\* yield_awaiter: after the client's handle is taken, before it is resumed.
forget_target == _target' = None

\* The generator suspends or ends: the result is stored in the target, if
\* there is one, the client's handle is taken and control goes to it.
answer(state, v) ==
  /\ gen = "running"
  /\ gen' = state
  /\ IF _target = None
     THEN UNCHANGED <<cell, value, handle>>
     ELSE /\ cell' = [cell EXCEPT ![_target] = "ready"]
          /\ value' = [value EXCEPT ![_target] = v]
          /\ handle' = TRUE
  /\ forget_target
  /\ UNCHANGED <<_param, client, awaited, _signal, notifying, received>>

\* co_yield of a value or of an exception.
yield_value ==
  /\ yielded < MaxYields
  /\ answer("yielded", yielded + 1)
  /\ _started' = TRUE
  /\ yielded' = yielded + 1

\* An exception ends the generator; it is what the last request gets.
unhandled_exception ==
  /\ yielded < MaxYields
  /\ answer("done", yielded + 1)
  /\ yielded' = yielded + 1
  /\ UNCHANGED _started

\* The last request gets no value.
return_void ==
  /\ answer("done", 0)
  /\ UNCHANGED <<_started, yielded>>

\* The generator waits for something else, and is resumed.
co_await ==
  /\ \/ gen = "running" /\ gen' = "awaiting"
     \/ gen = "awaiting" /\ gen' = "running"
  /\ UNCHANGED <<promise, cell, value, waiting, yielded, received>>

-----------------------------------------------------------------------------
(* The client is resumed                                                   *)

\* await_resume()
receive ==
  /\ client' = "free"
  /\ awaited' = None
  /\ received' = IF value[awaited] = 0 THEN received ELSE value[awaited]

resume_client ==
  /\ handle
  /\ client = "coroutine"
  /\ handle' = FALSE
  /\ receive
  /\ UNCHANGED <<gen, promise, cell, value, _signal, notifying, yielded>>

\* Variant of set_signal: notify_all() was called before the flag is set.
set_signal_late == _signal' = TRUE /\ UNCHANGED notifying

\* The flag is set; notify_all() is to be called.
set_signal == _signal' = TRUE /\ notifying' = TRUE

\* sync_frame::do_resume()
do_resume ==
  /\ handle
  /\ client \in {"checking", "blocked"}
  /\ handle' = FALSE
  /\ set_signal
  /\ UNCHANGED <<gen, promise, cell, value, client, awaited, yielded,
                 received>>

notify_all ==
  /\ notifying
  /\ notifying' = FALSE
  /\ client' = IF client = "blocked" THEN "checking" ELSE client
  /\ UNCHANGED <<gen, promise, cell, value, awaited, handle, _signal,
                 yielded, received>>

\* sync_frame::wait(): returns when the flag is set, else blocks.
wait ==
  /\ client = "checking"
  /\ \/ _signal /\ receive
     \/ ~_signal /\ client' = "blocked" /\ UNCHANGED <<awaited, received>>
  /\ UNCHANGED <<gen, promise, cell, value, handle, _signal, notifying,
                 yielded>>

-----------------------------------------------------------------------------
GeneratorAnswers == yield_value \/ unhandled_exception \/ return_void

Next ==
  \/ create \/ destroy
  \/ \E c \in Cells : \/ call(c) \/ start(c) \/ drop(c)
                      \/ \E m \in {"coroutine", "checking"} : next(c, m)
  \/ GeneratorAnswers \/ co_await
  \/ resume_client \/ do_resume \/ notify_all \/ wait

Spec == Init /\ [][Next]_vars

\* Threads run; what the generator waits for completes, and between two
\* requests it does so a finite number of times.
FairSpec == /\ Spec
            /\ SF_vars(GeneratorAnswers)
            /\ WF_vars(co_await /\ gen = "awaiting")
            /\ WF_vars(resume_client) /\ WF_vars(do_resume)
            /\ WF_vars(notify_all) /\ WF_vars(wait)

-----------------------------------------------------------------------------
(* Properties                                                              *)

TypeOK == /\ gen \in GenStates
          /\ _target \in Cells \cup {None}
          /\ _param \in Cells \cup {None}
          /\ _started \in BOOLEAN
          /\ cell \in [Cells -> Prepared \cup {"pending", "ready"}]
          /\ value \in [Cells -> 0 .. MaxYields]
          /\ client \in {"free", "coroutine", "checking", "blocked"}
          /\ awaited \in Cells \cup {None}
          /\ handle \in BOOLEAN /\ _signal \in BOOLEAN
          /\ notifying \in BOOLEAN
          /\ yielded \in 0 .. MaxYields
          /\ received \in 0 .. MaxYields

\* No value is skipped, lost or seen twice, whatever requests are made,
\* dropped or awaited: the client that is free has received the last value
\* that was yielded, and while it waits the generator is at most one ahead.
NothingSkipped == \/ yielded = received
                  \/ ~Free /\ yielded = received + 1

\* A generator that works has a request to work for: the target is the cell
\* the client waits for, the client's handle is not taken yet, and unless
\* this is the first request it finds the parameter of that same request.
\* A generator at rest keeps no pointer to a cell of the client, which the
\* client may destroy or use for something else.
WorksForRequest ==
  /\ gen \in {"running", "awaiting"} =>
       /\ _target # None /\ _target = awaited /\ cell[_target] = "pending"
       /\ ~Free /\ ~handle /\ ~_signal
       /\ _started => _param = _target
  /\ gen \notin {"running", "awaiting"} =>
       /\ _target = None
       /\ \A c \in Cells : cell[c] # "pending"

\* Every awaited request is answered: also the requests to a generator that
\* has ended, and also when the flag of wait() is set between the waiter's
\* test of it and its going to sleep.
EveryRequestAnswered == ~Free ~> Free
=============================================================================
