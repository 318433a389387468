----------------------------- MODULE Awaitable ------------------------------
(***************************************************************************)
(* Classes awaitable, awaitable_result, coroutine and awaiting_callback of *)
(* coroutine.h: an asynchronous operation, the variables of type awaitable *)
(* that hold it while it is prepared, and those who wait for its result.   *)
(*                                                                         *)
(* One consumer, a coroutine or a function that waits synchronously, holds *)
(* the variables (cells).  One operation at a time exists: a callback or a *)
(* coroutine that is prepared in a cell, is started when the cell is       *)
(* awaited, or detached when it is destroyed, and then runs on any thread. *)
(* The pointer by which it delivers its result, awaitable_result::_ptr or  *)
(* promise_type::_target, is target.  A handle that wakeup() has taken is  *)
(* in a prepared_coro, resumed later, perhaps after further steps of the   *)
(* operation.                                                              *)
(***************************************************************************)
CONSTANTS
  Cells,  (* the awaitable variables of the consumer                       *)
  CB,     (* the awaitable inside an awaiting_callback                     *)
  RD,     (* the awaitable returned by has_value(), operator! or begin()   *)
  None    (* nullptr, no handle, no answer                                 *)

AllCells == Cells \cup {CB, RD}

VARIABLES
  state,     (* _state of each awaitable                                   *)
  owner,     (* _owner of each awaitable                                   *)
  live,      (* the awaitables that exist                                  *)
  kind,      (* what the operation is: a state that is not resolved        *)
  work,      (* where the operation is                                     *)
  target,    (* the awaitable it delivers its result to, or None           *)
  prepared,  (* the handle in a prepared_coro, or None                     *)
  consumer,  (* "free" or "suspended"                                      *)
  query,     (* what the consumer, or the callback, has asked for          *)
  subject,   (* the cell it has asked                                      *)
  delivered, (* history: what the operation has delivered                  *)
  seen       (* history: what the one who waited has learned               *)

vars == <<state, owner, live, kind, work, target, prepared, consumer, query,
          subject, delivered, seen>>

Resolved == {"no_value", "value", "exception"}
Kinds == {"coro", "callback", "callback_ptr"}

Works == {"prepared",  (* has not been started                             *)
          "running",   (* the callback has the result, the coroutine runs  *)
          "returned",  (* coroutine: has executed co_return, or thrown     *)
          "woken",     (* coroutine: the finisher has taken the owner      *)
          "over"}      (* is gone                                          *)

\* Handles that can wait: the consumer, an awaiting_callback, and the frame
\* (read_state_frame, read_ptr_frame) in the temporary state of RD.
Handles == {"consumer", "frame", "reader"}

ASSUME CellsDistinct == /\ CB # RD
                        /\ {CB, RD} \cap Cells = {}
                        /\ None \notin AllCells \cup Handles

Init == /\ state = [c \in AllCells |-> "no_value"]
        /\ owner = [c \in AllCells |-> None]
        /\ live = Cells
        /\ kind = "coro"
        /\ work = "over"
        /\ target = None
        /\ prepared = None
        /\ consumer = "free"
        /\ query = None
        /\ subject = None
        /\ delivered = None
        /\ seen = None

await_ready(c) == state[c] \in Resolved

-----------------------------------------------------------------------------
(* The consumer and its cells                                              *)

Free == consumer = "free"

\* What the destructor of cell c does to the operation prepared in it: it is
\* started detached, with an empty result.
dtor(c) == IF await_ready(c) THEN work' = work ELSE work' = "running"

\* c = async_function(): the cell receives a prepared operation.
construct(c, k) ==
  /\ Free
  /\ work = "over" /\ prepared = None
  /\ live' = live \cup {c}
  /\ state' = [state EXCEPT ![c] = k]
  /\ kind' = k
  /\ work' = "prepared"
  /\ query' = None /\ subject' = None /\ delivered' = None /\ seen' = None
  /\ UNCHANGED <<owner, target, prepared, consumer>>

\* d = std::move(c).
move(c, d) ==
  /\ Free
  /\ {c, d} \subseteq live /\ c # d
  /\ dtor(d)
  /\ state' = [state EXCEPT ![d] = state[c], ![c] = "no_value"]
  /\ UNCHANGED <<owner, live, kind, target, prepared, consumer, query, subject,
                 delivered, seen>>

\* cancel(): a prepared operation is destroyed, and never runs.
cancel(c) ==
  /\ Free
  /\ c \in live
  /\ owner[c] = None
  /\ work' = IF await_ready(c) THEN work ELSE "over"
  /\ state' = [state EXCEPT ![c] = "no_value"]
  /\ UNCHANGED <<owner, live, kind, target, prepared, consumer, query, subject,
                 delivered, seen>>

\* The cell goes out of scope.
destroy(c) ==
  /\ Free
  /\ c \in live
  /\ owner[c] = None
  /\ dtor(c)
  /\ state' = [state EXCEPT ![c] = "no_value"]
  /\ live' = live \ {c}
  /\ UNCHANGED <<owner, kind, target, prepared, consumer, query, subject, delivered, seen>>

Asks(q, c) == query' = q /\ subject' = c

\* co_await c, or c.wait(): the operation is started with a result for c.
await_suspend(c) ==
  /\ Free
  /\ c \in live
  /\ ~await_ready(c)
  /\ owner' = [owner EXCEPT ![c] = "consumer"]
  /\ target' = c
  /\ work' = "running"
  /\ consumer' = "suspended"
  /\ Asks("await", c)
  /\ UNCHANGED <<state, live, kind, prepared, delivered, seen>>

\* A defective set_callback that leaves the operation in the cell.
set_callback_again(c) ==
  /\ Free
  /\ c \in live
  /\ ~await_ready(c)
  /\ live' = live \cup {CB}
  /\ owner' = [owner EXCEPT ![CB] = "frame"]
  /\ target' = CB
  /\ work' = "running"
  /\ Asks("callback", CB)
  /\ UNCHANGED <<state, kind, prepared, consumer, delivered, seen>>

\* set_callback() on a cell that is not ready: the operation is started with
\* a result for the new awaiting_callback, and the cell is left with nothing.
set_callback(c) ==
  /\ Free
  /\ c \in live
  /\ ~await_ready(c)
  /\ live' = live \cup {CB}
  /\ owner' = [owner EXCEPT ![CB] = "frame"]
  /\ target' = CB
  /\ work' = "running"
  /\ state' = [state EXCEPT ![c] = "no_value"]
  /\ Asks("callback", CB)
  /\ UNCHANGED <<kind, prepared, consumer, delivered, seen>>

\* What read_state_frame and read_ptr_frame answer about the state s.
Answer(q, s) == IF q = "has_value"
                THEN IF s # "no_value" THEN "yes" ELSE "no"
                ELSE CASE s = "value" -> "at_value"
                       [] s = "exception" -> "throws"
                       [] OTHER -> "at_end"

\* co_await c.has_value(), co_await !c or co_await c.begin() of a cell that is
\* not ready: RD is awaited, and the frame in its temporary state awaits c.
\* (Of one that is ready they only look at the state.)
read_pending(q, c) ==
  /\ Free
  /\ c \in live
  /\ ~await_ready(c)
  /\ live' = live \cup {RD}
  /\ owner' = [owner EXCEPT ![RD] = "consumer", ![c] = "reader"]
  /\ target' = c
  /\ work' = "running"
  /\ consumer' = "suspended"
  /\ Asks(q, c)
  /\ UNCHANGED <<state, kind, prepared, delivered, seen>>

-----------------------------------------------------------------------------
(* The operation                                                           *)

\* A defective wakeup() that does not clear the owner.
wakeup_copy(c) == /\ prepared' = owner[c]
                  /\ UNCHANGED owner

\* wakeup() of an awaitable takes its owner.
wakeup(c) == /\ prepared' = owner[c]
             /\ owner' = [owner EXCEPT ![c] = None]

\* A callback places temporary state in the awaitable: it looks resolved.
get_temp_state ==
  /\ kind # "coro" /\ work = "running"
  /\ target # None
  /\ state' = [state EXCEPT ![target] = "no_value"]
  /\ UNCHANGED <<owner, live, kind, work, target, prepared, consumer, query,
                 subject, delivered, seen>>

\* set_value(), set_exception() and drop(): what the awaitable held is
\* destroyed, and it is resolved.
set_value(c, v) == state' = [state EXCEPT ![c] = v]

\* The result of a callback is set, to a value, an exception (a constructor
\* may throw one) or nothing, or it is dropped.  Without a target it is ignored.
set_result(v) ==
  /\ kind # "coro" /\ work = "running"
  /\ work' = "over"
  /\ target' = None
  /\ IF target # None
     THEN /\ set_value(target, v)
          /\ wakeup(target)
          /\ delivered' = v
     ELSE UNCHANGED <<state, owner, prepared, delivered>>
  /\ UNCHANGED <<live, kind, consumer, query, subject, seen>>

\* The coroutine executes co_return, or leaves by an exception.
return_value(v) ==
  /\ kind = "coro" /\ work = "running"
  /\ work' = "returned"
  /\ IF target # None
     THEN /\ set_value(target, v)
          /\ delivered' = v
     ELSE UNCHANGED <<state, delivered>>
  /\ UNCHANGED <<owner, live, kind, target, prepared, consumer, query, subject, seen>>

\* final_suspend(): a detached coroutine ends here; else the owner is taken ...
final_suspend ==
  /\ work = "returned"
  /\ IF target = None THEN work' = "over" /\ UNCHANGED <<owner, prepared>>
                      ELSE work' = "woken" /\ wakeup(target)
  /\ UNCHANGED <<state, live, kind, target, consumer, query, subject, delivered, seen>>

\* ... and the frame is destroyed.  The destructor of the promise calls
\* wakeup() of the same awaitable again.
final_destroy ==
  /\ work = "woken"
  /\ work' = "over"
  /\ target' = None
  /\ prepared' = IF owner[target] = None THEN prepared ELSE owner[target]
  /\ owner' = [owner EXCEPT ![target] = None]
  /\ UNCHANGED <<state, live, kind, consumer, query, subject, delivered, seen>>

\* A defective ~promise_type() that does not wake up the owner.
promise_destroy_silent ==
  /\ kind = "coro" /\ work = "running"
  /\ work' = "over"
  /\ target' = None
  /\ UNCHANGED <<state, owner, live, kind, prepared, consumer, query, subject,
                 delivered, seen>>

\* A defective wakeup() that does not drop an awaitable that is not ready.
promise_destroy_undropped ==
  /\ kind = "coro" /\ work = "running"
  /\ work' = "over"
  /\ target' = None
  /\ IF target # None
     THEN wakeup(target) /\ delivered' = "no_value"
     ELSE UNCHANGED <<owner, prepared, delivered>>
  /\ UNCHANGED <<state, live, kind, consumer, query, subject, seen>>

\* A coroutine that is suspended is destroyed by its handle: wakeup() of an
\* awaitable that is not ready drops it.
promise_destroy ==
  /\ kind = "coro" /\ work = "running"
  /\ work' = "over"
  /\ target' = None
  /\ IF target # None
     THEN /\ state' = [state EXCEPT ![target] =
                         IF await_ready(target) THEN @ ELSE "no_value"]
          /\ wakeup(target)
          /\ delivered' = "no_value"
     ELSE UNCHANGED <<state, owner, prepared, delivered>>
  /\ UNCHANGED <<live, kind, consumer, query, subject, seen>>

-----------------------------------------------------------------------------
(* The prepared_coro                                                       *)

\* A defective finisher that resumes before it destroys the frame.
may_resume_early == prepared # None

\* A coroutine resumes its owner, by symmetric transfer, when its frame has
\* been destroyed.
may_resume == prepared # None /\ (kind = "coro" => work = "over")

\* The consumer goes on with the state of the cell, or the answer in RD.
resume_consumer ==
  /\ may_resume
  /\ prepared = "consumer"
  /\ prepared' = None
  /\ consumer' = "free"
  /\ seen' = IF query = "await" THEN state[subject] ELSE seen
  /\ live' = live \ {RD}
  /\ state' = [state EXCEPT ![RD] = "no_value"]
  /\ UNCHANGED <<owner, kind, work, target, query, subject, delivered>>

\* awaiting_callback::do_resume(): the callback is called, the frame deleted.
resume_frame ==
  /\ may_resume
  /\ prepared = "frame"
  /\ prepared' = None
  /\ seen' = state[CB]
  /\ live' = live \ {CB}
  /\ state' = [state EXCEPT ![CB] = "no_value"]
  /\ UNCHANGED <<owner, kind, work, target, consumer, query, subject, delivered>>

\* read_state_frame::do_resume(), read_ptr_frame::do_resume(): RD is resolved.
resume_reader ==
  /\ may_resume
  /\ prepared = "reader"
  /\ seen' = Answer(query, state[subject])
  /\ state' = [state EXCEPT ![RD] = IF seen' = "throws" THEN "exception" ELSE "value"]
  /\ wakeup(RD)
  /\ UNCHANGED <<live, kind, work, target, consumer, query, subject, delivered>>

-----------------------------------------------------------------------------

Queries == {"has_value", "begin"}

Consumer == \E c \in Cells :
  \/ \E k \in Kinds : construct(c, k)
  \/ \E d \in Cells : move(c, d)
  \/ cancel(c) \/ destroy(c) \/ await_suspend(c) \/ set_callback(c)
  \/ \E q \in Queries : read_pending(q, c)

Finish == \/ \E v \in Resolved : set_result(v)
          \/ \E v \in {"value", "exception"} : return_value(v)
          \/ promise_destroy
          \/ final_suspend \/ final_destroy

Resume == resume_consumer \/ resume_frame \/ resume_reader

Next == Consumer \/ get_temp_state \/ Finish \/ Resume

Spec == Init /\ [][Next]_vars

\* An operation that was started delivers a result or drops it, and whoever
\* has a prepared_coro resumes it: the destructors of awaitable_result,
\* promise_type and prepared_coro see to that.
FairSpec == Spec /\ WF_vars(Finish) /\ WF_vars(Resume)

-----------------------------------------------------------------------------
(* Properties                                                              *)

\* The variables have their types; what is seen is a resolved state.
TypeOK ==
  /\ state \in [AllCells -> Resolved \cup Kinds]
  /\ owner \in [AllCells -> Handles \cup {None}]
  /\ live \subseteq AllCells
  /\ kind \in Kinds
  /\ work \in Works
  /\ target \in AllCells \cup {None}
  /\ prepared \in Handles \cup {None}
  /\ consumer \in {"free", "suspended"}
  /\ query \in Queries \cup {"await", "callback", None}
  /\ subject \in AllCells \cup {None}
  /\ delivered \in Resolved \cup {None}
  /\ seen \in Resolved \cup {"yes", "no", "at_value", "at_end", "throws", None}

\* A result object or promise in flight points to an awaitable that exists,
\* up to the last wakeup() by the destructor of the promise, and somebody
\* waits there until wakeup() takes the owner.
TargetIsLive ==
  target # None => /\ target \in live
                   /\ work \in {"running", "returned"} => owner[target] # None

\* Where the handle h is.
Places(h) == {c \in AllCells : owner[c] = h} \cup {p \in {None} : prepared = h}

Waiting(h) == CASE h = "consumer" -> consumer = "suspended"
                [] h = "frame" -> CB \in live
                [] OTHER -> RD \in live /\ state[RD] = "no_value"

\* Whoever waits is resumed exactly once: its handle is in exactly one place,
\* an awaitable or a prepared_coro, and the handle of one who does not wait
\* is nowhere.
HandleHeldOnce ==
  \A h \in Handles : /\ Waiting(h) <=> Places(h) # {}
                     /\ \A p, q \in Places(h) : p = q

\* An operation is not lost and not started twice: while it is prepared
\* exactly one cell holds it, after that none does except the one that awaits
\* its result.
OperationHeldOnce ==
  LET holders == {c \in AllCells : ~await_ready(c)}
  IN  /\ \A c, d \in holders : c = d
      /\ work = "prepared" => holders # {} /\ \A c \in holders : owner[c] = None
      /\ work # "prepared" => holders \subseteq {target}

\* Whoever has waited learns what the operation has delivered, directly, by a
\* callback, or by has_value() and begin() of a cell that was not ready.
SeesDelivered ==
  Free /\ prepared = None /\ work = "over" /\ seen # None =>
    /\ query \in {"await", "callback"} => seen = delivered
    /\ query \in Queries => seen = Answer(query, delivered)

\* Every wait ends, and every callback is called.
EveryWaitEnds == /\ consumer = "suspended" ~> consumer = "free"
                 /\ CB \in live ~> CB \notin live
=============================================================================
