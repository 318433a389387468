--------------------------- MODULE AwaitableProofs --------------------------
(***************************************************************************)
(* Proofs about Awaitable, for any set of cells.                           *)
(***************************************************************************)
EXTENDS Awaitable, TLAPS

\* HandleHeldOnce without the set of places.
HandlesUnfolded ==
  /\ \A h \in Handles : Waiting(h) <=> prepared = h \/ \E c \in AllCells : owner[c] = h
  /\ \A c \in AllCells : owner[c] # None =>
       /\ prepared # owner[c]
       /\ \A d \in AllCells : owner[d] = owner[c] => d = c

\* OperationHeldOnce without the set of holders.
OperationUnfolded ==
  /\ \A c, d \in AllCells : ~await_ready(c) /\ ~await_ready(d) => c = d
  /\ work = "prepared" => \E c \in AllCells : ~await_ready(c) /\ owner[c] = None
  /\ work # "prepared" => \A c \in AllCells : ~await_ready(c) => c = target

\* What belongs to the phases of the operation.
Phases ==
  /\ work \in {"prepared", "over"} => target = None
  /\ work \in {"prepared", "running", "returned"} => prepared = None
  /\ work \in {"returned", "woken"} => kind = "coro"
  /\ work = "returned" /\ target # None => await_ready(target)
  /\ work = "woken" => /\ target # None /\ owner[target] = None
                       /\ await_ready(target)
                       /\ prepared # None
  /\ target \in Cells => consumer = "suspended"
  /\ target # RD

\* Who can wait where.
Waiters ==
  /\ \A c \in AllCells : c \notin live => owner[c] = None /\ await_ready(c)
  /\ owner[CB] \in {None, "frame"} /\ owner[RD] \in {None, "consumer"}
  /\ \A c \in Cells : owner[c] # "frame"
  /\ await_ready(CB) /\ await_ready(RD)
  /\ RD \in live => /\ consumer = "suspended"
                    /\ state[RD] = "no_value" => owner[RD] = "consumer"
  /\ RD \notin live => state[RD] = "no_value"
  /\ consumer = "suspended" => subject \in Cells

\* The inductive invariant.
IInv == TypeOK /\ TargetIsLive /\ HandlesUnfolded /\ OperationUnfolded /\ Phases /\ Waiters

\* The unfolded forms say the same.
LEMMA Folding == IInv => HandleHeldOnce /\ OperationHeldOnce
<1> SUFFICES ASSUME IInv PROVE HandleHeldOnce /\ OperationHeldOnce
  OBVIOUS
<1>1. HandleHeldOnce
  <2> SUFFICES ASSUME NEW h \in Handles
               PROVE  /\ Waiting(h) <=> Places(h) # {}
                      /\ \A p, q \in Places(h) : p = q
    BY DEF HandleHeldOnce
  <2>1. Waiting(h) <=> Places(h) # {}
    BY DEF IInv, HandlesUnfolded, Places
  <2>2. h # None
    BY CellsDistinct
  <2>3. ASSUME NEW p \in Places(h), NEW q \in Places(h) PROVE p = q
    BY <2>2, <2>3 DEF IInv, HandlesUnfolded, Places
  <2> QED
    BY <2>1, <2>3
<1>2. OperationHeldOnce
  BY DEF IInv, OperationUnfolded, OperationHeldOnce, Phases
<1> QED
  BY <1>1, <1>2

\* The invariant holds initially.
LEMMA InitIInv == Init => IInv
  BY CellsDistinct DEF Init, IInv, TypeOK, TargetIsLive, HandlesUnfolded, OperationUnfolded,
     Phases, Waiters, AllCells, Handles, Resolved, Kinds, Works, Waiting, await_ready

\* Operation construct keeps the invariant.
LEMMA Keeps_construct ==
  ASSUME IInv, NEW c \in Cells, NEW k \in Kinds, construct(c, k)
  PROVE  IInv'
<1> USE CellsDistinct DEF IInv, TypeOK, TargetIsLive, Phases, Waiters, await_ready, AllCells,
    Handles, Resolved, Kinds, Works, Free, construct
<1>1. TypeOK'
  BY DEF Queries
<1>2. TargetIsLive'
  BY DEF OperationUnfolded
<1>3. HandlesUnfolded'
  BY DEF HandlesUnfolded, Waiting, OperationUnfolded
<1>4. OperationUnfolded'
  <2>1. owner[c] = None
    BY DEF HandlesUnfolded, Waiting
  <2>2. \A d \in AllCells : await_ready(d)
    BY DEF OperationUnfolded
  <2> QED
    BY <2>1, <2>2 DEF OperationUnfolded
<1>5. Phases'
  BY DEF OperationUnfolded, HandlesUnfolded, Waiting
<1>6. Waiters'
  BY DEF HandlesUnfolded, Waiting, OperationUnfolded
<1> QED
  BY <1>1, <1>2, <1>3, <1>4, <1>5, <1>6

\* Operation move keeps the invariant.
LEMMA Keeps_move ==
  ASSUME IInv, NEW c \in Cells, NEW d \in Cells, move(c, d)
  PROVE  IInv'
<1> USE CellsDistinct DEF IInv, TypeOK, TargetIsLive, Phases, Waiters, await_ready, AllCells,
    Handles, Resolved, Kinds, Works, Free, move, dtor
<1>1. TypeOK'
  BY DEF Queries
<1>2. TargetIsLive'
  BY DEF OperationUnfolded
<1>3. HandlesUnfolded'
  BY DEF HandlesUnfolded, Waiting, OperationUnfolded
<1>4. OperationUnfolded'
  <2>1. owner[c] = None /\ owner[d] = None
    BY DEF HandlesUnfolded, Waiting
  <2>2. \A e \in AllCells \ {c, d} : await_ready(e)' = await_ready(e)
    OBVIOUS
  <2>3. await_ready(c)' /\ await_ready(d)' = await_ready(c)
    OBVIOUS
  <2> QED
    BY <2>1, <2>2, <2>3 DEF OperationUnfolded
<1>5. Phases'
  BY DEF OperationUnfolded, HandlesUnfolded, Waiting
<1>6. Waiters'
  BY DEF HandlesUnfolded, Waiting, OperationUnfolded
<1> QED
  BY <1>1, <1>2, <1>3, <1>4, <1>5, <1>6

\* Operation cancel keeps the invariant.
LEMMA Keeps_cancel ==
  ASSUME IInv, NEW c \in Cells, cancel(c)
  PROVE  IInv'
<1> USE CellsDistinct DEF IInv, TypeOK, TargetIsLive, Phases, Waiters, await_ready, AllCells,
    Handles, Resolved, Kinds, Works, Free, cancel
<1>1. TypeOK'
  BY DEF Queries
<1>2. TargetIsLive'
  BY DEF OperationUnfolded
<1>3. HandlesUnfolded'
  BY DEF HandlesUnfolded, Waiting, OperationUnfolded
<1>4. OperationUnfolded'
  BY DEF OperationUnfolded
<1>5. Phases'
  BY DEF OperationUnfolded, HandlesUnfolded, Waiting
<1>6. Waiters'
  BY DEF HandlesUnfolded, Waiting, OperationUnfolded
<1> QED
  BY <1>1, <1>2, <1>3, <1>4, <1>5, <1>6

\* Operation destroy keeps the invariant.
LEMMA Keeps_destroy ==
  ASSUME IInv, NEW c \in Cells, destroy(c)
  PROVE  IInv'
<1> USE CellsDistinct DEF IInv, TypeOK, TargetIsLive, Phases, Waiters, await_ready, AllCells,
    Handles, Resolved, Kinds, Works, Free, destroy, dtor
<1>1. TypeOK'
  BY DEF Queries
<1>2. TargetIsLive'
  BY DEF OperationUnfolded
<1>3. HandlesUnfolded'
  BY DEF HandlesUnfolded, Waiting, OperationUnfolded
<1>4. OperationUnfolded'
  BY DEF OperationUnfolded
<1>5. Phases'
  BY DEF OperationUnfolded, HandlesUnfolded, Waiting
<1>6. Waiters'
  BY DEF HandlesUnfolded, Waiting, OperationUnfolded
<1> QED
  BY <1>1, <1>2, <1>3, <1>4, <1>5, <1>6

\* Operation await_suspend keeps the invariant.
LEMMA Keeps_await_suspend ==
  ASSUME IInv, NEW c \in Cells, await_suspend(c)
  PROVE  IInv'
<1> USE CellsDistinct DEF IInv, TypeOK, TargetIsLive, Phases, Waiters, await_ready, AllCells,
    Handles, Resolved, Kinds, Works, Free, await_suspend, Asks
<1>1. TypeOK'
  BY DEF Queries
<1>2. TargetIsLive'
  BY DEF OperationUnfolded
<1>3. HandlesUnfolded'
  BY DEF HandlesUnfolded, Waiting, OperationUnfolded
<1>4. OperationUnfolded'
  BY DEF OperationUnfolded
<1>5. Phases'
  BY DEF OperationUnfolded, HandlesUnfolded, Waiting
<1>6. Waiters'
  BY DEF HandlesUnfolded, Waiting, OperationUnfolded
<1> QED
  BY <1>1, <1>2, <1>3, <1>4, <1>5, <1>6

\* Operation set_callback keeps the invariant.
LEMMA Keeps_set_callback ==
  ASSUME IInv, NEW c \in Cells, set_callback(c)
  PROVE  IInv'
<1> USE CellsDistinct DEF IInv, TypeOK, TargetIsLive, Phases, Waiters, await_ready, AllCells,
    Handles, Resolved, Kinds, Works, Free, set_callback, Asks
<1>1. TypeOK'
  BY DEF Queries
<1>2. TargetIsLive'
  BY DEF OperationUnfolded
<1>3. HandlesUnfolded'
  BY DEF HandlesUnfolded, Waiting, OperationUnfolded
<1>4. OperationUnfolded'
  BY DEF OperationUnfolded
<1>5. Phases'
  BY DEF OperationUnfolded, HandlesUnfolded, Waiting
<1>6. Waiters'
  BY DEF HandlesUnfolded, Waiting, OperationUnfolded
<1> QED
  BY <1>1, <1>2, <1>3, <1>4, <1>5, <1>6

\* Operation read_pending keeps the invariant.
LEMMA Keeps_read_pending ==
  ASSUME IInv, NEW q \in Queries, NEW c \in Cells, read_pending(q, c)
  PROVE  IInv'
<1> USE CellsDistinct DEF IInv, TypeOK, TargetIsLive, Phases, Waiters, await_ready, AllCells,
    Handles, Resolved, Kinds, Works, Free, read_pending, Asks, Queries
<1>1. TypeOK'
  BY DEF Queries
<1>2. TargetIsLive'
  BY DEF OperationUnfolded
<1>3. HandlesUnfolded'
  BY DEF HandlesUnfolded, Waiting, OperationUnfolded
<1>4. OperationUnfolded'
  BY DEF OperationUnfolded
<1>5. Phases'
  BY DEF OperationUnfolded, HandlesUnfolded, Waiting
<1>6. Waiters'
  BY DEF HandlesUnfolded, Waiting, OperationUnfolded
<1> QED
  BY <1>1, <1>2, <1>3, <1>4, <1>5, <1>6

\* Operation get_temp_state keeps the invariant.
LEMMA Keeps_get_temp_state ==
  ASSUME IInv, get_temp_state
  PROVE  IInv'
<1> USE CellsDistinct DEF IInv, TypeOK, TargetIsLive, Phases, Waiters, await_ready, AllCells,
    Handles, Resolved, Kinds, Works, Free, get_temp_state
<1>1. TypeOK'
  BY DEF Queries
<1>2. TargetIsLive'
  BY DEF OperationUnfolded
<1>3. HandlesUnfolded'
  BY DEF HandlesUnfolded, Waiting, OperationUnfolded
<1>4. OperationUnfolded'
  BY DEF OperationUnfolded
<1>5. Phases'
  BY DEF OperationUnfolded, HandlesUnfolded, Waiting
<1>6. Waiters'
  BY DEF HandlesUnfolded, Waiting, OperationUnfolded
<1> QED
  BY <1>1, <1>2, <1>3, <1>4, <1>5, <1>6

\* Operation set_result keeps the invariant.
LEMMA Keeps_set_result ==
  ASSUME IInv, NEW v \in Resolved, set_result(v)
  PROVE  IInv'
<1> USE CellsDistinct DEF IInv, TypeOK, TargetIsLive, Phases, Waiters, await_ready, AllCells,
    Handles, Resolved, Kinds, Works, Free, set_result, set_value, wakeup
<1>1. TypeOK'
  BY DEF Queries
<1>2. TargetIsLive'
  BY DEF OperationUnfolded
<1>3. HandlesUnfolded'
  BY DEF HandlesUnfolded, Waiting, OperationUnfolded
<1>4. OperationUnfolded'
  BY DEF OperationUnfolded
<1>5. Phases'
  BY DEF OperationUnfolded, HandlesUnfolded, Waiting
<1>6. Waiters'
  BY DEF HandlesUnfolded, Waiting, OperationUnfolded
<1> QED
  BY <1>1, <1>2, <1>3, <1>4, <1>5, <1>6

\* Operation return_value keeps the invariant.
LEMMA Keeps_return_value ==
  ASSUME IInv, NEW v \in Resolved, return_value(v)
  PROVE  IInv'
<1> USE CellsDistinct DEF IInv, TypeOK, TargetIsLive, Phases, Waiters, await_ready, AllCells,
    Handles, Resolved, Kinds, Works, Free, return_value, set_value
<1>1. TypeOK'
  BY DEF Queries
<1>2. TargetIsLive'
  BY DEF OperationUnfolded
<1>3. HandlesUnfolded'
  BY DEF HandlesUnfolded, Waiting, OperationUnfolded
<1>4. OperationUnfolded'
  BY DEF OperationUnfolded
<1>5. Phases'
  BY DEF OperationUnfolded, HandlesUnfolded, Waiting
<1>6. Waiters'
  BY DEF HandlesUnfolded, Waiting, OperationUnfolded
<1> QED
  BY <1>1, <1>2, <1>3, <1>4, <1>5, <1>6

\* Operation final_suspend keeps the invariant.
LEMMA Keeps_final_suspend ==
  ASSUME IInv, final_suspend
  PROVE  IInv'
<1> USE CellsDistinct DEF IInv, TypeOK, TargetIsLive, Phases, Waiters, await_ready, AllCells,
    Handles, Resolved, Kinds, Works, Free, final_suspend, wakeup
<1>1. TypeOK'
  BY DEF Queries
<1>2. TargetIsLive'
  BY DEF OperationUnfolded
<1>3. HandlesUnfolded'
  BY DEF HandlesUnfolded, Waiting, OperationUnfolded
<1>4. OperationUnfolded'
  BY DEF OperationUnfolded
<1>5. Phases'
  BY DEF OperationUnfolded, HandlesUnfolded, Waiting
<1>6. Waiters'
  BY DEF HandlesUnfolded, Waiting, OperationUnfolded
<1> QED
  BY <1>1, <1>2, <1>3, <1>4, <1>5, <1>6

\* Operation final_destroy keeps the invariant.
LEMMA Keeps_final_destroy ==
  ASSUME IInv, final_destroy
  PROVE  IInv'
<1> USE CellsDistinct DEF IInv, TypeOK, TargetIsLive, Phases, Waiters, await_ready, AllCells,
    Handles, Resolved, Kinds, Works, Free, final_destroy
<1>1. TypeOK'
  BY DEF Queries
<1>2. TargetIsLive'
  BY DEF OperationUnfolded
<1>3. HandlesUnfolded'
  BY DEF HandlesUnfolded, Waiting, OperationUnfolded
<1>4. OperationUnfolded'
  BY DEF OperationUnfolded
<1>5. Phases'
  BY DEF OperationUnfolded, HandlesUnfolded, Waiting
<1>6. Waiters'
  BY DEF HandlesUnfolded, Waiting, OperationUnfolded
<1> QED
  BY <1>1, <1>2, <1>3, <1>4, <1>5, <1>6

\* Operation promise_destroy keeps the invariant.
LEMMA Keeps_promise_destroy ==
  ASSUME IInv, promise_destroy
  PROVE  IInv'
<1> USE CellsDistinct DEF IInv, TypeOK, TargetIsLive, Phases, Waiters, await_ready, AllCells,
    Handles, Resolved, Kinds, Works, Free, promise_destroy, wakeup
<1>1. TypeOK'
  BY DEF Queries
<1>2. TargetIsLive'
  BY DEF OperationUnfolded
<1>3. HandlesUnfolded'
  BY DEF HandlesUnfolded, Waiting, OperationUnfolded
<1>4. OperationUnfolded'
  BY DEF OperationUnfolded
<1>5. Phases'
  BY DEF OperationUnfolded, HandlesUnfolded, Waiting
<1>6. Waiters'
  BY DEF HandlesUnfolded, Waiting, OperationUnfolded
<1> QED
  BY <1>1, <1>2, <1>3, <1>4, <1>5, <1>6

\* Operation resume_consumer keeps the invariant.
LEMMA Keeps_resume_consumer ==
  ASSUME IInv, resume_consumer
  PROVE  IInv'
<1> USE CellsDistinct DEF IInv, TypeOK, TargetIsLive, Phases, Waiters, await_ready, AllCells,
    Handles, Resolved, Kinds, Works, Free, resume_consumer, may_resume
<1>1. TypeOK'
  <2>1. work = "over" /\ subject \in Cells
    BY DEF HandlesUnfolded, Waiting
  <2>2. await_ready(subject)
    BY <2>1 DEF OperationUnfolded
  <2>3. seen' \in Resolved \cup {"yes", "no", "at_value", "at_end", "throws", None}
    BY <2>2
  <2>4. state' \in [AllCells -> Resolved \cup Kinds]
    OBVIOUS
  <2> QED
    BY <2>3, <2>4 DEF Queries
<1>2. TargetIsLive'
  BY DEF OperationUnfolded
<1>3. HandlesUnfolded'
  BY DEF HandlesUnfolded, Waiting, OperationUnfolded
<1>4. OperationUnfolded'
  BY DEF OperationUnfolded
<1>5. Phases'
  BY DEF OperationUnfolded, HandlesUnfolded, Waiting
<1>6. Waiters'
  BY DEF HandlesUnfolded, Waiting, OperationUnfolded
<1> QED
  BY <1>1, <1>2, <1>3, <1>4, <1>5, <1>6

\* Operation resume_frame keeps the invariant.
LEMMA Keeps_resume_frame ==
  ASSUME IInv, resume_frame
  PROVE  IInv'
<1> USE CellsDistinct DEF IInv, TypeOK, TargetIsLive, Phases, Waiters, await_ready, AllCells,
    Handles, Resolved, Kinds, Works, Free, resume_frame, may_resume
<1>1. TypeOK'
  BY DEF Queries
<1>2. TargetIsLive'
  BY DEF OperationUnfolded
<1>3. HandlesUnfolded'
  BY DEF HandlesUnfolded, Waiting, OperationUnfolded
<1>4. OperationUnfolded'
  BY DEF OperationUnfolded
<1>5. Phases'
  BY DEF OperationUnfolded, HandlesUnfolded, Waiting
<1>6. Waiters'
  BY DEF HandlesUnfolded, Waiting, OperationUnfolded
<1> QED
  BY <1>1, <1>2, <1>3, <1>4, <1>5, <1>6

\* Operation resume_reader keeps the invariant.
LEMMA Keeps_resume_reader ==
  ASSUME IInv, resume_reader
  PROVE  IInv'
<1> USE CellsDistinct DEF IInv, TypeOK, TargetIsLive, Phases, Waiters, await_ready, AllCells,
    Handles, Resolved, Kinds, Works, Free, resume_reader, may_resume, wakeup, Answer
<1>1. TypeOK'
  <2>1. seen' \in {"yes", "no", "at_value", "at_end", "throws"}
    OBVIOUS
  <2>2. state' \in [AllCells -> Resolved \cup Kinds]
    OBVIOUS
  <2> QED
    BY <2>1, <2>2 DEF Queries
<1>2. TargetIsLive'
  BY DEF OperationUnfolded
<1>3. HandlesUnfolded'
  BY DEF HandlesUnfolded, Waiting, OperationUnfolded
<1>4. OperationUnfolded'
  BY DEF OperationUnfolded
<1>5. Phases'
  BY DEF OperationUnfolded, HandlesUnfolded, Waiting
<1>6. Waiters'
  BY DEF HandlesUnfolded, Waiting, OperationUnfolded
<1> QED
  BY <1>1, <1>2, <1>3, <1>4, <1>5, <1>6

\* Every step keeps the invariant.
LEMMA StepIInv == IInv /\ [Next]_vars => IInv'
<1> SUFFICES ASSUME IInv, [Next]_vars PROVE IInv'
  OBVIOUS
<1>1. CASE Consumer
  BY <1>1, Keeps_construct, Keeps_move, Keeps_cancel, Keeps_destroy, Keeps_await_suspend,
     Keeps_set_callback, Keeps_read_pending
     DEF Consumer
<1>2. CASE get_temp_state
  BY <1>2, Keeps_get_temp_state
<1>3. CASE Finish
  BY <1>3, Keeps_set_result, Keeps_return_value, Keeps_promise_destroy,
     Keeps_final_suspend, Keeps_final_destroy
     DEF Finish, Resolved
<1>4. CASE Resume
  BY <1>4, Keeps_resume_consumer, Keeps_resume_frame, Keeps_resume_reader DEF Resume
<1>5. CASE UNCHANGED vars
  BY <1>5 DEF vars, IInv, TypeOK, TargetIsLive, HandlesUnfolded, OperationUnfolded, Phases,
     Waiters, Waiting, await_ready
<1> QED
  BY <1>1, <1>2, <1>3, <1>4, <1>5 DEF Next

\* The inductive invariant holds always.
LEMMA Inductive == Spec => []IInv
  BY InitIInv, StepIInv, PTL DEF Spec

\* Every cell, every handle and every phase of an operation has its type: a
\* result object or promise never leaves an awaitable in another state than
\* those of the enum State.
THEOREM TypeCorrect == Spec => []TypeOK
<1>1. IInv => TypeOK
  BY DEF IInv
<1> QED
  BY Inductive, <1>1, PTL

\* With any number of cells, awaitable_result::_ptr and promise_type::_target
\* never point to an awaitable that is gone, and until wakeup() somebody
\* waits there.
THEOREM LiveTarget == Spec => []TargetIsLive
<1>1. IInv => TargetIsLive
  BY DEF IInv
<1> QED
  BY Inductive, <1>1, PTL

\* With any number of cells, each handle that waits is in exactly one _owner or
\* prepared_coro, so that it is resumed once and not before.
THEOREM ResumedOnce == Spec => []HandleHeldOnce
<1>1. IInv => HandleHeldOnce
  BY Folding
<1> QED
  BY Inductive, <1>1, PTL

\* With any number of cells and any order of moves, cancellations and
\* destructions, a prepared operation is in exactly one cell until it is
\* started, and in none it could be started from again afterwards.
THEOREM StartedOnce == Spec => []OperationHeldOnce
<1>1. IInv => OperationHeldOnce
  BY Folding
<1> QED
  BY Inductive, <1>1, PTL

-----------------------------------------------------------------------------
(* What the one who waited learns                                          *)

\* The operation delivers to the one who asked, and where it delivers nobody
\* has written yet but get_temp_state.
DeliversToAsker ==
  target # None =>
    /\ subject = target
    /\ target = CB <=> query = "callback"
    /\ query \in Queries \cup {"await", "callback"}
    /\ seen = None
    /\ work = "running" /\ await_ready(target) => state[target] = "no_value"
    /\ work \in {"returned", "woken"} => state[target] = delivered
    /\ work \in {"running", "returned"} /\ target \in Cells =>
         owner[target] = IF query = "await" THEN "consumer" ELSE "reader"

\* The handle in a prepared_coro is that of the one who asked, and what it is
\* about to read is what was delivered.
PreparedForAsker ==
  /\ prepared = "frame" => query = "callback" /\ state[CB] = delivered
  /\ prepared = "reader" => /\ query \in Queries /\ subject \in Cells
                            /\ state[subject] = delivered
  /\ prepared = "consumer" => \/ query = "await" /\ state[subject] = delivered
                              \/ query \in Queries /\ seen = Answer(query, delivered)

\* A cell is owned only while the operation that delivers to it runs.
OwnedIsTarget == /\ \A c \in Cells \cup {CB} : owner[c] # None => c = target
                 /\ CB \notin live => state[CB] = "no_value"

\* What was learned is what was delivered, from the moment it is learned.
Learned ==
  seen # None =>
    /\ work = "over" /\ query \in Queries \cup {"await", "callback"}
    /\ seen = IF query \in Queries THEN Answer(query, delivered) ELSE delivered

\* The invariant SeesDelivered needs beside IInv.
SeesInv == DeliversToAsker /\ PreparedForAsker /\ OwnedIsTarget /\ Learned

\* While the consumer is free the operation, if one runs, delivers to no cell,
\* and only an awaiting_callback can be in a prepared_coro.
LEMMA FreeConsumer ==
  ASSUME IInv, SeesInv, Free
  PROVE  /\ target \in {CB, None}
         /\ \A c \in Cells : owner[c] = None
         /\ prepared \in {"frame", None}
         /\ \A c \in Cells : ~await_ready(c) => work = "prepared" /\ seen = None
<1>1. target \in {CB, None}
  BY DEF Free, IInv, TypeOK, Phases, AllCells
<1>2. \A c \in Cells : owner[c] = None
  BY <1>1, CellsDistinct DEF SeesInv, OwnedIsTarget, AllCells
<1>3. prepared \in {"frame", None}
  BY CellsDistinct DEF Free, IInv, TypeOK, HandlesUnfolded, Waiting, Waiters, Handles
<1>4. \A c \in Cells : ~await_ready(c) => work = "prepared"
  BY <1>1, CellsDistinct DEF IInv, OperationUnfolded, AllCells
<1>5. work = "prepared" => seen = None
  BY DEF SeesInv, Learned
<1> QED
  BY <1>1, <1>2, <1>3, <1>4, <1>5

\* Operation construct keeps what is read equal to what is delivered.
LEMMA Sees_construct ==
  ASSUME IInv, SeesInv, NEW c \in Cells, NEW k \in Kinds, construct(c, k)
  PROVE  SeesInv'
<1> USE CellsDistinct, FreeConsumer DEF IInv, TypeOK, SeesInv, Phases, Waiters, await_ready, AllCells,
    Handles, Resolved, Kinds, Works, Queries, Free, construct
<1>1. DeliversToAsker'
  BY DEF DeliversToAsker, OwnedIsTarget, TargetIsLive, OperationUnfolded
<1>2. PreparedForAsker'
  BY DEF PreparedForAsker, DeliversToAsker, HandlesUnfolded, Waiting, OperationUnfolded
<1>3. OwnedIsTarget'
  BY DEF OwnedIsTarget, HandlesUnfolded, Waiting
<1>4. Learned'
  BY DEF Learned, PreparedForAsker, DeliversToAsker, OperationUnfolded
<1> QED
  BY <1>1, <1>2, <1>3, <1>4

\* Operation move keeps what is read equal to what is delivered.
LEMMA Sees_move ==
  ASSUME IInv, SeesInv, NEW c \in Cells, NEW d \in Cells, move(c, d)
  PROVE  SeesInv'
<1> USE CellsDistinct, FreeConsumer DEF IInv, TypeOK, SeesInv, Phases, Waiters, await_ready, AllCells,
    Handles, Resolved, Kinds, Works, Queries, Free, move, dtor
<1>1. DeliversToAsker'
  BY DEF DeliversToAsker, OwnedIsTarget, TargetIsLive, OperationUnfolded
<1>2. PreparedForAsker'
  BY DEF PreparedForAsker, DeliversToAsker, HandlesUnfolded, Waiting, OperationUnfolded
<1>3. OwnedIsTarget'
  BY DEF OwnedIsTarget, HandlesUnfolded, Waiting
<1>4. Learned'
  BY DEF Learned, PreparedForAsker, DeliversToAsker, OperationUnfolded
<1> QED
  BY <1>1, <1>2, <1>3, <1>4

\* Operation cancel keeps what is read equal to what is delivered.
LEMMA Sees_cancel ==
  ASSUME IInv, SeesInv, NEW c \in Cells, cancel(c)
  PROVE  SeesInv'
<1> USE CellsDistinct, FreeConsumer DEF IInv, TypeOK, SeesInv, Phases, Waiters, await_ready, AllCells,
    Handles, Resolved, Kinds, Works, Queries, Free, cancel
<1>1. DeliversToAsker'
  BY DEF DeliversToAsker, OwnedIsTarget, TargetIsLive, OperationUnfolded
<1>2. PreparedForAsker'
  BY DEF PreparedForAsker, DeliversToAsker, HandlesUnfolded, Waiting, OperationUnfolded
<1>3. OwnedIsTarget'
  BY DEF OwnedIsTarget, HandlesUnfolded, Waiting
<1>4. Learned'
  BY DEF Learned, PreparedForAsker, DeliversToAsker, OperationUnfolded
<1> QED
  BY <1>1, <1>2, <1>3, <1>4

\* Operation destroy keeps what is read equal to what is delivered.
LEMMA Sees_destroy ==
  ASSUME IInv, SeesInv, NEW c \in Cells, destroy(c)
  PROVE  SeesInv'
<1> USE CellsDistinct, FreeConsumer DEF IInv, TypeOK, SeesInv, Phases, Waiters, await_ready, AllCells,
    Handles, Resolved, Kinds, Works, Queries, Free, destroy, dtor
<1>1. DeliversToAsker'
  BY DEF DeliversToAsker, OwnedIsTarget, TargetIsLive, OperationUnfolded
<1>2. PreparedForAsker'
  BY DEF PreparedForAsker, DeliversToAsker, HandlesUnfolded, Waiting, OperationUnfolded
<1>3. OwnedIsTarget'
  BY DEF OwnedIsTarget, HandlesUnfolded, Waiting
<1>4. Learned'
  BY DEF Learned, PreparedForAsker, DeliversToAsker, OperationUnfolded
<1> QED
  BY <1>1, <1>2, <1>3, <1>4

\* Operation await_suspend keeps what is read equal to what is delivered.
LEMMA Sees_await_suspend ==
  ASSUME IInv, SeesInv, NEW c \in Cells, await_suspend(c)
  PROVE  SeesInv'
<1> USE CellsDistinct, FreeConsumer DEF IInv, TypeOK, SeesInv, Phases, Waiters, await_ready, AllCells,
    Handles, Resolved, Kinds, Works, Queries, Free, await_suspend, Asks
<1>1. DeliversToAsker'
  BY DEF DeliversToAsker, OwnedIsTarget, TargetIsLive, OperationUnfolded
<1>2. PreparedForAsker'
  BY DEF PreparedForAsker, DeliversToAsker, HandlesUnfolded, Waiting, OperationUnfolded
<1>3. OwnedIsTarget'
  BY DEF OwnedIsTarget, HandlesUnfolded, Waiting
<1>4. Learned'
  BY DEF Learned, PreparedForAsker, DeliversToAsker, OperationUnfolded
<1> QED
  BY <1>1, <1>2, <1>3, <1>4

\* Operation set_callback keeps what is read equal to what is delivered.
LEMMA Sees_set_callback ==
  ASSUME IInv, SeesInv, NEW c \in Cells, set_callback(c)
  PROVE  SeesInv'
<1> USE CellsDistinct, FreeConsumer DEF IInv, TypeOK, SeesInv, Phases, Waiters, await_ready, AllCells,
    Handles, Resolved, Kinds, Works, Queries, Free, set_callback, Asks
<1>1. DeliversToAsker'
  <2>1. work = "prepared" /\ seen = None /\ target = None /\ prepared = None
    OBVIOUS
  <2>2. owner[CB] = None /\ \A d \in AllCells : owner[d] # "frame"
    BY <2>1 DEF OwnedIsTarget
  <2>3. CB \notin live
    BY <2>1, <2>2 DEF HandlesUnfolded, Waiting
  <2> QED
    BY <2>1, <2>3 DEF DeliversToAsker, OwnedIsTarget
<1>2. PreparedForAsker'
  BY DEF PreparedForAsker, DeliversToAsker, HandlesUnfolded, Waiting, OperationUnfolded
<1>3. OwnedIsTarget'
  BY DEF OwnedIsTarget, HandlesUnfolded, Waiting
<1>4. Learned'
  BY DEF Learned, PreparedForAsker, DeliversToAsker, OperationUnfolded
<1> QED
  BY <1>1, <1>2, <1>3, <1>4

\* Operation read_pending keeps what is read equal to what is delivered.
LEMMA Sees_read_pending ==
  ASSUME IInv, SeesInv, NEW q \in Queries, NEW c \in Cells, read_pending(q, c)
  PROVE  SeesInv'
<1> USE CellsDistinct, FreeConsumer DEF IInv, TypeOK, SeesInv, Phases, Waiters, await_ready, AllCells,
    Handles, Resolved, Kinds, Works, Queries, Free, read_pending, Asks
<1>1. DeliversToAsker'
  BY DEF DeliversToAsker, OwnedIsTarget, TargetIsLive, OperationUnfolded
<1>2. PreparedForAsker'
  BY DEF PreparedForAsker, DeliversToAsker, HandlesUnfolded, Waiting, OperationUnfolded
<1>3. OwnedIsTarget'
  BY DEF OwnedIsTarget, HandlesUnfolded, Waiting
<1>4. Learned'
  BY DEF Learned, PreparedForAsker, DeliversToAsker, OperationUnfolded
<1> QED
  BY <1>1, <1>2, <1>3, <1>4

\* Operation get_temp_state keeps what is read equal to what is delivered.
LEMMA Sees_get_temp_state ==
  ASSUME IInv, SeesInv, get_temp_state
  PROVE  SeesInv'
<1> USE CellsDistinct DEF IInv, TypeOK, SeesInv, Phases, Waiters, await_ready, AllCells,
    Handles, Resolved, Kinds, Works, Queries, get_temp_state
<1>1. DeliversToAsker'
  BY DEF DeliversToAsker, OwnedIsTarget, TargetIsLive, OperationUnfolded
<1>2. PreparedForAsker'
  BY DEF PreparedForAsker, DeliversToAsker, HandlesUnfolded, Waiting, OperationUnfolded
<1>3. OwnedIsTarget'
  BY DEF OwnedIsTarget, HandlesUnfolded, Waiting
<1>4. Learned'
  BY DEF Learned, PreparedForAsker, DeliversToAsker, OperationUnfolded
<1> QED
  BY <1>1, <1>2, <1>3, <1>4

\* Operation set_result keeps what is read equal to what is delivered.
LEMMA Sees_set_result ==
  ASSUME IInv, SeesInv, NEW v \in Resolved, set_result(v)
  PROVE  SeesInv'
<1> USE CellsDistinct DEF IInv, TypeOK, SeesInv, Phases, Waiters, await_ready, AllCells,
    Handles, Resolved, Kinds, Works, Queries, set_result, set_value, wakeup
<1>1. DeliversToAsker'
  BY DEF DeliversToAsker, OwnedIsTarget, TargetIsLive, OperationUnfolded
<1>2. PreparedForAsker'
  BY DEF PreparedForAsker, DeliversToAsker, HandlesUnfolded, Waiting, OperationUnfolded
<1>3. OwnedIsTarget'
  BY DEF OwnedIsTarget, TargetIsLive
<1>4. Learned'
  BY DEF Learned, PreparedForAsker, DeliversToAsker, OperationUnfolded
<1> QED
  BY <1>1, <1>2, <1>3, <1>4

\* Operation return_value keeps what is read equal to what is delivered.
LEMMA Sees_return_value ==
  ASSUME IInv, SeesInv, NEW v \in Resolved, return_value(v)
  PROVE  SeesInv'
<1> USE CellsDistinct DEF IInv, TypeOK, SeesInv, Phases, Waiters, await_ready, AllCells,
    Handles, Resolved, Kinds, Works, Queries, return_value, set_value
<1>1. DeliversToAsker'
  BY DEF DeliversToAsker, OwnedIsTarget, TargetIsLive, OperationUnfolded
<1>2. PreparedForAsker'
  BY DEF PreparedForAsker, DeliversToAsker, HandlesUnfolded, Waiting, OperationUnfolded
<1>3. OwnedIsTarget'
  BY DEF OwnedIsTarget, TargetIsLive
<1>4. Learned'
  BY DEF Learned, PreparedForAsker, DeliversToAsker, OperationUnfolded
<1> QED
  BY <1>1, <1>2, <1>3, <1>4

\* Operation final_suspend keeps what is read equal to what is delivered.
LEMMA Sees_final_suspend ==
  ASSUME IInv, SeesInv, final_suspend
  PROVE  SeesInv'
<1> USE CellsDistinct DEF IInv, TypeOK, SeesInv, Phases, Waiters, await_ready, AllCells,
    Handles, Resolved, Kinds, Works, Queries, final_suspend, wakeup
<1>1. DeliversToAsker'
  BY DEF DeliversToAsker, OwnedIsTarget, TargetIsLive, OperationUnfolded
<1>2. PreparedForAsker'
  BY DEF PreparedForAsker, DeliversToAsker, HandlesUnfolded, Waiting, OperationUnfolded
<1>3. OwnedIsTarget'
  BY DEF OwnedIsTarget, HandlesUnfolded, Waiting
<1>4. Learned'
  BY DEF Learned, PreparedForAsker, DeliversToAsker, OperationUnfolded
<1> QED
  BY <1>1, <1>2, <1>3, <1>4

\* Operation final_destroy keeps what is read equal to what is delivered.
LEMMA Sees_final_destroy ==
  ASSUME IInv, SeesInv, final_destroy
  PROVE  SeesInv'
<1> USE CellsDistinct DEF IInv, TypeOK, SeesInv, Phases, Waiters, await_ready, AllCells,
    Handles, Resolved, Kinds, Works, Queries, final_destroy
<1>1. DeliversToAsker'
  BY DEF DeliversToAsker, OwnedIsTarget, TargetIsLive, OperationUnfolded
<1>2. PreparedForAsker'
  BY DEF PreparedForAsker, DeliversToAsker, HandlesUnfolded, Waiting, OperationUnfolded
<1>3. OwnedIsTarget'
  BY DEF OwnedIsTarget, HandlesUnfolded, Waiting
<1>4. Learned'
  BY DEF Learned, PreparedForAsker, DeliversToAsker, OperationUnfolded
<1> QED
  BY <1>1, <1>2, <1>3, <1>4

\* Operation promise_destroy keeps what is read equal to what is delivered.
LEMMA Sees_promise_destroy ==
  ASSUME IInv, SeesInv, promise_destroy
  PROVE  SeesInv'
<1> USE CellsDistinct DEF IInv, TypeOK, SeesInv, Phases, Waiters, await_ready, AllCells,
    Handles, Resolved, Kinds, Works, Queries, promise_destroy, wakeup
<1>1. DeliversToAsker'
  BY DEF DeliversToAsker, OwnedIsTarget, TargetIsLive, OperationUnfolded
<1>2. PreparedForAsker'
  BY DEF PreparedForAsker, DeliversToAsker, HandlesUnfolded, Waiting, OperationUnfolded
<1>3. OwnedIsTarget'
  BY DEF OwnedIsTarget, HandlesUnfolded, Waiting
<1>4. Learned'
  BY DEF Learned, PreparedForAsker, DeliversToAsker, OperationUnfolded
<1> QED
  BY <1>1, <1>2, <1>3, <1>4

\* Operation resume_consumer keeps what is read equal to what is delivered.
LEMMA Sees_resume_consumer ==
  ASSUME IInv, SeesInv, resume_consumer
  PROVE  SeesInv'
<1> USE CellsDistinct DEF IInv, TypeOK, SeesInv, Phases, Waiters, await_ready, AllCells,
    Handles, Resolved, Kinds, Works, Queries, resume_consumer, may_resume
<1>1. DeliversToAsker'
  BY DEF DeliversToAsker, OwnedIsTarget, TargetIsLive, OperationUnfolded
<1>2. PreparedForAsker'
  BY DEF PreparedForAsker, DeliversToAsker, HandlesUnfolded, Waiting, OperationUnfolded
<1>3. OwnedIsTarget'
  BY DEF OwnedIsTarget, HandlesUnfolded, Waiting
<1>4. Learned'
  BY DEF Learned, PreparedForAsker, DeliversToAsker, OperationUnfolded
<1> QED
  BY <1>1, <1>2, <1>3, <1>4

\* Operation resume_frame keeps what is read equal to what is delivered.
LEMMA Sees_resume_frame ==
  ASSUME IInv, SeesInv, resume_frame
  PROVE  SeesInv'
<1> USE CellsDistinct DEF IInv, TypeOK, SeesInv, Phases, Waiters, await_ready, AllCells,
    Handles, Resolved, Kinds, Works, Queries, resume_frame, may_resume
<1>1. DeliversToAsker'
  BY DEF DeliversToAsker, OwnedIsTarget, TargetIsLive, OperationUnfolded
<1>2. PreparedForAsker'
  BY DEF PreparedForAsker, DeliversToAsker, HandlesUnfolded, Waiting, OperationUnfolded
<1>3. OwnedIsTarget'
  BY DEF OwnedIsTarget, HandlesUnfolded, Waiting
<1>4. Learned'
  BY DEF Learned, PreparedForAsker, DeliversToAsker, OperationUnfolded
<1> QED
  BY <1>1, <1>2, <1>3, <1>4

\* Operation resume_reader keeps what is read equal to what is delivered.
LEMMA Sees_resume_reader ==
  ASSUME IInv, SeesInv, resume_reader
  PROVE  SeesInv'
<1> USE CellsDistinct DEF IInv, TypeOK, SeesInv, Phases, Waiters, await_ready, AllCells,
    Handles, Resolved, Kinds, Works, Queries, resume_reader, may_resume, wakeup
<1>1. DeliversToAsker'
  BY DEF DeliversToAsker, OwnedIsTarget, TargetIsLive, OperationUnfolded
<1>2. PreparedForAsker'
  BY DEF PreparedForAsker, DeliversToAsker, HandlesUnfolded, Waiting, OperationUnfolded
<1>3. OwnedIsTarget'
  BY DEF OwnedIsTarget, HandlesUnfolded, Waiting
<1>4. Learned'
  BY DEF Learned, PreparedForAsker, DeliversToAsker, OperationUnfolded
<1> QED
  BY <1>1, <1>2, <1>3, <1>4

\* The invariant holds initially.
LEMMA InitSees == Init => SeesInv
  BY CellsDistinct DEF Init, SeesInv, DeliversToAsker, PreparedForAsker, OwnedIsTarget, Learned,
     AllCells, Handles

\* Every step keeps it.
LEMMA StepSees == IInv /\ SeesInv /\ [Next]_vars => SeesInv'
<1> SUFFICES ASSUME IInv, SeesInv, [Next]_vars PROVE SeesInv'
  OBVIOUS
<1>1. CASE Consumer
  BY <1>1, Sees_construct, Sees_move, Sees_cancel, Sees_destroy, Sees_await_suspend,
     Sees_set_callback, Sees_read_pending
     DEF Consumer
<1>2. CASE get_temp_state
  BY <1>2, Sees_get_temp_state
<1>3. CASE Finish
  BY <1>3, Sees_set_result, Sees_return_value, Sees_promise_destroy,
     Sees_final_suspend, Sees_final_destroy
     DEF Finish, Resolved
<1>4. CASE Resume
  BY <1>4, Sees_resume_consumer, Sees_resume_frame, Sees_resume_reader DEF Resume
<1>5. CASE UNCHANGED vars
  BY <1>5 DEF vars, SeesInv, DeliversToAsker, PreparedForAsker, OwnedIsTarget, Learned, await_ready
<1> QED
  BY <1>1, <1>2, <1>3, <1>4, <1>5 DEF Next

\* Whatever is moved, cancelled or destroyed meanwhile, whoever has waited for
\* an operation, by co_await, set_callback(), has_value() or begin(), has
\* learned what awaitable_result or the promise delivered, and nothing else.
THEOREM LearnsDelivered == Spec => []SeesDelivered
<1>1. Spec => []SeesInv
  BY Inductive, InitSees, StepSees, PTL DEF Spec
<1>2. SeesInv => SeesDelivered
  BY DEF SeesInv, Learned, SeesDelivered, Queries
<1> QED
  BY <1>1, <1>2, PTL
=============================================================================
