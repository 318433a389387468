------------------------ MODULE AsyncGeneratorProofs ------------------------
(***************************************************************************)
(* Proofs about AsyncGenerator for any cells and any number of values.     *)
(***************************************************************************)
EXTENDS AsyncGenerator, TLAPS

\* The generator works: it runs, or it waits for something of its own.
Works == gen \in {"running", "awaiting"}

\* The client names the cell it waits for as long as it waits.
NamesCell == Free <=> awaited = None

\* A handle that has been taken is that of a client that waits, and that was
\* not woken up yet.
HandleOfWaiter == handle => ~Free /\ ~_signal

\* Only the target's cell may be pending.
OnePending == \A c \in Cells : cell[c] = "pending" => c = _target

\* A request is made in an empty cell.
EmptyRequests == \A c \in Cells : cell[c] \in Prepared => value[c] = 0

\* A generator that was not resumed yet has not yielded.
FreshStart == gen = "initial" => ~_started

\* The client has everything, unless the generator has answered it and it
\* has not seen the answer yet: then the answer is the value it lacks.
Delivery ==
  IF ~Free /\ ~Works
  THEN \/ value[awaited] = 0 /\ yielded = received
       \/ value[awaited] = yielded /\ yielded = received + 1
  ELSE yielded = received

\* A client that waits is owed a wake-up: by a generator that works, by the
\* holder of its handle, or because its flag is set; and it does not sleep
\* on a flag that is set unless a call of notify_all() is due.
WakeUpIsOwed ==
  /\ ~Free => Works \/ handle \/ _signal
  /\ client = "blocked" /\ _signal => notifying

GeneratorInv == /\ TypeOK /\ WorksForRequest
                /\ NamesCell /\ HandleOfWaiter /\ OnePending /\ EmptyRequests
                /\ FreshStart /\ Delivery /\ WakeUpIsOwed

-----------------------------------------------------------------------------
(* The invariant is inductive                                              *)

\* There is no generator at first, and the client has received nothing.
LEMMA InitInv == Init => GeneratorInv
<1> SUFFICES ASSUME Init PROVE GeneratorInv
  OBVIOUS
<1> USE GeneratorConstants DEF Init, Free, Works
<1>1. TypeOK
  <2>1. 0 \in 0 .. MaxYields
    OBVIOUS
  <2>2. value \in [Cells -> 0 .. MaxYields] /\ yielded \in 0 .. MaxYields
        /\ received \in 0 .. MaxYields
    BY <2>1
  <2> QED
    BY <2>2 DEF TypeOK, GenStates, Prepared
<1>2. WorksForRequest
  BY DEF WorksForRequest
<1>3. NamesCell /\ HandleOfWaiter /\ OnePending /\ EmptyRequests /\ FreshStart
  BY DEF NamesCell, HandleOfWaiter, OnePending, EmptyRequests, FreshStart, Prepared
<1>4. Delivery /\ WakeUpIsOwed
  BY DEF Delivery, WakeUpIsOwed
<1> QED
  BY <1>1, <1>2, <1>3, <1>4 DEF GeneratorInv

\* A generator is created or destroyed.
LEMMA StepLifetime ==
  ASSUME GeneratorInv, create \/ destroy
  PROVE  GeneratorInv'
<1> USE DEF GeneratorInv
<1>0. /\ Free /\ ~Works /\ ~Works' /\ gen' \in {"initial", "none"}
      /\ _target = None /\ _target' = None
      /\ \/ _param' = _param /\ _started' = _started
         \/ _param' = None /\ _started' = FALSE
      /\ gen' = "initial" => _started' = FALSE
      /\ UNCHANGED <<cell, value, client, awaited, handle, _signal, notifying, yielded, received>>
  BY DEF create, destroy, Works, WorksForRequest, promise, waiting
<1>1. TypeOK'
  BY <1>0 DEF TypeOK, GenStates
<1>2. WorksForRequest'
  BY <1>0 DEF WorksForRequest, Works
<1>3. NamesCell' /\ HandleOfWaiter' /\ OnePending' /\ EmptyRequests' /\ FreshStart'
  BY <1>0 DEF NamesCell, HandleOfWaiter, OnePending, EmptyRequests, FreshStart, Free
<1>4. Delivery' /\ WakeUpIsOwed'
  BY <1>0 DEF Delivery, WakeUpIsOwed, Free
<1> QED
  BY <1>1, <1>2, <1>3, <1>4

\* A cell receives a request or is cleared, while the client is free.
LEMMA StepAssign ==
  ASSUME GeneratorInv, NEW c \in Cells, NEW q \in Prepared \cup {"ready"}, assign(c, q),
         _param' \in {_param, c}
  PROVE  GeneratorInv'
<1> USE DEF GeneratorInv
<1>0. /\ Free /\ ~Works
      /\ cell' = [cell EXCEPT ![c] = q] /\ value' = [value EXCEPT ![c] = 0]
      /\ UNCHANGED <<gen, _target, _started, client, awaited, handle, _signal, notifying,
                     yielded, received>>
  BY DEF assign, dropped, Works, WorksForRequest, waiting
<1>1. TypeOK'
  BY <1>0, GeneratorConstants DEF TypeOK
<1>2. WorksForRequest'
  BY <1>0 DEF WorksForRequest, Works, TypeOK, Prepared
<1>3. NamesCell' /\ HandleOfWaiter' /\ FreshStart'
  BY <1>0 DEF NamesCell, HandleOfWaiter, FreshStart, Free
<1>4. OnePending' /\ EmptyRequests'
  BY <1>0 DEF OnePending, EmptyRequests, TypeOK, Prepared
<1>5. Delivery' /\ WakeUpIsOwed'
  BY <1>0 DEF Delivery, WakeUpIsOwed, Free, Works
<1> QED
  BY <1>1, <1>2, <1>3, <1>4, <1>5

\* The request is awaited: the generator takes over, or has ended.
LEMMA StepNext ==
  ASSUME GeneratorInv, NEW c \in Cells, NEW m \in {"coroutine", "checking"}, next(c, m)
  PROVE  GeneratorInv'
<1> USE DEF GeneratorInv
<1>0. /\ Free /\ ~Works /\ ~Free' /\ client' = m /\ awaited' = c /\ _signal' = FALSE
      /\ ~handle /\ _target = None /\ yielded = received /\ value[c] = 0
      /\ UNCHANGED <<_param, _started, value, notifying, yielded, received>>
      /\ c # None
  BY GeneratorConstants DEF next, Works, WorksForRequest, HandleOfWaiter, Delivery,
     EmptyRequests, Prepared, Free
<1>1. CASE gen = "done"
  <2>1. /\ cell' = [cell EXCEPT ![c] = "ready"] /\ handle' = TRUE
        /\ UNCHANGED <<gen, _target>>
    BY <1>1 DEF next
  <2>2. TypeOK'
    BY <1>0, <2>1 DEF TypeOK
  <2>3. WorksForRequest'
    BY <1>0, <1>1, <2>1 DEF WorksForRequest, TypeOK
  <2>4. NamesCell' /\ HandleOfWaiter' /\ FreshStart'
    BY <1>0, <2>1, <1>1 DEF NamesCell, HandleOfWaiter, FreshStart
  <2>5. OnePending' /\ EmptyRequests'
    BY <1>0, <2>1 DEF OnePending, EmptyRequests, TypeOK, Prepared
  <2>6. Delivery' /\ WakeUpIsOwed'
    BY <1>0, <2>1 DEF Delivery, WakeUpIsOwed, Works
  <2> QED
    BY <2>2, <2>3, <2>4, <2>5, <2>6
<1>2. CASE gen # "done"
  <2>1. /\ cell' = [cell EXCEPT ![c] = "pending"] /\ _target' = c /\ gen' = "running"
        /\ handle' = handle
    BY <1>2 DEF next
  <2>2. TypeOK'
    BY <1>0, <2>1 DEF TypeOK, GenStates
  <2>3. _started => _param = c
    BY DEF next, FreshStart
  <2>4. WorksForRequest'
    BY <1>0, <2>1, <2>3 DEF WorksForRequest, TypeOK
  <2>5. NamesCell' /\ HandleOfWaiter' /\ FreshStart'
    BY <1>0, <2>1 DEF NamesCell, HandleOfWaiter, FreshStart
  <2>6. OnePending' /\ EmptyRequests'
    BY <1>0, <2>1 DEF OnePending, EmptyRequests, TypeOK, Prepared, WorksForRequest, Works
  <2>7. Delivery' /\ WakeUpIsOwed'
    BY <1>0, <2>1 DEF Delivery, WakeUpIsOwed, Works
  <2> QED
    BY <2>2, <2>4, <2>5, <2>6, <2>7
<1> QED
  BY <1>1, <1>2

\* The generator answers: with the next value, or with none at its end.
LEMMA StepAnswer ==
  ASSUME GeneratorInv, GeneratorAnswers
  PROVE  GeneratorInv'
<1> USE DEF GeneratorInv
<1>1. PICK state \in {"yielded", "done"}, v \in 0 .. MaxYields :
        /\ answer(state, v)
        /\ _started' \in {TRUE, _started}
        /\ \/ v = yielded + 1 /\ yielded' = yielded + 1
           \/ v = 0 /\ yielded' = yielded
  <2>1. CASE yield_value
    <3>1. yielded + 1 \in 0 .. MaxYields
      BY <2>1, GeneratorConstants DEF yield_value, TypeOK
    <3> QED
      BY <2>1, <3>1 DEF yield_value
  <2>2. CASE unhandled_exception
    <3>1. yielded + 1 \in 0 .. MaxYields
      BY <2>2, GeneratorConstants DEF unhandled_exception, TypeOK
    <3> QED
      BY <2>2, <3>1 DEF unhandled_exception
  <2>3. CASE return_void
    <3>1. 0 \in 0 .. MaxYields
      BY GeneratorConstants
    <3> QED
      BY <2>3, <3>1 DEF return_void
  <2> QED
    BY <2>1, <2>2, <2>3 DEF GeneratorAnswers
<1>2. /\ gen = "running" /\ Works /\ ~Free /\ ~handle /\ ~_signal
      /\ _target \in Cells /\ _target = awaited
      /\ yielded = received
  BY <1>1 DEF answer, Works, WorksForRequest, Delivery, TypeOK
<1>3. /\ gen' = state /\ ~Works' /\ _target' = None
      /\ cell' = [cell EXCEPT ![awaited] = "ready"]
      /\ value' = [value EXCEPT ![awaited] = v]
      /\ handle' = TRUE
      /\ UNCHANGED <<_param, client, awaited, _signal, notifying, received>>
  BY <1>1, <1>2, GeneratorConstants DEF answer, forget_target, Works
<1>4. value'[awaited] = v /\ awaited \in Cells /\ yielded' \in 0 .. MaxYields
  BY <1>1, <1>2, <1>3 DEF TypeOK
<1>5. TypeOK'
  BY <1>1, <1>2, <1>3, <1>4 DEF TypeOK, GenStates
<1>6. \A c \in Cells : cell'[c] # "pending" /\ (cell'[c] \in Prepared => cell[c] \in Prepared /\ c # awaited)
  BY <1>2, <1>3 DEF OnePending, TypeOK, Prepared
<1>7. WorksForRequest'
  BY <1>1, <1>3, <1>6 DEF WorksForRequest
<1>8. NamesCell' /\ HandleOfWaiter' /\ FreshStart'
  BY <1>1, <1>2, <1>3 DEF NamesCell, HandleOfWaiter, FreshStart, Free
<1>9. OnePending' /\ EmptyRequests'
  BY <1>3, <1>6 DEF OnePending, EmptyRequests, TypeOK
<1>10. Delivery'
  BY <1>1, <1>2, <1>3, <1>4 DEF Delivery, Free
<1>11. WakeUpIsOwed'
  BY <1>2, <1>3 DEF WakeUpIsOwed
<1> QED
  BY <1>5, <1>7, <1>8, <1>9, <1>10, <1>11

\* The generator waits for something else, or goes on.
LEMMA StepCoAwait ==
  ASSUME GeneratorInv, co_await
  PROVE  GeneratorInv'
<1> USE DEF GeneratorInv
<1>0. /\ Works /\ Works' /\ gen' \in {"running", "awaiting"}
      /\ UNCHANGED <<_target, _param, _started, cell, value, client, awaited, handle, _signal,
                     notifying, yielded, received>>
  BY DEF co_await, Works, promise, waiting
<1>1. TypeOK'
  BY <1>0 DEF TypeOK, GenStates
<1>2. WorksForRequest'
  BY <1>0 DEF WorksForRequest, Works, Free
<1>3. NamesCell' /\ HandleOfWaiter' /\ OnePending' /\ EmptyRequests' /\ FreshStart'
  BY <1>0 DEF NamesCell, HandleOfWaiter, OnePending, EmptyRequests, FreshStart, Free
<1>4. Delivery' /\ WakeUpIsOwed'
  BY <1>0 DEF Delivery, WakeUpIsOwed, Free
<1> QED
  BY <1>1, <1>2, <1>3, <1>4

\* The client goes on with the answer.
LEMMA StepReceive ==
  ASSUME GeneratorInv, receive, ~Free, ~Works, handle' = FALSE,
         UNCHANGED <<gen, _target, _param, _started, cell, value, _signal, notifying, yielded>>
  PROVE  GeneratorInv'
<1> USE DEF GeneratorInv
<1>0. /\ client' = "free" /\ Free' /\ ~Works' /\ awaited' = None /\ awaited \in Cells
      /\ received' = IF value[awaited] = 0 THEN received ELSE value[awaited]
  BY DEF receive, Free, Works, NamesCell, TypeOK
<1>1. received' = yielded
  BY <1>0 DEF Delivery, TypeOK
<1>2. TypeOK'
  BY <1>0, <1>1 DEF TypeOK
<1>3. WorksForRequest'
  BY <1>0 DEF WorksForRequest, Works
<1>4. NamesCell' /\ HandleOfWaiter' /\ OnePending' /\ EmptyRequests' /\ FreshStart'
  BY <1>0 DEF NamesCell, HandleOfWaiter, OnePending, EmptyRequests, FreshStart
<1>5. Delivery' /\ WakeUpIsOwed'
  BY <1>0, <1>1 DEF Delivery, WakeUpIsOwed
<1> QED
  BY <1>2, <1>3, <1>4, <1>5

\* The client's coroutine is resumed.
LEMMA StepResumeClient ==
  ASSUME GeneratorInv, resume_client
  PROVE  GeneratorInv'
<1>1. ~Free /\ ~Works
  BY DEF GeneratorInv, resume_client, Free, WorksForRequest, Works
<1> QED
  BY <1>1, StepReceive DEF resume_client, promise

\* The steps of the synchronous waiter and of its waker.
LEMMA StepSync ==
  ASSUME GeneratorInv, do_resume \/ notify_all \/ wait
  PROVE  GeneratorInv'
<1> USE DEF GeneratorInv
<1>1. CASE do_resume
  <2>1. /\ handle /\ client \in {"checking", "blocked"} /\ handle' = FALSE /\ ~Free /\ ~Free'
        /\ _signal' = TRUE /\ notifying' = TRUE
        /\ ~Works /\ ~Works'
        /\ UNCHANGED <<gen, _target, _param, _started, cell, value, client, awaited, yielded,
                       received>>
    BY <1>1 DEF do_resume, set_signal, Free, Works, WorksForRequest, promise
  <2>2. TypeOK'
    BY <2>1 DEF TypeOK
  <2>3. WorksForRequest'
    BY <2>1 DEF WorksForRequest, Works
  <2>4. NamesCell' /\ HandleOfWaiter' /\ OnePending' /\ EmptyRequests' /\ FreshStart'
    BY <2>1 DEF NamesCell, HandleOfWaiter, OnePending, EmptyRequests, FreshStart
  <2>5. Delivery' /\ WakeUpIsOwed'
    BY <2>1 DEF Delivery, WakeUpIsOwed
  <2> QED
    BY <2>2, <2>3, <2>4, <2>5
<1>2. ASSUME client' \in {"free", "coroutine", "checking", "blocked"}, Free' <=> Free,
             notifying' \in BOOLEAN,
             client' = "blocked" /\ _signal => notifying',
             UNCHANGED <<gen, _target, _param, _started, cell, value, awaited, handle, _signal,
                         yielded, received>>
      PROVE  GeneratorInv'
  <2>1. TypeOK'
    BY <1>2 DEF TypeOK
  <2>2. WorksForRequest'
    BY <1>2 DEF WorksForRequest
  <2>3. NamesCell' /\ HandleOfWaiter' /\ OnePending' /\ EmptyRequests' /\ FreshStart'
    BY <1>2 DEF NamesCell, HandleOfWaiter, OnePending, EmptyRequests, FreshStart
  <2>4. Works' <=> Works
    BY <1>2 DEF Works
  <2>5. Delivery' /\ WakeUpIsOwed'
    BY <1>2, <2>4 DEF Delivery, WakeUpIsOwed
  <2> QED
    BY <2>1, <2>2, <2>3, <2>5
<1>3. CASE notify_all
  <2>1. /\ client' = IF client = "blocked" THEN "checking" ELSE client
        /\ notifying' = FALSE
        /\ UNCHANGED <<gen, _target, _param, _started, cell, value, awaited, handle, _signal,
                       yielded, received>>
    BY <1>3 DEF notify_all, promise
  <2>2. /\ client' \in {"free", "coroutine", "checking", "blocked"} /\ client' # "blocked"
        /\ Free' <=> Free
    BY <2>1 DEF TypeOK, Free
  <2> QED
    BY <1>2, <2>1, <2>2
<1>4. CASE wait /\ _signal
  <2>1. ~Free /\ ~Works /\ ~handle
    BY <1>4 DEF wait, Free, Works, WorksForRequest, HandleOfWaiter
  <2>2. handle' = FALSE
    BY <1>4, <2>1 DEF wait, TypeOK
  <2> QED
    BY <1>4, <2>1, <2>2, StepReceive DEF wait, promise
<1>5. CASE wait /\ ~_signal
  <2>1. /\ client = "checking" /\ client' = "blocked"
        /\ UNCHANGED <<gen, _target, _param, _started, cell, value, awaited, handle, _signal,
                       notifying, yielded, received>>
    BY <1>5 DEF wait, promise
  <2>2. (Free' <=> Free) /\ notifying' \in BOOLEAN
    BY <2>1 DEF Free, TypeOK
  <2> QED
    BY <1>2, <1>5, <2>1, <2>2
<1> QED
  BY <1>1, <1>3, <1>4, <1>5

\* Every step keeps the invariant.
LEMMA NextInv ==
  ASSUME GeneratorInv, [Next]_vars
  PROVE  GeneratorInv'
<1>1. CASE create \/ destroy
  BY <1>1, StepLifetime
<1>2. ASSUME NEW c \in Cells, call(c) \/ start(c) \/ drop(c) PROVE GeneratorInv'
  <2>1. PICK q \in Prepared \cup {"ready"} : assign(c, q) /\ _param' \in {_param, c}
    BY <1>2 DEF call, start, drop, Prepared
  <2> QED
    BY <2>1, StepAssign
<1>3. ASSUME NEW c \in Cells, NEW m \in {"coroutine", "checking"}, next(c, m)
      PROVE  GeneratorInv'
  BY <1>3, StepNext
<1>4. CASE GeneratorAnswers
  BY <1>4, StepAnswer
<1>5. CASE co_await
  BY <1>5, StepCoAwait
<1>6. CASE resume_client
  BY <1>6, StepResumeClient
<1>7. CASE do_resume \/ notify_all \/ wait
  BY <1>7, StepSync
<1>8. CASE UNCHANGED vars
  <2> USE <1>8 DEF GeneratorInv, vars, promise, waiting, Free, Works
  <2>1. TypeOK' /\ WorksForRequest'
    BY DEF TypeOK, WorksForRequest
  <2>2. NamesCell' /\ HandleOfWaiter' /\ OnePending' /\ EmptyRequests' /\ FreshStart'
    BY DEF NamesCell, HandleOfWaiter, OnePending, EmptyRequests, FreshStart
  <2>3. Delivery' /\ WakeUpIsOwed'
    BY DEF Delivery, WakeUpIsOwed
  <2> QED
    BY <2>1, <2>2, <2>3
<1> QED
  BY <1>1, <1>2, <1>3, <1>4, <1>5, <1>6, <1>7, <1>8 DEF Next

-----------------------------------------------------------------------------
(* The theorems                                                            *)

\* The invariant holds in every reachable state.
LEMMA Invariance == Spec => []GeneratorInv
<1>1. Init => GeneratorInv
  BY InitInv
<1>2. GeneratorInv /\ [Next]_vars => GeneratorInv'
  BY NextInv
<1> QED
  BY <1>1, <1>2, PTL DEF Spec

\* The types of the promise's, the cells' and the client's state.
THEOREM TypeCorrect == Spec => []TypeOK
<1>1. GeneratorInv => TypeOK
  BY DEF GeneratorInv
<1> QED
  BY <1>1, Invariance, PTL

\* A generator that works does so for the request that the client awaits,
\* with that request's parameter, and keeps no pointer to a cell at rest.
THEOREM WorksForItsRequest == Spec => []WorksForRequest
<1>1. GeneratorInv => WorksForRequest
  BY DEF GeneratorInv
<1> QED
  BY <1>1, Invariance, PTL

\* The client misses no value and sees none twice.
THEOREM EveryValueSeen == Spec => []NothingSkipped
<1>1. GeneratorInv => NothingSkipped
  BY DEF GeneratorInv, Delivery, NothingSkipped
<1> QED
  BY <1>1, Invariance, PTL

\* The safety part of EveryRequestAnswered: no reachable state has a client
\* that waits and nobody who is to wake it up, also when the flag of wait()
\* is set between the waiter's test of it and its going to sleep.
THEOREM NoLostWakeUp == Spec => []WakeUpIsOwed
<1>1. GeneratorInv => WakeUpIsOwed
  BY DEF GeneratorInv
<1> QED
  BY <1>1, Invariance, PTL

=============================================================================
