----------------------------- MODULE TimerQueue -----------------------------
(***************************************************************************)
(* What the scheduler classes need of their container of sleeping          *)
(* coroutines: a set of sleepers with deadlines and identities, from which *)
(* one with the earliest deadline, or one with a given identity, is taken. *)
(*                                                                         *)
(* This is the abstract specification of generic_scheduler (module         *)
(* SchedulerHeap), and the view that module Scheduler takes of it.         *)
(***************************************************************************)
EXTENDS Integers

CONSTANTS Sleepers,  (* the results of coroutines that can be scheduled    *)
          Idents,    (* their identities                                   *)
          Times,     (* the time points                                    *)
          None       (* no result, no time, no identity                    *)

VARIABLES deadline,  (* the deadline of each scheduled sleeper, else None  *)
          ident,     (* the identity of each scheduled sleeper, else None  *)
          out        (* the result taken out by the last call, and how: by *)
                     (* its identity, or as the first, with identity None  *)

vars == <<deadline, ident, out>>

Scheduled == {s \in Sleepers : deadline[s] # None}

Nothing == <<None, None>>

Init == /\ deadline = [s \in Sleepers |-> None]
        /\ ident = [s \in Sleepers |-> None]
        /\ out = Nothing

Schedule(s, t, i) ==
  /\ s \notin Scheduled
  /\ deadline' = [deadline EXCEPT ![s] = t]
  /\ ident' = [ident EXCEPT ![s] = i]
  /\ out' = Nothing

TakeOut(s, how) ==
  /\ s \in Scheduled
  /\ deadline' = [deadline EXCEPT ![s] = None]
  /\ ident' = [ident EXCEPT ![s] = None]
  /\ out' = <<how, s>>

\* Nobody who is taken out as the first overtakes an earlier deadline.
RemoveFirst(s) == /\ s \in Scheduled
                  /\ \A q \in Scheduled : deadline[s] <= deadline[q]
                  /\ TakeOut(s, None)

RemoveByIdent(s, i) == ident[s] = i /\ TakeOut(s, i)

\* set_time() sets the sleepers with an identity one after the other; each of
\* them is a step.
SetTime(s, t) == /\ s \in Scheduled
                 /\ deadline' = [deadline EXCEPT ![s] = t]
                 /\ out' = Nothing
                 /\ UNCHANGED ident

\* The caller has dealt with the result and goes on.
Forget == out' = Nothing /\ UNCHANGED <<deadline, ident>>

Next == \/ Forget
        \/ \E s \in Sleepers :
             \/ RemoveFirst(s)
             \/ \E i \in Idents : RemoveByIdent(s, i)
             \/ \E t \in Times : SetTime(s, t) \/ \E i \in Idents : Schedule(s, t, i)

Spec == Init /\ [][Next]_vars
=============================================================================
