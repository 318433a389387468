------------------------------ MODULE WhenAll -------------------------------
(***************************************************************************)
(* Class when_all of coroutine.h: the owner adds awaiters, waits for all   *)
(* of them with co_await or wait(), and may reset the object and go on.    *)
(*                                                                         *)
(* _cnt.count starts at 1, for the owner; every awaiter that is not ready  *)
(* adds one.  Whoever takes it to zero resumes the owner.  Awaiters        *)
(* complete on threads of their own; a step makes one access to the count, *)
(* or one to the plain member _cnt.r; atomics are sequentially consistent. *)
(***************************************************************************)
EXTENDS Naturals, FiniteSets

CONSTANTS
  Awaiters,   (* the awaiters                                              *)
  Voids,      (* those of them whose await_suspend returns void            *)
  MaxRounds   (* bound on the number of times the object is used           *)

ASSUME WhenAllConstants == /\ IsFiniteSet(Awaiters) /\ Voids \subseteq Awaiters
                           /\ MaxRounds \in Nat \ {0}

VARIABLES
  count,   (* _cnt.count                                                   *)
  r,       (* does _cnt.r hold the handle of the owner?                    *)
  owner,   (* where the owner is                                           *)
  op,      (* where each awaiter is, seen from the object                  *)
  round    (* how many times the object has been used                      *)

vars == <<count, r, owner, op, round>>

Ops == {"none",        (* not added in this round                          *)
        "suspending",  (* counted, await_suspend has not been called yet   *)
        "pending",     (* will resume the counter when it completes        *)
        "forgotten",   (* counted, but nobody called its await_suspend     *)
        "resumed",     (* has entered do_resume                            *)
        "last",        (* has taken the count to zero                      *)
        "done"}        (* complete, or was ready when added                *)

Init == /\ count = 1
        /\ r = FALSE
        /\ owner = "building"
        /\ op = [a \in Awaiters |-> "none"]
        /\ round = 1

-----------------------------------------------------------------------------
(* The owner                                                               *)

\* add(): the count is raised before await_suspend is called.
add(a) ==
  /\ owner = "building"
  /\ op[a] = "none"
  /\ \/ /\ op' = [op EXCEPT ![a] = "done"]
        /\ UNCHANGED <<count, owner>>
     \/ /\ count' = count + 1
        /\ op' = [op EXCEPT ![a] = "suspending"]
        /\ owner' = "adding"
  /\ UNCHANGED <<r, round>>

\* call_await_suspend(): the awaiter is left pending, or refuses because it
\* is complete by now, and then the counter is resumed as if by the awaiter.
\* An await_suspend that returns void is not called at all.
call_await_suspend(a) ==
  /\ owner = "adding"
  /\ op[a] = "suspending"
  /\ \E l \in IF a \in Voids THEN {"forgotten"} ELSE {"pending", "resumed"} :
       op' = [op EXCEPT ![a] = l]
  /\ owner' = "building"
  /\ UNCHANGED <<count, r, round>>

await_ready ==
  /\ owner = "building"
  /\ owner' = IF count <= 1 THEN "joined" ELSE "store"
  /\ UNCHANGED <<count, r, op, round>>

\* await_suspend(), first line.
await_suspend_store ==
  /\ owner = "store"
  /\ r' = TRUE
  /\ owner' = "arrive"
  /\ UNCHANGED <<count, op, round>>

\* A defective await_suspend that suspends without looking at the count.
await_suspend_untested ==
  /\ owner = "arrive"
  /\ count' = count - 1
  /\ owner' = "suspended"
  /\ UNCHANGED <<r, op, round>>

\* await_suspend(), do_resume() on behalf of the owner.
await_suspend_arrive ==
  /\ owner = "arrive"
  /\ count' = count - 1
  /\ IF count = 1 THEN r' = FALSE /\ owner' = "joined"
                  ELSE owner' = "suspended" /\ UNCHANGED r
  /\ UNCHANGED <<op, round>>

\* A defective reset that leaves a count of zero as it is.
reset_nothing ==
  /\ owner = "joined"
  /\ round < MaxRounds
  /\ round' = round + 1
  /\ op' = [a \in Awaiters |-> "none"]
  /\ owner' = "building"
  /\ UNCHANGED <<count, r>>

\* reset() after a wait, and the object is used for another round.
reset ==
  /\ owner = "joined"
  /\ round < MaxRounds
  /\ round' = round + 1
  /\ count' = IF count = 0 THEN 1 ELSE count
  /\ op' = [a \in Awaiters |-> "none"]
  /\ owner' = "building"
  /\ UNCHANGED r

\* The destructor, after a wait: wait() finds the count at 0 or 1.
destroy ==
  /\ owner = "joined"
  /\ count <= 1
  /\ owner' = "destroyed"
  /\ UNCHANGED <<count, r, op, round>>

-----------------------------------------------------------------------------
(* The awaiters                                                            *)

complete(a) ==
  /\ op[a] = "pending"
  /\ op' = [op EXCEPT ![a] = "resumed"]
  /\ UNCHANGED <<count, r, owner, round>>

\* A defective do_resume that takes a count of two for the last.
do_resume_early(a) ==
  /\ op[a] = "resumed"
  /\ count' = count - 1
  /\ op' = [op EXCEPT ![a] = IF count <= 2 THEN "last" ELSE "done"]
  /\ UNCHANGED <<r, owner, round>>

\* do_resume(): fetch_sub.
do_resume(a) ==
  /\ op[a] = "resumed"
  /\ count' = count - 1
  /\ op' = [op EXCEPT ![a] = IF count = 1 THEN "last" ELSE "done"]
  /\ UNCHANGED <<r, owner, round>>

\* do_resume(): std::move(r), and the owner, if it waits there, is resumed.
do_resume_move_r(a) ==
  /\ op[a] = "last"
  /\ op' = [op EXCEPT ![a] = "done"]
  /\ r' = FALSE
  /\ owner' = IF r THEN "joined" ELSE owner
  /\ UNCHANGED <<count, round>>

-----------------------------------------------------------------------------

Owner == \/ \E a \in Awaiters : add(a) \/ call_await_suspend(a)
         \/ await_ready \/ await_suspend_store \/ await_suspend_arrive
         \/ reset \/ destroy

Awaiter(a) == complete(a) \/ do_resume(a) \/ do_resume_move_r(a)

Next == Owner \/ \E a \in Awaiters : Awaiter(a)

Spec == Init /\ [][Next]_vars

\* The owner executes its program, and every awaiter completes.
FairSpec == Spec /\ WF_vars(Owner) /\ \A a \in Awaiters : WF_vars(Awaiter(a))

-----------------------------------------------------------------------------
(* Properties                                                              *)

\* The variables have their types; the count never wraps below zero.
TypeOK ==
  /\ count \in 0..(Cardinality(Awaiters) + 1)
  /\ r \in BOOLEAN
  /\ owner \in {"building", "adding", "store", "arrive", "suspended", "joined",
                "destroyed"}
  /\ op \in [Awaiters -> Ops]
  /\ round \in 1..MaxRounds

\* The owner goes on only when every awaiter it added is complete, and then
\* no awaiter is still inside do_resume(): the object may be reset or
\* destroyed.
JoinsAll ==
  owner \in {"joined", "destroyed"} => \A a \in Awaiters : op[a] \in {"none", "done"}

\* A wait ends, unless an awaiter was counted that nobody has asked to resume
\* the counter.
WaitEnds == owner \in {"store", "arrive", "suspended"}
              ~> owner = "joined" \/ \E a \in Awaiters : op[a] = "forgotten"

\* A wait ends, whatever the awaiters are.
JoinEnds == owner \in {"store", "arrive", "suspended"} ~> owner = "joined"
=============================================================================
