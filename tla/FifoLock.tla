------------------------------ MODULE FifoLock ------------------------------
(***************************************************************************)
(* What a lock of coroutines promises to its users: one owner at a time,   *)
(* and a released lock that somebody waits for goes straight to the        *)
(* coroutine that has waited longest.  Nobody can overtake a waiter.       *)
(*                                                                         *)
(* This is the abstract specification of coro_mutex (module CoroMutex).    *)
(***************************************************************************)
EXTENDS Sequences

CONSTANTS Clients,  (* the coroutines that use the lock                   *)
          Null      (* owner of a lock that nobody owns                   *)

VARIABLES owner,    (* the client that owns the lock, or Null             *)
          waiters   (* the clients that wait for it, longest waiting first*)

vars == <<owner, waiters>>

IsWaiting(c) == \E i \in DOMAIN waiters : waiters[i] = c

Init == /\ owner = Null
        /\ waiters = <<>>

\* A free lock is taken at once.
Acquire(c) == /\ owner = Null
              /\ owner' = c
              /\ UNCHANGED waiters

\* A taken lock is waited for.
Enqueue(c) == /\ owner \notin {Null, c}
              /\ ~IsWaiting(c)
              /\ waiters' = Append(waiters, c)
              /\ UNCHANGED owner

\* A lock is free again only when its owner leaves it and nobody waits.
Release == /\ owner # Null
           /\ waiters = <<>>
           /\ owner' = Null
           /\ UNCHANGED waiters

\* A lock somebody waits for changes hands without ever being free.
HandOff == /\ owner # Null
           /\ waiters # <<>>
           /\ owner' = Head(waiters)
           /\ waiters' = Tail(waiters)

Next == \/ \E c \in Clients : Acquire(c) \/ Enqueue(c)
        \/ Release
        \/ HandOff

Spec == Init /\ [][Next]_vars
=============================================================================
