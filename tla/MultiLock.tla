----------------------------- MODULE MultiLock ------------------------------
(***************************************************************************)
(* Class multi_lock of coro_mutex.h: an object that locks N mutexes by     *)
(* locking one and trying the others, with its await_member_callback of    *)
(* coroutine.h.  The mutexes are the locks of module FifoLock, which       *)
(* coro_mutex implements.                                                  *)
(*                                                                         *)
(* Every access to a mutex is a step.  Lockers, objects with a coroutine   *)
(* that locks by them, and clients, who take single mutexes, run on        *)
(* threads of their own.  But whoever releases a mutex that a locker waits *)
(* for runs that locker's lock_complete() at once, inside of its release,  *)
(* and goes on only when the locker waits again or is done.                *)
(***************************************************************************)
EXTENDS Naturals, Sequences, FiniteSets

CONSTANTS
  Lockers, Clients, Mutexes,
  N,              (* number of mutexes of a multi_lock                     *)
  locking,        (* member locking of each object                         *)
  Null,           (* no mutex, nobody                                      *)
  MaxHeld,        (* how many mutexes a client holds at a time             *)
  MaxUses         (* bound on the uses of each locker and each client      *)

Users == Lockers \cup Clients
Index == 0 .. N - 1

ASSUME MultiLockConstants ==
  /\ Lockers \cap Clients = {} /\ Null \notin Users \cup Mutexes
  /\ N \in Nat \ {0} /\ MaxHeld \in Nat /\ MaxUses \in Nat
  /\ locking \in [Lockers -> [Index -> Mutexes]]

VARIABLES
  holder,   (* who holds each mutex                                        *)
  queue,    (* the lockers that wait for each mutex                        *)
  obj,      (* each multi_lock, with the locals of its functions           *)
  uses      (* how often each user has locked so far                       *)

vars == <<holder, queue, obj, uses>>

\* What is held by members and locals of type ownership is a mutex or Null.
Unlocked ==
  [at |-> "idle",                     (* where its code is                 *)
   owns |-> [k \in Index |-> Null],   (* member owns                       *)
   o |-> Null,                        (* local of lock()                   *)
   trial |-> Null,                    (* local of lock_others()            *)
   i |-> 1,                           (* loop variable of lock_others()    *)
   first |-> 0,                       (* member first                      *)
   caller |-> Null]                   (* who executes it in a release      *)

Init == /\ holder = [m \in Mutexes |-> Null]
        /\ queue = [m \in Mutexes |-> <<>>]
        /\ obj = [l \in Lockers |-> Unlocked]
        /\ uses = [u \in Users |-> 0]

\* Code of the object is being executed.
Active == {"others", "trial", "failed", "leave", "first"}

\* A user that is inside of a release is not back yet.
Busy(u) == \E l \in Lockers : obj[l].caller = u /\ obj[l].at \in Active

At(l, label) == obj[l].at = label /\ ~Busy(l)

\* Variant of Owned: nothing is found.
Owned_none(l) == {}

\* The elements of owns that hold a mutex.
Owned(l) == {k \in Index : obj[l].owns[k] # Null}

Held(l) == ({obj[l].owns[k] : k \in Index} \cup {obj[l].o, obj[l].trial})
           \ {Null}

-----------------------------------------------------------------------------
(* The mutexes and the callback                                            *)

try_lock(u, m) == holder[m] = Null /\ holder' = [holder EXCEPT ![m] = u]

\* Variant of lock_complete: the ownership is left in the awaitable.
lock_complete_unstored(r, m) == [r EXCEPT !.i = 1, !.at = "others"]

\* The start of lock_complete(): the ownership of m is stored and the loop
\* begins.
lock_complete(r, m) ==
  [r EXCEPT !.owns[r.first] = m, !.i = 1, !.at = "others"]

\* do_resume() of the callback, executed by u.
do_resume(r, m, u) == lock_complete([r EXCEPT !.caller = u], m)

\* u releases m, and is then in state r if it is a locker.  The locker that
\* has waited longest receives the ownership, and is resumed by u.
release(u, m, r) ==
  LET w == IF queue[m] = <<>> THEN Null ELSE Head(queue[m]) IN
  /\ holder' = [holder EXCEPT ![m] = w]
  /\ queue' = [queue EXCEPT ![m] = IF w = Null THEN @ ELSE Tail(@)]
  /\ obj' = [l \in Lockers |-> IF l = u THEN r
                               ELSE IF l = w THEN do_resume(obj[l], m, u)
                               ELSE obj[l]]
  /\ UNCHANGED uses

-----------------------------------------------------------------------------
(* multi_lock                                                              *)

become(l, r) == obj' = [obj EXCEPT ![l] = r]

\* lock(): the first mutex is tried.
lock(l) ==
  /\ At(l, "idle")
  /\ uses[l] < MaxUses
  /\ uses' = [uses EXCEPT ![l] = @ + 1]
  /\ LET m == locking[l][0]
         r == [obj[l] EXCEPT !.caller = Null] IN
     \/ /\ try_lock(l, m)
        /\ become(l, [r EXCEPT !.o = m, !.i = 1, !.at = "others"])
     \/ /\ holder[m] # Null
        /\ become(l, [r EXCEPT !.at = "prepared"])
        /\ UNCHANGED holder
  /\ UNCHANGED queue

\* The awaitable that lock() returns is awaited, or dropped.
await(l) ==
  /\ At(l, "prepared")
  /\ \E label \in {"first", "idle"} : become(l, [obj[l] EXCEPT !.at = label])
  /\ UNCHANGED <<holder, queue, uses>>

\* lock_others(): the next mutex is tried.
lock_others(l) ==
  /\ At(l, "others")
  /\ obj[l].i < N
  /\ LET m == locking[l][(obj[l].i + obj[l].first) % N] IN
     \/ /\ try_lock(l, m)
        /\ become(l, [obj[l] EXCEPT !.trial = m, !.at = "trial"])
     \/ /\ holder[m] # Null
        /\ become(l, [obj[l] EXCEPT !.at = "failed"])
        /\ UNCHANGED holder
  /\ UNCHANGED <<queue, uses>>

\* The end of an iteration destroys the ownership that it has obtained.
lock_others_next(l) ==
  /\ At(l, "trial")
  /\ release(l, obj[l].trial, [obj[l] EXCEPT !.trial = Null, !.i = @ + 1,
                                             !.at = "others"])

\* lock_others() succeeds: lock() returns, or lock_complete() calls r().
lock_others_end(l) ==
  /\ At(l, "others")
  /\ obj[l].i = N
  /\ become(l, [obj[l] EXCEPT !.at = IF obj[l].o = Null THEN "locked"
                                     ELSE "leave"])
  /\ UNCHANGED <<holder, queue, uses>>

\* lock_others() fails and releases owns; it returns the number of the
\* iteration, which the caller stores in first.
rollback(l) ==
  /\ At(l, "failed")
  /\ \/ \E k \in Owned(l) :
          release(l, obj[l].owns[k], [obj[l] EXCEPT !.owns[k] = Null])
     \/ /\ Owned(l) = {}
        /\ become(l, [obj[l] EXCEPT !.first = obj[l].i,
                                    !.at = IF obj[l].o = Null THEN "first"
                                           ELSE "leave"])
        /\ UNCHANGED <<holder, queue, uses>>

\* The local ownership of lock() is destroyed when it returns.
leave(l) ==
  /\ At(l, "leave")
  /\ release(l, obj[l].o, [obj[l] EXCEPT !.o = Null,
                             !.at = IF obj[l].i = N THEN "locked"
                                    ELSE "prepared"])

\* await_cont() with lock() of m: the callback is resumed by the same caller
\* if the mutex is free, else it waits.
await_cont(l, m) ==
  \/ /\ try_lock(l, m)
     /\ become(l, do_resume(obj[l], m, obj[l].caller))
     /\ UNCHANGED queue
  \/ /\ holder[m] # Null
     /\ queue' = [queue EXCEPT ![m] = Append(@, l)]
     /\ become(l, [obj[l] EXCEPT !.at = "waiting"])
     /\ UNCHANGED holder

lock_first(l) ==
  /\ At(l, "first")
  /\ await_cont(l, locking[l][obj[l].first])
  /\ UNCHANGED uses

\* The ownerships are released, by the object or by whoever was given them
\* by get_ownership(); then the object can be used again.
unlock(l) ==
  /\ At(l, "locked")
  /\ \/ \E k \in Owned(l) :
          release(l, obj[l].owns[k], [obj[l] EXCEPT !.owns[k] = Null])
     \/ /\ Owned(l) = {}
        /\ become(l, [obj[l] EXCEPT !.at = "idle"])
        /\ UNCHANGED <<holder, queue, uses>>

-----------------------------------------------------------------------------
(* The clients                                                             *)

client_lock(c, m) ==
  /\ ~Busy(c)
  /\ uses[c] < MaxUses
  /\ Cardinality({x \in Mutexes : holder[x] = c}) < MaxHeld
  /\ try_lock(c, m)
  /\ uses' = [uses EXCEPT ![c] = @ + 1]
  /\ UNCHANGED <<queue, obj>>

client_unlock(c, m) ==
  /\ ~Busy(c)
  /\ holder[m] = c
  /\ release(c, m, Null)

Proceed(l) == \/ await(l) \/ lock_others(l) \/ lock_others_next(l)
              \/ lock_others_end(l) \/ rollback(l) \/ leave(l)
              \/ lock_first(l) \/ unlock(l)

Next == \/ \E l \in Lockers : lock(l) \/ Proceed(l)
        \/ \E c \in Clients, m \in Mutexes :
             client_lock(c, m) \/ client_unlock(c, m)

Spec == Init /\ [][Next]_vars

\* Threads run, and those who hold a mutex release it.
FairSpec ==
  /\ Spec
  /\ \A l \in Lockers : WF_vars(Proceed(l))
  /\ \A c \in Clients, m \in Mutexes : WF_vars(client_unlock(c, m))

-----------------------------------------------------------------------------
(* Properties                                                              *)

\* Nobody holds one mutex and waits for another: a locker that is queued,
\* or that is about to be, has rolled back everything it had obtained.
WaitsEmptyHanded ==
  \A l \in Lockers : obj[l].at \in {"idle", "prepared", "first", "waiting"}
                     => Held(l) = {}

\* The ownership objects tell who holds the mutexes: a mutex is held by a
\* locker exactly if one of its ownerships holds it; no mutex stays locked
\* for ever with nobody to release it, and none is released twice.
OwnershipsMatch ==
  \A l \in Lockers :
    /\ Held(l) = {m \in Mutexes : holder[m] = l}
    /\ Cardinality(Owned(l)) + Cardinality({obj[l].o} \ {Null})
       + Cardinality({obj[l].trial} \ {Null}) = Cardinality(Held(l))

Mutex(m) == INSTANCE FifoLock WITH Clients <- Users, owner <- holder[m],
                                   waiters <- queue[m]

\* Every mutex is used as the lock that coro_mutex implements: it is taken
\* only when it is free, changes hands in the order of arrival, and nobody
\* queues for a mutex that it holds itself or waits for already.
UsesFifoLocks ==
  /\ \A m \in Mutexes : Mutex(m)!Init
  /\ [][\A m \in Mutexes : [Mutex(m)!Next]_<<holder[m], queue[m]>>]_vars

\* "the object holds the ownership": when locking has succeeded, all mutexes
\* are held by the object.
HoldsAll ==
  \A l \in Lockers : obj[l].at = "locked" =>
    \A k \in Index : holder[locking[l][k]] = l

\* "ensures that no deadlock happen": whoever waits for the mutexes gets
\* them, when those who hold them release them.
EveryLockCompletes ==
  \A l \in Lockers : obj[l].at = "waiting" ~> obj[l].at = "locked"
=============================================================================
