---------------------------- MODULE Distributor -----------------------------
(***************************************************************************)
(* Class distributor of coro_distributor.h: coroutines register to receive *)
(* the next broadcast; they may be kicked out or alerted before it comes.  *)
(*                                                                         *)
(* Every function does its work under _mx, so that each is one step; the   *)
(* exception is broadcast(args), which resumes the coroutines one by one   *)
(* after it has released _mx, while they and other threads call the other  *)
(* functions.  A coroutine uses one alert flag, its own, and is named for  *)
(* it; a plain ident may be shared.                                        *)
(***************************************************************************)
EXTENDS Integers, Sequences, FiniteSets

CONSTANTS
  Coros,          (* the coroutines, each with its alert flag              *)
  Idents,         (* the other idents that they register with              *)
  MaxBroadcasts,  (* bound on the number of broadcasts                     *)
  Reentrant       (* may broadcast(args) be called while one is under way? *)

ASSUME DistributorConstants == /\ IsFiniteSet(Coros) /\ IsFiniteSet(Idents)
                               /\ Coros \cap Idents = {}
                               /\ MaxBroadcasts \in Nat
                               /\ Reentrant \in BOOLEAN

VARIABLES
  _results,        (* the registered coroutines: [r: handle, i: ident]     *)
  _ready_to_run,   (* the handles that broadcast(args) resumes             *)
  pos,             (* which of them clear() destroys next, 0 outside of it *)
  buffers,         (* handles held by the callers of the other functions   *)
  alerted,         (* the coroutines whose alert flag is set               *)
  running,         (* the coroutines that are not waiting                  *)
  got,             (* what each coroutine's last wait gave it              *)
  since,           (* broadcasts made before its last registration         *)
  broadcasts       (* broadcasts made; the n-th broadcasts the value n     *)

vars == <<_results, _ready_to_run, pos, buffers, alerted, running, got,
          since, broadcasts>>

NoValue == 0       (* the result is set to std::nullopt                    *)
Exception == -1    (* the result is set to an exception                    *)

Init == /\ _results = <<>>
        /\ _ready_to_run = <<>> /\ pos = 0
        /\ buffers = {}
        /\ alerted = {}
        /\ running = Coros
        /\ got = [c \in Coros |-> NoValue]
        /\ since = [c \in Coros |-> 0]
        /\ broadcasts = 0

-----------------------------------------------------------------------------
(* The list of registered coroutines                                       *)

Listed(i) == {k \in DOMAIN _results : _results[k].i = i}

\* find_if(): the first entry with the ident.
FindIf(i) == CHOOSE k \in Listed(i) : \A l \in Listed(i) : k <= l

\* Variant of SwapPop: the last entry is removed, whichever was found.
SwapPop_last(s, k) == [j \in 1 .. Len(s) - 1 |-> s[j]]

\* The entry changes places with the last one, which is then removed.
SwapPop(s, k) ==
  [j \in 1 .. Len(s) - 1 |-> IF j = k THEN s[Len(s)] ELSE s[j]]

Handles(s) == {s[k].r : k \in DOMAIN s}

\* Every result of a set of coroutines is set to v.
SetResults(C, v) == got' = [c \in Coros |-> IF c \in C THEN v ELSE got[c]]

-----------------------------------------------------------------------------
(* The operations                                                          *)

push_back(c, i) ==
  /\ _results' = Append(_results, [r |-> c, i |-> i])
  /\ running' = running \ {c}
  /\ since' = [since EXCEPT ![c] = broadcasts]
  /\ UNCHANGED <<_ready_to_run, pos, buffers, alerted, got, broadcasts>>

add_listener(c, i) ==
  /\ c \in running
  /\ push_back(c, i)

\* Variant of add_listener_alertable: the flag is not looked at.
add_listener_unchecked(c) ==
  /\ c \in running
  /\ push_back(c, c)

\* The form with an alert flag: if the flag is set, the result object is
\* dropped and the coroutine goes on without a value.
add_listener_alertable(c) ==
  /\ c \in running
  /\ \/ /\ c \notin alerted
        /\ push_back(c, c)
     \/ /\ c \in alerted
        /\ SetResults({c}, NoValue)
        /\ UNCHANGED <<_results, _ready_to_run, pos, buffers, alerted,
                       running, since, broadcasts>>

\* Variant of broadcast_value: the list is not cleared.
broadcast_value_uncleared ==
  /\ broadcasts < MaxBroadcasts
  /\ broadcasts' = broadcasts + 1
  /\ SetResults(Handles(_results), broadcasts + 1)
  /\ UNCHANGED <<_results, alerted, running, since>>

\* The common part: everybody's result is set, the list is cleared.
broadcast_value ==
  /\ broadcasts < MaxBroadcasts
  /\ broadcasts' = broadcasts + 1
  /\ SetResults(Handles(_results), broadcasts + 1)
  /\ _results' = <<>>
  /\ UNCHANGED <<alerted, running, since>>

broadcast_buffer ==
  /\ broadcast_value
  /\ buffers' = buffers \cup Handles(_results)
  /\ UNCHANGED <<_ready_to_run, pos>>

\* One call at a time: the documentation asks for it of threads.  A call by a
\* coroutine that clear() resumes adds to the vector that is being cleared,
\* and clears it from its start.
broadcast ==
  /\ pos # 0 => Reentrant
  /\ broadcast_value
  /\ _ready_to_run' = _ready_to_run
                      \o [k \in DOMAIN _results |-> _results[k].r]
  /\ pos' = 1
  /\ UNCHANGED buffers

\* _ready_to_run.clear(): destroying a prepared_coro resumes the coroutine.
clear ==
  /\ pos \in DOMAIN _ready_to_run
  /\ running' = running \cup {_ready_to_run[pos]}
  /\ pos' = pos + 1
  /\ UNCHANGED <<_results, _ready_to_run, buffers, alerted, got, since,
                 broadcasts>>

clear_end ==
  /\ pos > Len(_ready_to_run)
  /\ _ready_to_run' = <<>>
  /\ pos' = 0
  /\ UNCHANGED <<_results, buffers, alerted, running, got, since, broadcasts>>

\* What kick_out() and alert() do with the entry that they find, if any.
remove(i, v) ==
  /\ IF Listed(i) = {}
     THEN UNCHANGED <<_results, buffers, got>>
     ELSE LET k == FindIf(i) IN
          /\ SetResults({_results[k].r}, v)
          /\ buffers' = buffers \cup {_results[k].r}
          /\ _results' = SwapPop(_results, k)
  /\ UNCHANGED <<_ready_to_run, pos, running, since, broadcasts>>

\* The resolver gives no value, or an exception, and returns the handle.
kick_out(i) ==
  /\ \E v \in {NoValue, Exception} : remove(i, v)
  /\ UNCHANGED alerted

alert(c) ==
  /\ alerted' = alerted \cup {c}
  /\ remove(c, NoValue)

-----------------------------------------------------------------------------
(* The users                                                               *)

\* alert_flag_type: the coroutine resets its flag.
test_and_reset(c) ==
  /\ c \in running \cap alerted
  /\ alerted' = alerted \ {c}
  /\ UNCHANGED <<_results, _ready_to_run, pos, buffers, running, got, since,
                 broadcasts>>

\* A caller drops a handle that it was given.
resume(c) ==
  /\ c \in buffers
  /\ buffers' = buffers \ {c}
  /\ running' = running \cup {c}
  /\ UNCHANGED <<_results, _ready_to_run, pos, alerted, got, since,
                 broadcasts>>

Next ==
  \/ broadcast_buffer \/ broadcast \/ clear \/ clear_end
  \/ \E i \in Idents \cup Coros : kick_out(i)
  \/ \E c \in Coros :
       \/ \E i \in Idents : add_listener(c, i)
       \/ add_listener_alertable(c)
       \/ alert(c) \/ test_and_reset(c) \/ resume(c)

Spec == Init /\ [][Next]_vars

-----------------------------------------------------------------------------
(* Properties                                                              *)

TypeOK == /\ _results \in Seq([r : Coros, i : Idents \cup Coros])
          /\ _ready_to_run \in Seq(Coros)
          /\ pos \in 0 .. Len(_ready_to_run) + 1
          /\ buffers \subseteq Coros
          /\ alerted \subseteq Coros
          /\ running \subseteq Coros
          /\ got \in [Coros -> -1 .. MaxBroadcasts]
          /\ since \in [Coros -> 0 .. MaxBroadcasts]
          /\ broadcasts \in 0 .. MaxBroadcasts

\* The handles that are still to be resumed by clear().
ToClear == {k \in DOMAIN _ready_to_run : k >= pos}

\* A coroutine is in one place only: it runs, or its handle is in one entry
\* of the list, or in one slot that clear() has not reached, or in one
\* caller's hands.  Whatever order registrations, broadcasts, removals and
\* the resumptions of an earlier broadcast take, nobody is resumed twice and
\* nobody is forgotten.
HeldOnce ==
  \A c \in Coros :
    Cardinality({k \in DOMAIN _results : _results[k].r = c})
    + Cardinality({k \in ToClear : _ready_to_run[k] = c})
    + Cardinality({c} \cap buffers) + Cardinality({c} \cap running) = 1

\* A coroutine gets the first broadcast after its registration or none: no
\* broadcast passes by somebody who is listed, and whoever waits to be
\* resumed finds the value of the broadcast that followed its registration
\* (not of an earlier one that is still being delivered, nor of a later one)
\* unless it was removed.
GetsNextBroadcast ==
  \A c \in Coros :
    /\ c \in Handles(_results) => since[c] = broadcasts
    /\ c \in buffers \cup {_ready_to_run[k] : k \in ToClear} =>
         got[c] \in {NoValue, Exception, since[c] + 1}

\* alert() and the registration with the flag exclude each other: a
\* coroutine whose flag is set is not listed under it, so that an alert is
\* not lost between the test of the flag and the registration.
AlertedDoNotListen == \A c \in alerted : Listed(c) = {}

=============================================================================
