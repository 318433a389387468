-------------------------- MODULE DistributorProofs -------------------------
(***************************************************************************)
(* Proofs about Distributor for any coroutines and idents and any number   *)
(* of broadcasts, as long as broadcast(args) is not called while one is    *)
(* under way (~Reentrant).  Its note asks that of other threads; a         *)
(* coroutine that it resumes must not do so either.                        *)
(***************************************************************************)
EXTENDS Distributor, FiniteSetTheorems, SequenceTheorems, TLAPS

\* The handles in the slots that clear() has not reached.
Waiting == {_ready_to_run[k] : k \in ToClear}

\* The inductive invariant, in parts.  The first: nothing is left of an
\* earlier broadcast when the vector of handles is filled.
Idle == pos = 0 => _ready_to_run = <<>>

\* No handle is in two entries of a list.
OnceEach(s) == \A k, l \in DOMAIN s : s[k].r = s[l].r => k = l

\* Nor in two slots of the vector.
Distinct ==
  /\ OnceEach(_results)
  /\ \A k, l \in ToClear : _ready_to_run[k] = _ready_to_run[l] => k = l

\* The places exclude each other, and every coroutine is in one.
Places ==
  /\ Handles(_results) \cap Waiting = {}
  /\ Handles(_results) \cap buffers = {}
  /\ Handles(_results) \cap running = {}
  /\ Waiting \cap buffers = {}
  /\ Waiting \cap running = {}
  /\ buffers \cap running = {}
  /\ Coros \subseteq Handles(_results) \cup Waiting \cup buffers \cup running

\* An alert flag in the list is the coroutine's own.
OwnFlag == \A k \in DOMAIN _results :
             _results[k].i \in Coros => _results[k].i = _results[k].r

DistributorInv == /\ TypeOK /\ Idle /\ Distinct /\ Places /\ OwnFlag
                  /\ GetsNextBroadcast /\ AlertedDoNotListen

-----------------------------------------------------------------------------
(* The operators on the list                                               *)

\* A list is a function on 1 .. Len.
LEMMA ListFacts ==
  ASSUME NEW S, NEW s \in Seq(S)
  PROVE  /\ Len(s) \in Nat
         /\ DOMAIN s = 1 .. Len(s)
         /\ \A k \in 1 .. Len(s) : s[k] \in S
  OBVIOUS

\* The handles in the list are coroutines'.
LEMMA ListHandles ==
  ASSUME TypeOK
  PROVE  /\ \A k \in DOMAIN _results : _results[k].r \in Coros
         /\ Handles(_results) \subseteq Coros
<1> DEFINE Entries == [r : Coros, i : Idents \cup Coros]
<1>0. _results \in Seq(Entries)
  BY DEF TypeOK
<1> HIDE DEF Entries
<1>1. \A k \in DOMAIN _results : _results[k] \in Entries
  BY <1>0
<1> USE DEF Entries
<1>2. \A k \in DOMAIN _results : _results[k].r \in Coros
  BY <1>1
<1> QED
  BY <1>2 DEF Handles

\* A set of natural numbers has a least element, if it has any.
LEMMA Least ==
  ASSUME NEW T, T \subseteq Nat, T # {}
  PROVE  \E n \in T : \A m \in T : n <= m
<1>1. PICK n \in T : \A m \in T : ~(<<m, n>> \in OpToRel(<, Nat))
  BY NatLessThanWellFounded, WFMin
<1>2. ASSUME NEW m \in T, m < n PROVE <<m, n>> \in OpToRel(<, Nat)
  <2>1. <<m, n>> \in Nat \X Nat
    OBVIOUS
  <2>2. <<m, n>>[1] < <<m, n>>[2]
    BY <1>2
  <2> QED
    BY <2>1, <2>2, Zenon DEF OpToRel
<1>3. \A m \in T : ~(m < n)
  BY <1>1, <1>2, Zenon
<1>4. \A m \in T : n <= m
  BY <1>3
<1> QED
  BY <1>4

\* What find_if() returns is an entry with the ident.
LEMMA Found ==
  ASSUME TypeOK, NEW i, Listed(i) # {}
  PROVE  /\ FindIf(i) \in DOMAIN _results
         /\ _results[FindIf(i)].i = i
<1>1. Listed(i) \subseteq Nat
  BY ListFacts DEF TypeOK, Listed
<1>2. \E k \in Listed(i) : \A l \in Listed(i) : k <= l
  BY <1>1, Least
<1>3. FindIf(i) \in Listed(i)
  BY <1>2 DEF FindIf
<1> QED
  BY <1>3 DEF Listed

\* SwapPop removes the k-th entry, and keeps every other one once.
LEMMA SwapPopFacts ==
  ASSUME NEW S, NEW s \in Seq(S), NEW k \in DOMAIN s, NEW t, t = SwapPop(s, k)
  PROVE  /\ t \in Seq(S)
         /\ DOMAIN t = 1 .. Len(s) - 1
         /\ \A j \in DOMAIN t : t[j] = s[IF j = k THEN Len(s) ELSE j]
<1>1. Len(s) \in Nat /\ DOMAIN s = 1 .. Len(s) /\ \A j \in 1 .. Len(s) : s[j] \in S
  BY ListFacts
<1>2. Len(s) - 1 \in Nat
  BY <1>1
<1>3. t = [j \in 1 .. Len(s) - 1 |-> IF j = k THEN s[Len(s)] ELSE s[j]]
  BY DEF SwapPop
<1>4. \A j \in 1 .. Len(s) - 1 : (IF j = k THEN s[Len(s)] ELSE s[j]) \in S
  BY <1>1
<1>5. t \in Seq(S)
  BY <1>2, <1>3, <1>4
<1> QED
  BY <1>1, <1>3, <1>5

\* The handles of a list without its k-th entry, when they are distinct.
LEMMA SwapPopHandles ==
  ASSUME NEW S, NEW s \in Seq(S), NEW k \in DOMAIN s,
         OnceEach(s), NEW t, t = SwapPop(s, k)
  PROVE  /\ Handles(t) = Handles(s) \ {s[k].r}
         /\ OnceEach(t)
         /\ \A j \in DOMAIN t : \E l \in DOMAIN s : l # k /\ t[j] = s[l]
<1> DEFINE from(j) == IF j = k THEN Len(s) ELSE j
<1>1. Len(s) \in Nat /\ DOMAIN s = 1 .. Len(s)
  BY ListFacts
<1>2. /\ DOMAIN t = 1 .. Len(s) - 1
      /\ \A j \in DOMAIN t : t[j] = s[from(j)]
  BY SwapPopFacts
<1>3. \A j \in DOMAIN t : from(j) \in DOMAIN s /\ from(j) # k
  BY <1>1, <1>2
<1>4. \A j, l \in DOMAIN t : from(j) = from(l) => j = l
  BY <1>1, <1>2
<1>5. \A l \in DOMAIN s : l # k => \E j \in DOMAIN t : from(j) = l
  <2> SUFFICES ASSUME NEW l \in DOMAIN s, l # k
               PROVE  \E j \in DOMAIN t : from(j) = l
    OBVIOUS
  <2>1. CASE l = Len(s)
    <3>1. k \in DOMAIN t /\ from(k) = l
      BY <1>1, <1>2, <2>1
    <3> QED
      BY <3>1
  <2>2. CASE l # Len(s)
    <3>1. l \in DOMAIN t /\ from(l) = l
      BY <1>1, <1>2, <2>2
    <3> QED
      BY <3>1
  <2> QED
    BY <2>1, <2>2
<1> HIDE DEF from
<1>6. \A j \in DOMAIN t : \E l \in DOMAIN s : l # k /\ t[j] = s[l]
  BY <1>2, <1>3
<1>7. OnceEach(t)
  BY <1>2, <1>3, <1>4 DEF OnceEach
<1>8. Handles(t) \subseteq Handles(s) \ {s[k].r}
  BY <1>6 DEF Handles, OnceEach
<1>9. Handles(s) \ {s[k].r} \subseteq Handles(t)
  BY <1>2, <1>5 DEF Handles
<1> QED
  BY <1>6, <1>7, <1>8, <1>9

-----------------------------------------------------------------------------
(* The invariant is inductive                                              *)

\* A new distributor holds nobody.
LEMMA InitInv == Init => DistributorInv
<1> SUFFICES ASSUME Init PROVE DistributorInv
  OBVIOUS
<1>1. TypeOK
  BY DistributorConstants DEF Init, TypeOK, NoValue
<1>2. ToClear = {} /\ Waiting = {} /\ Handles(_results) = {}
  BY DEF Init, ToClear, Waiting, Handles
<1>3. Idle /\ Distinct /\ Places /\ OwnFlag
  BY <1>2 DEF Init, Idle, Distinct, OnceEach, Places, OwnFlag
<1>4. GetsNextBroadcast /\ AlertedDoNotListen
  BY <1>2 DEF Init, GetsNextBroadcast, AlertedDoNotListen, Waiting
<1> QED
  BY <1>1, <1>3, <1>4 DEF DistributorInv

\* The slots that clear() has still to reach are a matter of two variables.
LEMMA SameSlots ==
  ASSUME UNCHANGED <<_ready_to_run, pos>>
  PROVE  ToClear' = ToClear /\ Waiting' = Waiting
  BY DEF ToClear, Waiting

\* A coroutine that runs registers, under a plain ident or under its own
\* flag while the flag is not set.
LEMMA StepPushBack ==
  ASSUME DistributorInv, NEW c \in Coros, c \in running,
         NEW i \in Idents \cup Coros, i \in Coros => i = c /\ c \notin alerted,
         push_back(c, i)
  PROVE  DistributorInv'
<1> USE DEF DistributorInv
<1>0. ToClear' = ToClear /\ Waiting' = Waiting
  BY SameSlots DEF push_back
<1>1. /\ Len(_results) \in Nat
      /\ DOMAIN _results = 1 .. Len(_results)
      /\ DOMAIN _results' = 1 .. Len(_results) + 1
      /\ \A k \in DOMAIN _results : _results'[k] = _results[k]
      /\ _results'[Len(_results) + 1] = [r |-> c, i |-> i]
      /\ _results' \in Seq([r : Coros, i : Idents \cup Coros])
  BY DEF TypeOK, push_back
<1>2. Handles(_results)' = Handles(_results) \cup {c}
  BY <1>1 DEF Handles
<1>3. TypeOK' /\ Idle'
  BY <1>1 DEF TypeOK, Idle, push_back
<1>4. c \notin Handles(_results) \cup Waiting \cup buffers
  BY DEF Places
<1>5. Distinct'
  <2>1. \A k \in DOMAIN _results : _results[k].r # c
    BY <1>4 DEF Handles
  <2> QED
    BY <1>0, <1>1, <2>1 DEF Distinct, OnceEach, push_back
<1>6. Places'
  BY <1>0, <1>2, <1>4 DEF Places, push_back
<1>7. OwnFlag'
  BY <1>1 DEF OwnFlag
<1>8. GetsNextBroadcast'
  <2>1. \A d \in Coros : d # c => since'[d] = since[d]
    BY DEF push_back, TypeOK
  <2>2. since'[c] = broadcasts
    BY DEF push_back, TypeOK
  <2>3. (buffers \cup Waiting)' = buffers \cup Waiting /\ got' = got /\ broadcasts' = broadcasts
    BY <1>0 DEF push_back
  <2> QED
    BY <1>2, <1>4, <2>1, <2>2, <2>3 DEF GetsNextBroadcast, Waiting
<1>9. AlertedDoNotListen'
  <2>1. \A d \in alerted : d # i
    BY DistributorConstants DEF TypeOK
  <2> QED
    BY <1>1, <2>1 DEF AlertedDoNotListen, Listed, push_back
<1> QED
  BY <1>3, <1>5, <1>6, <1>7, <1>8, <1>9

\* The registration with a flag, also when the flag is set.
LEMMA StepAlertable ==
  ASSUME DistributorInv, NEW c \in Coros, add_listener_alertable(c)
  PROVE  DistributorInv'
<1>1. CASE c \notin alerted
  BY <1>1, StepPushBack DEF add_listener_alertable
<1>2. CASE c \in alerted
  <2> USE DEF DistributorInv
  <2>0. ToClear' = ToClear /\ Waiting' = Waiting
    BY <1>2, SameSlots DEF add_listener_alertable
  <2>1. /\ got' = [d \in Coros |-> IF d \in {c} THEN NoValue ELSE got[d]]
        /\ UNCHANGED <<_results, _ready_to_run, pos, buffers, alerted, running, since,
                       broadcasts>>
    BY <1>2 DEF add_listener_alertable, SetResults
  <2>2. TypeOK'
    BY <2>1, DistributorConstants DEF TypeOK, NoValue
  <2>3. Idle' /\ Distinct' /\ Places' /\ OwnFlag' /\ AlertedDoNotListen'
    BY <2>0, <2>1 DEF Idle, Distinct, OnceEach, Places, OwnFlag, AlertedDoNotListen, Handles, Listed
  <2>4. GetsNextBroadcast'
    BY <2>0, <2>1 DEF GetsNextBroadcast, Handles, Waiting
  <2> QED
    BY <2>2, <2>3, <2>4
<1> QED
  BY <1>1, <1>2

\* One entry leaves the list for the hands of a caller, with the result v.
LEMMA StepRemove ==
  ASSUME DistributorInv, NEW i \in Idents \cup Coros, NEW v \in {NoValue, Exception},
         remove(i, v), alerted' \in {alerted, alerted \cup ({i} \cap Coros)}
  PROVE  DistributorInv'
<1> USE DEF DistributorInv
<1>0. ToClear' = ToClear /\ Waiting' = Waiting
  BY SameSlots DEF remove
<1>1. alerted' \subseteq Coros /\ UNCHANGED <<_ready_to_run, pos, running, since, broadcasts>>
  BY DEF TypeOK, remove
<1>2. CASE Listed(i) = {}
  <2>1. UNCHANGED <<_results, buffers, got>>
    BY <1>2 DEF remove
  <2>2. TypeOK' /\ Idle' /\ Distinct' /\ Places' /\ OwnFlag'
    BY <1>0, <1>1, <2>1 DEF TypeOK, Idle, Distinct, OnceEach, Places, OwnFlag, Handles
  <2>3. GetsNextBroadcast'
    BY <1>0, <1>1, <2>1 DEF GetsNextBroadcast, Handles, Waiting
  <2>4. AlertedDoNotListen'
    BY <1>2, <2>1 DEF AlertedDoNotListen, Listed
  <2> QED
    BY <2>2, <2>3, <2>4
<1>3. CASE Listed(i) # {}
  <2> DEFINE k == FindIf(i)
             h == _results[k].r
  <2>1. k \in DOMAIN _results /\ _results[k].i = i
    BY <1>3, Found
  <2>2. /\ got' = [c \in Coros |-> IF c \in {h} THEN v ELSE got[c]]
        /\ buffers' = buffers \cup {h}
        /\ _results' = SwapPop(_results, k)
    BY <1>3 DEF remove, SetResults
  <2> HIDE DEF k
  <2>3. h \in Coros /\ h \in Handles(_results)
    BY <2>1, ListHandles DEF Handles
  <2>4. /\ _results' \in Seq([r : Coros, i : Idents \cup Coros])
        /\ Handles(_results') = Handles(_results) \ {h}
        /\ OnceEach(_results')
        /\ \A j \in DOMAIN _results' :
             \E l \in DOMAIN _results : l # k /\ _results'[j] = _results[l]
    <3> HIDE DEF DistributorInv
    <3>1. _results \in Seq([r : Coros, i : Idents \cup Coros])
      BY DEF DistributorInv, TypeOK
    <3>2. OnceEach(_results)
      BY DEF DistributorInv, Distinct
    <3>3. _results' \in Seq([r : Coros, i : Idents \cup Coros])
      BY <2>1, <2>2, <3>1, SwapPopFacts
    <3>4. /\ Handles(_results') = Handles(_results) \ {_results[k].r}
          /\ OnceEach(_results')
          /\ \A j \in DOMAIN _results' :
               \E l \in DOMAIN _results : l # k /\ _results'[j] = _results[l]
      BY <2>1, <2>2, <3>1, <3>2, SwapPopHandles
    <3> QED
      BY <3>3, <3>4
  <2>5. Handles(_results)' = Handles(_results')
    BY DEF Handles
  <2> HIDE DEF h
  <2>6. TypeOK' /\ Idle'
    BY <1>1, <2>2, <2>3, <2>4, DistributorConstants DEF TypeOK, Idle, NoValue, Exception
  <2>7. Distinct' /\ OwnFlag'
    BY <1>0, <1>1, <2>4 DEF Distinct, OnceEach, OwnFlag
  <2>8. Places'
    BY <1>0, <1>1, <2>2, <2>3, <2>4, <2>5 DEF Places
  <2>9. GetsNextBroadcast'
    <3>1. h \notin Waiting \cup buffers
      BY <2>3 DEF Places
    <3> QED
      BY <1>0, <1>1, <2>2, <2>3, <2>4, <2>5, <3>1 DEF GetsNextBroadcast, Waiting
  <2>10. AlertedDoNotListen'
    <3>1. ASSUME NEW c \in alerted', NEW j \in DOMAIN _results', _results'[j].i = c
          PROVE  FALSE
      <4>1. PICK l \in DOMAIN _results : l # k /\ _results'[j] = _results[l]
        BY <2>4
      <4>2. c \notin alerted
        BY <3>1, <4>1 DEF AlertedDoNotListen, Listed
      <4>3. c = i /\ i \in Coros
        BY <4>2
      <4>4. _results[l].i = i
        BY <3>1, <4>1, <4>3
      <4>5. _results[l].r = _results[k].r
        BY <2>1, <4>3, <4>4 DEF OwnFlag
      <4> QED
        BY <2>1, <4>1, <4>5 DEF Distinct, OnceEach
    <3> QED
      BY <3>1 DEF AlertedDoNotListen, Listed
  <2> QED
    BY <2>6, <2>7, <2>8, <2>9, <2>10
<1> QED
  BY <1>2, <1>3

\* What both forms of a broadcast do: everybody who is listed gets the value.
LEMMA StepBroadcastValue ==
  ASSUME DistributorInv, broadcast_value
  PROVE  /\ _results' = <<>> /\ Handles(_results)' = {}
         /\ broadcasts' \in 0 .. MaxBroadcasts
         /\ got' \in [Coros -> -1 .. MaxBroadcasts]
         /\ \A c \in Coros :
              IF c \in Handles(_results) THEN got'[c] = since[c] + 1 ELSE got'[c] = got[c]
         /\ UNCHANGED <<alerted, running, since>>
<1> USE DEF DistributorInv
<1>1. /\ broadcasts < MaxBroadcasts /\ broadcasts' = broadcasts + 1
      /\ got' = [c \in Coros |-> IF c \in Handles(_results) THEN broadcasts + 1 ELSE got[c]]
      /\ _results' = <<>>
      /\ UNCHANGED <<alerted, running, since>>
  BY DEF broadcast_value, SetResults
<1>2. broadcasts' \in 0 .. MaxBroadcasts /\ got' \in [Coros -> -1 .. MaxBroadcasts]
  BY <1>1, DistributorConstants DEF TypeOK
<1>3. \A c \in Coros :
        IF c \in Handles(_results) THEN got'[c] = since[c] + 1 ELSE got'[c] = got[c]
  BY <1>1 DEF GetsNextBroadcast
<1>4. Handles(_results)' = {}
  BY <1>1 DEF Handles
<1> QED
  BY <1>1, <1>2, <1>3, <1>4

\* The form that gives the handles to its caller.
LEMMA StepBroadcastBuffer ==
  ASSUME DistributorInv, broadcast_buffer
  PROVE  DistributorInv'
<1> USE DEF DistributorInv
<1>0. ToClear' = ToClear /\ Waiting' = Waiting
  BY SameSlots DEF broadcast_buffer
<1>1. /\ _results' = <<>> /\ Handles(_results)' = {}
      /\ broadcasts' \in 0 .. MaxBroadcasts
      /\ got' \in [Coros -> -1 .. MaxBroadcasts]
      /\ \A c \in Coros :
           IF c \in Handles(_results) THEN got'[c] = since[c] + 1 ELSE got'[c] = got[c]
      /\ UNCHANGED <<alerted, running, since>>
  BY StepBroadcastValue DEF broadcast_buffer
<1>2. buffers' = buffers \cup Handles(_results) /\ UNCHANGED <<_ready_to_run, pos>>
  BY DEF broadcast_buffer
<1>3. Handles(_results) \subseteq Coros
  BY ListHandles
<1>4. TypeOK' /\ Idle'
  BY <1>1, <1>2, <1>3 DEF TypeOK, Idle
<1>5. Distinct' /\ OwnFlag' /\ AlertedDoNotListen'
  BY <1>0, <1>1, <1>2 DEF Distinct, OnceEach, OwnFlag, AlertedDoNotListen, Listed
<1>6. Places'
  BY <1>0, <1>1, <1>2 DEF Places
<1>7. GetsNextBroadcast'
  <2>1. \A c \in Coros : c \in (buffers \cup Waiting)' => got'[c] \in {NoValue, Exception, since'[c] + 1}
    BY <1>0, <1>1, <1>2 DEF GetsNextBroadcast, Waiting, Places
  <2> QED
    BY <1>1, <2>1 DEF GetsNextBroadcast, Waiting
<1> QED
  BY <1>4, <1>5, <1>6, <1>7

\* The form that resumes them itself: the vector is empty when it is filled.
LEMMA StepBroadcast ==
  ASSUME DistributorInv, ~Reentrant, broadcast
  PROVE  DistributorInv'
<1> USE DEF DistributorInv
<1> DEFINE n == Len(_results)
<1>1. /\ _results' = <<>> /\ Handles(_results)' = {}
      /\ broadcasts' \in 0 .. MaxBroadcasts
      /\ got' \in [Coros -> -1 .. MaxBroadcasts]
      /\ \A c \in Coros :
           IF c \in Handles(_results) THEN got'[c] = since[c] + 1 ELSE got'[c] = got[c]
      /\ UNCHANGED <<alerted, running, since>>
  BY StepBroadcastValue DEF broadcast
<1>2. n \in Nat /\ DOMAIN _results = 1 .. n /\ \A k \in 1 .. n : _results[k].r \in Coros
  BY ListFacts, ListHandles DEF TypeOK
<1>3. /\ pos = 0 /\ _ready_to_run = <<>> /\ pos' = 1
      /\ buffers' = buffers
      /\ _ready_to_run' = <<>> \o [k \in DOMAIN _results |-> _results[k].r]
  BY DEF broadcast, Idle
<1>4. [k \in DOMAIN _results |-> _results[k].r] \in Seq(Coros)
  BY <1>2
<1>5. _ready_to_run' = [k \in 1 .. n |-> _results[k].r]
  BY <1>2, <1>3, <1>4, ConcatEmptySeq
<1>6. _ready_to_run' \in Seq(Coros) /\ Len(_ready_to_run') = n /\ DOMAIN _ready_to_run' = 1 .. n
  BY <1>2, <1>4, <1>5
<1>7. ToClear = {} /\ Waiting = {}
  BY <1>3 DEF ToClear, Waiting
<1>8. ToClear' = 1 .. n
  BY <1>2, <1>3, <1>6 DEF ToClear
<1>9. Waiting' = Handles(_results)
  BY <1>2, <1>5, <1>8 DEF Waiting, Handles
<1>10. TypeOK' /\ Idle'
  BY <1>1, <1>2, <1>3, <1>6 DEF TypeOK, Idle
<1>11. Distinct'
  BY <1>1, <1>2, <1>5, <1>8 DEF Distinct, OnceEach
<1>12. OwnFlag' /\ AlertedDoNotListen'
  BY <1>1 DEF OwnFlag, AlertedDoNotListen, Listed
<1>13. Places'
  BY <1>1, <1>3, <1>7, <1>9 DEF Places
<1>14. GetsNextBroadcast'
  <2>1. \A c \in Coros : c \in (buffers \cup Waiting)' => got'[c] \in {NoValue, Exception, since'[c] + 1}
    BY <1>1, <1>3, <1>9 DEF GetsNextBroadcast, Places
  <2> QED
    BY <1>1, <2>1 DEF GetsNextBroadcast, Waiting
<1> QED
  BY <1>10, <1>11, <1>12, <1>13, <1>14

\* clear() resumes the coroutine in the next slot.
LEMMA StepClear ==
  ASSUME DistributorInv, clear
  PROVE  DistributorInv'
<1> USE DEF DistributorInv
<1> DEFINE h == _ready_to_run[pos]
<1>1. /\ Len(_ready_to_run) \in Nat /\ DOMAIN _ready_to_run = 1 .. Len(_ready_to_run)
      /\ \A k \in 1 .. Len(_ready_to_run) : _ready_to_run[k] \in Coros
  BY ListFacts DEF TypeOK
<1>2. /\ pos \in 1 .. Len(_ready_to_run) /\ pos' = pos + 1
      /\ running' = running \cup {h}
      /\ UNCHANGED <<_results, _ready_to_run, buffers, alerted, got, since, broadcasts>>
  BY <1>1 DEF clear
<1>3. ToClear' = ToClear \ {pos} /\ pos \in ToClear
  BY <1>1, <1>2 DEF ToClear
<1>4. Waiting' = Waiting \ {h} /\ h \in Waiting
  BY <1>2, <1>3 DEF Waiting, Distinct
<1>5. h \in Coros
  BY <1>1, <1>2
<1>6. Handles(_results)' = Handles(_results)
  BY <1>2 DEF Handles
<1> HIDE DEF h
<1>7. TypeOK' /\ Idle'
  BY <1>1, <1>2, <1>5 DEF TypeOK, Idle
<1>8. Distinct' /\ OwnFlag' /\ AlertedDoNotListen'
  BY <1>2, <1>3 DEF Distinct, OnceEach, OwnFlag, AlertedDoNotListen, Listed
<1>9. Places'
  BY <1>2, <1>4, <1>5, <1>6 DEF Places
<1>10. GetsNextBroadcast'
  BY <1>2, <1>4, <1>6 DEF GetsNextBroadcast, Waiting
<1> QED
  BY <1>7, <1>8, <1>9, <1>10

\* It is done when it has passed the last one.
LEMMA StepClearEnd ==
  ASSUME DistributorInv, clear_end
  PROVE  DistributorInv'
<1> USE DEF DistributorInv
<1>1. Len(_ready_to_run) \in Nat /\ DOMAIN _ready_to_run = 1 .. Len(_ready_to_run)
  BY ListFacts DEF TypeOK
<1>2. /\ pos > Len(_ready_to_run) /\ pos' = 0 /\ _ready_to_run' = <<>>
      /\ UNCHANGED <<_results, buffers, alerted, running, got, since, broadcasts>>
  BY DEF clear_end
<1>3. ToClear = {} /\ Waiting = {}
  BY <1>1, <1>2 DEF ToClear, Waiting, TypeOK
<1>4. ToClear' = {} /\ Waiting' = {} /\ Handles(_results)' = Handles(_results)
  BY <1>2 DEF ToClear, Waiting, Handles
<1>5. TypeOK' /\ Idle'
  BY <1>2 DEF TypeOK, Idle
<1>6. Distinct' /\ Places' /\ OwnFlag' /\ AlertedDoNotListen'
  BY <1>2, <1>3, <1>4 DEF Distinct, OnceEach, Places, OwnFlag, AlertedDoNotListen, Listed
<1>7. GetsNextBroadcast'
  BY <1>2, <1>3, <1>4 DEF GetsNextBroadcast, Waiting
<1> QED
  BY <1>5, <1>6, <1>7

\* The two steps of the users.
LEMMA StepUsers ==
  ASSUME DistributorInv, NEW c \in Coros, test_and_reset(c) \/ resume(c)
  PROVE  DistributorInv'
<1> USE DEF DistributorInv
<1>0. ToClear' = ToClear /\ Waiting' = Waiting
  BY SameSlots DEF test_and_reset, resume
<1>1. /\ UNCHANGED <<_results, _ready_to_run, pos, got, since, broadcasts>>
      /\ alerted' \subseteq alerted
      /\ \/ buffers' = buffers /\ running' = running
         \/ c \in buffers /\ buffers' = buffers \ {c} /\ running' = running \cup {c}
  BY DEF test_and_reset, resume
<1>2. Handles(_results)' = Handles(_results)
  BY <1>1 DEF Handles
<1>3. TypeOK' /\ Idle' /\ Distinct' /\ OwnFlag'
  BY <1>0, <1>1 DEF TypeOK, Idle, Distinct, OnceEach, OwnFlag
<1>4. Places'
  BY <1>0, <1>1, <1>2 DEF Places
<1>5. GetsNextBroadcast' /\ AlertedDoNotListen'
  BY <1>0, <1>1, <1>2 DEF GetsNextBroadcast, AlertedDoNotListen, Listed, Waiting
<1> QED
  BY <1>3, <1>4, <1>5

\* Every step keeps the invariant.
LEMMA NextInv ==
  ASSUME ~Reentrant, DistributorInv, [Next]_vars
  PROVE  DistributorInv'
<1>1. CASE broadcast_buffer
  BY <1>1, StepBroadcastBuffer
<1>2. CASE broadcast
  BY <1>2, StepBroadcast
<1>3. CASE clear
  BY <1>3, StepClear
<1>4. CASE clear_end
  BY <1>4, StepClearEnd
<1>5. ASSUME NEW i \in Idents \cup Coros, kick_out(i) PROVE DistributorInv'
  BY <1>5, StepRemove DEF kick_out
<1>6. ASSUME NEW c \in Coros, NEW i \in Idents, add_listener(c, i) PROVE DistributorInv'
  BY <1>6, StepPushBack, DistributorConstants DEF add_listener
<1>7. ASSUME NEW c \in Coros, add_listener_alertable(c) PROVE DistributorInv'
  BY <1>7, StepAlertable
<1>8. ASSUME NEW c \in Coros, alert(c) PROVE DistributorInv'
  <2>1. alerted' \in {alerted, alerted \cup ({c} \cap Coros)}
    BY <1>8 DEF alert
  <2> QED
    BY <1>8, <2>1, StepRemove DEF alert
<1>9. ASSUME NEW c \in Coros, test_and_reset(c) \/ resume(c) PROVE DistributorInv'
  BY <1>9, StepUsers
<1>10. CASE UNCHANGED vars
  <2>1. /\ ToClear' = ToClear /\ Waiting' = Waiting
        /\ Handles(_results)' = Handles(_results)
    BY <1>10 DEF vars, ToClear, Waiting, Handles
  <2>2. TypeOK' /\ Idle' /\ Distinct' /\ Places' /\ OwnFlag'
    BY <1>10, <2>1 DEF DistributorInv, vars, TypeOK, Idle, Distinct, OnceEach, Places, OwnFlag
  <2>3. GetsNextBroadcast' /\ AlertedDoNotListen'
    BY <1>10, <2>1 DEF DistributorInv, vars, GetsNextBroadcast, AlertedDoNotListen, Listed,
       Waiting
  <2> QED
    BY <2>2, <2>3 DEF DistributorInv
<1> QED
  BY <1>1, <1>2, <1>3, <1>4, <1>5, <1>6, <1>7, <1>8, <1>9, <1>10 DEF Next

-----------------------------------------------------------------------------
(* The theorems                                                            *)

\* The invariant implies that every coroutine is held once: the four numbers
\* that HeldOnce adds are 0 or 1, and one of them is 1.
LEMMA Folding == DistributorInv => HeldOnce
<1> SUFFICES ASSUME DistributorInv, NEW c \in Coros
             PROVE  Cardinality({k \in DOMAIN _results : _results[k].r = c})
                    + Cardinality({k \in ToClear : _ready_to_run[k] = c})
                    + Cardinality({c} \cap buffers) + Cardinality({c} \cap running) = 1
  BY DEF HeldOnce
<1> DEFINE L == {k \in DOMAIN _results : _results[k].r = c}
           W == {k \in ToClear : _ready_to_run[k] = c}
           B == {c} \cap buffers
           R == {c} \cap running
<1>1. /\ c \in Handles(_results) => \E k : L = {k}
      /\ c \notin Handles(_results) => L = {}
  BY DEF DistributorInv, Distinct, OnceEach, Handles
<1>2. /\ c \in Waiting => \E k : W = {k}
      /\ c \notin Waiting => W = {}
  BY DEF DistributorInv, Distinct, Waiting
<1>3. /\ c \in buffers => \E k : B = {k}
      /\ c \notin buffers => B = {}
      /\ c \in running => \E k : R = {k}
      /\ c \notin running => R = {}
  OBVIOUS
<1>4. Cardinality({}) = 0
  BY FS_EmptySet
<1>5. \A S : (\E k : S = {k}) => Cardinality(S) = 1
  BY FS_Singleton
<1>6. /\ Cardinality(L) = IF c \in Handles(_results) THEN 1 ELSE 0
      /\ Cardinality(W) = IF c \in Waiting THEN 1 ELSE 0
  BY <1>1, <1>2, <1>4, <1>5
<1>7. /\ Cardinality(B) = IF c \in buffers THEN 1 ELSE 0
      /\ Cardinality(R) = IF c \in running THEN 1 ELSE 0
  BY <1>3, <1>4, <1>5
<1> HIDE DEF L, W, B, R
<1>8. Cardinality(L) + Cardinality(W) + Cardinality(B) + Cardinality(R) = 1
  BY <1>6, <1>7 DEF DistributorInv, Places
<1> QED
  BY <1>8 DEF L, W, B, R

\* The invariant holds in every reachable state.
LEMMA Invariance == ASSUME ~Reentrant PROVE Spec => []DistributorInv
<1>1. Init => DistributorInv
  BY InitInv
<1>2. DistributorInv /\ [Next]_vars => DistributorInv'
  BY NextInv
<1> QED
  BY <1>1, <1>2, PTL DEF Spec

\* The types of the distributor's state.
THEOREM TypeCorrect == ASSUME ~Reentrant PROVE Spec => []TypeOK
<1>1. DistributorInv => TypeOK
  BY DEF DistributorInv
<1> QED
  BY <1>1, Invariance, PTL

\* Nobody is resumed twice and nobody is forgotten: whatever registrations,
\* removals and broadcasts come between the resumptions of clear(), a
\* coroutine's handle is in one place.
THEOREM ResumedOnce == ASSUME ~Reentrant PROVE Spec => []HeldOnce
  BY Folding, Invariance, PTL

\* Who is resumed finds the broadcast that followed its registration, or was
\* removed.
THEOREM NextBroadcast == ASSUME ~Reentrant PROVE Spec => []GetsNextBroadcast
<1>1. DistributorInv => GetsNextBroadcast
  BY DEF DistributorInv
<1> QED
  BY <1>1, Invariance, PTL

\* No alert is lost between the test of the flag and the registration: a
\* coroutine whose flag is set is not listed under it.
THEOREM NoAlertLost == ASSUME ~Reentrant PROVE Spec => []AlertedDoNotListen
<1>1. DistributorInv => AlertedDoNotListen
  BY DEF DistributorInv
<1> QED
  BY <1>1, Invariance, PTL

=============================================================================
