--------------------------- MODULE SchedulerHeap ----------------------------
(***************************************************************************)
(* Class generic_scheduler of coro_scheduler.h: the binary heap in an      *)
(* array that the schedulers keep their sleeping coroutines in.            *)
(*                                                                         *)
(* Its callers hold a mutex, so calls do not interleave.  A call is a      *)
(* sequence of steps, one per iteration of its loops, and what is checked  *)
(* is that the array is a heap, and holds what it should, between calls.   *)
(* Indices start from zero as in the code.                                 *)
(*                                                                         *)
(* std::push_heap and std::pop_heap, which the standard specifies by their *)
(* results, run the same two loops here.  Every heap is reachable: pushed  *)
(* in the order of the array, its items stay where they are put.           *)
(***************************************************************************)
EXTENDS Integers

CONSTANTS
  Sleepers,  (* the results of sleeping coroutines (type T)                *)
  Idents,    (* identities; several coroutines may share one               *)
  Times,     (* time points                                                *)
  None       (* a result object that has been moved from; no identity      *)

ASSUME HeapConstants == /\ None \notin Sleepers \cup Idents \cup Times
                        /\ Times \subseteq Int

VARIABLES
  heap,   (* _heap: a function of the indices 0..(size - 1)                *)
  size,   (* _heap.size()                                                  *)
  phase,  (* which loop is running: "idle" between calls                   *)
  after,  (* what the call does after update_heap_element or the like      *)
  pos,    (* local pos of update_heap_element: the item that moves         *)
  n,      (* local n: the items considered when it moves down              *)
  scan,   (* local i of set_time                                           *)
  arg,    (* the arguments of set_time: <<ident, new_tp>>                  *)
  out     (* the result the last call returned, and the identity it was    *)
          (* asked for: None by remove_first                               *)

heapVars == <<heap, size, phase, after, pos, n, scan, arg, out>>

Item == [timestamp : Times, res : Sleepers \cup {None}, ident : Idents]

Indices == 0..(size - 1)
Held == {heap[k].res : k \in Indices} \ {None}

Nothing == <<None, None>>

HeapInit == /\ heap = [k \in 0..(-1) |-> None]
            /\ size = 0
            /\ phase = "idle" /\ after = "return"
            /\ pos = 0 /\ n = 0
            /\ scan = 0
            /\ arg = Nothing
            /\ out = Nothing

-----------------------------------------------------------------------------
(* Helpers                                                                 *)

\* compare(a, b): a is due later than b.
compare(a, b) == a.timestamp > b.timestamp

Parent(p) == (p - 1) \div 2

Swapped(h, a, b) == [h EXCEPT ![a] = h[b], ![b] = h[a]]

pop_back == /\ heap' = [k \in 0..(size - 2) |-> heap[k]]
            /\ size' = size - 1

\* The call returns: its local variables are gone.
EndCall == phase' = "idle" /\ after' = "return" /\ pos' = 0 /\ n' = 0

\* A defective update that always moves the item down.
update_heap_element_down(h, p, item) ==
  /\ heap' = [h EXCEPT ![p] = item]
  /\ phase' = "down"
  /\ pos' = p
  /\ n' = size

\* update_heap_element, up to its loops: where to go depends on the old item.
update_heap_element(h, p, item) ==
  /\ heap' = [h EXCEPT ![p] = item]
  /\ phase' = IF compare(h[p], item) THEN "up" ELSE "down"
  /\ pos' = p
  /\ n' = size

-----------------------------------------------------------------------------
(* The operations, up to their loops                                       *)

\* schedule_at: push_back and push_heap.
schedule_at(s, t, i) ==
  /\ phase = "idle"
  /\ s \notin Held
  /\ heap' = [k \in 0..size |-> IF k < size THEN heap[k]
                                ELSE [timestamp |-> t, res |-> s, ident |-> i]]
  /\ size' = size + 1
  /\ phase' = "up" /\ after' = "return"
  /\ pos' = size
  /\ out' = Nothing
  /\ UNCHANGED <<n, scan, arg>>

\* A defective pop_heap that does not leave the last item alone.
pop_heap_all(h) ==
  /\ heap' = Swapped(h, 0, size - 1)
  /\ phase' = "down" /\ after' = "popped"
  /\ pos' = 0
  /\ n' = size

\* pop_heap puts the first item last and moves the other one down.
pop_heap(h) ==
  /\ heap' = Swapped(h, 0, size - 1)
  /\ phase' = "down" /\ after' = "popped"
  /\ pos' = 0
  /\ n' = size - 1

\* remove_first, on a heap that is not empty: pop_heap, and after that the
\* last result is returned and its item popped.
remove_first ==
  /\ phase = "idle"
  /\ size > 0
  /\ pop_heap(heap)
  /\ out' = Nothing
  /\ UNCHANGED <<size, scan, arg>>

remove_first_pop ==
  /\ phase = "popped"
  /\ out' = IF heap[size - 1].res = None THEN out ELSE <<None, heap[size - 1].res>>
  /\ pop_back
  /\ EndCall
  /\ UNCHANGED <<scan, arg>>

FirstWith(i, k) == /\ heap[k].ident = i
                   /\ \A j \in 0..(k - 1) : heap[j].ident # i

\* A defective removal from the middle that leaves the item it moved from.
remove_by_ident_unpopped(i) ==
  /\ phase = "idle"
  /\ \E k \in Indices :
       /\ FirstWith(i, k)
       /\ out' = <<i, heap[k].res>>
       /\ LET h == [heap EXCEPT ![k].res = None, ![size - 1].res = None]
          IN  update_heap_element(h, k, heap[size - 1])
       /\ after' = "return"
  /\ UNCHANGED <<size, scan, arg>>

\* remove_by_ident: the last item takes the place of the one that leaves.
\* The last is still in the array, moved from, while the heap is repaired.
remove_by_ident(i) ==
  /\ phase = "idle"
  /\ \E k \in Indices :
       /\ FirstWith(i, k)
       /\ out' = <<i, heap[k].res>>
       /\ LET h == [heap EXCEPT ![k].res = None] IN
          \/ /\ k = 0
             /\ pop_heap(h)
             /\ UNCHANGED size
          \/ /\ k # 0 /\ k = size - 1
             /\ pop_back
             /\ UNCHANGED <<phase, after, pos, n>>
          \/ /\ k # 0 /\ k # size - 1
             /\ update_heap_element([h EXCEPT ![size - 1].res = None], k, heap[size - 1])
             /\ after' = "pop_back"
             /\ UNCHANGED size
  /\ UNCHANGED <<scan, arg>>

\* set_time, the head of its loop.  It goes on after a match.
set_time(i, t) ==
  /\ phase = "idle"
  /\ phase' = "scan"
  /\ scan' = 0
  /\ arg' = <<i, t>>
  /\ out' = Nothing
  /\ UNCHANGED <<heap, size, after, pos, n>>

\* A defective scan that stops after the first match.
set_time_first ==
  /\ phase = "scan"
  /\ \/ /\ scan < size
        /\ heap[scan].ident = arg[1]
        /\ update_heap_element(heap, scan, [heap[scan] EXCEPT !.timestamp = arg[2]])
        /\ after' = "scan"
        /\ scan' = size
        /\ UNCHANGED arg
     \/ /\ scan < size
        /\ heap[scan].ident # arg[1]
        /\ scan' = scan + 1
        /\ UNCHANGED <<heap, phase, after, pos, n, arg>>
     \/ /\ scan >= size
        /\ EndCall
        /\ scan' = 0
        /\ arg' = Nothing
        /\ UNCHANGED heap
  /\ UNCHANGED <<size, out>>

set_time_scan ==
  /\ phase = "scan"
  /\ \/ /\ scan < size
        /\ heap[scan].ident = arg[1]
        /\ update_heap_element(heap, scan, [heap[scan] EXCEPT !.timestamp = arg[2]])
        /\ after' = "scan"
        /\ UNCHANGED <<scan, arg>>
     \/ /\ scan < size
        /\ heap[scan].ident # arg[1]
        /\ scan' = scan + 1
        /\ UNCHANGED <<heap, phase, after, pos, n, arg>>
     \/ /\ scan >= size
        /\ EndCall
        /\ scan' = 0
        /\ arg' = Nothing
        /\ UNCHANGED heap
  /\ UNCHANGED <<size, out>>

-----------------------------------------------------------------------------
(* The loops                                                               *)

\* What follows a loop.
Return ==
  \/ /\ after = "return"
     /\ EndCall
     /\ UNCHANGED <<heap, size, scan>>
  \/ /\ after = "popped"
     /\ phase' = "popped"
     /\ UNCHANGED <<heap, size, after, pos, n, scan>>
  \/ /\ after = "pop_back"
     /\ pop_back
     /\ EndCall
     /\ UNCHANGED scan
  \/ /\ after = "scan"
     /\ phase' = "scan"
     /\ scan' = scan + 1
     /\ after' = "return" /\ pos' = 0 /\ n' = 0
     /\ UNCHANGED <<heap, size>>

shift_up ==
  /\ phase = "up"
  /\ IF pos > 0 /\ compare(heap[Parent(pos)], heap[pos])
     THEN /\ heap' = Swapped(heap, Parent(pos), pos)
          /\ pos' = Parent(pos)
          /\ UNCHANGED <<size, phase, after, n, scan>>
     ELSE Return
  /\ UNCHANGED <<arg, out>>

\* A defective choice that does not compare the two children.
First_left(p) ==
  LET left == 2 * p + 1
      right == 2 * p + 2
  IN  IF left < n /\ compare(heap[p], heap[left]) THEN left
      ELSE IF right < n /\ compare(heap[p], heap[right]) THEN right ELSE p

\* The child (or pos itself) that is due first; the left one if both are.
First(p) ==
  LET left == 2 * p + 1
      right == 2 * p + 2
      l == IF left < n /\ compare(heap[p], heap[left]) THEN left ELSE p
  IN  IF right < n /\ compare(heap[l], heap[right]) THEN right ELSE l

shift_down ==
  /\ phase = "down"
  /\ IF First(pos) # pos
     THEN /\ heap' = Swapped(heap, pos, First(pos))
          /\ pos' = First(pos)
          /\ UNCHANGED <<size, phase, after, n, scan>>
     ELSE Return
  /\ UNCHANGED <<arg, out>>

HeapNext == \/ \E s \in Sleepers, t \in Times, i \in Idents : schedule_at(s, t, i)
            \/ remove_first \/ remove_first_pop
            \/ \E i \in Idents : remove_by_ident(i)
            \/ \E i \in Idents, t \in Times : set_time(i, t)
            \/ set_time_scan \/ shift_up \/ shift_down

HeapSpec == HeapInit /\ [][HeapNext]_heapVars

-----------------------------------------------------------------------------
(* Properties                                                              *)

\* The array has items at its indices and nowhere else, and the loops stay
\* inside of it.
HeapTypeOK ==
  /\ size \in Nat
  /\ heap \in [Indices -> Item]
  /\ phase \in {"idle", "up", "down", "popped", "scan"}
  /\ after \in {"return", "popped", "pop_back", "scan"}
  /\ pos \in Nat
  /\ n \in Nat
  /\ phase \in {"up", "down"} => pos < size
  /\ phase = "down" => n = IF after = "popped" THEN size - 1 ELSE size
  /\ phase = "popped" => size > 0
  /\ scan \in Nat

\* Between calls the array is a heap: get_first_scheduled_time(), which reads
\* the front, returns the earliest deadline.
IsHeap(len) == \A k \in 1..(len - 1) : ~compare(heap[Parent(k)], heap[k])

HeapBetweenCalls == phase = "idle" => IsHeap(size)

\* No result is lost, duplicated or left moved-from in the array by the
\* moves and swaps: between calls every item holds a result, each another.
\* (A result lost this way resumes its coroutine as cancelled; one left
\* behind empty resumes nobody.)
ResultsKept ==
  phase = "idle" => /\ \A k \in Indices : heap[k].res # None
                    /\ \A j, k \in Indices : heap[j].res = heap[k].res => j = k

\* When set_time has scanned the array, no item with the identity is due
\* later than the new time, although the repair of the heap moves items
\* across the position of the scan: an alert reaches every coroutine that
\* sleeps on the flag.
SetTimeReachesAll ==
  phase = "scan" /\ scan >= size =>
    \A k \in Indices : heap[k].ident = arg[1] => heap[k].timestamp <= arg[2]

\* The place of a result in the array.
Place(s) == CHOOSE k \in Indices : heap[k].res = s

Queue == INSTANCE TimerQueue WITH
  deadline <- [s \in Sleepers |-> IF s \in Held THEN heap[Place(s)].timestamp ELSE None],
  ident <- [s \in Sleepers |-> IF s \in Held THEN heap[Place(s)].ident ELSE None]

\* generic_scheduler is a queue of timers: whoever is taken out as the first
\* has the earliest deadline, whoever is taken out by an identity has it, and
\* everybody else stays as they are.
IsTimerQueue == Queue!Spec
=============================================================================
