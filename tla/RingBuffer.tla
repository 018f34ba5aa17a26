----------------------------- MODULE RingBuffer -----------------------------
(***************************************************************************)
(* ring_buffer.c: a bounded circular queue under one mutex.  Each function *)
(* is one critical section; popWait gives the mutex up while it waits.     *)
(***************************************************************************)
EXTENDS Integers, Sequences

CONSTANTS Empty,        \* NULL in items
          RingCapacity

ASSUME RingConstants == RingCapacity \in Nat \ {0} /\ Empty \notin Nat

new_RingBuffer == [items |-> [i \in 0..(RingCapacity - 1) |-> Empty], head |-> 0, tail |-> 0, count |-> 0]

rb_is_full(r) == r.count >= RingCapacity

rb_push(r, x) ==
    [r EXCEPT !.items[r.head] = x, !.head = (@ + 1) % RingCapacity, !.count = @ + 1]

rb_front(r) == r.items[r.tail]

rb_pop(r) ==
    [r EXCEPT !.items[r.tail] = Empty, !.tail = (@ + 1) % RingCapacity, !.count = @ - 1]

(* The items still queued, oldest first.                                   *)
rb_queued(r) == [i \in 1..r.count |-> r.items[(r.tail + i - 1) % RingCapacity]]

=============================================================================
