---------------------------- MODULE BoundedQueue ----------------------------
(***************************************************************************)
(* What the container of include/ring_buffer.hpp promises its clients: a   *)
(* first-in first-out queue of at most Capacity items whose enqueue, when  *)
(* the queue is full, silently gives up the oldest item.  Module           *)
(* RingBuffer implements it; Lzss, which holds three such buffers, is      *)
(* written with the queue itself.                                          *)
(***************************************************************************)
EXTENDS Fifo

CONSTANTS
  Capacity,   \* the template parameter of RingBuffer<T, Capacity>
  Item,       \* the values of type T that clients store
  OutOfRange  \* what a caller gets when the call throws std::out_of_range

VARIABLES
  queue,  \* the items held, oldest first
  result  \* the outcome of the last call that returns an item

vars == <<queue, result>>

Init ==
  /\ queue = <<>>
  /\ result = OutOfRange

Enqueue(item) ==
  /\ queue' = Enqueued(queue, Capacity, item)
  /\ UNCHANGED result

Dequeue ==
  \/ /\ queue = <<>>
     /\ result' = OutOfRange
     /\ UNCHANGED queue
  \/ /\ queue # <<>>
     /\ result' = Head(queue)
     /\ queue' = Tail(queue)

\* Indices count from the oldest item, starting at 0; Capacity is past the end.
At(ind) ==
  /\ result' = IF ind < Len(queue) THEN queue[ind + 1] ELSE OutOfRange
  /\ UNCHANGED queue

Next ==
  \/ \E item \in Item : Enqueue(item)
  \/ Dequeue
  \/ \E ind \in 0 .. Capacity : At(ind)

Spec == Init /\ [][Next]_vars
=============================================================================
