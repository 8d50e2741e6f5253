----------------------------- MODULE RingBuffer -----------------------------
(***************************************************************************)
(* include/ring_buffer.hpp: a fixed array used circularly.  head_ is the   *)
(* slot the next dequeue reads, tail_ the slot the next enqueue writes,    *)
(* and size_ tells a full buffer from an empty one, head_ and tail_ being  *)
(* equal in both.  A slot given up is not cleared: old items stay in       *)
(* buffer_ and must never be read again.                                   *)
(***************************************************************************)
EXTENDS Integers, Sequences

CONSTANTS
  Capacity,   \* the template parameter of RingBuffer<T, Capacity>
  Item,       \* the values of type T that clients store
  Blank,      \* T{}, what buffer_{} puts in every slot
  OutOfRange  \* what a caller gets when the call throws std::out_of_range

ASSUME CapacityAssumption == Capacity \in Nat \ {0}
ASSUME ItemAssumption == OutOfRange \notin Item

VARIABLES
  buffer_,  \* the array, indexed by physical slot
  size_,    \* how many slots hold an item
  head_,    \* index of the next element to be read
  tail_,    \* index where the next element will be written
  result    \* the outcome of the last call that returns an item

vars == <<buffer_, size_, head_, tail_, result>>

Slot == 0 .. Capacity - 1

\* The physical slot of an index that has run past the end of the array.
Wrap(n) == n % Capacity

\* Mutant of Init: the write slot starts one past the read slot.
InitTailAhead ==
  /\ buffer_ = [i \in Slot |-> Blank]
  /\ size_ = 0
  /\ head_ = 0
  /\ tail_ = 1 % Capacity
  /\ result = OutOfRange

Init ==
  /\ buffer_ = [i \in Slot |-> Blank]
  /\ size_ = 0
  /\ head_ = 0
  /\ tail_ = 0
  /\ result = OutOfRange

IsFull == size_ = Capacity
IsEmpty == size_ = 0

\* operator[]: the logical index counts from head_; reading outside the
\* items held throws.
ElementAt(ind) ==
  IF ind >= size_ THEN OutOfRange ELSE buffer_[Wrap(head_ + ind)]

\* Mutant of Enqueue: overwriting the oldest item leaves head_ on it.
EnqueueKeepsHead(item) ==
  /\ size_' = IF IsFull THEN size_ ELSE size_ + 1
  /\ buffer_' = [buffer_ EXCEPT ![tail_] = item]
  /\ tail_' = Wrap(tail_ + 1)
  /\ UNCHANGED <<head_, result>>

Enqueue(item) ==
  /\ \/ /\ IsFull
        /\ head_' = Wrap(head_ + 1)
        /\ UNCHANGED size_
     \/ /\ ~IsFull
        /\ size_' = size_ + 1
        /\ UNCHANGED head_
  /\ buffer_' = [buffer_ EXCEPT ![tail_] = item]
  /\ tail_' = Wrap(tail_ + 1)
  /\ UNCHANGED result

\* Mutant of Dequeue: the emptiness test is forgotten when the buffer was
\* drained by exactly one lap, so a stale slot is handed out again.
DequeueUnchecked ==
  /\ result' = buffer_[head_]
  /\ head_' = Wrap(head_ + 1)
  /\ size_' = IF IsEmpty THEN 0 ELSE size_ - 1
  /\ UNCHANGED <<buffer_, tail_>>

Dequeue ==
  \/ /\ IsEmpty
     /\ result' = OutOfRange
     /\ UNCHANGED <<buffer_, size_, head_, tail_>>
  \/ /\ ~IsEmpty
     /\ result' = buffer_[head_]
     /\ head_' = Wrap(head_ + 1)
     /\ size_' = size_ - 1
     /\ UNCHANGED <<buffer_, tail_>>

\* A client reads one item; peek() is At(0).  Indices up to Capacity reach
\* both outcomes of the bounds check.
At(ind) ==
  /\ result' = ElementAt(ind)
  /\ UNCHANGED <<buffer_, size_, head_, tail_>>

Next ==
  \/ \E item \in Item : Enqueue(item)
  \/ Dequeue
  \/ \E ind \in 0 .. Capacity : At(ind)

Spec == Init /\ [][Next]_vars

-----------------------------------------------------------------------------
\* Every variable keeps its range; in particular no cursor leaves the array.
TypeOK ==
  /\ buffer_ \in [Slot -> Item \cup {Blank}]
  /\ size_ \in 0 .. Capacity
  /\ head_ \in Slot
  /\ tail_ \in Slot
  /\ result \in Item \cup {OutOfRange}

\* The three cursors stay in step: the write slot is size_ slots past the
\* read slot, through every overwrite and every wrap of either cursor.
CursorsAgree == tail_ = Wrap(head_ + size_)

\* No slot between the cursors is one that was never written: a reader never
\* sees the blank that buffer_{} put in the array.
HeldSlotsWritten ==
  \A i \in 0 .. size_ - 1 : buffer_[Wrap(head_ + i)] \in Item

\* The items held, oldest first: what begin() .. end() enumerates.
Contents == [i \in 1 .. size_ |-> buffer_[Wrap(head_ + i - 1)]]

Queue == INSTANCE BoundedQueue WITH queue <- Contents

\* The circular array behaves, call by call and result by result, as the
\* bounded queue that drops its oldest item when full.
ImplementsQueue == Queue!Spec
=============================================================================
