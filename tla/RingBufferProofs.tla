-------------------------- MODULE RingBufferProofs --------------------------
(***************************************************************************)
(* RingBuffer, for every capacity and every set of items: its cursors stay *)
(* in range and in step, no slot is read before it was written, and call   *)
(* by call it is the bounded queue.                                        *)
(***************************************************************************)
EXTENDS RingBuffer, SequenceTheorems, TLAPS

USE CapacityAssumption DEF Slot

\* Wrapping an index takes at most one lap off it.
LEMMA Reduce ==
  ASSUME NEW n \in Nat, n < 2 * Capacity
  PROVE  Wrap(n) = IF n < Capacity THEN n ELSE n - Capacity
<1>1. CASE n < Capacity
  BY <1>1 DEF Wrap
<1>2. CASE ~(n < Capacity)
  BY <1>2 DEF Wrap
<1>3. QED
  BY <1>1, <1>2

\* Moving the read slot forward by one renumbers the slots by one.
LEMMA SlotAfterAdvance ==
  ASSUME NEW h \in Slot, NEW i \in 0 .. Capacity - 1
  PROVE  Wrap(Wrap(h + 1) + i) = Wrap(h + (i + 1))
<1>1. Wrap(h + 1) = IF h + 1 < Capacity THEN h + 1 ELSE 0
  BY Reduce
<1>2. QED
  BY <1>1, Reduce

\* Moving both cursors forward by one keeps their distance.
LEMMA SlotBeyond ==
  ASSUME NEW h \in Slot, NEW n \in 0 .. Capacity - 1
  PROVE  Wrap(Wrap(h + n) + 1) = Wrap(h + (n + 1))
<1>1. Wrap(h + n) = IF h + n < Capacity THEN h + n ELSE h + n - Capacity
  BY Reduce
<1>2. Wrap(Wrap(h + n) + 1) = IF Wrap(h + n) + 1 < Capacity
                              THEN Wrap(h + n) + 1 ELSE 0
  BY <1>1, Reduce
<1>3. QED
  BY <1>1, <1>2, Reduce

-----------------------------------------------------------------------------
\* The inductive invariant: a dequeue returns an item, not a blank, only
\* because the slots between the cursors were written, and they were
\* because the write slot follows the read slot by exactly size_.
IInv == TypeOK /\ CursorsAgree /\ HeldSlotsWritten

\* The invariant holds initially.
LEMMA InitIInv == Init => IInv
BY Reduce DEF Init, IInv, TypeOK, CursorsAgree, HeldSlotsWritten

\* Putting an item preserves the invariant, overwriting or not.
LEMMA EnqueueIInv ==
  ASSUME IInv, NEW item \in Item, Enqueue(item)
  PROVE  IInv'
<1> USE DEF IInv, TypeOK, Enqueue, IsFull
<1>1. TypeOK'
  BY Reduce
<1>2. CASE IsFull
  <2>1. tail_ = head_
    BY <1>2, Reduce DEF CursorsAgree
  <2>2. CursorsAgree'
    BY <1>1, <1>2, <2>1, Reduce DEF CursorsAgree
  <2>3. ASSUME NEW i \in 0 .. Capacity - 1
        PROVE  buffer_'[Wrap(head_' + i)] \in Item
    <3>1. Wrap(head_' + i) = Wrap(head_ + (i + 1))
      BY <1>2, SlotAfterAdvance
    <3>2. CASE i = Capacity - 1
      BY <1>2, <2>1, <3>1, <3>2, Reduce
    <3>3. CASE i # Capacity - 1
      <4> DEFINE j == i + 1
      <4>1. j \in 0 .. size_ - 1
        BY <1>2, <3>3
      <4>2. buffer_[Wrap(head_ + j)] \in Item
        BY <4>1 DEF HeldSlotsWritten
      <4>3. Wrap(head_ + (i + 1)) \in Slot /\ Wrap(head_ + (i + 1)) # tail_
        BY <1>2, <2>1, <3>3, Reduce
      <4>4. QED
        BY <3>1, <4>2, <4>3
    <3>4. QED
      BY <3>2, <3>3
  <2>4. QED
    BY <1>1, <1>2, <2>2, <2>3 DEF HeldSlotsWritten
<1>3. CASE ~IsFull
  <2>1. CursorsAgree'
    BY <1>3, SlotBeyond DEF CursorsAgree
  <2>2. ASSUME NEW i \in 0 .. size_
        PROVE  buffer_'[Wrap(head_ + i)] \in Item
    <3>1. Wrap(head_ + i) \in Slot
      BY <1>3, Reduce
    <3>2. CASE i = size_
      BY <3>1, <3>2 DEF CursorsAgree
    <3>3. CASE i # size_
      BY <1>3, <3>1, <3>3 DEF HeldSlotsWritten
    <3>4. QED
      BY <3>2, <3>3
  <2>3. size_' - 1 = size_ /\ head_' = head_
    BY <1>3
  <2>4. QED
    BY <1>1, <2>1, <2>2, <2>3 DEF HeldSlotsWritten
<1>4. QED
  BY <1>2, <1>3

\* Taking an item preserves the invariant, as does the throw of an empty buffer.
LEMMA DequeueIInv ==
  ASSUME IInv, Dequeue
  PROVE  IInv'
<1> USE DEF IInv, TypeOK, Dequeue, IsEmpty
<1>1. CASE IsEmpty
  BY <1>1 DEF CursorsAgree, HeldSlotsWritten
<1>2. CASE ~IsEmpty
  <2>1. buffer_[Wrap(head_ + 0)] \in Item
    BY <1>2, 0 \in 0 .. size_ - 1 DEF HeldSlotsWritten
  <2>2. head_ = Wrap(head_ + 0)
    BY Reduce
  <2>3. TypeOK'
    BY <1>2, <2>1, <2>2, Reduce
  <2>4. CursorsAgree'
    BY <1>2, SlotAfterAdvance DEF CursorsAgree
  <2>5. ASSUME NEW i \in 0 .. size_ - 2
        PROVE  buffer_[Wrap(Wrap(head_ + 1) + i)] \in Item
    <3> DEFINE j == i + 1
    <3>1. j \in 0 .. size_ - 1 /\ i \in 0 .. Capacity - 1
      BY <1>2
    <3>2. buffer_[Wrap(head_ + j)] \in Item
      BY <3>1 DEF HeldSlotsWritten
    <3>3. QED
      BY <3>1, <3>2, SlotAfterAdvance
  <2>6. HeldSlotsWritten'
    BY <1>2, <2>5 DEF HeldSlotsWritten
  <2>7. QED
    BY <2>3, <2>4, <2>6
<1>3. QED
  BY <1>1, <1>2

\* Reading an item preserves the invariant.
LEMMA AtIInv ==
  ASSUME IInv, NEW ind \in 0 .. Capacity, At(ind)
  PROVE  IInv'
<1>1. ElementAt(ind) \in Item \cup {OutOfRange}
  BY DEF IInv, TypeOK, HeldSlotsWritten, ElementAt
<1>2. QED
  BY <1>1 DEF IInv, TypeOK, CursorsAgree, HeldSlotsWritten, At

\* Every step preserves the invariant.
LEMMA NextIInv == IInv /\ [Next]_vars => IInv'
<1> SUFFICES ASSUME IInv, [Next]_vars PROVE IInv'
  OBVIOUS
<1>1. ASSUME NEW item \in Item, Enqueue(item) PROVE IInv'
  BY <1>1, EnqueueIInv
<1>2. CASE Dequeue
  BY <1>2, DequeueIInv
<1>3. ASSUME NEW ind \in 0 .. Capacity, At(ind) PROVE IInv'
  BY <1>3, AtIInv
<1>4. CASE UNCHANGED vars
  BY <1>4 DEF IInv, TypeOK, CursorsAgree, HeldSlotsWritten, vars
<1>5. QED
  BY <1>1, <1>2, <1>3, <1>4 DEF Next

\* At every moment of every run the cursors are in range and in step and
\* the slots between them hold items that were enqueued.
THEOREM Invariance == Spec => []IInv
<1>1. QED
  BY InitIInv, NextIInv, PTL DEF Spec

\* Corollary: the type invariant alone.
THEOREM TypeCorrect == Spec => []TypeOK
<1>1. IInv => TypeOK
  BY DEF IInv
<1>2. QED
  BY <1>1, Invariance, PTL

\* Corollary: the write slot is always size_ slots past the read slot.
THEOREM CursorsInStep == Spec => []CursorsAgree
<1>1. IInv => CursorsAgree
  BY DEF IInv
<1>2. QED
  BY <1>1, Invariance, PTL

\* Corollary: no unwritten slot is ever between the cursors.
THEOREM NoBlankRead == Spec => []HeldSlotsWritten
<1>1. IInv => HeldSlotsWritten
  BY DEF IInv
<1>2. QED
  BY <1>1, Invariance, PTL

-----------------------------------------------------------------------------
(***************************************************************************)
(* The refinement: each call on the array is the same call on Contents.    *)
(***************************************************************************)
\* What appending one item does, at every index.
LEMMA AppendAt ==
  ASSUME NEW q \in Seq(Item), NEW item \in Item, NEW n \in Nat, Len(q) = n
  PROVE  /\ Append(q, item) \in Seq(Item)
         /\ Len(Append(q, item)) = n + 1
         /\ \A i \in 1 .. n : Append(q, item)[i] = q[i]
         /\ Append(q, item)[n + 1] = item
BY AppendProperties

\* A window of n written slots from slot h on, read as a sequence.
LEMMA WindowSeq ==
  ASSUME NEW b, NEW n \in 0 .. Capacity, NEW h \in Slot,
         \A i \in 0 .. n - 1 : b[Wrap(h + i)] \in Item
  PROVE  [i \in 1 .. n |-> b[Wrap(h + i - 1)]] \in Seq(Item)
<1>1. ASSUME NEW i \in 1 .. n
      PROVE  b[Wrap(h + i - 1)] \in Item
  <2> DEFINE j == i - 1
  <2>1. j \in 0 .. n - 1 /\ h + j = h + i - 1
    OBVIOUS
  <2>2. b[Wrap(h + j)] \in Item
    BY <2>1
  <2>3. QED
    BY <2>1, <2>2
<1>2. QED
  BY <1>1, IsASeq

\* The contents are a sequence of size_ items.
LEMMA ContentsSeq ==
  ASSUME IInv
  PROVE  Contents \in Seq(Item) /\ Len(Contents) = size_
<1>1. \A i \in 0 .. size_ - 1 : buffer_[Wrap(head_ + i)] \in Item
  BY DEF IInv, HeldSlotsWritten
<1>2. size_ \in 0 .. Capacity /\ head_ \in Slot
  BY DEF IInv, TypeOK
<1>3. Contents \in Seq(Item)
  BY <1>1, <1>2, WindowSeq DEF Contents
<1>4. DOMAIN Contents = 1 .. size_ /\ size_ \in Nat
  BY <1>2 DEF Contents
<1>5. QED
  BY <1>3, <1>4, LenProperties

\* The contents after a step are a sequence of size_ items as well.
LEMMA ContentsSeqPrime ==
  ASSUME IInv'
  PROVE  Contents' \in Seq(Item) /\ Len(Contents') = size_'
<1>1. \A i \in 0 .. size_' - 1 : buffer_'[Wrap(head_' + i)] \in Item
  BY DEF IInv, HeldSlotsWritten
<1>2. size_' \in 0 .. Capacity /\ head_' \in Slot
  BY DEF IInv, TypeOK
<1>3. Contents' \in Seq(Item)
  BY <1>1, <1>2, WindowSeq DEF Contents
<1>4. DOMAIN Contents' = 1 .. size_' /\ size_' \in Nat
  BY <1>2 DEF Contents
<1>5. QED
  BY <1>3, <1>4, LenProperties

\* A new ring buffer is an empty queue.
LEMMA InitRefines == Init => Queue!Init
<1> SUFFICES ASSUME Init PROVE Queue!Init
  OBVIOUS
<1>1. Contents \in Seq(Item) /\ Len(Contents) = 0
  BY InitIInv, ContentsSeq DEF Init
<1>2. Contents = <<>>
  BY <1>1, EmptySeq
<1>3. QED
  BY <1>2 DEF Init, Queue!Init

\* Putting an item is putting it in the queue.
LEMMA EnqueueRefines ==
  ASSUME IInv, IInv', NEW item \in Item, Enqueue(item)
  PROVE  Queue!Enqueue(item)
<1> USE DEF IInv, TypeOK, Enqueue, IsFull
<1>1. Contents \in Seq(Item) /\ Len(Contents) = size_
  BY ContentsSeq
<1>2. Contents' \in Seq(Item) /\ Len(Contents') = size_'
  BY ContentsSeqPrime
<1>3. CASE IsFull
  <2> DEFINE expected == Append(Tail(Contents), item)
  <2>1. /\ Contents # <<>>
        /\ Tail(Contents) \in Seq(Item)
        /\ Len(Tail(Contents)) = size_ - 1
        /\ \A i \in 1 .. size_ - 1 : Tail(Contents)[i] = Contents[i + 1]
    BY <1>1, <1>3, EmptySeq, HeadTailProperties
  <2>2. /\ expected \in Seq(Item)
        /\ Len(expected) = size_
        /\ \A i \in 1 .. size_ - 1 : expected[i] = Contents[i + 1]
        /\ expected[size_] = item
    BY <2>1, AppendProperties
  <2>3. tail_ = head_ /\ size_' = size_
    BY <1>3, Reduce DEF CursorsAgree
  <2>4. ASSUME NEW i \in 1 .. size_
        PROVE  Contents'[i] = expected[i]
    <3>1. Contents'[i] = buffer_'[Wrap(head_' + i - 1)]
      BY <2>3 DEF Contents
    <3>2. CASE i = size_
      <4>1. Wrap(head_' + i - 1) = head_
        BY <1>3, <3>2, Reduce
      <4>2. QED
        BY <2>2, <2>3, <3>1, <3>2, <4>1
    <3>3. CASE i # size_
      <4> DEFINE j == i + 1
      <4>0. j \in 1 .. size_ /\ i \in 1 .. size_ - 1
        BY <3>3
      <4>1. expected[i] = buffer_[Wrap(head_ + (i + 1) - 1)]
        <5>1. Contents[j] = buffer_[Wrap(head_ + j - 1)]
          BY <4>0 DEF Contents
        <5>2. QED
          BY <2>2, <4>0, <5>1
      <4>2. /\ Wrap(head_' + i - 1) = Wrap(head_ + (i + 1) - 1)
            /\ Wrap(head_' + i - 1) # tail_
            /\ Wrap(head_' + i - 1) \in Slot
        BY <1>3, <2>3, <3>3, Reduce
      <4>3. QED
        BY <3>1, <4>1, <4>2
    <3>4. QED
      BY <3>2, <3>3
  <2>5. Contents' = expected
    BY <1>2, <2>2, <2>3, <2>4, SeqEqual
  <2>6. QED
    BY <1>1, <1>3, <2>5 DEF Queue!Enqueue, Queue!Enqueued
<1>4. CASE ~IsFull
  <2> DEFINE expected == Append(Contents, item)
  <2>1. /\ expected \in Seq(Item)
        /\ Len(expected) = size_ + 1
        /\ \A i \in 1 .. size_ : expected[i] = Contents[i]
        /\ expected[size_ + 1] = item
    BY <1>1, AppendAt
  <2>2. ASSUME NEW i \in 1 .. size_ + 1
        PROVE  Contents'[i] = expected[i]
    <3>1. Contents'[i] = buffer_'[Wrap(head_ + i - 1)]
      BY <1>4 DEF Contents
    <3>2. CASE i = size_ + 1
      <4>1. Wrap(head_ + i - 1) = tail_
        BY <3>2 DEF CursorsAgree
      <4>2. QED
        BY <2>1, <3>1, <3>2, <4>1
    <3>3. CASE i # size_ + 1
      <4>1. expected[i] = buffer_[Wrap(head_ + i - 1)]
        BY <2>1, <3>3 DEF Contents
      <4>2. Wrap(head_ + i - 1) # tail_ /\ Wrap(head_ + i - 1) \in Slot
        <5>1. /\ i \in 1 .. size_ /\ size_ < Capacity
              /\ head_ \in 0 .. Capacity - 1
          BY <1>4, <3>3
        <5>2. tail_ = IF head_ + size_ < Capacity THEN head_ + size_
                      ELSE head_ + size_ - Capacity
          BY <5>1, Reduce DEF CursorsAgree
        <5> DEFINE k == head_ + i - 1
        <5>3. Wrap(k) = IF k < Capacity THEN k ELSE k - Capacity
          BY <5>1, Reduce
        <5>4. QED
          BY <5>1, <5>2, <5>3
      <4>3. QED
        BY <3>1, <4>1, <4>2
    <3>4. QED
      BY <3>2, <3>3
  <2>3. Contents' = expected
    BY <1>2, <1>4, <2>1, <2>2, SeqEqual
  <2>4. QED
    BY <1>1, <1>4, <2>3 DEF Queue!Enqueue, Queue!Enqueued
<1>5. QED
  BY <1>3, <1>4

\* Taking an item is taking it from the queue.
LEMMA DequeueRefines ==
  ASSUME IInv, IInv', Dequeue
  PROVE  Queue!Dequeue
<1> USE DEF IInv, TypeOK, Dequeue, IsEmpty
<1>1. Contents \in Seq(Item) /\ Len(Contents) = size_
  BY ContentsSeq
<1>2. Contents' \in Seq(Item) /\ Len(Contents') = size_'
  BY ContentsSeqPrime
<1>3. CASE IsEmpty
  BY <1>1, <1>3, EmptySeq DEF Queue!Dequeue, Contents
<1>4. CASE ~IsEmpty
  <2>1. /\ Contents # <<>>
        /\ Tail(Contents) \in Seq(Item)
        /\ Len(Tail(Contents)) = size_ - 1
        /\ \A i \in 1 .. size_ - 1 : Tail(Contents)[i] = Contents[i + 1]
        /\ Head(Contents) = Contents[1]
    BY <1>1, <1>4, EmptySeq, HeadTailProperties
  <2>2. ASSUME NEW i \in 1 .. size_ - 1
        PROVE  Contents'[i] = Tail(Contents)[i]
    <3>1. /\ Contents'[i] = buffer_[Wrap(head_' + i - 1)]
          /\ Tail(Contents)[i] = buffer_[Wrap(head_ + (i + 1) - 1)]
      BY <1>4, <2>1 DEF Contents
    <3>2. Wrap(head_' + i - 1) = Wrap(head_ + (i + 1) - 1)
      BY <1>4, Reduce
    <3>3. QED
      BY <3>1, <3>2
  <2>3. Contents' = Tail(Contents)
    BY <1>2, <1>4, <2>1, <2>2, SeqEqual
  <2>4. Head(Contents) = buffer_[head_]
    BY <1>4, <2>1, Reduce DEF Contents
  <2>5. QED
    BY <1>4, <2>1, <2>3, <2>4 DEF Queue!Dequeue
<1>5. QED
  BY <1>3, <1>4

\* Reading an item is reading it in the queue.
LEMMA AtRefines ==
  ASSUME IInv, NEW ind \in 0 .. Capacity, At(ind)
  PROVE  Queue!At(ind)
<1>1. Contents \in Seq(Item) /\ Len(Contents) = size_
  BY ContentsSeq
<1>2. ElementAt(ind) = IF ind < Len(Contents) THEN Contents[ind + 1]
                       ELSE OutOfRange
  BY <1>1 DEF IInv, TypeOK, ElementAt, Contents
<1>3. QED
  BY <1>2 DEF At, Queue!At, Contents

\* Every step is a step of the queue.
LEMMA NextRefines ==
  ASSUME IInv, IInv', [Next]_vars
  PROVE  [Queue!Next]_Queue!vars
<1>1. ASSUME NEW item \in Item, Enqueue(item) PROVE Queue!Next
  BY <1>1, EnqueueRefines DEF Queue!Next
<1>2. ASSUME Dequeue PROVE Queue!Next
  BY <1>2, DequeueRefines DEF Queue!Next
<1>3. ASSUME NEW ind \in 0 .. Capacity, At(ind) PROVE Queue!Next
  BY <1>3, AtRefines DEF Queue!Next
<1>4. ASSUME UNCHANGED vars PROVE UNCHANGED Queue!vars
  BY <1>4 DEF vars, Queue!vars, Contents
<1>5. QED
  BY <1>1, <1>2, <1>3, <1>4 DEF Next

\* Whatever the capacity and the items, the circular array answers every
\* sequence of calls exactly as the queue that drops its oldest item would.
THEOREM Refinement == Spec => ImplementsQueue
<1>1. Init => Queue!Init
  BY InitRefines
<1>2. IInv /\ IInv' /\ [Next]_vars => [Queue!Next]_Queue!vars
  BY NextRefines
<1>3. QED
  BY <1>1, <1>2, Invariance, PTL DEF Spec, Queue!Spec, ImplementsQueue
=============================================================================
