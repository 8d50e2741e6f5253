------------------------------- MODULE BitLog -------------------------------
(***************************************************************************)
(* What a pair of bit streams promises: bits are written straight away or  *)
(* are held back, the held ones can be thrown away or written behind what  *)
(* is there, one by one, and whatever is written stays as it is.           *)
(***************************************************************************)
EXTENDS Integers, Sequences

CONSTANT ByteSize

VARIABLES
  written,   \* the bits written, in order
  held,      \* the bits held back
  committed, \* how many of those the commit under way has written
  closed     \* nothing more is written

vars == <<written, held, committed, closed>>

Bit == {0, 1}

\* Zeros up to the next byte boundary.
Padded(bits) ==
  bits \o [i \in 1 .. (-Len(bits)) % ByteSize |-> 0]

Init ==
  /\ written = <<>> /\ held = <<>>
  /\ committed = 0
  /\ closed = FALSE

Write ==
  /\ ~closed /\ committed = 0
  /\ \E bit \in Bit : written' = Append(written, bit)
  /\ UNCHANGED <<held, committed, closed>>

Align ==
  /\ ~closed /\ committed = 0
  /\ written' = Padded(written)
  /\ UNCHANGED <<held, committed, closed>>

Hold ==
  /\ ~closed /\ committed = 0
  /\ \E bit \in Bit : held' = Append(held, bit)
  /\ UNCHANGED <<written, committed, closed>>

AlignHeld ==
  /\ ~closed /\ committed = 0
  /\ held' = Padded(held)
  /\ UNCHANGED <<written, committed, closed>>

\* One bit of a commit; the last one ends it and keeps the bits held.
Commit ==
  /\ ~closed /\ committed < Len(held)
  /\ written' = Append(written, held[committed + 1])
  /\ committed' = (committed + 1) % Len(held)
  /\ UNCHANGED <<held, closed>>

Drop ==
  /\ ~closed /\ committed = 0
  /\ held' = <<>>
  /\ UNCHANGED <<written, committed, closed>>

Close ==
  /\ ~closed /\ committed = 0
  /\ written' = Padded(written)
  /\ closed' = TRUE
  /\ UNCHANGED <<held, committed>>

Next == Write \/ Align \/ Hold \/ AlignHeld \/ Commit \/ Drop \/ Close

Spec == Init /\ [][Next]_vars
=============================================================================
