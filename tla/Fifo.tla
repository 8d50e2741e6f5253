-------------------------------- MODULE Fifo --------------------------------
(***************************************************************************)
(* The one operation of include/ring_buffer.hpp that is not an operation   *)
(* of a plain queue: enqueue on a full buffer overwrites the oldest item.  *)
(***************************************************************************)
EXTENDS Integers, Sequences

\* The queue q, of capacity c, after item is enqueued.
Enqueued(q, c, item) ==
  IF Len(q) = c THEN Append(Tail(q), item) ELSE Append(q, item)
=============================================================================
