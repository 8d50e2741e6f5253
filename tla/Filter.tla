------------------------------- MODULE Filter -------------------------------
(***************************************************************************)
(* What app/main.cpp promises whoever pipes a file through it, blocks and  *)
(* block types left out.  It reads bytes and, from time to time, makes the *)
(* decoder able to reproduce a longer prefix of what was read, never       *)
(* anything else and never taking a byte back.  When it finishes, the      *)
(* prefix is the file, or the file without its last byte: the compressor   *)
(* has exactly one place where a byte can be lost.                         *)
(***************************************************************************)
EXTENDS Integers, Sequences

CONSTANTS
  Byte,    \* the bytes of a file
  MaxFile  \* no file has more bytes than this

VARIABLES
  read,     \* the bytes taken from standard input
  decoded,  \* the bytes the output so far decodes to
  finished  \* the program returned from main

vars == <<read, decoded, finished>>

Prefixes(s) == {SubSeq(s, 1, n) : n \in 0 .. Len(s)}

Init ==
  /\ read = <<>>
  /\ decoded = <<>>
  /\ finished = FALSE

Read ==
  /\ ~finished
  /\ Len(read) < MaxFile
  /\ \E byte \in Byte : read' = Append(read, byte)
  /\ UNCHANGED <<decoded, finished>>

Publish ==
  /\ ~finished
  /\ decoded' \in Prefixes(read)
  /\ Len(decoded') >= Len(decoded)
  /\ UNCHANGED <<read, finished>>

Finish ==
  /\ ~finished
  /\ Len(decoded) >= Len(read) - 1
  /\ finished' = TRUE
  /\ UNCHANGED <<read, decoded>>

Next == Read \/ Publish \/ Finish

Spec == Init /\ [][Next]_vars

\* The same promise with progress: a finite file is finished some day.
FairSpec == Spec /\ <>finished
=============================================================================
