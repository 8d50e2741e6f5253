-------------------------------- MODULE Lz77 --------------------------------
(***************************************************************************)
(* What an LZSS encoder promises the decoder: bytes leave the queue for    *)
(* the decoder's side in the order they were put, one token at a time, and *)
(* the decoder, which sees the tokens only, rebuilds exactly those bytes.  *)
(* No reference reaches further back, or is longer, than DEFLATE allows.   *)
(***************************************************************************)
EXTENDS Integers, Sequences

CONSTANTS Literal, LookBackSize, LookAheadSize

VARIABLES
  coded,    \* the bytes coded so far, which the decoder has rebuilt
  waiting,  \* the bytes put and not yet coded
  token     \* the token coded last

vars == <<coded, waiting, token>>

References ==
  {<<"reference", distance, length>> :
     distance \in 1 .. LookBackSize, length \in 3 .. LookAheadSize}

Tokens == {<<"literal", literal>> : literal \in Literal} \cup References

\* The decoder copies byte by byte, so a reference may be longer than its
\* distance: it then repeats what it has just written.
Copied(s, distance, length) ==
  s \o [i \in 1 .. length |-> s[Len(s) - distance + 1 + ((i - 1) % distance)]]

Init ==
  /\ coded = <<>>
  /\ waiting = <<>>
  /\ token = <<>>

Put ==
  /\ \E literal \in Literal : waiting' = Append(waiting, literal)
  /\ UNCHANGED <<coded, token>>

Code ==
  /\ token' \in Tokens
  /\ token' \in References => token'[2] <= Len(coded)
  /\ coded' = IF token' \in References
              THEN Copied(coded, token'[2], token'[3])
              ELSE Append(coded, token'[2])
  /\ coded' \o waiting' = coded \o waiting

Next == Put \/ Code

Spec == Init /\ [][Next]_vars
=============================================================================
