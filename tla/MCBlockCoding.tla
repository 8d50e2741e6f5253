--------------------------- MODULE MCBlockCoding ---------------------------
(***************************************************************************)
(* Instance of BlockCoding for TLC.                                        *)
(***************************************************************************)
EXTENDS BlockCoding

\* A literal of each fixed length.
Literal == {7, 200}

\* Matches of n literals, the first of which may differ from the others.
MatchesOf(n, distance) ==
  {[literals |-> <<a>> \o [k \in 1 .. n - 1 |-> b], distance |-> distance] :
     a \in Literal, b \in Literal}

\* Literals, and matches of three at a distance without offset and at one with.
BlockMatches == MatchesOf(1, 0) \cup MatchesOf(3, 1) \cup MatchesOf(3, 5)

\* A match of any length, or of the first or the last distance of a symbol.
SingleMatches ==
  LET Of(n, d) == [literals |-> [k \in 1 .. n |-> Min(Literal)], distance |-> d]
  IN {Of(n, 1) : n \in minimum_back_reference_length .. maximum_look_ahead_size}
       \cup {Of(minimum_back_reference_length, range[k]) :
               range \in ToSet(distance_ranges), k \in 2 .. 3}
=============================================================================
