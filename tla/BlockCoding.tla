----------------------------- MODULE BlockCoding -----------------------------
(***************************************************************************)
(* The two block streams that are given what a match finder finds, as      *)
(* main gives it to them: block type 1 (FixedBlock) or block type 2        *)
(* (DynamicBlock), followed by the decoder that reads what was written.    *)
(* That the matches found stand for their literals is the promise of Lz77. *)
(***************************************************************************)
EXTENDS SymbolTables, Inflate, FiniteSets

CONSTANTS
  Matches,                  \* matches that blocks are made of
  LoneMatches,              \* matches that are tried as a block of their own
  MaxSteps,                 \* bound: no block takes more steps than this
  MaximumPrefixCodeLength   \* bound: 15 in the code

\* What a match finder gives, as Lz77 has it: literals that fit in its
\* look-ahead and, if they are enough for a match, how far back they are found.
IsMatch(m) ==
  /\ m \in [literals : Seq(0 .. 255), distance : 0 .. maximum_look_back_size]
  /\ Len(m.literals) \in 1 .. maximum_look_ahead_size
  /\ Len(m.literals) >= minimum_back_reference_length
       => m.distance >= minimum_back_reference_distance

ASSUME MatchAssumption == \A m \in Matches \cup LoneMatches : IsMatch(m)

ASSUME BoundAssumption == MaxSteps \in Nat /\ MaximumPrefixCodeLength \in Nat

VARIABLES
  type,  \* of the block stream
  pc, taken, buffered_out_, out,              \* of both streams
  block_, count_by_symbol_, it, prefix_codes  \* of block type 2

dynamic == <<block_, count_by_symbol_, it, prefix_codes>>
vars == <<type, pc, taken, buffered_out_, out, dynamic>>

Fixed == INSTANCE FixedBlock
Dynamic == INSTANCE DynamicBlock

-----------------------------------------------------------------------------
\* The next match: a block of matches that are tried alone has no other.
Found ==
  IF taken = <<>> THEN Matches \cup LoneMatches
  ELSE IF Len(taken) < MaxSteps /\ Head(taken) \in Matches THEN Matches
  ELSE {}

Init ==
  /\ type \in 1 .. 2
  /\ Fixed!Init
  /\ Dynamic!Init

FixedStep ==
  /\ type = 1
  /\ \/ \E m \in Found : Fixed!Step(m)
     \/ Fixed!BeginCommit \/ Fixed!EndCommit \/ Fixed!Reset
  /\ UNCHANGED <<type, dynamic>>

DynamicStep ==
  /\ type = 2
  /\ \/ \E m \in Found : Dynamic!Step(m)
     \/ Dynamic!BeginBuffer \/ Dynamic!EndOfBlock \/ Dynamic!Write
     \/ Dynamic!EndBuffer \/ Dynamic!Commit \/ Dynamic!Reset
  /\ UNCHANGED type

Next == FixedStep \/ DynamicStep

Spec == Init /\ [][Next]_vars

-----------------------------------------------------------------------------
\* The entries of block_ are read as what they are, and counts are natural.
TypesOK == IF type = 1 THEN Fixed!TypeOK ELSE Dynamic!TypeOK

\* The symbols of the block in out, by the type in its header.
Inflated ==
  IF out[1] = <<"type", 1>> THEN Read(1, SubSeq(out, 2, Len(out)))
  ELSE Read(2, SubSeq(out, 3, Len(out)))

\* The decoder reads the block to its end, and finds each match that was taken
\* either as its length and distance or as its literals, whatever the tables,
\* the codes and the choices between the two made of it.
BlockReads ==
  pc = "committed" =>
    Inflated.expects = "end" /\ StandFor(Inflated.items, taken)

\* Where the literals of a match are written, or a match for its literals, the
\* block does not get longer.
NeverLonger ==
  IF type = 1 THEN Fixed!NeverLonger ELSE Dynamic!NeverLonger

\* The codes of block type 2 are made for the block they are used in.
CountsOfBlock == type = 2 => Dynamic!CountsOfBlock
=============================================================================
