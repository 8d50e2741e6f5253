----------------------------- MODULE FixedBlock -----------------------------
(***************************************************************************)
(* include/block_type_1.hpp: a block with the codes that DEFLATE fixes.    *)
(* At each step the match finder offers the longest match, or none, and    *)
(* the stream takes the match or its first literal, whichever is shorter.  *)
(* What is pushed is held back in buffered_out_.                           *)
(***************************************************************************)
EXTENDS SymbolTables, FiniteSets, SequencesExt

VARIABLES
  pc,             \* "filling", "draining" or "committed"
  taken,          \* what the block took from the match finder, step by step
  buffered_out_,  \* the codes and offsets held back
  out             \* what the block pushed to the shared stream

vars == <<pc, taken, buffered_out_, out>>

\* A match is its literals and its distance; a single literal has none.
AsLiteral(m) == [literals |-> <<Head(m.literals)>>, distance |-> 0]
IsReference(m) == Len(m.literals) >= minimum_back_reference_length

-----------------------------------------------------------------------------
\* The lengths that build_literal_length_prefix_codes fills in.
FixedLength(s) ==
  CASE s < 144 -> 8 [] s \in 144 .. 255 -> 9 [] s \in 256 .. 279 -> 7
    [] OTHER -> 8

\* prefix_codes() of the fixed lengths; symbol s is the (s+1)-st there.
PrefixCodesOf ==
  INSTANCE PrefixCodes WITH
    Symbols <- num_literal_length_symbols, MaximumLength <- 9,
    BitsModulus <- 2 ^ 16,
    lengths <- [s \in 1 .. num_literal_length_symbols |-> FixedLength(s - 1)],
    i <- 0, next_code_bits <- <<>>, codes <- <<>>

\* Each code is the first of its length, plus one for each symbol before it
\* that has the same length.
literal_length_prefix_codes_ ==
  LET first == PrefixCodesOf!FirstCodeBits
      Before(s) == {t \in 0 .. s - 1 : FixedLength(t) = FixedLength(s)}
  IN [s \in 0 .. num_literal_length_symbols - 1 |->
        [bits |-> first[FixedLength(s)] + Cardinality(Before(s)),
         length |-> FixedLength(s)]]

distance_prefix_code_length == 5

Code(s) ==
  <<"code", literal_length_prefix_codes_[s].bits,
    literal_length_prefix_codes_[s].length>>

\* push_offset(): nothing if there is no bit, and no more than the bits.
Offset(s) ==
  IF s.num_bits = 0 THEN <<>>
  ELSE << <<"offset", s.bits % 2 ^ s.num_bits, s.num_bits>> >>

\* push_back_reference()
PushedBackReference(m) ==
  LET length == FromLength(Len(m.literals))
      distance == FromDistance(m.distance)
  IN <<Code(length.symbol)>> \o Offset(length)
       \o << <<"code", distance.symbol, distance_prefix_code_length>> >>
       \o Offset(distance)

LiteralBits(m) ==
  SumFunction([k \in DOMAIN m.literals |-> FixedLength(m.literals[k])])

BackReferenceBits(m) ==
  LET length == FromLength(Len(m.literals))
      distance == FromDistance(m.distance)
  IN FixedLength(length.symbol) + length.num_bits
       + distance_prefix_code_length + distance.num_bits

\* Mutant of TakesReference: it is taken if its literals are no longer.
TakesReferenceIfNotShorter(m) ==
  IsReference(m) /\ LiteralBits(m) <= BackReferenceBits(m)

TakesReference(m) == IsReference(m) /\ LiteralBits(m) >= BackReferenceBits(m)

-----------------------------------------------------------------------------
Init ==
  /\ pc = "filling"
  /\ taken = <<>>
  /\ buffered_out_ = <<>>
  /\ out = <<>>

\* step(): called by put() when the look-ahead is full, and until it is empty
\* by commit().
Step(m) ==
  /\ pc \in {"filling", "draining"}
  /\ IF TakesReference(m)
     THEN /\ buffered_out_' = buffered_out_ \o PushedBackReference(m)
          /\ taken' = Append(taken, m)
     ELSE /\ buffered_out_' = Append(buffered_out_, Code(Head(m.literals)))
          /\ taken' = Append(taken, AsLiteral(m))
  /\ UNCHANGED <<pc, out>>

\* commit(): the header, behind a last flag that the block does not depend on,
\* is pushed to the shared stream before the look-ahead is drained.
BeginCommit ==
  /\ pc = "filling"
  /\ pc' = "draining"
  /\ out' = << <<"type", 1>> >>
  /\ UNCHANGED <<taken, buffered_out_>>

EndCommit ==
  /\ pc = "draining"
  /\ pc' = "committed"
  /\ out' = out \o buffered_out_ \o <<Code(eob_symbol)>>
  /\ UNCHANGED <<taken, buffered_out_>>

\* reset(): the block was written, with this type or with another.
Reset ==
  /\ pc \in {"filling", "committed"}
  /\ pc' = "filling"
  /\ taken' = <<>>
  /\ buffered_out_' = <<>>
  /\ out' = <<>>

-----------------------------------------------------------------------------
TypeOK ==
  /\ pc \in {"filling", "draining", "committed"}
  /\ buffered_out_ \in Seq({"code", "offset"} \X Nat \X Nat)

\* The bits of what is held back.
NumBits ==
  SumFunction([k \in DOMAIN buffered_out_ |-> buffered_out_[k][3]])

\* No block is longer than its bytes as literals are.
NeverLonger ==
  NumBits <= SumFunction([k \in DOMAIN taken |-> LiteralBits(taken[k])])
=============================================================================
