---------------------------- MODULE DynamicBlock ----------------------------
(***************************************************************************)
(* include/block_type_2.hpp: a block with codes made for it.  The symbols  *)
(* are collected and counted first; a match is collected with its literals *)
(* behind it, which are not counted.  When the block is buffered, the      *)
(* codes are made from the counts, and each match is written as a match or *)
(* as its literals, if these all have codes and take fewer bits.           *)
(***************************************************************************)
EXTENDS SymbolTables, FiniteSets, SequencesExt

CONSTANT MaximumPrefixCodeLength  \* 15

VARIABLES
  pc,  \* "filling", "draining", "flushing", "buffered", "committed" or "thrown"
  taken,             \* what the block took from the match finder, step by step
  block_,            \* symbols and offsets in order
  count_by_symbol_,  \* of literals and lengths, and of distances behind them
  it,                \* flush_block(): the entry of block_ that is next
  prefix_codes,      \* flush_block(): the lengths of the codes
  buffered_out_,     \* the codes and offsets held back
  out                \* what the block pushed to the shared stream

vars == <<pc, taken, block_, count_by_symbol_, it, prefix_codes,
          buffered_out_, out>>

Symbol == 0 .. num_literal_length_symbols + num_distance_symbols - 1

AsLiteral(m) == [literals |-> <<Head(m.literals)>>, distance |-> 0]
IsReference(m) == Len(m.literals) >= minimum_back_reference_length

-----------------------------------------------------------------------------
(***************************************************************************)
(* Collecting.                                                             *)
(***************************************************************************)
SymbolEntry(s) == <<"symbol", s>>
OffsetEntry(s) == <<"offset", s.bits, s.num_bits>>

\* push_symbol() of a literal or the end of the block.
PushSymbol(s) ==
  /\ block_' = Append(block_, SymbolEntry(s))
  /\ count_by_symbol_' = [count_by_symbol_ EXCEPT ![s] = @ + 1]

\* push_back_reference()
PushBackReference(m) ==
  LET length == FromLength(Len(m.literals))
      distance == FromDistance(m.distance)
      distance_symbol == distance.symbol + num_literal_length_symbols
  IN /\ block_' = block_
          \o <<SymbolEntry(length.symbol), OffsetEntry(length),
               SymbolEntry(distance_symbol), OffsetEntry(distance)>>
          \o [k \in DOMAIN m.literals |-> SymbolEntry(m.literals[k])]
     /\ count_by_symbol_' = [count_by_symbol_ EXCEPT ![length.symbol] = @ + 1,
                                                     ![distance_symbol] = @ + 1]

\* step(): called by put() when the look-ahead is full, and until it is empty
\* by buffer().
Step(m) ==
  /\ pc \in {"filling", "draining"}
  /\ IF IsReference(m)
     THEN PushBackReference(m) /\ taken' = Append(taken, m)
     ELSE PushSymbol(Head(m.literals)) /\ taken' = Append(taken, AsLiteral(m))
  /\ UNCHANGED <<pc, it, prefix_codes, buffered_out_, out>>

\* buffer(), called by bits() and by commit(); it returns at once if it has
\* been called for the block.
BeginBuffer ==
  /\ pc = "filling"
  /\ pc' = "draining"
  /\ buffered_out_' = << <<"type", 2>> >>
  /\ UNCHANGED <<taken, block_, count_by_symbol_, it, prefix_codes, out>>

-----------------------------------------------------------------------------
(***************************************************************************)
(* Flushing.                                                               *)
(***************************************************************************)
\* Codes for these symbols and for no other: one symbol has length 1, more have
\* some complete code, of which package_merge finds one (HuffmanCodes).
CodesFor(symbols) ==
  IF Cardinality(symbols) <= 1 THEN {[s \in symbols |-> 1]}
  ELSE {lengths \in [symbols -> 1 .. MaximumPrefixCodeLength] :
          SumFunction([s \in symbols |-> 2 ^ (MaximumPrefixCodeLength - lengths[s])])
            = 2 ^ MaximumPrefixCodeLength}

\* The look-ahead is drained: the end is pushed, the codes are made, and their
\* lengths are written in front of the symbols (CodeLengths).
EndOfBlock ==
  /\ pc = "draining"
  /\ pc' = "flushing"
  /\ PushSymbol(eob_symbol)
  /\ LET Used(symbols) == {s \in symbols : count_by_symbol_'[s] > 0}
     IN \E literal_lengths \in CodesFor(Used(0 .. num_literal_length_symbols - 1)),
           distances \in CodesFor(Used(Symbol \ (0 .. num_literal_length_symbols - 1))) :
          /\ prefix_codes' =
               [s \in DOMAIN literal_lengths \cup DOMAIN distances |->
                  IF s \in DOMAIN literal_lengths THEN literal_lengths[s]
                  ELSE distances[s]]
          /\ buffered_out_' = Append(buffered_out_, <<"lengths", prefix_codes'>>)
  /\ it' = 1
  /\ UNCHANGED <<taken, out>>

HasCode(s) == s \in DOMAIN prefix_codes
CodeLength(s) == IF HasCode(s) THEN prefix_codes[s] ELSE 0

\* push_prefix_code(): no bit if the symbol has no code.
Code(s) == IF HasCode(s) THEN << <<"code", s>> >> ELSE <<>>

\* push_offset()
Offset(e) ==
  IF e[3] = 0 THEN <<>> ELSE << <<"offset", e[2] % 2 ^ e[3], e[3]>> >>

\* The entries of a match at it: its length, its distance and its literals.
LengthEntries == SubSeq(block_, it, it + 1)
DistanceEntries == SubSeq(block_, it + 2, it + 3)
MatchLength == ToLength(LengthEntries[1][2], LengthEntries[2][2])
MatchLiterals ==
  [k \in 1 .. MatchLength |-> block_[it + 3 + k][2]]

BackReferenceBits ==
  CodeLength(LengthEntries[1][2]) + LengthEntries[2][3]
    + CodeLength(DistanceEntries[1][2]) + DistanceEntries[2][3]

LiteralBits ==
  SumFunction([k \in DOMAIN MatchLiterals |-> CodeLength(MatchLiterals[k])])

\* Mutant of LiteralsShorter: a literal without a code counts as no bits.
LiteralsShorterUncoded == LiteralBits < BackReferenceBits

\* Literals that have no code are never shorter.
LiteralsShorter ==
  /\ \A k \in DOMAIN MatchLiterals : HasCode(MatchLiterals[k])
  /\ LiteralBits < BackReferenceBits

\* The codes of the literals, one pushed behind the other.
PushedLiterals ==
  LET pushed[n \in 0 .. MatchLength] ==
        IF n = 0 THEN <<>> ELSE pushed[n - 1] \o Code(MatchLiterals[n])
  IN pushed[MatchLength]

WrittenMatch ==
  IF LiteralsShorter THEN PushedLiterals
  ELSE Code(LengthEntries[1][2]) \o Offset(LengthEntries[2])
         \o Code(DistanceEntries[1][2]) \o Offset(DistanceEntries[2])

\* Mutant of Write: behind a match, only its literals are skipped.
WriteSkipsLiteralsOnly ==
  /\ pc = "flushing"
  /\ it <= Len(block_)
  /\ IF block_[it][1] # "symbol"
     THEN pc' = "thrown" /\ UNCHANGED <<it, buffered_out_>>
     ELSE /\ IF block_[it][2] > eob_symbol
             THEN /\ buffered_out_' = buffered_out_ \o WrittenMatch
                  /\ it' = it + MatchLength
             ELSE /\ buffered_out_' = buffered_out_ \o Code(block_[it][2])
                  /\ it' = it + 1
          /\ UNCHANGED pc
  /\ UNCHANGED <<taken, block_, count_by_symbol_, prefix_codes, out>>

\* One turn of the loop of flush_block: a literal, the end, or a match with
\* the literals behind it.  An entry read as what it is not: std::get throws.
Write ==
  /\ pc = "flushing"
  /\ it <= Len(block_)
  /\ IF block_[it][1] # "symbol"
     THEN pc' = "thrown" /\ UNCHANGED <<it, buffered_out_>>
     ELSE /\ IF block_[it][2] > eob_symbol
             THEN /\ buffered_out_' = buffered_out_ \o WrittenMatch
                  /\ it' = it + 4 + MatchLength
             ELSE /\ buffered_out_' = buffered_out_ \o Code(block_[it][2])
                  /\ it' = it + 1
          /\ UNCHANGED pc
  /\ UNCHANGED <<taken, block_, count_by_symbol_, prefix_codes, out>>

\* The locals of flush_block are gone.
EndBuffer ==
  /\ pc = "flushing"
  /\ it = Len(block_) + 1
  /\ pc' = "buffered"
  /\ it' = 0
  /\ prefix_codes' = <<>>
  /\ UNCHANGED <<taken, block_, count_by_symbol_, buffered_out_, out>>

-----------------------------------------------------------------------------
Init ==
  /\ pc = "filling"
  /\ taken = <<>>
  /\ block_ = <<>>
  /\ count_by_symbol_ = [s \in Symbol |-> 0]
  /\ it = 0
  /\ prefix_codes = <<>>
  /\ buffered_out_ = <<>>
  /\ out = <<>>

\* commit(): the block is buffered, and is the smallest.
Commit ==
  /\ pc = "buffered"
  /\ pc' = "committed"
  /\ out' = buffered_out_
  /\ UNCHANGED <<taken, block_, count_by_symbol_, it, prefix_codes, buffered_out_>>

\* Mutant of Reset: the counts of the block are kept.
ResetKeepsCounts ==
  /\ pc \in {"buffered", "committed"}
  /\ pc' = "filling"
  /\ taken' = <<>>
  /\ block_' = <<>>
  /\ buffered_out_' = <<>>
  /\ out' = <<>>
  /\ UNCHANGED <<it, prefix_codes, count_by_symbol_>>

\* reset(): the block was written, with this type or with another.
Reset ==
  /\ pc \in {"buffered", "committed"}
  /\ pc' = "filling"
  /\ taken' = <<>>
  /\ block_' = <<>>
  /\ count_by_symbol_' = [s \in Symbol |-> 0]
  /\ buffered_out_' = <<>>
  /\ out' = <<>>
  /\ UNCHANGED <<it, prefix_codes>>

-----------------------------------------------------------------------------
\* Each turn of the loop of flush_block begins at a symbol.
TypeOK ==
  /\ pc \in {"filling", "draining", "flushing", "buffered", "committed"}
  /\ pc = "flushing" /\ it <= Len(block_) => block_[it][1] = "symbol"
  /\ count_by_symbol_ \in [Symbol -> Nat]
  /\ it \in 0 .. Len(block_) + 1
  /\ DOMAIN prefix_codes \subseteq Symbol

\* How often each symbol stands for a step of the block, or for its end.
Stands(m) ==
  IF IsReference(m)
  THEN {FromLength(Len(m.literals)).symbol,
        FromDistance(m.distance).symbol + num_literal_length_symbols}
  ELSE {Head(m.literals)}

Ended == pc \notin {"filling", "draining"}

\* The codes are made from the counts of this block's own steps: literals
\* behind a match, and earlier blocks, do not count.
CountsOfBlock ==
  LET standing == UNION {{k} \X Stands(taken[k]) : k \in DOMAIN taken}
  IN \A s \in Symbol :
       count_by_symbol_[s] =
         Cardinality({p \in standing : p[2] = s})
           + (IF Ended /\ s = eob_symbol THEN 1 ELSE 0)

\* The bits of something pushed, and of a step that is written as it is, with
\* codes of these lengths.
BitsOf(lengths, p) ==
  CASE p[1] = "code" -> lengths[p[2]] [] p[1] = "offset" -> p[3] [] OTHER -> 0

StepBits(lengths, m) ==
  IF IsReference(m)
  THEN LET length == FromLength(Len(m.literals))
           distance == FromDistance(m.distance)
       IN lengths[length.symbol] + length.num_bits
            + lengths[distance.symbol + num_literal_length_symbols]
            + distance.num_bits
  ELSE lengths[Head(m.literals)]

\* The bits of what is held back, by the lengths written in front.
NumBits ==
  SumFunction([k \in DOMAIN buffered_out_ |->
                 BitsOf(buffered_out_[2][2], buffered_out_[k])])

\* The bits of the block with every match written as a match, which is what
\* the codes are made for.
MatchedBits ==
  LET lengths == buffered_out_[2][2]
  IN lengths[eob_symbol]
       + SumFunction([k \in DOMAIN taken |-> StepBits(lengths, taken[k])])

\* Writing literals for matches never makes a block longer.
NeverLonger == pc = "buffered" => NumBits <= MatchedBits
=============================================================================
