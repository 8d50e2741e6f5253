----------------------------- MODULE CodeLengths -----------------------------
(***************************************************************************)
(* flush_block_metadata of include/block_type_2.hpp: the lengths of the    *)
(* codes of a block, written in front of it.  The codes behind the last    *)
(* one that is used are left out, and runs of equal lengths, which may     *)
(* reach from the literals into the distances, are shortened by repeat     *)
(* symbols.  The repeat symbols are numbered behind the lengths, as 16,    *)
(* 17 and 18 are.  The code of these symbols is made from their counts,    *)
(* and its lengths, reordered, are written first of all.                   *)
(***************************************************************************)
EXTENDS Integers, FiniteSets, SequencesExt, FiniteSetsExt, Functions

CONSTANTS
  NumLiteralLengthSymbols,     \* 288
  NumDistanceSymbols,          \* 30
  MinLeadingLiteralLength,     \* 257: eob is never left out
  MaximumPrefixCodeLength,     \* 15
  RepeatMin, RepeatMax,        \* 3 and 6, previous_3_or_more_times
  ZerosMin, ZerosMax,          \* 3 and 10, zero_3_or_more_times
  ManyZerosMin, ManyZerosMax,  \* 11 and 138, zero_11_or_more_times
  CodeLengthOrder,             \* 16, 17, 18, 0, 8, 7, 9, ... 1, 15
  MinLeadingCodeLength,        \* 4
  MaximumCodeLength            \* 7, of the code of the symbols

ASSUME CodeLengthsAssumption ==
  /\ {NumLiteralLengthSymbols, NumDistanceSymbols} \subseteq Nat \ {0}
  /\ MinLeadingLiteralLength \in 4 .. NumLiteralLengthSymbols
  /\ MaximumPrefixCodeLength \in Nat \ {0}
  /\ RepeatMin \in Nat \ {0} /\ RepeatMax \in Nat /\ RepeatMin <= RepeatMax
  /\ ZerosMin \in Nat \ {0} /\ ZerosMax \in Nat /\ ZerosMin <= ZerosMax
  /\ ManyZerosMin \in Nat \ {0} /\ ManyZerosMax \in Nat
  /\ ManyZerosMin <= ManyZerosMax

min_leading_distance_prefix_codes == 1

CodeLength == 0 .. MaximumPrefixCodeLength

previous_3_or_more_times ==
  [symbol |-> MaximumPrefixCodeLength + 1, min |-> RepeatMin, max |-> RepeatMax]
zero_3_or_more_times ==
  [symbol |-> MaximumPrefixCodeLength + 2, min |-> ZerosMin, max |-> ZerosMax]
zero_11_or_more_times ==
  [symbol |-> MaximumPrefixCodeLength + 3, min |-> ManyZerosMin, max |-> ManyZerosMax]

CodeLengthSymbol == 0 .. MaximumPrefixCodeLength + 3

ASSUME CodeLengthCodeAssumption ==
  /\ CodeLengthOrder \in [1 .. MaximumPrefixCodeLength + 4 -> CodeLengthSymbol]
  /\ IsInjective(CodeLengthOrder)
  /\ MinLeadingCodeLength \in 1 .. Len(CodeLengthOrder)
  /\ MaximumCodeLength \in Nat \ {0}
  /\ Len(CodeLengthOrder) <= 2 ^ MaximumCodeLength

VARIABLES
  literal_length_lengths, distance_lengths,  \* of the codes of the block
  at,                           \* how many leading lengths were looked at
  prev_prefix_code_length,      \* the length of the current run
  num_prev_prefix_code_length,  \* how long the run is
  cl_symbols,                   \* the symbols so far, each with its offset
  count_by_code_length_symbol,
  code_length_lengths,          \* of the codes of the symbols
  reordered_lengths,            \* those that are written
  done                          \* FALSE until they are

input == <<literal_length_lengths, distance_lengths>>
code_length_code == <<code_length_lengths, reordered_lengths>>
vars == <<input, at, prev_prefix_code_length, num_prev_prefix_code_length,
          cl_symbols, count_by_code_length_symbol, code_length_code, done>>

-----------------------------------------------------------------------------
\* The lengths of n symbols that package_merge and prefix_codes return.
Complete(lengths) ==
  LET coded == {s \in DOMAIN lengths : lengths[s] > 0}
  IN MapThenSumSet(LAMBDA s : 2 ^ (MaximumPrefixCodeLength - lengths[s]), coded)
       = 2 ^ MaximumPrefixCodeLength

SingleOrNone(lengths) ==
  \A s, t \in {u \in DOMAIN lengths : lengths[u] > 0} : s = t /\ lengths[s] = 1

\* A block that is not empty has a literal and eob; it may have no distance.
LiteralLengthInputs ==
  {lengths \in [1 .. NumLiteralLengthSymbols -> CodeLength] :
     Complete(lengths) /\ lengths[MinLeadingLiteralLength] > 0}

DistanceInputs ==
  {lengths \in [1 .. NumDistanceSymbols -> CodeLength] :
     Complete(lengths) \/ SingleOrNone(lengths)}

\* Mutant of NumLeading: the codes that are used are counted.
NumLeadingUsed(lengths, min) ==
  Max({min, Quantify(DOMAIN lengths, LAMBDA s : lengths[s] > 0)})

\* How many codes are left when those behind the last one used are left out.
NumLeading(lengths, min) ==
  Max({min} \cup {s \in DOMAIN lengths : lengths[s] > 0})

LeadingLiteralLengths ==
  SubSeq(literal_length_lengths, 1,
         NumLeading(literal_length_lengths, MinLeadingLiteralLength))

LeadingDistances ==
  SubSeq(distance_lengths, 1,
         NumLeading(distance_lengths, min_leading_distance_prefix_codes))

Leading == LeadingLiteralLengths \o LeadingDistances

-----------------------------------------------------------------------------
Symbol(s) == [symbol |-> s, bits |-> 0]

RepeatSymbol(batch, size) == [symbol |-> batch.symbol, bits |-> size - batch.min]

\* Mutant of Batched: the loop goes on while any of the run is left.
BatchedWhileAny(batch, n) ==
  LET from[left \in 0 .. n] ==
        IF left = 0 THEN [repeats |-> <<>>, left |-> left]
        ELSE LET size == Min({batch.max, left})
                 rest == from[left - size]
             IN [repeats |-> <<RepeatSymbol(batch, size)>> \o rest.repeats,
                 left |-> rest.left]
  IN from[n]

\* Mutant of Batched: one symbol stands for the whole run, however long.
BatchedUnlimited(batch, n) ==
  IF n < batch.min THEN [repeats |-> <<>>, left |-> n]
  ELSE [repeats |-> <<RepeatSymbol(batch, n)>>, left |-> 0]

\* The repeat symbols for a run of n, as long as there is enough of it left,
\* and what is left then.
Batched(batch, n) ==
  LET from[left \in 0 .. n] ==
        IF left < batch.min THEN [repeats |-> <<>>, left |-> left]
        ELSE LET size == Min({batch.max, left})
                 rest == from[left - size]
             IN [repeats |-> <<RepeatSymbol(batch, size)>> \o rest.repeats,
                 left |-> rest.left]
  IN from[n]

\* Mutant of AddCodeLengthSymbolBatch: what is left of the run is not written.
AddCodeLengthSymbolBatchOnly(written, batch, n) ==
  LET repeats == Batched(batch, n).repeats
  IN /\ cl_symbols' = cl_symbols \o written \o repeats
     /\ count_by_code_length_symbol' =
          [count_by_code_length_symbol EXCEPT
             ![batch.symbol] = @ + Len(repeats),
             ![prev_prefix_code_length] = @ + Len(written)]

\* Mutant of AddCodeLengthSymbolBatch: the length written first is not counted.
AddCodeLengthSymbolBatchUncounted(written, batch, n) ==
  LET repeats == Batched(batch, n).repeats
      left == Batched(batch, n).left
  IN /\ cl_symbols' =
          cl_symbols \o written \o repeats
            \o [k \in 1 .. left |-> Symbol(prev_prefix_code_length)]
     /\ count_by_code_length_symbol' =
          [count_by_code_length_symbol EXCEPT
             ![batch.symbol] = @ + Len(repeats),
             ![prev_prefix_code_length] = @ + left]

\* add_code_length_symbol_batch: the rest of a run of n lengths, of which
\* those in written are written before.
AddCodeLengthSymbolBatch(written, batch, n) ==
  LET repeats == Batched(batch, n).repeats
      left == Batched(batch, n).left
      singles == Len(written) + left
  IN /\ cl_symbols' =
          cl_symbols \o written \o repeats
            \o [k \in 1 .. left |-> Symbol(prev_prefix_code_length)]
     /\ count_by_code_length_symbol' =
          [count_by_code_length_symbol EXCEPT
             ![batch.symbol] = @ + Len(repeats),
             ![prev_prefix_code_length] = @ + singles]

\* add_consecutive_prefix_codes_to_code_length_symbols: the current run ends.
AddConsecutive ==
  LET n == num_prev_prefix_code_length IN
  IF n = 0 THEN UNCHANGED <<cl_symbols, count_by_code_length_symbol>>
  ELSE IF prev_prefix_code_length = 0 /\ n >= ManyZerosMin
  THEN AddCodeLengthSymbolBatch(<<>>, zero_11_or_more_times, n)
  ELSE IF prev_prefix_code_length = 0 /\ n >= ZerosMin
  THEN AddCodeLengthSymbolBatch(<<>>, zero_3_or_more_times, n)
  ELSE AddCodeLengthSymbolBatch(<<Symbol(prev_prefix_code_length)>>,
                                previous_3_or_more_times, n - 1)

Init ==
  /\ literal_length_lengths \in LiteralLengthInputs
  /\ distance_lengths \in DistanceInputs
  /\ at = 0
  /\ prev_prefix_code_length = MaximumPrefixCodeLength + 1
  /\ num_prev_prefix_code_length = 0
  /\ cl_symbols = <<>>
  /\ count_by_code_length_symbol = [s \in CodeLengthSymbol |-> 0]
  /\ code_length_lengths = <<>>
  /\ reordered_lengths = <<>>
  /\ done = FALSE

\* The next length is the one before.
Continue ==
  /\ at < Len(Leading)
  /\ Leading[at + 1] = prev_prefix_code_length
  /\ at' = at + 1
  /\ num_prev_prefix_code_length' = num_prev_prefix_code_length + 1
  /\ UNCHANGED <<input, prev_prefix_code_length, cl_symbols,
                 count_by_code_length_symbol, code_length_code, done>>

\* Another length begins a run.
Change ==
  /\ at < Len(Leading)
  /\ Leading[at + 1] # prev_prefix_code_length
  /\ AddConsecutive
  /\ at' = at + 1
  /\ prev_prefix_code_length' = Leading[at + 1]
  /\ num_prev_prefix_code_length' = 1
  /\ UNCHANGED <<input, code_length_code, done>>

Reordered(lengths) == [k \in DOMAIN CodeLengthOrder |-> lengths[CodeLengthOrder[k]]]

\* Codes of the symbols that were counted: one symbol has length 1, more have
\* some complete code, of which package_merge finds one (HuffmanCodes).
CodesFor(symbols) ==
  LET chosen == IF Cardinality(symbols) = 1 THEN {[s \in symbols |-> 1]}
                ELSE {lengths \in [symbols -> 1 .. MaximumCodeLength] :
                        MapThenSumSet(LAMBDA s : 2 ^ (MaximumCodeLength - lengths[s]),
                                      symbols) = 2 ^ MaximumCodeLength}
  IN {[s \in CodeLengthSymbol |-> IF s \in symbols THEN lengths[s] ELSE 0] :
        lengths \in chosen}

\* Behind the distances the last run is written.
EndRuns ==
  /\ at = Len(Leading) /\ num_prev_prefix_code_length > 0
  /\ AddConsecutive
  /\ num_prev_prefix_code_length' = 0
  /\ UNCHANGED <<input, at, prev_prefix_code_length, code_length_code, done>>

\* The code of the symbols, the last ones without a code left out.
WriteCodeLengthCode ==
  /\ at = Len(Leading) /\ num_prev_prefix_code_length = 0 /\ ~done
  /\ code_length_lengths' \in
       CodesFor({s \in CodeLengthSymbol : count_by_code_length_symbol[s] > 0})
  /\ LET reordered == Reordered(code_length_lengths')
     IN reordered_lengths' =
          SubSeq(reordered, 1, NumLeading(reordered, MinLeadingCodeLength))
  /\ done' = TRUE
  /\ UNCHANGED <<input, at, prev_prefix_code_length, num_prev_prefix_code_length,
                 cl_symbols, count_by_code_length_symbol>>

Next == Continue \/ Change \/ EndRuns \/ WriteCodeLengthCode

Spec == Init /\ [][Next]_vars

-----------------------------------------------------------------------------
\* What inflate makes of the symbols.
Times(length, n) == [k \in 1 .. n |-> length]

Read(out, cl) ==
  IF cl.symbol \in CodeLength THEN Append(out, cl.symbol)
  ELSE IF cl.symbol = previous_3_or_more_times.symbol
  THEN out \o Times(Last(out), RepeatMin + cl.bits)
  ELSE out \o Times(0, cl.bits + (IF cl.symbol = zero_3_or_more_times.symbol
                                  THEN ZerosMin ELSE ManyZerosMin))

Inflated(symbols) ==
  LET out[n \in 0 .. Len(symbols)] ==
        IF n = 0 THEN <<>> ELSE Read(out[n - 1], symbols[n])
  IN out[Len(symbols)]

TypeOK ==
  /\ literal_length_lengths \in [1 .. NumLiteralLengthSymbols -> CodeLength]
  /\ distance_lengths \in [1 .. NumDistanceSymbols -> CodeLength]
  /\ at \in 0 .. NumLiteralLengthSymbols + NumDistanceSymbols
  /\ prev_prefix_code_length \in 0 .. MaximumPrefixCodeLength + 1
  /\ num_prev_prefix_code_length \in Nat
  /\ cl_symbols \in Seq([symbol : CodeLengthSymbol, bits : Nat])
  /\ count_by_code_length_symbol \in [CodeLengthSymbol -> Nat]
  /\ reordered_lengths \in Seq(0 .. MaximumCodeLength)
  /\ done \in BOOLEAN

\* The decoder reads the lengths looked at so far, and the current run behind
\* them is what is still to be written.
LengthsPreserved ==
  Inflated(cl_symbols)
    \o Times(prev_prefix_code_length, num_prev_prefix_code_length)
      = SubSeq(Leading, 1, at)

\* What the decoder makes of the lengths of the symbols' codes.
InflatedCodeLengths ==
  [s \in CodeLengthSymbol |->
     LET places == {k \in DOMAIN reordered_lengths : CodeLengthOrder[k] = s}
     IN IF places = {} THEN 0 ELSE reordered_lengths[CHOOSE k \in places : TRUE]]

\* The decoder puts the lengths of the symbols' codes back in their places,
\* takes the ones left out for unused, and so has a code for every symbol it
\* reads, the one that was meant.  It does the same with the lengths the
\* symbols stand for, and knows from the two numbers of codes in the header
\* where the distances begin.
HeaderPreserved ==
  done =>
    LET num_literal_lengths == Len(LeadingLiteralLengths)
        inflated == Inflated(cl_symbols)
        Filled(lengths, n) == lengths \o Times(0, n - Len(lengths))
    IN /\ InflatedCodeLengths = code_length_lengths
       /\ \A k \in DOMAIN cl_symbols : InflatedCodeLengths[cl_symbols[k].symbol] > 0
       /\ Filled(SubSeq(inflated, 1, num_literal_lengths), NumLiteralLengthSymbols)
            = literal_length_lengths
       /\ Filled(SubSeq(inflated, num_literal_lengths + 1, Len(inflated)),
                 NumDistanceSymbols) = distance_lengths

\* Each symbol was counted as often as it will be written: none is written
\* that the code of the symbols, made from the counts, has no code for.
CountsMatch ==
  \A s \in CodeLengthSymbol :
    count_by_code_length_symbol[s] =
      Quantify(DOMAIN cl_symbols, LAMBDA k : cl_symbols[k].symbol = s)

\* An offset fits the bits that are written of it, and nothing is repeated
\* where nothing was written before.
OffsetsFit ==
  \A k \in DOMAIN cl_symbols :
    \/ cl_symbols[k].symbol \in CodeLength /\ cl_symbols[k].bits = 0
    \/ \E batch \in {previous_3_or_more_times, zero_3_or_more_times,
                     zero_11_or_more_times} :
         /\ cl_symbols[k].symbol = batch.symbol
         /\ cl_symbols[k].bits \in 0 .. batch.max - batch.min
         /\ batch = previous_3_or_more_times => k > 1
=============================================================================
