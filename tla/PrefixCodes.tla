----------------------------- MODULE PrefixCodes -----------------------------
(***************************************************************************)
(* include/prefix_codes.hpp: from code lengths to the codes themselves,    *)
(* which the decoder computes again from the lengths alone.  Codes are     *)
(* written highest bit first (src/deflate.cpp, push_prefix_code), into a   *)
(* stream that fills each byte from the lowest.                            *)
(***************************************************************************)
EXTENDS Integers, FiniteSets, SequencesExt, FiniteSetsExt

CONSTANTS
  Symbols,       \* N, how many symbols there are
  MaximumLength, \* no length is greater
  BitsModulus    \* 2^16, the range of the bits of a code

Symbol == 1 .. Symbols

VARIABLES
  lengths,         \* lengths[i]: the code length of symbol i, 0 if it has none
  i,               \* the symbol whose code is assigned next, 0 before the call
  next_code_bits,  \* next_code_bits[n]: the next code of length n
  codes            \* the codes assigned so far

vars == <<lengths, i, next_code_bits, codes>>

-----------------------------------------------------------------------------
Coded == {s \in Symbol : lengths[s] > 0}

\* Mutant of CountByLength: symbols without a code are counted.
CountByLengthWithNone(n) == Cardinality({s \in Symbol : lengths[s] = n})

CountByLength(n) ==
  IF n = 0 THEN 0 ELSE Cardinality({s \in Symbol : lengths[s] = n})

\* Mutant of FirstCodeBits: the codes are ordered from the longest down.
FirstCodeBitsLongestFirst ==
  [n \in 0 .. MaximumLength |->
     MapThenSumSet(LAMBDA m : CountByLength(m) * 2 ^ (MaximumLength - m),
                   n + 1 .. MaximumLength) \div 2 ^ (MaximumLength - n)]

\* The first code of each length: twice the one behind the last code that is
\* a bit shorter.
FirstCodeBits ==
  LET code_bits[n \in 0 .. MaximumLength] ==
        IF n = 0 THEN 0
        ELSE (((code_bits[n - 1] + CountByLength(n - 1)) % BitsModulus) * 2)
             % BitsModulus
  IN code_bits

NoCode == [bits |-> 0, length |-> 0]

Init ==
  /\ i = 0
  /\ next_code_bits = [n \in 0 .. MaximumLength |-> 0]
  /\ codes = [s \in Symbol |-> NoCode]

\* Steps 1 and 2: the first code of each length.
Count ==
  /\ i = 0
  /\ i' = 1
  /\ next_code_bits' = FirstCodeBits
  /\ UNCHANGED <<lengths, codes>>

\* Mutant of Assign: a code is used again by the next symbol.
AssignRepeated ==
  /\ i \in Symbol
  /\ i' = i + 1
  /\ codes' = [codes EXCEPT ![i] =
                 [bits |-> next_code_bits[lengths[i]], length |-> lengths[i]]]
  /\ UNCHANGED <<lengths, next_code_bits>>

\* Step 3: the code of one symbol.
Assign ==
  /\ i \in Symbol
  /\ i' = i + 1
  /\ IF lengths[i] = 0 THEN UNCHANGED <<next_code_bits, codes>>
     ELSE /\ codes' = [codes EXCEPT ![i] =
                         [bits |-> next_code_bits[lengths[i]],
                          length |-> lengths[i]]]
          /\ next_code_bits' =
               [next_code_bits EXCEPT ![lengths[i]] = (@ + 1) % BitsModulus]
  /\ UNCHANGED lengths

Next == Count \/ Assign

-----------------------------------------------------------------------------
\* The symbols that have their code.
Assigned == {s \in Coded : s < i}

\* push_symbolic_bits: the bits of a code in the order they are pushed.
Pushed(code) ==
  [k \in 1 .. code.length |-> (code.bits \div 2 ^ (code.length - k)) % 2]

TypeOK ==
  /\ lengths \in [Symbol -> 0 .. MaximumLength]
  /\ i \in 0 .. Symbols + 1
  /\ next_code_bits \in [0 .. MaximumLength -> 0 .. BitsModulus - 1]
  /\ codes \in [Symbol -> [bits : 0 .. BitsModulus - 1, length : 0 .. MaximumLength]]

\* A code fits its length, so that pushing it loses none of its bits.
CodesFit ==
  \A s \in Assigned : codes[s].length = lengths[s] /\ codes[s].bits < 2 ^ lengths[s]

\* No code is the start of another: a decoder knows where each one ends.
PrefixFree ==
  \A s, t \in Assigned : s # t => ~IsPrefix(Pushed(codes[s]), Pushed(codes[t]))

\* A comes before b in the dictionary.
Before(a, b) ==
  \E k \in 1 .. Len(a) :
    /\ k <= Len(b) /\ a[k] < b[k]
    /\ \A m \in 1 .. k - 1 : a[m] = b[m]

\* The decoder is told the lengths only.  It finds the same codes because they
\* are ordered by length first, then by symbol, and begin with zeros.
Canonical ==
  /\ \A s, t \in Assigned :
       lengths[s] < lengths[t] \/ (lengths[s] = lengths[t] /\ s < t)
         => Before(Pushed(codes[s]), Pushed(codes[t]))
  /\ \A s \in Assigned :
       (\A t \in Coded : lengths[s] < lengths[t] \/ (lengths[s] = lengths[t] /\ s <= t))
         => codes[s].bits = 0
=============================================================================
