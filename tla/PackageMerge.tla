---------------------------- MODULE PackageMerge ----------------------------
(***************************************************************************)
(* include/package_merge.hpp: code lengths for symbols of given weights,   *)
(* none longer than a maximum, by the package-merge algorithm.  The sort   *)
(* it relies on is not stable, so which of several packages as heavy come  *)
(* first is left open, at each level anew.                                 *)
(***************************************************************************)
EXTENDS Integers, FiniteSets, SequencesExt, FiniteSetsExt

CONSTANTS
  Symbols,       \* N, how many symbols there are: 288, 30 or 19
  MaximumLength, \* max_length, 15, 15 or 7
  MaxWeight,     \* bound: no symbol is heavier than this
  WeightModulus  \* the range of W, 2^16 for the code length code

\* The callers leave room for a code of every symbol, and for the weight of a
\* package of the last level, 2^6 * 318 at most where W is narrow.
ASSUME PackageMergeAssumption ==
  /\ MaximumLength \in Nat \ {0}
  /\ Symbols \in 0 .. 2 ^ MaximumLength
  /\ MaxWeight \in Nat /\ WeightModulus \in Nat
  /\ 2 ^ (MaximumLength - 1) * MaxWeight < WeightModulus

Symbol == 1 .. Symbols

VARIABLES
  pc,                 \* the loop that is running
  weights,
  packages_by_level,  \* the levels filled so far, each sorted by weight
  solution_by_level,  \* the levels selected so far, the last level first
  lengths

vars == <<pc, weights, packages_by_level, solution_by_level, lengths>>

-----------------------------------------------------------------------------
\* A package is known by its weight and the symbol it holds if it holds one
\* only; Several stands for the others.
Several == 0
Package == [weight : 0 .. WeightModulus - 1, index : {Several} \cup Symbol]

\* The packages of a family in the order of their weights.  Which of two as
\* heavy comes first changes no weight of a pair; First accounts for the rest.
Sorted(packages) ==
  LET Before(p, q) == \/ packages[p].weight < packages[q].weight
                      \/ packages[p].weight = packages[q].weight /\ p < q
      place == [p \in DOMAIN packages |->
                  1 + Cardinality({q \in DOMAIN packages : Before(q, p)})]
  IN [k \in 1 .. Cardinality(DOMAIN packages) |->
        packages[CHOOSE p \in DOMAIN packages : place[p] = k]]

NonZero == {i \in Symbol : weights[i] > 0}

Singles == Sorted([i \in NonZero |-> [weight |-> weights[i], index |-> i]])

\* Mutant of Pairs: a pair weighs as much as its heavier package.
PairsOfHeavier(level) ==
  [k \in 1 .. Len(level) \div 2 |->
     [weight |-> level[2 * k].weight, index |-> Several]]

\* The packages of a level two by two; the last is left out if they are odd.
Pairs(level) ==
  [k \in 1 .. Len(level) \div 2 |->
     [weight |-> (level[2 * k - 1].weight + level[2 * k].weight) % WeightModulus,
      index |-> Several]]

\* What the first n packages of a level may be when packages as heavy change
\* places: the symbols on their own, and how many packages hold several.
First(level, n) ==
  {[symbols |-> {level[p].index : p \in first} \ {Several},
    several |-> Cardinality({p \in first : level[p].index = Several})] :
     first \in {f \in kSubset(n, DOMAIN level) :
                  \A package \in Range(level) :
                    LET AsHeavy(p) == level[p].weight = package.weight
                    IN Quantify(f, AsHeavy) = Quantify(1 .. n, AsHeavy)}}

-----------------------------------------------------------------------------
Init ==
  /\ pc = "start"
  /\ weights \in [Symbol -> 0 .. MaxWeight]
  /\ packages_by_level = <<>>
  /\ solution_by_level = <<>>
  /\ lengths = [i \in Symbol |-> 0]

\* No symbol, or a single one, which is given length 1.
FewSymbols ==
  /\ pc = "start"
  /\ Cardinality(NonZero) <= 1
  /\ lengths' = [i \in Symbol |-> IF i \in NonZero THEN 1 ELSE 0]
  /\ pc' = "done"
  /\ UNCHANGED <<weights, packages_by_level, solution_by_level>>

FirstLevel ==
  /\ pc = "start"
  /\ Cardinality(NonZero) >= 2
  /\ packages_by_level' = <<Singles>>
  /\ pc' = "merge"
  /\ UNCHANGED <<weights, solution_by_level, lengths>>

\* Mutant of MergeLevel: one level too many.
MergeLevelBeyond ==
  /\ pc = "merge"
  /\ Len(packages_by_level) <= MaximumLength
  /\ packages_by_level' =
       Append(packages_by_level,
              Sorted(Pairs(Last(packages_by_level)) \o Singles))
  /\ UNCHANGED <<pc, weights, solution_by_level, lengths>>

MergeLevel ==
  /\ pc = "merge"
  /\ Len(packages_by_level) < MaximumLength
  /\ packages_by_level' =
       Append(packages_by_level,
              Sorted(Pairs(Last(packages_by_level)) \o Singles))
  /\ UNCHANGED <<pc, weights, solution_by_level, lengths>>

\* Mutant of Wanted: one package too few of the last level.
WantedTooFew ==
  IF solution_by_level = <<>> THEN 2 * Cardinality(NonZero) - 3
  ELSE 2 * Last(solution_by_level).several

\* Mutant of Wanted: one package too many of the last level.
WantedTooMany ==
  IF solution_by_level = <<>> THEN 2 * Cardinality(NonZero)
  ELSE 2 * Last(solution_by_level).several

\* How many packages of the next level are in the solution.
Wanted ==
  IF solution_by_level = <<>> THEN 2 * Cardinality(NonZero) - 2
  ELSE 2 * Last(solution_by_level).several

\* The next level down.
Level == packages_by_level[MaximumLength - Len(solution_by_level)]

\* The first packages of a level are copied.  If there are fewer the copy runs
\* past the end of the vector: undefined.
SelectLevel ==
  /\ pc = "merge"
  /\ Len(packages_by_level) = MaximumLength
  /\ Len(solution_by_level) < MaximumLength
  /\ IF Wanted > Len(Level)
     THEN pc' = "overrun" /\ UNCHANGED solution_by_level
     ELSE /\ \E first \in First(Level, Wanted) :
               solution_by_level' = Append(solution_by_level, first)
          /\ UNCHANGED pc
  /\ UNCHANGED <<weights, packages_by_level, lengths>>

\* A symbol's length is the number of times it was selected on its own.
CountLengths ==
  /\ pc = "merge"
  /\ Len(solution_by_level) = MaximumLength
  /\ lengths' =
       [i \in Symbol |->
          Cardinality({l \in 1 .. MaximumLength :
                         i \in solution_by_level[l].symbols})]
  /\ pc' = "done"
  /\ UNCHANGED <<weights, packages_by_level, solution_by_level>>

\* The function returns: its parameter and its locals are gone.
Return ==
  /\ pc = "done"
  /\ pc' = "returned"
  /\ weights' = [i \in Symbol |-> 0]
  /\ packages_by_level' = <<>>
  /\ solution_by_level' = <<>>
  /\ UNCHANGED lengths

Next ==
  \/ FewSymbols \/ FirstLevel \/ MergeLevel
  \/ SelectLevel \/ CountLengths \/ Return

Spec == Init /\ [][Next]_vars

-----------------------------------------------------------------------------
TypeOK ==
  /\ pc \in {"start", "merge", "done", "returned", "overrun"}
  /\ weights \in [Symbol -> 0 .. MaxWeight]
  /\ packages_by_level \in Seq(Seq(Package))
  /\ Len(packages_by_level) <= MaximumLength
  /\ solution_by_level \in Seq([symbols : SUBSET Symbol, several : Nat])
  /\ lengths \in [Symbol -> 0 .. MaximumLength]

\* The selection never runs past the packages of a level: there are as many as
\* the levels above ask for, up to exactly as many codes as symbols.
SelectionExists == pc # "overrun"

\* What the codes of these symbols use up of all codes of the maximum length.
CodeSpace(code, symbols) ==
  SumFunction([i \in symbols |-> 2 ^ (MaximumLength - code[i])])

\* A symbol has a code exactly if it occurs, and the code is complete: neither
\* are there two codes for one string of bits nor is there one for none.  An
\* inflate implementation refuses anything else, a single symbol excepted.
CompleteCode ==
  pc = "done" =>
    /\ NonZero = {i \in Symbol : lengths[i] > 0}
    /\ Cardinality(NonZero) >= 2 =>
         CodeSpace(lengths, NonZero) = 2 ^ MaximumLength

Cost(code) == SumFunction([i \in NonZero |-> weights[i] * code[i]])

\* Every code for some of the symbols that a decoder can tell apart.
CodesFor ==
  [symbols \in SUBSET Symbol |->
     {code \in [symbols -> 1 .. MaximumLength] :
        CodeSpace(code, symbols) <= 2 ^ MaximumLength}]

\* No code within the maximum length takes fewer bits, however ties are broken.
OptimalCode ==
  pc = "done" =>
    \A code \in CodesFor[NonZero] : Cost(lengths) <= Cost(code)
=============================================================================
