------------------------------- MODULE Inflate -------------------------------
(***************************************************************************)
(* What a decoder makes of the symbols of a block, by RFC 1951, 3.2.5 and  *)
(* 3.2.6.  It is outside the repository.  A block is a sequence of what is *)
(* pushed: codes, and the offsets of a given number of bits behind them.   *)
(***************************************************************************)
EXTENDS Integers, SequencesExt

\* Lengths and distances go in steps that double with every group of symbols:
\* four symbols a group for lengths, two for distances.
LengthOffsetBits(symbol) ==
  IF symbol < 265 \/ symbol = 285 THEN 0 ELSE (symbol - 261) \div 4

LengthOf(symbol, offset) ==
  IF symbol < 265 THEN symbol - 254
  ELSE IF symbol = 285 THEN 258
  ELSE (4 + ((symbol - 261) % 4)) * 2 ^ LengthOffsetBits(symbol) + 3 + offset

DistanceOffsetBits(symbol) == IF symbol < 4 THEN 0 ELSE symbol \div 2 - 1

DistanceOf(symbol, offset) ==
  IF symbol < 4 THEN symbol + 1
  ELSE (2 + (symbol % 2)) * 2 ^ DistanceOffsetBits(symbol) + 1 + offset

NoSymbol == -1

\* The symbol of a code of block type 1.
FixedLiteralLength(bits, length) ==
  CASE length = 7 /\ bits < 24 -> 256 + bits
    [] length = 8 /\ bits \in 48 .. 191 -> bits - 48
    [] length = 8 /\ bits \in 192 .. 199 -> 280 + bits - 192
    [] length = 9 /\ bits \in 400 .. 511 -> 144 + bits - 400
    [] OTHER -> NoSymbol

FixedDistance(bits, length) == IF length = 5 /\ bits < 30 THEN bits ELSE NoSymbol

-----------------------------------------------------------------------------
(***************************************************************************)
(* Reading: what was read so far, literals and <<length, distance>> pairs, *)
(* what must come next, and the symbol whose offset is being read.         *)
(***************************************************************************)
Start ==
  [items |-> <<>>, expects |-> "literal_length", symbol |-> NoSymbol, length |-> 0]

Reject(d) == [d EXCEPT !.expects = "nothing"]

WithLiteral(d, literal) == [d EXCEPT !.items = Append(d.items, <<literal>>)]

WithLength(d, length) == [d EXCEPT !.length = length, !.expects = "distance"]

WithDistance(d, distance) ==
  [d EXCEPT !.items = Append(d.items, <<d.length, distance>>),
            !.expects = "literal_length"]

\* The code of a symbol of the table that is expected.
ReadSymbol(d, symbol) ==
  CASE d.expects = "literal_length" /\ symbol \in 0 .. 255 ->
         WithLiteral(d, symbol)
    [] d.expects = "literal_length" /\ symbol = 256 ->
         [d EXCEPT !.expects = "end"]
    [] d.expects = "literal_length" /\ symbol \in 257 .. 285 ->
         IF LengthOffsetBits(symbol) = 0 THEN WithLength(d, LengthOf(symbol, 0))
         ELSE [d EXCEPT !.symbol = symbol, !.expects = "length offset"]
    [] d.expects = "distance" /\ symbol \in 0 .. 29 ->
         IF DistanceOffsetBits(symbol) = 0
         THEN WithDistance(d, DistanceOf(symbol, 0))
         ELSE [d EXCEPT !.symbol = symbol, !.expects = "distance offset"]
    [] OTHER -> Reject(d)

ReadOffset(d, bits, num_bits) ==
  CASE d.expects = "length offset" /\ num_bits = LengthOffsetBits(d.symbol) ->
         WithLength(d, LengthOf(d.symbol, bits))
    [] d.expects = "distance offset" /\ num_bits = DistanceOffsetBits(d.symbol) ->
         WithDistance(d, DistanceOf(d.symbol, bits))
    [] OTHER -> Reject(d)

\* The symbol of a code where one of the named table is expected.  The codes of
\* block type 2 are told apart by the lengths in its header, and are written
\* here as symbols, distances behind the literals and lengths.
SymbolOf(type, table, code) ==
  CASE type = 1 /\ table = "distance" -> FixedDistance(code[2], code[3])
    [] type = 1 /\ table # "distance" -> FixedLiteralLength(code[2], code[3])
    [] type = 2 /\ (table = "distance") = (code[2] >= 288) -> code[2] % 288
    [] OTHER -> NoSymbol

ReadOne(type, d, p) ==
  IF p[1] = "offset" THEN ReadOffset(d, p[2], p[3])
  ELSE ReadSymbol(d, SymbolOf(type, d.expects, p))

Read(type, pushed) ==
  LET d[n \in 0 .. Len(pushed)] ==
        IF n = 0 THEN Start ELSE ReadOne(type, d[n - 1], pushed[n])
  IN d[Len(pushed)]

-----------------------------------------------------------------------------
\* A match as it may be read.
LiteralItems(m) == [k \in DOMAIN m.literals |-> <<m.literals[k]>>]

ReferenceItems(m) == << <<Len(m.literals), m.distance>> >>

\* What is left of the items behind a match; nothing takes an empty item away.
Consumed(left, m) ==
  IF IsPrefix(ReferenceItems(m), left) THEN SubSeq(left, 2, Len(left))
  ELSE IF IsPrefix(LiteralItems(m), left)
  THEN SubSeq(left, Len(m.literals) + 1, Len(left))
  ELSE << <<>> >> \o left

\* Do the items read stand for the matches, each of which is read either as
\* its length and distance or as its literals?
StandFor(items, matches) ==
  LET left[n \in 0 .. Len(matches)] ==
        IF n = 0 THEN items ELSE Consumed(left[n - 1], matches[n])
  IN left[Len(matches)] = <<>>
=============================================================================
