---------------------------- MODULE SymbolTables ----------------------------
(***************************************************************************)
(* include/types.hpp and include/constants.hpp: which symbol stands for a  *)
(* length or a distance, and which offset behind it, and back.  The tables *)
(* are the ones of the code, in full.                                      *)
(***************************************************************************)
EXTENDS Integers, Sequences, FiniteSetsExt

num_literal_length_symbols == 288
num_distance_symbols == 30
eob_symbol == 256
minimum_back_reference_length == 3
minimum_back_reference_distance == 1
maximum_look_back_size == 2 ^ 15
maximum_look_ahead_size == 258

-----------------------------------------------------------------------------
\* Ranges of lengths and distances that share a symbol: the number of offset
\* bits, the first and the last.  Their symbols are consecutive.
distance_ranges ==
  << <<0, 1, 1>>, <<0, 2, 2>>, <<0, 3, 3>>, <<0, 4, 4>>,
     <<1, 5, 6>>, <<1, 7, 8>>, <<2, 9, 12>>, <<2, 13, 16>>,
     <<3, 17, 24>>, <<3, 25, 32>>, <<4, 33, 48>>, <<4, 49, 64>>,
     <<5, 65, 96>>, <<5, 97, 128>>, <<6, 129, 192>>, <<6, 193, 256>>,
     <<7, 257, 384>>, <<7, 385, 512>>, <<8, 513, 768>>, <<8, 769, 1024>>,
     <<9, 1025, 1536>>, <<9, 1537, 2048>>, <<10, 2049, 3072>>,
     <<10, 3073, 4096>>, <<11, 4097, 6144>>, <<11, 6145, 8192>>,
     <<12, 8193, 12288>>, <<12, 12289, 16384>>, <<13, 16385, 24576>>,
     <<13, 24577, 32768>> >>

length_ranges ==
  << <<0, 3, 3>>, <<0, 4, 4>>, <<0, 5, 5>>, <<0, 6, 6>>, <<0, 7, 7>>,
     <<0, 8, 8>>, <<0, 9, 9>>, <<0, 10, 10>>, <<1, 11, 12>>, <<1, 13, 14>>,
     <<1, 15, 16>>, <<1, 17, 18>>, <<2, 19, 22>>, <<2, 23, 26>>,
     <<2, 27, 30>>, <<2, 31, 34>>, <<3, 35, 42>>, <<3, 43, 50>>,
     <<3, 51, 58>>, <<3, 59, 66>>, <<4, 67, 82>>, <<4, 83, 98>>,
     <<4, 99, 114>>, <<4, 115, 130>>, <<5, 131, 162>>, <<5, 163, 194>>,
     <<5, 195, 226>>, <<5, 227, 257>>, <<0, 258, 258>> >>

first_distance_symbol == 0
first_length_symbol == 257

\* The entry of a point in the table made from ranges.  The table is filled
\* range by range, and keeps its zeros where there is none.
SymbolWithOffset(first_symbol, ranges, point) ==
  LET holds == {r \in DOMAIN ranges : point \in ranges[r][2] .. ranges[r][3]}
  IN IF holds = {} THEN [symbol |-> 0, bits |-> 0, num_bits |-> 0]
     ELSE [symbol |-> first_symbol + Max(holds) - 1,
           bits |-> point - ranges[Max(holds)][2],
           num_bits |-> ranges[Max(holds)][1]]

FromDistance(distance) ==
  SymbolWithOffset(first_distance_symbol, distance_ranges, distance)

FromLength(length) ==
  SymbolWithOffset(first_length_symbol, length_ranges, length)

ToLength(symbol, bits) ==
  length_ranges[symbol - first_length_symbol + 1][2] + bits
=============================================================================
