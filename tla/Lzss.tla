-------------------------------- MODULE Lzss --------------------------------
(***************************************************************************)
(* include/lzss.hpp: the match finder of the block streams.  Bytes wait in *)
(* look_ahead_, and leave it for look_back_ as a literal or as a back      *)
(* reference.  Where each three-byte pattern starts in look_back_ is kept  *)
(* in a hash map, for the latest position, and in chain_, which holds at   *)
(* each position the previous one of the same pattern.  Positions are      *)
(* absolute in both and relative to look_back_ when they are used.         *)
(***************************************************************************)
EXTENDS Fifo, FiniteSets, SequencesExt

CONSTANTS
  Literal,          \* the bytes
  LookBackSize,     \* maximum_look_back_size, 2^15
  LookAheadSize,    \* maximum_look_ahead_size, 258
  RelativeModulus,  \* 2^16, the range of a relative position
  MaxInput          \* bound: no more bytes than this are put

\* remove_pattern reads the first three bytes of a full window.
ASSUME LzssAssumption ==
  /\ LookBackSize \in Nat /\ LookBackSize >= 3
  /\ LookAheadSize \in Nat /\ LookAheadSize >= 3
  /\ RelativeModulus \in Nat /\ LookBackSize < RelativeModulus
  /\ MaxInput \in Nat

minimum_back_reference_length == 3
end_of_chain == 0
Pattern == Literal \X Literal \X Literal
NoBackReference == [distance |-> 0, length |-> 0]

VARIABLES
  look_back_, look_ahead_, chain_,
  start_absolute_by_length_three_pattern_,
  back_reference_,     \* cached, unless its length is 0
  absolute_position_,
  taken,    \* every byte ever taken into look_back_
  cut_off,  \* positions taken with fewer than two bytes behind them
  token     \* what the last step handed to the block

vars == <<look_back_, look_ahead_, chain_,
          start_absolute_by_length_three_pattern_, back_reference_,
          absolute_position_, taken, cut_off, token>>

-----------------------------------------------------------------------------
(***************************************************************************)
(* Taking a byte: functions from a finder to a finder, a record of the     *)
(* variables that take_literal_ assigns.                                   *)
(***************************************************************************)
Finder ==
  [look_back |-> look_back_, look_ahead |-> look_ahead_, chain |-> chain_,
   starts |-> start_absolute_by_length_three_pattern_,
   position |-> absolute_position_, taken |-> taken, cut_off |-> cut_off]

AbsoluteStartOfLookBack(f) == f.position - 1 - Len(f.look_back)

IsAbsoluteInLookback(f, absolute) ==
  absolute # end_of_chain /\ absolute >= AbsoluteStartOfLookBack(f)

AbsoluteToRelative(f, absolute) ==
  (absolute - AbsoluteStartOfLookBack(f)) % RelativeModulus

ChainWith(f, absolute) == Enqueued(f.chain, LookBackSize, absolute)

StartsWith(f, pattern, absolute) ==
  [p \in DOMAIN f.starts \cup {pattern} |->
     IF p = pattern THEN absolute ELSE f.starts[p]]

\* Mutant of AddPattern: the early return forgets the chain.
AddPatternUnaligned(f) ==
  IF Len(f.look_ahead) < minimum_back_reference_length - 1
  THEN f
  ELSE LET pattern == <<Last(f.look_back), f.look_ahead[1], f.look_ahead[2]>>
           known == pattern \in DOMAIN f.starts
       IN [f EXCEPT
             !.chain = ChainWith(f, IF known THEN f.starts[pattern] ELSE end_of_chain),
             !.starts = StartsWith(f, pattern, f.position - 2)]

\* Mutant of AddPattern: the previous occurrence is not kept.
AddPatternUnchained(f) ==
  IF Len(f.look_ahead) < minimum_back_reference_length - 1
  THEN [f EXCEPT !.chain = ChainWith(f, end_of_chain)]
  ELSE LET pattern == <<Last(f.look_back), f.look_ahead[1], f.look_ahead[2]>>
       IN [f EXCEPT !.chain = ChainWith(f, end_of_chain),
                    !.starts = StartsWith(f, pattern, f.position - 2)]

\* Index the pattern that starts at the newest byte of look_back_.
AddPattern(f) ==
  IF f.look_back = <<>> \/ Len(f.look_ahead) < minimum_back_reference_length - 1
  THEN [f EXCEPT !.chain = ChainWith(f, end_of_chain)]
  ELSE LET pattern == <<Last(f.look_back), f.look_ahead[1], f.look_ahead[2]>>
           newest == AbsoluteStartOfLookBack(f) + Len(f.look_back) - 1
           known == pattern \in DOMAIN f.starts
       IN [f EXCEPT
             !.chain = ChainWith(f, IF known THEN f.starts[pattern] ELSE end_of_chain),
             !.starts = StartsWith(f, pattern, newest)]

\* Mutant of RemovePattern: the hash map keeps a pattern that left the window.
RemovePatternKeepsStart(f) ==
  IF Len(f.look_back) < LookBackSize THEN f
  ELSE [f EXCEPT !.chain = Tail(f.chain)]

\* Forget the pattern that starts at the oldest byte of look_back_, which is
\* about to be overwritten.
RemovePattern(f) ==
  IF Len(f.look_back) < LookBackSize THEN f
  ELSE LET pattern == SubSeq(f.look_back, 1, 3)
           leaves == /\ pattern \in DOMAIN f.starts
                     /\ AbsoluteToRelative(f, f.starts[pattern]) = 0
       IN [f EXCEPT
             !.chain = Tail(f.chain),
             !.starts = IF leaves
                        THEN [p \in DOMAIN f.starts \ {pattern} |-> f.starts[p]]
                        ELSE f.starts]

\* Mutant of Shifted: the window grows past its capacity.
ShiftedUnbounded(f) ==
  [f EXCEPT
     !.look_back = Append(f.look_back, Head(f.look_ahead)),
     !.look_ahead = Tail(f.look_ahead),
     !.position = f.position + 1,
     !.taken = Append(f.taken, Head(f.look_ahead)),
     !.cut_off = IF Len(f.look_ahead) < 3 THEN f.cut_off \cup {Len(f.taken)}
                 ELSE f.cut_off]

\* One byte moves from look_ahead_ to look_back_.
Shifted(f) ==
  [f EXCEPT
     !.look_back = Enqueued(f.look_back, LookBackSize, Head(f.look_ahead)),
     !.look_ahead = Tail(f.look_ahead),
     !.position = f.position + 1,
     !.taken = Append(f.taken, Head(f.look_ahead)),
     !.cut_off = IF Len(f.look_ahead) < 3 THEN f.cut_off \cup {Len(f.taken)}
                 ELSE f.cut_off]

TakeLiteral_(f) == AddPattern(Shifted(RemovePattern(f)))

\* take_literal_ called n times.
Taken(f, n) ==
  LET after[i \in 0 .. n] == IF i = 0 THEN f ELSE TakeLiteral_(after[i - 1])
  IN after[n]

Become(f) ==
  /\ look_back_' = f.look_back
  /\ look_ahead_' = f.look_ahead
  /\ chain_' = f.chain
  /\ start_absolute_by_length_three_pattern_' = f.starts
  /\ absolute_position_' = f.position
  /\ taken' = f.taken
  /\ cut_off' = f.cut_off

-----------------------------------------------------------------------------
(***************************************************************************)
(* Finding a match.                                                        *)
(***************************************************************************)
\* The absolute positions the chain leads to, from the one given, which the
\* loop of find_best_back_reference follows while they are in look_back_.  The
\* newest is absolute_position_ - 2.
Occurrences(first) ==
  LET from[absolute \in 0 .. absolute_position_ - 2] ==
        IF ~IsAbsoluteInLookback(Finder, absolute) THEN <<>>
        ELSE <<absolute>> \o
             from[chain_[AbsoluteToRelative(Finder, absolute) + 1]]
  IN from[first]

\* How many bytes of look_ahead_ the occurrence at this position matches.  The
\* first three do, and a match that runs out of look_back_ goes on with its
\* own start.
MatchLength(absolute) ==
  LET start == AbsoluteToRelative(Finder, absolute)
      distance == Len(look_back_) - start
      current(i) == IF distance < Len(look_ahead_)
                    THEN start + (i % distance) ELSE start + i
      lengths == {n \in minimum_back_reference_length .. Len(look_ahead_) :
                    \A i \in minimum_back_reference_length .. n - 1 :
                      look_back_[current(i) + 1] = look_ahead_[i + 1]}
  IN CHOOSE n \in lengths : \A m \in lengths : m <= n

\* Mutant of Longer: of two matches as long the farther is preferred.
LongerOrFarther(best, absolute) ==
  IF MatchLength(absolute) >= best.length
  THEN [distance |-> Len(look_back_) - AbsoluteToRelative(Finder, absolute),
        length |-> MatchLength(absolute)]
  ELSE best

Longer(best, absolute) ==
  IF MatchLength(absolute) > best.length
  THEN [distance |-> Len(look_back_) - AbsoluteToRelative(Finder, absolute),
        length |-> MatchLength(absolute)]
  ELSE best

LongestOf(occurrences) ==
  LET best[n \in 0 .. Len(occurrences)] ==
        IF n = 0 THEN NoBackReference ELSE Longer(best[n - 1], occurrences[n])
  IN best[Len(occurrences)]

FindBestBackReference ==
  LET pattern == SubSeq(look_ahead_, 1, 3) IN
  IF \/ Len(look_ahead_) < minimum_back_reference_length
     \/ pattern \notin DOMAIN start_absolute_by_length_three_pattern_
  THEN NoBackReference
  ELSE LongestOf(Occurrences(start_absolute_by_length_three_pattern_[pattern]))

CachedBackReference ==
  IF back_reference_.length > 0 THEN back_reference_ ELSE FindBestBackReference

-----------------------------------------------------------------------------
Init ==
  /\ look_back_ = <<>> /\ look_ahead_ = <<>> /\ chain_ = <<>>
  /\ start_absolute_by_length_three_pattern_ = <<>>
  /\ back_reference_ = NoBackReference
  /\ absolute_position_ = 1
  /\ taken = <<>> /\ cut_off = {} /\ token = <<>>

\* Mutant of Put: the cached reference survives a byte that may lengthen it.
PutKeepsCache ==
  /\ Len(look_ahead_) < LookAheadSize
  /\ Len(taken) + Len(look_ahead_) < MaxInput
  /\ \E literal \in Literal :
       look_ahead_' = Enqueued(look_ahead_, LookAheadSize, literal)
  /\ UNCHANGED <<look_back_, chain_, start_absolute_by_length_three_pattern_,
                 back_reference_, absolute_position_, taken, cut_off, token>>

\* The block streams code from a full look-ahead before they put again.
Put ==
  /\ Len(look_ahead_) < LookAheadSize
  /\ Len(taken) + Len(look_ahead_) < MaxInput
  /\ \E literal \in Literal :
       look_ahead_' = Enqueued(look_ahead_, LookAheadSize, literal)
  /\ back_reference_' = NoBackReference
  /\ UNCHANGED <<look_back_, chain_, start_absolute_by_length_three_pattern_,
                 absolute_position_, taken, cut_off, token>>

\* back_reference(): asked before every byte or reference that is taken.
BackReference ==
  /\ back_reference_' = CachedBackReference
  /\ UNCHANGED <<look_back_, look_ahead_, chain_,
                 start_absolute_by_length_three_pattern_, absolute_position_,
                 taken, cut_off, token>>

\* Taken after back_reference() was asked; block type 1 takes a literal also
\* where there is a back reference.
TakeLiteral ==
  /\ look_ahead_ # <<>>
  /\ back_reference_ = CachedBackReference
  /\ token' = <<"literal", Head(look_ahead_)>>
  /\ Become(TakeLiteral_(Finder))
  /\ back_reference_' = NoBackReference

\* Mutant of TakeBackReference: one byte of the reference is not taken.
TakeBackReferenceShort ==
  /\ back_reference_.length > 0
  /\ token' = <<"reference", back_reference_.distance, back_reference_.length>>
  /\ Become(Taken(Finder, back_reference_.length - 1))
  /\ back_reference_' = NoBackReference

TakeBackReference ==
  /\ back_reference_.length > 0
  /\ token' = <<"reference", back_reference_.distance, back_reference_.length>>
  /\ Become(Taken(Finder, back_reference_.length))
  /\ back_reference_' = NoBackReference

Next == Put \/ BackReference \/ TakeLiteral \/ TakeBackReference

Spec == Init /\ [][Next]_vars

-----------------------------------------------------------------------------
TypeOK ==
  /\ look_back_ \in Seq(Literal) /\ Len(look_back_) <= LookBackSize
  /\ look_ahead_ \in Seq(Literal) /\ Len(look_ahead_) <= LookAheadSize
  /\ chain_ \in Seq(Nat)
  /\ DOMAIN start_absolute_by_length_three_pattern_ \subseteq Pattern
  /\ \A p \in DOMAIN start_absolute_by_length_three_pattern_ :
       start_absolute_by_length_three_pattern_[p] \in Nat
  /\ back_reference_.distance \in 0 .. LookBackSize
  /\ back_reference_.length \in {0} \cup 3 .. LookAheadSize
  /\ absolute_position_ \in Nat
  /\ taken \in Seq(Literal)
  /\ cut_off \subseteq Nat

\* The bytes at and behind an absolute position, on to the end of look_ahead_.
BytesFrom(absolute) ==
  SubSeq(taken \o look_ahead_, absolute + 1, Len(taken) + Len(look_ahead_))

PatternAt(absolute) == SubSeq(BytesFrom(absolute), 1, 3)

InWindow == AbsoluteStartOfLookBack(Finder) .. Len(taken) - 1

\* Every pattern of the hash map starts in look_back_ at the position the map
\* gives for it: an entry never outlives the bytes it points at.
IndexSound ==
  \A p \in DOMAIN start_absolute_by_length_three_pattern_ :
    LET start == start_absolute_by_length_three_pattern_[p]
    IN start \in InWindow /\ PatternAt(start) = p

\* chain_ has an entry for each byte of look_back_, and it leads to an earlier
\* start of the same pattern if to anything in look_back_: the search ends.
ChainSound ==
  /\ Len(chain_) = Len(look_back_)
  /\ \A absolute \in InWindow :
       LET previous == chain_[AbsoluteToRelative(Finder, absolute) + 1]
       IN IsAbsoluteInLookback(Finder, previous) =>
            previous < absolute /\ PatternAt(previous) = PatternAt(absolute)

\* The positions at which the finder can see a match: those in look_back_ but
\* the first of the stream, whose position is the end of the chain, and the
\* ones that a drained look-ahead cut off.
Visible == {absolute \in InWindow \ cut_off : absolute # end_of_chain}

\* Every visible start of a pattern is reached from the hash map, the nearest
\* first.
IndexComplete ==
  \A p \in {PatternAt(absolute) : absolute \in Visible} :
    /\ p \in DOMAIN start_absolute_by_length_three_pattern_
    /\ LET reached == Occurrences(start_absolute_by_length_three_pattern_[p])
       IN /\ ToSet(reached) = {absolute \in Visible : PatternAt(absolute) = p}
          /\ \A i \in 1 .. Len(reached) - 1 : reached[i + 1] < reached[i]

\* A cached reference is the one that would be found now.
CacheFresh ==
  back_reference_.length > 0 => back_reference_ = FindBestBackReference

\* The bytes a reference of this distance and length makes the decoder repeat.
Repeated(distance, length) ==
  [i \in 1 .. length |-> taken[Len(taken) - distance + 1 + ((i - 1) % distance)]]

\* The reference found is the longest there is at a visible position, and of
\* several as long the nearest.
LongestFound ==
  LET best == FindBestBackReference
      distances == {Len(taken) - absolute : absolute \in Visible}
      matches == {m \in distances \X (3 .. Len(look_ahead_)) :
                    Repeated(m[1], m[2]) = SubSeq(look_ahead_, 1, m[2])}
  IN /\ best.length = 0 <=> matches = {}
     /\ best.length > 0 =>
          /\ <<best.distance, best.length>> \in matches
          /\ \A m \in matches :
               \/ m[2] < best.length
               \/ m[2] = best.length /\ m[1] >= best.distance

Coder == INSTANCE Lz77 WITH coded <- taken, waiting <- look_ahead_

\* A decoder that is given the tokens rebuilds the bytes that were put.
ImplementsCoder == Coder!Spec

-----------------------------------------------------------------------------
\* README.md: the full set of positions of a pattern is cached in the hash map
\* and the chain.  Here of the positions with three bytes to look at.
EveryPositionCached ==
  \A absolute \in InWindow \ cut_off :
    LET p == PatternAt(absolute) IN
    /\ p \in DOMAIN start_absolute_by_length_three_pattern_
    /\ absolute \in ToSet(Occurrences(start_absolute_by_length_three_pattern_[p]))
=============================================================================
