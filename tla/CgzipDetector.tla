---------------------------- MODULE CgzipDetector ----------------------------
(***************************************************************************)
(* The main loop (Cgzip) with the whole of                                 *)
(* include/change_point_detection.hpp: the detector counts the bytes of a  *)
(* block, takes the first Warmup of them as its baseline, and compares the *)
(* probability of each later byte with the baseline's.  cusum_ is a sum of *)
(* logarithms and is not kept: it passes the threshold only at a byte that *)
(* makes it grow, one that is more probable now than it was before.        *)
(***************************************************************************)
EXTENDS Cgzip, FiniteSets

ASSUME ByteAssumption == IsFiniteSet(Byte)

VARIABLES
  baseline_counts_,      \* of the bytes of the warm-up
  baseline_probs_,       \* numerator and denominator
  current_counts_,       \* of the bytes since
  current_counts_total_

counts == <<baseline_counts_, baseline_probs_, current_counts_,
            current_counts_total_>>
allVars == <<vars, counts>>

N == Cardinality(Byte)  \* 256 in the code

\* Mutant of ResetCounts: the counts of the baseline are kept.
ResetCountsKeepsBaseline ==
  /\ baseline_probs_' = [y \in Byte |-> <<0, 1>>]
  /\ current_counts_' = [y \in Byte |-> 0]
  /\ current_counts_total_' = 0
  /\ UNCHANGED baseline_counts_

\* reset(), but for current_step_.
ResetCounts ==
  /\ baseline_counts_' = [y \in Byte |-> 0]
  /\ baseline_probs_' = [y \in Byte |-> <<0, 1>>]
  /\ current_counts_' = [y \in Byte |-> 0]
  /\ current_counts_total_' = 0

\* A byte that was never counted has the probability it has without counts.
Probability(count, total) == IF count > 0 THEN <<count, total>> ELSE <<1, N>>

Greater(p, q) == p[1] * q[2] > q[1] * p[2]

\* update_counters(): the counts with the byte that step() was given.
UpdatedCounts == [current_counts_ EXCEPT ![next_byte] = @ + 1]

\* Mutant of InitParams: the counts are copied, not swapped.
InitParamsCopies ==
  /\ baseline_counts_' = UpdatedCounts
  /\ baseline_probs_' = [y \in Byte |->
       Probability(UpdatedCounts[y], current_counts_total_ + 1)]
  /\ current_counts_' = UpdatedCounts
  /\ current_counts_total_' = 0

\* init_params(), at the last step of the warm-up: the counts become the
\* baseline, and what the baseline held becomes the counts.
InitParams ==
  /\ baseline_counts_' = UpdatedCounts
  /\ baseline_probs_' = [y \in Byte |->
       Probability(UpdatedCounts[y], current_counts_total_ + 1)]
  /\ current_counts_' = baseline_counts_
  /\ current_counts_total_' = 0

UpdateCounters ==
  /\ current_counts_' = UpdatedCounts
  /\ current_counts_total_' = current_counts_total_ + 1
  /\ UNCHANGED <<baseline_counts_, baseline_probs_>>

\* update_cusum(): does the byte make the sum grow?  After the warm-up's last
\* step nothing is counted.
CusumGrows ==
  IF current_step_ + 1 = Warmup
  THEN Greater(<<1, N>>, Probability(UpdatedCounts[next_byte], Warmup))
  ELSE Greater(Probability(UpdatedCounts[next_byte], current_counts_total_ + 1),
               baseline_probs_[next_byte])

\* step() of a byte that is counted.
StepCounts ==
  IF is_change_point_detected' THEN CusumGrows /\ ResetCounts
  ELSE IF current_step_ + 1 = Warmup THEN InitParams
  ELSE UpdateCounters

-----------------------------------------------------------------------------
DetectorInit ==
  /\ Init
  /\ baseline_counts_ = [y \in Byte |-> 0]
  /\ baseline_probs_ = [y \in Byte |-> <<0, 1>>]
  /\ current_counts_ = [y \in Byte |-> 0]
  /\ current_counts_total_ = 0

DetectorPut ==
  /\ Put
  /\ IF pc' = "thrown" \/ next_byte \in NegativeChars THEN UNCHANGED counts
     ELSE StepCounts

\* The detector is reset with the block.
DetectorCommit ==
  /\ Commit
  /\ IF pc' = "thrown" THEN UNCHANGED counts ELSE ResetCounts

Others ==
  /\ \/ GetFirst \/ GetFirstFails \/ Get \/ GetFails
     \/ CommitLast
     \/ PushFooter
  /\ UNCHANGED counts

DetectorNext == DetectorPut \/ DetectorCommit \/ Others

\* One thread that is never blocked for good, as in Cgzip.
DetectorSpec ==
  DetectorInit /\ [][DetectorNext]_allVars /\ WF_allVars(DetectorNext)

-----------------------------------------------------------------------------
Counted == Byte \ NegativeChars

\* How many of the bytes of s are among those given.
Occurrences(bytes, s) == Cardinality({k \in DOMAIN s : s[k] \in bytes})

\* What the detector has counted, unless it just found a change point.  Of the
\* bytes whose char is not negative, the baseline and the counts since hold each
\* occurrence in this block and none in an earlier one.  A byte from 0x80 on is
\* negative where char is signed: step() returns before it counts it, so that
\* the block may hold it any number of times and it is in no count and no step of
\* the warm-up, although README.md:268 has the probability of each symbol
\* tracked.
DetectorCountsBlock ==
  pc \in {"start", "put", "get", "commit", "last"} /\ ~is_change_point_detected
    => /\ \A y \in Counted :
            baseline_counts_[y] + current_counts_[y] = Occurrences({y}, Content(2))
       /\ \A y \in NegativeChars : baseline_counts_[y] + current_counts_[y] = 0
       /\ current_step_ = Occurrences(Counted, Content(2))
       /\ current_counts_total_ =
            IF current_step_ >= Warmup THEN current_step_ - Warmup ELSE current_step_

\* The two logarithms of update_cusum() are of numbers above 0 and up to 1,
\* whatever the byte: no division by a total of 0, and no log of 0.
LogsDefined ==
  LET Defined(p) == p[1] > 0 /\ p[1] <= p[2]
  IN current_step_ >= Warmup =>
       \A y \in Byte :
         /\ Defined(Probability(current_counts_[y], current_counts_total_))
         /\ Defined(baseline_probs_[y])

=============================================================================
