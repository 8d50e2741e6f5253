---------------------------- MODULE HuffmanCodes ----------------------------
(***************************************************************************)
(* A prefix code from counts, as flush_block of include/block_type_2.hpp   *)
(* makes one for the literals and lengths, one for the distances and one   *)
(* for the code lengths: package_merge finds the lengths, and              *)
(* prefix_codes, which is called when it has returned, the codes.          *)
(***************************************************************************)
EXTENDS PackageMerge

CONSTANT
  BitsModulus  \* 2^16, the range of the bits of a code

ASSUME CodesFitAssumption ==
  BitsModulus \in Nat /\ 2 ^ MaximumLength <= BitsModulus

VARIABLES
  i, next_code_bits, codes  \* of prefix_codes

Codes == INSTANCE PrefixCodes

allVars == <<vars, i, next_code_bits, codes>>

InitCodes == Init /\ Codes!Init

MergePackages ==
  /\ Next
  /\ UNCHANGED <<i, next_code_bits, codes>>

AssignCodes ==
  /\ pc = "returned"
  /\ Codes!Next
  /\ UNCHANGED <<pc, weights, packages_by_level, solution_by_level>>

NextCodes == MergePackages \/ AssignCodes

SpecCodes == InitCodes /\ [][NextCodes]_allVars

-----------------------------------------------------------------------------
TypesOK == TypeOK /\ Codes!TypeOK

\* A code fits its length: pushing it loses none of its bits.
CodesFit == Codes!CodesFit

\* No code is the start of another.
PrefixFree == Codes!PrefixFree

\* The decoder finds the same codes from their lengths.
Canonical == Codes!Canonical
=============================================================================
