--------------------------- MODULE MCStoredBlock ---------------------------
(***************************************************************************)
(* Instance of StoredBlock for TLC.                                        *)
(***************************************************************************)
EXTENDS StoredBlock, SequencesExt

StoredBlocks == BoundedSeq({{0}, {1, 2}}, 2)
=============================================================================
