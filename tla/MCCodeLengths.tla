--------------------------- MODULE MCCodeLengths ---------------------------
(***************************************************************************)
(* Instance of CodeLengths for TLC.                                        *)
(***************************************************************************)
EXTENDS CodeLengths

\* The repeat symbols, 0, then from the middle of the lengths outwards.
Order == <<3, 4, 5, 0, 2, 1>>
=============================================================================
