--------------------------- MODULE MCImportAnalyze ---------------------------
(***************************************************************************)
(* ImportAnalyze for TLC: the files of the folder are interchangeable.     *)
(***************************************************************************)
EXTENDS ImportAnalyze, TLC

FileSymmetry == Permutations(Files)
=============================================================================
