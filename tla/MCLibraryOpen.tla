---------------------------- MODULE MCLibraryOpen ----------------------------
(* Instances of LibraryOpen for TLC: processes are interchangeable. *)
EXTENDS LibraryOpen, TLC

OpenerSymmetry == Permutations(Openers)
=============================================================================
