---------------------------- MODULE MCParallelFor ----------------------------
(***************************************************************************)
(* Instances of ParallelFor for TLC: the hardware that reports no          *)
(* concurrency, a single thread, and more threads than items.              *)
(***************************************************************************)
EXTENDS ParallelFor, TLC

ControllerSymmetry == Permutations(Controllers)
=============================================================================
