-------------------------- MODULE MCLruListThreads --------------------------
(***************************************************************************)
(* LruListThreads for TLC.                                                 *)
(***************************************************************************)
EXTENDS LruListThreads, TLC

\* Neither the goroutines nor the heap objects are told apart by a property.
ThreadSymmetry == Permutations(Threads) \cup Permutations(Nodes)
=============================================================================
