----------------------------- MODULE MCLruCache -----------------------------
(***************************************************************************)
(* LruCache for TLC.                                                       *)
(***************************************************************************)
EXTENDS LruCache, TLC

\* Which heap object a node is does not matter to any property checked here, and
\* all of them are safety properties.
HeapSymmetry == Permutations(Nodes)
=============================================================================
