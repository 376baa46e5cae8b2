--------------------------- MODULE MCOrderService ---------------------------
(***************************************************************************)
(* OrderService for TLC.                                                   *)
(***************************************************************************)
EXTENDS OrderService, TLC

\* Orders, versions and readers are interchangeable; used only by the runs that
\* check no liveness.
Symmetry == Permutations(Orders) \cup Permutations(Versions) \cup Permutations(Readers)
=============================================================================
