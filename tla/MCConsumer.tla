----------------------------- MODULE MCConsumer -----------------------------
(***************************************************************************)
(* Consumer for TLC.                                                       *)
(***************************************************************************)
EXTENDS Consumer, TLC

\* The loop treats the faults alike; used only where no liveness is checked.
Symmetry == Permutations(Faults)
=============================================================================
