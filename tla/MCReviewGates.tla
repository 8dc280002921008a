---------------------------- MODULE MCReviewGates ----------------------------
(***************************************************************************)
(* ReviewGates with interchangeable hook and gate processes.               *)
(***************************************************************************)
EXTENDS ReviewGates, TLC

HookSymmetry == Permutations(Deliveries) \cup Permutations(Gates)
==============================================================================
