----------------------------- MODULE MCFlowRouting -----------------------------
(* FlowRouting on small instances. *)
EXTENDS FlowRouting, TLC

(* Flow IDs and goroutines are interchangeable. *)
Symmetry == Permutations(IDs) \cup Permutations(Openers)
=============================================================================
