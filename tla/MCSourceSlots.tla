----------------------------- MODULE MCSourceSlots -----------------------------
(* Instances of SourceSlots for TLC. *)
EXTENDS SourceSlots, TLC

Symmetry == Permutations(Runs) \cup Permutations(Workers)
================================================================================
