------------------------------- MODULE MCMonitors -------------------------------
(* An instance of Monitors for TLC. *)
EXTENDS Monitors, TLC

Symmetry == Permutations(Schedulers)
================================================================================
