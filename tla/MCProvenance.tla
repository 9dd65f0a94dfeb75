---------------------------- MODULE MCProvenance ----------------------------
(* The release gate with its interchangeable values, for TLC. *)
EXTENDS Provenance, TLC

\* The names are hashed in order, and are not interchangeable.
GateSymmetry ==
    Permutations(Revisions) \cup Permutations(Setups) \cup Permutations(Targets)
===============================================================================
