----------------------------- MODULE MCPtzPresets -----------------------------
(* A small instance of PtzPresets for TLC. *)
EXTENDS PtzPresets, TLC

(* No name differs from the others. *)
NameSymmetry == Permutations(Names)
=============================================================================
