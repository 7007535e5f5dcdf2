--------------------------- MODULE MCSessionList ---------------------------
(* Instances of SessionList for TLC. *)
EXTENDS SessionList, TLC

Symmetry == Permutations(Workers)
=============================================================================
