----------------------------- MODULE MCConnTurn -----------------------------
(* ConnTurn with the goroutines as model values.                           *)
EXTENDS ConnTurn, TLC

Symmetry == Permutations(Producers) \cup Permutations(Workers)
=============================================================================
