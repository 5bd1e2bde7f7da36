------------------------------ MODULE MCBaseline ------------------------------
(* Templates are interchangeable.                                           *)
EXTENDS Baseline, TLC

Symmetry == Permutations(Templates)
=============================================================================
