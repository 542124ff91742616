------------------------------ MODULE MCServing ------------------------------
(* Instances of Serving: interchangeable requests. *)
EXTENDS Serving, TLC

Symmetry == Permutations(Requests)
=============================================================================
