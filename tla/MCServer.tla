------------------------------ MODULE MCServer ------------------------------
(* Server for model checking: connections are interchangeable. *)
EXTENDS Server, TLC

ConnSymmetry == Permutations(Conns)
=============================================================================
