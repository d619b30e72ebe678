----------------------------- MODULE MCPersonas -----------------------------
(* One instance of Personas: the requests are interchangeable.             *)
EXTENDS Personas, TLC
Symmetry == Permutations(Calls) \cup Permutations(Personas)
=============================================================================
