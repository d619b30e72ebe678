------------------------------- MODULE MCChat -------------------------------
(* Chat on small instances.  Requests are interchangeable: nothing in Chat
   chooses among them, so safety runs may use their permutations. *)
EXTENDS ChatContract, TLC

RequestSymmetry == Permutations(Requests)
=============================================================================
