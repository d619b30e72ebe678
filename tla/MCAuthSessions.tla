--------------------------- MODULE MCAuthSessions ---------------------------
(* AuthSessions on small instances.  Calls, row ids and family ids are all
   interchangeable. *)
EXTENDS AuthSessions, TLC

IdSymmetry == Permutations(Calls) \union Permutations(Sessions) \union Permutations(Families)
=============================================================================
