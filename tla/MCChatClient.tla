---------------------------- MODULE MCChatClient ----------------------------
(* One instance of ChatClient: an older reply that failed, a newer one that *)
(* was completed, and requests that are interchangeable.                   *)
EXTENDS ChatClient, TLC
MCStored == <<"failed", "completed">>
Symmetry == Permutations(Sends)
=============================================================================
