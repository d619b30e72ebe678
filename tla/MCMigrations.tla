---------------------------- MODULE MCMigrations ----------------------------
(* Instances of Migrations for TLC. *)
EXTENDS Migrations

MCMemories == <<"m1", "m2">>
MCCharacters == {"c1"}
MCPersonas == {"p1"}
MCNames == {"old", "new"}
MCCharacterProfiles ==
    {[name |-> "old", tagline |-> NULL, summary |-> "long", speaking_style |-> "curt"],
     [name |-> "new", tagline |-> "short", summary |-> NULL, speaking_style |-> NULL]}
MCPersonaProfiles ==
    {[name |-> "old", instructions |-> NULL, traits |-> "kind", pronouns |-> "she"],
     [name |-> "new", instructions |-> "own", traits |-> NULL, pronouns |-> NULL]}
MCScopes == {"user", "character", "relationship", "world"}
MCKinds == {"event", "note"}

\* The base, the revision the bridge starts from and the head.
MCTargets == {0, 4, 7}
=============================================================================
