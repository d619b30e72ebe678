----------------------------- MODULE Migrations -----------------------------
(***************************************************************************)
(* The database through its life: alembic upgrades and downgrades it, and  *)
(* between the commands the release that matches its revision writes rows. *)
(* A command runs in one transaction (env.py), so it happens as a whole or *)
(* not at all; scripts/start.sh starts the application only after the      *)
(* upgrade to the head, and the release of revision 4 is known from the    *)
(* memory writer it left behind (memories/compaction.py).                  *)
(***************************************************************************)
EXTENDS Bridge, OrmModels

CONSTANTS
    MemoryIds,                            \* the names of memories, in the order they are taken
    CharacterIds, PersonaIds,             \* the names of characters and personas
    Names,                                \* what a character or a persona may be called
    CharacterProfiles, PersonaProfiles,   \* what the forms of both releases may say of one
    Scopes, Kinds,                        \* the values of memories tried
    Targets,                              \* the revisions that commands name
    MaxCommands, MaxWrites                \* bounds of the alembic commands and of the writes

ASSUME InputAssumption ==
    /\ MemoryIds \in Seq(STRING) /\ \A n \in DOMAIN MemoryIds : MemoryIds[n] \notin {NULL, "key"}
    /\ NULL \notin CharacterIds \cup PersonaIds
    /\ Scopes \subseteq LegacyScopes \cup MemoryScope
    /\ Kinds \subseteq LegacyKinds \cup MemoryKind
    /\ Targets \subseteq 0..HeadRevision
    /\ NULL \notin Names
    /\ CharacterProfiles \subseteq
           [name : Names, tagline : STRING, summary : STRING, speaking_style : STRING]
    /\ PersonaProfiles \subseteq
           [name : Names, instructions : STRING, traits : STRING, pronouns : STRING]
    /\ MaxCommands \in Nat /\ MaxWrites \in Nat

VARIABLES
    rev,        \* the revision in alembic_version, 0 before the first
    db,         \* the database
    refused,    \* the command that was refused last, until the next step
    origin,     \* the scope and the kind each memory was last given by an application
    commands, writes

vars == <<rev, db, refused, origin, commands, writes>>

LegacyRevision == 4
Conv == "conversation"                    \* the one conversation; its rows are not modelled

Init ==
    /\ rev = 0 /\ db = EmptyDatabase
    /\ refused = "none" /\ origin = <<>>
    /\ commands = 0 /\ writes = 0

Rows == db.rows

\* Mutant: what a refused command has executed stays, without a transaction.
FinishPiecemeal(command, target, result) ==
    /\ commands < MaxCommands
    /\ commands' = commands + 1
    /\ db' = [result EXCEPT !.ok = TRUE]
    /\ IF result.ok THEN rev' = target /\ refused' = "none"
       ELSE rev' = rev /\ refused' = command
    /\ origin' = IF "memories" \in DOMAIN db'.tables THEN origin ELSE <<>>
    /\ UNCHANGED writes
\* Ends a command: the transaction commits with the target's version, or the
\* refused statement rolls all of it back.
Finish(command, target, result) ==
    /\ commands < MaxCommands
    /\ commands' = commands + 1
    /\ IF result.ok THEN rev' = target /\ db' = result /\ refused' = "none"
       ELSE UNCHANGED <<rev, db>> /\ refused' = command
    /\ origin' = IF "memories" \in DOMAIN db'.tables THEN origin ELSE <<>>
    /\ UNCHANGED writes

AlembicUpgrade(target) == rev < target /\ Finish("upgrade", target, UpgradeFrom(db, rev, target))
AlembicDowngrade(target) == target < rev /\ Finish("downgrade", target, DowngradeFrom(db, rev, target))

-----------------------------------------------------------------------------
(* Writes of the applications.                                             *)

\* The row an INSERT with these columns makes: the others take their default.
NewRow(t, given) ==
    Filled(given, [c \in Kept[t] \cap DOMAIN db.tables[t].cols |-> db.tables[t].cols[c].default])

Written(newRows) ==
    /\ writes < MaxWrites /\ writes' = writes + 1
    /\ db' = [db EXCEPT !.rows = newRows]
    /\ Legal(db')
    /\ refused' = "none"
    /\ UNCHANGED <<rev, commands>>

Put(t, id, row) == [Rows EXCEPT ![t] = With(@, id, row)]
NoOrigin == UNCHANGED origin
Free(t, id) == id \notin DOMAIN Rows[t]

\* The identifier of the next memory; memories are never deleted one by one.
NextMemory == Cardinality(DOMAIN Rows.memories) + 1
MemoryRoom == NextMemory \in DOMAIN MemoryIds
NewMemory == MemoryIds[NextMemory]

NoNotes == [legacy_scope |-> NULL, legacy_kind |-> NULL, revised_kind |-> NULL]
NewMemoryRow(given) == Filled(NewRow("memories", given), NoNotes)
Born(id, scope, kind) == origin' = With(origin, id, [scope |-> scope, kind |-> kind])

(* The release of revision 4.                                              *)

LegacyRunning == rev = LegacyRevision

\* What a memory of each scope is bound to.
BoundConversation(scope) == IF scope \in {"relationship", "world", "conversation"} THEN Conv ELSE NULL
BoundCharacter(scope, c) == IF scope = "character" THEN c ELSE NULL

SameIdentity(m, n) ==
    /\ m.scope = n.scope /\ m.normalized_key = n.normalized_key
    /\ m.conversation_id = n.conversation_id /\ m.character_id = n.character_id
    /\ m.persona_id = n.persona_id

\* The writer renews the active memory of the same identity, or adds one.
LegacyRemember(scope, kind, c, p) ==
    /\ LegacyRunning
    /\ scope \in LegacyScopes /\ kind \in LegacyKinds
    /\ scope = "character" => c # NULL
    /\ LET new == NewMemoryRow(
                [scope |-> scope, kind |-> kind, status |-> "active", normalized_key |-> "key",
                 conversation_id |-> BoundConversation(scope),
                 character_id |-> BoundCharacter(scope, c), persona_id |-> p])
           existing == {i \in DOMAIN Rows.memories :
                            Rows.memories[i].status = "active" /\ SameIdentity(Rows.memories[i], new)}
       IN IF existing = {}
          THEN /\ MemoryRoom
               /\ Written(Put("memories", NewMemory, new)) /\ Born(NewMemory, scope, kind)
          ELSE \E i \in existing :
                 /\ Written([Rows EXCEPT !.memories[i].kind = kind])
                 /\ origin' = [origin EXCEPT ![i].kind = kind]

\* A memory stops being used: superseded, archived, or its time passes.
LegacyRetire(id) ==
    /\ LegacyRunning
    /\ \E s \in {"superseded", "archived"} : Written([Rows EXCEPT !.memories[id].status = s])
       \/ Written([Rows EXCEPT !.memories[id].expires_at = "past"])
    /\ NoOrigin

\* A character is created with its version 1, or given a second version.
LegacyWriteCharacter(c, profile) ==
    /\ LegacyRunning
    /\ LET v == IF Free("characters", c) THEN "1" ELSE "2"
           version == [character_id |-> c, version |-> v, name |-> profile.name,
                       summary |-> profile.summary, speaking_style |-> profile.speaking_style]
       IN /\ <<c, v>> \notin DOMAIN Rows.character_versions
          /\ Written([Put("character_versions", <<c, v>>, version) EXCEPT !.characters =
                With(@, c, IF v = "1" THEN NewRow("characters", [current_version |-> v])
                           ELSE [Rows.characters[c] EXCEPT !.current_version = v])])
    /\ NoOrigin

LegacyArchiveCharacter(c) ==
    /\ LegacyRunning
    /\ ~Free("characters", c)
    /\ Written([Rows EXCEPT !.characters[c].archived_at = "then"])
    /\ NoOrigin

\* Personas are versioned and archived as characters are.
LegacyWritePersona(p, profile) ==
    /\ LegacyRunning
    /\ LET v == IF Free("personas", p) THEN "1" ELSE "2"
           version == [persona_id |-> p, version |-> v, name |-> profile.name,
                       traits |-> profile.traits, pronouns |-> profile.pronouns]
       IN /\ <<p, v>> \notin DOMAIN Rows.persona_versions
          /\ Written([Put("persona_versions", <<p, v>>, version) EXCEPT !.personas =
                With(@, p, IF v = "1" THEN NewRow("personas", [current_version |-> v])
                           ELSE [Rows.personas[p] EXCEPT !.current_version = v])])
    /\ NoOrigin

LegacyArchivePersona(p) ==
    /\ LegacyRunning
    /\ ~Free("personas", p)
    /\ Written([Rows EXCEPT !.personas[p].archived_at = "then"])
    /\ NoOrigin

(* The present application.                                                *)

Running == rev = HeadRevision

\* MemoryService.create: a memory about the user keeps no binding.
Remember(scope, kind, c) ==
    /\ Running
    /\ scope \in MemoryScope /\ kind \in MemoryKind
    /\ MemoryRoom
    /\ scope = "character" => c # NULL
    /\ c # NULL => Rows.characters[c].is_active = "true"
    /\ Written(Put("memories", NewMemory,
          NewMemoryRow([scope |-> scope, kind |-> kind, archived_at |-> NULL,
              conversation_id |-> IF scope = "user" THEN NULL ELSE Conv,
              character_id |-> IF scope = "user" THEN NULL ELSE c])))
    /\ Born(NewMemory, scope, kind)

ArchiveMemory(id) ==
    /\ Running
    /\ Written([Rows EXCEPT !.memories[id].archived_at = "then"])
    /\ NoOrigin

CreateCharacter(c, profile) ==
    /\ Running
    /\ Free("characters", c)
    /\ Written(Put("characters", c,
          NewRow("characters", [name |-> profile.name, tagline |-> profile.tagline,
                                description |-> profile.summary, is_active |-> "true"])))
    /\ NoOrigin

\* The texts that a request names, all of them here, or that it is active again.
UpdateCharacter(c, profile) ==
    /\ Running
    /\ ~Free("characters", c)
    /\ \/ Written([Rows EXCEPT !.characters[c].name = profile.name,
                             !.characters[c].tagline = profile.tagline,
                             !.characters[c].description = profile.summary])
       \/ Written([Rows EXCEPT !.characters[c].is_active = "true"])
    /\ NoOrigin

ArchiveCharacter(c) ==
    /\ Running
    /\ ~Free("characters", c)
    /\ Written([Rows EXCEPT !.characters[c].is_active = "false"])
    /\ NoOrigin

CreatePersona(p, profile) ==
    /\ Running
    /\ Free("personas", p)
    /\ Written(Put("personas", p,
          NewRow("personas", [name |-> profile.name, instructions |-> profile.instructions,
                              is_default |-> "false", attributes_traits |-> profile.traits,
                              attributes_pronouns |-> profile.pronouns])))
    /\ NoOrigin

\* attributes is replaced as a whole.
UpdatePersona(p, profile) ==
    /\ Running
    /\ ~Free("personas", p)
    /\ Written([Rows EXCEPT !.personas[p].name = profile.name,
                            !.personas[p].instructions = profile.instructions,
                            !.personas[p].attributes_traits = profile.traits,
                            !.personas[p].attributes_pronouns = profile.pronouns])
    /\ NoOrigin

\* The foreign keys in force decide what becomes of versions and memories.
DeletePersona(p) ==
    /\ Running
    /\ ~Free("personas", p)
    /\ Written(DeleteRow(db, "personas", p).rows)
    /\ NoOrigin

OrNull(S) == S \cup {NULL}
Present(t) == IF t \in DOMAIN db.tables THEN DOMAIN Rows[t] ELSE {}

Next ==
    \/ \E target \in Targets : AlembicUpgrade(target) \/ AlembicDowngrade(target)
    \/ \E scope \in Scopes, kind \in Kinds, c \in OrNull(Present("characters")) :
         \/ \E p \in OrNull(Present("personas")) : LegacyRemember(scope, kind, c, p)
         \/ Remember(scope, kind, c)
    \/ \E id \in Present("memories") : LegacyRetire(id) \/ ArchiveMemory(id)
    \/ \E c \in CharacterIds :
         \/ \E profile \in CharacterProfiles :
              \/ LegacyWriteCharacter(c, profile)
              \/ CreateCharacter(c, profile) \/ UpdateCharacter(c, profile)
         \/ LegacyArchiveCharacter(c) \/ ArchiveCharacter(c)
    \/ \E p \in PersonaIds :
         \/ \E profile \in PersonaProfiles :
              \/ LegacyWritePersona(p, profile)
              \/ CreatePersona(p, profile) \/ UpdatePersona(p, profile)
         \/ LegacyArchivePersona(p) \/ DeletePersona(p)

Spec == Init /\ [][Next]_vars

-----------------------------------------------------------------------------
(* Properties.                                                             *)

\* The definitions that the upgrades alone give at each revision.
TablesAt == [r \in 0..HeadRevision |-> UpgradeFrom(EmptyDatabase, 0, r).tables]

\* What evaluating the revisions on a database without rows shows: none of their
\* statements is refused, each downgrade gives back the tables its upgrade found,
\* and the head has what the classes of the application and a memory's key need.
ASSUME SchemaFacts ==
    /\ \A r \in 0..HeadRevision : UpgradeFrom(EmptyDatabase, 0, r).ok
    /\ \A r \in 1..HeadRevision :
          LET back == Run(Downgrades[r], UpgradeFrom(EmptyDatabase, 0, r))
          IN back.ok /\ back.tables = TablesAt[r - 1]
    /\ ModelsFitTables(TablesAt[HeadRevision])
    /\ MemoryKey \subseteq DOMAIN TablesAt[HeadRevision].memories.cols
    /\ TablesAt[HeadRevision].memories.cols["normalized_key"].default = NULL

\* The databases without rows that the parts of revision 0005 meet.
Base(r) == UpgradeFrom(EmptyDatabase, 0, r)
AtScopes == Run(BeforeScopes, Base(4))
AtFill == Run(LooseScript, Base(5))
AtCharacters == Run(UnbridgeMemories, Base(5))
AtPersonas == Run(UnbridgeCharacters, AtCharacters)

\* What evaluating the revisions on a database without rows shows of the rows of
\* others: all statements are harmless but the mapping of the scopes, which two
\* memories can refuse for the unique index on their identity, and the ones that
\* require the bookkeeping of the memories again or write versions.  (A database
\* bound by a quantifier is evaluated once.)
ASSUME BridgeFacts ==
    /\ \A r \in {1, 2, 6, 7} : \A b \in {Base(r - 1)} : HarmlessRun(Upgrades[r], b, {})
    /\ \A b \in {Base(2)} : HarmlessRun(Upgrades[3], b, Profiled) /\ DOMAIN b.tables \cap Profiled = {}
    /\ \A b \in {Base(3)} : HarmlessRun(Upgrades[4], b, {"memories"}) /\ "memories" \notin DOMAIN b.tables
    /\ \A r \in 1..HeadRevision \ {5} : \A b \in {Base(r)} : HarmlessRun(Downgrades[r], b, {})
    /\ \A b \in {Base(4)} : HarmlessRun(BeforeScopes, b, {})
    /\ LET f == AtScopes.tables["memories"]
       IN /\ f.uniques = {[on |-> Identity, active |-> TRUE]}
          /\ Unconstrained([f EXCEPT !.uniques = {}], {"scope"})
    /\ \A b \in {Run(ScopeScript, AtScopes)} : HarmlessRun(AfterScopes, b, {})
    /\ \A b \in {Base(5)} : HarmlessRun(LooseScript, b, {})
    /\ \A b \in {AtFill} : HarmlessRun(FillScript, b, {})
    /\ VersionTable(AtCharacters.tables["character_versions"], "character_id", "characters",
                    {"name", "summary"})
    /\ NullsAllowed(AtCharacters.tables["character_versions"], {"summary", "speaking_style"})
    /\ \A b \in {Run(CharacterVersioning, AtCharacters)} : HarmlessRun(CharacterClosing, b, {})
    /\ VersionTable(AtPersonas.tables["persona_versions"], "persona_id", "personas", {"name", "traits"})
    /\ NullsAllowed(AtPersonas.tables["persona_versions"], {"traits", "pronouns"})
    /\ \A b \in {Run(PersonaVersioning, AtPersonas)} : HarmlessRun(PersonaClosing, b, {})

\* Whatever upgrades and downgrades led to a revision, the database has exactly
\* the tables, columns, keys, constraints and indexes of that revision, every
\* row satisfies them, and at the head the classes of the application fit them.
SchemaFollowsRevision ==
    /\ db.ok
    /\ db.tables = TablesAt[rev]
    /\ Legal(db)
    /\ rev = HeadRevision => ModelsFitTables(db.tables)

\* At the head every memory has a scope and a kind the ORM can load, else
\* reading the list of memories fails, and every character has one of the names
\* that users gave (that the name of a persona is not NULL is its column's
\* constraint, in SchemaFollowsRevision).
HeadRowsReadable ==
    rev = HeadRevision =>
        /\ \A i \in DOMAIN Rows.memories :
               Rows.memories[i].scope \in MemoryScope /\ Rows.memories[i].kind \in MemoryKind
        /\ \A c \in DOMAIN Rows.characters : Rows.characters[c].name \in Names

\* "The original value is retained in metadata" (revision 0005): through any
\* upgrades and downgrades the scope and the kind a memory was given are among
\* those that its row holds, in its columns or in its metadata.
OriginalsRetained ==
    \A i \in DOMAIN origin :
        LET m == Rows.memories[i]
        IN /\ origin[i].scope \in {m.scope, m.legacy_scope}
           /\ origin[i].kind \in {m.kind, m.legacy_kind, m.revised_kind}

\* Two active memories that the legacy identity does not tell apart once the
\* bridge has mapped their scopes.
Collision ==
    LET memories == MapScopes(Rows).memories
    IN \E i, j \in DOMAIN memories :
          /\ i # j /\ SameIdentity(memories[i], memories[j])
          /\ memories[i].status = "active" /\ memories[j].status = "active"

\* A command is refused only because two active memories collide: the unique
\* index on their identity is in force while the bridge maps their scopes, and
\* a deleted persona leaves its memories indistinguishable for the way back.
RefusalsExplained == refused # "none" => Collision

\* What the release of revision 4 shows its users, and what the present
\* application does: its list of personas has no filter.
LegacyMemoriesShown(rows) ==
    {i \in DOMAIN rows.memories :
        rows.memories[i].status = "active" /\ rows.memories[i].expires_at # "past"}
NotArchived(rows, t) == {i \in DOMAIN rows[t] : rows[t][i].archived_at = NULL}
CharactersShown(rows) == {c \in DOMAIN rows.characters : rows.characters[c].is_active = "true"}
PersonasShown(rows) == DOMAIN rows.personas

\* When the database of the release of revision 4 is upgraded to the models of
\* the present application, that one shows the memories and the characters that
\* were in use before, no more and no less.  Of the personas it shows all, those
\* that were archived too: archived_at is not read any more.
VisibilityCarriedOver ==
    [][(rev = LegacyRevision /\ rev' > LegacyRevision) =>
          /\ NotArchived(db'.rows, "memories") = LegacyMemoriesShown(Rows)
          /\ CharactersShown(db'.rows) = NotArchived(Rows, "characters")
          /\ PersonasShown(db'.rows) = DOMAIN Rows.personas]_vars

\* "personas: same compatibility projection as characters" (revision 0005): a
\* persona that was archived stays so for the present application, as a
\* character does.  (Refuted by the code: README, section 4.)
ArchivedPersonasStayArchived ==
    rev = HeadRevision => PersonasShown(Rows) \subseteq NotArchived(Rows, "personas")

\* Upwards each profile takes the texts of its current version: its name and its
\* description as they are, the tagline cut, the instructions put together, the
\* traits and the pronouns as attributes.
Current(rows, t, versions, i) == rows[versions][<<i, rows[t][i].current_version>>]
TextsRaised(old, new) ==
    /\ \A c \in DOMAIN old.characters :
          LET cv == Current(old, "characters", "character_versions", c)
          IN /\ new.characters[c].name = cv.name /\ new.characters[c].description = cv.summary
             /\ new.characters[c].tagline = Left255(cv.summary)
    /\ \A p \in DOMAIN old.personas :
          LET pv == Current(old, "personas", "persona_versions", p)
          IN /\ new.personas[p].name = pv.name /\ new.personas[p].instructions = Composed(pv.traits)
             /\ new.personas[p].attributes_traits = pv.traits
             /\ new.personas[p].attributes_pronouns = pv.pronouns

\* Downwards the current version takes the name and the description of the
\* character, the name of the persona, and its traits if attributes has any.
Traits(rows, k) == IF k \in DOMAIN rows.persona_versions THEN rows.persona_versions[k].traits ELSE NULL
TextsLowered(old, new) ==
    /\ \A c \in DOMAIN old.characters :
          LET cv == Current(new, "characters", "character_versions", c)
          IN cv.name = old.characters[c].name /\ cv.summary = old.characters[c].description
    /\ \A p \in DOMAIN old.personas :
          LET pv == Current(new, "personas", "persona_versions", p)
              was == Traits(old, <<p, old.personas[p].current_version>>)
          IN /\ pv.name = old.personas[p].name
             /\ pv.traits = Coalesce(old.personas[p].attributes_traits, was)

\* What of a version no command changes: the whole row of an older one, and of
\* the current one what the bridge has no value for.
VersionsKept(old, new) ==
    /\ \A k \in DOMAIN old.character_versions :
          /\ new.character_versions[k].speaking_style = old.character_versions[k].speaking_style
          /\ k[2] # old.characters[k[1]].current_version =>
                new.character_versions[k] = old.character_versions[k]
    /\ \A k \in DOMAIN old.persona_versions :
          /\ new.persona_versions[k].pronouns = old.persona_versions[k].pronouns
          /\ k[2] # old.personas[k[1]].current_version =>
                new.persona_versions[k] = old.persona_versions[k]

\* The bridge keeps of the profiles what it can: upwards they take the texts of
\* their current versions, and no version changes; downwards the current
\* versions take the texts that they have a column for, and nothing else of the
\* versions changes.  Lost on the way down are the tagline, the instructions,
\* the pronouns and traits taken away: TextsLowered says nothing of them.
ProfilesCarriedOver ==
    [][/\ (rev = LegacyRevision /\ rev' > LegacyRevision) =>
          /\ TextsRaised(Rows, db'.rows)
          /\ db'.rows.character_versions = Rows.character_versions
          /\ db'.rows.persona_versions = Rows.persona_versions
       /\ (rev > LegacyRevision /\ rev' = LegacyRevision) =>
             TextsLowered(Rows, db'.rows) /\ VersionsKept(Rows, db'.rows)]_vars

\* Revision 0005 is made "so databases that already reached the legacy
\* 20260723_0004 revision can continue safely": no upgrade is refused.
LegacyDatabasesContinue == refused # "upgrade"

-----------------------------------------------------------------------------
(* The inductive invariant behind the theorems of MigrationProofs.         *)

Has(row, columns) == columns \subseteq DOMAIN row
DefaultOf(d, t, c, default) ==
    c \in DOMAIN d.tables[t].cols /\ d.tables[t].cols[c].default = default

\* The tables that have rows, at revision r.
TablesThere(r, d) ==
    /\ "memories" \in DOMAIN d.tables <=> r >= LegacyRevision
    /\ \A t \in Profiled : t \in DOMAIN d.tables <=> r >= 3

\* A version belongs to its profile; those of a persona go with the persona.
VersionsInv(d) ==
    /\ \A k \in DOMAIN d.rows.character_versions :
          /\ k[1] \in DOMAIN d.rows.characters
          /\ Has(d.rows.character_versions[k], {"name", "summary", "speaking_style"})
          /\ d.rows.character_versions[k].name \in Names
    /\ \A k \in DOMAIN d.rows.persona_versions :
          /\ k[1] \in DOMAIN d.rows.personas
          /\ Has(d.rows.persona_versions[k], {"name", "traits", "pronouns", "persona_id"})
          /\ d.rows.persona_versions[k].name \in Names
          /\ d.rows.persona_versions[k].persona_id = k[1]
    /\ Key("persona_id", "personas", "cascade") \in d.tables.persona_versions.keys
    /\ \A c \in DOMAIN d.rows.characters : Has(d.rows.characters[c], {"current_version", "archived_at"})
    /\ "archived_at" \in DOMAIN d.tables.characters.cols
    /\ \A p \in DOMAIN d.rows.personas : Has(d.rows.personas[p], {"current_version"})

\* Before the bridge every profile has its current version.
VersionedInv(d) ==
    /\ \A c \in DOMAIN d.rows.characters :
          <<c, d.rows.characters[c].current_version>> \in DOMAIN d.rows.character_versions
    /\ \A p \in DOMAIN d.rows.personas :
          <<p, d.rows.personas[p].current_version>> \in DOMAIN d.rows.persona_versions

\* After it a profile has its texts, and its current version or none at all.
RevisedInv(d) ==
    /\ \A c \in DOMAIN d.rows.characters :
          /\ Has(d.rows.characters[c], {"name"}) /\ d.rows.characters[c].name \in Names
          /\ \/ <<c, d.rows.characters[c].current_version>> \in DOMAIN d.rows.character_versions
             \/ /\ d.rows.characters[c].current_version = "1"
                /\ \A k \in DOMAIN d.rows.character_versions : k[1] # c
    /\ \A p \in DOMAIN d.rows.personas :
          /\ Has(d.rows.personas[p], {"name"}) /\ d.rows.personas[p].name \in Names
          /\ \/ <<p, d.rows.personas[p].current_version>> \in DOMAIN d.rows.persona_versions
             \/ /\ d.rows.personas[p].current_version = "1"
                /\ \A k \in DOMAIN d.rows.persona_versions : k[1] # p
    /\ DefaultOf(d, "characters", "current_version", "1")
    /\ DefaultOf(d, "personas", "current_version", "1")

\* What a memory has and may say at revision r.
MemoryInv(r, d) ==
    /\ \A i \in DOMAIN d.rows.memories :
          LET m == d.rows.memories[i]
          IN /\ Has(m, MemoryFields)
             /\ r = LegacyRevision =>
                   m.scope \in LegacyScopes /\ m.kind \in LegacyKinds /\ m.status \in LegacyStatuses
             /\ r > LegacyRevision =>
                   /\ Has(m, {"archived_at"})
                   /\ m.scope \in MemoryScope /\ m.kind \in MemoryKind
                   /\ m.status \in LegacyStatuses \cup {NULL}
    /\ "expires_at" \in DOMAIN d.tables.memories.cols
    /\ r > LegacyRevision => DefaultOf(d, "memories", "status", NULL)

\* Where the scope and the kind a memory was given are kept: an original that
\* was moved aside has left a value that the bridge will not move again.
Recorded(m, o) ==
    /\ \/ o.scope = m.scope
       \/ o.scope = m.legacy_scope /\ m.scope \notin DroppedScopes
    /\ \/ o.kind = m.kind
       \/ o.kind = m.legacy_kind /\ m.kind \notin DroppedKinds
       \/ o.kind = m.revised_kind /\ m.kind \notin DroppedKinds \cup {"summary", "note"}
Retained(d, given) ==
    \A i \in DOMAIN given :
        /\ i \in DOMAIN d.rows.memories
        /\ Has(given[i], {"scope", "kind"}) /\ Recorded(d.rows.memories[i], given[i])

RevisionInv(r, d, given) ==
    /\ WellFormed(d) /\ TablesThere(r, d)
    /\ r >= 3 => VersionsInv(d)
    /\ r \in {3, LegacyRevision} => VersionedInv(d)
    /\ r > LegacyRevision => RevisedInv(d)
    /\ r >= LegacyRevision => MemoryInv(r, d) /\ Retained(d, given)

DataInv ==
    /\ rev \in 0 .. HeadRevision /\ db.ok = TRUE
    /\ RevisionInv(rev, db, origin)
    /\ rev < LegacyRevision => origin = <<>>
=============================================================================
