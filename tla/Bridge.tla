------------------------------- MODULE Bridge -------------------------------
(***************************************************************************)
(* The data statements of revision 20260827_0005, as functions from the    *)
(* rows of a database to its rows, and the execution of a whole revision.  *)
(* Version rows are named by <<owner, version>>.                           *)
(***************************************************************************)
EXTENDS Revisions

\* UPDATE t SET ... WHERE p(row).
Updated(rows, t, p(_), f(_)) ==
    [rows EXCEPT ![t] =
        [i \in DOMAIN rows[t] |-> IF p(rows[t][i]) THEN f(rows[t][i]) ELSE rows[t][i]]]

Coalesce(a, b) == IF a # NULL THEN a ELSE b

(* Characters and personas: the current version of each, and back.          *)

HasVersion(rows, t, i, v) == <<i, v>> \in DOMAIN rows[t]

\* LEFT(COALESCE(s, ''), 255): of the texts, "long" alone is longer.
Left255(s) == IF s = NULL THEN "" ELSE IF s = "long" THEN "cut" ELSE s

\* description stands for every text that is copied both ways; speaking_style
\* has no column to go to.
ProjectedCharacter(c, cv) ==
    [c EXCEPT !.name = cv.name, !.tagline = Left255(cv.summary), !.description = cv.summary,
              !.is_active = IF c.archived_at = NULL THEN "true" ELSE "false"]
ProjectCharacters(rows) ==
    [rows EXCEPT !.characters = [i \in DOMAIN rows.characters |->
        LET c == rows.characters[i] IN
        IF HasVersion(rows, "character_versions", i, c.current_version)
        THEN ProjectedCharacter(c, rows.character_versions[<<i, c.current_version>>]) ELSE c]]

\* The instructions are put together from background, traits and writing_style,
\* for which the traits stand here, as far as they are there and not blank.
Composed(traits) == IF traits \in {NULL, ""} THEN NULL ELSE "Traits:" \o traits

\* attributes keeps what of the version is not null (jsonb_strip_nulls);
\* archived_at is not looked at.
ProjectedPersona(p, pv) ==
    [p EXCEPT !.name = pv.name, !.instructions = Composed(pv.traits),
              !.attributes_traits = pv.traits, !.attributes_pronouns = pv.pronouns]
ProjectPersonas(rows) ==
    [rows EXCEPT !.personas = [i \in DOMAIN rows.personas |->
        LET p == rows.personas[i] IN
        IF HasVersion(rows, "persona_versions", i, p.current_version)
        THEN ProjectedPersona(p, rows.persona_versions[<<i, p.current_version>>]) ELSE p]]

NameRows(rows, t, default) ==
    Updated(rows, t, LAMBDA r : r.name = NULL, LAMBDA r : [r EXCEPT !.name = default])

\* INSERT a version 1 for the owners without any version row.
VersionRows(rows, t, versions, new(_, _)) ==
    LET bare == {i \in DOMAIN rows[t] : \A k \in DOMAIN rows[versions] : k[1] # i}
    IN [rows EXCEPT ![versions] =
            Filled([k \in {<<i, "1">> : i \in bare} |-> new(k[1], rows[t][k[1]])], @)]

FirstCharacterVersion(i, c) ==
    [character_id |-> i, version |-> "1", name |-> c.name, summary |-> c.description,
     speaking_style |-> NULL]
VersionCharacters(rows) ==
    VersionRows(rows, "characters", "character_versions", FirstCharacterVersion)

FirstPersonaVersion(i, p) ==
    [persona_id |-> i, version |-> "1", name |-> p.name, traits |-> p.attributes_traits,
     pronouns |-> NULL]
VersionPersonas(rows) ==
    VersionRows(rows, "personas", "persona_versions", FirstPersonaVersion)

\* The tagline and whether the character is active are not written back.
RenewedCharacterVersion(c, cv) == [cv EXCEPT !.name = c.name, !.summary = c.description]

\* Mutant: every version row takes them.
SynchronizeAllVersions(rows) ==
    [rows EXCEPT !.character_versions = [k \in DOMAIN @ |->
        RenewedCharacterVersion(rows.characters[k[1]], @[k])]]
\* The current version row takes the present values.
SynchronizeCharacters(rows) ==
    [rows EXCEPT !.character_versions = [k \in DOMAIN rows.character_versions |->
        LET c == rows.characters[k[1]] cv == rows.character_versions[k]
        IN IF k[2] = c.current_version THEN RenewedCharacterVersion(c, cv) ELSE cv]]

\* A key that attributes lacks leaves the version as it is; the pronouns and the
\* instructions are not written back.
RenewedPersonaVersion(p, pv) ==
    [pv EXCEPT !.name = p.name, !.traits = Coalesce(p.attributes_traits, pv.traits)]
SynchronizePersonas(rows) ==
    [rows EXCEPT !.persona_versions = [k \in DOMAIN rows.persona_versions |->
        LET p == rows.personas[k[1]] pv == rows.persona_versions[k]
        IN IF k[2] = p.current_version THEN RenewedPersonaVersion(p, pv) ELSE pv]]

(* Memories.                                                               *)

DroppedScopes == {"relationship", "world"}
DroppedKinds == {"event", "promise", "boundary", "goal", "world"}

KeepScopes(rows) ==
    Updated(rows, "memories", LAMBDA m : m.scope \in DroppedScopes,
            LAMBDA m : [m EXCEPT !.legacy_scope = m.scope])

MapScopes(rows) ==
    Updated(rows, "memories", LAMBDA m : m.scope \in DroppedScopes,
            LAMBDA m : [m EXCEPT !.scope =
                IF m.scope = "relationship" /\ m.character_id # NULL THEN "character" ELSE "user"])

KeepKinds(rows) ==
    Updated(rows, "memories", LAMBDA m : m.kind \in DroppedKinds,
            LAMBDA m : [m EXCEPT !.legacy_kind = m.kind])

\* Mutant: a kind is forgotten.
MapKindsButEvents(rows) ==
    Updated(rows, "memories", LAMBDA m : m.kind \in DroppedKinds \ {"event"},
            LAMBDA m : [m EXCEPT !.kind = "note"])
MapKinds(rows) ==
    Updated(rows, "memories", LAMBDA m : m.kind \in DroppedKinds,
            LAMBDA m : [m EXCEPT !.kind = "note"])

\* Mutant: superseded memories are forgotten.
ArchiveArchived(rows) ==
    Updated(rows, "memories", LAMBDA m : m.status = "archived" \/ m.expires_at = "past",
            LAMBDA m : [m EXCEPT !.archived_at = Coalesce(m.archived_at, "then")])
ArchiveMemories(rows) ==
    Updated(rows, "memories",
            LAMBDA m : m.status \in {"archived", "superseded"} \/ m.expires_at = "past",
            LAMBDA m : [m EXCEPT !.archived_at = Coalesce(m.archived_at, "then")])

FillBookkeeping(rows) ==
    [rows EXCEPT !.memories = [i \in DOMAIN rows.memories |->
        LET m == rows.memories[i]
        IN [m EXCEPT !.status = Coalesce(m.status, IF m.archived_at = NULL THEN "active" ELSE "archived"),
                     !.normalized_key = Coalesce(m.normalized_key, i)]]]

MapRevisedKinds(rows) ==
    Updated(rows, "memories", LAMBDA m : m.kind \in {"summary", "note"},
            LAMBDA m : [m EXCEPT !.revised_kind = m.kind, !.kind = "fact"])

-----------------------------------------------------------------------------

\* The rows after the data statement called name.
DataStatement(name, rows) ==
    CASE name = "project characters" -> ProjectCharacters(rows)
      [] name = "name characters" -> NameRows(rows, "characters", "Character")
      [] name = "project personas" -> ProjectPersonas(rows)
      [] name = "name personas" -> NameRows(rows, "personas", "Persona")
      [] name = "keep scopes" -> KeepScopes(rows)
      [] name = "map scopes" -> MapScopes(rows)
      [] name = "keep kinds" -> KeepKinds(rows)
      [] name = "map kinds" -> MapKinds(rows)
      [] name = "archive memories" -> ArchiveMemories(rows)
      [] name = "fill bookkeeping" -> FillBookkeeping(rows)
      [] name = "map revised kinds" -> MapRevisedKinds(rows)
      [] name = "version characters" -> VersionCharacters(rows)
      [] name = "synchronize characters" -> SynchronizeCharacters(rows)
      [] name = "version personas" -> VersionPersonas(rows)
      [] name = "synchronize personas" -> SynchronizePersonas(rows)

\* One statement of a revision; an UPDATE is held to the constraints in force.
Execute(db, s) ==
    IF ~db.ok THEN db
    ELSE IF s.op = "sql"
         THEN LET after == [db EXCEPT !.rows = DataStatement(s.name, @)]
              IN [after EXCEPT !.ok = Legal(after)]
         ELSE Define(db, s)

\* The statements of a script one after the other.
Run(script, db) ==
    LET done[i \in 0..Len(script)] ==
            IF i = 0 THEN db ELSE Execute(done[i - 1], script[i])
    IN IF db.ok THEN done[Len(script)] ELSE db

\* alembic upgrade and downgrade from revision r to revision target.
UpgradeFrom(db, r, target) ==
    LET at[v \in r..target] == IF v = r THEN db ELSE Run(Upgrades[v], at[v - 1])
    IN at[target]

DowngradeFrom(db, r, target) ==
    LET at[v \in 0..r - target] == IF v = 0 THEN db ELSE Run(Downgrades[r - v + 1], at[v - 1])
    IN at[r - target]

-----------------------------------------------------------------------------
(* What every database of the revisions is, for the proofs about scripts.  *)

IsDatabase(d) ==
    /\ d = [tables |-> d.tables, rows |-> d.rows, ok |-> d.ok] /\ d.ok \in BOOLEAN
    /\ DOMAIN d.rows = DOMAIN d.tables
IsDefinition(f) ==
    f = [cols |-> f.cols, keys |-> f.keys, checks |-> f.checks, uniques |-> f.uniques,
         indexes |-> f.indexes]

\* What every memory has, of the columns that the statements on memories use.
MemoryFields ==
    {"scope", "kind", "status", "expires_at", "legacy_scope", "legacy_kind", "revised_kind"}

\* The tables with rows that revision 0003 makes.
Profiled == {"characters", "character_versions", "personas", "persona_versions"}

\* Of the tables with rows, only the versions of a persona go with the persona.
SafeKey(t, k) ==
    k.to = "personas" =>
        /\ k.col = "persona_id"
        /\ t = "persona_versions" \/ (t = "memories" /\ k.del # "cascade")

WellFormed(d) ==
    /\ IsDatabase(d)
    /\ \A t \in DOMAIN Kept \cap DOMAIN d.tables :
          IsDefinition(d.tables[t]) /\ \A k \in d.tables[t].keys : SafeKey(t, k)

\* The profiles, their versions, and what tells two active memories apart.
OwnerTables == {"characters", "personas"}
VersionTables == {"character_versions", "persona_versions"}
MemoryKey == {"scope", "normalized_key", "conversation_id", "character_id", "persona_id", "status"}

\* A definition that fits its table: constraints are on its columns, keys lead
\* to a table, and only the memories that are active are told apart.
OrderlyTable(d, t) ==
    LET f == d.tables[t] IN
    /\ \A k \in f.keys : k.col \in DOMAIN f.cols /\ k.to \in DOMAIN d.tables
    /\ DOMAIN f.checks \subseteq DOMAIN f.cols
    /\ \A u \in f.uniques :
          /\ u.on \subseteq DOMAIN f.cols
          /\ t \in VersionTables \/ t = "memories"
          /\ t = "memories" => u.on \subseteq Identity
          /\ t # "memories" => u.active = FALSE

\* What a row says of itself: its owner, and for a memory its own key, a text's,
\* or none, which is all that one without a status has.
Regular(t, i, row) ==
    /\ t \in OwnerTables => i # NULL
    /\ t = "character_versions" => {"character_id", "version"} \subseteq DOMAIN row /\ row["character_id"] = i[1]
    /\ t = "persona_versions" => {"persona_id", "version"} \subseteq DOMAIN row /\ row["persona_id"] = i[1]
    /\ t = "memories" =>
          /\ i \notin {NULL, "key"} /\ {"confidence", "access_count"} \cap DOMAIN row = {}
          /\ row["normalized_key"] \in {"key", i, NULL}
          /\ row["status"] = NULL => row["normalized_key"] = NULL
Told(rows) ==
    \A t \in DOMAIN rows \cap DOMAIN Kept : \A i \in DOMAIN rows[t] : Regular(t, i, rows[t][i])

\* Rows that carry the columns their constraints may speak of.
Orderly(d) ==
    /\ Told(d.rows)
    /\ \A t \in DOMAIN d.tables \ DOMAIN Kept : DOMAIN d.rows[t] = {}
    /\ \A t \in DOMAIN d.tables \cap DOMAIN Kept : OrderlyTable(d, t)
    /\ \A t \in DOMAIN d.tables \cap OwnerTables : \A i \in DOMAIN d.rows[t] :
          DOMAIN d.rows[t][i] \subseteq Kept[t]
    /\ "memories" \in DOMAIN d.tables => \A i \in DOMAIN d.rows["memories"] :
          MemoryKey \subseteq DOMAIN d.rows["memories"][i] /\ "user_id" \notin DOMAIN d.rows["memories"][i]

-----------------------------------------------------------------------------
(* Which statements no rows can refuse.                                    *)

\* The table that a data statement writes.
DataTable(name) ==
    CASE name \in {"project characters", "name characters"} -> "characters"
      [] name \in {"project personas", "name personas"} -> "personas"
      [] name \in {"version characters", "synchronize characters"} -> "character_versions"
      [] name \in {"version personas", "synchronize personas"} -> "persona_versions"
      [] OTHER -> "memories"

\* The columns a data statement assigns, and those it may leave without a value.
Writes(name) ==
    CASE name = "project characters" -> {"name", "tagline", "description", "is_active"}
      [] name = "project personas" -> {"name", "instructions", "attributes_traits", "attributes_pronouns"}
      [] name \in {"name characters", "name personas"} -> {"name"}
      [] name = "synchronize characters" -> {"name", "summary"}
      [] name = "synchronize personas" -> {"name", "traits"}
      [] name = "keep scopes" -> {"legacy_scope"}
      [] name = "map scopes" -> {"scope"}
      [] name = "keep kinds" -> {"legacy_kind"}
      [] name = "map kinds" -> {"kind"}
      [] name = "archive memories" -> {"archived_at"}
      [] name = "fill bookkeeping" -> {"status", "normalized_key"}
      [] name = "map revised kinds" -> {"kind", "revised_kind"}
MayLeaveNull(name) == Writes(name) \ {"is_active", "scope", "kind", "status"}

\* No key, check or unique index of definition f speaks of the columns C.
Unconstrained(f, C) ==
    /\ C \cap DOMAIN f.checks = {} /\ \A k \in f.keys : k.col \notin C
    /\ \A u \in f.uniques : u.on \cap C = {} /\ (u.active = TRUE => "status" \notin C)
NullsAllowed(f, C) == \A c \in C \cap DOMAIN f.cols : f.cols[c].null = TRUE

\* A table of versions refers to the owners alone, and tells its rows apart by
\* them; no constraint speaks of the columns C, and no name is left out.
VersionTable(f, owner, to, C) ==
    /\ \A k \in f.keys : k.col = owner /\ k.to = to
    /\ \A u \in f.uniques : owner \in u.on /\ u.on \subseteq {owner, "version"}
    /\ Unconstrained(f, C) /\ DOMAIN f.checks = {}

\* Statement s asks nothing of the rows of d, or what it asks is in force, when
\* the tables in B, and those whose rows are not modelled, have none.
RowFree ==
    {"create", "drop", "drop column", "drop key", "drop check", "add index", "drop index", "drop unique"}
Harmless(d, s, B) ==
    \/ s.op \in RowFree
    \/ s.op # "sql" /\ (s.table \in B \/ s.table \notin DOMAIN Kept)
    \/ s.op = "add column" /\ s.col # Required
    \/ s.op = "alter column" /\ (s.col.null = TRUE \/ d.tables[s.table].cols[s.name].null = FALSE)
    \/ s.op = "add key" /\ s.key.to \notin DOMAIN Kept
    \/ /\ s.op = "sql" /\ DataTable(s.name) \in OwnerTables \cup {"memories"}
       /\ NullsAllowed(d.tables[DataTable(s.name)], MayLeaveNull(s.name))
       /\ Unconstrained(d.tables[DataTable(s.name)], Writes(s.name))

\* Statement r, executed on d, has seen to what s asks: every row is given a
\* name before names are required, and a key comes back after it was dropped.
Prepares(d, r, s) ==
    \/ /\ r.op = "sql" /\ r.name \in {"name characters", "name personas"}
       /\ s.op = "alter column" /\ s.table = DataTable(r.name) /\ s.name = "name"
    \/ /\ r.op = "drop key" /\ s.op = "add key" /\ s.table = r.table
       /\ \E k \in d.tables[s.table].keys : k.col = s.key.col /\ k.to = s.key.to

\* So is every statement of script a, started on d.
After(a, i, d) == Run(SubSeq(a, 1, i), d)
HarmlessRun(a, d, B) ==
    \A i \in 1..Len(a) :
        \/ Harmless(After(a, i - 1, d), a[i], B)
        \/ i > 1 /\ Prepares(After(a, i - 2, d), a[i - 1], a[i])

-----------------------------------------------------------------------------
(* The parts of revision 0005: all statements before and after the mapping *)
(* of the scopes, which two memories can refuse, and the parts of the way  *)
(* back.                                                                   *)

ScopeScript == <<Sql("map scopes")>>
KeepScript ==
    <<AddColumn("memories", "archived_at", Optional)>> \o DropMemoryChecks \o <<Sql("keep scopes")>>
BeforeScopes == BridgeCharacters \o BridgePersonas \o KeepScript
AfterScopes == <<Sql("keep kinds"), Sql("map kinds"), Sql("archive memories")>> \o RelaxMemories

LooseScript ==
    <<DropIndex("memories", ImportanceIndex), DropIndex("memories", <<"archived_at">>)>>
    \o Rebind("character_id", "characters", "cascade")
    \o Rebind("conversation_id", "conversations", "cascade")
FillScript == <<Sql("fill bookkeeping"), Sql("map revised kinds")>>
RequireScript == AlterColumns("memories", Bookkeeping, Required)
TightScript ==
    <<AddCheck("memories", "scope", LegacyScopes), AddCheck("memories", "kind", LegacyKinds),
      AddCheck("memories", "status", LegacyStatuses),
      AddUnique("memories", Identity, TRUE), DropColumn("memories", "archived_at")>>

CharacterVersioning == <<Sql("version characters"), Sql("synchronize characters")>>
CharacterEnd ==
    <<DropIndex("characters", <<"name">>), AlterColumn("characters", "current_version", Required),
      DropColumn("characters", "is_active")>>
PersonaVersioning == <<Sql("version personas"), Sql("synchronize personas")>>
PersonaIndexes == DropIndexes("personas", <<"is_default", "name">>)
PersonaEnd ==
    <<AlterColumn("personas", "current_version", Required), DropColumn("personas", "attributes"),
      DropColumn("personas", "is_default")>>
CharacterClosing == CharacterEnd \o DropColumns("characters", CharacterTexts)
PersonaClosing == PersonaIndexes \o PersonaEnd \o DropColumns("personas", PersonaTexts)
=============================================================================
