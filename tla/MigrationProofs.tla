---------------------------- MODULE MigrationProofs ----------------------------
(***************************************************************************)
(* Proofs about the database through its life: whatever upgrades,          *)
(* downgrades and writes of the two releases led to it, and whatever rows  *)
(* it has, nothing a user gave is lost on the way, its tables are those of *)
(* its revision, and only colliding memories have a command refused.       *)
(***************************************************************************)
EXTENDS Migrations, ScriptProofs

-----------------------------------------------------------------------------
(* A command runs the scripts between two revisions one after the other.   *)

\* The databases at passes through on the way from revision r to target.
Ascent(at, d, r, target) ==
    /\ at[r] = d
    /\ \A v \in r + 1 .. target : at[v] = Run(Upgrades[v], at[v - 1])
    /\ UpgradeFrom(d, r, target) = at[target]
Descent(at, d, r, target) ==
    /\ at[0] = d
    /\ \A v \in 1 .. r - target : at[v] = Run(Downgrades[r - v + 1], at[v - 1])
    /\ DowngradeFrom(d, r, target) = at[r - target]

\* An upgrade leads through the databases of the revisions between.
LEMMA UpgradeThrough ==
    ASSUME NEW d, NEW r \in Nat, NEW target \in Nat, r <= target
    PROVE  \E at : Ascent(at, d, r, target)
<1> DEFINE Upto(f, m) == f = [v \in r .. m |-> IF v = r THEN d ELSE Run(Upgrades[v], f[v - 1])]
           S == {k \in Nat : \E f : Upto(f, r + k)}
<1>1. 0 \in S
  <2> DEFINE f == [v \in r .. r + 0 |-> d]
  <2>1. Upto(f, r + 0)
    OBVIOUS
  <2> QED
    BY <2>1
<1>2. ASSUME NEW k \in Nat, k \in S PROVE k + 1 \in S
  <2> DEFINE m == r + k
  <2>0. m \in Nat /\ m >= r /\ r + (k + 1) = m + 1
    OBVIOUS
  <2>1. PICK f : Upto(f, m)
    BY <1>2
  <2> HIDE DEF m
  <2> DEFINE g == [v \in r .. m + 1 |-> IF v <= m THEN f[v] ELSE Run(Upgrades[m + 1], f[m])]
  <2>2. ASSUME NEW v \in r .. m + 1
        PROVE  g[v] = IF v = r THEN d ELSE Run(Upgrades[v], g[v - 1])
    <3>1. CASE v = r
      BY <2>0, <2>1, <3>1
    <3>2. CASE v \in r + 1 .. m
      <4>1. v - 1 \in r .. m /\ v \in r .. m
        BY <2>0, <3>2
      <4>2. g[v] = f[v] /\ g[v - 1] = f[v - 1]
        BY <2>0, <4>1, <3>2
      <4>3. f[v] = Run(Upgrades[v], f[v - 1])
        BY <2>1, <3>2, <4>1
      <4> QED
        BY <3>2, <4>2, <4>3
    <3>3. CASE v = m + 1
      BY <2>0, <3>3
    <3> QED
      BY <2>0, <3>1, <3>2, <3>3
  <2>3. g = [v \in r .. m + 1 |-> g[v]]
    OBVIOUS
  <2> HIDE DEF g
  <2>4. Upto(g, m + 1)
    BY <2>2, <2>3
  <2> QED
    BY <2>0, <2>4
<1>3. target - r \in S
  <2> HIDE DEF S
  <2> QED
    BY <1>1, <1>2, SetInduction
<1>4. \E f : Upto(f, target)
  BY <1>3
<1> DEFINE at == CHOOSE f : f = [v \in r .. target |-> IF v = r THEN d ELSE Run(Upgrades[v], f[v - 1])]
<1>5. at = [v \in r .. target |-> IF v = r THEN d ELSE Run(Upgrades[v], at[v - 1])]
  BY <1>4, Zenon
<1>6. UpgradeFrom(d, r, target) = at[target]
  BY DEF UpgradeFrom
<1> HIDE DEF at
<1>7. at[r] = d /\ \A v \in r + 1 .. target : at[v] = Run(Upgrades[v], at[v - 1])
  BY <1>5
<1>8. Ascent(at, d, r, target)
  BY <1>6, <1>7 DEF Ascent
<1> QED
  BY <1>8

\* So does a downgrade.
LEMMA DowngradeThrough ==
    ASSUME NEW d, NEW r \in Nat, NEW target \in Nat, target <= r
    PROVE  \E at : Descent(at, d, r, target)
<1> DEFINE n == r - target
           Upto(f, m) == f = [v \in 0 .. m |-> IF v = 0 THEN d ELSE Run(Downgrades[r - v + 1], f[v - 1])]
           S == {m \in Nat : \E f : Upto(f, m)}
<1>1. 0 \in S
  <2> DEFINE f == [v \in 0 .. 0 |-> d]
  <2>1. Upto(f, 0)
    OBVIOUS
  <2> QED
    BY <2>1
<1>2. ASSUME NEW m \in Nat, m \in S PROVE m + 1 \in S
  <2>1. PICK f : Upto(f, m)
    BY <1>2
  <2> DEFINE g == [v \in 0 .. m + 1 |-> IF v <= m THEN f[v] ELSE Run(Downgrades[r - (m + 1) + 1], f[m])]
  <2>2. ASSUME NEW v \in 0 .. m + 1
        PROVE  g[v] = IF v = 0 THEN d ELSE Run(Downgrades[r - v + 1], g[v - 1])
    <3>1. CASE v = 0
      BY <2>1, <3>1
    <3>2. CASE v \in 1 .. m
      <4>1. v - 1 \in 0 .. m /\ v \in 0 .. m
        BY <3>2
      <4>2. g[v] = f[v] /\ g[v - 1] = f[v - 1]
        BY <4>1, <3>2
      <4>3. f[v] = Run(Downgrades[r - v + 1], f[v - 1])
        BY <2>1, <3>2, <4>1
      <4> QED
        BY <3>2, <4>2, <4>3
    <3>3. CASE v = m + 1
      BY <3>3
    <3> QED
      BY <3>1, <3>2, <3>3
  <2>3. g = [v \in 0 .. m + 1 |-> g[v]]
    OBVIOUS
  <2> HIDE DEF g
  <2>4. Upto(g, m + 1)
    BY <2>2, <2>3
  <2> QED
    BY <2>4
<1>3. n \in S
  <2> HIDE DEF S
  <2> QED
    BY <1>1, <1>2, SetInduction
<1>4. \E f : Upto(f, n)
  BY <1>3
<1> DEFINE at == CHOOSE f : f = [v \in 0 .. r - target |->
                                    IF v = 0 THEN d ELSE Run(Downgrades[r - v + 1], f[v - 1])]
<1>5. at = [v \in 0 .. n |-> IF v = 0 THEN d ELSE Run(Downgrades[r - v + 1], at[v - 1])]
  BY <1>4, Zenon
<1>6. DowngradeFrom(d, r, target) = at[n]
  BY DEF DowngradeFrom
<1> HIDE DEF at
<1>7. at[0] = d /\ \A v \in 1 .. n : at[v] = Run(Downgrades[r - v + 1], at[v - 1])
  BY <1>5
<1>8. Descent(at, d, r, target)
  BY <1>6, <1>7 DEF Descent
<1> QED
  BY <1>8

-----------------------------------------------------------------------------
(* All scripts of the revisions.                                           *)

Scripted(a) == \E T : Footprint(a, T)

\* Two scripts with a footprint have one together.
LEMMA ScriptedConcat ==
    ASSUME NEW a, NEW b, Scripted(a), Scripted(b)
    PROVE  Scripted(a \o b)
<1>1. PICK T : Footprint(a, T)
  BY DEF Scripted
<1>2. PICK U : Footprint(b, U)
  BY DEF Scripted
<1>3. Footprint(a \o b, T \cup U)
  BY <1>1, <1>2, JoinedFootprint
<1> QED
  BY <1>3 DEF Scripted

\* The loops over columns in revision 0005 have a footprint.
LEMMA ColumnLists ==
    /\ Scripted(AddColumns("characters", CharacterTexts))
    /\ Scripted(AddColumns("personas", PersonaTexts))
    /\ Scripted(DropColumns("characters", CharacterTexts))
    /\ Scripted(DropColumns("personas", PersonaTexts))
    /\ Scripted(AlterColumns("memories", Bookkeeping, Required))
    /\ Scripted(AddIndexes("personas", <<"name", "is_default">>))
<1>1. \A t, cs, col : IsList(cs) =>
         /\ Scripted(AlterColumns(t, cs, col))
         /\ t \in OwnerTables => Scripted(AddColumns(t, cs)) /\ Scripted(DropColumns(t, cs))
  BY ListFootprint DEF Scripted
<1>2. Scripted(AddIndexes("personas", <<"name", "is_default">>))
  <2> DEFINE T == PlainEffects("personas")
  <2>1. <<"personas", "add index", "", Required>> \in T
    BY DEF PlainEffects, PlainOps, Alterations, ColumnOps
  <2>2. IsList(<<"name", "is_default">>)
    BY SmallLists
  <2> HIDE DEF T
  <2>3. Footprint(AddIndexes("personas", <<"name", "is_default">>), T)
    BY <2>1, <2>2, ListScripts
  <2> QED
    BY <2>3 DEF Scripted
<1>3. "characters" \in OwnerTables /\ "personas" \in OwnerTables
  BY DEF OwnerTables
<1> QED
  BY <1>1, <1>2, <1>3, NameLists

\* So have the three parts of its upgrade.
LEMMA PartScripts ==
    Scripted(BridgeCharacters) /\ Scripted(BridgePersonas) /\ Scripted(BridgeMemories)
<1>1. Scripted(BridgeCharacters)
  <2>1. BridgeCharacters = AddColumns("characters", CharacterTexts) \o ProjectScript
    BY DEF BridgeCharacters, ProjectScript
  <2>2. Scripted(ProjectScript)
    BY ProjectFootprint DEF Scripted
  <2> QED
    BY <2>1, <2>2, ColumnLists, ScriptedConcat
<1>2. Scripted(BridgePersonas)
  <2>1. BridgePersonas = (AddColumns("personas", PersonaTexts) \o AttributeScript)
                            \o AddIndexes("personas", <<"name", "is_default">>)
    BY DEF BridgePersonas, AttributeScript
  <2>2. Scripted(AttributeScript)
    BY AttributeFootprint DEF Scripted
  <2>3. Scripted(AddColumns("personas", PersonaTexts) \o AttributeScript)
    BY <2>2, ColumnLists, ScriptedConcat
  <2> QED
    BY <2>1, <2>3, ColumnLists, ScriptedConcat
<1>3. Scripted(BridgeMemories)
  <2> DEFINE a == <<AddColumn("memories", "archived_at", Optional)>>
             T == {"memories"} \X {"add column"} \X {"archived_at"} \X {Optional}
  <2>1. BridgeMemories = ((a \o DropMemoryChecks) \o MapMemories) \o RelaxMemories
    BY DEF BridgeMemories
  <2>2. Footprint(a, T)
    <3>1. Obeys(AddColumn("memories", "archived_at", Optional), T)
      BY OwnerColumns, Statements
    <3> HIDE DEF T
    <3> QED
      BY <3>1, Tuples
  <2>3. Footprint(DropMemoryChecks, PlainEffects("memories"))
    <3>1. PlainEffects("memories") \subseteq PlainEffects("memories")
      OBVIOUS
    <3> QED
      BY <3>1, PlainStatements, Tuples DEF DropMemoryChecks
  <2> HIDE DEF a, T
  <2>4. Scripted(a) /\ Scripted(DropMemoryChecks) /\ Scripted(MapMemories) /\ Scripted(RelaxMemories)
    BY <2>2, <2>3, MapFootprint, RelaxFootprint DEF Scripted
  <2>5. Scripted((a \o DropMemoryChecks) \o MapMemories)
    BY <2>4, ScriptedConcat
  <2> QED
    BY <2>1, <2>4, <2>5, ScriptedConcat
<1> QED
  BY <1>1, <1>2, <1>3

\* And the three of its downgrade.
LEMMA UnbridgeScripts ==
    Scripted(UnbridgeMemories) /\ Scripted(UnbridgeCharacters) /\ Scripted(UnbridgePersonas)
<1>1. Scripted(UnbridgeMemories)
  <2> DEFINE A == AlterColumns("memories", Bookkeeping, Required)
  <2>1. UnbridgeMemories = LooseScript \o ((FillScript \o A) \o TightScript)
    BY DEF UnbridgeMemories, LooseScript, RestoreMemories, FillScript, TightScript
  <2>2. Scripted(LooseScript) /\ Scripted(FillScript) /\ Scripted(TightScript)
    BY RestoreFootprints, FillFootprint DEF Scripted
  <2>3. Scripted(A)
    BY ColumnLists
  <2> HIDE DEF A
  <2>4. Scripted(FillScript \o A)
    BY <2>2, <2>3, ScriptedConcat
  <2>5. Scripted((FillScript \o A) \o TightScript)
    BY <2>2, <2>4, ScriptedConcat
  <2> QED
    BY <2>1, <2>2, <2>5, ScriptedConcat
<1>2. Scripted(UnbridgeCharacters)
  <2>1. UnbridgeCharacters = (CharacterVersioning \o CharacterEnd) \o DropColumns("characters", CharacterTexts)
    BY CharacterScript
  <2>2. Scripted(CharacterVersioning) /\ Scripted(CharacterEnd)
    BY CharacterFootprints DEF Scripted
  <2>3. Scripted(CharacterVersioning \o CharacterEnd)
    BY <2>2, ScriptedConcat
  <2> QED
    BY <2>1, <2>3, ColumnLists, ScriptedConcat
<1>3. Scripted(UnbridgePersonas)
  <2>1. UnbridgePersonas = ((PersonaVersioning \o PersonaIndexes) \o PersonaEnd)
                              \o DropColumns("personas", PersonaTexts)
    BY DEF UnbridgePersonas, PersonaVersioning, PersonaIndexes, PersonaEnd
  <2>2. Scripted(PersonaVersioning) /\ Scripted(PersonaIndexes) /\ Scripted(PersonaEnd)
    BY PersonaFootprints DEF Scripted
  <2>3. Scripted(PersonaVersioning \o PersonaIndexes)
    BY <2>2, ScriptedConcat
  <2>4. Scripted((PersonaVersioning \o PersonaIndexes) \o PersonaEnd)
    BY <2>2, <2>3, ScriptedConcat
  <2> QED
    BY <2>1, <2>4, ColumnLists, ScriptedConcat
<1> QED
  BY <1>1, <1>2, <1>3

\* Every script keeps a database what it is, refused or not.
LEMMA RunDatabase ==
    ASSUME NEW a, Scripted(a), NEW d, IsDatabase(d)
    PROVE  IsDatabase(Run(a, d))
<1> DEFINE n == Len(a)
<1>0. PICK T : Footprint(a, T)
  BY DEF Scripted
<1>1. n \in Nat /\ \A i \in 1 .. n : Known(a[i])
  BY <1>0, Scripts DEF Footprint, Obeys, Sound
<1>2. PICK done : Through(done, a, d) /\ Run(a, d) = done[n]
  BY <1>1, RunThrough
<1> DEFINE S == {i \in Nat : IsDatabase(done[i])}
<1>3. 0 \in S
  BY <1>2 DEF Through
<1>4. ASSUME NEW i \in 1 .. n, i - 1 \in S PROVE i \in S
  <2>1. Known(a[i]) /\ done[i] = Execute(done[i - 1], a[i]) /\ IsDatabase(done[i - 1])
    BY <1>1, <1>2, <1>4 DEF Through
  <2>2. IsDatabase(done[i])
    BY <2>1, Executed
  <2> QED
    BY <1>1, <2>2
<1> HIDE DEF S
<1>5. \A i \in 0 .. n : i \in S
  BY <1>1, <1>3, <1>4, InductionUpTo
<1>6. n \in S
  BY <1>1, <1>5
<1> QED
  BY <1>2, <1>6 DEF S

\* Every script of every revision has a footprint.
LEMMA AllScripts ==
    ASSUME NEW v \in 1 .. HeadRevision
    PROVE  Scripted(Upgrades[v]) /\ Scripted(Downgrades[v])
<1>1. v \in 1 .. 7
  BY DEF HeadRevision
<1>2. Scripted(Upgrade1) /\ Scripted(Downgrade1) /\ Scripted(Upgrade2) /\ Scripted(Downgrade2)
  BY Revision1, Revision2 DEF Scripted
<1>3. Scripted(Upgrade6) /\ Scripted(Downgrade6) /\ Scripted(Upgrade7) /\ Scripted(Downgrade7)
  BY Revision6, Revision7 DEF Scripted
<1>4. Scripted(Upgrade3) /\ Scripted(Downgrade3) /\ Scripted(Upgrade4) /\ Scripted(Downgrade4)
  BY Revision3, Revision4 DEF Scripted
<1>5. Scripted(Downgrade5)
  <2>1. Scripted(UnbridgeMemories \o UnbridgeCharacters)
    BY UnbridgeScripts, ScriptedConcat
  <2> QED
    BY <2>1, UnbridgeScripts, ScriptedConcat DEF Downgrade5
<1>6. Scripted(Upgrade5)
  <2>1. Scripted(BridgeCharacters \o BridgePersonas)
    BY PartScripts, ScriptedConcat
  <2> QED
    BY <2>1, PartScripts, ScriptedConcat DEF Upgrade5
<1> QED
  BY <1>1, <1>2, <1>3, <1>4, <1>5, <1>6 DEF Upgrades, Downgrades

-----------------------------------------------------------------------------
(* The bridge as a whole.                                                  *)

\* Profiles are there from revision 3, memories from revision 4.
LEMMA TablesPresent ==
    ASSUME NEW r \in 0 .. HeadRevision, NEW d, TablesThere(r, d)
    PROVE  /\ r >= 3 => /\ "characters" \in DOMAIN d.tables /\ "character_versions" \in DOMAIN d.tables
                        /\ "personas" \in DOMAIN d.tables /\ "persona_versions" \in DOMAIN d.tables
           /\ r >= LegacyRevision => "memories" \in DOMAIN d.tables
BY DEF TablesThere, Profiled

Raised(d, e) ==
    /\ d.ok = TRUE /\ WellFormed(e) /\ DOMAIN Kept \subseteq DOMAIN e.tables
    /\ e.rows["character_versions"] = d.rows["character_versions"]
    /\ e.rows["persona_versions"] = d.rows["persona_versions"]
    /\ e.tables["persona_versions"] = d.tables["persona_versions"]
    /\ DOMAIN e.rows["characters"] = DOMAIN d.rows["characters"]
    /\ \A c \in DOMAIN d.rows["characters"] : CharacterBridged(d, e, c)
    /\ DOMAIN e.rows["personas"] = DOMAIN d.rows["personas"]
    /\ \A p \in DOMAIN d.rows["personas"] : PersonaBridged(d, e, p)
    /\ DOMAIN e.rows["memories"] = DOMAIN d.rows["memories"]
    /\ \A i \in DOMAIN d.rows["memories"] : MemoryBridged(d.rows["memories"][i], e.rows["memories"][i])
    /\ HasColumn(e, "characters", "current_version", Default("1"))
    /\ HasColumn(e, "personas", "current_version", Default("1"))
    /\ HasColumn(e, "memories", "status", Optional)
    /\ "archived_at" \in DOMAIN e.tables["characters"].cols
    /\ "expires_at" \in DOMAIN e.tables["memories"].cols

\* The upgrade of revision 0005 is its three parts in succession.
LEMMA BridgeInThree ==
    ASSUME NEW d, WellFormed(d), NEW e, e = Run(Upgrade5, d), e.ok = TRUE
    PROVE  LET x == Run(BridgeCharacters, d)
               y == Run(BridgePersonas, x)
           IN /\ d.ok = TRUE /\ x.ok = TRUE /\ WellFormed(x) /\ y.ok = TRUE /\ WellFormed(y)
              /\ e = Run(BridgeMemories, y)
<1>1. PICK T : Footprint(BridgeCharacters, T)
  BY PartScripts DEF Scripted
<1>2. PICK U : Footprint(BridgePersonas, U)
  BY PartScripts DEF Scripted
<1>3. PICK V : Footprint(BridgeMemories, V)
  BY PartScripts DEF Scripted
<1>4. e = Run((BridgeCharacters \o BridgePersonas) \o BridgeMemories, d)
  BY DEF Upgrade5
<1>5. Run((BridgeCharacters \o BridgePersonas) \o BridgeMemories, d).ok = TRUE
  BY <1>4
<1>6. e = Run(BridgeMemories, Run(BridgePersonas, Run(BridgeCharacters, d)))
  BY <1>1, <1>2, <1>3, <1>4, ThreeConcat DEF Footprint
<1>7. /\ d.ok = TRUE /\ Run(BridgeCharacters, d).ok = TRUE /\ WellFormed(Run(BridgeCharacters, d))
      /\ Run(BridgePersonas, Run(BridgeCharacters, d)).ok = TRUE
      /\ WellFormed(Run(BridgePersonas, Run(BridgeCharacters, d)))
  BY <1>1, <1>2, <1>3, <1>5, RunThree
<1> QED
  BY <1>6, <1>7

\* In a database of revision 4 every profile has a current version with a name.
LEMMA LegacyReady ==
    ASSUME NEW d, VersionsInv(d), VersionedInv(d)
    PROVE  /\ \A c \in DOMAIN d.rows["characters"] : CharacterReady(d, c)
           /\ \A p \in DOMAIN d.rows["personas"] : PersonaReady(d, p)
<1>1. NULL \notin Names
  BY InputAssumption
<1>2. ASSUME NEW c \in DOMAIN d.rows["characters"] PROVE CharacterReady(d, c)
  <2>1. /\ {"current_version", "archived_at"} \subseteq DOMAIN d.rows.characters[c]
        /\ <<c, d.rows.characters[c].current_version>> \in DOMAIN d.rows.character_versions
    BY <1>2 DEF VersionsInv, VersionedInv, Has
  <2>2. d.rows.character_versions[<<c, d.rows.characters[c].current_version>>].name \in Names
    BY <2>1 DEF VersionsInv
  <2> QED
    BY <1>1, <2>1, <2>2 DEF CharacterReady
<1>3. ASSUME NEW p \in DOMAIN d.rows["personas"] PROVE PersonaReady(d, p)
  <2>1. /\ "current_version" \in DOMAIN d.rows.personas[p]
        /\ <<p, d.rows.personas[p].current_version>> \in DOMAIN d.rows.persona_versions
    BY <1>3 DEF VersionsInv, VersionedInv, Has
  <2>2. d.rows.persona_versions[<<p, d.rows.personas[p].current_version>>].name \in Names
    BY <2>1 DEF VersionsInv
  <2> QED
    BY <1>1, <2>1, <2>2 DEF PersonaReady
<1> QED
  BY <1>2, <1>3

\* The upgrade of revision 0005 raises such a database, rows and definitions.
LEMMA BridgeRaises ==
    ASSUME NEW d, NEW given, RevisionInv(LegacyRevision, d, given),
           NEW e, e = Run(Upgrade5, d), e.ok = TRUE
    PROVE  Raised(d, e)
<1> DEFINE x == Run(BridgeCharacters, d)
           y == Run(BridgePersonas, x)
<1>1. /\ WellFormed(d) /\ VersionsInv(d) /\ VersionedInv(d)
      /\ MemoryInv(LegacyRevision, d) /\ TablesThere(LegacyRevision, d)
  BY DEF RevisionInv, LegacyRevision
<1>2. /\ "characters" \in DOMAIN d.tables /\ "character_versions" \in DOMAIN d.tables
      /\ "personas" \in DOMAIN d.tables /\ "persona_versions" \in DOMAIN d.tables
      /\ "memories" \in DOMAIN d.tables
  BY <1>1, TablesPresent DEF LegacyRevision, HeadRevision
<1>3. /\ "characters" \in DOMAIN Kept /\ "character_versions" \in DOMAIN Kept
      /\ "personas" \in DOMAIN Kept /\ "persona_versions" \in DOMAIN Kept
      /\ "memories" \in DOMAIN Kept
  BY KeptTables
<1>4. /\ d.ok = TRUE /\ x.ok = TRUE /\ WellFormed(x) /\ y.ok = TRUE /\ WellFormed(y)
      /\ e = Run(BridgeMemories, y)
  BY <1>1, BridgeInThree
<1>5. /\ \A c \in DOMAIN d.rows["characters"] : CharacterReady(d, c)
      /\ \A p \in DOMAIN d.rows["personas"] : PersonaReady(d, p)
  BY <1>1, LegacyReady
<1>6. "archived_at" \in DOMAIN d.tables.characters.cols
  BY <1>1 DEF VersionsInv
<1>7. /\ \A t \in DOMAIN Kept : t # "characters" => Same(t, d, x)
      /\ "characters" \in DOMAIN x.tables
      /\ DOMAIN x.rows["characters"] = DOMAIN d.rows["characters"]
      /\ \A c \in DOMAIN d.rows["characters"] : CharacterBridged(d, x, c)
      /\ HasColumn(x, "characters", "current_version", Default("1"))
      /\ "archived_at" \in DOMAIN x.tables["characters"].cols
  BY <1>1, <1>2, <1>4, <1>5, <1>6, BridgedCharacters
<1> HIDE DEF x
<1>8. Same("personas", d, x) /\ Same("persona_versions", d, x) /\ Same("character_versions", d, x)
      /\ Same("memories", d, x)
  BY <1>3, <1>7
<1>9. /\ "personas" \in DOMAIN x.tables /\ "persona_versions" \in DOMAIN x.tables
      /\ x.rows["personas"] = d.rows["personas"] /\ x.rows["persona_versions"] = d.rows["persona_versions"]
  BY <1>2, <1>8 DEF Same
<1>10. \A p \in DOMAIN x.rows["personas"] : PersonaReady(x, p)
  BY <1>5, <1>9 DEF PersonaReady
<1>11. /\ \A t \in DOMAIN Kept : t # "personas" => Same(t, x, y)
       /\ "personas" \in DOMAIN y.tables
       /\ DOMAIN y.rows["personas"] = DOMAIN x.rows["personas"]
       /\ \A p \in DOMAIN x.rows["personas"] : PersonaBridged(x, y, p)
       /\ HasColumn(y, "personas", "current_version", Default("1"))
  BY <1>4, <1>9, <1>10, BridgedPersonas
<1> HIDE DEF y
<1>12. /\ Same("characters", x, y) /\ Same("persona_versions", x, y)
       /\ Same("character_versions", x, y) /\ Same("memories", x, y)
  BY <1>3, <1>11
<1>13. Same("memories", d, y)
  BY <1>8, <1>12, SameTwice
<1>14. /\ "memories" \in DOMAIN y.tables /\ y.rows["memories"] = d.rows["memories"]
       /\ y.tables["memories"] = d.tables["memories"]
  BY <1>2, <1>13 DEF Same
<1>15. /\ \A i \in DOMAIN y.rows.memories : MemoryFields \subseteq DOMAIN y.rows.memories[i]
       /\ "expires_at" \in DOMAIN y.tables.memories.cols
  BY <1>1, <1>14 DEF MemoryInv, Has
<1>16. /\ WellFormed(e)
       /\ \A t \in DOMAIN Kept : t # "memories" => Same(t, y, e)
       /\ "memories" \in DOMAIN e.tables
       /\ DOMAIN e.rows["memories"] = DOMAIN y.rows["memories"]
       /\ \A i \in DOMAIN y.rows["memories"] :
             MemoryBridged(y.rows["memories"][i], e.rows["memories"][i])
       /\ "expires_at" \in DOMAIN e.tables["memories"].cols
       /\ HasColumn(e, "memories", "status", Optional)
  BY <1>4, <1>14, <1>15, BridgedMemories
<1>17. /\ Same("characters", y, e) /\ Same("persona_versions", y, e)
       /\ Same("character_versions", y, e) /\ Same("personas", y, e)
  BY <1>3, <1>16
<1>18. /\ Same("characters", x, e) /\ Same("persona_versions", d, e)
       /\ Same("character_versions", d, e)
  BY <1>8, <1>12, <1>17, SameTwice
<1>19. /\ "character_versions" \in DOMAIN e.tables /\ "persona_versions" \in DOMAIN e.tables
       /\ e.rows["character_versions"] = d.rows["character_versions"]
       /\ e.rows["persona_versions"] = d.rows["persona_versions"]
       /\ e.tables["persona_versions"] = d.tables["persona_versions"]
  BY <1>2, <1>18 DEF Same
<1>20. /\ "characters" \in DOMAIN e.tables /\ e.tables["characters"] = x.tables["characters"]
       /\ e.rows["characters"] = x.rows["characters"]
  BY <1>7, <1>18 DEF Same
<1>21. /\ "personas" \in DOMAIN e.tables /\ e.tables["personas"] = y.tables["personas"]
       /\ e.rows["personas"] = y.rows["personas"]
  BY <1>11, <1>17 DEF Same
<1>22. \A c \in DOMAIN d.rows["characters"] : CharacterBridged(d, e, c)
  BY <1>7, <1>20 DEF CharacterBridged
<1>23. ASSUME NEW p \in DOMAIN d.rows["personas"] PROVE PersonaBridged(d, e, p)
  <2>1. PersonaBridged(x, y, p)
    BY <1>9, <1>11
  <2>2. d.rows.personas = x.rows.personas /\ d.rows.persona_versions = x.rows.persona_versions
    BY <1>9
  <2>3. y.rows.personas = e.rows.personas
    BY <1>21
  <2> QED
    BY <2>1, <2>2, <2>3 DEF PersonaBridged
<1>24. \A i \in DOMAIN d.rows["memories"] : MemoryBridged(d.rows["memories"][i], e.rows["memories"][i])
  BY <1>14, <1>16
<1>25. /\ HasColumn(e, "characters", "current_version", Default("1"))
       /\ HasColumn(e, "personas", "current_version", Default("1"))
       /\ "archived_at" \in DOMAIN e.tables["characters"].cols
  BY <1>7, <1>11, <1>20, <1>21 DEF HasColumn
<1>26. DOMAIN Kept \subseteq DOMAIN e.tables
  BY <1>16, <1>19, <1>20, <1>21, KeptTables
<1>27. /\ DOMAIN e.rows["characters"] = DOMAIN d.rows["characters"]
       /\ DOMAIN e.rows["personas"] = DOMAIN d.rows["personas"]
       /\ DOMAIN e.rows["memories"] = DOMAIN d.rows["memories"]
  BY <1>7, <1>9, <1>11, <1>14, <1>16, <1>20, <1>21
<1> QED
  BY <1>4, <1>16, <1>19, <1>22, <1>23, <1>24, <1>25, <1>26, <1>27 DEF Raised

\* What tells the original of a memory is carried over by the upgrade.
LEMMA RecordedRaised ==
    ASSUME NEW m, NEW q, NEW o, Recorded(m, o), MemoryBridged(m, q)
    PROVE  Recorded(q, o)
<1>1. \/ o.scope = q.scope
      \/ o.scope = q.legacy_scope /\ q.scope \notin DroppedScopes
  <2>1. o.scope = m.scope \/ (o.scope = m.legacy_scope /\ m.scope \notin DroppedScopes)
    BY DEF Recorded
  <2>2. CASE m.scope \in DroppedScopes
    <3>1. q.legacy_scope = m.scope /\ q.scope \in {"user", "character"}
      BY <2>2 DEF MemoryBridged
    <3>2. q.scope \notin DroppedScopes
      BY <3>1 DEF DroppedScopes
    <3> QED
      BY <2>1, <2>2, <3>1, <3>2
  <2>3. CASE m.scope \notin DroppedScopes
    BY <2>1, <2>3 DEF MemoryBridged
  <2> QED
    BY <2>2, <2>3
<1>2. \/ o.kind = q.kind
      \/ o.kind = q.legacy_kind /\ q.kind \notin DroppedKinds
      \/ o.kind = q.revised_kind /\ q.kind \notin DroppedKinds \cup {"summary", "note"}
  <2>1. \/ o.kind = m.kind
        \/ o.kind = m.legacy_kind /\ m.kind \notin DroppedKinds
        \/ o.kind = m.revised_kind /\ m.kind \notin DroppedKinds \cup {"summary", "note"}
    BY DEF Recorded
  <2>2. CASE m.kind \in DroppedKinds
    <3>1. q.legacy_kind = m.kind /\ q.kind = "note"
      BY <2>2 DEF MemoryBridged
    <3>2. q.kind \notin DroppedKinds
      BY <3>1 DEF DroppedKinds
    <3> QED
      BY <2>1, <2>2, <3>1, <3>2
  <2>3. CASE m.kind \notin DroppedKinds
    <3>1. q.legacy_kind = m.legacy_kind /\ q.kind = m.kind /\ q.revised_kind = m.revised_kind
      BY <2>3 DEF MemoryBridged
    <3> QED
      BY <2>1, <2>3, <3>1
  <2> QED
    BY <2>2, <2>3
<1> QED
  BY <1>1, <1>2 DEF Recorded

\* And by the downgrade, which moves only what the upgrade left.
LEMMA RecordedLowered ==
    ASSUME NEW m, NEW q, NEW o, Recorded(m, o), MemoryUnbridged(m, q)
    PROVE  Recorded(q, o)
<1>1. \/ o.scope = q.scope
      \/ o.scope = q.legacy_scope /\ q.scope \notin DroppedScopes
  BY DEF Recorded, MemoryUnbridged
<1>2. \/ o.kind = q.kind
      \/ o.kind = q.legacy_kind /\ q.kind \notin DroppedKinds
      \/ o.kind = q.revised_kind /\ q.kind \notin DroppedKinds \cup {"summary", "note"}
  <2>1. \/ o.kind = m.kind
        \/ o.kind = m.legacy_kind /\ m.kind \notin DroppedKinds
        \/ o.kind = m.revised_kind /\ m.kind \notin DroppedKinds \cup {"summary", "note"}
    BY DEF Recorded
  <2>2. q.legacy_kind = m.legacy_kind
    BY DEF MemoryUnbridged
  <2>3. CASE m.kind \in {"summary", "note"}
    <3>1. q.revised_kind = m.kind /\ q.kind = "fact"
      BY <2>3 DEF MemoryUnbridged
    <3>2. q.kind \notin DroppedKinds \cup {"summary", "note"}
      BY <3>1 DEF DroppedKinds
    <3> QED
      BY <2>1, <2>2, <2>3, <3>1, <3>2
  <2>4. CASE m.kind \notin {"summary", "note"}
    <3>1. q.revised_kind = m.revised_kind /\ q.kind = m.kind
      BY <2>4 DEF MemoryUnbridged
    <3> QED
      BY <2>1, <2>2, <2>4, <3>1
  <2> QED
    BY <2>3, <2>4
<1> QED
  BY <1>1, <1>2 DEF Recorded

\* The bridge turns every value of the legacy release into one of the present.
LEMMA ValuesRaised ==
    ASSUME NEW m, NEW q, MemoryBridged(m, q),
           m.scope \in LegacyScopes, m.kind \in LegacyKinds, m.status \in LegacyStatuses
    PROVE  /\ Has(q, MemoryFields) /\ Has(q, {"archived_at"})
           /\ q.scope \in MemoryScope /\ q.kind \in MemoryKind /\ q.status \in LegacyStatuses
<1>1. q.scope \in MemoryScope
  <2>1. q.scope \in {"user", "character"} \/ (q.scope = m.scope /\ m.scope \notin DroppedScopes)
    BY DEF MemoryBridged
  <2> QED
    BY <2>1 DEF MemoryScope, LegacyScopes, DroppedScopes
<1>2. q.kind \in MemoryKind
  <2>1. q.kind = "note" \/ (q.kind = m.kind /\ m.kind \notin DroppedKinds)
    BY DEF MemoryBridged
  <2> QED
    BY <2>1 DEF MemoryKind, LegacyKinds, DroppedKinds
<1> QED
  BY <1>1, <1>2 DEF MemoryBridged, Has

\* What a memory says at the head, brought back, is in the vocabulary of
\* revision 4.
LEMMA ValuesLowered ==
    ASSUME NEW m, NEW q, MemoryUnbridged(m, q),
           m.scope \in MemoryScope, m.kind \in MemoryKind, m.status \in LegacyStatuses \cup {NULL}
    PROVE  /\ Has(q, MemoryFields)
           /\ q.scope \in LegacyScopes /\ q.kind \in LegacyKinds /\ q.status \in LegacyStatuses
<1>1. q.kind \in LegacyKinds
  <2>1. q.kind = "fact" \/ (q.kind = m.kind /\ m.kind \notin {"summary", "note"})
    BY DEF MemoryUnbridged
  <2> QED
    BY <2>1 DEF MemoryKind, LegacyKinds
<1>2. q.status \in LegacyStatuses
  <2>1. q.status \in {"active", "archived"} \/ (q.status = m.status /\ m.status # NULL)
    BY DEF MemoryUnbridged
  <2> QED
    BY <2>1 DEF LegacyStatuses
<1>3. q.scope \in LegacyScopes
  <2>1. q.scope = m.scope
    BY DEF MemoryUnbridged
  <2> QED
    BY <2>1 DEF MemoryScope, LegacyScopes
<1> QED
  BY <1>1, <1>2, <1>3 DEF MemoryUnbridged, Has

\* The form of a column says its default.
LEMMA ColumnDefault ==
    ASSUME NEW d, NEW t, NEW c, NEW v, HasColumn(d, t, c, v)
    PROVE  DefaultOf(d, t, c, v.default)
BY DEF HasColumn, DefaultOf

\* The defaults that revision 0005 relies on.
LEMMA Defaults == Default("1").default = "1" /\ Optional.default = NULL
BY DEF Default, Optional

\* A database with all of the tables is one of revision 4 or later.
LEMMA TablesFound ==
    ASSUME NEW r \in LegacyRevision .. HeadRevision, NEW d, DOMAIN Kept \subseteq DOMAIN d.tables
    PROVE  TablesThere(r, d)
BY KeptTables DEF TablesThere, Profiled, LegacyRevision, HeadRevision

\* The upgrade keeps the versions and gives the profiles their texts.
LEMMA VersionsRaised ==
    ASSUME NEW d, VersionsInv(d), VersionedInv(d), NEW e, Raised(d, e)
    PROVE  VersionsInv(e) /\ RevisedInv(e)
<1>1. ASSUME NEW c \in DOMAIN e.rows["characters"]
      PROVE  /\ Has(e.rows["characters"][c], {"current_version", "archived_at"})
             /\ Has(e.rows["characters"][c], {"name"}) /\ e.rows["characters"][c].name \in Names
             /\ <<c, e.rows["characters"][c].current_version>> \in DOMAIN e.rows["character_versions"]
  <2> DEFINE v == <<c, d.rows["characters"][c].current_version>>
  <2>1. c \in DOMAIN d.rows["characters"] /\ CharacterBridged(d, e, c)
    BY <1>1 DEF Raised
  <2>2. v \in DOMAIN d.rows["character_versions"] /\ d.rows["character_versions"][v].name \in Names
    BY <2>1 DEF VersionsInv, VersionedInv
  <2>3. /\ {"name", "is_active", "current_version", "archived_at"} \subseteq DOMAIN e.rows["characters"][c]
        /\ e.rows["characters"][c].current_version = d.rows["characters"][c].current_version
        /\ e.rows["characters"][c].name = d.rows["character_versions"][v].name
    BY <2>1 DEF CharacterBridged, CharacterWords
  <2>4. e.rows["character_versions"] = d.rows["character_versions"]
    BY DEF Raised
  <2> QED
    BY <2>2, <2>3, <2>4 DEF Has
<1>2. ASSUME NEW p \in DOMAIN e.rows["personas"]
      PROVE  /\ Has(e.rows["personas"][p], {"current_version"})
             /\ Has(e.rows["personas"][p], {"name"}) /\ e.rows["personas"][p].name \in Names
             /\ <<p, e.rows["personas"][p].current_version>> \in DOMAIN e.rows["persona_versions"]
  <2> DEFINE v == <<p, d.rows["personas"][p].current_version>>
  <2>1. p \in DOMAIN d.rows["personas"] /\ PersonaBridged(d, e, p)
    BY <1>2 DEF Raised
  <2>2. v \in DOMAIN d.rows["persona_versions"] /\ d.rows["persona_versions"][v].name \in Names
    BY <2>1 DEF VersionsInv, VersionedInv
  <2>3. /\ {"name", "current_version"} \subseteq DOMAIN e.rows["personas"][p]
        /\ e.rows["personas"][p].current_version = d.rows["personas"][p].current_version
        /\ e.rows["personas"][p].name = d.rows["persona_versions"][v].name
    BY <2>1 DEF PersonaBridged, PersonaWords
  <2>4. e.rows["persona_versions"] = d.rows["persona_versions"]
    BY DEF Raised
  <2> QED
    BY <2>2, <2>3, <2>4 DEF Has
<1>3. ASSUME NEW k \in DOMAIN e.rows["character_versions"]
      PROVE  /\ k[1] \in DOMAIN e.rows["characters"]
             /\ Has(e.rows["character_versions"][k], {"name", "summary", "speaking_style"})
             /\ e.rows["character_versions"][k].name \in Names
  BY <1>3 DEF Raised, VersionsInv
<1>4. ASSUME NEW k \in DOMAIN e.rows["persona_versions"]
      PROVE  /\ k[1] \in DOMAIN e.rows["personas"]
             /\ Has(e.rows["persona_versions"][k], {"name", "traits", "pronouns", "persona_id"})
             /\ e.rows["persona_versions"][k].name \in Names
             /\ e.rows["persona_versions"][k].persona_id = k[1]
  BY <1>4 DEF Raised, VersionsInv
<1>5. "archived_at" \in DOMAIN e.tables["characters"].cols
  BY DEF Raised
<1>6. /\ DefaultOf(e, "characters", "current_version", "1")
      /\ DefaultOf(e, "personas", "current_version", "1")
  <2>1. /\ HasColumn(e, "characters", "current_version", Default("1"))
        /\ HasColumn(e, "personas", "current_version", Default("1"))
    BY DEF Raised
  <2>2. /\ DefaultOf(e, "characters", "current_version", Default("1").default)
        /\ DefaultOf(e, "personas", "current_version", Default("1").default)
    BY <2>1, ColumnDefault
  <2> QED
    BY <2>2, Defaults
<1>9. Key("persona_id", "personas", "cascade") \in e.tables["persona_versions"].keys
  BY DEF Raised, VersionsInv
<1>7. VersionsInv(e)
  BY <1>1, <1>2, <1>3, <1>4, <1>5, <1>9 DEF VersionsInv
<1>8. RevisedInv(e)
  BY <1>1, <1>2, <1>6 DEF RevisedInv
<1> QED
  BY <1>7, <1>8

\* It gives every memory a scope and a kind of the present application, and
\* loses no original.
LEMMA MemoriesRaised ==
    ASSUME NEW d, MemoryInv(LegacyRevision, d), NEW e, Raised(d, e),
           NEW r \in LegacyRevision + 1 .. HeadRevision
    PROVE  MemoryInv(r, e) /\ \A given : Retained(d, given) => Retained(e, given)
<1>1. ASSUME NEW i \in DOMAIN e.rows["memories"]
      PROVE  LET q == e.rows["memories"][i]
             IN /\ Has(q, MemoryFields) /\ Has(q, {"archived_at"})
                /\ q.scope \in MemoryScope /\ q.kind \in MemoryKind /\ q.status \in LegacyStatuses
  <2> DEFINE m == d.rows["memories"][i]
             q == e.rows["memories"][i]
  <2>1. i \in DOMAIN d.rows["memories"] /\ MemoryBridged(m, q)
    BY <1>1 DEF Raised
  <2>2. m.scope \in LegacyScopes /\ m.kind \in LegacyKinds /\ m.status \in LegacyStatuses
    BY <2>1 DEF MemoryInv, LegacyRevision
  <2> HIDE DEF m, q
  <2>3. /\ Has(q, MemoryFields) /\ Has(q, {"archived_at"})
        /\ q.scope \in MemoryScope /\ q.kind \in MemoryKind /\ q.status \in LegacyStatuses
    BY <2>1, <2>2, ValuesRaised
  <2> QED
    BY <2>3 DEF q
<1>2. DefaultOf(e, "memories", "status", NULL)
  <2>1. HasColumn(e, "memories", "status", Optional)
    BY DEF Raised
  <2>2. DefaultOf(e, "memories", "status", Optional.default)
    BY <2>1, ColumnDefault
  <2> QED
    BY <2>2, Defaults
<1>3. "expires_at" \in DOMAIN e.tables["memories"].cols
  BY DEF Raised
<1>4. r # LegacyRevision
  BY DEF LegacyRevision, HeadRevision
<1>5. MemoryInv(r, e)
  BY <1>1, <1>2, <1>3, <1>4 DEF MemoryInv
<1>6. ASSUME NEW given, Retained(d, given) PROVE Retained(e, given)
  <2>1. ASSUME NEW i \in DOMAIN given
        PROVE  /\ i \in DOMAIN e.rows["memories"] /\ Has(given[i], {"scope", "kind"})
               /\ Recorded(e.rows["memories"][i], given[i])
    <3> DEFINE m == d.rows["memories"][i]
               q == e.rows["memories"][i]
    <3>1. i \in DOMAIN d.rows["memories"] /\ Recorded(m, given[i]) /\ Has(given[i], {"scope", "kind"})
      BY <1>6, <2>1 DEF Retained
    <3>2. i \in DOMAIN e.rows["memories"] /\ MemoryBridged(m, q)
      BY <3>1 DEF Raised
    <3> HIDE DEF m, q
    <3>3. Recorded(q, given[i])
      BY <3>1, <3>2, RecordedRaised
    <3> QED
      BY <3>1, <3>2, <3>3 DEF q
  <2> QED
    BY <2>1 DEF Retained
<1> QED
  BY <1>5, <1>6

\* Revision 5 keeps what the legacy release wrote.
LEMMA BridgeKeeps ==
    ASSUME NEW d, NEW given, RevisionInv(LegacyRevision, d, given),
           NEW e, e = Run(Upgrade5, d), e.ok = TRUE
    PROVE  RevisionInv(5, e, given)
<1>1. /\ VersionsInv(d) /\ VersionedInv(d) /\ MemoryInv(LegacyRevision, d) /\ Retained(d, given)
  BY DEF RevisionInv, LegacyRevision
<1>2. Raised(d, e)
  BY BridgeRaises
<1>3. 5 \in LegacyRevision + 1 .. HeadRevision /\ 5 \in LegacyRevision .. HeadRevision
  BY DEF LegacyRevision, HeadRevision
<1>4. VersionsInv(e) /\ RevisedInv(e)
  BY <1>1, <1>2, VersionsRaised
<1>5. MemoryInv(5, e) /\ Retained(e, given)
  BY <1>1, <1>2, <1>3, MemoriesRaised
<1>6. WellFormed(e) /\ TablesThere(5, e)
  BY <1>2, <1>3, TablesFound DEF Raised
<1> QED
  BY <1>4, <1>5, <1>6 DEF RevisionInv, LegacyRevision

-----------------------------------------------------------------------------
(* The way back as a whole.                                                *)

Lowered(d, e) ==
    /\ d.ok = TRUE /\ WellFormed(e) /\ DOMAIN Kept \subseteq DOMAIN e.tables
    /\ DOMAIN e.rows["memories"] = DOMAIN d.rows["memories"]
    /\ \A i \in DOMAIN d.rows["memories"] : MemoryUnbridged(d.rows["memories"][i], e.rows["memories"][i])
    /\ "expires_at" \in DOMAIN e.tables["memories"].cols
    /\ VersionsTaken(d.rows["characters"], d.rows["character_versions"], e.rows["character_versions"])
    /\ CharactersTaken(d.rows["characters"], d.rows["character_versions"], e.rows["character_versions"])
    /\ Kindred(d.rows["characters"], e.rows["characters"], {"current_version", "archived_at"})
    /\ "archived_at" \in DOMAIN e.tables["characters"].cols
    /\ VersionsTaken(d.rows["personas"], d.rows["persona_versions"], e.rows["persona_versions"])
    /\ PersonasTaken(d.rows["personas"], d.rows["persona_versions"], e.rows["persona_versions"])
    /\ Complete(e.rows["persona_versions"])
    /\ e.tables["persona_versions"] = d.tables["persona_versions"]
    /\ Kindred(d.rows["personas"], e.rows["personas"], {"current_version"})

\* The downgrade of revision 0005 is its three parts in succession.
LEMMA UnbridgeInThree ==
    ASSUME NEW d, WellFormed(d), NEW e, e = Run(Downgrade5, d), e.ok = TRUE
    PROVE  LET x == Run(UnbridgeMemories, d)
               y == Run(UnbridgeCharacters, x)
           IN /\ d.ok = TRUE /\ x.ok = TRUE /\ WellFormed(x) /\ y.ok = TRUE /\ WellFormed(y)
              /\ e = Run(UnbridgePersonas, y)
<1>1. PICK T : Footprint(UnbridgeMemories, T)
  BY UnbridgeScripts DEF Scripted
<1>2. PICK U : Footprint(UnbridgeCharacters, U)
  BY UnbridgeScripts DEF Scripted
<1>3. PICK V : Footprint(UnbridgePersonas, V)
  BY UnbridgeScripts DEF Scripted
<1>4. e = Run((UnbridgeMemories \o UnbridgeCharacters) \o UnbridgePersonas, d)
  BY DEF Downgrade5
<1>5. Run((UnbridgeMemories \o UnbridgeCharacters) \o UnbridgePersonas, d).ok = TRUE
  BY <1>4
<1>6. e = Run(UnbridgePersonas, Run(UnbridgeCharacters, Run(UnbridgeMemories, d)))
  BY <1>1, <1>2, <1>3, <1>4, ThreeConcat DEF Footprint
<1>7. /\ d.ok = TRUE /\ Run(UnbridgeMemories, d).ok = TRUE /\ WellFormed(Run(UnbridgeMemories, d))
      /\ Run(UnbridgeCharacters, Run(UnbridgeMemories, d)).ok = TRUE
      /\ WellFormed(Run(UnbridgeCharacters, Run(UnbridgeMemories, d)))
  BY <1>1, <1>2, <1>3, <1>5, RunThree
<1> QED
  BY <1>6, <1>7

\* The downgrade does not drop the columns that version rows are found by.
LEMMA EndedColumns ==
    /\ {"current_version", "archived_at"} \cap CharacterGone = {}
    /\ {"current_version"} \cap PersonaGone = {}
    /\ "archived_at" \notin CharacterGone \cup {"current_version"}
BY TextMembers DEF CharacterGone, PersonaGone

\* The downgrade of revision 0005 lowers a database of revision 5, rows and
\* definitions.
LEMMA BridgeLowers ==
    ASSUME NEW d, NEW given, RevisionInv(5, d, given), NEW e, e = Run(Downgrade5, d), e.ok = TRUE
    PROVE  Lowered(d, e)
<1> DEFINE x == Run(UnbridgeMemories, d)
           y == Run(UnbridgeCharacters, x)
<1>1. WellFormed(d) /\ VersionsInv(d) /\ RevisedInv(d) /\ MemoryInv(5, d) /\ TablesThere(5, d)
  BY DEF RevisionInv, LegacyRevision
<1>2. /\ "characters" \in DOMAIN d.tables /\ "character_versions" \in DOMAIN d.tables
      /\ "personas" \in DOMAIN d.tables /\ "persona_versions" \in DOMAIN d.tables
      /\ "memories" \in DOMAIN d.tables
  BY <1>1, TablesPresent DEF LegacyRevision, HeadRevision
<1>3. /\ "characters" \in DOMAIN Kept /\ "character_versions" \in DOMAIN Kept
      /\ "personas" \in DOMAIN Kept /\ "persona_versions" \in DOMAIN Kept
      /\ "memories" \in DOMAIN Kept
  BY KeptTables
<1>4. /\ d.ok = TRUE /\ x.ok = TRUE /\ WellFormed(x) /\ y.ok = TRUE /\ WellFormed(y)
      /\ e = Run(UnbridgePersonas, y)
  BY <1>1, UnbridgeInThree
<1>5. /\ \A i \in DOMAIN d.rows.memories : MemoryFields \subseteq DOMAIN d.rows.memories[i]
      /\ "expires_at" \in DOMAIN d.tables.memories.cols
  BY <1>1 DEF MemoryInv, Has
<1>6. /\ \A t \in DOMAIN Kept : t # "memories" => Same(t, d, x)
      /\ "memories" \in DOMAIN x.tables
      /\ DOMAIN x.rows["memories"] = DOMAIN d.rows["memories"]
      /\ \A i \in DOMAIN d.rows["memories"] :
            MemoryUnbridged(d.rows["memories"][i], x.rows["memories"][i])
      /\ "expires_at" \in DOMAIN x.tables["memories"].cols
  BY <1>1, <1>2, <1>4, <1>5, UnbridgedMemories
<1> HIDE DEF x
<1>7. /\ Same("personas", d, x) /\ Same("persona_versions", d, x)
      /\ Same("character_versions", d, x) /\ Same("characters", d, x)
  BY <1>3, <1>6
<1>8. /\ "characters" \in DOMAIN x.tables /\ "character_versions" \in DOMAIN x.tables
      /\ x.tables["characters"] = d.tables["characters"]
      /\ x.rows["characters"] = d.rows["characters"]
      /\ x.rows["character_versions"] = d.rows["character_versions"]
  BY <1>2, <1>7 DEF Same
<1>9. \A k \in DOMAIN x.rows.character_versions : "name" \in DOMAIN x.rows.character_versions[k]
  BY <1>1, <1>8 DEF VersionsInv, Has
<1>10. /\ Unbridged("characters", "character_versions", CharacterGone, x, y)
       /\ VersionsTaken(x.rows["characters"], x.rows["character_versions"], y.rows["character_versions"])
       /\ CharactersTaken(x.rows["characters"], x.rows["character_versions"], y.rows["character_versions"])
  BY <1>4, <1>8, <1>9, UnbridgedCharacters
<1> HIDE DEF y
<1>11. /\ Same("personas", x, y) /\ Same("persona_versions", x, y) /\ Same("memories", x, y)
       /\ "character_versions" \in DOMAIN y.tables
       /\ Ended("characters", CharacterGone, x, y)
  BY <1>3, <1>10 DEF Unbridged
<1>12. Same("personas", d, y) /\ Same("persona_versions", d, y)
  BY <1>7, <1>11, SameTwice
<1>13. /\ "personas" \in DOMAIN y.tables /\ "persona_versions" \in DOMAIN y.tables
       /\ y.rows["personas"] = d.rows["personas"]
       /\ y.rows["persona_versions"] = d.rows["persona_versions"]
       /\ y.tables["persona_versions"] = d.tables["persona_versions"]
  BY <1>2, <1>12 DEF Same
<1>14. /\ \A k \in DOMAIN y.rows.persona_versions : "name" \in DOMAIN y.rows.persona_versions[k]
       /\ Complete(y.rows.persona_versions)
  BY <1>1, <1>13 DEF VersionsInv, Has, Complete
<1>15. /\ Unbridged("personas", "persona_versions", PersonaGone, y, e)
       /\ VersionsTaken(y.rows["personas"], y.rows["persona_versions"], e.rows["persona_versions"])
       /\ PersonasTaken(y.rows["personas"], y.rows["persona_versions"], e.rows["persona_versions"])
       /\ Complete(e.rows["persona_versions"])
  BY <1>4, <1>13, <1>14, UnbridgedPersonas
<1>28. e.tables["persona_versions"] = d.tables["persona_versions"]
  BY <1>13, <1>15 DEF Unbridged
<1>16. /\ Same("characters", y, e) /\ Same("character_versions", y, e) /\ Same("memories", y, e)
       /\ "persona_versions" \in DOMAIN e.tables
       /\ WellFormed(e) /\ Ended("personas", PersonaGone, y, e)
  BY <1>3, <1>15 DEF Unbridged
<1>17. Same("memories", x, e)
  BY <1>11, <1>16, SameTwice
<1>18. /\ "memories" \in DOMAIN e.tables /\ e.rows["memories"] = x.rows["memories"]
       /\ e.tables["memories"] = x.tables["memories"]
  BY <1>6, <1>17 DEF Same
<1>19. "characters" \in DOMAIN y.tables
  BY <1>11 DEF Ended
<1>20. /\ "characters" \in DOMAIN e.tables /\ "character_versions" \in DOMAIN e.tables
       /\ e.rows["characters"] = y.rows["characters"]
       /\ e.tables["characters"] = y.tables["characters"]
       /\ e.rows["character_versions"] = y.rows["character_versions"]
  BY <1>11, <1>16, <1>19 DEF Same
<1>21. Kindred(d.rows["characters"], e.rows["characters"], {"current_version", "archived_at"})
  BY <1>8, <1>11, <1>20, EndedColumns DEF Ended
<1>22. "archived_at" \in DOMAIN e.tables["characters"].cols
  <2>1. "archived_at" \in DOMAIN x.tables["characters"].cols
    BY <1>1, <1>8 DEF VersionsInv
  <2>2. HasColumn(x, "characters", "archived_at", x.tables["characters"].cols["archived_at"])
    BY <1>8, <2>1 DEF HasColumn
  <2>3. HasColumn(y, "characters", "archived_at", x.tables["characters"].cols["archived_at"])
    BY <1>11, <2>2, EndedColumns DEF Ended
  <2> QED
    BY <1>20, <2>3 DEF HasColumn
<1>23. /\ "personas" \in DOMAIN e.tables
       /\ Kindred(d.rows["personas"], e.rows["personas"], {"current_version"})
  BY <1>13, <1>16, EndedColumns DEF Ended
<1>24. /\ VersionsTaken(d.rows["characters"], d.rows["character_versions"], e.rows["character_versions"])
       /\ CharactersTaken(d.rows["characters"], d.rows["character_versions"], e.rows["character_versions"])
  BY <1>8, <1>10, <1>20
<1>25. /\ VersionsTaken(d.rows["personas"], d.rows["persona_versions"], e.rows["persona_versions"])
       /\ PersonasTaken(d.rows["personas"], d.rows["persona_versions"], e.rows["persona_versions"])
  BY <1>13, <1>15
<1>26. DOMAIN Kept \subseteq DOMAIN e.tables
  BY <1>16, <1>18, <1>20, <1>23, KeptTables
<1>27. /\ DOMAIN e.rows["memories"] = DOMAIN d.rows["memories"]
       /\ \A i \in DOMAIN d.rows["memories"] :
             MemoryUnbridged(d.rows["memories"][i], e.rows["memories"][i])
       /\ "expires_at" \in DOMAIN e.tables["memories"].cols
  BY <1>6, <1>18
<1> QED
  BY <1>4, <1>15, <1>16, <1>21, <1>22, <1>23, <1>24, <1>25, <1>26, <1>27, <1>28 DEF Lowered

\* The versions after the downgrade belong to an owner and have a name.
LEMMA NamesLowered ==
    ASSUME NEW cs, NEW vs, NEW ws, VersionsTaken(cs, vs, ws),
           \A i \in DOMAIN cs : cs[i].name \in Names,
           \A k \in DOMAIN vs : /\ k[1] \in DOMAIN cs
                                /\ Has(vs[k], {"name"}) /\ vs[k].name \in Names,
           NEW k \in DOMAIN ws
    PROVE  /\ k[1] \in DOMAIN cs
           /\ Has(ws[k], {"name"}) /\ ws[k].name \in Names
           /\ k \notin DOMAIN vs => k = <<k[1], "1">>
<1>1. CASE k \in DOMAIN vs
  <2>1. k[1] \in DOMAIN cs /\ "name" \in DOMAIN vs[k] /\ vs[k].name \in Names /\ cs[k[1]].name \in Names
    BY <1>1 DEF Has
  <2>2. CASE k[2] # cs[k[1]].current_version
    <3>1. ws[k] = vs[k]
      BY <1>1, <2>2 DEF VersionsTaken
    <3> QED
      BY <1>1, <2>1, <3>1 DEF Has
  <2>3. CASE k[2] = cs[k[1]].current_version
    <3>1. "name" \in DOMAIN ws[k] /\ ws[k].name = cs[k[1]].name
      BY <1>1, <2>3 DEF VersionsTaken
    <3> QED
      BY <1>1, <2>1, <3>1 DEF Has
  <2> QED
    BY <2>2, <2>3
<1>2. CASE k \notin DOMAIN vs
  <2>1. /\ k = <<k[1], "1">> /\ k[1] \in DOMAIN cs
        /\ "name" \in DOMAIN ws[k] /\ ws[k].name = cs[k[1]].name
    BY <1>2 DEF VersionsTaken
  <2> QED
    BY <2>1 DEF Has
<1> QED
  BY <1>1, <1>2

\* Every profile has its current version again.
LEMMA CurrentLowered ==
    ASSUME NEW cs, NEW vs, NEW ws, VersionsTaken(cs, vs, ws),
           NEW C, "current_version" \in C, NEW es, Kindred(cs, es, C),
           \A i \in DOMAIN cs : Has(cs[i], C),
           \A i \in DOMAIN cs : \/ <<i, cs[i].current_version>> \in DOMAIN vs
                               \/ (cs[i].current_version = "1" /\ \A k \in DOMAIN vs : k[1] # i)
    PROVE  /\ DOMAIN es = DOMAIN cs
           /\ \A i \in DOMAIN es : Has(es[i], C) /\ <<i, es[i].current_version>> \in DOMAIN ws
<1>1. DOMAIN es = DOMAIN cs
  BY DEF Kindred
<1>2. ASSUME NEW i \in DOMAIN es PROVE Has(es[i], C) /\ es[i].current_version = cs[i].current_version
  <2>1. i \in DOMAIN cs /\ Alike(cs[i], es[i], C)
    BY <1>1, <1>2 DEF Kindred
  <2>2. C \subseteq DOMAIN cs[i]
    BY <2>1 DEF Has
  <2> QED
    BY <2>1, <2>2 DEF Alike, Has
<1>3. ASSUME NEW i \in DOMAIN es PROVE <<i, es[i].current_version>> \in DOMAIN ws
  <2>1. i \in DOMAIN cs /\ es[i].current_version = cs[i].current_version
    BY <1>1, <1>2, <1>3
  <2>2. CASE <<i, cs[i].current_version>> \in DOMAIN vs
    BY <2>1, <2>2 DEF VersionsTaken
  <2>3. CASE cs[i].current_version = "1" /\ \A k \in DOMAIN vs : k[1] # i
    <3>1. Bare(vs, i)
      BY <2>3 DEF Bare
    <3> QED
      BY <2>1, <2>3, <3>1 DEF VersionsTaken
  <2> QED
    BY <2>1, <2>2, <2>3
<1> QED
  BY <1>1, <1>2, <1>3

\* The versions of the characters keep their columns, and first ones have them.
LEMMA CharacterColumns ==
    ASSUME NEW cs, NEW vs, NEW ws, CharactersTaken(cs, vs, ws),
           \A k \in DOMAIN vs : Has(vs[k], {"name", "summary", "speaking_style"}),
           NEW k \in DOMAIN ws
    PROVE  Has(ws[k], {"name", "summary", "speaking_style"})
<1>1. CASE k \notin DOMAIN vs
  <2>1. ws[k] = FirstCharacterVersion(k[1], cs[k[1]])
    BY <1>1 DEF CharactersTaken
  <2> QED
    BY <2>1 DEF FirstCharacterVersion, Has
<1>2. CASE k \in DOMAIN vs
  <2>1. \/ ws[k] = RenewedCharacterVersion(cs[k[1]], vs[k])
        \/ ws[k] = vs[k]
    BY <1>2 DEF CharactersTaken
  <2>2. DOMAIN ws[k] = DOMAIN vs[k]
    BY <2>1 DEF RenewedCharacterVersion
  <2> QED
    BY <1>2, <2>2 DEF Has
<1> QED
  BY <1>1, <1>2

\* Every character has its current version again.
LEMMA CharactersLowered ==
    ASSUME NEW d, VersionsInv(d), RevisedInv(d), NEW e, Lowered(d, e)
    PROVE  /\ \A k \in DOMAIN e.rows["character_versions"] :
                 /\ k[1] \in DOMAIN e.rows["characters"]
                 /\ Has(e.rows["character_versions"][k], {"name", "summary", "speaking_style"})
                 /\ e.rows["character_versions"][k].name \in Names
           /\ \A c \in DOMAIN e.rows["characters"] :
                 /\ Has(e.rows["characters"][c], {"current_version", "archived_at"})
                 /\ <<c, e.rows["characters"][c].current_version>> \in DOMAIN e.rows["character_versions"]
<1> DEFINE cs == d.rows["characters"]
           vs == d.rows["character_versions"]
           ws == e.rows["character_versions"]
           es == e.rows["characters"]
           C == {"current_version", "archived_at"}
<1>1. VersionsTaken(cs, vs, ws) /\ CharactersTaken(cs, vs, ws) /\ Kindred(cs, es, C)
  BY DEF Lowered
<1>2. /\ \A i \in DOMAIN cs : cs[i].name \in Names
      /\ \A k \in DOMAIN vs : /\ k[1] \in DOMAIN cs /\ vs[k].name \in Names
                             /\ Has(vs[k], {"name", "summary", "speaking_style"})
  BY DEF VersionsInv, RevisedInv
<1>3. \A k \in DOMAIN vs : k[1] \in DOMAIN cs /\ Has(vs[k], {"name"}) /\ vs[k].name \in Names
  BY <1>2 DEF Has
<1>4. \A i \in DOMAIN cs : Has(cs[i], C)
  BY DEF VersionsInv
<1>5. \A i \in DOMAIN cs : \/ <<i, cs[i].current_version>> \in DOMAIN vs
                          \/ (cs[i].current_version = "1" /\ \A k \in DOMAIN vs : k[1] # i)
  BY DEF RevisedInv
<1>6. "current_version" \in C
  OBVIOUS
<1> HIDE DEF cs, vs, ws, es, C
<1>7. /\ DOMAIN es = DOMAIN cs
      /\ \A i \in DOMAIN es : Has(es[i], C) /\ <<i, es[i].current_version>> \in DOMAIN ws
  BY <1>1, <1>4, <1>5, <1>6, CurrentLowered
<1>8. ASSUME NEW k \in DOMAIN ws
      PROVE  /\ k[1] \in DOMAIN es /\ ws[k].name \in Names
             /\ Has(ws[k], {"name", "summary", "speaking_style"})
  <2>1. k[1] \in DOMAIN cs /\ ws[k].name \in Names
    BY <1>1, <1>2, <1>3, <1>8, NamesLowered
  <2>2. Has(ws[k], {"name", "summary", "speaking_style"})
    BY <1>1, <1>2, <1>8, CharacterColumns
  <2> QED
    BY <1>7, <2>1, <2>2
<1> QED
  BY <1>7, <1>8 DEF es, ws, C

\* Every persona has its current version again.
LEMMA PersonasLowered ==
    ASSUME NEW d, VersionsInv(d), RevisedInv(d), NEW e, Lowered(d, e)
    PROVE  /\ \A k \in DOMAIN e.rows["persona_versions"] :
                 /\ k[1] \in DOMAIN e.rows["personas"]
                 /\ Has(e.rows["persona_versions"][k], {"name", "traits", "pronouns", "persona_id"})
                 /\ e.rows["persona_versions"][k].name \in Names
                 /\ e.rows["persona_versions"][k].persona_id = k[1]
           /\ \A p \in DOMAIN e.rows["personas"] :
                 /\ Has(e.rows["personas"][p], {"current_version"})
                 /\ <<p, e.rows["personas"][p].current_version>> \in DOMAIN e.rows["persona_versions"]
<1> DEFINE cs == d.rows["personas"]
           vs == d.rows["persona_versions"]
           ws == e.rows["persona_versions"]
           es == e.rows["personas"]
           C == {"current_version"}
<1>1. VersionsTaken(cs, vs, ws) /\ Kindred(cs, es, C) /\ Complete(ws)
  BY DEF Lowered
<1>2. /\ \A i \in DOMAIN cs : cs[i].name \in Names
      /\ \A k \in DOMAIN vs : k[1] \in DOMAIN cs /\ "name" \in DOMAIN vs[k] /\ vs[k].name \in Names
  BY DEF VersionsInv, RevisedInv, Has
<1>3. \A k \in DOMAIN vs : k[1] \in DOMAIN cs /\ Has(vs[k], {"name"}) /\ vs[k].name \in Names
  BY <1>2 DEF Has
<1>4. \A i \in DOMAIN cs : Has(cs[i], C)
  BY DEF VersionsInv
<1>5. \A i \in DOMAIN cs : \/ <<i, cs[i].current_version>> \in DOMAIN vs
                          \/ (cs[i].current_version = "1" /\ \A k \in DOMAIN vs : k[1] # i)
  BY DEF RevisedInv
<1>6. "current_version" \in C
  OBVIOUS
<1> HIDE DEF cs, vs, ws, es, C
<1>7. /\ DOMAIN es = DOMAIN cs
      /\ \A i \in DOMAIN es : Has(es[i], C) /\ <<i, es[i].current_version>> \in DOMAIN ws
  BY <1>1, <1>4, <1>5, <1>6, CurrentLowered
<1>8. ASSUME NEW k \in DOMAIN ws
      PROVE  /\ k[1] \in DOMAIN es /\ ws[k].name \in Names /\ ws[k].persona_id = k[1]
             /\ Has(ws[k], {"name", "traits", "pronouns", "persona_id"})
  <2>1. k[1] \in DOMAIN cs /\ Has(ws[k], {"name"}) /\ ws[k].name \in Names
    BY <1>1, <1>2, <1>3, <1>8, NamesLowered
  <2>2. {"traits", "pronouns", "persona_id"} \subseteq DOMAIN ws[k] /\ ws[k].persona_id = k[1]
    BY <1>1, <1>8 DEF Complete
  <2> QED
    BY <1>7, <2>1, <2>2 DEF Has
<1> QED
  BY <1>7, <1>8 DEF es, ws, C

\* What holds of the versions of revision 4 holds again.
LEMMA VersionsLowered ==
    ASSUME NEW d, VersionsInv(d), RevisedInv(d), NEW e, Lowered(d, e)
    PROVE  VersionsInv(e) /\ VersionedInv(e)
<1>1. /\ \A k \in DOMAIN e.rows["character_versions"] :
            /\ k[1] \in DOMAIN e.rows["characters"]
            /\ Has(e.rows["character_versions"][k], {"name", "summary", "speaking_style"})
            /\ e.rows["character_versions"][k].name \in Names
      /\ \A c \in DOMAIN e.rows["characters"] :
            /\ Has(e.rows["characters"][c], {"current_version", "archived_at"})
            /\ <<c, e.rows["characters"][c].current_version>> \in DOMAIN e.rows["character_versions"]
  BY CharactersLowered
<1>2. /\ \A k \in DOMAIN e.rows["persona_versions"] :
            /\ k[1] \in DOMAIN e.rows["personas"]
            /\ Has(e.rows["persona_versions"][k], {"name", "traits", "pronouns", "persona_id"})
            /\ e.rows["persona_versions"][k].name \in Names
            /\ e.rows["persona_versions"][k].persona_id = k[1]
      /\ \A p \in DOMAIN e.rows["personas"] :
            /\ Has(e.rows["personas"][p], {"current_version"})
            /\ <<p, e.rows["personas"][p].current_version>> \in DOMAIN e.rows["persona_versions"]
  BY PersonasLowered
<1>3. /\ "archived_at" \in DOMAIN e.tables["characters"].cols
      /\ Key("persona_id", "personas", "cascade") \in e.tables["persona_versions"].keys
  BY DEF Lowered, VersionsInv
<1>4. VersionsInv(e)
  BY <1>1, <1>2, <1>3 DEF VersionsInv
<1>5. VersionedInv(e)
  BY <1>1, <1>2 DEF VersionedInv
<1> QED
  BY <1>4, <1>5

\* So does what holds of its memories, and no original is lost.
LEMMA MemoriesLowered ==
    ASSUME NEW d, MemoryInv(5, d), NEW e, Lowered(d, e)
    PROVE  MemoryInv(LegacyRevision, e) /\ \A given : Retained(d, given) => Retained(e, given)
<1>1. ASSUME NEW i \in DOMAIN e.rows["memories"]
      PROVE  LET q == e.rows["memories"][i]
             IN /\ Has(q, MemoryFields)
                /\ q.scope \in LegacyScopes /\ q.kind \in LegacyKinds /\ q.status \in LegacyStatuses
  <2> DEFINE m == d.rows["memories"][i]
             q == e.rows["memories"][i]
  <2>1. i \in DOMAIN d.rows["memories"] /\ MemoryUnbridged(m, q)
    BY <1>1 DEF Lowered
  <2>2. m.scope \in MemoryScope /\ m.kind \in MemoryKind /\ m.status \in LegacyStatuses \cup {NULL}
    BY <2>1 DEF MemoryInv, LegacyRevision
  <2> HIDE DEF m, q
  <2>3. /\ Has(q, MemoryFields)
        /\ q.scope \in LegacyScopes /\ q.kind \in LegacyKinds /\ q.status \in LegacyStatuses
    BY <2>1, <2>2, ValuesLowered
  <2> QED
    BY <2>3 DEF q
<1>2. "expires_at" \in DOMAIN e.tables["memories"].cols
  BY DEF Lowered
<1>3. MemoryInv(LegacyRevision, e)
  BY <1>1, <1>2 DEF MemoryInv, LegacyRevision
<1>4. ASSUME NEW given, Retained(d, given) PROVE Retained(e, given)
  <2>1. ASSUME NEW i \in DOMAIN given
        PROVE  /\ i \in DOMAIN e.rows["memories"] /\ Has(given[i], {"scope", "kind"})
               /\ Recorded(e.rows["memories"][i], given[i])
    <3> DEFINE m == d.rows["memories"][i]
               q == e.rows["memories"][i]
    <3>1. i \in DOMAIN d.rows["memories"] /\ Recorded(m, given[i]) /\ Has(given[i], {"scope", "kind"})
      BY <1>4, <2>1 DEF Retained
    <3>2. i \in DOMAIN e.rows["memories"] /\ MemoryUnbridged(m, q)
      BY <3>1 DEF Lowered
    <3> HIDE DEF m, q
    <3>3. Recorded(q, given[i])
      BY <3>1, <3>2, RecordedLowered
    <3> QED
      BY <3>1, <3>2, <3>3 DEF q
  <2> QED
    BY <2>1 DEF Retained
<1> QED
  BY <1>3, <1>4

\* The way back of revision 5 keeps what the present application wrote.
LEMMA BridgeReturns ==
    ASSUME NEW d, NEW given, RevisionInv(5, d, given),
           NEW e, e = Run(Downgrade5, d), e.ok = TRUE
    PROVE  RevisionInv(LegacyRevision, e, given)
<1>1. /\ VersionsInv(d) /\ RevisedInv(d) /\ MemoryInv(5, d) /\ Retained(d, given)
  BY DEF RevisionInv, LegacyRevision
<1>2. Lowered(d, e)
  BY BridgeLowers
<1>3. LegacyRevision \in LegacyRevision .. HeadRevision
  BY DEF LegacyRevision, HeadRevision
<1>4. VersionsInv(e) /\ VersionedInv(e)
  BY <1>1, <1>2, VersionsLowered
<1>5. MemoryInv(LegacyRevision, e) /\ Retained(e, given)
  BY <1>1, <1>2, MemoriesLowered
<1>6. WellFormed(e) /\ TablesThere(LegacyRevision, e)
  BY <1>2, <1>3, TablesFound DEF Lowered
<1> QED
  BY <1>4, <1>5, <1>6 DEF RevisionInv, LegacyRevision

-----------------------------------------------------------------------------
(* The other revisions, one after the other.                               *)

\* The tables with rows are left alone.
Carried(d, e) == d.ok = TRUE /\ WellFormed(e) /\ \A t \in DOMAIN Kept : Same(t, d, e)

\* A script that does not touch the tables with rows carries the database over.
LEMMA Untouched ==
    ASSUME NEW a, Footprint(a, {}), NEW d, WellFormed(d), NEW e, e = Run(a, d), e.ok = TRUE
    PROVE  Carried(d, e)
<1>1. PICK T : Footprint(a, T) /\ \A t, x : x \in T => x[1] # t
  OBVIOUS
<1>2. Run(a, d).ok = TRUE
  OBVIOUS
<1>3. /\ d.ok = TRUE /\ WellFormed(Run(a, d))
      /\ \A t \in DOMAIN Kept : (\A x \in T : x[1] # t) => Same(t, d, Run(a, d))
  BY <1>1, <1>2, RunApart
<1> QED
  BY <1>1, <1>3 DEF Carried

\* The rows and the definition of table t are those of before.
Stays(t, d, e) ==
    t \in DOMAIN d.tables /\ t \in DOMAIN e.tables /\ e.tables[t] = d.tables[t] /\ e.rows[t] = d.rows[t]

\* What holds of profiles holds of the same profiles.
LEMMA ProfilesCarried ==
    ASSUME NEW d, NEW e, \A t \in Profiled : Stays(t, d, e)
    PROVE  /\ VersionsInv(d) => VersionsInv(e)
           /\ VersionedInv(d) => VersionedInv(e)
           /\ RevisedInv(d) => RevisedInv(e)
<1>1. /\ e.rows.characters = d.rows.characters /\ e.tables.characters = d.tables.characters
      /\ e.rows.character_versions = d.rows.character_versions
      /\ e.rows.personas = d.rows.personas /\ e.tables.personas = d.tables.personas
      /\ e.rows.persona_versions = d.rows.persona_versions
      /\ e.tables.persona_versions = d.tables.persona_versions
  BY DEF Stays, Profiled
<1>2. VersionsInv(d) => VersionsInv(e)
  BY <1>1 DEF VersionsInv
<1>3. VersionedInv(d) => VersionedInv(e)
  BY <1>1 DEF VersionedInv
<1>4. RevisedInv(d) => RevisedInv(e)
  BY <1>1 DEF RevisedInv, DefaultOf
<1> QED
  BY <1>2, <1>3, <1>4

\* What holds of memories after revision 4 holds of the same memories.
LEMMA MemoriesCarried ==
    ASSUME NEW d, NEW e, Stays("memories", d, e), NEW r \in Nat, NEW q \in Nat,
           r > LegacyRevision, q > LegacyRevision, MemoryInv(r, d)
    PROVE  MemoryInv(q, e) /\ \A given : Retained(d, given) => Retained(e, given)
<1>1. e.rows.memories = d.rows.memories /\ e.tables.memories = d.tables.memories
  BY DEF Stays
<1>2. r # LegacyRevision /\ q # LegacyRevision
  BY DEF LegacyRevision
<1>3. MemoryInv(q, e)
  BY <1>1, <1>2 DEF MemoryInv, DefaultOf
<1> QED
  BY <1>1, <1>3 DEF Retained

\* Between the revisions from 5 on the invariant is carried over.
LEMMA PresentCarried ==
    ASSUME NEW d, NEW e, Carried(d, e), NEW r \in 5 .. HeadRevision, NEW q \in 5 .. HeadRevision,
           NEW given, RevisionInv(r, d, given)
    PROVE  RevisionInv(q, e, given)
<1>1. /\ r >= 3 /\ r >= LegacyRevision /\ r > LegacyRevision /\ r \in Nat /\ r \in 0 .. HeadRevision
      /\ q >= 3 /\ q >= LegacyRevision /\ q > LegacyRevision /\ q \in Nat /\ q \notin {3, LegacyRevision}
      /\ q \in LegacyRevision .. HeadRevision
  BY DEF LegacyRevision, HeadRevision
<1>2. /\ WellFormed(d) /\ TablesThere(r, d) /\ VersionsInv(d) /\ RevisedInv(d)
      /\ MemoryInv(r, d) /\ Retained(d, given)
  BY <1>1 DEF RevisionInv
<1>3. /\ "characters" \in DOMAIN d.tables /\ "character_versions" \in DOMAIN d.tables
      /\ "personas" \in DOMAIN d.tables /\ "persona_versions" \in DOMAIN d.tables
      /\ "memories" \in DOMAIN d.tables
  BY <1>1, <1>2, TablesPresent
<1>4. DOMAIN Kept \subseteq DOMAIN d.tables
  BY <1>3, KeptTables
<1>5. \A t \in DOMAIN Kept : Stays(t, d, e)
  BY <1>4 DEF Carried, Same, Stays
<1>6. DOMAIN Kept \subseteq DOMAIN e.tables
  BY <1>5 DEF Stays
<1>7. TablesThere(q, e) /\ WellFormed(e)
  BY <1>1, <1>6, TablesFound DEF Carried
<1>8. VersionsInv(e) /\ RevisedInv(e)
  <2>1. \A t \in Profiled : Stays(t, d, e)
    BY <1>5, KeptTables DEF Profiled
  <2> QED
    BY <1>2, <2>1, ProfilesCarried
<1>9. MemoryInv(q, e) /\ Retained(e, given)
  <2>1. Stays("memories", d, e)
    BY <1>5, KeptTables
  <2> QED
    BY <1>1, <1>2, <2>1, MemoriesCarried
<1> QED
  BY <1>1, <1>7, <1>8, <1>9 DEF RevisionInv

\* So it is below revision 3.
LEMMA EarlyCarried ==
    ASSUME NEW d, NEW e, Carried(d, e), NEW r \in 0 .. 2, NEW q \in 0 .. 2,
           NEW given, RevisionInv(r, d, given)
    PROVE  RevisionInv(q, e, given)
<1>1. /\ ~(r >= 3) /\ ~(r >= LegacyRevision)
      /\ ~(q >= 3) /\ ~(q >= LegacyRevision) /\ ~(q > LegacyRevision) /\ q \notin {3, LegacyRevision}
  BY DEF LegacyRevision
<1>2. TablesThere(r, d)
  BY DEF RevisionInv
<1>3. "memories" \notin DOMAIN d.tables /\ \A t \in Profiled : t \notin DOMAIN d.tables
  BY <1>1, <1>2 DEF TablesThere
<1>4. Profiled \subseteq DOMAIN Kept /\ "memories" \in DOMAIN Kept
  BY KeptTables DEF Profiled
<1>5. "memories" \notin DOMAIN e.tables /\ \A t \in Profiled : t \notin DOMAIN e.tables
  BY <1>3, <1>4 DEF Carried, Same
<1>6. TablesThere(q, e) /\ WellFormed(e)
  BY <1>1, <1>5 DEF TablesThere, Carried
<1> QED
  BY <1>1, <1>6 DEF RevisionInv

\* Revision 3 founds the tables of profiles, without rows.
LEMMA ProfilesFounded ==
    ASSUME NEW d, NEW given, RevisionInv(2, d, given), NEW e, e = Run(Upgrade3, d), e.ok = TRUE
    PROVE  RevisionInv(3, e, given)
<1> DEFINE T == Building(Profiled)
<1>1. WellFormed(d) /\ "memories" \notin DOMAIN d.tables
  BY DEF RevisionInv, TablesThere, LegacyRevision
<1>2. Footprint(Upgrade3, T) /\ Profiled \subseteq DOMAIN Kept /\ "memories" \in DOMAIN Kept
  BY Revision3, KeptTables DEF Profiled
<1>3. /\ \A t \in Profiled : Founds(T, t)
      /\ \A x \in T : x[1] # "memories"
  <2>1. "memories" \notin Profiled
    BY DEF Profiled
  <2> QED
    BY <2>1, BuildingParts
<1> HIDE DEF T
<1>4. Run(Upgrade3, d).ok = TRUE
  OBVIOUS
<1>5. WellFormed(e) /\ "memories" \notin DOMAIN e.tables
  <2>1. Same("memories", d, Run(Upgrade3, d)) /\ WellFormed(Run(Upgrade3, d))
    BY <1>1, <1>2, <1>3, <1>4, RunApart
  <2> QED
    BY <1>1, <2>1 DEF Same
<1>6. /\ Characters \in Members(Upgrade3) /\ CharacterVersions \in Members(Upgrade3)
      /\ Personas \in Members(Upgrade3) /\ PersonaVersions \in Members(Upgrade3)
  BY Revision3
<1>7. /\ Creates(Characters, "characters") /\ Creates(CharacterVersions, "character_versions")
      /\ Creates(Personas, "personas") /\ Creates(PersonaVersions, "persona_versions")
  BY DEF Creates, Characters, CharacterVersions, Personas, PersonaVersions, CreateTable
<1>8. ASSUME NEW t \in Profiled, NEW s \in Members(Upgrade3), Creates(s, t)
      PROVE  Founded(e, t, s.def)
  BY <1>1, <1>2, <1>3, <1>4, <1>8, RunFounds
<1>9. /\ Founded(e, "characters", Characters.def)
      /\ Founded(e, "character_versions", CharacterVersions.def)
      /\ Founded(e, "personas", Personas.def)
      /\ Founded(e, "persona_versions", PersonaVersions.def)
  BY <1>6, <1>7, <1>8 DEF Profiled
<1>10. TablesThere(3, e)
  BY <1>5, <1>9 DEF TablesThere, Founded, Profiled, LegacyRevision
<1>11. /\ DOMAIN e.rows.characters = {} /\ DOMAIN e.rows.character_versions = {}
       /\ DOMAIN e.rows.personas = {} /\ DOMAIN e.rows.persona_versions = {}
  BY <1>9 DEF Founded
<1>12. "archived_at" \in DOMAIN e.tables.characters.cols
  BY <1>9, NewColumns DEF Founded
<1>13. Key("persona_id", "personas", "cascade") \in e.tables.persona_versions.keys
  <2>1. Key("persona_id", "personas", "cascade") \in PersonaVersions.def.keys
    BY DEF PersonaVersions, CreateTable
  <2> QED
    BY <1>9, <2>1 DEF Founded
<1>14. VersionsInv(e) /\ VersionedInv(e)
  BY <1>11, <1>12, <1>13 DEF VersionsInv, VersionedInv
<1> QED
  BY <1>5, <1>10, <1>14 DEF RevisionInv, LegacyRevision

\* Its downgrade removes them.
LEMMA ProfilesRazed ==
    ASSUME NEW d, NEW given, RevisionInv(3, d, given), NEW e, e = Run(Downgrade3, d), e.ok = TRUE
    PROVE  RevisionInv(2, e, given)
<1> DEFINE T == Razing(Profiled)
<1>1. WellFormed(d) /\ "memories" \notin DOMAIN d.tables
  BY DEF RevisionInv, TablesThere, LegacyRevision
<1>2. Footprint(Downgrade3, T) /\ Profiled \subseteq DOMAIN Kept /\ "memories" \in DOMAIN Kept
  BY Revision3, KeptTables DEF Profiled
<1>3. /\ \A t \in Profiled : \A x \in T : x[1] = t => x[2] # "create"
      /\ \A x \in T : x[1] # "memories"
  <2>1. "memories" \notin Profiled
    BY DEF Profiled
  <2> QED
    BY <2>1, BuildingParts
<1> HIDE DEF T
<1>4. Run(Downgrade3, d).ok = TRUE
  OBVIOUS
<1>5. WellFormed(e) /\ "memories" \notin DOMAIN e.tables
  <2>1. Same("memories", d, Run(Downgrade3, d)) /\ WellFormed(Run(Downgrade3, d))
    BY <1>1, <1>2, <1>3, <1>4, RunApart
  <2> QED
    BY <1>1, <2>1 DEF Same
<1>6. ASSUME NEW t \in Profiled PROVE t \notin DOMAIN e.tables
  <2>1. DropTable(t) \in Members(Downgrade3) /\ Drops(DropTable(t), t)
    BY Revision3 DEF Drops, DropTable
  <2>2. t \in DOMAIN Kept /\ \A x \in T : x[1] = t => x[2] # "create"
    BY <1>2, <1>3
  <2>3. \E s \in Members(Downgrade3) : Drops(s, t)
    BY <2>1
  <2> QED
    BY <1>1, <1>2, <1>4, <2>2, <2>3, RunRazes
<1>7. TablesThere(2, e)
  BY <1>5, <1>6 DEF TablesThere, LegacyRevision
<1> QED
  BY <1>5, <1>7 DEF RevisionInv, LegacyRevision

\* Revision 4 leaves the profiles alone, up and down.
LEMMA ProfilesSpared ==
    ASSUME NEW d, WellFormed(d), TablesThere(3, d) \/ TablesThere(LegacyRevision, d),
           NEW a, Footprint(a, Building({"memories"})) \/ Footprint(a, Razing({"memories"})),
           NEW e, e = Run(a, d), e.ok = TRUE
    PROVE  WellFormed(e) /\ \A t \in Profiled : Stays(t, d, e)
<1>1. PICK T : Footprint(a, T) /\ \A x \in T : x[1] = "memories"
  <2>1. \A x \in Building({"memories"}) : x[1] = "memories"
    BY DEF Building
  <2>2. \A x \in Razing({"memories"}) : x[1] = "memories"
    BY DEF Razing
  <2> QED
    BY <2>1, <2>2, Zenon
<1>2. Run(a, d).ok = TRUE
  OBVIOUS
<1>3. WellFormed(e) /\ \A t \in DOMAIN Kept : t # "memories" => Same(t, d, e)
  BY <1>1, <1>2, RunApart
<1>4. \A t \in Profiled : t \in DOMAIN Kept /\ t # "memories"
  BY KeptTables DEF Profiled
<1>5. \A t \in Profiled : t \in DOMAIN d.tables
  BY DEF TablesThere, LegacyRevision
<1> QED
  BY <1>3, <1>4, <1>5 DEF Same, Stays

\* Revision 4 founds the table of memories, without rows.
LEMMA MemoriesFounded ==
    ASSUME NEW d, NEW given, RevisionInv(3, d, given), NEW e, e = Run(Upgrade4, d), e.ok = TRUE
    PROVE  RevisionInv(LegacyRevision, e, <<>>)
<1> DEFINE T == Building({"memories"})
<1>1. WellFormed(d) /\ TablesThere(3, d) /\ VersionsInv(d) /\ VersionedInv(d)
  BY DEF RevisionInv, LegacyRevision
<1>2. Footprint(Upgrade4, T) /\ "memories" \in DOMAIN Kept /\ Founds(T, "memories")
  BY Revision4, KeptTables, BuildingParts
<1>3. WellFormed(e) /\ \A t \in Profiled : Stays(t, d, e)
  BY <1>1, <1>2, ProfilesSpared
<1> HIDE DEF T
<1>4. Run(Upgrade4, d).ok = TRUE
  OBVIOUS
<1>5. Memories \in Members(Upgrade4) /\ Creates(Memories, "memories")
  BY Revision4 DEF Creates, Memories, CreateTable
<1>6. Founded(e, "memories", Memories.def)
  BY <1>1, <1>2, <1>4, <1>5, RunFounds
<1>7. TablesThere(LegacyRevision, e)
  BY <1>3, <1>6 DEF TablesThere, Founded, Stays, LegacyRevision
<1>8. VersionsInv(e) /\ VersionedInv(e)
  BY <1>1, <1>3, ProfilesCarried
<1>9. DOMAIN e.rows.memories = {} /\ "expires_at" \in DOMAIN e.tables.memories.cols
  BY <1>6, NewColumns DEF Founded
<1>10. MemoryInv(LegacyRevision, e)
  BY <1>9 DEF MemoryInv, LegacyRevision
<1>11. Retained(e, <<>>)
  BY DEF Retained
<1> QED
  BY <1>3, <1>7, <1>8, <1>10, <1>11 DEF RevisionInv, LegacyRevision

\* Its downgrade removes it.
LEMMA MemoriesRazed ==
    ASSUME NEW d, NEW given, RevisionInv(LegacyRevision, d, given),
           NEW e, e = Run(Downgrade4, d), e.ok = TRUE
    PROVE  RevisionInv(3, e, given)
<1> DEFINE T == Razing({"memories"})
<1>1. WellFormed(d) /\ TablesThere(LegacyRevision, d) /\ VersionsInv(d) /\ VersionedInv(d)
  BY DEF RevisionInv, LegacyRevision
<1>2. /\ Footprint(Downgrade4, T) /\ "memories" \in DOMAIN Kept
      /\ \A x \in T : x[1] = "memories" => x[2] # "create"
  BY Revision4, KeptTables, BuildingParts
<1>3. WellFormed(e) /\ \A t \in Profiled : Stays(t, d, e)
  BY <1>1, <1>2, ProfilesSpared
<1> HIDE DEF T
<1>4. Run(Downgrade4, d).ok = TRUE
  OBVIOUS
<1>5. \E s \in Members(Downgrade4) : Drops(s, "memories")
  BY Revision4 DEF Drops, DropTable
<1>6. "memories" \notin DOMAIN e.tables
  BY <1>1, <1>2, <1>4, <1>5, RunRazes
<1>7. TablesThere(3, e)
  BY <1>3, <1>6 DEF TablesThere, Stays, LegacyRevision
<1>8. VersionsInv(e) /\ VersionedInv(e)
  BY <1>1, <1>3, ProfilesCarried
<1> QED
  BY <1>3, <1>7, <1>8 DEF RevisionInv, LegacyRevision

\* One revision up: a database that the application was told is empty of
\* memories before revision 4 makes their table.
LEMMA StepUp ==
    ASSUME NEW v \in 1 .. HeadRevision, NEW d, NEW given, RevisionInv(v - 1, d, given),
           v <= LegacyRevision => given = <<>>,
           NEW e, e = Run(Upgrades[v], d), e.ok = TRUE
    PROVE  RevisionInv(v, e, given)
<1>1. v \in 1 .. 7
  BY DEF HeadRevision
<1>2. WellFormed(d)
  BY DEF RevisionInv
<1>3. ASSUME v \in {1, 2, 6, 7} PROVE Carried(d, e)
  <2>1. /\ Upgrades[1] = Upgrade1 /\ Upgrades[2] = Upgrade2
        /\ Upgrades[6] = Upgrade6 /\ Upgrades[7] = Upgrade7
    BY DEF Upgrades
  <2>2. Footprint(Upgrades[v], {})
    BY <1>3, <2>1, Revision1, Revision2, Revision6, Revision7
  <2> QED
    BY <1>2, <2>2, Untouched
<1>4. CASE v \in {1, 2}
  <2>1. v \in 0 .. 2 /\ v - 1 \in 0 .. 2
    BY <1>4
  <2> QED
    BY <1>3, <1>4, <2>1, EarlyCarried
<1>5. CASE v = 3
  <2>1. Upgrades[3] = Upgrade3 /\ v - 1 = 2
    BY <1>5 DEF Upgrades
  <2> QED
    BY <1>5, <2>1, ProfilesFounded
<1>6. CASE v = 4
  <2>1. Upgrades[4] = Upgrade4 /\ v - 1 = 3 /\ v = LegacyRevision /\ given = <<>>
    BY <1>6 DEF Upgrades, LegacyRevision
  <2>2. RevisionInv(3, d, given) /\ e = Run(Upgrade4, d)
    BY <1>6, <2>1
  <2>3. RevisionInv(LegacyRevision, e, <<>>)
    BY <2>2, MemoriesFounded
  <2> QED
    BY <2>1, <2>3
<1>7. CASE v = 5
  <2>1. Upgrades[5] = Upgrade5 /\ v - 1 = LegacyRevision
    BY <1>7 DEF Upgrades, LegacyRevision
  <2>2. RevisionInv(LegacyRevision, d, given) /\ e = Run(Upgrade5, d)
    BY <1>7, <2>1
  <2> QED
    BY <1>7, <2>2, BridgeKeeps
<1>8. CASE v \in {6, 7}
  <2>1. v \in 5 .. HeadRevision /\ v - 1 \in 5 .. HeadRevision
    BY <1>8 DEF HeadRevision
  <2> QED
    BY <1>3, <1>8, <2>1, PresentCarried
<1> QED
  BY <1>1, <1>4, <1>5, <1>6, <1>7, <1>8

\* One downgrade leads from the invariant of its revision to that of the one
\* below.
LEMMA StepDown ==
    ASSUME NEW v \in 1 .. HeadRevision, NEW d, NEW given, RevisionInv(v, d, given),
           NEW e, e = Run(Downgrades[v], d), e.ok = TRUE
    PROVE  RevisionInv(v - 1, e, given)
<1>1. v \in 1 .. 7
  BY DEF HeadRevision
<1>2. WellFormed(d)
  BY DEF RevisionInv
<1>3. ASSUME v \in {1, 2, 6, 7} PROVE Carried(d, e)
  <2>1. /\ Downgrades[1] = Downgrade1 /\ Downgrades[2] = Downgrade2
        /\ Downgrades[6] = Downgrade6 /\ Downgrades[7] = Downgrade7
    BY DEF Downgrades
  <2>2. Footprint(Downgrades[v], {})
    BY <1>3, <2>1, Revision1, Revision2, Revision6, Revision7
  <2> QED
    BY <1>2, <2>2, Untouched
<1>4. CASE v \in {1, 2}
  <2>1. v \in 0 .. 2 /\ v - 1 \in 0 .. 2
    BY <1>4
  <2> QED
    BY <1>3, <1>4, <2>1, EarlyCarried
<1>5. CASE v = 3
  <2>1. Downgrades[3] = Downgrade3 /\ v - 1 = 2
    BY <1>5 DEF Downgrades
  <2> QED
    BY <1>5, <2>1, ProfilesRazed
<1>6. CASE v = 4
  <2>1. Downgrades[4] = Downgrade4 /\ v - 1 = 3 /\ v = LegacyRevision
    BY <1>6 DEF Downgrades, LegacyRevision
  <2>2. RevisionInv(LegacyRevision, d, given) /\ e = Run(Downgrade4, d)
    BY <1>6, <2>1
  <2> QED
    BY <2>1, <2>2, MemoriesRazed
<1>7. CASE v = 5
  <2>1. Downgrades[5] = Downgrade5 /\ v - 1 = LegacyRevision
    BY <1>7 DEF Downgrades, LegacyRevision
  <2>2. RevisionInv(5, d, given) /\ e = Run(Downgrade5, d)
    BY <1>7, <2>1
  <2> QED
    BY <2>1, <2>2, BridgeReturns
<1>8. CASE v \in {6, 7}
  <2>1. v \in 5 .. HeadRevision /\ v - 1 \in 5 .. HeadRevision
    BY <1>8 DEF HeadRevision
  <2> QED
    BY <1>3, <1>8, <2>1, PresentCarried
<1> QED
  BY <1>1, <1>4, <1>5, <1>6, <1>7, <1>8

\* A script runs to its end only on a database without a refusal.
LEMMA OkBefore ==
    ASSUME NEW a, NEW d, IsDatabase(d), Run(a, d).ok = TRUE
    PROVE  d.ok = TRUE
<1>1. CASE d.ok = FALSE
  <2>1. Run(a, d) = d
    BY <1>1 DEF Run
  <2> QED
    BY <1>1, <2>1
<1>2. d.ok \in BOOLEAN
  BY DEF IsDatabase
<1> QED
  BY <1>1, <1>2

\* A database that, unless a statement was refused, is one of revision r.
Sane(r, d, given) == IsDatabase(d) /\ (d.ok = TRUE => RevisionInv(r, d, given))

\* An upgrade keeps a database sane, refused or not.
LEMMA SaneUp ==
    ASSUME NEW v \in 1 .. HeadRevision, NEW d, NEW given, Sane(v - 1, d, given),
           v <= LegacyRevision => given = <<>>
    PROVE  Sane(v, Run(Upgrades[v], d), given)
<1> DEFINE e == Run(Upgrades[v], d)
<1>1. Scripted(Upgrades[v])
  BY AllScripts
<1>2. IsDatabase(d)
  BY DEF Sane
<1>3. IsDatabase(e)
  BY <1>1, <1>2, RunDatabase
<1>4. ASSUME e.ok = TRUE PROVE RevisionInv(v, e, given)
  <2>1. Run(Upgrades[v], d).ok = TRUE
    BY <1>4
  <2>2. d.ok = TRUE
    BY <1>2, <2>1, OkBefore
  <2>3. RevisionInv(v - 1, d, given)
    BY <2>2 DEF Sane
  <2> QED
    BY <1>4, <2>3, StepUp
<1> HIDE DEF e
<1> QED
  BY <1>3, <1>4 DEF Sane, e

\* So does a downgrade.
LEMMA SaneDown ==
    ASSUME NEW v \in 1 .. HeadRevision, NEW d, NEW given, Sane(v, d, given)
    PROVE  Sane(v - 1, Run(Downgrades[v], d), given)
<1> DEFINE e == Run(Downgrades[v], d)
<1>1. Scripted(Downgrades[v])
  BY AllScripts
<1>2. IsDatabase(d)
  BY DEF Sane
<1>3. IsDatabase(e)
  BY <1>1, <1>2, RunDatabase
<1>4. ASSUME e.ok = TRUE PROVE RevisionInv(v - 1, e, given)
  <2>1. Run(Downgrades[v], d).ok = TRUE
    BY <1>4
  <2>2. d.ok = TRUE
    BY <1>2, <2>1, OkBefore
  <2>3. RevisionInv(v, d, given)
    BY <2>2 DEF Sane
  <2> QED
    BY <1>4, <2>3, StepDown
<1> HIDE DEF e
<1> QED
  BY <1>3, <1>4 DEF Sane, e

AllSame(d, e) == \A t \in DOMAIN Kept : Same(t, d, e)

\* Tables that two steps leave the same are the same.
LEMMA AllSameTwice ==
    ASSUME NEW d, NEW x, NEW e, AllSame(d, x), AllSame(x, e)
    PROVE  AllSame(d, e)
BY SameTwice DEF AllSame

\* The revisions after the bridge leave the tables with rows alone.
LEMMA PresentSteps ==
    ASSUME NEW v \in 6 .. HeadRevision, NEW d, WellFormed(d)
    PROVE  /\ Run(Upgrades[v], d).ok = TRUE => AllSame(d, Run(Upgrades[v], d))
           /\ Run(Downgrades[v], d).ok = TRUE => AllSame(d, Run(Downgrades[v], d))
<1>1. /\ Upgrades[6] = Upgrade6 /\ Upgrades[7] = Upgrade7
      /\ Downgrades[6] = Downgrade6 /\ Downgrades[7] = Downgrade7
  BY DEF Upgrades, Downgrades
<1>2. v \in {6, 7}
  BY DEF HeadRevision
<1>3. Footprint(Upgrades[v], {}) /\ Footprint(Downgrades[v], {})
  BY <1>1, <1>2, Revision6, Revision7
<1> QED
  BY <1>3, Untouched DEF Carried, AllSame

\* A whole upgrade keeps a database sane.
LEMMA UpgradeSane ==
    ASSUME NEW r \in 0 .. HeadRevision, NEW target \in r .. HeadRevision,
           NEW d, NEW given, Sane(r, d, given), r < LegacyRevision => given = <<>>
    PROVE  Sane(target, UpgradeFrom(d, r, target), given)
<1>1. r \in Nat /\ target \in Nat /\ r <= target /\ target <= HeadRevision /\ r \in 0 .. target
  BY DEF HeadRevision
<1>9. PICK at : Ascent(at, d, r, target)
  BY <1>1, UpgradeThrough
<1>2. /\ at[r] = d
      /\ \A v \in r + 1 .. target : at[v] = Run(Upgrades[v], at[v - 1])
      /\ UpgradeFrom(d, r, target) = at[target]
  BY <1>9 DEF Ascent
<1> DEFINE S == {v \in Nat : Sane(v, at[v], given)}
<1>3. r \in S
  BY <1>1, <1>2
<1>4. \A v \in r + 1 .. target : v - 1 \in S => v \in S
  <2> SUFFICES ASSUME NEW v \in r + 1 .. target, v - 1 \in S PROVE v \in S
    OBVIOUS
  <2>1. v \in 1 .. HeadRevision /\ v \in Nat
    BY <1>1 DEF HeadRevision
  <2>2. v <= LegacyRevision => given = <<>>
    BY DEF LegacyRevision
  <2>3. Sane(v - 1, at[v - 1], given)
    OBVIOUS
  <2>4. Sane(v, Run(Upgrades[v], at[v - 1]), given)
    BY <2>1, <2>2, <2>3, SaneUp
  <2> QED
    BY <1>2, <2>1, <2>4
<1> HIDE DEF S
<1>5. target \in S
  BY <1>1, <1>3, <1>4, Since
<1> QED
  BY <1>2, <1>5 DEF S

\* So does a whole downgrade.
LEMMA DowngradeSane ==
    ASSUME NEW r \in 0 .. HeadRevision, NEW target \in 0 .. r,
           NEW d, NEW given, Sane(r, d, given)
    PROVE  Sane(target, DowngradeFrom(d, r, target), given)
<1>1. /\ r \in Nat /\ target \in Nat /\ target <= r /\ r <= HeadRevision
      /\ r - target \in Nat /\ 0 \in 0 .. r - target /\ r - 0 = r /\ r - (r - target) = target
  BY DEF HeadRevision
<1>9. PICK at : Descent(at, d, r, target)
  BY <1>1, DowngradeThrough
<1>2. /\ at[0] = d
      /\ \A i \in 1 .. r - target : at[i] = Run(Downgrades[r - i + 1], at[i - 1])
      /\ DowngradeFrom(d, r, target) = at[r - target]
  BY <1>9 DEF Descent
<1> DEFINE S == {i \in Nat : Sane(r - i, at[i], given)}
<1>3. 0 \in S
  BY <1>1, <1>2
<1>4. \A i \in 0 + 1 .. r - target : i - 1 \in S => i \in S
  <2> SUFFICES ASSUME NEW i \in 0 + 1 .. r - target, i - 1 \in S PROVE i \in S
    OBVIOUS
  <2> DEFINE v == r - i + 1
  <2>1. /\ v \in 1 .. HeadRevision /\ i \in Nat /\ i \in 1 .. r - target
        /\ r - (i - 1) = v /\ r - i = v - 1
    BY <1>1 DEF HeadRevision
  <2>2. Sane(r - (i - 1), at[i - 1], given)
    OBVIOUS
  <2>3. at[i] = Run(Downgrades[v], at[i - 1])
    BY <1>2, <2>1
  <2> HIDE DEF v
  <2>4. Sane(v, at[i - 1], given)
    BY <2>1, <2>2
  <2>5. Sane(v - 1, Run(Downgrades[v], at[i - 1]), given)
    BY <2>1, <2>4, SaneDown
  <2> QED
    BY <2>1, <2>3, <2>5
<1> HIDE DEF S
<1>5. r - target \in S
  BY <1>1, <1>3, <1>4, Since
<1>6. Sane(r - (r - target), at[r - target], given)
  BY <1>5 DEF S
<1> QED
  BY <1>1, <1>2, <1>6

\* An upgrade across the bridge leaves what the bridge made of the rows.
LEMMA UpgradeBridges ==
    ASSUME NEW d, NEW given, Sane(LegacyRevision, d, given),
           NEW target \in 5 .. HeadRevision,
           UpgradeFrom(d, LegacyRevision, target).ok = TRUE
    PROVE  LET x == Run(Upgrade5, d)
           IN x.ok = TRUE /\ AllSame(x, UpgradeFrom(d, LegacyRevision, target))
<1>1. /\ LegacyRevision \in Nat /\ target \in Nat /\ LegacyRevision <= target
      /\ target <= HeadRevision /\ 5 \in 0 .. target /\ LegacyRevision = 4
      /\ 5 \in LegacyRevision + 1 .. target
  BY DEF HeadRevision, LegacyRevision
<1>9. PICK at : Ascent(at, d, LegacyRevision, target)
  BY <1>1, UpgradeThrough
<1>2. /\ at[LegacyRevision] = d
      /\ \A v \in LegacyRevision + 1 .. target : at[v] = Run(Upgrades[v], at[v - 1])
      /\ UpgradeFrom(d, LegacyRevision, target) = at[target]
  BY <1>9 DEF Ascent
<1>3. Upgrades[5] = Upgrade5
  BY DEF Upgrades
<1>4. at[5] = Run(Upgrade5, d) /\ at[5] = Run(Upgrades[5], d)
  BY <1>1, <1>2, <1>3
<1> DEFINE S == {v \in Nat : /\ Sane(v, at[v], given)
                             /\ at[v].ok = TRUE => at[5].ok = TRUE /\ AllSame(at[5], at[v])}
<1>5. 5 \in S
  <2>1. 5 \in 1 .. HeadRevision /\ 5 - 1 = LegacyRevision /\ ~(5 <= LegacyRevision)
    BY DEF HeadRevision, LegacyRevision
  <2>2. Sane(5, Run(Upgrades[5], d), given)
    BY <2>1, SaneUp
  <2>3. AllSame(at[5], at[5])
    BY DEF AllSame, Same
  <2> QED
    BY <1>4, <2>2, <2>3
<1>6. \A v \in 5 + 1 .. target : v - 1 \in S => v \in S
  <2> SUFFICES ASSUME NEW v \in 5 + 1 .. target, v - 1 \in S PROVE v \in S
    OBVIOUS
  <2> DEFINE x == at[v - 1]
             y == at[v]
  <2>1. /\ v \in 1 .. HeadRevision /\ v \in 6 .. HeadRevision /\ v \in Nat /\ ~(v <= LegacyRevision)
        /\ v \in LegacyRevision + 1 .. target
    BY <1>1 DEF HeadRevision, LegacyRevision
  <2>2. /\ Sane(v - 1, x, given)
        /\ x.ok = TRUE => at[5].ok = TRUE /\ AllSame(at[5], x)
    OBVIOUS
  <2>3. y = Run(Upgrades[v], x)
    BY <1>2, <2>1
  <2> HIDE DEF x, y, S
  <2>4. Sane(v, y, given)
    BY <2>1, <2>2, <2>3, SaneUp
  <2>5. ASSUME y.ok = TRUE PROVE at[5].ok = TRUE /\ AllSame(at[5], y)
    <3>1. IsDatabase(x) /\ Run(Upgrades[v], x).ok = TRUE
      BY <2>2, <2>3, <2>5 DEF Sane
    <3>2. x.ok = TRUE
      BY <3>1, OkBefore
    <3>3. WellFormed(x)
      BY <2>2, <3>2 DEF Sane, RevisionInv
    <3>4. AllSame(x, y)
      BY <2>1, <2>3, <3>1, <3>3, PresentSteps
    <3> QED
      BY <2>2, <3>2, <3>4, AllSameTwice
  <2> QED
    BY <2>1, <2>4, <2>5 DEF S, y
<1> HIDE DEF S
<1>7. target \in S
  BY <1>1, <1>5, <1>6, Since
<1> QED
  BY <1>2, <1>4, <1>7 DEF S

\* A downgrade across the bridge starts from the rows the application left.
LEMMA DowngradeBridges ==
    ASSUME NEW r \in 5 .. HeadRevision, NEW d, NEW given, Sane(r, d, given),
           DowngradeFrom(d, r, LegacyRevision).ok = TRUE
    PROVE  \E x : /\ RevisionInv(5, x, given) /\ AllSame(d, x)
                  /\ DowngradeFrom(d, r, LegacyRevision) = Run(Downgrade5, x)
<1>1. /\ r \in Nat /\ LegacyRevision \in Nat /\ LegacyRevision <= r /\ r <= HeadRevision
      /\ r - 5 \in Nat /\ 0 \in 0 .. r - 5 /\ r - 0 = r /\ LegacyRevision = 4
      /\ r - 4 \in 1 .. r - LegacyRevision /\ (r - 4) - 1 = r - 5 /\ r - (r - 4) + 1 = 5
      /\ r - (r - 5) = 5
  BY DEF HeadRevision, LegacyRevision
<1>12. PICK at : Descent(at, d, r, LegacyRevision)
  BY <1>1, DowngradeThrough
<1>2. /\ at[0] = d
      /\ \A i \in 1 .. r - LegacyRevision : at[i] = Run(Downgrades[r - i + 1], at[i - 1])
      /\ DowngradeFrom(d, r, LegacyRevision) = at[r - LegacyRevision]
  BY <1>12 DEF Descent
<1> DEFINE S == {i \in Nat : Sane(r - i, at[i], given) /\ (at[i].ok = TRUE => AllSame(d, at[i]))}
<1>3. 0 \in S
  <2>1. AllSame(d, d)
    BY DEF AllSame, Same
  <2> QED
    BY <1>1, <1>2, <2>1
<1>4. \A i \in 0 + 1 .. r - 5 : i - 1 \in S => i \in S
  <2> SUFFICES ASSUME NEW i \in 0 + 1 .. r - 5, i - 1 \in S PROVE i \in S
    OBVIOUS
  <2> DEFINE v == r - i + 1
             x == at[i - 1]
             y == at[i]
  <2>1. /\ v \in 1 .. HeadRevision /\ v \in 6 .. HeadRevision /\ i \in Nat
        /\ i \in 1 .. r - LegacyRevision /\ r - (i - 1) = v /\ r - i = v - 1
    BY <1>1 DEF HeadRevision
  <2>2. Sane(r - (i - 1), x, given) /\ (x.ok = TRUE => AllSame(d, x))
    OBVIOUS
  <2>3. y = Run(Downgrades[v], x)
    BY <1>2, <2>1
  <2> HIDE DEF v, x, y, S
  <2>4. Sane(v, x, given)
    BY <2>1, <2>2
  <2>5. Sane(v - 1, y, given)
    BY <2>1, <2>3, <2>4, SaneDown
  <2>6. ASSUME y.ok = TRUE PROVE AllSame(d, y)
    <3>1. IsDatabase(x) /\ Run(Downgrades[v], x).ok = TRUE
      BY <2>3, <2>4, <2>6 DEF Sane
    <3>2. x.ok = TRUE
      BY <3>1, OkBefore
    <3>3. WellFormed(x)
      BY <2>4, <3>2 DEF Sane, RevisionInv
    <3>4. AllSame(x, y)
      BY <2>1, <2>3, <3>1, <3>3, PresentSteps
    <3> QED
      BY <2>2, <3>2, <3>4, AllSameTwice
  <2>7. Sane(r - i, y, given)
    BY <2>1, <2>5
  <2> QED
    BY <2>1, <2>6, <2>7 DEF S, y
<1> HIDE DEF S
<1>5. r - 5 \in S
  BY <1>1, <1>3, <1>4, Since
<1> DEFINE x == at[r - 5]
<1>6. Sane(r - (r - 5), x, given) /\ (x.ok = TRUE => AllSame(d, x))
  BY <1>5 DEF S
<1>7. at[r - 4] = Run(Downgrades[5], x)
  <2>1. r - 4 \in 1 .. r - LegacyRevision
    BY <1>1
  <2>2. at[r - 4] = Run(Downgrades[r - (r - 4) + 1], at[(r - 4) - 1])
    BY <1>2, <2>1
  <2> QED
    BY <1>1, <2>2
<1>8. Downgrades[5] = Downgrade5
  BY DEF Downgrades
<1> HIDE DEF x
<1>9. DowngradeFrom(d, r, LegacyRevision) = Run(Downgrade5, x)
  BY <1>1, <1>2, <1>7, <1>8
<1>10. Sane(5, x, given)
  BY <1>1, <1>6
<1>11. x.ok = TRUE
  BY <1>9, <1>10, OkBefore DEF Sane
<1> QED
  BY <1>6, <1>9, <1>10, <1>11 DEF Sane

-----------------------------------------------------------------------------
(* The writes of the applications.                                         *)

\* The rows of database d are replaced.
Wrote(d, e, rows) == e = [d EXCEPT !.rows = rows] /\ DOMAIN rows = DOMAIN d.rows

\* A write changes the rows and nothing else.
LEMMA WroteForm ==
    ASSUME NEW d, WellFormed(d), NEW rows, NEW e, Wrote(d, e, rows)
    PROVE  WellFormed(e) /\ e.rows = rows /\ e.tables = d.tables /\ e.ok = d.ok
<1>1. /\ d = [tables |-> d.tables, rows |-> d.rows, ok |-> d.ok] /\ d.ok \in BOOLEAN
      /\ DOMAIN d.rows = DOMAIN d.tables
  BY DEF WellFormed, IsDatabase
<1>2. e = [tables |-> d.tables, rows |-> rows, ok |-> d.ok]
  BY <1>1 DEF Wrote
<1>3. e.rows = rows /\ e.tables = d.tables /\ e.ok = d.ok
  BY <1>2
<1>4. IsDatabase(e)
  BY <1>1, <1>2, <1>3 DEF IsDatabase, Wrote
<1> QED
  BY <1>3, <1>4 DEF WellFormed

\* All of the tables with rows are there.
AllTables(d) ==
    /\ "characters" \in DOMAIN d.rows /\ "character_versions" \in DOMAIN d.rows
    /\ "personas" \in DOMAIN d.rows /\ "persona_versions" \in DOMAIN d.rows
    /\ "memories" \in DOMAIN d.rows

\* Both releases that write find all of the tables.
LEMMA TablesComplete ==
    ASSUME NEW r \in {LegacyRevision, HeadRevision}, NEW d, NEW given, RevisionInv(r, d, given)
    PROVE  AllTables(d) /\ r >= 3 /\ r >= LegacyRevision /\ r \in 0 .. HeadRevision
<1>1. r >= 3 /\ r >= LegacyRevision /\ r \in 0 .. HeadRevision
  BY DEF LegacyRevision, HeadRevision
<1>2. TablesThere(r, d) /\ DOMAIN d.rows = DOMAIN d.tables
  BY DEF RevisionInv, WellFormed, IsDatabase
<1> QED
  BY <1>1, <1>2, TablesPresent DEF AllTables

\* A write to memories need only establish what the invariant says of memories.
LEMMA MemoriesWritten ==
    ASSUME NEW r \in {LegacyRevision, HeadRevision}, NEW d, NEW given, RevisionInv(r, d, given),
           NEW rows, NEW e, Wrote(d, e, rows),
           \A t \in Profiled : rows[t] = d.rows[t],
           NEW then, MemoryInv(r, e), Retained(e, then)
    PROVE  RevisionInv(r, e, then)
<1>1. AllTables(d) /\ r >= 3 /\ r >= LegacyRevision
  BY TablesComplete
<1>2. WellFormed(d) /\ TablesThere(r, d) /\ VersionsInv(d)
  BY <1>1 DEF RevisionInv
<1>3. WellFormed(e) /\ e.rows = rows /\ e.tables = d.tables
  BY <1>2, WroteForm
<1>4. DOMAIN d.tables = DOMAIN d.rows
  BY <1>2 DEF WellFormed, IsDatabase
<1>5. \A t \in Profiled : Stays(t, d, e)
  BY <1>1, <1>3, <1>4 DEF Stays, Profiled, AllTables
<1>6. TablesThere(r, e)
  BY <1>2, <1>3 DEF TablesThere
<1>7. /\ VersionsInv(e)
      /\ r \in {3, LegacyRevision} => VersionedInv(e)
      /\ r > LegacyRevision => RevisedInv(e)
  BY <1>2, <1>5, ProfilesCarried DEF RevisionInv
<1> QED
  BY <1>3, <1>6, <1>7 DEF RevisionInv

\* A write to profiles need only establish what it says of profiles.
LEMMA ProfilesWritten ==
    ASSUME NEW r \in {LegacyRevision, HeadRevision}, NEW d, NEW given, RevisionInv(r, d, given),
           NEW rows, NEW e, Wrote(d, e, rows), rows.memories = d.rows.memories,
           VersionsInv(e), r = LegacyRevision => VersionedInv(e), r = HeadRevision => RevisedInv(e)
    PROVE  RevisionInv(r, e, given)
<1>1. r >= LegacyRevision /\ (r \in {3, LegacyRevision} => r = LegacyRevision)
      /\ (r > LegacyRevision => r = HeadRevision)
  BY DEF LegacyRevision, HeadRevision
<1>2. WellFormed(d) /\ TablesThere(r, d) /\ MemoryInv(r, d) /\ Retained(d, given)
  BY <1>1 DEF RevisionInv
<1>3. WellFormed(e) /\ e.rows = rows /\ e.tables = d.tables
  BY <1>2, WroteForm
<1>4. TablesThere(r, e)
  BY <1>2, <1>3 DEF TablesThere
<1>5. MemoryInv(r, e) /\ Retained(e, given)
  BY <1>2, <1>3 DEF MemoryInv, Retained, DefaultOf
<1> QED
  BY <1>1, <1>3, <1>4, <1>5 DEF RevisionInv

\* One field c of the row i of table t takes the value v.
Amended(rows, after, t, i, c, v) ==
    /\ DOMAIN after = DOMAIN rows
    /\ \A u \in DOMAIN rows \ {t} : after[u] = rows[u]
    /\ DOMAIN after[t] = DOMAIN rows[t]
    /\ \A j \in DOMAIN rows[t] :
          /\ DOMAIN after[t][j] = DOMAIN rows[t][j]
          /\ \A b \in DOMAIN rows[t][j] :
                after[t][j][b] = IF j = i /\ b = c THEN v ELSE rows[t][j][b]

\* The assignment of one field, row by row.
LEMMA FieldWritten ==
    ASSUME NEW rows, NEW t \in DOMAIN rows, NEW i, NEW c, NEW v
    PROVE  Amended(rows, [rows EXCEPT ![t][i][c] = v], t, i, c, v)
<1> DEFINE after == [rows EXCEPT ![t][i][c] = v]
<1>1. /\ DOMAIN after = DOMAIN rows
      /\ \A u \in DOMAIN rows \ {t} : after[u] = rows[u]
  OBVIOUS
<1>2. after[t] = [rows[t] EXCEPT ![i][c] = v]
  OBVIOUS
<1> DEFINE f == rows[t]
           g == after[t]
<1>3. g = [f EXCEPT ![i][c] = v]
  BY <1>2
<1> HIDE DEF after, f, g
<1>4. DOMAIN g = DOMAIN f
  BY <1>3
<1>5. ASSUME NEW j \in DOMAIN f
      PROVE  g[j] = IF j = i THEN [f[j] EXCEPT ![c] = v] ELSE f[j]
  BY <1>3, <1>5
<1>6. ASSUME NEW j \in DOMAIN f
      PROVE  /\ DOMAIN g[j] = DOMAIN f[j]
             /\ \A b \in DOMAIN f[j] : g[j][b] = IF j = i /\ b = c THEN v ELSE f[j][b]
  <2>1. CASE j = i
    <3>1. g[j] = [f[j] EXCEPT ![c] = v]
      BY <1>5, <1>6, <2>1
    <3> QED
      BY <2>1, <3>1
  <2>2. CASE j # i
    <3>1. g[j] = f[j]
      BY <1>5, <1>6, <2>2
    <3> QED
      BY <2>2, <3>1
  <2> QED
    BY <2>1, <2>2
<1>7. Amended(rows, after, t, i, c, v)
  BY <1>1, <1>4, <1>6 DEF Amended, f, g
<1> QED
  BY <1>7 DEF after

\* Fields of rows of table t are assigned: no row comes or goes, the number of its
\* version stays, and a name is replaced by a name.
Retouched(rows, after, t) ==
    /\ DOMAIN after = DOMAIN rows
    /\ \A u \in DOMAIN rows \ {t} : after[u] = rows[u]
    /\ DOMAIN after[t] = DOMAIN rows[t]
    /\ \A j \in DOMAIN rows[t] :
          /\ DOMAIN after[t][j] = DOMAIN rows[t][j]
          /\ "current_version" \in DOMAIN rows[t][j] =>
                after[t][j]["current_version"] = rows[t][j]["current_version"]
          /\ "name" \in DOMAIN rows[t][j] =>
                after[t][j]["name"] \in Names \cup {rows[t][j]["name"]}

\* One field is assigned.
LEMMA FieldRetouched ==
    ASSUME NEW rows, NEW t \in DOMAIN rows, NEW i, NEW c, c # "current_version",
           NEW v, c = "name" => v \in Names
    PROVE  Retouched(rows, [rows EXCEPT ![t][i][c] = v], t)
<1> DEFINE after == [rows EXCEPT ![t][i][c] = v]
<1>1. Amended(rows, after, t, i, c, v)
  BY FieldWritten
<1> HIDE DEF after
<1>2. ASSUME NEW j \in DOMAIN rows[t]
      PROVE  /\ DOMAIN after[t][j] = DOMAIN rows[t][j]
             /\ \A b \in DOMAIN rows[t][j] :
                   after[t][j][b] = IF j = i /\ b = c THEN v ELSE rows[t][j][b]
  BY <1>1, <1>2 DEF Amended
<1>3. Retouched(rows, after, t)
  BY <1>1, <1>2 DEF Amended, Retouched
<1> QED
  BY <1>3 DEF after

\* One assignment after the other.
LEMMA RetouchedTwice ==
    ASSUME NEW rows, NEW mid, NEW after, NEW t, Retouched(rows, mid, t), Retouched(mid, after, t)
    PROVE  Retouched(rows, after, t)
<1>1. /\ DOMAIN after = DOMAIN rows /\ DOMAIN after[t] = DOMAIN rows[t]
      /\ \A u \in DOMAIN rows \ {t} : after[u] = rows[u]
  BY DEF Retouched
<1>2. ASSUME NEW j \in DOMAIN rows[t]
      PROVE  /\ DOMAIN after[t][j] = DOMAIN rows[t][j]
             /\ "current_version" \in DOMAIN rows[t][j] =>
                   after[t][j]["current_version"] = rows[t][j]["current_version"]
             /\ "name" \in DOMAIN rows[t][j] =>
                   after[t][j]["name"] \in Names \cup {rows[t][j]["name"]}
  <2>1. j \in DOMAIN mid[t] /\ DOMAIN mid[t][j] = DOMAIN rows[t][j]
    BY <1>2 DEF Retouched
  <2>2. /\ "current_version" \in DOMAIN rows[t][j] =>
             mid[t][j]["current_version"] = rows[t][j]["current_version"]
        /\ "name" \in DOMAIN rows[t][j] => mid[t][j]["name"] \in Names \cup {rows[t][j]["name"]}
    BY <1>2 DEF Retouched
  <2>3. /\ DOMAIN after[t][j] = DOMAIN mid[t][j]
        /\ "current_version" \in DOMAIN mid[t][j] =>
             after[t][j]["current_version"] = mid[t][j]["current_version"]
        /\ "name" \in DOMAIN mid[t][j] => after[t][j]["name"] \in Names \cup {mid[t][j]["name"]}
    BY <2>1 DEF Retouched
  <2> QED
    BY <2>1, <2>2, <2>3
<1> QED
  BY <1>1, <1>2 DEF Retouched

\* The texts of a character, as an update writes them, and those of a persona.
CharacterTexted(rows, i, profile) ==
    [[[rows EXCEPT !["characters"][i]["name"] = profile.name]
           EXCEPT !["characters"][i]["tagline"] = profile.tagline]
           EXCEPT !["characters"][i]["description"] = profile.summary]
PersonaTexted(rows, i, profile) ==
    [[[[rows EXCEPT !["personas"][i]["name"] = profile.name]
           EXCEPT !["personas"][i]["instructions"] = profile.instructions]
           EXCEPT !["personas"][i]["attributes_traits"] = profile.traits]
           EXCEPT !["personas"][i]["attributes_pronouns"] = profile.pronouns]

\* An update assigns fields.
LEMMA TextsRetouched ==
    ASSUME NEW rows, NEW i, NEW profile, profile.name \in Names
    PROVE  /\ "characters" \in DOMAIN rows =>
                  Retouched(rows, CharacterTexted(rows, i, profile), "characters")
           /\ "personas" \in DOMAIN rows =>
                  Retouched(rows, PersonaTexted(rows, i, profile), "personas")
<1>1. ASSUME "characters" \in DOMAIN rows
      PROVE  Retouched(rows, CharacterTexted(rows, i, profile), "characters")
  <2> DEFINE a == [rows EXCEPT !["characters"][i]["name"] = profile.name]
             b == [a EXCEPT !["characters"][i]["tagline"] = profile.tagline]
             c == [b EXCEPT !["characters"][i]["description"] = profile.summary]
  <2>1. CharacterTexted(rows, i, profile) = c
    BY DEF CharacterTexted
  <2>2. Retouched(rows, a, "characters")
    BY <1>1, FieldRetouched
  <2> HIDE DEF a
  <2>3. "characters" \in DOMAIN a
    BY <1>1, <2>2 DEF Retouched
  <2>4. Retouched(a, b, "characters")
    BY <2>3, FieldRetouched
  <2> HIDE DEF b
  <2>5. "characters" \in DOMAIN b
    BY <2>3, <2>4 DEF Retouched
  <2>6. Retouched(b, c, "characters")
    BY <2>5, FieldRetouched
  <2> HIDE DEF c
  <2>7. Retouched(rows, b, "characters")
    BY <2>2, <2>4, RetouchedTwice
  <2>8. Retouched(rows, c, "characters")
    BY <2>6, <2>7, RetouchedTwice
  <2> QED
    BY <2>1, <2>8
<1>2. ASSUME "personas" \in DOMAIN rows
      PROVE  Retouched(rows, PersonaTexted(rows, i, profile), "personas")
  <2> DEFINE a == [rows EXCEPT !["personas"][i]["name"] = profile.name]
             b == [a EXCEPT !["personas"][i]["instructions"] = profile.instructions]
             c == [b EXCEPT !["personas"][i]["attributes_traits"] = profile.traits]
             d == [c EXCEPT !["personas"][i]["attributes_pronouns"] = profile.pronouns]
  <2>1. PersonaTexted(rows, i, profile) = d
    BY DEF PersonaTexted
  <2>2. Retouched(rows, a, "personas")
    BY <1>2, FieldRetouched
  <2> HIDE DEF a
  <2>3. "personas" \in DOMAIN a
    BY <1>2, <2>2 DEF Retouched
  <2>4. Retouched(a, b, "personas")
    BY <2>3, FieldRetouched
  <2> HIDE DEF b
  <2>5. "personas" \in DOMAIN b
    BY <2>3, <2>4 DEF Retouched
  <2>6. Retouched(b, c, "personas")
    BY <2>5, FieldRetouched
  <2> HIDE DEF c
  <2>7. "personas" \in DOMAIN c
    BY <2>5, <2>6 DEF Retouched
  <2>8. Retouched(c, d, "personas")
    BY <2>7, FieldRetouched
  <2> HIDE DEF d
  <2>9. Retouched(rows, b, "personas")
    BY <2>2, <2>4, RetouchedTwice
  <2>10. Retouched(rows, c, "personas")
    BY <2>6, <2>9, RetouchedTwice
  <2>11. Retouched(rows, d, "personas")
    BY <2>8, <2>10, RetouchedTwice
  <2> QED
    BY <2>1, <2>11
<1> QED
  BY <1>1, <1>2

\* A row is put into a table, new or in the place of another.
Placed(rows, after, t, i, row) ==
    /\ DOMAIN after = DOMAIN rows
    /\ \A u \in DOMAIN rows \ {t} : after[u] = rows[u]
    /\ DOMAIN after[t] = DOMAIN rows[t] \cup {i} /\ after[t][i] = row
    /\ \A j \in DOMAIN rows[t] : j # i => after[t][j] = rows[t][j]

\* The placing of one row.
LEMMA RowPlaced ==
    ASSUME NEW rows, NEW t \in DOMAIN rows, NEW i, NEW row
    PROVE  Placed(rows, [rows EXCEPT ![t] = With(rows[t], i, row)], t, i, row)
<1> DEFINE f == rows[t]
           g == With(f, i, row)
           after == [rows EXCEPT ![t] = g]
<1>1. DOMAIN g = DOMAIN f \cup {i} /\ g[i] = row /\ \A j \in DOMAIN f : j # i => g[j] = f[j]
  BY DEF With
<1> HIDE DEF g
<1>2. DOMAIN after = DOMAIN rows /\ after[t] = g /\ \A u \in DOMAIN rows \ {t} : after[u] = rows[u]
  OBVIOUS
<1> HIDE DEF after
<1>3. Placed(rows, after, t, i, row)
  BY <1>1, <1>2 DEF Placed
<1> QED
  BY <1>3 DEF after, g

\* What MemoryInv says of one memory.
MemoryRow(r, m) ==
    /\ Has(m, MemoryFields)
    /\ r = LegacyRevision =>
          m.scope \in LegacyScopes /\ m.kind \in LegacyKinds /\ m.status \in LegacyStatuses
    /\ r > LegacyRevision =>
          /\ Has(m, {"archived_at"})
          /\ m.scope \in MemoryScope /\ m.kind \in MemoryKind
          /\ m.status \in LegacyStatuses \cup {NULL}

\* The invariant of memories, from that of each memory.
LEMMA MemoryRows ==
    ASSUME NEW r, NEW d, MemoryInv(r, d), NEW e, e.tables = d.tables,
           \A i \in DOMAIN e.rows["memories"] : MemoryRow(r, e.rows["memories"][i])
    PROVE  MemoryInv(r, e)
BY DEF MemoryInv, MemoryRow, DefaultOf

\* And back.
LEMMA RowsOfMemories ==
    ASSUME NEW r, NEW d, MemoryInv(r, d)
    PROVE  \A i \in DOMAIN d.rows["memories"] : MemoryRow(r, d.rows["memories"][i])
BY DEF MemoryInv, MemoryRow

\* A memory with the vocabulary of its release may be added.
LEMMA MemoryAdded ==
    ASSUME NEW r \in {LegacyRevision, HeadRevision}, NEW d, NEW given, RevisionInv(r, d, given),
           NEW i, NEW row, NEW rows, Placed(d.rows, rows, "memories", i, row),
           NEW e, Wrote(d, e, rows), MemoryRow(r, row)
    PROVE  RevisionInv(r, e, With(given, i, [scope |-> row.scope, kind |-> row.kind]))
<1> DEFINE now == [scope |-> row.scope, kind |-> row.kind]
           then == With(given, i, now)
           ms == d.rows["memories"]
           ns == rows["memories"]
<1>1. AllTables(d) /\ r >= LegacyRevision
  BY TablesComplete
<1>2. WellFormed(d) /\ MemoryInv(r, d) /\ Retained(d, given)
  BY <1>1 DEF RevisionInv
<1>3. e.rows = rows /\ e.tables = d.tables
  BY <1>2, WroteForm
<1>4. \A t \in Profiled : rows[t] = d.rows[t]
  BY <1>1 DEF Placed, AllTables, Profiled
<1>5. DOMAIN ns = DOMAIN ms \cup {i} /\ ns[i] = row /\ \A j \in DOMAIN ms : j # i => ns[j] = ms[j]
  BY DEF Placed
<1>6. MemoryInv(r, e)
  <2>1. \A j \in DOMAIN ms : MemoryRow(r, ms[j])
    BY <1>2, RowsOfMemories
  <2>2. \A j \in DOMAIN ns : MemoryRow(r, ns[j])
    <3> HIDE DEF ms, ns
    <3> QED
      BY <1>5, <2>1
  <2>3. \A j \in DOMAIN e.rows["memories"] : MemoryRow(r, e.rows["memories"][j])
    BY <1>3, <2>2
  <2> QED
    BY <1>2, <1>3, <2>3, MemoryRows
<1>7. Retained(e, then)
  <2>1. DOMAIN then = DOMAIN given \cup {i} /\ then[i] = now /\ \A j \in DOMAIN given : j # i => then[j] = given[j]
    BY DEF With
  <2>2. /\ Has(now, {"scope", "kind"}) /\ now.scope = row.scope /\ now.kind = row.kind
    BY DEF Has
  <2> HIDE DEF then, now
  <2>3. Recorded(row, now)
    BY <2>2 DEF Recorded
  <2>4. ASSUME NEW j \in DOMAIN then
        PROVE  /\ j \in DOMAIN ns /\ Has(then[j], {"scope", "kind"}) /\ Recorded(ns[j], then[j])
    <3>1. CASE j = i
      BY <1>5, <2>1, <2>2, <2>3, <3>1
    <3>2. CASE j # i
      <4>1. j \in DOMAIN given /\ then[j] = given[j]
        BY <2>1, <2>4, <3>2
      <4>2. j \in DOMAIN ms /\ Has(given[j], {"scope", "kind"}) /\ Recorded(ms[j], given[j])
        BY <1>2, <4>1 DEF Retained
      <4> HIDE DEF ms, ns
      <4> QED
        BY <1>5, <3>2, <4>1, <4>2
    <3> QED
      BY <3>1, <3>2
  <2>5. e.rows.memories = ns
    BY <1>3
  <2> HIDE DEF ns
  <2> QED
    BY <2>4, <2>5 DEF Retained
<1> HIDE DEF then
<1>8. RevisionInv(r, e, then)
  BY <1>4, <1>6, <1>7, MemoriesWritten
<1> QED
  BY <1>8 DEF then

\* A memory retires; where it came from is still recorded.
LEMMA MemoryMarked ==
    ASSUME NEW r \in {LegacyRevision, HeadRevision}, NEW d, NEW given, RevisionInv(r, d, given),
           NEW i, NEW c \in {"status", "expires_at", "archived_at"}, NEW v,
           c = "status" => v \in LegacyStatuses,
           NEW rows, Amended(d.rows, rows, "memories", i, c, v), NEW e, Wrote(d, e, rows)
    PROVE  RevisionInv(r, e, given)
<1> DEFINE ms == d.rows["memories"]
           ns == rows["memories"]
<1>1. AllTables(d) /\ r >= LegacyRevision
  BY TablesComplete
<1>2. WellFormed(d) /\ MemoryInv(r, d) /\ Retained(d, given)
  BY <1>1 DEF RevisionInv
<1>3. e.rows = rows /\ e.tables = d.tables
  BY <1>2, WroteForm
<1>4. \A t \in Profiled : rows[t] = d.rows[t]
  BY <1>1 DEF Amended, AllTables, Profiled
<1>5. \A j \in DOMAIN ms : MemoryRow(r, ms[j])
  BY <1>2, RowsOfMemories
<1>6. ASSUME NEW j \in DOMAIN ns
      PROVE  /\ j \in DOMAIN ms /\ MemoryRow(r, ns[j])
             /\ \A o : Recorded(ms[j], o) => Recorded(ns[j], o)
  <2> DEFINE m == ms[j]
             q == ns[j]
  <2>1. /\ j \in DOMAIN ms /\ DOMAIN q = DOMAIN m
        /\ \A b \in DOMAIN m : q[b] = IF j = i /\ b = c THEN v ELSE m[b]
    BY <1>6 DEF Amended
  <2>2. MemoryRow(r, m)
    BY <1>5, <2>1
  <2> HIDE DEF ms, ns, m, q
  <2>3. {"scope", "kind", "status", "legacy_scope", "legacy_kind", "revised_kind"} \subseteq DOMAIN m
    BY <2>2 DEF MemoryRow, Has, MemoryFields
  <2>4. /\ q.scope = m.scope /\ q.kind = m.kind /\ q.legacy_scope = m.legacy_scope
        /\ q.legacy_kind = m.legacy_kind /\ q.revised_kind = m.revised_kind
    BY <2>1, <2>3
  <2>5. q.status \in LegacyStatuses \/ q.status = m.status
    BY <2>1, <2>3
  <2>6. MemoryRow(r, q)
    BY <2>1, <2>2, <2>4, <2>5 DEF MemoryRow, Has
  <2>7. \A o : Recorded(m, o) => Recorded(q, o)
    BY <2>4 DEF Recorded
  <2> QED
    BY <2>1, <2>6, <2>7 DEF m, q
<1>7. MemoryInv(r, e)
  <2>1. \A j \in DOMAIN e.rows["memories"] : MemoryRow(r, e.rows["memories"][j])
    BY <1>3, <1>6
  <2> QED
    BY <1>2, <1>3, <2>1, MemoryRows
<1>8. DOMAIN ns = DOMAIN ms /\ e.rows["memories"] = ns
  BY <1>3 DEF Amended
<1> HIDE DEF ns
<1>9. Retained(e, given)
  BY <1>2, <1>6, <1>8 DEF Retained
<1> QED
  BY <1>4, <1>7, <1>9, MemoriesWritten DEF ns

\* The legacy writer gives a memory that it knew another kind.
LEMMA KindRenewed ==
    ASSUME NEW d, NEW given, RevisionInv(LegacyRevision, d, given),
           NEW i, NEW kind \in LegacyKinds,
           NEW rows, Amended(d.rows, rows, "memories", i, "kind", kind), NEW e, Wrote(d, e, rows)
    PROVE  RevisionInv(LegacyRevision, e, [given EXCEPT ![i].kind = kind])
<1> DEFINE ms == d.rows["memories"]
           ns == rows["memories"]
           then == [given EXCEPT ![i].kind = kind]
           r == LegacyRevision
<1>0. r \in {LegacyRevision, HeadRevision}
  OBVIOUS
<1> HIDE DEF r
<1>1. AllTables(d) /\ r >= LegacyRevision
  BY <1>0, TablesComplete DEF r
<1>2. WellFormed(d) /\ MemoryInv(r, d) /\ Retained(d, given)
  BY <1>1 DEF RevisionInv, r
<1>3. e.rows = rows /\ e.tables = d.tables
  BY <1>2, WroteForm
<1>4. \A t \in Profiled : rows[t] = d.rows[t]
  BY <1>1 DEF Amended, AllTables, Profiled
<1>5. \A j \in DOMAIN ms : MemoryRow(r, ms[j])
  BY <1>2, RowsOfMemories
<1>6. ASSUME NEW j \in DOMAIN ns
      PROVE  /\ MemoryRow(r, ns[j])
             /\ {"scope", "kind"} \subseteq DOMAIN ns[j]
             /\ j = i => ns[j].kind = kind
             /\ j # i => ns[j].kind = ms[j].kind
             /\ ns[j].scope = ms[j].scope /\ ns[j].legacy_scope = ms[j].legacy_scope
             /\ ns[j].legacy_kind = ms[j].legacy_kind /\ ns[j].revised_kind = ms[j].revised_kind
  <2> DEFINE m == ms[j]
             q == ns[j]
  <2>1. /\ j \in DOMAIN ms /\ DOMAIN q = DOMAIN m
        /\ \A b \in DOMAIN m : q[b] = IF j = i /\ b = "kind" THEN kind ELSE m[b]
    BY <1>6 DEF Amended
  <2>2. MemoryRow(r, m)
    BY <1>5, <2>1
  <2> HIDE DEF ms, ns, m, q
  <2>3. {"scope", "kind", "status", "legacy_scope", "legacy_kind", "revised_kind"} \subseteq DOMAIN m
    BY <2>2 DEF MemoryRow, Has, MemoryFields
  <2>4. /\ q.scope = m.scope /\ q.legacy_scope = m.legacy_scope /\ q.status = m.status
        /\ q.legacy_kind = m.legacy_kind /\ q.revised_kind = m.revised_kind
    BY <2>1, <2>3
  <2>5. (j = i => q.kind = kind) /\ (j # i => q.kind = m.kind)
    BY <2>1, <2>3
  <2>6. r = LegacyRevision /\ ~(r > LegacyRevision)
    BY DEF r, LegacyRevision
  <2>7. MemoryRow(r, q)
    BY <2>1, <2>2, <2>4, <2>5, <2>6 DEF MemoryRow, Has
  <2> QED
    BY <2>1, <2>3, <2>4, <2>5, <2>7 DEF m, q
<1>7. MemoryInv(r, e)
  <2>1. \A j \in DOMAIN e.rows["memories"] : MemoryRow(r, e.rows["memories"][j])
    BY <1>3, <1>6
  <2> QED
    BY <1>2, <1>3, <2>1, MemoryRows
<1>8. DOMAIN ns = DOMAIN ms /\ e.rows["memories"] = ns
  BY <1>3 DEF Amended
<1> HIDE DEF ns, ms
<1>9. Retained(e, then)
  <2>1. ASSUME NEW j \in DOMAIN then
        PROVE  /\ j \in DOMAIN ns /\ Has(then[j], {"scope", "kind"}) /\ Recorded(ns[j], then[j])
    <3>1. j \in DOMAIN given /\ then[j] = IF j = i THEN [given[j] EXCEPT !.kind = kind] ELSE given[j]
      BY <2>1
    <3>2. j \in DOMAIN ms /\ {"scope", "kind"} \subseteq DOMAIN given[j] /\ Recorded(ms[j], given[j])
      BY <1>2, <3>1 DEF Retained, Has, ms
    <3> DEFINE o == then[j]
               p == given[j]
    <3>3. /\ {"scope", "kind"} \subseteq DOMAIN o /\ o.scope = p.scope
          /\ (j = i => o.kind = kind) /\ (j # i => o.kind = p.kind)
      BY <3>1, <3>2
    <3> HIDE DEF o, p, then
    <3>4. Recorded(ms[j], p)
      BY <3>2 DEF p
    <3>5. Recorded(ns[j], o)
      BY <1>6, <1>8, <3>2, <3>3, <3>4 DEF Recorded
    <3> QED
      BY <1>8, <3>2, <3>3, <3>5 DEF o, Has
  <2> HIDE DEF then
  <2> QED
    BY <1>8, <2>1 DEF Retained
<1> HIDE DEF then
<1>10. RevisionInv(r, e, then)
  <2>1. RevisionInv(r, d, given)
    BY DEF r
  <2> QED
    BY <1>0, <1>4, <1>7, <1>9, <2>1, MemoriesWritten
<1> QED
  BY <1>10 DEF then, r

\* Fields of a character are written, but for the number of its version.
LEMMA CharacterRetouched ==
    ASSUME NEW r \in {LegacyRevision, HeadRevision}, NEW d, NEW given, RevisionInv(r, d, given),
           NEW rows, Retouched(d.rows, rows, "characters"), NEW e, Wrote(d, e, rows)
    PROVE  RevisionInv(r, e, given)
<1> DEFINE cs == d.rows["characters"]
           ns == e.rows["characters"]
<1>1. AllTables(d) /\ r >= 3
  BY TablesComplete
<1>2. /\ WellFormed(d) /\ VersionsInv(d)
      /\ r = LegacyRevision => VersionedInv(d)
      /\ r = HeadRevision => RevisedInv(d)
  BY <1>1 DEF RevisionInv, LegacyRevision, HeadRevision
<1>3. e.rows = rows /\ e.tables = d.tables
  BY <1>2, WroteForm
<1>4. /\ e.rows.character_versions = d.rows.character_versions
      /\ e.rows.personas = d.rows.personas /\ e.rows.persona_versions = d.rows.persona_versions
      /\ rows.memories = d.rows.memories
  BY <1>1, <1>3 DEF Retouched, AllTables
<1>5. DOMAIN ns = DOMAIN cs
  BY <1>3 DEF Retouched
<1>6. ASSUME NEW j \in DOMAIN ns
      PROVE  /\ j \in DOMAIN cs /\ DOMAIN ns[j] = DOMAIN cs[j]
             /\ ns[j].current_version = cs[j].current_version
             /\ "name" \in DOMAIN cs[j] => ns[j].name = cs[j].name \/ ns[j].name \in Names
  <2>1. /\ j \in DOMAIN cs /\ DOMAIN ns[j] = DOMAIN cs[j]
        /\ "current_version" \in DOMAIN cs[j] => ns[j]["current_version"] = cs[j]["current_version"]
        /\ "name" \in DOMAIN cs[j] => ns[j]["name"] \in Names \cup {cs[j]["name"]}
    BY <1>3, <1>6 DEF Retouched
  <2>2. "current_version" \in DOMAIN cs[j]
    BY <1>2, <2>1 DEF VersionsInv, Has
  <2> QED
    BY <2>1, <2>2
<1>7. VersionsInv(e)
  <2>1. \A j \in DOMAIN ns : Has(ns[j], {"current_version", "archived_at"})
    <3>1. \A j \in DOMAIN cs : Has(cs[j], {"current_version", "archived_at"})
      BY <1>2 DEF VersionsInv
    <3> HIDE DEF ns, cs
    <3> QED
      BY <1>6, <3>1 DEF Has
  <2> QED
    BY <1>2, <1>3, <1>4, <1>5, <2>1 DEF VersionsInv
<1>8. r = LegacyRevision => VersionedInv(e)
  BY <1>2, <1>4, <1>6 DEF VersionedInv
<1>9. ASSUME r = HeadRevision PROVE RevisedInv(e)
  <2>1. RevisedInv(d)
    BY <1>2, <1>9
  <2>2. ASSUME NEW j \in DOMAIN ns
        PROVE  /\ Has(ns[j], {"name"}) /\ ns[j].name \in Names
               /\ \/ <<j, ns[j].current_version>> \in DOMAIN e.rows.character_versions
                  \/ /\ ns[j].current_version = "1"
                     /\ \A k \in DOMAIN e.rows.character_versions : k[1] # j
    <3>1. j \in DOMAIN cs
      BY <1>6, <2>2
    <3>2. /\ Has(cs[j], {"name"}) /\ cs[j].name \in Names
          /\ \/ <<j, cs[j].current_version>> \in DOMAIN d.rows.character_versions
             \/ /\ cs[j].current_version = "1"
                /\ \A k \in DOMAIN d.rows.character_versions : k[1] # j
      BY <2>1, <3>1 DEF RevisedInv
    <3> HIDE DEF ns, cs
    <3>3. Has(ns[j], {"name"}) /\ ns[j].name \in Names
      BY <1>6, <2>2, <3>2 DEF Has
    <3> QED
      BY <1>4, <1>6, <2>2, <3>2, <3>3
  <2>3. e.rows.personas = d.rows.personas /\ e.rows.persona_versions = d.rows.persona_versions
    BY <1>4
  <2>4. \A p \in DOMAIN e.rows.personas :
          /\ Has(e.rows.personas[p], {"name"}) /\ e.rows.personas[p].name \in Names
          /\ \/ <<p, e.rows.personas[p].current_version>> \in DOMAIN e.rows.persona_versions
             \/ /\ e.rows.personas[p].current_version = "1"
                /\ \A k \in DOMAIN e.rows.persona_versions : k[1] # p
    BY <2>1, <2>3 DEF RevisedInv
  <2>5. /\ DefaultOf(e, "characters", "current_version", "1")
        /\ DefaultOf(e, "personas", "current_version", "1")
    BY <1>3, <2>1 DEF RevisedInv, DefaultOf
  <2> QED
    BY <2>2, <2>4, <2>5 DEF RevisedInv
<1> QED
  BY <1>4, <1>7, <1>8, <1>9, ProfilesWritten

\* So may fields of a persona be written, but for the number of its version.
LEMMA PersonaRetouched ==
    ASSUME NEW r \in {LegacyRevision, HeadRevision}, NEW d, NEW given, RevisionInv(r, d, given),
           NEW rows, Retouched(d.rows, rows, "personas"), NEW e, Wrote(d, e, rows)
    PROVE  RevisionInv(r, e, given)
<1> DEFINE cs == d.rows["personas"]
           ns == e.rows["personas"]
<1>1. AllTables(d) /\ r >= 3
  BY TablesComplete
<1>2. /\ WellFormed(d) /\ VersionsInv(d)
      /\ r = LegacyRevision => VersionedInv(d)
      /\ r = HeadRevision => RevisedInv(d)
  BY <1>1 DEF RevisionInv, LegacyRevision, HeadRevision
<1>3. e.rows = rows /\ e.tables = d.tables
  BY <1>2, WroteForm
<1>4. /\ e.rows.persona_versions = d.rows.persona_versions
      /\ e.rows.characters = d.rows.characters /\ e.rows.character_versions = d.rows.character_versions
      /\ rows.memories = d.rows.memories
  BY <1>1, <1>3 DEF Retouched, AllTables
<1>5. DOMAIN ns = DOMAIN cs
  BY <1>3 DEF Retouched
<1>6. ASSUME NEW j \in DOMAIN ns
      PROVE  /\ j \in DOMAIN cs /\ DOMAIN ns[j] = DOMAIN cs[j]
             /\ ns[j].current_version = cs[j].current_version
             /\ "name" \in DOMAIN cs[j] => ns[j].name = cs[j].name \/ ns[j].name \in Names
  <2>1. /\ j \in DOMAIN cs /\ DOMAIN ns[j] = DOMAIN cs[j]
        /\ "current_version" \in DOMAIN cs[j] => ns[j]["current_version"] = cs[j]["current_version"]
        /\ "name" \in DOMAIN cs[j] => ns[j]["name"] \in Names \cup {cs[j]["name"]}
    BY <1>3, <1>6 DEF Retouched
  <2>2. "current_version" \in DOMAIN cs[j]
    BY <1>2, <2>1 DEF VersionsInv, Has
  <2> QED
    BY <2>1, <2>2
<1>7. VersionsInv(e)
  <2>1. \A j \in DOMAIN ns : Has(ns[j], {"current_version"})
    <3>1. \A j \in DOMAIN cs : Has(cs[j], {"current_version"})
      BY <1>2 DEF VersionsInv
    <3> HIDE DEF ns, cs
    <3> QED
      BY <1>6, <3>1 DEF Has
  <2> QED
    BY <1>2, <1>3, <1>4, <1>5, <2>1 DEF VersionsInv
<1>8. r = LegacyRevision => VersionedInv(e)
  BY <1>2, <1>4, <1>6 DEF VersionedInv
<1>9. ASSUME r = HeadRevision PROVE RevisedInv(e)
  <2>1. RevisedInv(d)
    BY <1>2, <1>9
  <2>2. ASSUME NEW j \in DOMAIN ns
        PROVE  /\ Has(ns[j], {"name"}) /\ ns[j].name \in Names
               /\ \/ <<j, ns[j].current_version>> \in DOMAIN e.rows.persona_versions
                  \/ /\ ns[j].current_version = "1"
                     /\ \A k \in DOMAIN e.rows.persona_versions : k[1] # j
    <3>1. j \in DOMAIN cs
      BY <1>6, <2>2
    <3>2. /\ Has(cs[j], {"name"}) /\ cs[j].name \in Names
          /\ \/ <<j, cs[j].current_version>> \in DOMAIN d.rows.persona_versions
             \/ /\ cs[j].current_version = "1"
                /\ \A k \in DOMAIN d.rows.persona_versions : k[1] # j
      BY <2>1, <3>1 DEF RevisedInv
    <3> HIDE DEF ns, cs
    <3>3. Has(ns[j], {"name"}) /\ ns[j].name \in Names
      BY <1>6, <2>2, <3>2 DEF Has
    <3> QED
      BY <1>4, <1>6, <2>2, <3>2, <3>3
  <2>3. e.rows.characters = d.rows.characters /\ e.rows.character_versions = d.rows.character_versions
    BY <1>4
  <2>4. \A c \in DOMAIN e.rows.characters :
          /\ Has(e.rows.characters[c], {"name"}) /\ e.rows.characters[c].name \in Names
          /\ \/ <<c, e.rows.characters[c].current_version>> \in DOMAIN e.rows.character_versions
             \/ /\ e.rows.characters[c].current_version = "1"
                /\ \A k \in DOMAIN e.rows.character_versions : k[1] # c
    BY <2>1, <2>3 DEF RevisedInv
  <2>5. /\ DefaultOf(e, "characters", "current_version", "1")
        /\ DefaultOf(e, "personas", "current_version", "1")
    BY <1>3, <2>1 DEF RevisedInv, DefaultOf
  <2> QED
    BY <2>2, <2>4, <2>5 DEF RevisedInv
<1> QED
  BY <1>4, <1>7, <1>8, <1>9, ProfilesWritten

\* The legacy release gives a character a version.
LEMMA CharacterWritten ==
    ASSUME NEW d, NEW given, RevisionInv(LegacyRevision, d, given),
           NEW c, NEW v, NEW version, {"name", "summary", "speaking_style"} \subseteq DOMAIN version,
           version.name \in Names,
           NEW row, {"current_version", "archived_at"} \subseteq DOMAIN row, row.current_version = v,
           NEW mid, Placed(d.rows, mid, "character_versions", <<c, v>>, version),
           NEW rows, Placed(mid, rows, "characters", c, row), NEW e, Wrote(d, e, rows)
    PROVE  RevisionInv(LegacyRevision, e, given)
<1> DEFINE cs == d.rows["characters"]
           ns == e.rows["characters"]
           vs == d.rows["character_versions"]
           ws == e.rows["character_versions"]
           r == LegacyRevision
<1>0. r \in {LegacyRevision, HeadRevision} /\ RevisionInv(r, d, given) /\ r # HeadRevision
  BY DEF LegacyRevision, HeadRevision
<1>1. AllTables(d) /\ r >= 3 /\ r \in {3, LegacyRevision}
  BY <1>0, TablesComplete
<1>2. WellFormed(d) /\ VersionsInv(d) /\ VersionedInv(d)
  BY <1>0, <1>1 DEF RevisionInv
<1>3. e.rows = rows /\ e.tables = d.tables
  BY <1>2, WroteForm
<1>4. /\ e.rows.personas = d.rows.personas /\ e.rows.persona_versions = d.rows.persona_versions
      /\ rows.memories = d.rows.memories
  BY <1>1, <1>3 DEF Placed, AllTables
<1>5. DOMAIN ns = DOMAIN cs \cup {c} /\ ns[c] = row /\ \A j \in DOMAIN cs : j # c => ns[j] = cs[j]
  BY <1>1, <1>3 DEF Placed, AllTables
<1>6. /\ DOMAIN ws = DOMAIN vs \cup {<<c, v>>} /\ ws[<<c, v>>] = version
      /\ \A k \in DOMAIN vs : k # <<c, v>> => ws[k] = vs[k]
  BY <1>1, <1>3 DEF Placed, AllTables
<1>7. /\ \A k \in DOMAIN vs : /\ k[1] \in DOMAIN cs /\ vs[k].name \in Names
                             /\ Has(vs[k], {"name", "summary", "speaking_style"})
      /\ \A j \in DOMAIN cs : Has(cs[j], {"current_version", "archived_at"})
      /\ \A j \in DOMAIN cs : <<j, cs[j].current_version>> \in DOMAIN vs
  BY <1>2 DEF VersionsInv, VersionedInv
<1> HIDE DEF cs, ns, vs, ws
<1>8. ASSUME NEW k \in DOMAIN ws
      PROVE  /\ k[1] \in DOMAIN ns /\ ws[k].name \in Names
             /\ Has(ws[k], {"name", "summary", "speaking_style"})
  <2>1. CASE k = <<c, v>>
    BY <1>5, <1>6, <2>1 DEF Has
  <2>2. CASE k # <<c, v>>
    <3>1. k \in DOMAIN vs /\ ws[k] = vs[k]
      BY <1>6, <1>8, <2>2
    <3>2. /\ k[1] \in DOMAIN cs /\ vs[k].name \in Names
          /\ Has(vs[k], {"name", "summary", "speaking_style"})
      BY <1>7, <3>1
    <3> QED
      BY <1>5, <3>1, <3>2
  <2> QED
    BY <2>1, <2>2
<1>9. ASSUME NEW j \in DOMAIN ns
      PROVE  Has(ns[j], {"current_version", "archived_at"}) /\ <<j, ns[j].current_version>> \in DOMAIN ws
  <2>1. CASE j = c
    BY <1>5, <1>6, <2>1 DEF Has
  <2>2. CASE j # c
    <3>1. j \in DOMAIN cs /\ ns[j] = cs[j]
      BY <1>5, <1>9, <2>2
    <3> QED
      BY <1>6, <1>7, <3>1
  <2> QED
    BY <2>1, <2>2
<1>10. VersionsInv(e)
  BY <1>2, <1>3, <1>4, <1>8, <1>9 DEF VersionsInv, ns, ws
<1>11. VersionedInv(e)
  BY <1>2, <1>4, <1>9 DEF VersionedInv, ns, ws
<1> QED
  BY <1>0, <1>4, <1>10, <1>11, ProfilesWritten

\* It gives a persona a version.
LEMMA PersonaWritten ==
    ASSUME NEW d, NEW given, RevisionInv(LegacyRevision, d, given),
           NEW c, NEW v, NEW version, {"name", "traits", "pronouns", "persona_id"} \subseteq DOMAIN version,
           version.name \in Names, version.persona_id = c,
           NEW row, {"current_version"} \subseteq DOMAIN row, row.current_version = v,
           NEW mid, Placed(d.rows, mid, "persona_versions", <<c, v>>, version),
           NEW rows, Placed(mid, rows, "personas", c, row), NEW e, Wrote(d, e, rows)
    PROVE  RevisionInv(LegacyRevision, e, given)
<1> DEFINE cs == d.rows["personas"]
           ns == e.rows["personas"]
           vs == d.rows["persona_versions"]
           ws == e.rows["persona_versions"]
           r == LegacyRevision
<1>0. r \in {LegacyRevision, HeadRevision} /\ RevisionInv(r, d, given) /\ r # HeadRevision
  BY DEF LegacyRevision, HeadRevision
<1>1. AllTables(d) /\ r >= 3 /\ r \in {3, LegacyRevision}
  BY <1>0, TablesComplete
<1>2. WellFormed(d) /\ VersionsInv(d) /\ VersionedInv(d)
  BY <1>0, <1>1 DEF RevisionInv
<1>3. e.rows = rows /\ e.tables = d.tables
  BY <1>2, WroteForm
<1>4. /\ e.rows.characters = d.rows.characters /\ e.rows.character_versions = d.rows.character_versions
      /\ rows.memories = d.rows.memories
  BY <1>1, <1>3 DEF Placed, AllTables
<1>5. DOMAIN ns = DOMAIN cs \cup {c} /\ ns[c] = row /\ \A j \in DOMAIN cs : j # c => ns[j] = cs[j]
  BY <1>1, <1>3 DEF Placed, AllTables
<1>6. /\ DOMAIN ws = DOMAIN vs \cup {<<c, v>>} /\ ws[<<c, v>>] = version
      /\ \A k \in DOMAIN vs : k # <<c, v>> => ws[k] = vs[k]
  BY <1>1, <1>3 DEF Placed, AllTables
<1>7. /\ \A k \in DOMAIN vs : /\ k[1] \in DOMAIN cs /\ vs[k].name \in Names /\ vs[k].persona_id = k[1]
                             /\ Has(vs[k], {"name", "traits", "pronouns", "persona_id"})
      /\ \A j \in DOMAIN cs : Has(cs[j], {"current_version"})
      /\ \A j \in DOMAIN cs : <<j, cs[j].current_version>> \in DOMAIN vs
  BY <1>2 DEF VersionsInv, VersionedInv
<1> HIDE DEF cs, ns, vs, ws
<1>8. ASSUME NEW k \in DOMAIN ws
      PROVE  /\ k[1] \in DOMAIN ns /\ ws[k].name \in Names /\ ws[k].persona_id = k[1]
             /\ Has(ws[k], {"name", "traits", "pronouns", "persona_id"})
  <2>1. CASE k = <<c, v>>
    BY <1>5, <1>6, <2>1 DEF Has
  <2>2. CASE k # <<c, v>>
    <3>1. k \in DOMAIN vs /\ ws[k] = vs[k]
      BY <1>6, <1>8, <2>2
    <3>2. /\ k[1] \in DOMAIN cs /\ vs[k].name \in Names /\ vs[k].persona_id = k[1]
          /\ Has(vs[k], {"name", "traits", "pronouns", "persona_id"})
      BY <1>7, <3>1
    <3> QED
      BY <1>5, <3>1, <3>2
  <2> QED
    BY <2>1, <2>2
<1>9. ASSUME NEW j \in DOMAIN ns
      PROVE  Has(ns[j], {"current_version"}) /\ <<j, ns[j].current_version>> \in DOMAIN ws
  <2>1. CASE j = c
    BY <1>5, <1>6, <2>1 DEF Has
  <2>2. CASE j # c
    <3>1. j \in DOMAIN cs /\ ns[j] = cs[j]
      BY <1>5, <1>9, <2>2
    <3> QED
      BY <1>6, <1>7, <3>1
  <2> QED
    BY <2>1, <2>2
<1>10. VersionsInv(e)
  BY <1>2, <1>3, <1>4, <1>8, <1>9 DEF VersionsInv, ns, ws
<1>11. VersionedInv(e)
  BY <1>2, <1>4, <1>9 DEF VersionedInv, ns, ws
<1> QED
  BY <1>0, <1>4, <1>10, <1>11, ProfilesWritten

\* The present release makes a character, without a version.
LEMMA CharacterCreated ==
    ASSUME NEW d, NEW given, RevisionInv(HeadRevision, d, given),
           NEW c, c \notin DOMAIN d.rows["characters"],
           NEW row, {"name", "current_version", "archived_at"} \subseteq DOMAIN row,
           row.name \in Names, row.current_version = "1",
           NEW rows, Placed(d.rows, rows, "characters", c, row), NEW e, Wrote(d, e, rows)
    PROVE  RevisionInv(HeadRevision, e, given)
<1> DEFINE cs == d.rows["characters"]
           ns == e.rows["characters"]
           vs == d.rows["character_versions"]
           r == HeadRevision
<1>0. r \in {LegacyRevision, HeadRevision} /\ RevisionInv(r, d, given) /\ r # LegacyRevision
  BY DEF LegacyRevision, HeadRevision
<1>1. AllTables(d) /\ r >= 3 /\ r > LegacyRevision
  BY <1>0, TablesComplete DEF LegacyRevision, HeadRevision
<1>2. WellFormed(d) /\ VersionsInv(d) /\ RevisedInv(d)
  BY <1>0, <1>1 DEF RevisionInv
<1>3. e.rows = rows /\ e.tables = d.tables
  BY <1>2, WroteForm
<1>4. /\ e.rows.character_versions = vs
      /\ e.rows.personas = d.rows.personas /\ e.rows.persona_versions = d.rows.persona_versions
      /\ rows.memories = d.rows.memories
  BY <1>1, <1>3 DEF Placed, AllTables
<1>5. DOMAIN ns = DOMAIN cs \cup {c} /\ ns[c] = row /\ \A j \in DOMAIN cs : j # c => ns[j] = cs[j]
  BY <1>3 DEF Placed
<1>6. /\ \A k \in DOMAIN vs : k[1] \in DOMAIN cs
      /\ \A j \in DOMAIN cs :
            /\ Has(cs[j], {"current_version", "archived_at"})
            /\ Has(cs[j], {"name"}) /\ cs[j].name \in Names
            /\ \/ <<j, cs[j].current_version>> \in DOMAIN vs
               \/ cs[j].current_version = "1" /\ \A k \in DOMAIN vs : k[1] # j
  BY <1>2 DEF VersionsInv, RevisedInv
<1>7. c \notin DOMAIN cs
  OBVIOUS
<1> HIDE DEF cs, ns, vs
<1>8. ASSUME NEW j \in DOMAIN ns
      PROVE  /\ Has(ns[j], {"current_version", "archived_at"})
             /\ Has(ns[j], {"name"}) /\ ns[j].name \in Names
             /\ \/ <<j, ns[j].current_version>> \in DOMAIN vs
                \/ ns[j].current_version = "1" /\ \A k \in DOMAIN vs : k[1] # j
  <2>1. CASE j = c
    <3>1. \A k \in DOMAIN vs : k[1] # c
      BY <1>6, <1>7
    <3> QED
      BY <1>5, <2>1, <3>1 DEF Has
  <2>2. CASE j # c
    <3>1. j \in DOMAIN cs /\ ns[j] = cs[j]
      BY <1>5, <1>8, <2>2
    <3> QED
      BY <1>6, <3>1
  <2> QED
    BY <2>1, <2>2
<1>9. \A k \in DOMAIN vs : k[1] \in DOMAIN ns
  BY <1>5, <1>6
<1>10. VersionsInv(e)
  BY <1>2, <1>3, <1>4, <1>8, <1>9 DEF VersionsInv, ns, vs
<1>11. RevisedInv(e)
  BY <1>2, <1>3, <1>4, <1>8 DEF RevisedInv, DefaultOf, ns, vs
<1> QED
  BY <1>0, <1>4, <1>10, <1>11, ProfilesWritten

\* So is a persona made.
LEMMA PersonaCreated ==
    ASSUME NEW d, NEW given, RevisionInv(HeadRevision, d, given),
           NEW c, c \notin DOMAIN d.rows["personas"],
           NEW row, {"name", "current_version"} \subseteq DOMAIN row,
           row.name \in Names, row.current_version = "1",
           NEW rows, Placed(d.rows, rows, "personas", c, row), NEW e, Wrote(d, e, rows)
    PROVE  RevisionInv(HeadRevision, e, given)
<1> DEFINE cs == d.rows["personas"]
           ns == e.rows["personas"]
           vs == d.rows["persona_versions"]
           r == HeadRevision
<1>0. r \in {LegacyRevision, HeadRevision} /\ RevisionInv(r, d, given) /\ r # LegacyRevision
  BY DEF LegacyRevision, HeadRevision
<1>1. AllTables(d) /\ r >= 3 /\ r > LegacyRevision
  BY <1>0, TablesComplete DEF LegacyRevision, HeadRevision
<1>2. WellFormed(d) /\ VersionsInv(d) /\ RevisedInv(d)
  BY <1>0, <1>1 DEF RevisionInv
<1>3. e.rows = rows /\ e.tables = d.tables
  BY <1>2, WroteForm
<1>4. /\ e.rows.persona_versions = vs
      /\ e.rows.characters = d.rows.characters /\ e.rows.character_versions = d.rows.character_versions
      /\ rows.memories = d.rows.memories
  BY <1>1, <1>3 DEF Placed, AllTables
<1>5. DOMAIN ns = DOMAIN cs \cup {c} /\ ns[c] = row /\ \A j \in DOMAIN cs : j # c => ns[j] = cs[j]
  BY <1>3 DEF Placed
<1>6. /\ \A k \in DOMAIN vs : k[1] \in DOMAIN cs
      /\ \A j \in DOMAIN cs :
            /\ Has(cs[j], {"current_version"})
            /\ Has(cs[j], {"name"}) /\ cs[j].name \in Names
            /\ \/ <<j, cs[j].current_version>> \in DOMAIN vs
               \/ cs[j].current_version = "1" /\ \A k \in DOMAIN vs : k[1] # j
  BY <1>2 DEF VersionsInv, RevisedInv
<1>7. c \notin DOMAIN cs
  OBVIOUS
<1> HIDE DEF cs, ns, vs
<1>8. ASSUME NEW j \in DOMAIN ns
      PROVE  /\ Has(ns[j], {"current_version"})
             /\ Has(ns[j], {"name"}) /\ ns[j].name \in Names
             /\ \/ <<j, ns[j].current_version>> \in DOMAIN vs
                \/ ns[j].current_version = "1" /\ \A k \in DOMAIN vs : k[1] # j
  <2>1. CASE j = c
    <3>1. \A k \in DOMAIN vs : k[1] # c
      BY <1>6, <1>7
    <3> QED
      BY <1>5, <2>1, <3>1 DEF Has
  <2>2. CASE j # c
    <3>1. j \in DOMAIN cs /\ ns[j] = cs[j]
      BY <1>5, <1>8, <2>2
    <3> QED
      BY <1>6, <3>1
  <2> QED
    BY <2>1, <2>2
<1>9. \A k \in DOMAIN vs : k[1] \in DOMAIN ns
  BY <1>5, <1>6
<1>10. VersionsInv(e)
  BY <1>2, <1>3, <1>4, <1>8, <1>9 DEF VersionsInv, ns, vs
<1>11. RevisedInv(e)
  BY <1>2, <1>3, <1>4, <1>8 DEF RevisedInv, DefaultOf, ns, vs
<1> QED
  BY <1>0, <1>4, <1>10, <1>11, ProfilesWritten

\* What the deletion of a persona leaves: its versions go with it, and of a
\* memory only the reference to it is lost.
Deleted(d, p, rows) ==
    /\ DOMAIN rows = DOMAIN d.rows
    /\ \A u \in DOMAIN Kept : \A i \in DOMAIN rows[u] :
          /\ i \in DOMAIN d.rows[u] /\ DOMAIN rows[u][i] = DOMAIN d.rows[u][i]
          /\ \A c \in DOMAIN d.rows[u][i] :
                c # "persona_id" \/ d.rows[u][i][c] # p => rows[u][i][c] = d.rows[u][i][c]
    /\ \A u \in DOMAIN Kept : u \notin {"personas", "persona_versions"} => DOMAIN rows[u] = DOMAIN d.rows[u]
    /\ DOMAIN rows["personas"] = DOMAIN d.rows["personas"] \ {p}
    /\ \A k \in DOMAIN rows["persona_versions"] :
          "persona_id" \in DOMAIN d.rows["persona_versions"][k]
             => d.rows["persona_versions"][k]["persona_id"] # p
    /\ \A k \in DOMAIN d.rows["persona_versions"] :
          /\ "persona_id" \in DOMAIN d.rows["persona_versions"][k]
          /\ d.rows["persona_versions"][k]["persona_id"] # p
          => k \in DOMAIN rows["persona_versions"]

Hit(d, p, u, k, i) ==
    k.to = "personas" /\ k.col \in DOMAIN d.rows[u][i] /\ d.rows[u][i][k.col] = p
Left(d, p, u, i) ==
    ~(u = "personas" /\ i = p) /\ \A k \in d.tables[u].keys : Hit(d, p, u, k, i) => k.del # "cascade"
LeftRow(d, p, u, i) ==
    [c \in DOMAIN d.rows[u][i] |->
        IF \E k \in d.tables[u].keys : k.col = c /\ Hit(d, p, u, k, i) THEN NULL ELSE d.rows[u][i][c]]

\* What the foreign keys make of the rows when a persona is deleted.
LEMMA RowsDeleted ==
    ASSUME NEW d, WellFormed(d), DOMAIN Kept \subseteq DOMAIN d.tables, NEW p,
           Key("persona_id", "personas", "cascade") \in d.tables["persona_versions"].keys,
           NEW rows, rows = DeleteRow(d, "personas", p).rows
    PROVE  Deleted(d, p, rows)
<1>1. DOMAIN d.rows = DOMAIN d.tables /\ d = [tables |-> d.tables, rows |-> d.rows, ok |-> d.ok]
  BY DEF WellFormed, IsDatabase
<1>2. rows = [u \in DOMAIN d.rows |->
                 [i \in {j \in DOMAIN d.rows[u] : Left(d, p, u, j)} |-> LeftRow(d, p, u, i)]]
  BY <1>1 DEF DeleteRow, Left, LeftRow, Hit
<1>3. DOMAIN rows = DOMAIN d.rows
  BY <1>2
<1>4. ASSUME NEW u \in DOMAIN Kept
      PROVE  /\ DOMAIN rows[u] = {j \in DOMAIN d.rows[u] : Left(d, p, u, j)}
             /\ \A i \in DOMAIN rows[u] : rows[u][i] = LeftRow(d, p, u, i)
  <2>1. u \in DOMAIN d.rows
    BY <1>1, <1>4
  <2>2. rows[u] = [i \in {j \in DOMAIN d.rows[u] : Left(d, p, u, j)} |-> LeftRow(d, p, u, i)]
    BY <1>2, <2>1
  <2> QED
    BY <2>2
<1> HIDE <1>2
<1>5. \A u \in DOMAIN Kept : \A k \in d.tables[u].keys : SafeKey(u, k)
  BY DEF WellFormed
<1>6. ASSUME NEW u \in DOMAIN Kept, NEW i \in DOMAIN rows[u]
      PROVE  /\ i \in DOMAIN d.rows[u] /\ DOMAIN rows[u][i] = DOMAIN d.rows[u][i]
             /\ \A c \in DOMAIN d.rows[u][i] :
                   c # "persona_id" \/ d.rows[u][i][c] # p => rows[u][i][c] = d.rows[u][i][c]
  <2>1. i \in DOMAIN d.rows[u] /\ rows[u][i] = LeftRow(d, p, u, i)
    BY <1>4, <1>6
  <2>2. DOMAIN rows[u][i] = DOMAIN d.rows[u][i]
    BY <2>1 DEF LeftRow
  <2>3. ASSUME NEW c \in DOMAIN d.rows[u][i], c # "persona_id" \/ d.rows[u][i][c] # p
        PROVE  rows[u][i][c] = d.rows[u][i][c]
    <3>1. ASSUME NEW k \in d.tables[u].keys, k.col = c, Hit(d, p, u, k, i) PROVE FALSE
      <4>1. SafeKey(u, k) /\ k.to = "personas" /\ d.rows[u][i][c] = p
        BY <1>5, <1>6, <3>1 DEF Hit
      <4>2. c = "persona_id"
        BY <3>1, <4>1 DEF SafeKey
      <4> QED
        BY <2>3, <4>1, <4>2
    <3>2. LeftRow(d, p, u, i)[c] = d.rows[u][i][c]
      BY <2>3, <3>1 DEF LeftRow
    <3> QED
      BY <2>1, <3>2
  <2> QED
    BY <2>1, <2>2, <2>3
<1>7. ASSUME NEW u \in DOMAIN Kept, u # "persona_versions", NEW j \in DOMAIN d.rows[u],
             ~(u = "personas" /\ j = p)
      PROVE  j \in DOMAIN rows[u]
  <2>1. ASSUME NEW k \in d.tables[u].keys, Hit(d, p, u, k, j) PROVE k.del # "cascade"
    <3>1. SafeKey(u, k) /\ k.to = "personas"
      BY <1>5, <1>7, <2>1 DEF Hit
    <3> QED
      BY <1>7, <3>1 DEF SafeKey
  <2> QED
    BY <1>4, <1>7, <2>1 DEF Left
<1>8. ASSUME NEW u \in DOMAIN Kept, u \notin {"personas", "persona_versions"}
      PROVE  DOMAIN rows[u] = DOMAIN d.rows[u]
  <2>1. DOMAIN rows[u] \subseteq DOMAIN d.rows[u]
    BY <1>6, <1>8
  <2>2. \A j \in DOMAIN d.rows[u] : j \in DOMAIN rows[u]
    BY <1>7, <1>8
  <2> QED
    BY <2>1, <2>2
<1>9. DOMAIN rows["personas"] = DOMAIN d.rows["personas"] \ {p}
  <2>1. "personas" \in DOMAIN Kept /\ "personas" # "persona_versions"
    BY KeptTables
  <2>2. \A j \in DOMAIN rows["personas"] : j \in DOMAIN d.rows["personas"] /\ Left(d, p, "personas", j)
    BY <1>4, <2>1
  <2>3. p \notin DOMAIN rows["personas"]
    BY <2>2 DEF Left
  <2>4. \A j \in DOMAIN d.rows["personas"] \ {p} : j \in DOMAIN rows["personas"]
    BY <1>7, <2>1
  <2> QED
    BY <2>2, <2>3, <2>4
<1>10. ASSUME NEW k \in DOMAIN rows["persona_versions"],
              "persona_id" \in DOMAIN d.rows["persona_versions"][k]
       PROVE  d.rows["persona_versions"][k]["persona_id"] # p
  <2> DEFINE f == Key("persona_id", "personas", "cascade")
  <2>1. "persona_versions" \in DOMAIN Kept
    BY KeptTables
  <2>2. Left(d, p, "persona_versions", k)
    BY <1>4, <1>10, <2>1
  <2>3. f.to = "personas" /\ f.col = "persona_id" /\ f.del = "cascade"
    BY DEF Key
  <2>4. f \in d.tables["persona_versions"].keys
    OBVIOUS
  <2> HIDE DEF f
  <2>5. ~Hit(d, p, "persona_versions", f, k)
    BY <2>2, <2>3, <2>4 DEF Left
  <2> QED
    BY <1>10, <2>3, <2>5 DEF Hit
<1>11. ASSUME NEW k \in DOMAIN d.rows["persona_versions"],
              "persona_id" \in DOMAIN d.rows["persona_versions"][k],
              d.rows["persona_versions"][k]["persona_id"] # p
       PROVE  k \in DOMAIN rows["persona_versions"]
  <2>1. "persona_versions" \in DOMAIN Kept /\ "persona_versions" # "personas"
    BY KeptTables
  <2>2. ASSUME NEW f \in d.tables["persona_versions"].keys, Hit(d, p, "persona_versions", f, k)
        PROVE  FALSE
    <3>1. SafeKey("persona_versions", f) /\ f.to = "personas"
      BY <1>5, <2>1, <2>2 DEF Hit
    <3>2. f.col = "persona_id"
      BY <3>1 DEF SafeKey
    <3> QED
      BY <1>11, <2>2, <3>2 DEF Hit
  <2>3. Left(d, p, "persona_versions", k)
    BY <2>1, <2>2 DEF Left
  <2> QED
    BY <1>4, <1>11, <2>1, <2>3
<1> QED
  BY <1>3, <1>6, <1>8, <1>9, <1>10, <1>11 DEF Deleted

\* A persona is deleted.
LEMMA PersonaDeleted ==
    ASSUME NEW d, NEW given, RevisionInv(HeadRevision, d, given), NEW p,
           NEW rows, rows = DeleteRow(d, "personas", p).rows, NEW e, Wrote(d, e, rows)
    PROVE  RevisionInv(HeadRevision, e, given)
<1> DEFINE r == HeadRevision
<1>0. /\ r \in {LegacyRevision, HeadRevision} /\ RevisionInv(r, d, given) /\ r # LegacyRevision
      /\ r > LegacyRevision /\ r >= 3 /\ r >= LegacyRevision /\ r \notin {3, LegacyRevision}
  BY DEF LegacyRevision, HeadRevision
<1> HIDE DEF r
<1>1. AllTables(d)
  BY <1>0, TablesComplete
<1>2. /\ WellFormed(d) /\ TablesThere(r, d) /\ VersionsInv(d) /\ RevisedInv(d)
      /\ MemoryInv(r, d) /\ Retained(d, given)
  BY <1>0 DEF RevisionInv
<1>3. WellFormed(e) /\ e.rows = rows /\ e.tables = d.tables
  BY <1>2, WroteForm
<1>4. Deleted(d, p, rows)
  <2>1. DOMAIN Kept \subseteq DOMAIN d.tables
    BY <1>1, <1>2, KeptTables DEF AllTables, WellFormed, IsDatabase
  <2>2. Key("persona_id", "personas", "cascade") \in d.tables["persona_versions"].keys
    BY <1>2 DEF VersionsInv
  <2> QED
    BY <1>2, <2>1, <2>2, RowsDeleted
<1>5. /\ "characters" \in DOMAIN Kept /\ "character_versions" \in DOMAIN Kept
      /\ "personas" \in DOMAIN Kept /\ "persona_versions" \in DOMAIN Kept
      /\ "memories" \in DOMAIN Kept
  BY KeptTables
<1>6. ASSUME NEW u \in DOMAIN Kept, NEW i \in DOMAIN rows[u]
      PROVE  /\ i \in DOMAIN d.rows[u] /\ DOMAIN rows[u][i] = DOMAIN d.rows[u][i]
             /\ \A c \in DOMAIN d.rows[u][i] : c # "persona_id" => rows[u][i][c] = d.rows[u][i][c]
  BY <1>4, <1>6 DEF Deleted
<1>7. /\ DOMAIN rows["characters"] = DOMAIN d.rows["characters"]
      /\ DOMAIN rows["character_versions"] = DOMAIN d.rows["character_versions"]
      /\ DOMAIN rows["memories"] = DOMAIN d.rows["memories"]
      /\ DOMAIN rows["personas"] = DOMAIN d.rows["personas"] \ {p}
  BY <1>4, <1>5 DEF Deleted
<1>8. ASSUME NEW k \in DOMAIN rows["character_versions"]
      PROVE  /\ k[1] \in DOMAIN rows["characters"]
             /\ Has(rows["character_versions"][k], {"name", "summary", "speaking_style"})
             /\ rows["character_versions"][k].name \in Names
  <2>1. k \in DOMAIN d.rows["character_versions"]
    BY <1>7, <1>8
  <2>2. /\ k[1] \in DOMAIN d.rows["characters"]
        /\ {"name", "summary", "speaking_style"} \subseteq DOMAIN d.rows["character_versions"][k]
        /\ d.rows["character_versions"][k].name \in Names
    BY <1>2, <2>1 DEF VersionsInv, Has
  <2>3. /\ DOMAIN rows["character_versions"][k] = DOMAIN d.rows["character_versions"][k]
        /\ rows["character_versions"][k]["name"] = d.rows["character_versions"][k]["name"]
    BY <1>5, <1>6, <1>8, <2>2
  <2> QED
    BY <1>7, <2>2, <2>3 DEF Has
<1>9. ASSUME NEW c \in DOMAIN rows["characters"]
      PROVE  /\ Has(rows["characters"][c], {"current_version", "archived_at"})
             /\ Has(rows["characters"][c], {"name"}) /\ rows["characters"][c].name \in Names
             /\ rows["characters"][c].current_version = d.rows["characters"][c].current_version
  <2>1. c \in DOMAIN d.rows["characters"]
    BY <1>7, <1>9
  <2>2. /\ {"current_version", "archived_at", "name"} \subseteq DOMAIN d.rows["characters"][c]
        /\ d.rows["characters"][c].name \in Names
    BY <1>2, <2>1 DEF VersionsInv, RevisedInv, Has
  <2>3. /\ DOMAIN rows["characters"][c] = DOMAIN d.rows["characters"][c]
        /\ rows["characters"][c]["name"] = d.rows["characters"][c]["name"]
        /\ rows["characters"][c]["current_version"] = d.rows["characters"][c]["current_version"]
    BY <1>5, <1>6, <1>9, <2>2
  <2> QED
    BY <2>2, <2>3 DEF Has
<1>10. ASSUME NEW k \in DOMAIN rows["persona_versions"]
       PROVE  /\ k[1] \in DOMAIN rows["personas"]
              /\ Has(rows["persona_versions"][k], {"name", "traits", "pronouns", "persona_id"})
              /\ rows["persona_versions"][k].name \in Names
              /\ rows["persona_versions"][k].persona_id = k[1]
  <2> DEFINE v == d.rows["persona_versions"][k]
             w == rows["persona_versions"][k]
  <2>1. /\ k \in DOMAIN d.rows["persona_versions"] /\ DOMAIN w = DOMAIN v
        /\ \A c \in DOMAIN v : c # "persona_id" \/ v[c] # p => w[c] = v[c]
        /\ "persona_id" \in DOMAIN v => v["persona_id"] # p
    BY <1>4, <1>5, <1>10 DEF Deleted
  <2>2. /\ k[1] \in DOMAIN d.rows["personas"]
        /\ {"name", "traits", "pronouns", "persona_id"} \subseteq DOMAIN v
        /\ v.name \in Names /\ v.persona_id = k[1]
    BY <1>2, <2>1 DEF VersionsInv, Has
  <2> HIDE DEF v, w
  <2>3. w["name"] = v["name"] /\ w["persona_id"] = v["persona_id"] /\ v["persona_id"] # p
    BY <2>1, <2>2
  <2>4. k[1] \in DOMAIN rows["personas"]
    BY <1>7, <2>2, <2>3
  <2>5. Has(w, {"name", "traits", "pronouns", "persona_id"}) /\ w.name \in Names /\ w.persona_id = k[1]
    BY <2>1, <2>2, <2>3 DEF Has
  <2> QED
    BY <2>2, <2>4, <2>5 DEF w
<1>11. ASSUME NEW j \in DOMAIN rows["personas"]
       PROVE  /\ Has(rows["personas"][j], {"current_version"})
              /\ Has(rows["personas"][j], {"name"}) /\ rows["personas"][j].name \in Names
              /\ rows["personas"][j].current_version = d.rows["personas"][j].current_version
  <2>1. j \in DOMAIN d.rows["personas"]
    BY <1>7, <1>11
  <2>2. /\ {"current_version", "name"} \subseteq DOMAIN d.rows["personas"][j]
        /\ d.rows["personas"][j].name \in Names
    BY <1>2, <2>1 DEF VersionsInv, RevisedInv, Has
  <2>3. /\ DOMAIN rows["personas"][j] = DOMAIN d.rows["personas"][j]
        /\ rows["personas"][j]["name"] = d.rows["personas"][j]["name"]
        /\ rows["personas"][j]["current_version"] = d.rows["personas"][j]["current_version"]
    BY <1>5, <1>6, <1>11, <2>2
  <2> QED
    BY <2>2, <2>3 DEF Has
<1>12. VersionsInv(e)
  <2>1. /\ "archived_at" \in DOMAIN e.tables.characters.cols
        /\ Key("persona_id", "personas", "cascade") \in e.tables.persona_versions.keys
    BY <1>2, <1>3 DEF VersionsInv
  <2> QED
    BY <1>3, <1>8, <1>9, <1>10, <1>11, <2>1 DEF VersionsInv
<1>13. RevisedInv(e)
  <2>1. /\ DefaultOf(e, "characters", "current_version", "1")
        /\ DefaultOf(e, "personas", "current_version", "1")
    BY <1>2, <1>3 DEF RevisedInv, DefaultOf
  <2>2. ASSUME NEW c \in DOMAIN rows["characters"]
        PROVE  \/ <<c, rows["characters"][c].current_version>> \in DOMAIN rows["character_versions"]
               \/ /\ rows["characters"][c].current_version = "1"
                  /\ \A k \in DOMAIN rows["character_versions"] : k[1] # c
    <3>1. \/ <<c, d.rows["characters"][c].current_version>> \in DOMAIN d.rows["character_versions"]
          \/ /\ d.rows["characters"][c].current_version = "1"
             /\ \A k \in DOMAIN d.rows["character_versions"] : k[1] # c
      BY <1>2, <1>7, <2>2 DEF RevisedInv
    <3> QED
      BY <1>7, <1>9, <2>2, <3>1
  <2>3. ASSUME NEW j \in DOMAIN rows["personas"]
        PROVE  \/ <<j, rows["personas"][j].current_version>> \in DOMAIN rows["persona_versions"]
               \/ /\ rows["personas"][j].current_version = "1"
                  /\ \A k \in DOMAIN rows["persona_versions"] : k[1] # j
    <3> DEFINE k == <<j, d.rows["personas"][j].current_version>>
    <3>1. j \in DOMAIN d.rows["personas"] /\ j # p
      BY <1>7, <2>3
    <3>2. \/ k \in DOMAIN d.rows["persona_versions"]
          \/ /\ d.rows["personas"][j].current_version = "1"
             /\ \A l \in DOMAIN d.rows["persona_versions"] : l[1] # j
      BY <1>2, <3>1 DEF RevisedInv
    <3>3. ASSUME k \in DOMAIN d.rows["persona_versions"] PROVE k \in DOMAIN rows["persona_versions"]
      <4>1. k[1] = j
        OBVIOUS
      <4> HIDE DEF k
      <4>2. /\ "persona_id" \in DOMAIN d.rows["persona_versions"][k]
            /\ d.rows["persona_versions"][k].persona_id = j
        BY <1>2, <3>3, <4>1 DEF VersionsInv, Has
      <4> QED
        BY <1>4, <3>1, <3>3, <4>2 DEF Deleted
    <3>4. \A l \in DOMAIN rows["persona_versions"] : l \in DOMAIN d.rows["persona_versions"]
      BY <1>5, <1>6
    <3>5. rows["personas"][j].current_version = d.rows["personas"][j].current_version
      BY <1>11, <2>3
    <3> QED
      BY <3>2, <3>3, <3>4, <3>5
  <2> QED
    BY <1>3, <1>9, <1>11, <2>1, <2>2, <2>3 DEF RevisedInv
<1>14. ASSUME NEW i \in DOMAIN rows["memories"]
       PROVE  /\ MemoryRow(r, rows["memories"][i])
              /\ \A o : Recorded(d.rows["memories"][i], o) => Recorded(rows["memories"][i], o)
  <2> DEFINE m == d.rows["memories"][i]
             q == rows["memories"][i]
  <2>1. /\ i \in DOMAIN d.rows["memories"] /\ DOMAIN q = DOMAIN m
        /\ \A c \in DOMAIN m : c # "persona_id" => q[c] = m[c]
    BY <1>5, <1>6, <1>14
  <2>2. MemoryRow(r, m)
    BY <1>2, <2>1, RowsOfMemories
  <2> HIDE DEF m, q
  <2>3. {"scope", "kind", "status", "legacy_scope", "legacy_kind", "revised_kind"} \subseteq DOMAIN m
    BY <2>2 DEF MemoryRow, Has, MemoryFields
  <2>4. /\ q.scope = m.scope /\ q.kind = m.kind /\ q.legacy_scope = m.legacy_scope
        /\ q.legacy_kind = m.legacy_kind /\ q.revised_kind = m.revised_kind /\ q.status = m.status
    BY <2>1, <2>3
  <2>5. MemoryRow(r, q)
    BY <2>1, <2>2, <2>4 DEF MemoryRow, Has
  <2>6. \A o : Recorded(m, o) => Recorded(q, o)
    BY <2>4 DEF Recorded
  <2> QED
    BY <2>5, <2>6 DEF m, q
<1>15. MemoryInv(r, e)
  <2>1. \A i \in DOMAIN e.rows["memories"] : MemoryRow(r, e.rows["memories"][i])
    BY <1>3, <1>14
  <2> QED
    BY <1>2, <1>3, <2>1, MemoryRows
<1>16. Retained(e, given)
  BY <1>2, <1>3, <1>7, <1>14 DEF Retained
<1>17. TablesThere(r, e)
  BY <1>2, <1>3 DEF TablesThere
<1> QED
  BY <1>0, <1>3, <1>12, <1>13, <1>15, <1>16, <1>17 DEF RevisionInv, r
-----------------------------------------------------------------------------
(* The writes of the two releases, one lemma per action.                   *)

\* A write changes rows only, of a database that has all of its tables.
LEMMA WriteKeeps ==
    ASSUME DataInv, rev \in {LegacyRevision, HeadRevision},
           NEW rows, Written(rows), DOMAIN rows = DOMAIN db.rows
    PROVE  /\ Wrote(db, db', rows)
           /\ RevisionInv(rev, db', origin') => DataInv'
<1>1. db' = [db EXCEPT !.rows = rows] /\ rev' = rev
  BY DEF Written
<1>2. Wrote(db, db', rows)
  BY <1>1 DEF Wrote
<1>3. db.ok = TRUE /\ WellFormed(db) /\ rev \in 0 .. HeadRevision
  BY DEF DataInv, RevisionInv
<1>4. db'.ok = TRUE
  BY <1>1, <1>3 DEF WellFormed, IsDatabase
<1>5. ~ (rev < LegacyRevision)
  BY DEF LegacyRevision, HeadRevision
<1>6. ASSUME RevisionInv(rev, db', origin') PROVE DataInv'
  <2>1. RevisionInv(rev', db', origin')
    BY <1>1, <1>6
  <2> QED
    BY <1>1, <1>3, <1>4, <1>5, <2>1 DEF DataInv
<1> QED
  BY <1>2, <1>6

\* The invariant, and the tables a write needs.
LEMMA TablesToWrite ==
    ASSUME DataInv, rev \in {LegacyRevision, HeadRevision}
    PROVE  /\ RevisionInv(rev, db, origin) /\ AllTables(db)
           /\ \A t \in DOMAIN Kept : t \in DOMAIN db.rows
           /\ {"memories", "characters", "character_versions", "personas", "persona_versions"}
                  \subseteq DOMAIN db.rows
<1>1. RevisionInv(rev, db, origin)
  BY DEF DataInv
<1>2. AllTables(db)
  BY <1>1, TablesComplete
<1>3. {"memories", "characters", "character_versions", "personas", "persona_versions"}
          \subseteq DOMAIN db.rows
  BY <1>2 DEF AllTables
<1>4. DOMAIN Kept = {"memories", "characters", "character_versions", "personas", "persona_versions"}
  BY DEF Kept
<1> QED
  BY <1>1, <1>2, <1>3, <1>4

\* One field of one row is assigned.
LEMMA FieldKeeps ==
    ASSUME NEW t, t \in DOMAIN db.rows, NEW i, NEW c, NEW v, NEW rows,
           rows = [db.rows EXCEPT ![t][i][c] = v]
    PROVE  DOMAIN rows = DOMAIN db.rows /\ Amended(db.rows, rows, t, i, c, v)
BY FieldWritten

\* LegacyRetire keeps the invariant.
LEMMA RetireKeeps ==
    ASSUME DataInv, NEW id, LegacyRetire(id)
    PROVE  DataInv'
<1>1. rev = LegacyRevision /\ rev \in {LegacyRevision, HeadRevision} /\ origin' = origin
  BY DEF LegacyRetire, LegacyRunning, NoOrigin
<1>2. RevisionInv(rev, db, origin) /\ "memories" \in DOMAIN db.rows
  BY <1>1, TablesToWrite
<1>3. CASE \E s \in {"superseded", "archived"} : Written([Rows EXCEPT !.memories[id].status = s])
  <2>1. PICK s \in {"superseded", "archived"} : Written([Rows EXCEPT !.memories[id].status = s])
    BY <1>3
  <2> DEFINE rows == [db.rows EXCEPT !["memories"][id]["status"] = s]
  <2>2. Written(rows)
    BY <2>1 DEF Rows
  <2>3. DOMAIN rows = DOMAIN db.rows /\ Amended(db.rows, rows, "memories", id, "status", s)
    BY <1>2, FieldKeeps
  <2> HIDE DEF rows
  <2>4. Wrote(db, db', rows) /\ (RevisionInv(rev, db', origin') => DataInv')
    BY <1>1, <2>2, <2>3, WriteKeeps
  <2>5. s \in LegacyStatuses
    BY DEF LegacyStatuses
  <2>6. RevisionInv(rev, db', origin)
    BY <1>1, <1>2, <2>3, <2>4, <2>5, MemoryMarked
  <2> QED
    BY <1>1, <2>4, <2>6
<1>4. CASE Written([Rows EXCEPT !.memories[id].expires_at = "past"])
  <2> DEFINE rows == [db.rows EXCEPT !["memories"][id]["expires_at"] = "past"]
  <2>2. Written(rows)
    BY <1>4 DEF Rows
  <2>3. DOMAIN rows = DOMAIN db.rows /\ Amended(db.rows, rows, "memories", id, "expires_at", "past")
    BY <1>2, FieldKeeps
  <2> HIDE DEF rows
  <2>4. Wrote(db, db', rows) /\ (RevisionInv(rev, db', origin') => DataInv')
    BY <1>1, <2>2, <2>3, WriteKeeps
  <2>6. RevisionInv(rev, db', origin)
    BY <1>1, <1>2, <2>3, <2>4, MemoryMarked
  <2> QED
    BY <1>1, <2>4, <2>6
<1> QED
  BY <1>3, <1>4 DEF LegacyRetire

\* What the row of an INSERT has: what it gives, and the defaults of the rest.
Inserted(row, given, cols) ==
    /\ DOMAIN given \subseteq DOMAIN row
    /\ \A c \in DOMAIN given : row[c] = given[c]
    /\ cols \subseteq DOMAIN row

\* NewRow gives what is given and the defaults.
LEMMA RowInserted ==
    ASSUME NEW t, NEW given
    PROVE  /\ Inserted(NewRow(t, given), given, Kept[t] \cap DOMAIN db.tables[t].cols)
           /\ \A c \in (Kept[t] \cap DOMAIN db.tables[t].cols) \ DOMAIN given :
                 NewRow(t, given)[c] = db.tables[t].cols[c].default
BY DEF NewRow, Filled, Inserted

\* NewMemoryRow gives the fields of the metadata besides.
LEMMA NotesInserted ==
    ASSUME NEW given
    PROVE  Inserted(NewMemoryRow(given), given,
                    (Kept["memories"] \cap DOMAIN db.tables["memories"].cols)
                        \cup {"legacy_scope", "legacy_kind", "revised_kind"})
<1> DEFINE row == NewRow("memories", given)
<1>1. Inserted(row, given, Kept["memories"] \cap DOMAIN db.tables["memories"].cols)
  BY RowInserted
<1>2. NewMemoryRow(given) = Filled(row, NoNotes)
  BY DEF NewMemoryRow
<1>3. DOMAIN NoNotes = {"legacy_scope", "legacy_kind", "revised_kind"}
  BY DEF NoNotes
<1> HIDE DEF row
<1> QED
  BY <1>1, <1>2, <1>3 DEF Inserted, Filled

\* The columns that a new memory takes its defaults from.
LEMMA MemoryColumns ==
    ASSUME NEW r, MemoryInv(r, db)
    PROVE  /\ "expires_at" \in Kept["memories"] \cap DOMAIN db.tables["memories"].cols
           /\ r > LegacyRevision =>
                 /\ "status" \in Kept["memories"] \cap DOMAIN db.tables["memories"].cols
                 /\ db.tables["memories"].cols["status"].default = NULL
<1>1. "expires_at" \in Kept["memories"] /\ "status" \in Kept["memories"]
  BY DEF Kept
<1> QED
  BY <1>1 DEF MemoryInv, DefaultOf

\* LegacyRemember keeps the invariant, renewing a memory or adding one.
LEMMA LegacyRememberKeeps ==
    ASSUME DataInv, NEW scope, NEW kind, NEW c, NEW p, LegacyRemember(scope, kind, c, p)
    PROVE  DataInv'
<1> DEFINE given == [scope |-> scope, kind |-> kind, status |-> "active", normalized_key |-> "key",
                     conversation_id |-> BoundConversation(scope),
                     character_id |-> BoundCharacter(scope, c), persona_id |-> p]
           new == NewMemoryRow(given)
           existing == {i \in DOMAIN Rows.memories :
                            Rows.memories[i].status = "active" /\ SameIdentity(Rows.memories[i], new)}
<1>1. rev = LegacyRevision /\ rev \in {LegacyRevision, HeadRevision}
      /\ scope \in LegacyScopes /\ kind \in LegacyKinds
  BY DEF LegacyRemember, LegacyRunning
<1>2. RevisionInv(rev, db, origin) /\ "memories" \in DOMAIN db.rows
  BY <1>1, TablesToWrite
<1>3. IF existing = {}
      THEN /\ MemoryRoom
           /\ Written(Put("memories", NewMemory, new)) /\ Born(NewMemory, scope, kind)
      ELSE \E i \in existing :
             /\ Written([Rows EXCEPT !.memories[i].kind = kind])
             /\ origin' = [origin EXCEPT ![i].kind = kind]
  BY DEF LegacyRemember
<1>4. CASE existing = {}
  <2> DEFINE rows == [db.rows EXCEPT !["memories"] = With(db.rows["memories"], NewMemory, new)]
  <2>1. Written(rows) /\ Born(NewMemory, scope, kind)
    BY <1>3, <1>4 DEF Put, Rows
  <2>2. Placed(db.rows, rows, "memories", NewMemory, new)
    BY <1>2, RowPlaced
  <2>3. DOMAIN rows = DOMAIN db.rows
    OBVIOUS
  <2> HIDE DEF rows
  <2>4. Wrote(db, db', rows) /\ (RevisionInv(rev, db', origin') => DataInv')
    BY <1>1, <2>1, <2>3, WriteKeeps
  <2>5. MemoryRow(rev, new) /\ new.scope = scope /\ new.kind = kind
    <3>1. MemoryInv(rev, db)
      BY <1>1, <1>2 DEF RevisionInv, LegacyRevision
    <3>2. Inserted(new, given, (Kept["memories"] \cap DOMAIN db.tables["memories"].cols)
                        \cup {"legacy_scope", "legacy_kind", "revised_kind"})
      BY NotesInserted
    <3>3. DOMAIN given = {"scope", "kind", "status", "normalized_key", "conversation_id",
                          "character_id", "persona_id"}
          /\ given.scope = scope /\ given.kind = kind /\ given.status = "active"
      OBVIOUS
    <3> HIDE DEF given, new
    <3>4. new.scope = scope /\ new.kind = kind /\ new.status = "active"
          /\ {"scope", "kind", "status"} \subseteq DOMAIN new
          /\ {"expires_at", "legacy_scope", "legacy_kind", "revised_kind"} \subseteq DOMAIN new
      BY <3>1, <3>2, <3>3, MemoryColumns DEF Inserted
    <3>5. Has(new, MemoryFields)
      BY <3>4 DEF Has, MemoryFields
    <3>6. "active" \in LegacyStatuses
      BY DEF LegacyStatuses
    <3>7. ~ (rev > LegacyRevision)
      BY <1>1 DEF LegacyRevision
    <3> QED
      BY <1>1, <3>4, <3>5, <3>6, <3>7 DEF MemoryRow
  <2> HIDE DEF new
  <2>6. RevisionInv(rev, db', With(origin, NewMemory, [scope |-> new.scope, kind |-> new.kind]))
    BY <1>1, <1>2, <2>2, <2>4, <2>5, MemoryAdded
  <2>7. RevisionInv(rev, db', origin')
    BY <2>1, <2>5, <2>6 DEF Born
  <2> QED
    BY <2>4, <2>7
<1>5. CASE existing # {}
  <2>1. PICK i : /\ Written([Rows EXCEPT !.memories[i].kind = kind])
                 /\ origin' = [origin EXCEPT ![i].kind = kind]
    BY <1>3, <1>5
  <2> DEFINE rows == [db.rows EXCEPT !["memories"][i]["kind"] = kind]
  <2>2. Written(rows)
    BY <2>1 DEF Rows
  <2>3. DOMAIN rows = DOMAIN db.rows /\ Amended(db.rows, rows, "memories", i, "kind", kind)
    BY <1>2, FieldKeeps
  <2> HIDE DEF rows
  <2>4. Wrote(db, db', rows) /\ (RevisionInv(rev, db', origin') => DataInv')
    BY <1>1, <2>2, <2>3, WriteKeeps
  <2>5. RevisionInv(LegacyRevision, db', [origin EXCEPT ![i].kind = kind])
    BY <1>1, <1>2, <2>3, <2>4, KindRenewed
  <2> QED
    BY <1>1, <2>1, <2>4, <2>5
<1> QED
  BY <1>4, <1>5

\* Fields of a character or a persona, in either release.
LEMMA FieldsKeep ==
    ASSUME DataInv, rev \in {LegacyRevision, HeadRevision}, NoOrigin,
           NEW rows, Written(rows),
           Retouched(db.rows, rows, "characters") \/ Retouched(db.rows, rows, "personas")
    PROVE  DataInv'
<1>1. RevisionInv(rev, db, origin)
  BY TablesToWrite
<1>2. DOMAIN rows = DOMAIN db.rows
  BY DEF Retouched
<1>3. Wrote(db, db', rows) /\ (RevisionInv(rev, db', origin') => DataInv')
  BY <1>2, WriteKeeps
<1>4. RevisionInv(rev, db', origin)
  BY <1>1, <1>3, CharacterRetouched, PersonaRetouched
<1> QED
  BY <1>3, <1>4 DEF NoOrigin

\* One field of an owner.
LEMMA OwnerFieldKeeps ==
    ASSUME DataInv, rev \in {LegacyRevision, HeadRevision}, NoOrigin,
           NEW t \in {"characters", "personas"}, NEW i, NEW c \in {"archived_at", "is_active"}, NEW v,
           Written([db.rows EXCEPT ![t][i][c] = v])
    PROVE  DataInv'
<1> DEFINE rows == [db.rows EXCEPT ![t][i][c] = v]
<1>1. t \in DOMAIN db.rows
  BY TablesToWrite
<1>2. Retouched(db.rows, rows, t)
  BY <1>1, FieldRetouched
<1>3. Written(rows)
  OBVIOUS
<1> HIDE DEF rows
<1> QED
  BY <1>2, <1>3, FieldsKeep

\* The same of a memory.
LEMMA MemoryFieldKeeps ==
    ASSUME DataInv, rev \in {LegacyRevision, HeadRevision}, NoOrigin,
           NEW i, NEW c \in {"status", "expires_at", "archived_at"}, NEW v,
           c = "status" => v \in LegacyStatuses,
           Written([db.rows EXCEPT !["memories"][i][c] = v])
    PROVE  DataInv'
<1> DEFINE rows == [db.rows EXCEPT !["memories"][i][c] = v]
<1>1. RevisionInv(rev, db, origin) /\ "memories" \in DOMAIN db.rows
  BY TablesToWrite
<1>2. Written(rows)
  OBVIOUS
<1>3. DOMAIN rows = DOMAIN db.rows /\ Amended(db.rows, rows, "memories", i, c, v)
  BY <1>1, FieldKeeps
<1> HIDE DEF rows
<1>4. Wrote(db, db', rows) /\ (RevisionInv(rev, db', origin') => DataInv')
  BY <1>2, <1>3, WriteKeeps
<1>5. RevisionInv(rev, db', origin)
  BY <1>1, <1>3, <1>4, MemoryMarked
<1> QED
  BY <1>4, <1>5 DEF NoOrigin

\* The archive actions keep the invariant.
LEMMA ArchivesKeep ==
    ASSUME DataInv, NEW c,
           \/ LegacyArchiveCharacter(c) \/ ArchiveCharacter(c)
           \/ LegacyArchivePersona(c) \/ ArchiveMemory(c)
    PROVE  DataInv'
<1>1. NoOrigin /\ rev \in {LegacyRevision, HeadRevision}
  BY DEF LegacyArchiveCharacter, ArchiveCharacter, LegacyArchivePersona, ArchiveMemory,
         LegacyRunning, Running
<1>2. \/ Written([db.rows EXCEPT !["characters"][c]["archived_at"] = "then"])
      \/ Written([db.rows EXCEPT !["characters"][c]["is_active"] = "false"])
      \/ Written([db.rows EXCEPT !["personas"][c]["archived_at"] = "then"])
      \/ Written([db.rows EXCEPT !["memories"][c]["archived_at"] = "then"])
  BY DEF LegacyArchiveCharacter, ArchiveCharacter, LegacyArchivePersona, ArchiveMemory, Rows
<1> QED
  BY <1>1, <1>2, OwnerFieldKeeps, MemoryFieldKeeps

\* The updates write the texts of a profile, or that a character is active.
LEMMA UpdatesWrite ==
    ASSUME NEW i, NEW profile
    PROVE  /\ UpdateCharacter(i, profile) =>
                 \/ Written(CharacterTexted(db.rows, i, profile))
                 \/ Written([db.rows EXCEPT !["characters"][i]["is_active"] = "true"])
           /\ UpdatePersona(i, profile) => Written(PersonaTexted(db.rows, i, profile))
BY DEF UpdateCharacter, UpdatePersona, CharacterTexted, PersonaTexted, Rows

\* Both updates keep the invariant.
LEMMA UpdatesKeep ==
    ASSUME DataInv, NEW i, NEW profile, profile.name \in Names,
           UpdateCharacter(i, profile) \/ UpdatePersona(i, profile)
    PROVE  DataInv'
<1>1. NoOrigin /\ rev \in {LegacyRevision, HeadRevision}
  BY DEF UpdateCharacter, UpdatePersona, Running
<1>2. "characters" \in DOMAIN db.rows /\ "personas" \in DOMAIN db.rows
  BY <1>1, TablesToWrite
<1>3. \/ Written(CharacterTexted(db.rows, i, profile))
      \/ Written(PersonaTexted(db.rows, i, profile))
      \/ Written([db.rows EXCEPT !["characters"][i]["is_active"] = "true"])
  BY UpdatesWrite
<1>4. /\ Retouched(db.rows, CharacterTexted(db.rows, i, profile), "characters")
      /\ Retouched(db.rows, PersonaTexted(db.rows, i, profile), "personas")
  BY <1>2, TextsRetouched
<1>5. CASE \/ Written(CharacterTexted(db.rows, i, profile))
           \/ Written(PersonaTexted(db.rows, i, profile))
  BY <1>1, <1>4, <1>5, FieldsKeep
<1>6. CASE Written([db.rows EXCEPT !["characters"][i]["is_active"] = "true"])
  BY <1>1, <1>6, OwnerFieldKeeps
<1> QED
  BY <1>3, <1>5, <1>6

\* LegacyWriteCharacter keeps the invariant: a character gets its version
\* with it.
LEMMA LegacyWriteCharacterKeeps ==
    ASSUME DataInv, NEW c, NEW profile, profile.name \in Names, LegacyWriteCharacter(c, profile)
    PROVE  DataInv'
<1> DEFINE v == IF Free("characters", c) THEN "1" ELSE "2"
           version == [character_id |-> c, version |-> v, name |-> profile.name,
                       summary |-> profile.summary, speaking_style |-> profile.speaking_style]
           given == [current_version |-> v]
           row == IF v = "1" THEN NewRow("characters", given)
                  ELSE [Rows.characters[c] EXCEPT !.current_version = v]
           mid == [db.rows EXCEPT !["character_versions"] =
                      With(db.rows["character_versions"], <<c, v>>, version)]
           rows == [mid EXCEPT !["characters"] = With(mid["characters"], c, row)]
<1>1. rev = LegacyRevision /\ rev \in {LegacyRevision, HeadRevision} /\ origin' = origin
  BY DEF LegacyWriteCharacter, LegacyRunning, NoOrigin
<1>2. RevisionInv(rev, db, origin) /\ "characters" \in DOMAIN db.rows
      /\ "character_versions" \in DOMAIN db.rows
  BY <1>1, TablesToWrite
<1>3. Written(rows)
  BY DEF LegacyWriteCharacter, Put, Rows
<1>4. Placed(db.rows, mid, "character_versions", <<c, v>>, version)
  BY <1>2, RowPlaced
<1>5. DOMAIN mid = DOMAIN db.rows /\ mid["characters"] = db.rows["characters"]
  OBVIOUS
<1>6. VersionsInv(db)
  BY <1>1, <1>2 DEF RevisionInv, LegacyRevision
<1>7. {"current_version", "archived_at"} \subseteq DOMAIN row /\ row.current_version = v
  <2>1. CASE Free("characters", c)
    <3>1. Inserted(NewRow("characters", given), given, Kept["characters"] \cap DOMAIN db.tables["characters"].cols)
      BY RowInserted
    <3>2. DOMAIN given = {"current_version"} /\ given.current_version = v
      OBVIOUS
    <3>3. "archived_at" \in Kept["characters"] \cap DOMAIN db.tables["characters"].cols
      BY <1>6 DEF Kept, VersionsInv
    <3>4. row = NewRow("characters", given)
      BY <2>1
    <3> HIDE DEF row, given, v
    <3> QED
      BY <3>1, <3>2, <3>3, <3>4 DEF Inserted
  <2>2. CASE ~Free("characters", c)
    <3>1. c \in DOMAIN db.rows["characters"]
      BY <2>2 DEF Free, Rows
    <3>2. Has(db.rows["characters"][c], {"current_version", "archived_at"})
      BY <1>6, <3>1 DEF VersionsInv
    <3>3. row = [db.rows["characters"][c] EXCEPT !.current_version = v]
      BY <2>2 DEF Rows
    <3> HIDE DEF row, v
    <3> QED
      BY <3>2, <3>3 DEF Has
  <2> QED
    BY <2>1, <2>2
<1>8. {"name", "summary", "speaking_style"} \subseteq DOMAIN version /\ version.name \in Names
  OBVIOUS
<1> HIDE DEF row, mid, version, v
<1>9. Placed(mid, rows, "characters", c, row)
  BY <1>2, <1>5, RowPlaced
<1>10. DOMAIN rows = DOMAIN db.rows
  BY <1>5
<1> HIDE DEF rows
<1>11. Wrote(db, db', rows) /\ (RevisionInv(rev, db', origin') => DataInv')
  BY <1>1, <1>3, <1>10, WriteKeeps
<1>12. RevisionInv(LegacyRevision, db', origin)
  BY <1>1, <1>2, <1>4, <1>7, <1>8, <1>9, <1>11, CharacterWritten
<1> QED
  BY <1>1, <1>11, <1>12

\* So does LegacyWritePersona.
LEMMA LegacyWritePersonaKeeps ==
    ASSUME DataInv, NEW p, NEW profile, profile.name \in Names, LegacyWritePersona(p, profile)
    PROVE  DataInv'
<1> DEFINE v == IF Free("personas", p) THEN "1" ELSE "2"
           version == [persona_id |-> p, version |-> v, name |-> profile.name,
                       traits |-> profile.traits, pronouns |-> profile.pronouns]
           given == [current_version |-> v]
           row == IF v = "1" THEN NewRow("personas", given)
                  ELSE [Rows.personas[p] EXCEPT !.current_version = v]
           mid == [db.rows EXCEPT !["persona_versions"] =
                      With(db.rows["persona_versions"], <<p, v>>, version)]
           rows == [mid EXCEPT !["personas"] = With(mid["personas"], p, row)]
<1>1. rev = LegacyRevision /\ rev \in {LegacyRevision, HeadRevision} /\ origin' = origin
  BY DEF LegacyWritePersona, LegacyRunning, NoOrigin
<1>2. RevisionInv(rev, db, origin) /\ "personas" \in DOMAIN db.rows
      /\ "persona_versions" \in DOMAIN db.rows
  BY <1>1, TablesToWrite
<1>3. Written(rows)
  BY DEF LegacyWritePersona, Put, Rows
<1>4. Placed(db.rows, mid, "persona_versions", <<p, v>>, version)
  BY <1>2, RowPlaced
<1>5. DOMAIN mid = DOMAIN db.rows /\ mid["personas"] = db.rows["personas"]
  OBVIOUS
<1>6. VersionsInv(db)
  BY <1>1, <1>2 DEF RevisionInv, LegacyRevision
<1>7. "current_version" \in DOMAIN row /\ row.current_version = v
  <2>1. CASE Free("personas", p)
    <3>1. Inserted(NewRow("personas", given), given, Kept["personas"] \cap DOMAIN db.tables["personas"].cols)
      BY RowInserted
    <3>2. DOMAIN given = {"current_version"} /\ given.current_version = v
      OBVIOUS
    <3>4. row = NewRow("personas", given)
      BY <2>1
    <3> HIDE DEF row, given, v
    <3> QED
      BY <3>1, <3>2, <3>4 DEF Inserted
  <2>2. CASE ~Free("personas", p)
    <3>1. p \in DOMAIN db.rows["personas"]
      BY <2>2 DEF Free, Rows
    <3>2. Has(db.rows["personas"][p], {"current_version"})
      BY <1>6, <3>1 DEF VersionsInv
    <3>3. row = [db.rows["personas"][p] EXCEPT !.current_version = v]
      BY <2>2 DEF Rows
    <3> HIDE DEF row, v
    <3> QED
      BY <3>2, <3>3 DEF Has
  <2> QED
    BY <2>1, <2>2
<1>8. {"name", "traits", "pronouns", "persona_id"} \subseteq DOMAIN version
      /\ version.name \in Names /\ version.persona_id = p
  OBVIOUS
<1> HIDE DEF row, mid, version, v
<1>9. Placed(mid, rows, "personas", p, row)
  BY <1>2, <1>5, RowPlaced
<1>10. DOMAIN rows = DOMAIN db.rows
  BY <1>5
<1> HIDE DEF rows
<1>11. Wrote(db, db', rows) /\ (RevisionInv(rev, db', origin') => DataInv')
  BY <1>1, <1>3, <1>10, WriteKeeps
<1>12. RevisionInv(LegacyRevision, db', origin)
  BY <1>1, <1>2, <1>4, <1>7, <1>8, <1>9, <1>11, PersonaWritten
<1> QED
  BY <1>1, <1>11, <1>12

\* Remember keeps the invariant.
LEMMA RememberKeeps ==
    ASSUME DataInv, NEW scope, NEW kind, NEW c, Remember(scope, kind, c)
    PROVE  DataInv'
<1> DEFINE given == [scope |-> scope, kind |-> kind, archived_at |-> NULL,
                     conversation_id |-> IF scope = "user" THEN NULL ELSE Conv,
                     character_id |-> IF scope = "user" THEN NULL ELSE c]
           new == NewMemoryRow(given)
           rows == [db.rows EXCEPT !["memories"] = With(db.rows["memories"], NewMemory, new)]
<1>1. rev = HeadRevision /\ rev \in {LegacyRevision, HeadRevision}
      /\ scope \in MemoryScope /\ kind \in MemoryKind
  BY DEF Remember, Running
<1>2. RevisionInv(rev, db, origin) /\ "memories" \in DOMAIN db.rows
  BY <1>1, TablesToWrite
<1>3. Written(rows) /\ Born(NewMemory, scope, kind)
  BY DEF Remember, Put, Rows
<1>4. Placed(db.rows, rows, "memories", NewMemory, new)
  BY <1>2, RowPlaced
<1>5. DOMAIN rows = DOMAIN db.rows
  OBVIOUS
<1> HIDE DEF rows
<1>6. Wrote(db, db', rows) /\ (RevisionInv(rev, db', origin') => DataInv')
  BY <1>1, <1>3, <1>5, WriteKeeps
<1>7. MemoryRow(rev, new) /\ new.scope = scope /\ new.kind = kind
  <2>1. MemoryInv(rev, db) /\ rev > LegacyRevision /\ rev # LegacyRevision
    BY <1>1, <1>2 DEF RevisionInv, LegacyRevision, HeadRevision
  <2> DEFINE cols == Kept["memories"] \cap DOMAIN db.tables["memories"].cols
  <2>2. Inserted(new, given, cols \cup {"legacy_scope", "legacy_kind", "revised_kind"})
    BY NotesInserted
  <2>3. DOMAIN given = {"scope", "kind", "archived_at", "conversation_id", "character_id"}
        /\ given.scope = scope /\ given.kind = kind
    OBVIOUS
  <2>4. "expires_at" \in cols /\ "status" \in cols /\ db.tables["memories"].cols["status"].default = NULL
    BY <2>1, MemoryColumns
  <2>5. new.status = NULL
    <3>1. new = Filled(NewRow("memories", given), NoNotes)
      BY DEF NewMemoryRow
    <3>2. Inserted(NewRow("memories", given), given, cols)
          /\ \A f \in cols \ DOMAIN given :
                NewRow("memories", given)[f] = db.tables["memories"].cols[f].default
      BY RowInserted
    <3> HIDE DEF given, new, cols
    <3>3. NewRow("memories", given).status = NULL /\ "status" \in DOMAIN NewRow("memories", given)
      BY <2>3, <2>4, <3>2 DEF Inserted
    <3> QED
      BY <3>1, <3>3 DEF Filled
  <2> HIDE DEF given, new, cols
  <2>6. new.scope = scope /\ new.kind = kind
        /\ {"scope", "kind", "archived_at"} \subseteq DOMAIN new
        /\ {"expires_at", "status", "legacy_scope", "legacy_kind", "revised_kind"} \subseteq DOMAIN new
    BY <2>2, <2>3, <2>4 DEF Inserted
  <2>7. Has(new, MemoryFields) /\ Has(new, {"archived_at"})
    BY <2>6 DEF Has, MemoryFields
  <2> QED
    BY <1>1, <2>1, <2>5, <2>6, <2>7 DEF MemoryRow
<1> HIDE DEF new
<1>8. RevisionInv(rev, db', With(origin, NewMemory, [scope |-> new.scope, kind |-> new.kind]))
  BY <1>1, <1>2, <1>4, <1>6, <1>7, MemoryAdded
<1>9. RevisionInv(rev, db', origin')
  BY <1>3, <1>7, <1>8 DEF Born
<1> QED
  BY <1>6, <1>9

\* CreateCharacter keeps the invariant: the column default gives it version 1.
LEMMA CreateCharacterKeeps ==
    ASSUME DataInv, NEW c, NEW profile, profile.name \in Names, CreateCharacter(c, profile)
    PROVE  DataInv'
<1> DEFINE given == [name |-> profile.name, tagline |-> profile.tagline,
                     description |-> profile.summary, is_active |-> "true"]
           row == NewRow("characters", given)
           rows == [db.rows EXCEPT !["characters"] = With(db.rows["characters"], c, row)]
<1>1. rev = HeadRevision /\ rev \in {LegacyRevision, HeadRevision} /\ origin' = origin
      /\ c \notin DOMAIN db.rows["characters"]
  BY DEF CreateCharacter, Running, NoOrigin, Free, Rows
<1>2. RevisionInv(rev, db, origin) /\ "characters" \in DOMAIN db.rows
  BY <1>1, TablesToWrite
<1>3. Written(rows)
  BY DEF CreateCharacter, Put, Rows
<1>4. Placed(db.rows, rows, "characters", c, row)
  BY <1>2, RowPlaced
<1>5. DOMAIN rows = DOMAIN db.rows
  OBVIOUS
<1> HIDE DEF rows
<1>6. Wrote(db, db', rows) /\ (RevisionInv(rev, db', origin') => DataInv')
  BY <1>1, <1>3, <1>5, WriteKeeps
<1>7. {"name", "current_version", "archived_at"} \subseteq DOMAIN row
      /\ row.name \in Names /\ row.current_version = "1"
  <2> DEFINE cols == Kept["characters"] \cap DOMAIN db.tables["characters"].cols
  <2>1. VersionsInv(db) /\ RevisedInv(db)
    BY <1>1, <1>2 DEF RevisionInv, LegacyRevision, HeadRevision
  <2>2. Inserted(row, given, cols)
        /\ \A f \in cols \ DOMAIN given : row[f] = db.tables["characters"].cols[f].default
    BY RowInserted
  <2>3. "archived_at" \in cols /\ "current_version" \in cols
        /\ db.tables["characters"].cols["current_version"].default = "1"
    BY <2>1 DEF VersionsInv, RevisedInv, DefaultOf, Kept
  <2>4. DOMAIN given = {"name", "tagline", "description", "is_active"} /\ given.name = profile.name
    OBVIOUS
  <2> HIDE DEF given, row, cols
  <2> QED
    BY <2>2, <2>3, <2>4 DEF Inserted
<1> HIDE DEF row
<1>8. RevisionInv(HeadRevision, db', origin)
  BY <1>1, <1>2, <1>4, <1>6, <1>7, CharacterCreated
<1> QED
  BY <1>1, <1>6, <1>8

\* So does CreatePersona.
LEMMA CreatePersonaKeeps ==
    ASSUME DataInv, NEW p, NEW profile, profile.name \in Names, CreatePersona(p, profile)
    PROVE  DataInv'
<1> DEFINE given == [name |-> profile.name, instructions |-> profile.instructions,
                     is_default |-> "false", attributes_traits |-> profile.traits,
                     attributes_pronouns |-> profile.pronouns]
           row == NewRow("personas", given)
           rows == [db.rows EXCEPT !["personas"] = With(db.rows["personas"], p, row)]
<1>1. rev = HeadRevision /\ rev \in {LegacyRevision, HeadRevision} /\ origin' = origin
      /\ p \notin DOMAIN db.rows["personas"]
  BY DEF CreatePersona, Running, NoOrigin, Free, Rows
<1>2. RevisionInv(rev, db, origin) /\ "personas" \in DOMAIN db.rows
  BY <1>1, TablesToWrite
<1>3. Written(rows)
  BY DEF CreatePersona, Put, Rows
<1>4. Placed(db.rows, rows, "personas", p, row)
  BY <1>2, RowPlaced
<1>5. DOMAIN rows = DOMAIN db.rows
  OBVIOUS
<1> HIDE DEF rows
<1>6. Wrote(db, db', rows) /\ (RevisionInv(rev, db', origin') => DataInv')
  BY <1>1, <1>3, <1>5, WriteKeeps
<1>7. {"name", "current_version"} \subseteq DOMAIN row
      /\ row.name \in Names /\ row.current_version = "1"
  <2> DEFINE cols == Kept["personas"] \cap DOMAIN db.tables["personas"].cols
  <2>1. RevisedInv(db)
    BY <1>1, <1>2 DEF RevisionInv, LegacyRevision, HeadRevision
  <2>2. Inserted(row, given, cols)
        /\ \A f \in cols \ DOMAIN given : row[f] = db.tables["personas"].cols[f].default
    BY RowInserted
  <2>3. "current_version" \in cols /\ db.tables["personas"].cols["current_version"].default = "1"
    BY <2>1 DEF RevisedInv, DefaultOf, Kept
  <2>4. /\ DOMAIN given = {"name", "instructions", "is_default", "attributes_traits",
                          "attributes_pronouns"}
        /\ given.name = profile.name
    OBVIOUS
  <2> HIDE DEF given, row, cols
  <2> QED
    BY <2>2, <2>3, <2>4 DEF Inserted
<1> HIDE DEF row
<1>8. RevisionInv(HeadRevision, db', origin)
  BY <1>1, <1>2, <1>4, <1>6, <1>7, PersonaCreated
<1> QED
  BY <1>1, <1>6, <1>8

\* DeletePersona keeps the invariant: its versions go with a persona, its
\* memories stay.
LEMMA DeletePersonaKeeps ==
    ASSUME DataInv, NEW p, DeletePersona(p)
    PROVE  DataInv'
<1> DEFINE rows == DeleteRow(db, "personas", p).rows
<1>1. rev = HeadRevision /\ rev \in {LegacyRevision, HeadRevision} /\ origin' = origin
  BY DEF DeletePersona, Running, NoOrigin
<1>2. RevisionInv(rev, db, origin) /\ "personas" \in DOMAIN db.rows
  BY <1>1, TablesToWrite
<1>3. Written(rows)
  BY DEF DeletePersona
<1>4. DOMAIN rows = DOMAIN db.rows
  <2>1. db = [tables |-> db.tables, rows |-> db.rows, ok |-> db.ok]
    BY <1>2 DEF RevisionInv, WellFormed, IsDatabase
  <2> QED
    BY <2>1 DEF DeleteRow
<1> HIDE DEF rows
<1>5. Wrote(db, db', rows) /\ (RevisionInv(rev, db', origin') => DataInv')
  BY <1>1, <1>3, <1>4, WriteKeeps
<1>6. RevisionInv(HeadRevision, db', origin)
  BY <1>1, <1>2, <1>5, PersonaDeleted DEF rows
<1> QED
  BY <1>1, <1>5, <1>6

-----------------------------------------------------------------------------
(* The commands.                                                           *)

\* What is kept of the values given when the table of memories goes.
LEMMA OriginForgotten ==
    ASSUME NEW r \in 0 .. HeadRevision, NEW d, NEW given, RevisionInv(r, d, given), NEW after,
           after = IF "memories" \in DOMAIN d.tables THEN given ELSE <<>>
    PROVE  RevisionInv(r, d, after) /\ (r < LegacyRevision => after = <<>>)
<1>1. "memories" \in DOMAIN d.tables <=> r >= LegacyRevision
  BY DEF RevisionInv, TablesThere
<1>2. CASE r >= LegacyRevision
  <2>1. after = given /\ ~ (r < LegacyRevision)
    BY <1>1, <1>2 DEF LegacyRevision, HeadRevision
  <2> QED
    BY <2>1
<1>3. CASE ~ (r >= LegacyRevision)
  BY <1>1, <1>3 DEF RevisionInv
<1> QED
  BY <1>2, <1>3

\* A command keeps the invariant when its result is sane, or is refused and
\* rolled back.
LEMMA FinishKeeps ==
    ASSUME DataInv, NEW command, NEW target \in 0 .. HeadRevision, NEW result,
           Finish(command, target, result), Sane(target, result, origin)
    PROVE  DataInv'
<1>1. origin' = IF "memories" \in DOMAIN db'.tables THEN origin ELSE <<>>
  BY DEF Finish
<1>2. CASE result.ok = TRUE
  <2>1. rev' = target /\ db' = result
    BY <1>2 DEF Finish
  <2>2. RevisionInv(target, db', origin)
    BY <1>2, <2>1 DEF Sane
  <2>3. RevisionInv(target, db', origin') /\ (target < LegacyRevision => origin' = <<>>)
    BY <1>1, <2>2, OriginForgotten
  <2>4. db'.ok = TRUE
    BY <1>2, <2>1
  <2>5. RevisionInv(rev', db', origin')
    BY <2>1, <2>3
  <2> QED
    BY <2>1, <2>3, <2>4, <2>5 DEF DataInv
<1>3. CASE result.ok # TRUE
  <2>1. result.ok = FALSE
    BY <1>3 DEF Sane, IsDatabase
  <2>2. rev' = rev /\ db' = db
    BY <2>1 DEF Finish
  <2>3. rev \in 0 .. HeadRevision /\ db.ok = TRUE /\ RevisionInv(rev, db, origin)
    BY DEF DataInv
  <2>4. origin' = IF "memories" \in DOMAIN db.tables THEN origin ELSE <<>>
    BY <1>1, <2>2
  <2>5. RevisionInv(rev, db, origin') /\ (rev < LegacyRevision => origin' = <<>>)
    BY <2>3, <2>4, OriginForgotten
  <2>6. RevisionInv(rev', db', origin')
    BY <2>2, <2>5
  <2> QED
    BY <2>2, <2>3, <2>5, <2>6 DEF DataInv
<1> QED
  BY <1>2, <1>3

\* The database is sane at every state.
LEMMA DataSane ==
    ASSUME DataInv
    PROVE  rev \in 0 .. HeadRevision /\ Sane(rev, db, origin) /\ (rev < LegacyRevision => origin = <<>>)
BY DEF DataInv, Sane, RevisionInv, WellFormed

\* Both commands keep the invariant.
LEMMA CommandsKeep ==
    ASSUME DataInv, NEW target \in Targets, AlembicUpgrade(target) \/ AlembicDowngrade(target)
    PROVE  DataInv'
<1>1. rev \in 0 .. HeadRevision /\ Sane(rev, db, origin) /\ (rev < LegacyRevision => origin = <<>>)
  BY DataSane
<1>2. target \in 0 .. HeadRevision
  BY InputAssumption
<1>3. CASE AlembicUpgrade(target)
  <2>1. target \in rev .. HeadRevision
    BY <1>1, <1>2, <1>3 DEF AlembicUpgrade, HeadRevision
  <2>2. Sane(target, UpgradeFrom(db, rev, target), origin)
    BY <1>1, <2>1, UpgradeSane
  <2>3. Finish("upgrade", target, UpgradeFrom(db, rev, target))
    BY <1>3 DEF AlembicUpgrade
  <2> QED
    BY <1>2, <2>2, <2>3, FinishKeeps
<1>4. CASE AlembicDowngrade(target)
  <2>1. target \in 0 .. rev
    BY <1>1, <1>2, <1>4 DEF AlembicDowngrade, HeadRevision
  <2>2. Sane(target, DowngradeFrom(db, rev, target), origin)
    BY <1>1, <2>1, DowngradeSane
  <2>3. Finish("downgrade", target, DowngradeFrom(db, rev, target))
    BY <1>4 DEF AlembicDowngrade
  <2> QED
    BY <1>2, <2>2, <2>3, FinishKeeps
<1> QED
  BY <1>3, <1>4

\* The empty database satisfies the invariant.
LEMMA StartsSane == Init => DataInv
<1> SUFFICES ASSUME Init PROVE DataInv
  OBVIOUS
<1>1. rev = 0 /\ db = EmptyDatabase /\ origin = <<>> /\ 0 \in 0 .. HeadRevision
      /\ ~ (0 >= 3) /\ 0 \notin {3, LegacyRevision} /\ ~ (0 > LegacyRevision) /\ ~ (0 >= LegacyRevision)
  BY DEF Init, LegacyRevision, HeadRevision
<1>2. db.tables = <<>> /\ db.rows = <<>> /\ db.ok = TRUE
      /\ db = [tables |-> db.tables, rows |-> db.rows, ok |-> db.ok]
  BY <1>1 DEF EmptyDatabase
<1>3. DOMAIN db.tables = {} /\ DOMAIN db.rows = {}
  <2>1. DOMAIN <<>> = {}
    OBVIOUS
  <2> QED
    BY <1>2, <2>1
<1>4. WellFormed(db)
  BY <1>2, <1>3 DEF WellFormed, IsDatabase
<1>5. TablesThere(0, db)
  BY <1>1, <1>3 DEF TablesThere
<1>6. RevisionInv(0, db, origin)
  BY <1>1, <1>4, <1>5 DEF RevisionInv
<1> QED
  BY <1>1, <1>2, <1>6 DEF DataInv

\* What the forms say has a name.
LEMMA ProfilesNamed == \A profile \in CharacterProfiles \cup PersonaProfiles : profile.name \in Names
BY InputAssumption

\* One case per action.
LEMMA StepsKeep == DataInv /\ [Next]_vars => DataInv'
<1> SUFFICES ASSUME DataInv, [Next]_vars PROVE DataInv'
  OBVIOUS
<1>1. CASE \E target \in Targets : AlembicUpgrade(target) \/ AlembicDowngrade(target)
  BY <1>1, CommandsKeep
<1>2. CASE \E scope \in Scopes, kind \in Kinds, c \in OrNull(Present("characters")) :
             \/ \E p \in OrNull(Present("personas")) : LegacyRemember(scope, kind, c, p)
             \/ Remember(scope, kind, c)
  BY <1>2, LegacyRememberKeeps, RememberKeeps
<1>3. CASE \E id \in Present("memories") : LegacyRetire(id) \/ ArchiveMemory(id)
  BY <1>3, RetireKeeps, ArchivesKeep
<1>7. \A profile \in CharacterProfiles \cup PersonaProfiles : profile.name \in Names
  BY ProfilesNamed
<1>4. CASE \E c \in CharacterIds :
             \/ \E profile \in CharacterProfiles :
                  \/ LegacyWriteCharacter(c, profile)
                  \/ CreateCharacter(c, profile) \/ UpdateCharacter(c, profile)
             \/ LegacyArchiveCharacter(c) \/ ArchiveCharacter(c)
  BY <1>4, <1>7, LegacyWriteCharacterKeeps, CreateCharacterKeeps, UpdatesKeep, ArchivesKeep
<1>5. CASE \E p \in PersonaIds :
             \/ \E profile \in PersonaProfiles :
                  \/ LegacyWritePersona(p, profile)
                  \/ CreatePersona(p, profile) \/ UpdatePersona(p, profile)
             \/ LegacyArchivePersona(p) \/ DeletePersona(p)
  BY <1>5, <1>7, LegacyWritePersonaKeeps, CreatePersonaKeeps, UpdatesKeep, ArchivesKeep,
     DeletePersonaKeeps
<1>6. CASE UNCHANGED vars
  <2>1. rev' = rev /\ db' = db /\ origin' = origin
    BY <1>6 DEF vars
  <2>2. rev \in 0 .. HeadRevision /\ db.ok = TRUE /\ RevisionInv(rev, db, origin)
        /\ (rev < LegacyRevision => origin = <<>>)
    BY DEF DataInv
  <2>3. RevisionInv(rev', db', origin')
    BY <2>1, <2>2
  <2> QED
    BY <2>1, <2>2, <2>3 DEF DataInv
<1> QED
  BY <1>1, <1>2, <1>3, <1>4, <1>5, <1>6 DEF Next

\* Whatever commands and writes led to a database, its rows are what its
\* revision (src/backend/alembic/versions) needs: every version has its owner,
\* before the bridge every profile has its current version, after it every
\* profile has its texts, and no scope or kind that a memory was given is lost.
THEOREM DataSound == Spec => []DataInv
<1>1. Init => DataInv
  BY StartsSane
<1>2. DataInv /\ [Next]_vars => DataInv'
  BY StepsKeep
<1> QED
  BY <1>1, <1>2, PTL DEF Spec

\* Every memory at the head loads as a MemoryScope and a MemoryKind, and every
\* character has a name (ORM models of src/backend/app), after any history.
THEOREM Readable == Spec => []HeadRowsReadable
<1>1. ASSUME DataInv PROVE HeadRowsReadable
  <2> SUFFICES ASSUME rev = HeadRevision
               PROVE  /\ \A i \in DOMAIN db.rows["memories"] :
                             /\ db.rows["memories"][i].scope \in MemoryScope
                             /\ db.rows["memories"][i].kind \in MemoryKind
                      /\ \A c \in DOMAIN db.rows["characters"] : db.rows["characters"][c].name \in Names
    BY DEF HeadRowsReadable, Rows
  <2>1. rev > LegacyRevision /\ rev >= LegacyRevision
    BY DEF LegacyRevision, HeadRevision
  <2>2. RevisedInv(db) /\ MemoryInv(rev, db)
    BY <1>1, <2>1 DEF DataInv, RevisionInv
  <2> QED
    BY <2>1, <2>2 DEF RevisedInv, MemoryInv
<1> QED
  BY <1>1, DataSound, PTL

\* "The original value is retained in metadata" (20260827_0005): through any
\* upgrades, downgrades and writes the scope and the kind that an application
\* gave a memory can be told from its row.
THEOREM OriginalsKept == Spec => []OriginalsRetained
<1>1. ASSUME DataInv PROVE OriginalsRetained
  <2> SUFFICES ASSUME NEW i \in DOMAIN origin
               PROVE  LET m == db.rows["memories"][i]
                      IN /\ origin[i].scope \in {m.scope, m.legacy_scope}
                         /\ origin[i].kind \in {m.kind, m.legacy_kind, m.revised_kind}
    BY DEF OriginalsRetained, Rows
  <2>1. DOMAIN <<>> = {}
    OBVIOUS
  <2>2. origin # <<>>
    BY <2>1
  <2>3. rev >= LegacyRevision
    BY <1>1, <2>2 DEF DataInv, LegacyRevision, HeadRevision
  <2>4. Retained(db, origin)
    BY <1>1, <2>3 DEF DataInv, RevisionInv
  <2>5. Recorded(db.rows["memories"][i], origin[i])
    BY <2>4 DEF Retained
  <2> QED
    BY <2>5 DEF Recorded
<1> QED
  BY <1>1, DataSound, PTL

\* A memory is renewed or added by a write.
LEMMA RememberWrites ==
    ASSUME NEW scope, NEW kind, NEW c, NEW p, LegacyRemember(scope, kind, c, p)
    PROVE  \E rows : Written(rows)
<1> DEFINE new == NewMemoryRow(
               [scope |-> scope, kind |-> kind, status |-> "active", normalized_key |-> "key",
                conversation_id |-> BoundConversation(scope),
                character_id |-> BoundCharacter(scope, c), persona_id |-> p])
           existing == {i \in DOMAIN Rows.memories :
                           Rows.memories[i].status = "active" /\ SameIdentity(Rows.memories[i], new)}
           added == Put("memories", NewMemory, new)
           renewed(i) == [Rows EXCEPT !.memories[i].kind = kind]
<1>1. IF existing = {} THEN Written(added) ELSE \E i \in existing : Written(renewed(i))
  BY DEF LegacyRemember
<1> HIDE DEF new, existing, added, renewed
<1> QED
  BY <1>1

\* Only a command changes the revision, and its database is what the scripts made.
LEMMA CommandMade ==
    ASSUME DataInv, [Next]_vars, rev' # rev
    PROVE  \/ /\ rev' \in rev .. HeadRevision
              /\ db' = UpgradeFrom(db, rev, rev') /\ db'.ok = TRUE
           \/ /\ rev' \in 0 .. rev
              /\ db' = DowngradeFrom(db, rev, rev') /\ db'.ok = TRUE
<1>1. \A rows : ~ Written(rows)
  BY DEF Written
<1>2. \E target \in Targets : AlembicUpgrade(target) \/ AlembicDowngrade(target)
  <2>1. /\ \A scope, kind, c, p : ~ LegacyRemember(scope, kind, c, p)
        /\ \A scope, kind, c : ~ Remember(scope, kind, c)
    BY <1>1, RememberWrites DEF Remember
  <2>2. \A id : ~ LegacyRetire(id) /\ ~ ArchiveMemory(id)
    BY <1>1, Zenon DEF LegacyRetire, ArchiveMemory
  <2>3. ASSUME NEW c, NEW profile
        PROVE  /\ ~ LegacyWriteCharacter(c, profile) /\ ~ CreateCharacter(c, profile)
               /\ ~ UpdateCharacter(c, profile)
               /\ ~ LegacyArchiveCharacter(c) /\ ~ ArchiveCharacter(c)
    <3>1. ~ LegacyWriteCharacter(c, profile)
      BY <1>1 DEF LegacyWriteCharacter
    <3>2. ~ CreateCharacter(c, profile)
      BY <1>1 DEF CreateCharacter
    <3>3. ~ UpdateCharacter(c, profile)
      BY <1>1, UpdatesWrite
    <3>4. ~ LegacyArchiveCharacter(c) /\ ~ ArchiveCharacter(c)
      BY <1>1, Zenon DEF LegacyArchiveCharacter, ArchiveCharacter
    <3> QED
      BY <3>1, <3>2, <3>3, <3>4
  <2>4. ASSUME NEW p, NEW profile
        PROVE  /\ ~ LegacyWritePersona(p, profile) /\ ~ CreatePersona(p, profile)
               /\ ~ UpdatePersona(p, profile)
               /\ ~ LegacyArchivePersona(p) /\ ~ DeletePersona(p)
    <3>1. ~ LegacyWritePersona(p, profile)
      BY <1>1 DEF LegacyWritePersona
    <3>2. ~ CreatePersona(p, profile)
      BY <1>1 DEF CreatePersona
    <3>3. ~ UpdatePersona(p, profile)
      BY <1>1, UpdatesWrite
    <3>4. ~ LegacyArchivePersona(p) /\ ~ DeletePersona(p)
      BY <1>1, Zenon DEF LegacyArchivePersona, DeletePersona
    <3> QED
      BY <3>1, <3>2, <3>3, <3>4
  <2>5. ~ UNCHANGED vars
    BY DEF vars
  <2> QED
    BY <2>1, <2>2, <2>3, <2>4, <2>5 DEF Next
<1>3. PICK target \in Targets : AlembicUpgrade(target) \/ AlembicDowngrade(target)
  BY <1>2
<1>4. rev \in 0 .. HeadRevision /\ Sane(rev, db, origin) /\ (rev < LegacyRevision => origin = <<>>)
  BY DataSane
<1>5. target \in 0 .. HeadRevision
  BY InputAssumption
<1>6. CASE AlembicUpgrade(target)
  <2>1. target \in rev .. HeadRevision
    BY <1>4, <1>5, <1>6 DEF AlembicUpgrade, HeadRevision
  <2>2. IsDatabase(UpgradeFrom(db, rev, target))
    BY <1>4, <2>1, UpgradeSane DEF Sane
  <2>3. /\ UpgradeFrom(db, rev, target).ok /\ rev' = target /\ db' = UpgradeFrom(db, rev, target)
    BY <1>6 DEF AlembicUpgrade, Finish
  <2>4. UpgradeFrom(db, rev, target).ok = TRUE
    BY <2>2, <2>3 DEF IsDatabase
  <2> QED
    BY <2>1, <2>3, <2>4
<1>7. CASE AlembicDowngrade(target)
  <2>1. target \in 0 .. rev
    BY <1>4, <1>5, <1>7 DEF AlembicDowngrade, HeadRevision
  <2>2. IsDatabase(DowngradeFrom(db, rev, target))
    BY <1>4, <2>1, DowngradeSane DEF Sane
  <2>3. /\ DowngradeFrom(db, rev, target).ok /\ rev' = target /\ db' = DowngradeFrom(db, rev, target)
    BY <1>7 DEF AlembicDowngrade, Finish
  <2>4. DowngradeFrom(db, rev, target).ok = TRUE
    BY <2>2, <2>3 DEF IsDatabase
  <2> QED
    BY <2>1, <2>3, <2>4
<1> QED
  BY <1>3, <1>6, <1>7

\* A step over the bridge, up and down.
CrossedUp(d, e) == \E x : Raised(d, x) /\ AllSame(x, e)
\* A step that leaves revision 4 upwards runs the bridge.
LEMMA CrossingUp ==
    ASSUME DataInv, [Next]_vars, rev = LegacyRevision, rev' > LegacyRevision
    PROVE  CrossedUp(db, db') /\ RevisionInv(LegacyRevision, db, origin)
<1>1. Sane(LegacyRevision, db, origin) /\ RevisionInv(LegacyRevision, db, origin)
  BY DataSane DEF DataInv
<1>2. rev' # rev /\ rev' \notin 0 .. rev
  BY DEF LegacyRevision
<1>3. /\ rev' \in LegacyRevision .. HeadRevision
      /\ db' = UpgradeFrom(db, LegacyRevision, rev') /\ db'.ok = TRUE
  BY <1>2, CommandMade
<1>4. rev' \in 5 .. HeadRevision
  BY <1>3 DEF LegacyRevision, HeadRevision
<1>5. UpgradeFrom(db, LegacyRevision, rev').ok = TRUE
  BY <1>3
<1> DEFINE x == Run(Upgrade5, db)
<1>6. x.ok = TRUE /\ AllSame(x, UpgradeFrom(db, LegacyRevision, rev'))
  BY <1>1, <1>4, <1>5, UpgradeBridges
<1> HIDE DEF x
<1>7. Raised(db, x)
  BY <1>1, <1>6, BridgeRaises DEF x
<1> QED
  BY <1>1, <1>3, <1>6, <1>7 DEF CrossedUp

CrossedDown(d, e, given) == \E x : AllSame(d, x) /\ Lowered(x, e) /\ RevisionInv(5, x, given)
\* A step that reaches revision 4 from above runs it back.
LEMMA CrossingDown ==
    ASSUME DataInv, [Next]_vars, rev > LegacyRevision, rev' = LegacyRevision
    PROVE  CrossedDown(db, db', origin) /\ RevisionInv(rev, db, origin)
<1>1. rev \in 0 .. HeadRevision /\ Sane(rev, db, origin) /\ RevisionInv(rev, db, origin)
  BY DataSane DEF DataInv
<1>2. rev' # rev /\ rev' \notin rev .. HeadRevision /\ rev \in 5 .. HeadRevision
  BY <1>1 DEF LegacyRevision, HeadRevision
<1>3. db' = DowngradeFrom(db, rev, LegacyRevision) /\ db'.ok = TRUE
  BY <1>2, CommandMade
<1>4. DowngradeFrom(db, rev, LegacyRevision).ok = TRUE
  BY <1>3
<1>5. PICK x : /\ RevisionInv(5, x, origin) /\ AllSame(db, x)
               /\ DowngradeFrom(db, rev, LegacyRevision) = Run(Downgrade5, x)
  BY <1>1, <1>2, <1>4, DowngradeBridges
<1>6. db' = Run(Downgrade5, x) /\ db'.ok = TRUE
  BY <1>3, <1>5
<1>7. Lowered(x, db')
  BY <1>5, <1>6, BridgeLowers
<1> QED
  BY <1>1, <1>5, <1>7 DEF CrossedDown

\* The same tables have the same rows.
LEMMA RowsAcrossUp ==
    ASSUME NEW x, NEW e, DOMAIN Kept \subseteq DOMAIN x.tables, AllSame(x, e)
    PROVE  /\ e.rows["memories"] = x.rows["memories"] /\ e.rows["characters"] = x.rows["characters"]
           /\ e.rows["character_versions"] = x.rows["character_versions"]
           /\ e.rows["personas"] = x.rows["personas"]
           /\ e.rows["persona_versions"] = x.rows["persona_versions"]
<1>1. {"memories", "characters", "character_versions", "personas", "persona_versions"} \subseteq DOMAIN Kept
  BY DEF Kept
<1> QED
  BY <1>1 DEF AllSame, Same

\* Whatever was written before, revision 20260827_0005 carries over what is in
\* use: the present application shows the memories that were neither superseded
\* nor archived nor expired, and the characters that were not archived, no more
\* and no less; of the personas it shows all, the archived ones too.
THEOREM VisibilityKept == Spec => VisibilityCarriedOver
<1> DEFINE Carries ==
        (rev = LegacyRevision /\ rev' > LegacyRevision) =>
          /\ NotArchived(db'.rows, "memories") = LegacyMemoriesShown(Rows)
          /\ CharactersShown(db'.rows) = NotArchived(Rows, "characters")
          /\ PersonasShown(db'.rows) = DOMAIN Rows.personas
<1>1. DataInv /\ [Next]_vars => Carries
  <2> SUFFICES ASSUME DataInv, [Next]_vars, rev = LegacyRevision, rev' > LegacyRevision
               PROVE  /\ NotArchived(db'.rows, "memories") = LegacyMemoriesShown(db.rows)
                      /\ CharactersShown(db'.rows) = NotArchived(db.rows, "characters")
                      /\ PersonasShown(db'.rows) = DOMAIN db.rows["personas"]
    BY DEF Rows
  <2>1. CrossedUp(db, db') /\ RevisionInv(LegacyRevision, db, origin)
    BY CrossingUp
  <2>2. PICK x : Raised(db, x) /\ AllSame(x, db')
    BY <2>1 DEF CrossedUp
  <2>3. /\ db'.rows["memories"] = x.rows["memories"] /\ db'.rows["characters"] = x.rows["characters"]
        /\ db'.rows["personas"] = x.rows["personas"]
    BY <2>2, RowsAcrossUp DEF Raised
  <2>4. MemoryInv(LegacyRevision, db)
    BY <2>1 DEF RevisionInv, LegacyRevision
  <2>5. /\ DOMAIN db'.rows["memories"] = DOMAIN db.rows["memories"]
        /\ DOMAIN db'.rows["characters"] = DOMAIN db.rows["characters"]
        /\ DOMAIN db'.rows["personas"] = DOMAIN db.rows["personas"]
    BY <2>2, <2>3 DEF Raised
  <2>6. ASSUME NEW i \in DOMAIN db.rows["memories"]
        PROVE  (db.rows["memories"][i].status = "active" /\ db.rows["memories"][i].expires_at # "past")
                   <=> db'.rows["memories"][i].archived_at = NULL
    <3>1. MemoryBridged(db.rows["memories"][i], x.rows["memories"][i])
      BY <2>2 DEF Raised
    <3>2. db.rows["memories"][i].status \in {"active", "superseded", "archived"}
      BY <2>4 DEF MemoryInv, LegacyStatuses
    <3> QED
      BY <2>3, <3>1, <3>2 DEF MemoryBridged, Unused
  <2>7. ASSUME NEW c \in DOMAIN db.rows["characters"]
        PROVE  db.rows["characters"][c].archived_at = NULL
                   <=> db'.rows["characters"][c].is_active = "true"
    <3>1. CharacterBridged(db, x, c)
      BY <2>2 DEF Raised
    <3> QED
      BY <2>3, <3>1 DEF CharacterBridged
  <2>8. NotArchived(db'.rows, "memories") = LegacyMemoriesShown(db.rows)
    BY <2>5, <2>6 DEF NotArchived, LegacyMemoriesShown
  <2>9. CharactersShown(db'.rows) = NotArchived(db.rows, "characters")
    BY <2>5, <2>7 DEF NotArchived, CharactersShown
  <2> QED
    BY <2>5, <2>8, <2>9 DEF PersonasShown
<1>2. DataInv /\ [Next]_vars => [Carries]_vars
  BY <1>1
<1> QED
  BY <1>2, DataSound, PTL DEF Spec, VisibilityCarriedOver

\* The version that an owner names after the way back is the one it named
\* before, or its first.
LEMMA CurrentFound ==
    ASSUME NEW cs, NEW es, NEW vs, NEW ws, VersionsTaken(cs, vs, ws),
           NEW C, "current_version" \in C, Kindred(cs, es, C),
           NEW c \in DOMAIN cs, "current_version" \in DOMAIN cs[c],
           \/ <<c, cs[c].current_version>> \in DOMAIN vs
           \/ cs[c].current_version = "1" /\ Bare(vs, c)
    PROVE  /\ es[c].current_version = cs[c].current_version
           /\ <<c, cs[c].current_version>> \in DOMAIN ws
BY DEF Kindred, Alike, VersionsTaken

\* The current version of a character takes its name and its description.
LEMMA CharacterTextsTaken ==
    ASSUME NEW cs, NEW vs, NEW ws, CharactersTaken(cs, vs, ws),
           NEW k \in DOMAIN ws, k = <<k[1], cs[k[1]].current_version>>,
           k \in DOMAIN vs => Has(vs[k], {"name", "summary", "speaking_style"})
    PROVE  ws[k].name = cs[k[1]].name /\ ws[k].summary = cs[k[1]].description
<1>1. CASE k \in DOMAIN vs
  <2>1. k[2] = cs[k[1]].current_version
    OBVIOUS
  <2>2. ws[k] = RenewedCharacterVersion(cs[k[1]], vs[k])
    BY <1>1, <2>1 DEF CharactersTaken
  <2>3. "name" \in DOMAIN vs[k] /\ "summary" \in DOMAIN vs[k]
    BY <1>1 DEF Has
  <2> QED
    BY <2>2, <2>3 DEF RenewedCharacterVersion
<1>2. CASE k \notin DOMAIN vs
  <2>1. ws[k] = FirstCharacterVersion(k[1], cs[k[1]])
    BY <1>2 DEF CharactersTaken
  <2> QED
    BY <2>1 DEF FirstCharacterVersion
<1> QED
  BY <1>1, <1>2

\* That of a persona takes its name, and its traits where it has any.
LEMMA PersonaTextsTaken ==
    ASSUME NEW cs, NEW vs, NEW ws, PersonasTaken(cs, vs, ws),
           NEW k \in DOMAIN ws, k = <<k[1], cs[k[1]].current_version>>,
           k \in DOMAIN vs => Has(vs[k], {"name", "traits", "pronouns", "persona_id"})
    PROVE  /\ ws[k].name = cs[k[1]].name
           /\ ws[k].traits = Coalesce(cs[k[1]].attributes_traits,
                                      IF k \in DOMAIN vs THEN vs[k].traits ELSE NULL)
<1>1. CASE k \in DOMAIN vs
  <2>1. k[2] = cs[k[1]].current_version
    OBVIOUS
  <2>2. ws[k] = RenewedPersonaVersion(cs[k[1]], vs[k])
    BY <1>1, <2>1 DEF PersonasTaken
  <2>3. "name" \in DOMAIN vs[k] /\ "traits" \in DOMAIN vs[k]
    BY <1>1 DEF Has
  <2> QED
    BY <1>1, <2>2, <2>3 DEF RenewedPersonaVersion
<1>2. CASE k \notin DOMAIN vs
  <2>1. ws[k] = FirstPersonaVersion(k[1], cs[k[1]])
    BY <1>2 DEF PersonasTaken
  <2> QED
    BY <1>2, <2>1 DEF FirstPersonaVersion, Coalesce
<1> QED
  BY <1>1, <1>2

\* Of the versions nothing else changes.
LEMMA VersionsSpared ==
    ASSUME NEW old, NEW new,
           CharactersTaken(old["characters"], old["character_versions"], new["character_versions"]),
           PersonasTaken(old["personas"], old["persona_versions"], new["persona_versions"]),
           \A k \in DOMAIN old["character_versions"] :
               Has(old["character_versions"][k], {"name", "summary", "speaking_style"}),
           \A k \in DOMAIN old["persona_versions"] :
               Has(old["persona_versions"][k], {"name", "traits", "pronouns", "persona_id"})
    PROVE  VersionsKept(old, new)
<1>1. ASSUME NEW k \in DOMAIN old["character_versions"]
      PROVE  /\ new["character_versions"][k].speaking_style = old["character_versions"][k].speaking_style
             /\ k[2] # old["characters"][k[1]].current_version =>
                   new["character_versions"][k] = old["character_versions"][k]
  <2> DEFINE cv == old["character_versions"][k]
             c == old["characters"][k[1]]
  <2>1. new["character_versions"][k] =
            IF k[2] = c.current_version THEN RenewedCharacterVersion(c, cv) ELSE cv
    BY <1>1 DEF CharactersTaken
  <2>2. "speaking_style" \in DOMAIN cv
    BY <1>1 DEF Has
  <2> HIDE DEF cv, c
  <2>3. RenewedCharacterVersion(c, cv).speaking_style = cv.speaking_style
    BY <2>2 DEF RenewedCharacterVersion
  <2>4. /\ new["character_versions"][k].speaking_style = cv.speaking_style
        /\ k[2] # c.current_version => new["character_versions"][k] = cv
    BY <2>1, <2>3
  <2> QED
    BY <2>4 DEF cv, c
<1>2. ASSUME NEW k \in DOMAIN old["persona_versions"]
      PROVE  /\ new["persona_versions"][k].pronouns = old["persona_versions"][k].pronouns
             /\ k[2] # old["personas"][k[1]].current_version =>
                   new["persona_versions"][k] = old["persona_versions"][k]
  <2> DEFINE pv == old["persona_versions"][k]
             p == old["personas"][k[1]]
  <2>1. new["persona_versions"][k] =
            IF k[2] = p.current_version THEN RenewedPersonaVersion(p, pv) ELSE pv
    BY <1>2 DEF PersonasTaken
  <2>2. "pronouns" \in DOMAIN pv
    BY <1>2 DEF Has
  <2> HIDE DEF pv, p
  <2>3. RenewedPersonaVersion(p, pv).pronouns = pv.pronouns
    BY <2>2 DEF RenewedPersonaVersion
  <2>4. /\ new["persona_versions"][k].pronouns = pv.pronouns
        /\ k[2] # p.current_version => new["persona_versions"][k] = pv
    BY <2>1, <2>3
  <2> QED
    BY <2>4 DEF pv, p
<1> QED
  BY <1>1, <1>2 DEF VersionsKept

\* The way back gives the current versions the texts they have a column for.
LEMMA TextsReturn ==
    ASSUME NEW x, VersionsInv(x), RevisedInv(x), NEW e, Lowered(x, e)
    PROVE  TextsLowered(x.rows, e.rows) /\ VersionsKept(x.rows, e.rows)
<1>1. ASSUME NEW c \in DOMAIN x.rows["characters"]
      PROVE  LET cv == Current(e.rows, "characters", "character_versions", c)
             IN /\ cv.name = x.rows["characters"][c].name
                /\ cv.summary = x.rows["characters"][c].description
  <2> DEFINE cs == x.rows["characters"]
             vs == x.rows["character_versions"]
             es == e.rows["characters"]
             ws == e.rows["character_versions"]
             k == <<c, cs[c].current_version>>
             C == {"current_version", "archived_at"}
  <2>1. /\ VersionsTaken(cs, vs, ws) /\ CharactersTaken(cs, vs, ws)
        /\ Kindred(cs, es, C) /\ "current_version" \in C
    BY DEF Lowered
  <2>2. c \in DOMAIN cs /\ "current_version" \in DOMAIN cs[c]
    BY <1>1 DEF VersionsInv, Has
  <2>3. \/ <<c, cs[c].current_version>> \in DOMAIN vs
        \/ cs[c].current_version = "1" /\ Bare(vs, c)
    BY <1>1 DEF RevisedInv, Bare
  <2>4. k \in DOMAIN vs => Has(vs[k], {"name", "summary", "speaking_style"})
    BY DEF VersionsInv
  <2>5. Current(e.rows, "characters", "character_versions", c) = ws[<<c, es[c].current_version>>]
    BY DEF Current
  <2> HIDE DEF cs, vs, es, ws, C
  <2>6. es[c].current_version = cs[c].current_version /\ k \in DOMAIN ws
    BY <2>1, <2>2, <2>3, CurrentFound
  <2>7. k[1] = c /\ k = <<k[1], cs[k[1]].current_version>>
    OBVIOUS
  <2> HIDE DEF k
  <2>8. ws[k].name = cs[k[1]].name /\ ws[k].summary = cs[k[1]].description
    BY <2>1, <2>4, <2>6, <2>7, CharacterTextsTaken
  <2>9. ws[<<c, es[c].current_version>>] = ws[k]
    BY <2>6 DEF k
  <2>10. /\ Current(e.rows, "characters", "character_versions", c).name = cs[c].name
         /\ Current(e.rows, "characters", "character_versions", c).summary = cs[c].description
    BY <2>5, <2>7, <2>8, <2>9
  <2> QED
    BY <2>10 DEF cs
<1>2. ASSUME NEW p \in DOMAIN x.rows["personas"]
      PROVE  LET pv == Current(e.rows, "personas", "persona_versions", p)
                 was == Traits(x.rows, <<p, x.rows["personas"][p].current_version>>)
             IN /\ pv.name = x.rows["personas"][p].name
                /\ pv.traits = Coalesce(x.rows["personas"][p].attributes_traits, was)
  <2> DEFINE cs == x.rows["personas"]
             vs == x.rows["persona_versions"]
             es == e.rows["personas"]
             ws == e.rows["persona_versions"]
             k == <<p, cs[p].current_version>>
             C == {"current_version"}
             was == IF k \in DOMAIN vs THEN vs[k].traits ELSE NULL
  <2>1. /\ VersionsTaken(cs, vs, ws) /\ PersonasTaken(cs, vs, ws)
        /\ Kindred(cs, es, C) /\ "current_version" \in C
    BY DEF Lowered
  <2>2. p \in DOMAIN cs /\ "current_version" \in DOMAIN cs[p]
    BY <1>2 DEF VersionsInv, Has
  <2>3. \/ <<p, cs[p].current_version>> \in DOMAIN vs
        \/ cs[p].current_version = "1" /\ Bare(vs, p)
    BY <1>2 DEF RevisedInv, Bare
  <2>4. k \in DOMAIN vs => Has(vs[k], {"name", "traits", "pronouns", "persona_id"})
    BY DEF VersionsInv
  <2>5. /\ Current(e.rows, "personas", "persona_versions", p) = ws[<<p, es[p].current_version>>]
        /\ Traits(x.rows, <<p, x.rows["personas"][p].current_version>>) = was
    BY DEF Current, Traits
  <2> HIDE DEF cs, vs, es, ws, C
  <2>6. es[p].current_version = cs[p].current_version /\ k \in DOMAIN ws
    BY <2>1, <2>2, <2>3, CurrentFound
  <2>7. k[1] = p /\ k = <<k[1], cs[k[1]].current_version>>
    OBVIOUS
  <2> HIDE DEF k
  <2>8. ws[k].name = cs[k[1]].name /\ ws[k].traits = Coalesce(cs[k[1]].attributes_traits, was)
    BY <2>1, <2>4, <2>6, <2>7, PersonaTextsTaken
  <2>9. ws[<<p, es[p].current_version>>] = ws[k]
    BY <2>6 DEF k
  <2> HIDE DEF was
  <2>10. /\ Current(e.rows, "personas", "persona_versions", p).name = cs[p].name
         /\ Current(e.rows, "personas", "persona_versions", p).traits
                = Coalesce(cs[p].attributes_traits, was)
    BY <2>5, <2>7, <2>8, <2>9
  <2> QED
    BY <2>5, <2>10 DEF cs
<1>3. VersionsKept(x.rows, e.rows)
  <2>1. /\ \A k \in DOMAIN x.rows["character_versions"] :
              Has(x.rows["character_versions"][k], {"name", "summary", "speaking_style"})
        /\ \A k \in DOMAIN x.rows["persona_versions"] :
              Has(x.rows["persona_versions"][k], {"name", "traits", "pronouns", "persona_id"})
    BY DEF VersionsInv
  <2> QED
    BY <2>1, VersionsSpared DEF Lowered
<1> QED
  BY <1>1, <1>2, <1>3 DEF TextsLowered

\* Upwards the bridge gives each character and persona the texts of its current
\* version and keeps the versions; downwards the current version takes the name
\* and the texts that it has a column for, and nothing else of the versions
\* changes, whatever was written.
THEOREM ProfilesKept == Spec => ProfilesCarriedOver
<1> DEFINE Up == /\ TextsRaised(Rows, db'.rows)
                 /\ db'.rows.character_versions = Rows.character_versions
                 /\ db'.rows.persona_versions = Rows.persona_versions
           Down == TextsLowered(Rows, db'.rows) /\ VersionsKept(Rows, db'.rows)
           Carries == /\ (rev = LegacyRevision /\ rev' > LegacyRevision) => Up
                      /\ (rev > LegacyRevision /\ rev' = LegacyRevision) => Down
<1>1. ASSUME DataInv, [Next]_vars, rev = LegacyRevision, rev' > LegacyRevision
      PROVE  Up
  <2>1. CrossedUp(db, db')
    BY <1>1, CrossingUp
  <2>2. PICK x : Raised(db, x) /\ AllSame(x, db')
    BY <2>1 DEF CrossedUp
  <2>3. /\ db'.rows["characters"] = x.rows["characters"] /\ db'.rows["personas"] = x.rows["personas"]
        /\ db'.rows["character_versions"] = x.rows["character_versions"]
        /\ db'.rows["persona_versions"] = x.rows["persona_versions"]
    BY <2>2, RowsAcrossUp DEF Raised
  <2>4. /\ \A c \in DOMAIN db.rows["characters"] : CharacterBridged(db, x, c)
        /\ \A p \in DOMAIN db.rows["personas"] : PersonaBridged(db, x, p)
        /\ x.rows["character_versions"] = db.rows["character_versions"]
        /\ x.rows["persona_versions"] = db.rows["persona_versions"]
    BY <2>2 DEF Raised
  <2>5. ASSUME NEW c \in DOMAIN db.rows["characters"]
        PROVE  LET cv == Current(db.rows, "characters", "character_versions", c)
               IN /\ db'.rows["characters"][c].name = cv.name
                  /\ db'.rows["characters"][c].description = cv.summary
                  /\ db'.rows["characters"][c].tagline = Left255(cv.summary)
    BY <2>3, <2>4, <2>5 DEF CharacterBridged, Current
  <2>6. ASSUME NEW p \in DOMAIN db.rows["personas"]
        PROVE  LET pv == Current(db.rows, "personas", "persona_versions", p)
               IN /\ db'.rows["personas"][p].name = pv.name
                  /\ db'.rows["personas"][p].instructions = Composed(pv.traits)
                  /\ db'.rows["personas"][p].attributes_traits = pv.traits
                  /\ db'.rows["personas"][p].attributes_pronouns = pv.pronouns
    BY <2>3, <2>4, <2>6 DEF PersonaBridged, Current
  <2>7. TextsRaised(db.rows, db'.rows)
    BY <2>5, <2>6 DEF TextsRaised
  <2> QED
    BY <2>3, <2>4, <2>7 DEF Rows
<1>2. ASSUME DataInv, [Next]_vars, rev > LegacyRevision, rev' = LegacyRevision
      PROVE  Down
  <2>1. CrossedDown(db, db', origin) /\ RevisionInv(rev, db, origin)
    BY <1>2, CrossingDown
  <2>2. PICK x : AllSame(db, x) /\ Lowered(x, db') /\ RevisionInv(5, x, origin)
    BY <2>1 DEF CrossedDown
  <2>3. DOMAIN Kept \subseteq DOMAIN db.tables
    <3>1. rev \in 0 .. HeadRevision /\ rev >= 3 /\ rev >= LegacyRevision
      BY <1>2 DEF DataInv, LegacyRevision, HeadRevision
    <3>2. TablesThere(rev, db)
      BY <2>1 DEF RevisionInv
    <3> QED
      BY <3>1, <3>2, TablesPresent DEF Kept
  <2>4. /\ x.rows["characters"] = db.rows["characters"] /\ x.rows["personas"] = db.rows["personas"]
        /\ x.rows["character_versions"] = db.rows["character_versions"]
        /\ x.rows["persona_versions"] = db.rows["persona_versions"]
    BY <2>2, <2>3, RowsAcrossUp
  <2>5. VersionsInv(x) /\ RevisedInv(x)
    BY <2>2 DEF RevisionInv, LegacyRevision
  <2>6. TextsLowered(x.rows, db'.rows) /\ VersionsKept(x.rows, db'.rows)
    BY <2>2, <2>5, TextsReturn
  <2>7. TextsLowered(db.rows, db'.rows)
    BY <2>4, <2>6 DEF TextsLowered, Traits
  <2>8. VersionsKept(db.rows, db'.rows)
    BY <2>4, <2>6 DEF VersionsKept
  <2> QED
    BY <2>7, <2>8 DEF Rows
<1>3. DataInv /\ [Next]_vars => [Carries]_vars
  BY <1>1, <1>2
<1> QED
  BY <1>3, DataSound, PTL DEF Spec, ProfilesCarriedOver

-----------------------------------------------------------------------------
(* The schema.                                                             *)

\* A database without tables and rows satisfies every invariant.
LEMMA Nothing ==
    ASSUME NEW d, d = EmptyDatabase
    PROVE  WellFormed(d) /\ RevisionInv(0, d, <<>>) /\ Orderly(d) /\ Legal(d) /\ d.ok = TRUE
<1>1. ~ (0 >= 3) /\ 0 \notin {3, LegacyRevision} /\ ~ (0 > LegacyRevision) /\ ~ (0 >= LegacyRevision)
  BY DEF LegacyRevision
<1>2. d.tables = <<>> /\ d.rows = <<>> /\ d.ok = TRUE
      /\ d = [tables |-> d.tables, rows |-> d.rows, ok |-> d.ok]
  BY DEF EmptyDatabase
<1>3. DOMAIN d.tables = {} /\ DOMAIN d.rows = {}
  <2>1. DOMAIN <<>> = {}
    OBVIOUS
  <2> QED
    BY <1>2, <2>1
<1>4. WellFormed(d)
  BY <1>2, <1>3 DEF WellFormed, IsDatabase
<1>5. TablesThere(0, d)
  BY <1>1, <1>3 DEF TablesThere
<1>6. RevisionInv(0, d, <<>>)
  BY <1>1, <1>4, <1>5 DEF RevisionInv
<1>7. Orderly(d) /\ Legal(d)
  BY <1>3 DEF Orderly, Told, Legal
<1> QED
  BY <1>2, <1>4, <1>6, <1>7

\* Its upgrades are never refused.
LEMMA BaseSound ==
    ASSUME NEW r \in 0 .. HeadRevision
    PROVE  /\ WellFormed(Base(r)) /\ Base(r).ok = TRUE
           /\ TablesAt[r] = Base(r).tables
<1>1. Sane(0, EmptyDatabase, <<>>)
  BY Nothing DEF Sane, WellFormed
<1>2. Sane(r, Base(r), <<>>)
  <2>1. 0 \in 0 .. HeadRevision
    BY DEF HeadRevision
  <2> QED
    BY <1>1, <2>1, UpgradeSane DEF Base
<1>3. Base(r).ok
  BY SchemaFacts DEF Base
<1>4. Base(r).ok = TRUE
  BY <1>2, <1>3 DEF Sane, IsDatabase
<1>5. TablesAt[r] = Base(r).tables
  BY DEF TablesAt, Base
<1> QED
  BY <1>2, <1>4, <1>5 DEF Sane, RevisionInv

\* One upgrade after the other makes them.
LEMMA BaseStep ==
    ASSUME NEW v \in 1 .. HeadRevision
    PROVE  Base(v) = Run(Upgrades[v], Base(v - 1))
<1>1. v \in Nat /\ v - 1 \in Nat /\ 0 <= v /\ 0 <= v - 1 /\ 0 \in Nat
  BY DEF HeadRevision
<1>2. PICK at : Ascent(at, EmptyDatabase, 0, v)
  BY <1>1, UpgradeThrough
<1>3. PICK bt : Ascent(bt, EmptyDatabase, 0, v - 1)
  BY <1>1, UpgradeThrough
<1> DEFINE S == {i \in Nat : at[i] = bt[i]}
<1>4. 0 \in S
  BY <1>2, <1>3 DEF Ascent
<1>5. \A i \in 1 .. v - 1 : i - 1 \in S => i \in S
  <2> SUFFICES ASSUME NEW i \in 1 .. v - 1, i - 1 \in S PROVE i \in S
    OBVIOUS
  <2>1. i \in 0 + 1 .. v /\ i \in 0 + 1 .. v - 1 /\ i \in Nat
    BY <1>1
  <2>2. at[i] = Run(Upgrades[i], at[i - 1]) /\ bt[i] = Run(Upgrades[i], bt[i - 1])
    BY <1>2, <1>3, <2>1 DEF Ascent
  <2>3. at[i - 1] = bt[i - 1]
    OBVIOUS
  <2> QED
    BY <2>1, <2>2, <2>3
<1> HIDE DEF S
<1>6. \A i \in 0 .. v - 1 : i \in S
  BY <1>1, <1>4, <1>5, InductionUpTo
<1>7. at[v - 1] = bt[v - 1]
  BY <1>1, <1>6 DEF S
<1>8. v \in 0 + 1 .. v
  BY <1>1
<1>9. at[v] = Run(Upgrades[v], at[v - 1]) /\ Base(v) = at[v] /\ Base(v - 1) = bt[v - 1]
  BY <1>2, <1>3, <1>8 DEF Ascent, Base
<1> QED
  BY <1>7, <1>9

\* And each downgrade gives back the tables its upgrade found.
LEMMA BaseBack ==
    ASSUME NEW v \in 1 .. HeadRevision
    PROVE  /\ Run(Downgrades[v], Base(v)).ok = TRUE
           /\ Run(Downgrades[v], Base(v)).tables = TablesAt[v - 1]
<1> DEFINE back == Run(Downgrades[v], Base(v))
<1>1. back.ok /\ back.tables = TablesAt[v - 1]
  BY SchemaFacts DEF Base
<1>2. v \in 0 .. HeadRevision
  BY DEF HeadRevision
<1>3. IsDatabase(Base(v))
  BY <1>2, BaseSound DEF WellFormed
<1>4. Scripted(Downgrades[v])
  BY AllScripts
<1>5. IsDatabase(back)
  BY <1>3, <1>4, RunDatabase
<1> HIDE DEF back
<1>6. back.ok = TRUE
  BY <1>1, <1>5 DEF IsDatabase
<1> QED
  BY <1>1, <1>6 DEF back

\* A database that, unless a statement was refused, has the tables of revision
\* r and rows that satisfy them.
Follows(r, d) == WellFormed(d) /\ Orderly(d) /\ Legal(d) /\ d.tables = TablesAt[r]
Kempt(r, d) == IsDatabase(d) /\ (d.ok = TRUE => Follows(r, d))

\* A script that is not refused leads to the tables that it makes of others.
LEMMA KemptRun ==
    ASSUME NEW a, Scripted(a), NEW d, NEW r, Kempt(r, d), NEW b, WellFormed(b), b.tables = TablesAt[r],
           Run(a, b).ok = TRUE, NEW v, Run(a, b).tables = TablesAt[v]
    PROVE  Kempt(v, Run(a, d))
<1>1. PICK T : Footprint(a, T)
  BY DEF Scripted
<1>2. IsDatabase(d) /\ IsDatabase(Run(a, d))
  BY RunDatabase DEF Kempt
<1>3. ASSUME Run(a, d).ok = TRUE PROVE Follows(v, Run(a, d))
  <2>1. Follows(r, d)
    BY <1>2, <1>3, OkBefore DEF Kempt
  <2>2. WellFormed(d) /\ Orderly(d) /\ Legal(d) /\ d.tables = b.tables
    BY <2>1 DEF Follows
  <2>3. WellFormed(Run(a, d))
    BY <1>1, <1>3, <2>2, RunForm
  <2>4. Orderly(Run(a, d)) /\ Legal(Run(a, d))
    BY <1>1, <1>3, <2>2, LegalRun
  <2>5. Run(a, d).tables = Run(a, b).tables
    BY <1>1, <1>3, <2>2, TwinRun
  <2> QED
    BY <2>3, <2>4, <2>5 DEF Follows
<1> QED
  BY <1>2, <1>3 DEF Kempt

\* The upgrade of a revision leads to its tables.
LEMMA KemptUp ==
    ASSUME NEW v \in 1 .. HeadRevision, NEW d, Kempt(v - 1, d)
    PROVE  Kempt(v, Run(Upgrades[v], d))
<1>1. v - 1 \in 0 .. HeadRevision /\ v \in 0 .. HeadRevision
  BY DEF HeadRevision
<1>2. /\ WellFormed(Base(v - 1)) /\ Base(v - 1).tables = TablesAt[v - 1]
      /\ Base(v).ok = TRUE /\ Base(v).tables = TablesAt[v]
  BY <1>1, BaseSound
<1>3. Run(Upgrades[v], Base(v - 1)).ok = TRUE /\ Run(Upgrades[v], Base(v - 1)).tables = TablesAt[v]
  BY <1>2, BaseStep
<1>4. Scripted(Upgrades[v])
  BY AllScripts
<1> QED
  BY <1>2, <1>3, <1>4, KemptRun

\* Its downgrade leads back.
LEMMA KemptDown ==
    ASSUME NEW v \in 1 .. HeadRevision, NEW d, Kempt(v, d)
    PROVE  Kempt(v - 1, Run(Downgrades[v], d))
<1>1. v \in 0 .. HeadRevision
  BY DEF HeadRevision
<1>2. WellFormed(Base(v)) /\ Base(v).tables = TablesAt[v]
  BY <1>1, BaseSound
<1>3. Scripted(Downgrades[v])
  BY AllScripts
<1> QED
  BY <1>2, <1>3, BaseBack, KemptRun

\* So does a whole upgrade.
LEMMA UpgradeKempt ==
    ASSUME NEW r \in 0 .. HeadRevision, NEW target \in r .. HeadRevision, NEW d, Kempt(r, d)
    PROVE  Kempt(target, UpgradeFrom(d, r, target))
<1>1. r \in Nat /\ target \in Nat /\ r <= target /\ target <= HeadRevision /\ r \in 0 .. target
  BY DEF HeadRevision
<1>9. PICK at : Ascent(at, d, r, target)
  BY <1>1, UpgradeThrough
<1>2. /\ at[r] = d
      /\ \A v \in r + 1 .. target : at[v] = Run(Upgrades[v], at[v - 1])
      /\ UpgradeFrom(d, r, target) = at[target]
  BY <1>9 DEF Ascent
<1> DEFINE S == {v \in Nat : Kempt(v, at[v])}
<1>3. r \in S
  BY <1>1, <1>2
<1>4. \A v \in r + 1 .. target : v - 1 \in S => v \in S
  <2> SUFFICES ASSUME NEW v \in r + 1 .. target, v - 1 \in S PROVE v \in S
    OBVIOUS
  <2>1. v \in 1 .. HeadRevision /\ v \in Nat
    BY <1>1 DEF HeadRevision
  <2>2. Kempt(v - 1, at[v - 1])
    OBVIOUS
  <2>3. Kempt(v, Run(Upgrades[v], at[v - 1]))
    BY <2>1, <2>2, KemptUp
  <2> QED
    BY <1>2, <2>1, <2>3
<1> HIDE DEF S
<1>5. target \in S
  BY <1>1, <1>3, <1>4, Since
<1> QED
  BY <1>2, <1>5 DEF S

\* And a whole downgrade.
LEMMA DowngradeKempt ==
    ASSUME NEW r \in 0 .. HeadRevision, NEW target \in 0 .. r, NEW d, Kempt(r, d)
    PROVE  Kempt(target, DowngradeFrom(d, r, target))
<1>1. /\ r \in Nat /\ target \in Nat /\ target <= r /\ r <= HeadRevision
      /\ r - target \in Nat /\ 0 \in 0 .. r - target /\ r - 0 = r /\ r - (r - target) = target
  BY DEF HeadRevision
<1>9. PICK at : Descent(at, d, r, target)
  BY <1>1, DowngradeThrough
<1>2. /\ at[0] = d
      /\ \A i \in 1 .. r - target : at[i] = Run(Downgrades[r - i + 1], at[i - 1])
      /\ DowngradeFrom(d, r, target) = at[r - target]
  BY <1>9 DEF Descent
<1> DEFINE S == {i \in Nat : Kempt(r - i, at[i])}
<1>3. 0 \in S
  BY <1>1, <1>2
<1>4. \A i \in 0 + 1 .. r - target : i - 1 \in S => i \in S
  <2> SUFFICES ASSUME NEW i \in 0 + 1 .. r - target, i - 1 \in S PROVE i \in S
    OBVIOUS
  <2> DEFINE v == r - i + 1
  <2>1. /\ v \in 1 .. HeadRevision /\ i \in Nat /\ i \in 1 .. r - target
        /\ r - (i - 1) = v /\ r - i = v - 1
    BY <1>1 DEF HeadRevision
  <2>2. Kempt(r - (i - 1), at[i - 1])
    OBVIOUS
  <2>3. at[i] = Run(Downgrades[v], at[i - 1])
    BY <1>2, <2>1
  <2> HIDE DEF v
  <2>4. Kempt(v, at[i - 1])
    BY <2>1, <2>2
  <2>5. Kempt(v - 1, Run(Downgrades[v], at[i - 1]))
    BY <2>1, <2>4, KemptDown
  <2> QED
    BY <2>1, <2>3, <2>5
<1> HIDE DEF S
<1>5. r - target \in S
  BY <1>1, <1>3, <1>4, Since
<1>6. Kempt(r - (r - target), at[r - target])
  BY <1>5 DEF S
<1> QED
  BY <1>1, <1>2, <1>6

\* The rows of an orderly database that has all of its tables.
Neat(rows) ==
    /\ \A t \in DOMAIN rows \ DOMAIN Kept : DOMAIN rows[t] = {}
    /\ \A t \in OwnerTables : \A i \in DOMAIN rows[t] : DOMAIN rows[t][i] \subseteq Kept[t]
    /\ \A i \in DOMAIN rows["memories"] :
          MemoryKey \subseteq DOMAIN rows["memories"][i] /\ "user_id" \notin DOMAIN rows["memories"][i]
    /\ Told(rows)

\* Values that no row tells itself by, and the statuses.
Assignable(c, v) ==
    c \notin {"normalized_key", "character_id", "persona_id"} /\ (c = "status" => v # NULL)

\* An assignment leaves rows neat.
LEMMA AmendedNeat ==
    ASSUME NEW rows, Neat(rows), NEW t \in DOMAIN Kept, t \in DOMAIN rows, NEW i, NEW c, NEW v,
           Assignable(c, v), NEW after, Amended(rows, after, t, i, c, v), OwnerTables \cup {"memories"} \subseteq DOMAIN rows
    PROVE  Neat(after)
<1>1. \A u \in DOMAIN rows \ {t} : after[u] = rows[u]
  BY DEF Amended
<1>2. /\ DOMAIN after[t] = DOMAIN rows[t]
      /\ \A j \in DOMAIN rows[t] : DOMAIN after[t][j] = DOMAIN rows[t][j]
      /\ DOMAIN after = DOMAIN rows
  BY DEF Amended
<1>3. \A u \in DOMAIN after \ DOMAIN Kept : DOMAIN after[u] = {}
  BY <1>1, <1>2 DEF Neat
<1>4. ASSUME NEW u \in OwnerTables, NEW j \in DOMAIN after[u] PROVE DOMAIN after[u][j] \subseteq Kept[u]
  <2>1. CASE u = t
    BY <1>2, <1>4, <2>1 DEF Neat
  <2>2. CASE u # t
    BY <1>1, <1>4, <2>2 DEF Neat
  <2> QED
    BY <2>1, <2>2
<1>5. ASSUME NEW j \in DOMAIN after["memories"]
      PROVE  MemoryKey \subseteq DOMAIN after["memories"][j] /\ "user_id" \notin DOMAIN after["memories"][j]
  <2>1. CASE "memories" = t
    BY <1>2, <1>5, <2>1 DEF Neat
  <2>2. CASE "memories" # t
    BY <1>1, <1>5, <2>2 DEF Neat
  <2> QED
    BY <2>1, <2>2
<1>6. ASSUME NEW u \in DOMAIN after \cap DOMAIN Kept, NEW j \in DOMAIN after[u]
      PROVE  Regular(u, j, after[u][j])
  <2>1. /\ u \in DOMAIN rows /\ j \in DOMAIN rows[u] /\ Regular(u, j, rows[u][j])
        /\ u = "memories" => {"normalized_key", "status"} \subseteq DOMAIN rows[u][j]
    <3>1. u \in DOMAIN rows /\ j \in DOMAIN rows[u]
      BY <1>1, <1>2, <1>6
    <3> QED
      BY <1>6, <3>1 DEF Neat, Told, MemoryKey
  <2>2. CASE u # t
    BY <1>1, <2>1, <2>2
  <2>3. CASE u = t
    <3> DEFINE m == rows[u][j]
               q == after[u][j]
    <3>1. DOMAIN q = DOMAIN m /\ \A b \in DOMAIN m : q[b] = IF j = i /\ b = c THEN v ELSE m[b]
      BY <2>1, <2>3 DEF Amended
    <3>2. /\ Regular(u, j, m)
          /\ u = "memories" => {"normalized_key", "status"} \subseteq DOMAIN m
      BY <2>1
    <3> HIDE DEF m, q
    <3>3. /\ "character_id" \in DOMAIN m => q["character_id"] = m["character_id"]
          /\ "persona_id" \in DOMAIN m => q["persona_id"] = m["persona_id"]
          /\ u = "memories" => /\ q["normalized_key"] = m["normalized_key"]
                               /\ q["status"] # NULL \/ q["status"] = m["status"]
      BY <3>1, <3>2 DEF Assignable
    <3>4. Regular(u, j, q)
      BY <3>1, <3>2, <3>3 DEF Regular
    <3> QED
      BY <3>4 DEF q
  <2> QED
    BY <2>2, <2>3
<1>7. Told(after)
  BY <1>6 DEF Told
<1> QED
  BY <1>3, <1>4, <1>5, <1>7 DEF Neat

\* So does writing fields of a profile.
LEMMA RetouchedNeat ==
    ASSUME NEW rows, Neat(rows), NEW t \in OwnerTables, t \in DOMAIN rows, "memories" \in DOMAIN rows,
           NEW after, Retouched(rows, after, t), OwnerTables \cup {"memories"} \subseteq DOMAIN rows
    PROVE  Neat(after)
<1>1. /\ \A u \in DOMAIN rows \ {t} : after[u] = rows[u]
      /\ DOMAIN after = DOMAIN rows /\ DOMAIN after[t] = DOMAIN rows[t]
      /\ \A j \in DOMAIN rows[t] : DOMAIN after[t][j] = DOMAIN rows[t][j]
  BY DEF Retouched
<1>2. t \in DOMAIN Kept /\ t # "memories" /\ t \notin VersionTables
  BY KeptTables DEF OwnerTables, VersionTables
<1>3. \A u \in DOMAIN after \ DOMAIN Kept : DOMAIN after[u] = {}
  BY <1>1, <1>2 DEF Neat
<1>4. ASSUME NEW u \in OwnerTables, NEW j \in DOMAIN after[u] PROVE DOMAIN after[u][j] \subseteq Kept[u]
  <2>1. CASE u = t
    BY <1>1, <1>4, <2>1 DEF Neat
  <2>2. CASE u # t
    BY <1>1, <1>4, <2>2 DEF Neat
  <2> QED
    BY <2>1, <2>2
<1>5. after["memories"] = rows["memories"]
  BY <1>1, <1>2
<1>6. ASSUME NEW u \in DOMAIN after \cap DOMAIN Kept, NEW j \in DOMAIN after[u]
      PROVE  Regular(u, j, after[u][j])
  <2>1. u \in DOMAIN rows /\ j \in DOMAIN rows[u]
    BY <1>1, <1>6
  <2>2. Regular(u, j, rows[u][j])
    BY <1>6, <2>1 DEF Neat, Told
  <2>3. CASE u # t
    BY <1>1, <2>1, <2>2, <2>3
  <2>4. CASE u = t
    BY <1>2, <2>2, <2>4 DEF Regular, VersionTables
  <2> QED
    BY <2>3, <2>4
<1>7. Told(after)
  BY <1>6 DEF Told
<1> QED
  BY <1>3, <1>4, <1>5, <1>7 DEF Neat

\* A row that is neat itself may be put into a table.
NeatRow(t, row) ==
    /\ t \in OwnerTables => DOMAIN row \subseteq Kept[t]
    /\ t = "memories" => MemoryKey \subseteq DOMAIN row /\ "user_id" \notin DOMAIN row

\* It leaves rows neat.
LEMMA PlacedNeat ==
    ASSUME NEW rows, Neat(rows), NEW t \in DOMAIN Kept, t \in DOMAIN rows, NEW i, NEW row, NeatRow(t, row),
           Regular(t, i, row), NEW after, Placed(rows, after, t, i, row), OwnerTables \cup {"memories"} \subseteq DOMAIN rows
    PROVE  Neat(after)
<1>1. \A u \in DOMAIN rows \ {t} : after[u] = rows[u]
  BY DEF Placed
<1>2. /\ DOMAIN after[t] = DOMAIN rows[t] \cup {i} /\ after[t][i] = row
      /\ \A j \in DOMAIN rows[t] : j # i => after[t][j] = rows[t][j]
      /\ DOMAIN after = DOMAIN rows
  BY DEF Placed
<1>3. \A u \in DOMAIN after \ DOMAIN Kept : DOMAIN after[u] = {}
  BY <1>1, <1>2 DEF Neat
<1>4. ASSUME NEW u \in OwnerTables, NEW j \in DOMAIN after[u] PROVE DOMAIN after[u][j] \subseteq Kept[u]
  <2>1. CASE u = t /\ j = i
    BY <1>2, <2>1 DEF NeatRow
  <2>2. CASE u = t /\ j # i
    BY <1>2, <1>4, <2>2 DEF Neat
  <2>3. CASE u # t
    BY <1>1, <1>4, <2>3 DEF Neat
  <2> QED
    BY <2>1, <2>2, <2>3
<1>5. ASSUME NEW j \in DOMAIN after["memories"]
      PROVE  MemoryKey \subseteq DOMAIN after["memories"][j] /\ "user_id" \notin DOMAIN after["memories"][j]
  <2>1. CASE "memories" = t /\ j = i
    BY <1>2, <2>1 DEF NeatRow
  <2>2. CASE "memories" = t /\ j # i
    BY <1>2, <1>5, <2>2 DEF Neat
  <2>3. CASE "memories" # t
    BY <1>1, <1>5, <2>3 DEF Neat
  <2> QED
    BY <2>1, <2>2, <2>3
<1>6. ASSUME NEW u \in DOMAIN after \cap DOMAIN Kept, NEW j \in DOMAIN after[u]
      PROVE  Regular(u, j, after[u][j])
  <2>1. u \in DOMAIN rows /\ (j \in DOMAIN rows[u] => Regular(u, j, rows[u][j]))
    BY <1>2, <1>6 DEF Neat, Told
  <2>2. CASE u # t
    BY <1>1, <1>6, <2>1, <2>2
  <2>3. CASE u = t /\ j = i
    BY <1>2, <2>3
  <2>4. CASE u = t /\ j # i
    BY <1>2, <1>6, <2>1, <2>4
  <2> QED
    BY <2>2, <2>3, <2>4
<1>7. Told(after)
  BY <1>6 DEF Told
<1> QED
  BY <1>3, <1>4, <1>5, <1>7 DEF Neat

\* The rows that a write finds are neat.
LEMMA NeatToWrite ==
    ASSUME DataInv, Follows(rev, db), rev \in {LegacyRevision, HeadRevision}
    PROVE  /\ Neat(db.rows) /\ OwnerTables \cup {"memories"} \subseteq DOMAIN db.rows
           /\ \A t \in DOMAIN Kept : t \in DOMAIN db.rows
<1>1. /\ \A t \in DOMAIN Kept : t \in DOMAIN db.rows
      /\ OwnerTables \cup {"memories"} \subseteq DOMAIN db.rows
  BY TablesToWrite DEF OwnerTables
<1>2. DOMAIN db.rows = DOMAIN db.tables /\ Orderly(db)
  BY DEF Follows, WellFormed, IsDatabase
<1> QED
  BY <1>1, <1>2 DEF Orderly, Neat

\* A write of neat rows keeps the schema: its rows satisfy it, or it fails.
LEMMA WriteFollows ==
    ASSUME DataInv, Follows(rev, db), rev \in {LegacyRevision, HeadRevision},
           NEW rows, Written(rows), DOMAIN rows = DOMAIN db.rows, Neat(rows)
    PROVE  Follows(rev', db')
<1>1. Wrote(db, db', rows)
  BY WriteKeeps
<1>2. WellFormed(db) /\ Orderly(db) /\ db.tables = TablesAt[rev]
  BY DEF Follows
<1>3. WellFormed(db') /\ db'.rows = rows /\ db'.tables = db.tables
  BY <1>1, <1>2, WroteForm
<1>4. DOMAIN rows = DOMAIN db.tables
  BY <1>2 DEF WellFormed, IsDatabase
<1>5. Legal(db') /\ rev' = rev
  BY DEF Written
<1>6. \A t \in DOMAIN db'.tables \cap DOMAIN Kept : OrderlyTable(db', t)
  BY <1>2, <1>3 DEF Orderly, OrderlyTable
<1>7. Orderly(db')
  BY <1>3, <1>4, <1>6 DEF Orderly, Neat
<1> QED
  BY <1>2, <1>3, <1>5, <1>7 DEF Follows

\* So does the assignment of a field.
LEMMA FieldFollows ==
    ASSUME DataInv, Follows(rev, db), rev \in {LegacyRevision, HeadRevision},
           NEW t \in DOMAIN Kept, NEW i, NEW c, NEW v, Assignable(c, v),
           Written([db.rows EXCEPT ![t][i][c] = v])
    PROVE  Follows(rev', db')
<1> DEFINE rows == [db.rows EXCEPT ![t][i][c] = v]
<1>1. Neat(db.rows) /\ OwnerTables \cup {"memories"} \subseteq DOMAIN db.rows /\ t \in DOMAIN db.rows
  BY NeatToWrite
<1>2. DOMAIN rows = DOMAIN db.rows /\ Amended(db.rows, rows, t, i, c, v)
  BY <1>1, FieldKeeps
<1>3. Written(rows)
  OBVIOUS
<1> HIDE DEF rows
<1>4. Neat(rows)
  BY <1>1, <1>2, AmendedNeat
<1> QED
  BY <1>2, <1>3, <1>4, WriteFollows

\* And the insertion of a row.
LEMMA RowFollows ==
    ASSUME DataInv, Follows(rev, db), rev \in {LegacyRevision, HeadRevision},
           NEW t \in DOMAIN Kept, NEW i, NEW row, NeatRow(t, row),
           Regular(t, i, row), Written([db.rows EXCEPT ![t] = With(db.rows[t], i, row)])
    PROVE  Follows(rev', db')
<1> DEFINE rows == [db.rows EXCEPT ![t] = With(db.rows[t], i, row)]
<1>1. Neat(db.rows) /\ OwnerTables \cup {"memories"} \subseteq DOMAIN db.rows /\ t \in DOMAIN db.rows
  BY NeatToWrite
<1>2. DOMAIN rows = DOMAIN db.rows
  OBVIOUS
<1>3. Placed(db.rows, rows, t, i, row)
  BY <1>1, RowPlaced
<1>4. Written(rows)
  OBVIOUS
<1> HIDE DEF rows
<1>5. Neat(rows)
  BY <1>1, <1>3, PlacedNeat
<1> QED
  BY <1>2, <1>4, <1>5, WriteFollows

\* The columns of the row that an INSERT makes.
LEMMA RowColumns ==
    ASSUME NEW t, NEW given
    PROVE  DOMAIN NewRow(t, given) = DOMAIN given \cup (Kept[t] \cap DOMAIN db.tables[t].cols)
BY DEF NewRow, Filled

\* A profile gets columns of its table.
LEMMA OwnerRow ==
    ASSUME NEW t \in OwnerTables, NEW given, DOMAIN given \subseteq Kept[t]
    PROVE  NeatRow(t, NewRow(t, given))
<1>1. DOMAIN NewRow(t, given) \subseteq Kept[t]
  BY RowColumns
<1>2. t # "memories"
  BY DEF OwnerTables
<1> QED
  BY <1>1, <1>2 DEF NeatRow

\* A memory gets what tells it apart, given or by default.
LEMMA NewMemoryNeat ==
    ASSUME NEW given, "user_id" \notin DOMAIN given,
           MemoryKey \subseteq DOMAIN given \cup DOMAIN db.tables["memories"].cols
    PROVE  NeatRow("memories", NewMemoryRow(given))
<1>1. MemoryKey \subseteq Kept["memories"] /\ "user_id" \notin Kept["memories"]
  BY DEF MemoryKey, Kept
<1>2. DOMAIN NewRow("memories", given)
          = DOMAIN given \cup (Kept["memories"] \cap DOMAIN db.tables["memories"].cols)
  BY RowColumns
<1>3. DOMAIN NoNotes = {"legacy_scope", "legacy_kind", "revised_kind"}
  BY DEF NoNotes
<1>4. DOMAIN NewMemoryRow(given) = DOMAIN NewRow("memories", given) \cup DOMAIN NoNotes
  BY DEF NewMemoryRow, Filled
<1>5. "memories" \notin OwnerTables
  BY DEF OwnerTables
<1> QED
  BY <1>1, <1>2, <1>3, <1>4, <1>5 DEF NeatRow

\* And a row that is regular: the identifier of a memory is no text's key.
LEMMA NewMemoryRegular ==
    ASSUME NEW given, {"confidence", "access_count"} \cap DOMAIN given = {}, MemoryRoom,
           \/ /\ {"normalized_key", "status"} \subseteq DOMAIN given
              /\ given["normalized_key"] = "key" /\ given["status"] # NULL
           \/ /\ "normalized_key" \notin DOMAIN given
              /\ "normalized_key" \in DOMAIN db.tables["memories"].cols
              /\ db.tables["memories"].cols["normalized_key"].default = NULL
    PROVE  Regular("memories", NewMemory, NewMemoryRow(given))
<1> DEFINE row == NewRow("memories", given)
           q == NewMemoryRow(given)
<1>1. NewMemory \notin {NULL, "key"}
  BY InputAssumption DEF MemoryRoom, NewMemory
<1>2. /\ DOMAIN row = DOMAIN given \cup (Kept["memories"] \cap DOMAIN db.tables["memories"].cols)
      /\ \A c \in DOMAIN given : row[c] = given[c]
      /\ \A c \in (Kept["memories"] \cap DOMAIN db.tables["memories"].cols) \ DOMAIN given :
             row[c] = db.tables["memories"].cols[c].default
  <2>1. DOMAIN row = DOMAIN given \cup (Kept["memories"] \cap DOMAIN db.tables["memories"].cols)
    BY RowColumns
  <2>2. /\ Inserted(row, given, Kept["memories"] \cap DOMAIN db.tables["memories"].cols)
        /\ \A c \in (Kept["memories"] \cap DOMAIN db.tables["memories"].cols) \ DOMAIN given :
               row[c] = db.tables["memories"].cols[c].default
    BY RowInserted
  <2> HIDE DEF row
  <2> QED
    BY <2>1, <2>2 DEF Inserted
<1>3. DOMAIN NoNotes = {"legacy_scope", "legacy_kind", "revised_kind"}
  BY DEF NoNotes
<1>4. q = Filled(row, NoNotes)
  BY DEF NewMemoryRow
<1> HIDE DEF q, row
<1>5. DOMAIN q = DOMAIN row \cup DOMAIN NoNotes /\ \A c \in DOMAIN row : q[c] = row[c]
  BY <1>4 DEF Filled
<1>6. {"confidence", "access_count"} \cap DOMAIN q = {} /\ "normalized_key" \in Kept["memories"]
  BY <1>2, <1>3, <1>5 DEF Kept
<1>7. /\ q["normalized_key"] \in {"key", NULL}
      /\ q["status"] = NULL => q["normalized_key"] = NULL
  BY <1>2, <1>5, <1>6
<1>8. Regular("memories", NewMemory, q)
  BY <1>1, <1>6, <1>7 DEF Regular, OwnerTables
<1> QED
  BY <1>8 DEF q

\* A profile is regular as soon as it has an identifier.
LEMMA ProfileRegular ==
    ASSUME NEW t \in OwnerTables, NEW i \in CharacterIds \cup PersonaIds, NEW row
    PROVE  Regular(t, i, row)
<1>1. i # NULL
  BY InputAssumption
<1> QED
  BY <1>1 DEF Regular, OwnerTables

\* Both ways to remember keep the schema.
LEMMA LegacyRememberFollows ==
    ASSUME DataInv, Follows(rev, db), NEW scope, NEW kind, NEW c, NEW p, LegacyRemember(scope, kind, c, p)
    PROVE  Follows(rev', db')
<1> DEFINE given == [scope |-> scope, kind |-> kind, status |-> "active", normalized_key |-> "key",
                     conversation_id |-> BoundConversation(scope),
                     character_id |-> BoundCharacter(scope, c), persona_id |-> p]
           new == NewMemoryRow(given)
<1>1. rev \in {LegacyRevision, HeadRevision} /\ "memories" \in DOMAIN Kept
  BY KeptTables DEF LegacyRemember, LegacyRunning
<1>2. \/ MemoryRoom /\ Written([db.rows EXCEPT !["memories"] = With(db.rows["memories"], NewMemory, new)])
      \/ \E i : Written([db.rows EXCEPT !["memories"][i]["kind"] = kind])
  BY DEF LegacyRemember, Put, Rows
<1>3. DOMAIN given = MemoryKey \cup {"kind"}
  BY DEF MemoryKey
<1>4. "user_id" \notin MemoryKey /\ {"confidence", "access_count"} \cap (MemoryKey \cup {"kind"}) = {}
      /\ {"normalized_key", "status"} \subseteq MemoryKey
      /\ given["normalized_key"] = "key" /\ given["status"] # NULL
  BY DEF MemoryKey, NULL
<1> HIDE DEF given
<1>5. NeatRow("memories", new)
  BY <1>3, <1>4, NewMemoryNeat
<1>6. MemoryRoom => Regular("memories", NewMemory, new)
  BY <1>3, <1>4, NewMemoryRegular
<1> HIDE DEF new
<1>7. Assignable("kind", kind)
  BY DEF Assignable
<1> QED
  BY <1>1, <1>2, <1>5, <1>6, <1>7, RowFollows, FieldFollows

\* The present application leaves it to the defaults.
LEMMA RememberFollows ==
    ASSUME DataInv, Follows(rev, db), NEW scope, NEW kind, NEW c, Remember(scope, kind, c)
    PROVE  Follows(rev', db')
<1> DEFINE given == [scope |-> scope, kind |-> kind, archived_at |-> NULL,
                     conversation_id |-> IF scope = "user" THEN NULL ELSE Conv,
                     character_id |-> IF scope = "user" THEN NULL ELSE c]
           new == NewMemoryRow(given)
<1>1. rev = HeadRevision /\ rev \in {LegacyRevision, HeadRevision} /\ "memories" \in DOMAIN Kept
  BY KeptTables DEF Remember, Running
<1>2. MemoryRoom /\ Written([db.rows EXCEPT !["memories"] = With(db.rows["memories"], NewMemory, new)])
  BY DEF Remember, Put, Rows
<1>3. DOMAIN given = {"scope", "kind", "archived_at", "conversation_id", "character_id"}
  OBVIOUS
<1>4. /\ MemoryKey \subseteq DOMAIN db.tables["memories"].cols
      /\ db.tables["memories"].cols["normalized_key"].default = NULL
  BY <1>1, SchemaFacts DEF Follows
<1> HIDE DEF given
<1>5. NeatRow("memories", new)
  BY <1>3, <1>4, NewMemoryNeat
<1>6. Regular("memories", NewMemory, new)
  <2>1. "normalized_key" \in MemoryKey
    BY DEF MemoryKey
  <2> QED
    BY <1>2, <1>3, <1>4, <2>1, NewMemoryRegular
<1> HIDE DEF new
<1> QED
  BY <1>1, <1>2, <1>5, <1>6, RowFollows

\* So do the writes of one field.
LEMMA FieldsFollow ==
    ASSUME DataInv, Follows(rev, db), NEW i,
           \/ LegacyRetire(i) \/ ArchiveMemory(i)
           \/ LegacyArchiveCharacter(i) \/ ArchiveCharacter(i) \/ LegacyArchivePersona(i)
    PROVE  Follows(rev', db')
<1>1. /\ rev \in {LegacyRevision, HeadRevision}
      /\ "memories" \in DOMAIN Kept /\ "characters" \in DOMAIN Kept /\ "personas" \in DOMAIN Kept
  BY KeptTables DEF LegacyRetire, LegacyArchiveCharacter, ArchiveCharacter, LegacyArchivePersona,
         ArchiveMemory, LegacyRunning, Running
<1>2. \E t \in {"memories", "characters", "personas"} : \E c, v :
          Assignable(c, v) /\ Written([db.rows EXCEPT ![t][i][c] = v])
  <2>4. /\ \A s \in {"superseded", "archived"} : Assignable("status", s)
        /\ \A c \in {"expires_at", "archived_at", "is_active"} : \A v : Assignable(c, v)
    BY DEF Assignable, NULL
  <2>1. CASE LegacyRetire(i)
    <3>1. \/ \E s \in {"superseded", "archived"} : Written([db.rows EXCEPT !["memories"][i]["status"] = s])
          \/ Written([db.rows EXCEPT !["memories"][i]["expires_at"] = "past"])
      BY <2>1 DEF LegacyRetire, Rows
    <3> QED
      BY <2>4, <3>1
  <2>2. CASE \/ LegacyArchiveCharacter(i) \/ ArchiveCharacter(i)
             \/ LegacyArchivePersona(i) \/ ArchiveMemory(i)
    <3>1. \/ Written([db.rows EXCEPT !["characters"][i]["archived_at"] = "then"])
          \/ Written([db.rows EXCEPT !["characters"][i]["is_active"] = "false"])
          \/ Written([db.rows EXCEPT !["personas"][i]["archived_at"] = "then"])
          \/ Written([db.rows EXCEPT !["memories"][i]["archived_at"] = "then"])
      BY <2>2 DEF LegacyArchiveCharacter, ArchiveCharacter, LegacyArchivePersona, ArchiveMemory, Rows
    <3> QED
      BY <2>4, <3>1
  <2> QED
    BY <2>1, <2>2
<1> QED
  BY <1>1, <1>2, FieldFollows

\* The updates of the present application write fields of a profile.
LEMMA UpdatesFollow ==
    ASSUME DataInv, Follows(rev, db), NEW i, NEW profile, profile.name \in Names,
           UpdateCharacter(i, profile) \/ UpdatePersona(i, profile)
    PROVE  Follows(rev', db')
<1>1. rev \in {LegacyRevision, HeadRevision} /\ "characters" \in DOMAIN Kept
  BY KeptTables DEF UpdateCharacter, UpdatePersona, Running
<1>2. Neat(db.rows) /\ OwnerTables \cup {"memories"} \subseteq DOMAIN db.rows
  BY <1>1, NeatToWrite
<1>3. \/ Written(CharacterTexted(db.rows, i, profile))
      \/ Written(PersonaTexted(db.rows, i, profile))
      \/ Written([db.rows EXCEPT !["characters"][i]["is_active"] = "true"])
  BY UpdatesWrite
<1>4. /\ Retouched(db.rows, CharacterTexted(db.rows, i, profile), "characters")
      /\ Retouched(db.rows, PersonaTexted(db.rows, i, profile), "personas")
  BY <1>2, TextsRetouched DEF OwnerTables
<1>5. ASSUME NEW rows, Written(rows), NEW t \in OwnerTables, Retouched(db.rows, rows, t)
      PROVE  Follows(rev', db')
  <2>1. Neat(rows)
    BY <1>2, <1>5, RetouchedNeat
  <2>2. DOMAIN rows = DOMAIN db.rows
    BY <1>5 DEF Retouched
  <2> QED
    BY <1>1, <1>5, <2>1, <2>2, WriteFollows
<1>6. "characters" \in OwnerTables /\ "personas" \in OwnerTables
  BY DEF OwnerTables
<1>7. CASE Written(CharacterTexted(db.rows, i, profile))
  BY <1>4, <1>5, <1>6, <1>7
<1>8. CASE Written(PersonaTexted(db.rows, i, profile))
  BY <1>4, <1>5, <1>6, <1>8
<1>9. CASE Written([db.rows EXCEPT !["characters"][i]["is_active"] = "true"])
  <2>1. Assignable("is_active", "true")
    BY DEF Assignable
  <2> QED
    BY <1>1, <1>9, <2>1, FieldFollows
<1> QED
  BY <1>3, <1>7, <1>8, <1>9

\* A profile of the present application is one row.
LEMMA ProfilesFollow ==
    ASSUME DataInv, Follows(rev, db), NEW i \in CharacterIds \cup PersonaIds, NEW profile,
           CreateCharacter(i, profile) \/ CreatePersona(i, profile)
    PROVE  Follows(rev', db')
<1>1. rev \in {LegacyRevision, HeadRevision} /\ "personas" \in DOMAIN Kept /\ "characters" \in DOMAIN Kept
      /\ OwnerTables = {"characters", "personas"}
  BY KeptTables DEF CreateCharacter, CreatePersona, Running, OwnerTables
<1>2. CASE CreateCharacter(i, profile)
  <2> DEFINE given == [name |-> profile.name, tagline |-> profile.tagline,
                       description |-> profile.summary, is_active |-> "true"]
             row == NewRow("characters", given)
  <2>1. Written([db.rows EXCEPT !["characters"] = With(db.rows["characters"], i, row)])
    BY <1>2 DEF CreateCharacter, Put, Rows
  <2>2. DOMAIN given \subseteq Kept["characters"]
    BY DEF Kept
  <2> HIDE DEF given
  <2>3. NeatRow("characters", row)
    BY <1>1, <2>2, OwnerRow
  <2>4. Regular("characters", i, row)
    BY <1>1, ProfileRegular
  <2> HIDE DEF row
  <2> QED
    BY <1>1, <2>1, <2>3, <2>4, RowFollows
<1>3. CASE CreatePersona(i, profile)
  <2> DEFINE given == [name |-> profile.name, instructions |-> profile.instructions,
                       is_default |-> "false", attributes_traits |-> profile.traits,
                       attributes_pronouns |-> profile.pronouns]
             row == NewRow("personas", given)
  <2>1. Written([db.rows EXCEPT !["personas"] = With(db.rows["personas"], i, row)])
    BY <1>3 DEF CreatePersona, Put, Rows
  <2>2. DOMAIN given \subseteq Kept["personas"]
    BY DEF Kept
  <2> HIDE DEF given
  <2>3. NeatRow("personas", row)
    BY <1>1, <2>2, OwnerRow
  <2>4. Regular("personas", i, row)
    BY <1>1, ProfileRegular
  <2> HIDE DEF row
  <2> QED
    BY <1>1, <2>1, <2>3, <2>4, RowFollows
<1> QED
  BY <1>2, <1>3

\* A character and its version.
LEMMA LegacyCharacterFollows ==
    ASSUME DataInv, Follows(rev, db), NEW c \in CharacterIds, NEW profile, LegacyWriteCharacter(c, profile)
    PROVE  Follows(rev', db')
<1> DEFINE v == IF Free("characters", c) THEN "1" ELSE "2"
           version == [character_id |-> c, version |-> v, name |-> profile.name,
                       summary |-> profile.summary, speaking_style |-> profile.speaking_style]
           given == [current_version |-> v]
           row == IF v = "1" THEN NewRow("characters", given)
                  ELSE [Rows.characters[c] EXCEPT !.current_version = v]
           mid == [db.rows EXCEPT !["character_versions"] =
                      With(db.rows["character_versions"], <<c, v>>, version)]
           rows == [mid EXCEPT !["characters"] = With(mid["characters"], c, row)]
<1>1. rev \in {LegacyRevision, HeadRevision}
  BY DEF LegacyWriteCharacter, LegacyRunning
<1>2. /\ Neat(db.rows) /\ OwnerTables \cup {"memories"} \subseteq DOMAIN db.rows
      /\ "characters" \in DOMAIN db.rows /\ "character_versions" \in DOMAIN db.rows
      /\ "characters" \in DOMAIN Kept /\ "character_versions" \in DOMAIN Kept
  BY <1>1, NeatToWrite, KeptTables
<1>3. Written(rows)
  BY DEF LegacyWriteCharacter, Put, Rows
<1>4. Placed(db.rows, mid, "character_versions", <<c, v>>, version) /\ DOMAIN mid = DOMAIN db.rows
  BY <1>2, RowPlaced
<1>5. NeatRow("character_versions", version)
  BY DEF NeatRow, OwnerTables
<1>11. Regular("character_versions", <<c, v>>, version)
  BY DEF Regular, OwnerTables
<1>12. Regular("characters", c, row)
  BY ProfileRegular DEF OwnerTables
<1>6. NeatRow("characters", row)
  <2>1. CASE Free("characters", c)
    <3>1. row = NewRow("characters", given) /\ DOMAIN given \subseteq Kept["characters"]
      BY <2>1 DEF Kept
    <3> HIDE DEF row, given
    <3> QED
      BY <3>1, OwnerRow DEF OwnerTables
  <2>2. CASE ~Free("characters", c)
    <3>1. c \in DOMAIN db.rows["characters"] /\ "characters" \in OwnerTables
      BY <2>2 DEF Free, Rows, OwnerTables
    <3>2. DOMAIN db.rows["characters"][c] \subseteq Kept["characters"]
      BY <1>2, <3>1 DEF Neat
    <3>3. DOMAIN row = DOMAIN db.rows["characters"][c]
      BY <2>2 DEF Rows
    <3> HIDE DEF row
    <3> QED
      BY <3>2, <3>3 DEF NeatRow
  <2> QED
    BY <2>1, <2>2
<1> HIDE DEF row, mid, version, v
<1>7. Neat(mid)
  BY <1>2, <1>4, <1>5, <1>11, PlacedNeat
<1>8. Placed(mid, rows, "characters", c, row)
  BY <1>2, <1>4, RowPlaced
<1>9. DOMAIN rows = DOMAIN db.rows
  BY <1>4
<1> HIDE DEF rows
<1>10. Neat(rows)
  BY <1>2, <1>4, <1>6, <1>7, <1>8, <1>12, PlacedNeat
<1> QED
  BY <1>1, <1>3, <1>9, <1>10, WriteFollows

\* A persona and its version.
LEMMA LegacyPersonaFollows ==
    ASSUME DataInv, Follows(rev, db), NEW c \in PersonaIds, NEW profile, LegacyWritePersona(c, profile)
    PROVE  Follows(rev', db')
<1> DEFINE v == IF Free("personas", c) THEN "1" ELSE "2"
           version == [persona_id |-> c, version |-> v, name |-> profile.name,
                       traits |-> profile.traits, pronouns |-> profile.pronouns]
           given == [current_version |-> v]
           row == IF v = "1" THEN NewRow("personas", given)
                  ELSE [Rows.personas[c] EXCEPT !.current_version = v]
           mid == [db.rows EXCEPT !["persona_versions"] =
                      With(db.rows["persona_versions"], <<c, v>>, version)]
           rows == [mid EXCEPT !["personas"] = With(mid["personas"], c, row)]
<1>1. rev \in {LegacyRevision, HeadRevision}
  BY DEF LegacyWritePersona, LegacyRunning
<1>2. /\ Neat(db.rows) /\ OwnerTables \cup {"memories"} \subseteq DOMAIN db.rows
      /\ "personas" \in DOMAIN db.rows /\ "persona_versions" \in DOMAIN db.rows
      /\ "personas" \in DOMAIN Kept /\ "persona_versions" \in DOMAIN Kept
  BY <1>1, NeatToWrite, KeptTables
<1>3. Written(rows)
  BY DEF LegacyWritePersona, Put, Rows
<1>4. Placed(db.rows, mid, "persona_versions", <<c, v>>, version) /\ DOMAIN mid = DOMAIN db.rows
  BY <1>2, RowPlaced
<1>5. NeatRow("persona_versions", version)
  BY DEF NeatRow, OwnerTables
<1>11. Regular("persona_versions", <<c, v>>, version)
  BY DEF Regular, OwnerTables
<1>12. Regular("personas", c, row)
  BY ProfileRegular DEF OwnerTables
<1>6. NeatRow("personas", row)
  <2>1. CASE Free("personas", c)
    <3>1. row = NewRow("personas", given) /\ DOMAIN given \subseteq Kept["personas"]
      BY <2>1 DEF Kept
    <3> HIDE DEF row, given
    <3> QED
      BY <3>1, OwnerRow DEF OwnerTables
  <2>2. CASE ~Free("personas", c)
    <3>1. c \in DOMAIN db.rows["personas"] /\ "personas" \in OwnerTables
      BY <2>2 DEF Free, Rows, OwnerTables
    <3>2. DOMAIN db.rows["personas"][c] \subseteq Kept["personas"]
      BY <1>2, <3>1 DEF Neat
    <3>3. DOMAIN row = DOMAIN db.rows["personas"][c]
      BY <2>2 DEF Rows
    <3> HIDE DEF row
    <3> QED
      BY <3>2, <3>3 DEF NeatRow
  <2> QED
    BY <2>1, <2>2
<1> HIDE DEF row, mid, version, v
<1>7. Neat(mid)
  BY <1>2, <1>4, <1>5, <1>11, PlacedNeat
<1>8. Placed(mid, rows, "personas", c, row)
  BY <1>2, <1>4, RowPlaced
<1>9. DOMAIN rows = DOMAIN db.rows
  BY <1>4
<1> HIDE DEF rows
<1>10. Neat(rows)
  BY <1>2, <1>4, <1>6, <1>7, <1>8, <1>12, PlacedNeat
<1> QED
  BY <1>1, <1>3, <1>9, <1>10, WriteFollows

\* The deletion of a persona takes rows away and no column of the others.
LEMMA DeletePersonaFollows ==
    ASSUME DataInv, Follows(rev, db), NEW p, DeletePersona(p)
    PROVE  Follows(rev', db')
<1> DEFINE rows == DeleteRow(db, "personas", p).rows
<1>1. rev \in {LegacyRevision, HeadRevision}
  BY DEF DeletePersona, Running
<1>2. /\ Neat(db.rows) /\ OwnerTables \cup {"memories"} \subseteq DOMAIN db.rows
  BY <1>1, NeatToWrite
<1>3. Written(rows)
  BY DEF DeletePersona
<1>4. db = [tables |-> db.tables, rows |-> db.rows, ok |-> db.ok]
  BY DEF Follows, WellFormed, IsDatabase
<1>5. rows = [u \in DOMAIN db.rows |->
                 [i \in {j \in DOMAIN db.rows[u] : Left(db, p, u, j)} |-> LeftRow(db, p, u, i)]]
  BY <1>4 DEF DeleteRow, Left, LeftRow, Hit
<1> HIDE DEF rows
<1>6. DOMAIN rows = DOMAIN db.rows
  BY <1>5
<1>7. ASSUME NEW u \in DOMAIN rows
      PROVE  /\ DOMAIN rows[u] \subseteq DOMAIN db.rows[u]
             /\ \A i \in DOMAIN rows[u] : DOMAIN rows[u][i] = DOMAIN db.rows[u][i]
  <2>1. DOMAIN rows[u] = {j \in DOMAIN db.rows[u] : Left(db, p, u, j)}
        /\ \A i \in DOMAIN rows[u] : rows[u][i] = LeftRow(db, p, u, i)
    BY <1>5, <1>7
  <2>2. \A i : DOMAIN LeftRow(db, p, u, i) = DOMAIN db.rows[u][i]
    BY DEF LeftRow
  <2> QED
    BY <2>1, <2>2
<1>9. ASSUME NEW u \in DOMAIN rows \cap DOMAIN Kept, NEW i \in DOMAIN rows[u]
      PROVE  Regular(u, i, rows[u][i])
  <2> DEFINE m == db.rows[u][i]
             q == rows[u][i]
  <2>1. u \in DOMAIN db.rows /\ i \in DOMAIN db.rows[u] /\ Left(db, p, u, i) /\ q = LeftRow(db, p, u, i)
    BY <1>5, <1>9
  <2>2. Regular(u, i, m) /\ u \in DOMAIN db.tables
    BY <1>2, <1>9, <2>1 DEF Neat, Told, Follows, WellFormed, IsDatabase
  <2>3. \A k \in db.tables[u].keys : SafeKey(u, k)
    BY <1>9, <2>2 DEF Follows, WellFormed
  <2>4. ASSUME NEW c \in DOMAIN m, c # "persona_id" \/ u \notin {"persona_versions", "memories"}
        PROVE  q[c] = m[c]
    <3>1. ~ (\E k \in db.tables[u].keys : k.col = c /\ Hit(db, p, u, k, i))
      BY <2>3, <2>4 DEF SafeKey, Hit
    <3> QED
      BY <2>1, <3>1 DEF LeftRow
  <2>5. u = "persona_versions" => q["persona_id"] = m["persona_id"]
    <3> SUFFICES ASSUME u = "persona_versions", q["persona_id"] # m["persona_id"] PROVE FALSE
      OBVIOUS
    <3>1. "persona_id" \in DOMAIN m
      BY <2>2 DEF Regular
    <3>2. PICK k \in db.tables[u].keys : k.col = "persona_id" /\ Hit(db, p, u, k, i)
      BY <2>1, <3>1 DEF LeftRow
    <3>3. m["persona_id"] = p
      BY <3>2 DEF Hit
    <3> DEFINE key == Key("persona_id", "personas", "cascade")
    <3>4. key \in db.tables[u].keys
      BY <1>1 DEF DataInv, RevisionInv, VersionsInv, LegacyRevision, HeadRevision
    <3>5. Hit(db, p, u, key, i) /\ key.del = "cascade"
      BY <3>1, <3>3 DEF Hit, Key
    <3> QED
      BY <2>1, <3>4, <3>5 DEF Left
  <2>6. DOMAIN q = DOMAIN m /\ (u = "memories" => {"normalized_key", "status"} \subseteq DOMAIN m)
    BY <1>2, <1>7, <1>9, <2>1 DEF Neat, MemoryKey
  <2> HIDE DEF m, q
  <2>7. Regular(u, i, q)
    BY <2>2, <2>4, <2>5, <2>6 DEF Regular
  <2> QED
    BY <2>7 DEF q
<1>8. Neat(rows)
  BY <1>2, <1>6, <1>7, <1>9 DEF Neat, Told
<1> QED
  BY <1>1, <1>3, <1>6, <1>8, WriteFollows

\* A command ends with the tables of its target, or rolls back.
LEMMA FinishFollows ==
    ASSUME Follows(rev, db), NEW command, NEW target, NEW result,
           Finish(command, target, result), Kempt(target, result)
    PROVE  Follows(rev', db')
<1>1. CASE result.ok = TRUE
  <2>1. rev' = target /\ db' = result
    BY <1>1 DEF Finish
  <2> QED
    BY <1>1, <2>1 DEF Kempt
<1>2. CASE result.ok # TRUE
  <2>1. result.ok = FALSE
    BY <1>2 DEF Kempt, IsDatabase
  <2>2. rev' = rev /\ db' = db
    BY <2>1 DEF Finish
  <2> QED
    BY <2>2
<1> QED
  BY <1>1, <1>2

\* Both commands keep the schema.
LEMMA CommandsFollow ==
    ASSUME DataInv, Follows(rev, db), NEW target \in Targets,
           AlembicUpgrade(target) \/ AlembicDowngrade(target)
    PROVE  Follows(rev', db')
<1>1. rev \in 0 .. HeadRevision /\ Kempt(rev, db)
  BY DEF DataInv, Kempt, Follows, WellFormed
<1>2. target \in 0 .. HeadRevision
  BY InputAssumption
<1>3. CASE AlembicUpgrade(target)
  <2>1. target \in rev .. HeadRevision
    BY <1>1, <1>2, <1>3 DEF AlembicUpgrade, HeadRevision
  <2>2. Kempt(target, UpgradeFrom(db, rev, target))
    BY <1>1, <2>1, UpgradeKempt
  <2>3. Finish("upgrade", target, UpgradeFrom(db, rev, target))
    BY <1>3 DEF AlembicUpgrade
  <2> QED
    BY <2>2, <2>3, FinishFollows
<1>4. CASE AlembicDowngrade(target)
  <2>1. target \in 0 .. rev
    BY <1>1, <1>2, <1>4 DEF AlembicDowngrade, HeadRevision
  <2>2. Kempt(target, DowngradeFrom(db, rev, target))
    BY <1>1, <2>1, DowngradeKempt
  <2>3. Finish("downgrade", target, DowngradeFrom(db, rev, target))
    BY <1>4 DEF AlembicDowngrade
  <2> QED
    BY <2>2, <2>3, FinishFollows
<1> QED
  BY <1>3, <1>4

\* The database has the tables of its revision and rows that satisfy them.
SchemaInv == DataInv /\ Follows(rev, db)

\* The empty database does.
LEMMA StartsKempt == Init => SchemaInv
<1> SUFFICES ASSUME Init PROVE Follows(rev, db)
  BY StartsSane DEF SchemaInv
<1>1. rev = 0 /\ db = EmptyDatabase /\ 0 \in 0 .. HeadRevision /\ 0 \in Nat
  BY DEF Init, HeadRevision
<1>2. WellFormed(db) /\ Orderly(db) /\ Legal(db)
  BY <1>1, Nothing
<1>3. PICK at : Ascent(at, EmptyDatabase, 0, 0)
  BY <1>1, UpgradeThrough
<1>4. TablesAt[0] = EmptyDatabase.tables
  BY <1>1, <1>3 DEF TablesAt, Ascent
<1> QED
  BY <1>1, <1>2, <1>4 DEF Follows

\* Every step keeps it so.
LEMMA StepsFollow == SchemaInv /\ [Next]_vars => SchemaInv'
<1> SUFFICES ASSUME DataInv, Follows(rev, db), [Next]_vars PROVE Follows(rev', db')
  BY StepsKeep DEF SchemaInv
<1>1. CASE \E target \in Targets : AlembicUpgrade(target) \/ AlembicDowngrade(target)
  BY <1>1, CommandsFollow
<1>2. CASE \E scope \in Scopes, kind \in Kinds, c \in OrNull(Present("characters")) :
             \/ \E p \in OrNull(Present("personas")) : LegacyRemember(scope, kind, c, p)
             \/ Remember(scope, kind, c)
  BY <1>2, LegacyRememberFollows, RememberFollows
<1>3. CASE \E id \in Present("memories") : LegacyRetire(id) \/ ArchiveMemory(id)
  BY <1>3, FieldsFollow
<1>7. \A profile \in CharacterProfiles \cup PersonaProfiles : profile.name \in Names
  BY ProfilesNamed
<1>4. CASE \E c \in CharacterIds :
             \/ \E profile \in CharacterProfiles :
                  \/ LegacyWriteCharacter(c, profile)
                  \/ CreateCharacter(c, profile) \/ UpdateCharacter(c, profile)
             \/ LegacyArchiveCharacter(c) \/ ArchiveCharacter(c)
  BY <1>4, <1>7, LegacyCharacterFollows, ProfilesFollow, UpdatesFollow, FieldsFollow
<1>5. CASE \E p \in PersonaIds :
             \/ \E profile \in PersonaProfiles :
                  \/ LegacyWritePersona(p, profile)
                  \/ CreatePersona(p, profile) \/ UpdatePersona(p, profile)
             \/ LegacyArchivePersona(p) \/ DeletePersona(p)
  BY <1>5, <1>7, LegacyPersonaFollows, ProfilesFollow, UpdatesFollow, FieldsFollow,
     DeletePersonaFollows
<1>6. CASE UNCHANGED vars
  BY <1>6 DEF vars
<1> QED
  BY <1>1, <1>2, <1>3, <1>4, <1>5, <1>6 DEF Next

\* Whatever upgrades, downgrades and writes led to a revision, the database has
\* exactly the tables, columns, keys, constraints and indexes that the upgrades
\* alone give at it (src/backend/alembic/versions), every row satisfies them,
\* and at the head the classes of the application fit them.
THEOREM SchemaFollowed == Spec => []SchemaFollowsRevision
<1>1. Init => SchemaInv
  BY StartsKempt
<1>2. SchemaInv /\ [Next]_vars => SchemaInv'
  BY StepsFollow
<1>3. ASSUME SchemaInv PROVE SchemaFollowsRevision
  <2>1. db.ok = TRUE /\ Legal(db) /\ db.tables = TablesAt[rev]
    BY <1>3 DEF SchemaInv, DataInv, Follows
  <2>2. rev = HeadRevision => ModelsFitTables(db.tables)
    BY <2>1, SchemaFacts
  <2> QED
    BY <2>1, <2>2 DEF SchemaFollowsRevision
<1> QED
  BY <1>1, <1>2, <1>3, PTL DEF Spec

-----------------------------------------------------------------------------
(* The bridge runs.                                                        *)

\* The parts of the bridge around the mapping of the scopes.
LEMMA ScopeParts ==
    /\ Scripted(KeepScript) /\ Scripted(BeforeScopes) /\ Scripted(AfterScopes)
    /\ Footprint(ScopeScript, MapEffects)
<1> DEFINE a == <<AddColumn("memories", "archived_at", Optional)>>
           T == {"memories"} \X {"add column"} \X {"archived_at"} \X {Optional}
           k == <<Sql("keep scopes")>>
           m == <<Sql("keep kinds"), Sql("map kinds"), Sql("archive memories")>>
<1>1. Footprint(a, T)
  <2>1. Obeys(AddColumn("memories", "archived_at", Optional), T)
    BY OwnerColumns, Statements
  <2> HIDE DEF T
  <2> QED
    BY <2>1, Tuples
<1>2. Footprint(DropMemoryChecks, PlainEffects("memories"))
  <2>1. PlainEffects("memories") \subseteq PlainEffects("memories")
    OBVIOUS
  <2> QED
    BY <2>1, PlainStatements, Tuples DEF DropMemoryChecks
<1>3. Footprint(k, MapEffects) /\ Footprint(ScopeScript, MapEffects) /\ Footprint(m, MapEffects)
  <2>1. {"keep scopes", "map scopes", "keep kinds", "map kinds", "archive memories"} \subseteq DataNames
    BY DEF DataNames
  <2>2. \A name \in {"keep scopes", "map scopes", "keep kinds", "map kinds", "archive memories"} :
           DataTable(name) = "memories"
    BY DEF DataTable
  <2>3. <<"memories", "sql", "", Required>> \in MapEffects
    BY DEF MapEffects
  <2>4. \A name \in {"keep scopes", "map scopes", "keep kinds", "map kinds", "archive memories"} :
           Obeys(Sql(name), MapEffects)
    BY <2>1, <2>2, <2>3, DataStatements
  <2>5. /\ Obeys(Sql("keep scopes"), MapEffects) /\ Obeys(Sql("map scopes"), MapEffects)
        /\ Obeys(Sql("keep kinds"), MapEffects) /\ Obeys(Sql("map kinds"), MapEffects)
        /\ Obeys(Sql("archive memories"), MapEffects)
    BY <2>4
  <2> QED
    BY <2>5, Tuples DEF ScopeScript
<1> HIDE DEF T
<1>4. Scripted(a) /\ Scripted(DropMemoryChecks) /\ Scripted(k) /\ Scripted(m) /\ Scripted(RelaxMemories)
  BY <1>1, <1>2, <1>3, RelaxFootprint DEF Scripted
<1>5. KeepScript = (a \o DropMemoryChecks) \o k /\ AfterScopes = m \o RelaxMemories
  BY DEF KeepScript, AfterScopes
<1> HIDE DEF a, k, m
<1>6. Scripted(a \o DropMemoryChecks) /\ Scripted(BridgeCharacters \o BridgePersonas)
  BY <1>4, PartScripts, ScriptedConcat
<1>7. Scripted(KeepScript) /\ Scripted(AfterScopes)
  BY <1>4, <1>5, <1>6, ScriptedConcat
<1>8. Scripted(BeforeScopes)
  BY <1>6, <1>7, ScriptedConcat DEF BeforeScopes
<1> QED
  BY <1>3, <1>7, <1>8

\* The bridge is these parts in succession.
LEMMA BridgeInParts ==
    ASSUME NEW d
    PROVE  /\ Run(Upgrade5, d) = Run(AfterScopes, Run(ScopeScript, Run(BeforeScopes, d)))
           /\ Run(BeforeScopes, d) = Run(KeepScript, Run(BridgePersonas, Run(BridgeCharacters, d)))
<1> DEFINE a == <<AddColumn("memories", "archived_at", Optional)>>
           k == <<Sql("keep scopes")>>
           m == <<Sql("keep kinds"), Sql("map kinds"), Sql("archive memories")>>
           x == Run(BridgePersonas, Run(BridgeCharacters, d))
           y == Run(DropMemoryChecks, Run(a, x))
<1>1. IsList(a) /\ IsList(k) /\ IsList(m) /\ IsList(DropMemoryChecks)
  BY SmallLists DEF DropMemoryChecks
<1>2. IsList(RelaxMemories) /\ IsList(BridgeCharacters) /\ IsList(BridgePersonas)
      /\ IsList(BridgeMemories) /\ IsList(KeepScript) /\ IsList(MapMemories)
  BY RelaxFootprint, MapFootprint, PartScripts, ScopeParts DEF Scripted, Footprint
<1>3. Run(BeforeScopes, d) = Run(KeepScript, x)
  BY <1>2, ThreeConcat DEF BeforeScopes
<1>4. Run(Upgrade5, d) = Run(BridgeMemories, x)
  BY <1>2, ThreeConcat DEF Upgrade5
<1>5. \A z : Run(MapMemories, z) = Run(m, Run(ScopeScript, Run(k, z)))
  <2> DEFINE s1 == Sql("keep scopes")
             s2 == Sql("map scopes")
             s3 == Sql("keep kinds")
             s4 == Sql("map kinds")
             s5 == Sql("archive memories")
  <2>1. /\ MapMemories = <<s1, s2, s3, s4, s5>>
        /\ k = <<s1>> /\ ScopeScript = <<s2>> /\ m = <<s3, s4, s5>>
    BY DEF MapMemories, ScopeScript
  <2> HIDE DEF s1, s2, s3, s4, s5, k, m
  <2>2. MapMemories = (k \o ScopeScript) \o m
    BY <2>1
  <2>3. IsList(k) /\ IsList(ScopeScript) /\ IsList(m)
    BY <2>1, SmallLists
  <2> QED
    BY <2>2, <2>3, ThreeConcat
<1>6. KeepScript = (a \o DropMemoryChecks) \o k /\ AfterScopes = m \o RelaxMemories
      /\ BridgeMemories = ((a \o DropMemoryChecks) \o MapMemories) \o RelaxMemories
  BY DEF KeepScript, AfterScopes, BridgeMemories
<1> HIDE DEF a, k, m, x
<1>7. Run(KeepScript, x) = Run(k, y)
  BY <1>1, <1>6, ThreeConcat
<1>8. Run(BridgeMemories, x) = Run(RelaxMemories, Run(MapMemories, y))
  BY <1>1, <1>2, <1>6, FourConcat
<1>9. \A z : Run(AfterScopes, z) = Run(RelaxMemories, Run(m, z))
  BY <1>1, <1>2, <1>6, RunConcat
<1> QED
  BY <1>3, <1>4, <1>5, <1>7, <1>8, <1>9 DEF x

\* The profiles are bridged apart from the memories.
LEMMA ProfilesApart ==
    ASSUME NEW d, WellFormed(d), Run(BridgeCharacters \o BridgePersonas, d).ok = TRUE
    PROVE  /\ WellFormed(Run(BridgeCharacters \o BridgePersonas, d))
           /\ Same("memories", d, Run(BridgeCharacters \o BridgePersonas, d))
<1> DEFINE A == ColumnEffects("characters", CharacterTexts, Optional)
           B == ColumnEffects("personas", PersonaTexts, Optional)
           I == PlainEffects("personas")
           n == AddIndexes("personas", <<"name", "is_default">>)
           p == AddColumns("characters", CharacterTexts)
           q == AddColumns("personas", PersonaTexts)
           T == (A \cup ProjectEffects) \cup ((B \cup AttributeEffects) \cup I)
<1>1. Footprint(p, A) /\ Footprint(q, B)
  BY NameLists, TableKinds, ListFootprint
<1>2. Footprint(n, I)
  <2>1. <<"personas", "add index", "", Required>> \in I
    BY DEF PlainEffects, PlainOps, Alterations, ColumnOps
  <2>2. IsList(<<"name", "is_default">>)
    BY SmallLists
  <2> HIDE DEF I
  <2> QED
    BY <2>1, <2>2, ListScripts
<1>3. \A x \in A \cup B \cup I : x[1] # "memories"
  BY DEF ColumnEffects, PlainEffects
<1>4. \A x \in ProjectEffects \cup AttributeEffects : x[1] # "memories"
  BY DEF ProjectEffects, AttributeEffects
<1>5. /\ BridgeCharacters = p \o ProjectScript
      /\ BridgePersonas = (q \o AttributeScript) \o n
  BY DEF BridgeCharacters, ProjectScript, BridgePersonas, AttributeScript
<1> HIDE DEF A, B, I, n, p, q
<1>6. Footprint(BridgeCharacters, A \cup ProjectEffects)
  BY <1>1, <1>5, ProjectFootprint, JoinedFootprint
<1>7. Footprint(BridgePersonas, (B \cup AttributeEffects) \cup I)
  <2>1. Footprint(q \o AttributeScript, B \cup AttributeEffects)
    BY <1>1, AttributeFootprint, JoinedFootprint
  <2> QED
    BY <1>2, <1>5, <2>1, JoinedFootprint
<1>8. Footprint(BridgeCharacters \o BridgePersonas, T)
  BY <1>6, <1>7, JoinedFootprint
<1>9. \A x \in T : x[1] # "memories"
  BY <1>3, <1>4
<1> HIDE DEF T
<1> QED
  BY <1>8, <1>9, KeptTables, RunApart

\* What two memories are told apart by stays when they are kept for the way back.
LEMMA KeepsKeys ==
    ASSUME NEW d, WellFormed(d), "memories" \in DOMAIN d.tables, Run(KeepScript, d).ok = TRUE
    PROVE  /\ WellFormed(Run(KeepScript, d)) /\ "memories" \in DOMAIN Run(KeepScript, d).tables
           /\ Kindred(d.rows["memories"], Run(KeepScript, d).rows["memories"], MemoryKey)
<1> DEFINE a == <<AddColumn("memories", "archived_at", Optional)>>
           T == {"memories"} \X {"add column"} \X {"archived_at"} \X {Optional}
           k == <<Sql("keep scopes")>>
           U == T \cup PlainEffects("memories")
           b == a \o DropMemoryChecks
           x == Run(b, d)
           e == Run(KeepScript, d)
<1>1. Footprint(a, T)
  <2>1. Obeys(AddColumn("memories", "archived_at", Optional), T)
    BY OwnerColumns, Statements
  <2> HIDE DEF T
  <2> QED
    BY <2>1, Tuples
<1>2. Footprint(DropMemoryChecks, PlainEffects("memories"))
  <2>1. PlainEffects("memories") \subseteq PlainEffects("memories")
    OBVIOUS
  <2> QED
    BY <2>1, PlainStatements, Tuples DEF DropMemoryChecks
<1>3. Spares(U, "memories", MemoryKey)
  <2>1. \A y \in T : y[2] = "add column" /\ y[3] = "archived_at"
    OBVIOUS
  <2>2. \A y \in PlainEffects("memories") : y[2] \in PlainOps
    BY DEF PlainEffects
  <2>3. PlainOps \cap {"create", "drop", "sql", "add column", "drop column"} = {}
    BY DEF PlainOps, Alterations, ColumnOps
  <2>4. "archived_at" \notin MemoryKey
    BY DEF MemoryKey
  <2> HIDE DEF T
  <2> QED
    BY <2>1, <2>2, <2>3, <2>4 DEF Spares
<1>4. Footprint(k, MapEffects)
  <2>1. "keep scopes" \in DataNames
    BY DEF DataNames
  <2>2. DataTable("keep scopes") = "memories"
    BY DEF DataTable
  <2>3. <<"memories", "sql", "", Required>> \in MapEffects
    BY DEF MapEffects
  <2>4. Obeys(Sql("keep scopes"), MapEffects)
    BY <2>1, <2>2, <2>3, DataStatements
  <2> QED
    BY <2>4, Tuples
<1>5. KeepScript = b \o k
  BY DEF KeepScript
<1>11. k = <<Sql("keep scopes")>>
  OBVIOUS
<1> HIDE DEF a, k, T
<1>6. Footprint(b, U)
  BY <1>1, <1>2, JoinedFootprint
<1> HIDE DEF U, b
<1>7. Run(b \o k, d).ok = TRUE
  BY <1>5
<1>8. x.ok = TRUE /\ WellFormed(x) /\ e = Run(k, x)
  BY <1>4, <1>5, <1>6, <1>7, RunTwo
<1>9. "memories" \in DOMAIN x.tables /\ Kindred(d.rows["memories"], x.rows["memories"], MemoryKey)
  BY <1>3, <1>6, <1>8, KeptTables, RunKeepsRows
<1>10. WellFormed(e)
  BY <1>4, <1>8, RunForm
<1>12. Done(x, Sql("keep scopes"), e)
  <2>1. "keep scopes" \in DataNames /\ IsDatabase(x)
    BY <1>8 DEF DataNames, WellFormed
  <2>2. Known(Sql("keep scopes"))
    BY <2>1 DEF Known, Sql
  <2>3. e = Execute(x, Sql("keep scopes")) /\ e.ok = TRUE
    BY <1>8, <1>11, SingleStatement
  <2> QED
    BY <2>1, <2>2, <2>3, Executed
<1> HIDE DEF x, e
<1>13. e.tables = x.tables /\ e.rows = DataStatement("keep scopes", x.rows)
  BY <1>12, DataStep
<1>14. "memories" \in DOMAIN x.rows
  BY <1>8, <1>9 DEF WellFormed, IsDatabase
<1>15. Remade(x.rows, e.rows, ScopeKept)
  BY <1>13, <1>14, MemoryStatements
<1>16. Kindred(x.rows["memories"], e.rows["memories"], MemoryKey)
  <2>1. "legacy_scope" \notin MemoryKey
    BY DEF MemoryKey
  <2>2. /\ DOMAIN e.rows["memories"] = DOMAIN x.rows["memories"]
        /\ \A i \in DOMAIN x.rows["memories"] : e.rows["memories"][i] = ScopeKept(x.rows["memories"][i])
    BY <1>15 DEF Remade
  <2>3. \A m : Alike(m, ScopeKept(m), MemoryKey)
    BY <2>1 DEF Alike, ScopeKept
  <2> QED
    BY <2>2, <2>3 DEF Kindred
<1>17. Kindred(d.rows["memories"], e.rows["memories"], MemoryKey)
  BY <1>9, <1>16, KindredTwice
<1>18. "memories" \in DOMAIN e.tables
  BY <1>9, <1>13
<1> QED
  BY <1>10, <1>17, <1>18 DEF e

\* Memories that are told apart by the same do not become more alike.
LEMMA KindredMerged ==
    ASSUME NEW ms, NEW ns, Kindred(ms, ns, MemoryKey), \A i \in DOMAIN ms : MemoryKey \subseteq DOMAIN ms[i],
           Merged(ns)
    PROVE  Merged(ms)
<1>1. MemoryKey = {"scope", "normalized_key", "conversation_id", "character_id", "persona_id", "status"}
  BY DEF MemoryKey
<1>2. PICK i \in DOMAIN ns, j \in DOMAIN ns :
         /\ i # j /\ ns[i]["status"] = "active" /\ ns[j]["status"] = "active"
         /\ \A c \in MemoryKey : ScopeMapped(ns[i])[c] = ScopeMapped(ns[j])[c]
  BY DEF Merged
<1>3. i \in DOMAIN ms /\ j \in DOMAIN ms
  BY DEF Kindred
<1>4. \A l \in {i, j} : MemoryKey \subseteq DOMAIN ms[l] /\ MemoryKey \subseteq DOMAIN ns[l]
                        /\ \A c \in MemoryKey : ns[l][c] = ms[l][c]
  BY <1>3 DEF Kindred, Alike
<1>5. \A l \in {i, j} : \A c \in MemoryKey : ScopeMapped(ns[l])[c] = ScopeMapped(ms[l])[c]
  <2> SUFFICES ASSUME NEW l \in {i, j}, NEW c \in MemoryKey PROVE ScopeMapped(ns[l])[c] = ScopeMapped(ms[l])[c]
    OBVIOUS
  <2> DEFINE m == ms[l]
             n == ns[l]
  <2>1. /\ MemoryKey \subseteq DOMAIN m /\ MemoryKey \subseteq DOMAIN n
        /\ \A x \in MemoryKey : n[x] = m[x]
    BY <1>4
  <2> HIDE DEF m, n
  <2>2. /\ "scope" \in DOMAIN m /\ "scope" \in DOMAIN n /\ c \in DOMAIN m /\ c \in DOMAIN n
        /\ n.scope = m.scope /\ n.character_id = m.character_id /\ n[c] = m[c]
    BY <1>1, <2>1
  <2>3. ScopeMapped(n)[c] = ScopeMapped(m)[c]
    BY <2>2 DEF ScopeMapped
  <2> QED
    BY <2>3 DEF m, n
<1>6. ms[i]["status"] = "active" /\ ms[j]["status"] = "active"
  BY <1>1, <1>2, <1>4
<1> QED
  BY <1>2, <1>3, <1>5, <1>6 DEF Merged

\* The databases without rows have the tables of their revisions.
LEMMA BaseTables ==
    ASSUME NEW r \in 0 .. HeadRevision
    PROVE  TablesThere(r, Base(r))
<1>1. Sane(0, EmptyDatabase, <<>>)
  BY Nothing DEF Sane, WellFormed
<1>2. 0 \in 0 .. HeadRevision
  BY DEF HeadRevision
<1>3. Sane(r, Base(r), <<>>)
  BY <1>1, <1>2, UpgradeSane DEF Base
<1>4. Base(r).ok = TRUE
  BY BaseSound
<1> QED
  BY <1>3, <1>4 DEF Sane, RevisionInv

\* A harmless script, whatever rows there are.
LEMMA HarmlessAlone ==
    ASSUME NEW a, Scripted(a), NEW d, NEW b, Twins(d, b), Run(a, b).ok = TRUE, HarmlessRun(a, b, {})
    PROVE  Twins(Run(a, d), Run(a, b))
<1>1. PICK T : Footprint(a, T)
  BY DEF Scripted
<1> DEFINE B == {}
<1>2. (\A t \in B : Empty(t, d)) /\ HarmlessRun(a, b, B)
  OBVIOUS
<1> HIDE DEF B
<1> QED
  BY <1>1, <1>2, HarmlessRuns

\* No mapping merges two memories: the bridge runs as it does without rows.
LEMMA BridgeRuns ==
    ASSUME NEW d, Twins(d, Base(4)), ~ Merged(d.rows["memories"])
    PROVE  Twins(Run(Upgrade5, d), Base(5))
<1> DEFINE b == Base(4)
           x == Run(BeforeScopes, d)
           u == Run(ScopeScript, AtScopes)
<1>1. 4 \in 0 .. HeadRevision /\ 5 \in 0 .. HeadRevision /\ 5 \in 1 .. HeadRevision /\ 5 - 1 = 4
  BY DEF HeadRevision
<1>2. WellFormed(b) /\ b.ok = TRUE /\ Base(5).ok = TRUE
  BY <1>1, BaseSound
<1>3. Base(5) = Run(Upgrade5, b)
  <2>1. Upgrades[5] = Upgrade5
    BY DEF Upgrades
  <2>2. Base(5) = Run(Upgrades[5], Base(5 - 1))
    BY <1>1, BaseStep
  <2> QED
    BY <1>1, <2>1, <2>2
<1>4. AtScopes = Run(BeforeScopes, b)
  BY DEF AtScopes
<1>5. Base(5) = Run(AfterScopes, u)
  BY <1>3, <1>4, BridgeInParts
<1>6. IsDatabase(AtScopes) /\ IsDatabase(u)
  BY <1>2, <1>4, ScopeParts, RunDatabase DEF WellFormed, Scripted
<1>7. u.ok = TRUE /\ AtScopes.ok = TRUE
  BY <1>2, <1>5, <1>6, OkBefore
<1>8. Twins(x, AtScopes)
  <2>1. HarmlessRun(BeforeScopes, b, {})
    BY BridgeFacts
  <2>2. Twins(d, b)
    OBVIOUS
  <2> HIDE DEF b
  <2> QED
    BY <1>4, <1>7, <2>1, <2>2, ScopeParts, HarmlessAlone
<1>9. "memories" \in DOMAIN d.tables
  <2>1. "memories" \in DOMAIN b.tables
    BY <1>1, BaseTables DEF TablesThere, LegacyRevision
  <2> QED
    BY <2>1 DEF Twins
<1>10. "memories" \in DOMAIN x.tables /\ ~ Merged(x.rows["memories"])
  <2> DEFINE w == Run(BridgeCharacters \o BridgePersonas, d)
  <2>1. x = Run(KeepScript, w)
    <3>1. IsList(BridgeCharacters) /\ IsList(BridgePersonas)
      BY PartScripts DEF Scripted, Footprint
    <3> QED
      BY <3>1, BridgeInParts, RunConcat
  <2>2. x.ok = TRUE /\ WellFormed(d)
    BY <1>8 DEF Twins, Fit
  <2>3. w.ok = TRUE
    <3>1. Scripted(BridgeCharacters \o BridgePersonas)
      BY PartScripts, ScriptedConcat
    <3>2. IsDatabase(w)
      BY <2>2, <3>1, RunDatabase DEF WellFormed
    <3> QED
      BY <2>1, <2>2, <3>2, OkBefore
  <2>4. WellFormed(w) /\ Same("memories", d, w)
    BY <2>2, <2>3, ProfilesApart
  <2> HIDE DEF w, x
  <2>5. "memories" \in DOMAIN w.tables /\ w.rows["memories"] = d.rows["memories"]
    BY <1>9, <2>4 DEF Same
  <2>6. "memories" \in DOMAIN x.tables /\ Kindred(d.rows["memories"], x.rows["memories"], MemoryKey)
    BY <2>1, <2>2, <2>4, <2>5, KeepsKeys
  <2>7. \A i \in DOMAIN d.rows["memories"] : MemoryKey \subseteq DOMAIN d.rows["memories"][i]
    BY <1>9 DEF Twins, Fit, Orderly
  <2> QED
    BY <2>6, <2>7, KindredMerged
<1>11. Passes(x, Sql("map scopes"))
  <2> DEFINE f == AtScopes.tables["memories"]
  <2>1. f.uniques = {[on |-> Identity, active |-> TRUE]} /\ Unconstrained([f EXCEPT !.uniques = {}], {"scope"})
    BY BridgeFacts
  <2>2. Fit(x) /\ x.tables = AtScopes.tables
    BY <1>8 DEF Twins
  <2> HIDE DEF x
  <2> QED
    BY <1>10, <2>1, <2>2, ScopesPass
<1>12. Twins(Run(ScopeScript, x), u)
  <2>1. Sound(Sql("map scopes"))
    BY ScopeParts, SingleStatement DEF ScopeScript, Footprint, Obeys
  <2>2. /\ Run(ScopeScript, x) = Execute(x, Sql("map scopes"))
        /\ u = Execute(AtScopes, Sql("map scopes"))
    BY SingleStatement DEF ScopeScript
  <2> HIDE DEF x, u
  <2> QED
    BY <1>7, <1>8, <1>11, <2>1, <2>2, TwinsStep
<1>13. Twins(Run(AfterScopes, Run(ScopeScript, x)), Base(5))
  <2>1. HarmlessRun(AfterScopes, u, {})
    BY BridgeFacts
  <2> HIDE DEF x, u
  <2> QED
    BY <1>2, <1>5, <1>12, <2>1, ScopeParts, HarmlessAlone
<1> QED
  BY <1>13, BridgeInParts

-----------------------------------------------------------------------------
(* So does the way back.                                                   *)

\* A memory on its way back, as the statements that fill it leave it.
Returned(m, i) == KindRevised(FilledRow(m, i))

\* A memory of the present application fits the checks of the legacy release.
LEMMA ReturnedFits ==
    ASSUME NEW m, NEW i, i # NULL, MemoryFields \cup MemoryKey \subseteq DOMAIN m,
           m.scope \in MemoryScope, m.kind \in MemoryKind, m.status \in LegacyStatuses \cup {NULL}
    PROVE  /\ DOMAIN Returned(m, i) = DOMAIN m
           /\ Returned(m, i)["scope"] = m.scope
           /\ Returned(m, i)["scope"] \in LegacyScopes /\ Returned(m, i)["kind"] \in LegacyKinds
           /\ Returned(m, i)["status"] \in LegacyStatuses
           /\ Returned(m, i)["normalized_key"] = Coalesce(m.normalized_key, i)
           /\ Returned(m, i)["normalized_key"] # NULL
           /\ m.status # NULL => Returned(m, i)["status"] = m.status
           /\ \A c \in {"conversation_id", "character_id", "persona_id"} : Returned(m, i)[c] = m[c]
<1> DEFINE f == FilledRow(m, i)
           s == Coalesce(m.status, IF m.archived_at = NULL THEN "active" ELSE "archived")
<1>1. {"scope", "kind", "status", "normalized_key", "conversation_id", "character_id", "persona_id",
       "revised_kind"} \subseteq DOMAIN m
  BY DEF MemoryFields, MemoryKey
<1>2. s \in LegacyStatuses /\ (m.status # NULL => s = m.status)
  BY DEF Coalesce, LegacyStatuses
<1>3. /\ DOMAIN f = DOMAIN m /\ f.status = s /\ f.normalized_key = Coalesce(m.normalized_key, i)
      /\ \A c \in DOMAIN m : c \notin {"status", "normalized_key"} => f[c] = m[c]
  BY <1>1 DEF FilledRow
<1>4. Coalesce(m.normalized_key, i) # NULL
  BY DEF Coalesce
<1>5. m.scope \in LegacyScopes
  BY DEF MemoryScope, LegacyScopes
<1> HIDE DEF s, f
<1>6. f.kind \in MemoryKind
  BY <1>1, <1>3
<1> DEFINE q == KindRevised(f)
<1>7. /\ DOMAIN q = DOMAIN f /\ q.kind = IF f.kind \in {"summary", "note"} THEN "fact" ELSE f.kind
      /\ \A c \in DOMAIN f : c \notin {"kind", "revised_kind"} => q[c] = f[c]
  BY <1>1, <1>3 DEF KindRevised
<1> HIDE DEF q
<1>8. q.kind \in LegacyKinds
  BY <1>6, <1>7 DEF MemoryKind, LegacyKinds
<1>9. q = Returned(m, i)
  BY DEF q, f, Returned
<1>10. q["scope"] = m.scope /\ q["status"] = s /\ q["normalized_key"] = Coalesce(m.normalized_key, i)
  BY <1>1, <1>3, <1>7
<1>11. \A c \in {"conversation_id", "character_id", "persona_id"} : q[c] = m[c]
  BY <1>1, <1>3, <1>7
<1> QED
  BY <1>2, <1>3, <1>4, <1>5, <1>7, <1>8, <1>9, <1>10, <1>11

\* The memories of a database of the present application on their way back.
Returning(ms, ns) ==
    /\ DOMAIN ns = DOMAIN ms
    /\ \A i \in DOMAIN ms : ns[i] = Returned(ms[i], i)
\* What those of the present application are.
Presentable(ms) ==
    \A i \in DOMAIN ms :
        /\ i \notin {NULL, "key"} /\ MemoryFields \cup MemoryKey \subseteq DOMAIN ms[i]
        /\ {"user_id", "confidence", "access_count"} \cap DOMAIN ms[i] = {}
        /\ ms[i].scope \in MemoryScope /\ ms[i].kind \in MemoryKind
        /\ ms[i].status \in LegacyStatuses \cup {NULL}
        /\ ms[i].normalized_key \in {"key", i, NULL}
        /\ ms[i].status = NULL => ms[i].normalized_key = NULL

\* Where the mapping of the scopes merges no memories, those that come back are
\* told apart: only a key of a text is ever shared.
LEMMA ReturnedUnique ==
    ASSUME NEW ms, NEW ns, Returning(ms, ns), Presentable(ms), ~ Merged(ms)
    PROVE  UniqueHolds([on |-> Identity, active |-> TRUE], ns)
<1> DEFINE C == {"scope", "normalized_key", "conversation_id", "character_id", "persona_id"}
<1>1. \A i \in DOMAIN ms : ns[i]["status"] = "active" /\ ms[i].status # NULL => ms[i]["status"] = "active"
  BY ReturnedFits DEF Returning, Presentable
<1>2. ASSUME NEW i \in DOMAIN ms, NEW j \in DOMAIN ms, i # j,
             ns[i]["status"] = "active", ns[j]["status"] = "active",
             \A c \in C : ns[i][c] = ns[j][c]
      PROVE  FALSE
  <2>1. /\ ns[i]["normalized_key"] = Coalesce(ms[i].normalized_key, i)
        /\ ns[j]["normalized_key"] = Coalesce(ms[j].normalized_key, j)
        /\ ns[i]["scope"] = ms[i].scope /\ ns[j]["scope"] = ms[j].scope
        /\ \A c \in {"conversation_id", "character_id", "persona_id"} : ns[i][c] = ms[i][c] /\ ns[j][c] = ms[j][c]
    BY ReturnedFits DEF Returning, Presentable
  <2>2. ms[i].normalized_key = "key" /\ ms[j].normalized_key = "key"
    <3>1. Coalesce(ms[i].normalized_key, i) = Coalesce(ms[j].normalized_key, j)
      BY <1>2, <2>1
    <3>2. ms[i].normalized_key \in {"key", i, NULL} /\ ms[j].normalized_key \in {"key", j, NULL}
      BY DEF Presentable
    <3>3. i \notin {NULL, "key"} /\ j \notin {NULL, "key"}
      BY DEF Presentable
    <3>4. NULL # "key"
      BY DEF NULL
    <3> QED
      BY <1>2, <3>1, <3>2, <3>3, <3>4 DEF Coalesce
  <2>3. ms[i].status # NULL /\ ms[j].status # NULL
    <3>1. NULL # "key"
      BY DEF NULL
    <3> QED
      BY <2>2, <3>1 DEF Presentable
  <2>4. ms[i]["status"] = "active" /\ ms[j]["status"] = "active"
    BY <1>1, <1>2, <2>3
  <2>5. ms[i].scope \notin DroppedScopes /\ ms[j].scope \notin DroppedScopes
    BY DEF Presentable, MemoryScope, DroppedScopes
  <2>6. ScopeMapped(ms[i]) = ms[i] /\ ScopeMapped(ms[j]) = ms[j]
    BY <2>5 DEF ScopeMapped
  <2>7. \A c \in MemoryKey : ms[i][c] = ms[j][c]
    BY <1>2, <2>1, <2>2, <2>4 DEF MemoryKey
  <2>8. Merged(ms)
    BY <1>2, <2>4, <2>6, <2>7 DEF Merged
  <2> QED
    BY <2>8
<1>3. \A i \in DOMAIN ms : C \subseteq Identity \cap DOMAIN ns[i]
  BY ReturnedFits DEF Returning, Presentable, Identity, MemoryKey
<1>4. DOMAIN ns = DOMAIN ms
  BY DEF Returning
<1> HIDE DEF C
<1> DEFINE u == [on |-> Identity, active |-> TRUE]
<1>5. u.on = Identity /\ u.active = TRUE
  OBVIOUS
<1>6. ASSUME NEW i \in DOMAIN ns, NEW j \in DOMAIN ns, ns[i]["status"] = "active", ns[j]["status"] = "active",
             \A c \in Identity \cap DOMAIN ns[i] : ns[i][c] = ns[j][c]
      PROVE  i = j
  <2>1. \A c \in C : ns[i][c] = ns[j][c]
    BY <1>3, <1>4, <1>6
  <2> QED
    BY <1>2, <1>4, <1>6, <2>1
<1> HIDE DEF u
<1> QED
  BY <1>5, <1>6 DEF UniqueHolds, u

\* The two statements that fill them return the memories.
LEMMA FillReturns ==
    ASSUME NEW d, WellFormed(d), "memories" \in DOMAIN d.tables, Run(FillScript, d).ok = TRUE
    PROVE  Returning(d.rows["memories"], Run(FillScript, d).rows["memories"])
<1> DEFINE s1 == Sql("fill bookkeeping")
           s2 == Sql("map revised kinds")
           e == Run(FillScript, d)
<1>1. PICK done : Traces(done, FillScript, d)
  BY FillFootprint, RunSteps
<1> DEFINE x == done[1]
<1>2. WellFormed(x) /\ Done(d, s1, x) /\ Done(x, s2, e)
  <2>1. Len(FillScript) = 2 /\ FillScript[1] = s1 /\ FillScript[2] = s2
    BY DEF FillScript
  <2> HIDE DEF s1, s2
  <2> QED
    BY <1>1, <2>1, TwoSteps
<1> HIDE DEF x, e
<1>3. /\ x.tables = d.tables /\ x.rows = DataStatement("fill bookkeeping", d.rows)
      /\ e.tables = x.tables /\ e.rows = DataStatement("map revised kinds", x.rows)
  BY <1>2, DataStep, Zenon
<1> HIDE DEF s1, s2
<1>4. "memories" \in DOMAIN d.rows /\ "memories" \in DOMAIN x.rows
  BY <1>2, <1>3, CharacterTables
<1>5. Refilled(d.rows, x.rows)
  BY <1>3, <1>4, MemoryFilled
<1>6. Remade(x.rows, e.rows, KindRevised)
  BY <1>3, <1>4, KindsRevised
<1>7. Returning(d.rows["memories"], e.rows["memories"])
  BY <1>5, <1>6 DEF Returning, Returned, Remade, Refilled
<1> QED
  BY <1>7 DEF e

\* What the legacy release asks of its memories, in the order it is asked.
ReturnScript ==
    <<AddCheck("memories", "scope", LegacyScopes), AddCheck("memories", "kind", LegacyKinds),
      AddCheck("memories", "status", LegacyStatuses), AddUnique("memories", Identity, TRUE)>>
CloseScript == <<DropColumn("memories", "archived_at")>>

\* The parts of a way back of the memories.
LEMMA ReturnParts ==
    /\ Scripted(LooseScript) /\ Scripted(FillScript) /\ Scripted(RequireScript)
    /\ Scripted(ReturnScript) /\ Sound(DropColumn("memories", "archived_at"))
    /\ \A d : Run(UnbridgeMemories, d) =
                 Run(CloseScript, Run(ReturnScript, Run(RequireScript, Run(FillScript, Run(LooseScript, d)))))
<1> DEFINE B == (FillScript \o RequireScript) \o TightScript
<1>1. Scripted(LooseScript) /\ Scripted(FillScript) /\ Scripted(RequireScript)
  BY RestoreFootprints, FillFootprint DEF Scripted, RequireScript
<1>2. Footprint(ReturnScript, PlainEffects("memories"))
  <2>1. PlainEffects("memories") \subseteq PlainEffects("memories")
    OBVIOUS
  <2> QED
    BY <2>1, PlainStatements, Tuples DEF ReturnScript
<1>3. Sound(DropColumn("memories", "archived_at"))
  <2> DEFINE T == {<<"memories", "drop column", "archived_at", Required>>}
  <2>1. Obeys(DropColumn("memories", "archived_at"), T)
    BY OwnerColumns, Statements
  <2> QED
    BY <2>1 DEF Obeys
<1>4. TightScript = ReturnScript \o CloseScript
  <2> DEFINE s1 == AddCheck("memories", "scope", LegacyScopes)
             s2 == AddCheck("memories", "kind", LegacyKinds)
             s3 == AddCheck("memories", "status", LegacyStatuses)
             s4 == AddUnique("memories", Identity, TRUE)
             s5 == DropColumn("memories", "archived_at")
  <2>1. /\ TightScript = <<s1, s2, s3, s4, s5>>
        /\ ReturnScript = <<s1, s2, s3, s4>> /\ CloseScript = <<s5>>
    BY DEF TightScript, ReturnScript, CloseScript
  <2> HIDE DEF s1, s2, s3, s4, s5
  <2> QED
    BY <2>1
<1>5. UnbridgeMemories = LooseScript \o B
  BY DEF UnbridgeMemories, LooseScript, RestoreMemories, FillScript, RequireScript, TightScript
<1>6. IsList(LooseScript) /\ IsList(FillScript) /\ IsList(RequireScript) /\ IsList(ReturnScript)
      /\ IsList(CloseScript)
  BY <1>1, <1>2, SmallLists DEF Scripted, Footprint, CloseScript
<1>7. IsList(TightScript) /\ IsList(FillScript \o RequireScript)
  BY <1>4, <1>6, ConcatScripts
<1>8. IsList(B)
  BY <1>7, ConcatScripts
<1>9. \A x : Run(B, x) = Run(TightScript, Run(RequireScript, Run(FillScript, x)))
  BY <1>6, <1>7, ThreeConcat
<1>10. \A x : Run(TightScript, x) = Run(CloseScript, Run(ReturnScript, x))
  BY <1>4, <1>6, RunConcat
<1> HIDE DEF B
<1>11. \A d : Run(UnbridgeMemories, d) = Run(B, Run(LooseScript, d))
  BY <1>5, <1>6, <1>8, RunConcat
<1> QED
  BY <1>1, <1>2, <1>3, <1>9, <1>10, <1>11 DEF Scripted

\* The memories that come back meet what is asked of them.
LEMMA ReturnedMeet ==
    ASSUME NEW ms, NEW ns, Returning(ms, ns), Presentable(ms), ~ Merged(ms)
    PROVE  AllMeet(RequireScript, "memories", ns) /\ AllMeet(ReturnScript, "memories", ns)
<1>1. \A i \in DOMAIN ns :
         /\ ns[i]["scope"] \in LegacyScopes /\ ns[i]["kind"] \in LegacyKinds
         /\ ns[i]["status"] \in LegacyStatuses /\ ns[i]["status"] # NULL /\ ns[i]["normalized_key"] # NULL
         /\ {"confidence", "access_count"} \cap DOMAIN ns[i] = {}
  <2>1. NULL \notin LegacyStatuses
    BY DEF NULL, LegacyStatuses
  <2> QED
    BY <2>1, ReturnedFits DEF Returning, Presentable
<1>2. UniqueHolds([on |-> Identity, active |-> TRUE], ns)
  BY ReturnedUnique
<1>3. ASSUME NEW s \in Members(RequireScript)
      PROVE  s.op \in Restores /\ s.table = "memories" /\ Meets(ns, s)
  <2>1. PICK c \in Members(Bookkeeping) : s = AlterColumn("memories", c, Required)
    <3>1. PICK i \in 1 .. Len(RequireScript) : s = RequireScript[i]
      BY DEF Members
    <3>2. IsList(Bookkeeping)
      BY NameLists
    <3>3. DOMAIN Bookkeeping = 1 .. Len(Bookkeeping) /\ Len(Bookkeeping) \in Nat
      BY <3>2, Scripts
    <3>4. RequireScript = [j \in 1 .. Len(Bookkeeping) |-> AlterColumn("memories", Bookkeeping[j], Required)]
      BY <3>3 DEF RequireScript, AlterColumns
    <3>5. Len(RequireScript) = Len(Bookkeeping)
      BY <3>3, <3>4, MappedScript
    <3>6. i \in 1 .. Len(Bookkeeping) /\ Bookkeeping[i] \in Members(Bookkeeping)
      BY <3>1, <3>5 DEF Members
    <3> QED
      BY <3>1, <3>4, <3>6
  <2>2. s.op = "alter column" /\ s.table = "memories" /\ s.name = c
    BY <2>1 DEF AlterColumn
  <2>3. \A i \in DOMAIN ns : c \in DOMAIN ns[i] => ns[i][c] # NULL
    BY <1>1, TextMembers
  <2> QED
    BY <2>2, <2>3 DEF Restores, Meets
<1>4. ASSUME NEW c, NEW allowed, \A i \in DOMAIN ns : ns[i][c] \in allowed,
             NEW s, s = AddCheck("memories", c, allowed)
      PROVE  s.op \in Restores /\ s.table = "memories" /\ Meets(ns, s)
  <2>1. s.op = "add check" /\ s.table = "memories" /\ s.name = c /\ s.allowed = allowed
    BY <1>4 DEF AddCheck
  <2> QED
    BY <1>4, <2>1 DEF Restores, Meets
<1>5. ASSUME NEW s, s = AddUnique("memories", Identity, TRUE)
      PROVE  s.op \in Restores /\ s.table = "memories" /\ Meets(ns, s)
  <2>1. s.op = "add unique" /\ s.table = "memories" /\ s.unique = [on |-> Identity, active |-> TRUE]
    BY <1>5 DEF AddUnique
  <2> QED
    BY <1>2, <2>1 DEF Restores, Meets
<1>6. Members(ReturnScript) =
         {AddCheck("memories", "scope", LegacyScopes), AddCheck("memories", "kind", LegacyKinds),
          AddCheck("memories", "status", LegacyStatuses), AddUnique("memories", Identity, TRUE)}
  <2> DEFINE s1 == AddCheck("memories", "scope", LegacyScopes)
             s2 == AddCheck("memories", "kind", LegacyKinds)
             s3 == AddCheck("memories", "status", LegacyStatuses)
             s4 == AddUnique("memories", Identity, TRUE)
  <2>1. ReturnScript = <<s1, s2, s3, s4>>
    BY DEF ReturnScript
  <2> HIDE DEF s1, s2, s3, s4
  <2>2. Members(ReturnScript) = {s1, s2, s3, s4}
    BY <2>1, TupleMembers
  <2> QED
    BY <2>2 DEF s1, s2, s3, s4
<1>7. ASSUME NEW s \in Members(ReturnScript)
      PROVE  s.op \in Restores /\ s.table = "memories" /\ Meets(ns, s)
  <2>1. CASE s = AddCheck("memories", "scope", LegacyScopes)
    BY <1>1, <1>4, <2>1
  <2>2. CASE s = AddCheck("memories", "kind", LegacyKinds)
    BY <1>1, <1>4, <2>2
  <2>3. CASE s = AddCheck("memories", "status", LegacyStatuses)
    BY <1>1, <1>4, <2>3
  <2>4. CASE s = AddUnique("memories", Identity, TRUE)
    BY <1>5, <2>4
  <2> QED
    BY <1>6, <2>1, <2>2, <2>3, <2>4
<1> QED
  BY <1>3, <1>7 DEF AllMeet

\* So the memories come back as if there were none.
LEMMA MemoriesReturn ==
    ASSUME NEW d, Twins(d, Base(5)), AtCharacters.ok = TRUE,
           Presentable(d.rows["memories"]), ~ Merged(d.rows["memories"])
    PROVE  Twins(Run(UnbridgeMemories, d), AtCharacters)
<1> DEFINE b0 == Base(5)
           b2 == Run(FillScript, AtFill)
           b3 == Run(RequireScript, b2)
           b4 == Run(ReturnScript, b3)
           x1 == Run(LooseScript, d)
           x2 == Run(FillScript, x1)
           x3 == Run(RequireScript, x2)
           x4 == Run(ReturnScript, x3)
           drop == DropColumn("memories", "archived_at")
<1>1. 5 \in 0 .. HeadRevision
  BY DEF HeadRevision
<1>2. "memories" \in DOMAIN d.tables
  <2>1. "memories" \in DOMAIN b0.tables
    BY <1>1, BaseTables DEF TablesThere, LegacyRevision
  <2> QED
    BY <2>1 DEF Twins
<1>3. AtFill = Run(LooseScript, b0) /\ AtCharacters = Execute(b4, drop)
  <2>1. AtCharacters = Run(CloseScript, b4)
    BY ReturnParts DEF AtFill, AtCharacters
  <2> HIDE DEF b4
  <2> QED
    BY <2>1, SingleStatement DEF AtFill, CloseScript
<1>4. Run(UnbridgeMemories, d) = Execute(x4, drop)
  <2>1. Run(UnbridgeMemories, d) = Run(CloseScript, x4)
    BY ReturnParts
  <2> HIDE DEF x4
  <2> QED
    BY <2>1, SingleStatement DEF CloseScript
<1>5. IsDatabase(AtFill) /\ IsDatabase(b2) /\ IsDatabase(b3) /\ IsDatabase(b4)
  <2>1. IsDatabase(b0)
    BY DEF Twins, WellFormed
  <2> QED
    BY <1>3, <2>1, ReturnParts, RunDatabase
<1>6. b4.ok = TRUE /\ b3.ok = TRUE /\ b2.ok = TRUE /\ AtFill.ok = TRUE
  <2>1. AtCharacters = Run(CloseScript, b4)
    BY ReturnParts DEF AtFill, AtCharacters
  <2> QED
    BY <1>5, <2>1, OkBefore
<1>7. Twins(x1, AtFill) /\ x1.rows["memories"] = d.rows["memories"]
  <2>1. HarmlessRun(LooseScript, b0, {})
    BY BridgeFacts
  <2>2. Twins(d, b0)
    OBVIOUS
  <2> HIDE DEF b0, b2, b3, b4
  <2>3. Twins(x1, AtFill)
    BY <1>3, <1>6, <2>1, <2>2, ReturnParts, HarmlessAlone
  <2>4. x1.ok = TRUE /\ WellFormed(d)
    BY <2>2, <2>3 DEF Twins, Fit
  <2>5. Within(PlainEffects("memories"), "memories", Keeping)
    BY DEF Within, PlainEffects, PlainOps, Keeping, ColumnOps
  <2>6. RowsStay("memories", d, x1)
    BY <1>2, <2>4, <2>5, KeptTables, RestoreFootprints, TablePlain
  <2> QED
    BY <2>3, <2>6 DEF RowsStay
<1> HIDE DEF b0, b2, b3, b4, x1, x2, x3, x4, drop
<1>8. "memories" \in DOMAIN AtFill.tables /\ "memories" \in DOMAIN x1.tables
  <2>1. WellFormed(d) /\ WellFormed(x1) /\ x1.ok = TRUE /\ x1.tables = AtFill.tables
    BY <1>7 DEF Twins, Fit
  <2>2. Within(PlainEffects("memories"), "memories", Keeping)
    BY DEF Within, PlainEffects, PlainOps, Keeping, ColumnOps
  <2>3. RowsStay("memories", d, x1)
    BY <1>2, <2>1, <2>2, KeptTables, RestoreFootprints, TablePlain DEF x1
  <2> QED
    BY <2>1, <2>3 DEF RowsStay
<1>9. Twins(x2, b2) /\ x2.tables = x1.tables /\ Returning(d.rows["memories"], x2.rows["memories"])
  <2>1. HarmlessRun(FillScript, AtFill, {})
    BY BridgeFacts
  <2>2. Twins(x2, b2)
    BY <1>6, <1>7, <2>1, ReturnParts, HarmlessAlone DEF x2, b2
  <2>3. x2.ok = TRUE /\ WellFormed(x1)
    BY <1>7, <2>2 DEF Twins, Fit
  <2>4. Returning(x1.rows["memories"], x2.rows["memories"])
    BY <1>8, <2>3, FillReturns DEF x2
  <2>5. x2.tables = x1.tables
    <3>1. \A i \in DOMAIN x1.rows["memories"] : MemoryFields \subseteq DOMAIN x1.rows["memories"][i]
      BY <1>7 DEF Presentable
    <3> QED
      BY <1>8, <2>3, <3>1, FillRun DEF x2
  <2> QED
    BY <1>7, <2>2, <2>4, <2>5
<1>10. AllMeet(RequireScript, "memories", x2.rows["memories"]) /\ AllMeet(ReturnScript, "memories", x2.rows["memories"])
  BY <1>9, ReturnedMeet
<1>11. Twins(x3, b3) /\ x3.rows["memories"] = x2.rows["memories"]
  <2>1. "memories" \in DOMAIN x2.tables
    BY <1>8, <1>9
  <2>2. PICK T : Footprint(RequireScript, T)
    BY ReturnParts DEF Scripted
  <2> QED
    BY <1>6, <1>9, <1>10, <2>1, <2>2, KeptTables, MeetsRuns DEF x3, b3
<1>12. "memories" \in DOMAIN x3.tables
  <2>1. Within(RequireEffects, "memories", Keeping)
    BY DEF Within, RequireEffects, Keeping, Alterations
  <2>2. Footprint(RequireScript, RequireEffects)
    BY RestoreFootprints DEF RequireScript
  <2>3. WellFormed(x2) /\ x3.ok = TRUE
    BY <1>9, <1>11 DEF Twins, Fit
  <2>4. RowsStay("memories", x2, x3)
    BY <1>8, <1>9, <2>1, <2>2, <2>3, KeptTables, TablePlain DEF x3
  <2> QED
    BY <2>4 DEF RowsStay
<1>13. Twins(x4, b4)
  <2>1. PICK T : Footprint(ReturnScript, T)
    BY ReturnParts DEF Scripted
  <2> QED
    BY <1>6, <1>10, <1>11, <1>12, <2>1, KeptTables, MeetsRuns DEF x4, b4
<1>14. Twins(Execute(x4, drop), Execute(b4, drop))
  <2>1. Sound(drop)
    BY ReturnParts DEF drop
  <2>2. drop.op \in RowFree
    BY DEF drop, DropColumn, RowFree
  <2>3. Harmless(b4, drop, {})
    BY <2>2 DEF Harmless
  <2>4. Execute(b4, drop).ok = TRUE
    BY <1>3
  <2> DEFINE B == {}
  <2>5. (\A t \in B : Empty(t, x4)) /\ Harmless(b4, drop, B)
    BY <2>3
  <2> HIDE DEF B
  <2>6. Passes(x4, drop)
    BY <1>13, <2>1, <2>4, <2>5, HarmlessPasses
  <2> QED
    BY <1>13, <2>1, <2>4, <2>6, TwinsStep
<1> QED
  BY <1>3, <1>4, <1>14

\* What a database that fits its definitions, at revision 0005, says of its rows.
LEMMA PresentRows ==
    ASSUME NEW d, Twins(d, Base(5)), NEW given, RevisionInv(5, d, given)
    PROVE  /\ DOMAIN Kept \subseteq DOMAIN d.tables
           /\ Presentable(d.rows["memories"])
           /\ Telling(d.rows["characters"], d.rows["character_versions"])
           /\ Telling(d.rows["personas"], d.rows["persona_versions"])
           /\ Complete(d.rows["persona_versions"])
<1>1. 5 \in 0 .. HeadRevision /\ 5 > LegacyRevision /\ 5 >= LegacyRevision /\ 5 >= 3 /\ 5 # LegacyRevision
  BY DEF HeadRevision, LegacyRevision
<1>2. /\ TablesThere(5, d) /\ VersionsInv(d) /\ RevisedInv(d) /\ MemoryInv(5, d)
      /\ WellFormed(d) /\ Orderly(d)
  BY <1>1 DEF RevisionInv, Twins, Fit
<1>3. DOMAIN Kept \subseteq DOMAIN d.tables
  BY <1>1, <1>2, TablesPresent, KeptTables
<1>4. DOMAIN d.rows = DOMAIN d.tables
  BY <1>2 DEF WellFormed, IsDatabase
<1>5. \A t \in DOMAIN Kept : \A i \in DOMAIN d.rows[t] : Regular(t, i, d.rows[t][i])
  BY <1>2, <1>3, <1>4 DEF Orderly, Told
<1>6. Presentable(d.rows["memories"])
  <2> SUFFICES ASSUME NEW i \in DOMAIN d.rows["memories"]
               PROVE  /\ i \notin {NULL, "key"} /\ MemoryFields \cup MemoryKey \subseteq DOMAIN d.rows["memories"][i]
                      /\ {"user_id", "confidence", "access_count"} \cap DOMAIN d.rows["memories"][i] = {}
                      /\ d.rows["memories"][i].scope \in MemoryScope /\ d.rows["memories"][i].kind \in MemoryKind
                      /\ d.rows["memories"][i].status \in LegacyStatuses \cup {NULL}
                      /\ d.rows["memories"][i].normalized_key \in {"key", i, NULL}
                      /\ d.rows["memories"][i].status = NULL => d.rows["memories"][i].normalized_key = NULL
    BY DEF Presentable
  <2> DEFINE m == d.rows["memories"][i]
  <2>1. Regular("memories", i, m)
    BY <1>5, KeptTables
  <2>2. MemoryKey \subseteq DOMAIN m /\ "user_id" \notin DOMAIN m
    BY <1>2, <1>3, KeptTables DEF Orderly
  <2>3. /\ MemoryFields \subseteq DOMAIN m /\ m.scope \in MemoryScope /\ m.kind \in MemoryKind
        /\ m.status \in LegacyStatuses \cup {NULL}
    BY <1>1, <1>2 DEF MemoryInv, Has
  <2> HIDE DEF m
  <2>4. /\ i \notin {NULL, "key"} /\ {"confidence", "access_count"} \cap DOMAIN m = {}
        /\ m.normalized_key \in {"key", i, NULL} /\ (m.status = NULL => m.normalized_key = NULL)
    BY <2>1 DEF Regular
  <2> QED
    BY <2>2, <2>3, <2>4 DEF m
<1>7. NULL \notin Names
  BY InputAssumption
<1>8. \A t \in OwnerTables : \A i \in DOMAIN d.rows[t] : i # NULL
  <2>1. OwnerTables \subseteq DOMAIN Kept
    BY KeptTables DEF OwnerTables
  <2> QED
    BY <1>5, <2>1 DEF Regular
<1>9. Telling(d.rows["characters"], d.rows["character_versions"])
  BY <1>2, <1>7, <1>8, TableKinds DEF Telling, VersionsInv, RevisedInv
<1>10. Telling(d.rows["personas"], d.rows["persona_versions"])
  BY <1>2, <1>7, <1>8, TableKinds DEF Telling, VersionsInv, RevisedInv
<1>11. Complete(d.rows["persona_versions"])
  BY <1>2 DEF VersionsInv, Complete, Has
<1> QED
  BY <1>3, <1>6, <1>9, <1>10, <1>11

\* The parts of the way back of the profiles.
LEMMA ProfileParts ==
    /\ Scripted(CharacterVersioning) /\ Scripted(CharacterClosing)
    /\ Scripted(PersonaVersioning) /\ Scripted(PersonaClosing)
    /\ \A d : Run(UnbridgeCharacters, d) = Run(CharacterClosing, Run(CharacterVersioning, d))
    /\ \A d : Run(UnbridgePersonas, d) = Run(PersonaClosing, Run(PersonaVersioning, d))
    /\ \A d : Run(Downgrade5, d) = Run(UnbridgePersonas, Run(UnbridgeCharacters, Run(UnbridgeMemories, d)))
<1> DEFINE c == DropColumns("characters", CharacterTexts)
           p == DropColumns("personas", PersonaTexts)
<1>1. /\ Scripted(CharacterVersioning) /\ Scripted(CharacterEnd) /\ Scripted(c)
      /\ Scripted(PersonaVersioning) /\ Scripted(PersonaIndexes) /\ Scripted(PersonaEnd) /\ Scripted(p)
  BY CharacterFootprints, PersonaFootprints, ColumnLists DEF Scripted
<1>2. CharacterClosing = CharacterEnd \o c /\ PersonaClosing = (PersonaIndexes \o PersonaEnd) \o p
  BY DEF CharacterClosing, PersonaClosing
<1>3. UnbridgeCharacters = (CharacterVersioning \o CharacterEnd) \o c
  BY CharacterScript
<1>4. UnbridgePersonas = ((PersonaVersioning \o PersonaIndexes) \o PersonaEnd) \o p
  BY DEF UnbridgePersonas, PersonaVersioning, PersonaIndexes, PersonaEnd
<1> HIDE DEF c, p
<1>5. Scripted(CharacterClosing) /\ Scripted(PersonaIndexes \o PersonaEnd)
  BY <1>1, <1>2, ScriptedConcat
<1>6. Scripted(PersonaClosing)
  BY <1>1, <1>2, <1>5, ScriptedConcat
<1>7. /\ IsList(CharacterVersioning) /\ IsList(CharacterEnd) /\ IsList(c)
      /\ IsList(PersonaVersioning) /\ IsList(PersonaIndexes) /\ IsList(PersonaEnd) /\ IsList(p)
      /\ IsList(UnbridgeMemories) /\ IsList(UnbridgeCharacters) /\ IsList(UnbridgePersonas)
  BY <1>1, UnbridgeScripts DEF Scripted, Footprint
<1>8. \A d : Run(UnbridgeCharacters, d) = Run(CharacterClosing, Run(CharacterVersioning, d))
  <2> TAKE d
  <2>1. Run(UnbridgeCharacters, d) = Run(c, Run(CharacterEnd, Run(CharacterVersioning, d)))
    BY <1>3, <1>7, ThreeConcat
  <2>2. \A x : Run(CharacterClosing, x) = Run(c, Run(CharacterEnd, x))
    BY <1>2, <1>7, RunConcat
  <2> QED
    BY <2>1, <2>2
<1>9. \A d : Run(UnbridgePersonas, d) = Run(PersonaClosing, Run(PersonaVersioning, d))
  <2> TAKE d
  <2>1. Run(UnbridgePersonas, d) = Run(p, Run(PersonaEnd, Run(PersonaIndexes, Run(PersonaVersioning, d))))
    BY <1>4, <1>7, FourConcat
  <2>2. \A x : Run(PersonaClosing, x) = Run(p, Run(PersonaEnd, Run(PersonaIndexes, x)))
    BY <1>2, <1>7, ThreeConcat
  <2> QED
    BY <2>1, <2>2
<1>10. \A d : Run(Downgrade5, d) = Run(UnbridgePersonas, Run(UnbridgeCharacters, Run(UnbridgeMemories, d)))
  BY <1>7, ThreeConcat DEF Downgrade5
<1> QED
  BY <1>1, <1>5, <1>6, <1>8, <1>9, <1>10

\* The way back of revision 0005 runs as it does without rows, unless two
\* memories are the same to the legacy release.
LEMMA UnbridgeRuns ==
    ASSUME NEW d, Twins(d, Base(5)), NEW given, RevisionInv(5, d, given), ~ Merged(d.rows["memories"])
    PROVE  Twins(Run(Downgrade5, d), Base(4))
<1> DEFINE b1 == Run(CharacterVersioning, AtCharacters)
           b2 == Run(PersonaVersioning, AtPersonas)
           b3 == Run(Downgrade5, Base(5))
           x1 == Run(UnbridgeMemories, d)
           x2 == Run(CharacterVersioning, x1)
           x3 == Run(UnbridgeCharacters, x1)
           x4 == Run(PersonaVersioning, x3)
           x5 == Run(Downgrade5, d)
<1>1. 5 \in 0 .. HeadRevision /\ 5 \in 1 .. HeadRevision /\ 5 - 1 = 4 /\ 4 \in 0 .. HeadRevision
  BY DEF HeadRevision
<1>2. /\ DOMAIN Kept \subseteq DOMAIN d.tables /\ Presentable(d.rows["memories"])
      /\ Telling(d.rows["characters"], d.rows["character_versions"])
      /\ Telling(d.rows["personas"], d.rows["persona_versions"])
      /\ Complete(d.rows["persona_versions"])
  BY PresentRows
<1>3. b3.ok = TRUE /\ b3.tables = Base(4).tables
  <2>1. Downgrades[5] = Downgrade5
    BY DEF Downgrades
  <2>2. Run(Downgrades[5], Base(5)).ok = TRUE /\ Run(Downgrades[5], Base(5)).tables = TablesAt[5 - 1]
    BY <1>1, BaseBack
  <2>3. TablesAt[4] = Base(4).tables
    BY <1>1, BaseSound
  <2> QED
    BY <1>1, <2>1, <2>2, <2>3
<1>4. /\ AtPersonas = Run(CharacterClosing, b1) /\ b3 = Run(PersonaClosing, b2)
      /\ x3 = Run(CharacterClosing, x2) /\ x5 = Run(PersonaClosing, x4)
  BY ProfileParts DEF AtPersonas, AtCharacters
<1>5. IsDatabase(AtCharacters) /\ IsDatabase(b1) /\ IsDatabase(AtPersonas) /\ IsDatabase(b2)
  <2>1. IsDatabase(Base(5))
    BY DEF Twins, WellFormed
  <2>2. IsDatabase(AtCharacters)
    BY <2>1, UnbridgeScripts, RunDatabase DEF AtCharacters
  <2>3. IsDatabase(AtPersonas)
    BY <2>2, UnbridgeScripts, RunDatabase DEF AtPersonas
  <2> QED
    BY <2>2, <2>3, ProfileParts, RunDatabase
<1> HIDE DEF b1, b2, b3, x1, x2, x3, x4, x5
<1>6. b2.ok = TRUE /\ AtPersonas.ok = TRUE /\ b1.ok = TRUE /\ AtCharacters.ok = TRUE
  <2>1. b2.ok = TRUE
    BY <1>3, <1>4, <1>5, OkBefore
  <2>2. AtPersonas.ok = TRUE
    BY <1>5, <2>1, OkBefore DEF b2
  <2>3. b1.ok = TRUE
    BY <1>4, <1>5, <2>2, OkBefore
  <2>4. AtCharacters.ok = TRUE
    BY <1>5, <2>3, OkBefore DEF b1
  <2> QED
    BY <2>1, <2>2, <2>3, <2>4
<1>7. Twins(x1, AtCharacters)
  BY <1>2, <1>6, MemoriesReturn DEF x1
<1>8. \A t \in DOMAIN Kept : t # "memories" => t \in DOMAIN x1.tables /\ x1.rows[t] = d.rows[t]
  <2>1. WellFormed(d) /\ x1.ok = TRUE
    BY <1>7 DEF Twins, Fit
  <2>2. /\ "memories" \in DOMAIN d.tables /\ "expires_at" \in DOMAIN d.tables.memories.cols
        /\ \A i \in DOMAIN d.rows.memories : MemoryFields \subseteq DOMAIN d.rows.memories[i]
    <3>1. MemoryInv(5, d)
      BY DEF RevisionInv, LegacyRevision
    <3> QED
      BY <1>2, <3>1, KeptTables DEF MemoryInv, Has
  <2>3. \A t \in DOMAIN Kept : t # "memories" => Same(t, d, x1)
    BY <2>1, <2>2, UnbridgedMemories DEF x1
  <2> QED
    BY <1>2, <2>3 DEF Same
<1>9. Twins(x2, b1)
  <2>1. /\ VersionTable(AtCharacters.tables["character_versions"], "character_id", "characters",
                        {"name", "summary"})
        /\ NullsAllowed(AtCharacters.tables["character_versions"], {"summary", "speaking_style"})
    BY BridgeFacts
  <2>2. x1.tables = AtCharacters.tables
    BY <1>7 DEF Twins
  <2>3. /\ "characters" \in DOMAIN x1.tables /\ "character_versions" \in DOMAIN x1.tables
        /\ x1.rows["characters"] = d.rows["characters"]
        /\ x1.rows["character_versions"] = d.rows["character_versions"]
    BY <1>8, KeptTables
  <2> QED
    BY <1>2, <1>6, <1>7, <2>1, <2>2, <2>3, CharacterVersioningRuns DEF x2, b1
<1>10. Twins(x3, AtPersonas)
  <2>1. HarmlessRun(CharacterClosing, b1, {})
    BY BridgeFacts DEF b1
  <2> QED
    BY <1>4, <1>6, <1>9, <2>1, ProfileParts, HarmlessAlone
<1>11. \A t \in {"personas", "persona_versions"} : t \in DOMAIN x3.tables /\ x3.rows[t] = d.rows[t]
  <2>1. WellFormed(x1) /\ x3.ok = TRUE
    BY <1>7, <1>10 DEF Twins, Fit
  <2>2. \A k \in DOMAIN x1.rows.character_versions : "name" \in DOMAIN x1.rows.character_versions[k]
    <3>1. VersionsInv(d)
      BY DEF RevisionInv
    <3>2. x1.rows["character_versions"] = d.rows["character_versions"]
      BY <1>8, KeptTables
    <3> QED
      BY <3>1, <3>2 DEF VersionsInv, Has
  <2>3. "characters" \in DOMAIN x1.tables /\ "character_versions" \in DOMAIN x1.tables
    BY <1>8, KeptTables
  <2>4. Unbridged("characters", "character_versions", CharacterGone, x1, x3)
    BY <2>1, <2>2, <2>3, UnbridgedCharacters DEF x3
  <2>5. \A t \in {"personas", "persona_versions"} : Same(t, x1, x3)
    BY <2>4, KeptTables DEF Unbridged
  <2> QED
    BY <1>8, <2>5, KeptTables DEF Same
<1>12. Twins(x4, b2)
  <2>1. /\ VersionTable(AtPersonas.tables["persona_versions"], "persona_id", "personas", {"name", "traits"})
        /\ NullsAllowed(AtPersonas.tables["persona_versions"], {"traits", "pronouns"})
    BY BridgeFacts
  <2>2. x3.tables = AtPersonas.tables
    BY <1>10 DEF Twins
  <2>3. /\ "personas" \in DOMAIN x3.tables /\ "persona_versions" \in DOMAIN x3.tables
        /\ x3.rows["personas"] = d.rows["personas"]
        /\ x3.rows["persona_versions"] = d.rows["persona_versions"]
    BY <1>11
  <2> QED
    BY <1>2, <1>6, <1>10, <2>1, <2>2, <2>3, PersonaVersioningRuns DEF x4, b2
<1>13. Twins(x5, b3)
  <2>1. HarmlessRun(PersonaClosing, b2, {})
    BY BridgeFacts DEF b2
  <2> QED
    BY <1>3, <1>4, <1>12, <2>1, ProfileParts, HarmlessAlone
<1>14. WellFormed(Base(4)) /\ Base(4).ok = TRUE
  BY <1>1, BaseSound
<1>15. Twins(x5, Base(4))
  BY <1>3, <1>13, <1>14 DEF Twins
<1> QED
  BY <1>15 DEF x5

-----------------------------------------------------------------------------
(* What is refused.                                                        *)

\* Where there are no memories, none are the same.
LEMMA EmptyNotMerged ==
    ASSUME NEW d, "memories" \in DOMAIN d.tables, Empty("memories", d)
    PROVE  ~ Merged(d.rows["memories"])
BY DEF Empty, Merged

\* The upgrade of every other revision runs as it does without rows, and makes
\* the table of memories without any.
LEMMA StepUpRuns ==
    ASSUME NEW v \in 1 .. HeadRevision, v # 5, NEW d, Twins(d, Base(v - 1))
    PROVE  /\ Twins(Run(Upgrades[v], d), Base(v))
           /\ v = 4 => ~ Merged(Run(Upgrades[v], d).rows["memories"])
<1> DEFINE b == Base(v - 1)
           a == Upgrades[v]
<1>1. v \in 1 .. 7 /\ v \in 0 .. HeadRevision
  BY DEF HeadRevision
<1>2. Run(a, b) = Base(v) /\ Run(a, b).ok = TRUE /\ Scripted(a) /\ Twins(d, b)
  BY <1>1, BaseStep, BaseSound, AllScripts
<1>3. CASE v \in {1, 2, 6, 7}
  <2>1. HarmlessRun(a, b, {})
    BY <1>3, BridgeFacts
  <2> HIDE DEF a, b
  <2>2. Twins(Run(a, d), Base(v))
    BY <1>2, <2>1, HarmlessAlone
  <2> QED
    BY <1>3, <2>2 DEF a
<1>4. CASE v = 3
  <2>1. v - 1 = 2
    BY <1>4
  <2>2. HarmlessRun(a, b, Profiled) /\ DOMAIN b.tables \cap Profiled = {}
    BY <1>4, <2>1, BridgeFacts
  <2>3. \A t \in Profiled : Empty(t, d)
    BY <1>2, <2>2 DEF Twins, Empty
  <2> HIDE DEF a, b
  <2>4. PICK T : Footprint(a, T)
    BY <1>2 DEF Scripted
  <2>5. Twins(Run(a, d), Base(v))
    BY <1>2, <2>2, <2>3, <2>4, HarmlessRuns
  <2> QED
    BY <1>4, <2>5 DEF a
<1>5. CASE v = 4
  <2> DEFINE B == {"memories"}
  <2>1. v - 1 = 3
    BY <1>5
  <2>2. HarmlessRun(a, b, B) /\ "memories" \notin DOMAIN b.tables
    BY <1>5, <2>1, BridgeFacts
  <2>3. \A t \in B : Empty(t, d)
    BY <1>2, <2>2 DEF Twins, Empty
  <2>4. "memories" \in B
    OBVIOUS
  <2> HIDE DEF a, b, B
  <2>5. PICK T : Footprint(a, T)
    BY <1>2 DEF Scripted
  <2>6. Twins(Run(a, d), Base(v)) /\ \A t \in B : Empty(t, Run(a, d))
    BY <1>2, <2>2, <2>3, <2>5, HarmlessRuns
  <2>7. "memories" \in DOMAIN Run(a, d).tables
    <3>1. "memories" \in DOMAIN Base(v).tables
      BY <1>1, <1>5, BaseTables DEF TablesThere, LegacyRevision
    <3> QED
      BY <2>6, <3>1 DEF Twins
  <2>8. ~ Merged(Run(a, d).rows["memories"])
    BY <2>4, <2>6, <2>7, EmptyNotMerged
  <2> QED
    BY <2>6, <2>8 DEF a
<1> QED
  BY <1>1, <1>3, <1>4, <1>5

\* So does every other downgrade.
LEMMA StepDownRuns ==
    ASSUME NEW v \in 1 .. HeadRevision, v # 5, NEW d, Twins(d, Base(v))
    PROVE  Twins(Run(Downgrades[v], d), Base(v - 1))
<1> DEFINE b == Base(v)
           a == Downgrades[v]
           c == Run(a, b)
<1>1. v - 1 \in 0 .. HeadRevision
  BY DEF HeadRevision
<1>2. c.ok = TRUE /\ c.tables = TablesAt[v - 1] /\ Scripted(a)
  BY BaseBack, AllScripts
<1>3. HarmlessRun(a, b, {})
  BY BridgeFacts
<1>4. Twins(d, b)
  OBVIOUS
<1>5. WellFormed(Base(v - 1)) /\ Base(v - 1).ok = TRUE /\ TablesAt[v - 1] = Base(v - 1).tables
  BY <1>1, BaseSound
<1> HIDE DEF a, b
<1>6. Twins(Run(a, d), c)
  BY <1>2, <1>3, <1>4, HarmlessAlone
<1> HIDE DEF c
<1>7. Twins(Run(a, d), Base(v - 1))
  BY <1>2, <1>5, <1>6 DEF Twins
<1> QED
  BY <1>7 DEF a

\* A whole upgrade is refused only for memories that the mapping merges, of a
\* database of the legacy release.
LEMMA UpgradeRuns ==
    ASSUME NEW r \in 0 .. HeadRevision, NEW target \in r .. HeadRevision, NEW d, Twins(d, Base(r)),
           r = 4 => ~ Merged(d.rows["memories"])
    PROVE  UpgradeFrom(d, r, target).ok = TRUE
<1>1. r \in Nat /\ target \in Nat /\ r <= target /\ target <= HeadRevision /\ r \in 0 .. target
  BY DEF HeadRevision
<1>9. PICK at : Ascent(at, d, r, target)
  BY <1>1, UpgradeThrough
<1>2. /\ at[r] = d
      /\ \A v \in r + 1 .. target : at[v] = Run(Upgrades[v], at[v - 1])
      /\ UpgradeFrom(d, r, target) = at[target]
  BY <1>9 DEF Ascent
<1> DEFINE Good(v) == Twins(at[v], Base(v)) /\ (v = 4 => ~ Merged(at[v].rows["memories"]))
           S == {v \in Nat : Good(v)}
<1>3. r \in S
  BY <1>1, <1>2
<1>4. \A v \in r + 1 .. target : v - 1 \in S => v \in S
  <2> SUFFICES ASSUME NEW v \in r + 1 .. target, v - 1 \in S PROVE v \in S
    OBVIOUS
  <2>1. v \in 1 .. HeadRevision /\ v \in Nat /\ at[v] = Run(Upgrades[v], at[v - 1])
    BY <1>1, <1>2 DEF HeadRevision
  <2>2. Twins(at[v - 1], Base(v - 1)) /\ (v - 1 = 4 => ~ Merged(at[v - 1].rows["memories"]))
    OBVIOUS
  <2>3. CASE v # 5
    BY <2>1, <2>2, <2>3, StepUpRuns
  <2>4. CASE v = 5
    <3>1. v - 1 = 4 /\ Upgrades[5] = Upgrade5
      BY <2>4 DEF Upgrades
    <3>2. Twins(at[4], Base(4)) /\ ~ Merged(at[4].rows["memories"])
      BY <2>2, <3>1
    <3>3. Twins(Run(Upgrade5, at[4]), Base(5))
      BY <3>2, BridgeRuns
    <3>4. Twins(at[5], Base(5))
      BY <2>1, <2>4, <3>1, <3>3
    <3> QED
      BY <2>4, <3>4
  <2> QED
    BY <2>3, <2>4
<1> HIDE DEF S
<1>5. target \in S
  BY <1>1, <1>3, <1>4, Since
<1>6. Twins(at[target], Base(target))
  BY <1>5 DEF S
<1> QED
  BY <1>2, <1>6 DEF Twins, Fit

\* After the bridge the memories stay as they are, until it is taken back.
LEMMA MemoriesWait ==
    ASSUME NEW v \in 6 .. HeadRevision, NEW d, NEW given, Sane(v, d, given), d.ok = TRUE,
           Run(Downgrades[v], d).ok = TRUE
    PROVE  Run(Downgrades[v], d).rows["memories"] = d.rows["memories"]
<1>1. RevisionInv(v, d, given)
  BY DEF Sane
<1>2. WellFormed(d) /\ "memories" \in DOMAIN d.tables
  BY <1>1 DEF RevisionInv, TablesThere, LegacyRevision, HeadRevision
<1>3. Same("memories", d, Run(Downgrades[v], d))
  BY <1>2, PresentSteps, KeptTables DEF AllSame
<1> QED
  BY <1>2, <1>3 DEF Same

\* A downgrade runs as it does without rows, the one of the bridge for memories
\* that the mapping does not merge.
LEMMA StepBack ==
    ASSUME NEW v \in 1 .. HeadRevision, NEW d, NEW given, Twins(d, Base(v)), Sane(v, d, given),
           v >= 5 => ~ Merged(d.rows["memories"])
    PROVE  LET e == Run(Downgrades[v], d)
           IN /\ Twins(e, Base(v - 1)) /\ Sane(v - 1, e, given)
              /\ v - 1 >= 5 => ~ Merged(e.rows["memories"])
<1> DEFINE e == Run(Downgrades[v], d)
<1>1. d.ok = TRUE /\ Sane(v - 1, e, given)
  BY SaneDown DEF Twins, Fit
<1>2. CASE v = 5
  <2>1. Downgrades[5] = Downgrade5 /\ v - 1 = 4
    BY <1>2 DEF Downgrades
  <2>2. RevisionInv(5, d, given)
    BY <1>1, <1>2 DEF Sane
  <2>3. Twins(d, Base(5)) /\ ~ Merged(d.rows["memories"])
    BY <1>2
  <2>4. Twins(Run(Downgrade5, d), Base(4))
    BY <2>2, <2>3, UnbridgeRuns
  <2>5. Twins(e, Base(v - 1))
    BY <1>2, <2>1, <2>4
  <2> HIDE DEF e
  <2> QED
    BY <1>1, <1>2, <2>1, <2>5 DEF e
<1>3. CASE v # 5
  <2>1. Twins(e, Base(v - 1))
    BY <1>3, StepDownRuns
  <2>2. ASSUME v - 1 >= 5 PROVE ~ Merged(e.rows["memories"])
    <3>1. v \in 6 .. HeadRevision /\ v >= 5
      BY <2>2 DEF HeadRevision
    <3>2. e.ok = TRUE
      BY <2>1 DEF Twins, Fit
    <3>3. e.rows["memories"] = d.rows["memories"]
      BY <1>1, <3>1, <3>2, MemoriesWait
    <3> QED
      BY <3>1, <3>3
  <2> HIDE DEF e
  <2> QED
    BY <1>1, <2>1, <2>2 DEF e
<1> QED
  BY <1>2, <1>3

\* So does a whole downgrade.
LEMMA DowngradeRuns ==
    ASSUME NEW r \in 0 .. HeadRevision, NEW target \in 0 .. r, NEW d, NEW given, Twins(d, Base(r)),
           Sane(r, d, given), r >= 5 => ~ Merged(d.rows["memories"])
    PROVE  DowngradeFrom(d, r, target).ok = TRUE
<1>1. /\ r \in Nat /\ target \in Nat /\ target <= r /\ r <= HeadRevision
      /\ r - target \in Nat /\ 0 \in 0 .. r - target /\ r - 0 = r /\ r - (r - target) = target
  BY DEF HeadRevision
<1>9. PICK at : Descent(at, d, r, target)
  BY <1>1, DowngradeThrough
<1>2. /\ at[0] = d
      /\ \A i \in 1 .. r - target : at[i] = Run(Downgrades[r - i + 1], at[i - 1])
      /\ DowngradeFrom(d, r, target) = at[r - target]
  BY <1>9 DEF Descent
<1> DEFINE Good(v, x) == /\ Twins(x, Base(v)) /\ Sane(v, x, given)
                         /\ v >= 5 => ~ Merged(x.rows["memories"])
           S == {i \in Nat : Good(r - i, at[i])}
<1>3. 0 \in S
  BY <1>1, <1>2
<1>4. \A i \in 0 + 1 .. r - target : i - 1 \in S => i \in S
  <2> SUFFICES ASSUME NEW i \in 0 + 1 .. r - target, i - 1 \in S PROVE i \in S
    OBVIOUS
  <2> DEFINE v == r - i + 1
             x == at[i - 1]
             y == at[i]
  <2>1. /\ v \in 1 .. HeadRevision /\ i \in Nat /\ i \in 1 .. r - target
        /\ r - (i - 1) = v /\ r - i = v - 1
    BY <1>1 DEF HeadRevision
  <2>2. Good(r - (i - 1), x)
    OBVIOUS
  <2>3. y = Run(Downgrades[v], x)
    BY <1>2, <2>1
  <2> HIDE DEF v, x, y
  <2>4. Good(v, x)
    BY <2>1, <2>2
  <2>5. Good(v - 1, y)
    BY <2>1, <2>3, <2>4, StepBack
  <2> HIDE DEF Good
  <2>6. Good(r - i, y)
    BY <2>1, <2>5
  <2> QED
    BY <2>1, <2>6 DEF S, y
<1> HIDE DEF S
<1>5. r - target \in S
  BY <1>1, <1>3, <1>4, Since
<1>6. Twins(at[r - target], Base(r - (r - target)))
  BY <1>5 DEF S
<1> QED
  BY <1>2, <1>6 DEF Twins, Fit

\* A database that follows its revision is a twin of the one without rows.
LEMMA FollowsTwin ==
    ASSUME NEW r \in 0 .. HeadRevision, NEW d, Follows(r, d), d.ok = TRUE
    PROVE  Twins(d, Base(r))
BY BaseSound DEF Follows, Twins, Fit

\* Memories that the mapping merges collide, as the run on it says.
LEMMA MergedCollide ==
    ASSUME WellFormed(db), "memories" \in DOMAIN db.tables,
           \A i \in DOMAIN db.rows["memories"] : MemoryKey \subseteq DOMAIN db.rows["memories"][i],
           Merged(db.rows["memories"])
    PROVE  Collision
<1> DEFINE ms == db.rows["memories"]
           memories == MapScopes(Rows).memories
<1>1. "memories" \in DOMAIN db.rows
  BY DEF WellFormed, IsDatabase
<1>2. memories = [i \in DOMAIN ms |-> ScopeMapped(ms[i])]
  BY <1>1 DEF MapScopes, Updated, ScopeMapped, Rows
<1>3. PICK i \in DOMAIN ms, j \in DOMAIN ms :
         /\ i # j /\ ms[i]["status"] = "active" /\ ms[j]["status"] = "active"
         /\ \A c \in MemoryKey : ScopeMapped(ms[i])[c] = ScopeMapped(ms[j])[c]
  BY DEF Merged
<1> HIDE DEF memories
<1>4. \A m : "status" \in DOMAIN m => ScopeMapped(m).status = m["status"]
  BY DEF ScopeMapped
<1>5. MemoryKey \subseteq DOMAIN ms[i] /\ MemoryKey \subseteq DOMAIN ms[j]
  BY <1>3
<1> HIDE DEF ms
<1>6. DOMAIN memories = DOMAIN ms /\ memories[i] = ScopeMapped(ms[i]) /\ memories[j] = ScopeMapped(ms[j])
  BY <1>2, <1>3
<1>7. \A c \in MemoryKey : memories[i][c] = memories[j][c]
  BY <1>3, <1>6
<1>8. memories[i].status = "active" /\ memories[j].status = "active"
  BY <1>3, <1>4, <1>5, <1>6 DEF MemoryKey
<1>9. SameIdentity(memories[i], memories[j])
  BY <1>7 DEF SameIdentity, MemoryKey
<1>10. \E k, l \in DOMAIN memories :
          /\ k # l /\ SameIdentity(memories[k], memories[l])
          /\ memories[k].status = "active" /\ memories[l].status = "active"
  BY <1>3, <1>6, <1>8, <1>9
<1> QED
  BY <1>10 DEF Collision, memories

\* Without a collision no command is refused.
LEMMA CommandsRun ==
    ASSUME SchemaInv, ~ Collision, NEW target \in 0 .. HeadRevision
    PROVE  /\ rev < target => UpgradeFrom(db, rev, target).ok = TRUE
           /\ target < rev => DowngradeFrom(db, rev, target).ok = TRUE
<1>1. rev \in 0 .. HeadRevision /\ Sane(rev, db, origin) /\ db.ok = TRUE
  BY DataSane DEF SchemaInv, DataInv
<1>2. Twins(db, Base(rev))
  BY <1>1, FollowsTwin DEF SchemaInv
<1>3. ASSUME rev >= 4 PROVE ~ Merged(db.rows["memories"])
  <2>1. WellFormed(db) /\ "memories" \in DOMAIN db.tables
    BY <1>3 DEF SchemaInv, DataInv, RevisionInv, TablesThere, LegacyRevision
  <2>2. \A i \in DOMAIN db.rows["memories"] : MemoryKey \subseteq DOMAIN db.rows["memories"][i]
    BY <2>1 DEF SchemaInv, Follows, Orderly
  <2> QED
    BY <2>1, <2>2, MergedCollide
<1>4. rev \in Nat /\ target \in Nat /\ rev <= HeadRevision /\ target <= HeadRevision
  BY <1>1 DEF HeadRevision
<1>5. ASSUME rev < target PROVE UpgradeFrom(db, rev, target).ok = TRUE
  <2>1. target \in rev .. HeadRevision /\ (rev = 4 => ~ Merged(db.rows["memories"]))
    BY <1>3, <1>4, <1>5 DEF HeadRevision
  <2> QED
    BY <1>1, <1>2, <2>1, UpgradeRuns
<1>6. ASSUME target < rev PROVE DowngradeFrom(db, rev, target).ok = TRUE
  <2>1. target \in 0 .. rev /\ (rev >= 5 => ~ Merged(db.rows["memories"]))
    BY <1>3, <1>4, <1>6 DEF HeadRevision
  <2> QED
    BY <1>1, <1>2, <2>1, DowngradeRuns
<1> QED
  BY <1>5, <1>6

\* A refused command leaves the database, and what collided in it.
LEMMA CommandsAccounted ==
    ASSUME SchemaInv, NEW target \in Targets, AlembicUpgrade(target) \/ AlembicDowngrade(target)
    PROVE  RefusalsExplained'
<1> SUFFICES ASSUME refused' # "none" PROVE Collision'
  BY DEF RefusalsExplained
<1>1. target \in 0 .. HeadRevision
  BY InputAssumption
<1>2. PICK command, result :
         /\ Finish(command, target, result)
         /\ \/ rev < target /\ result = UpgradeFrom(db, rev, target)
            \/ target < rev /\ result = DowngradeFrom(db, rev, target)
  BY DEF AlembicUpgrade, AlembicDowngrade
<1>3. result.ok # TRUE /\ db' = db
  BY <1>2 DEF Finish
<1>4. Collision
  BY <1>1, <1>2, <1>3, CommandsRun
<1> QED
  BY <1>3, <1>4 DEF Collision, Rows

\* A write is no refusal.
LEMMA WriteAccounted ==
    ASSUME NEW rows, Written(rows)
    PROVE  RefusalsExplained'
BY DEF Written, RefusalsExplained

RefusalInv == SchemaInv /\ RefusalsExplained

\* Every step keeps a refusal explained.
LEMMA StepsAccounted == RefusalInv /\ [Next]_vars => RefusalInv'
<1> SUFFICES ASSUME SchemaInv, RefusalsExplained, [Next]_vars PROVE RefusalsExplained'
  BY StepsFollow DEF RefusalInv
<1>1. CASE \E target \in Targets : AlembicUpgrade(target) \/ AlembicDowngrade(target)
  BY <1>1, CommandsAccounted
<1>2. CASE \E scope \in Scopes, kind \in Kinds, c \in OrNull(Present("characters")) :
             \/ \E p \in OrNull(Present("personas")) : LegacyRemember(scope, kind, c, p)
             \/ Remember(scope, kind, c)
  <2>1. \A scope, kind, c, p : LegacyRemember(scope, kind, c, p) => RefusalsExplained'
    BY RememberWrites, WriteAccounted
  <2>2. \A scope, kind, c : Remember(scope, kind, c) => RefusalsExplained'
    BY WriteAccounted DEF Remember
  <2> QED
    BY <1>2, <2>1, <2>2
<1>3. CASE \E id \in Present("memories") : LegacyRetire(id) \/ ArchiveMemory(id)
  BY <1>3, WriteAccounted DEF LegacyRetire, ArchiveMemory
<1>4. CASE \E c \in CharacterIds :
             \/ \E profile \in CharacterProfiles :
                  \/ LegacyWriteCharacter(c, profile)
                  \/ CreateCharacter(c, profile) \/ UpdateCharacter(c, profile)
             \/ LegacyArchiveCharacter(c) \/ ArchiveCharacter(c)
  <2>1. \A c, profile : LegacyWriteCharacter(c, profile) => RefusalsExplained'
    BY WriteAccounted DEF LegacyWriteCharacter
  <2>2. \A c, profile : CreateCharacter(c, profile) \/ UpdateCharacter(c, profile)
                            => RefusalsExplained'
    BY WriteAccounted DEF CreateCharacter, UpdateCharacter
  <2>3. \A c : LegacyArchiveCharacter(c) \/ ArchiveCharacter(c) => RefusalsExplained'
    BY WriteAccounted DEF LegacyArchiveCharacter, ArchiveCharacter
  <2> QED
    BY <1>4, <2>1, <2>2, <2>3
<1>5. CASE \E p \in PersonaIds :
             \/ \E profile \in PersonaProfiles :
                  \/ LegacyWritePersona(p, profile)
                  \/ CreatePersona(p, profile) \/ UpdatePersona(p, profile)
             \/ LegacyArchivePersona(p) \/ DeletePersona(p)
  <2>1. \A p, profile : LegacyWritePersona(p, profile) => RefusalsExplained'
    BY WriteAccounted DEF LegacyWritePersona
  <2>2. \A p, profile : CreatePersona(p, profile) \/ UpdatePersona(p, profile) => RefusalsExplained'
    BY WriteAccounted DEF CreatePersona, UpdatePersona
  <2>3. \A p : LegacyArchivePersona(p) \/ DeletePersona(p) => RefusalsExplained'
    BY WriteAccounted DEF LegacyArchivePersona, DeletePersona
  <2> QED
    BY <1>5, <2>1, <2>2, <2>3
<1>6. CASE UNCHANGED vars
  BY <1>6 DEF vars, RefusalsExplained, Collision, Rows
<1> QED
  BY <1>1, <1>2, <1>3, <1>4, <1>5, <1>6 DEF Next

\* Through any history of upgrades, downgrades and writes of any rows, a command
\* is refused only where two active memories become the same for the unique
\* index on their identity once the bridge (revision 0005) maps their scopes, on
\* the way up or on the way back: no other statement of the seven revisions
\* fails on the rows that the applications leave.
THEOREM RefusalsAccounted == Spec => []RefusalsExplained
<1>1. Init => RefusalInv
  <2>1. Init => RefusalsExplained
    BY DEF Init, RefusalsExplained
  <2> QED
    BY <2>1, StartsKempt DEF RefusalInv
<1>2. RefusalInv /\ [Next]_vars => RefusalInv'
  BY StepsAccounted
<1>3. RefusalInv => RefusalsExplained
  BY DEF RefusalInv
<1> QED
  BY <1>1, <1>2, <1>3, PTL DEF Spec
=============================================================================
