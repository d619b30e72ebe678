CONSTANTS
    MemoryIds <- MCMemories
    CharacterIds <- MCCharacters
    PersonaIds <- MCPersonas
    Names <- MCNames
    CharacterProfiles <- MCCharacterProfiles
    PersonaProfiles <- MCPersonaProfiles
    Scopes <- MCScopes
    Kinds <- MCKinds
    Targets <- MCTargets
    MaxCommands = 4
    MaxWrites = 4
SPECIFICATION Spec
CHECK_DEADLOCK FALSE
INVARIANTS
    SchemaFollowsRevision
    HeadRowsReadable
    OriginalsRetained
    RefusalsExplained
PROPERTIES
    VisibilityCarriedOver
    ProfilesCarriedOver
