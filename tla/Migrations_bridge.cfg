CONSTANTS
    MemoryIds <- MCMemories
    CharacterIds <- MCCharacters
    PersonaIds <- MCPersonas
    Names <- MCNames
    CharacterProfiles <- MCCharacterProfiles
    PersonaProfiles <- MCPersonaProfiles
    Scopes <- MCScopes
    Kinds <- MCKinds
    Targets <- MCTargets
    MaxCommands = 2
    MaxWrites = 2
SPECIFICATION Spec
CHECK_DEADLOCK FALSE
INVARIANT LegacyDatabasesContinue
