CONSTANTS
    Personas = {p1, p2}
    Rooms = {r1}
    Calls = {c1, c2, c3}
    None = None
SPECIFICATION Spec
SYMMETRY Symmetry
CHECK_DEADLOCK FALSE
INVARIANTS
    SomeCallProceeds
    LatestChoiceWins
    ReferencesStand
