\* Five calls on three rows of two families.
CONSTANTS
    Calls = {c1, c2, c3, c4, c5}
    Sessions = {s1, s2, s3}
    Families = {f1, f2}
    Nobody = Nobody
SPECIFICATION Spec
SYMMETRY IdSymmetry
INVARIANTS TypeOK OneLivePerFamily ChainLinear SweepRevokesSnapshot
PROPERTIES DeadFamilyStaysDead
CHECK_DEADLOCK FALSE
