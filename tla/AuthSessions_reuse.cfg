\* One family: a reuse is detected while its newest token is being rotated.
CONSTANTS
    Calls = {c1, c2, c3, c4}
    Sessions = {s1, s2, s3}
    Families = {f1}
    Nobody = Nobody
SPECIFICATION Spec
SYMMETRY IdSymmetry
INVARIANT ReuseRevokesFamily
CHECK_DEADLOCK FALSE
