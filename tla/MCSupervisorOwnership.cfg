SPECIFICATION Spec
CONSTANTS
    Supervisors = {s1, s2}
    Stoppers = {k1, k2}
    MaxFaults = 1
    Nobody = Nobody
SYMMETRY Symmetry
INVARIANTS
    TypeOK
    SingleOwner
    RenewalIsTrue
PROPERTIES
    AdmissionStands
    HandOverIsClean
CHECK_DEADLOCK FALSE
