SPECIFICATION Spec
CONSTANTS
    w1 = w1
    w2 = w2
    a1 = a1
    b1 = b1
    Workers = {w1, w2}
    Slots = {a1, b1}
    OwnerOf <- MCOwnerOf
    MainRoots = {b1}
    Limits = {1, 2}
    MaxRestarts = 1
    MaxFailures = 2
    Unreliable = {w1}
INVARIANTS
    TypeOK
    ClaimsMatchReservations
PROPERTIES
    LimitHolds
    
    
CHECK_DEADLOCK FALSE
