SPECIFICATION Spec
CONSTANTS
    root = root
    child = child
    beat = beat
    shot = shot
    Root = root
    Children = {child}
    Jobs = {beat, shot}
    SessionOf <- MCSessionOf
    Heartbeats = {beat}
    Once = {shot}
    MaxTicks = 3
 
INVARIANTS
    TypeOK
    NoReplay
    ClaimsAreHeld
    QueuedHeartbeatsStand
    UpdateIsQuiet
CHECK_DEADLOCK FALSE
