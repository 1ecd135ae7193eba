\* Three workers, five clients that come and go, anything failing.
SPECIFICATION Spec
CONSTANTS
    WorkersNr = 3
    MaxClients = 5
    MayFail = TRUE
INVARIANTS
    LaziestChosen
    Balanced
    DestroyStopsAll
CHECK_DEADLOCK FALSE
