\* A first installation and an upgrade, with failed calls and crashes.
SPECIFICATION FairSpec
CONSTANTS
    Disturbances = {"fault", "crash"}
    MaxEvents = 3
INVARIANTS
    TypeOK
    SilentInitIsComplete
PROPERTIES
    InitEnds
    ComesUp
\* the job may be done and the process at work
CHECK_DEADLOCK FALSE
