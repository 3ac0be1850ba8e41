\* One config with a poll interval and one without, an empty object with and without kind.
SPECIFICATION FairSpec
CONSTANTS
    Configs <- MCConfigs
    Polling <- MCPolling
    NoConfig = noconfig
    Objs <- MCObjs
    BufferSize = 1
    Disturbances = {"config", "create", "miss", "list", "stop", "crash"}
    MaxEvents = 2
INVARIANTS
    TypeOK
    InOrder
    NewestOnItsWay
    NoObjectForgotten
PROPERTIES
    ImplementsRegister
    RegisterLearns
    EveryObjectLearns
\* the environment may run out of events and the provider come to rest
CHECK_DEADLOCK FALSE
