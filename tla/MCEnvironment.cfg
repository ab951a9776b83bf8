SPECIFICATION EnvSpec
CONSTANTS
    guard = guard
    hub = hub
    api = api
    loop1 = loop1
    loop2 = loop2
    Asker <- ThreeAskers
    Guard <- MCGuard
    Hub <- MCHub
    Loop <- OneLoop
    MaxDisk = 1
    MaxRegistry = 1
    MaxLatest = 1
INVARIANTS
    SameRevisionSameReading
    NoOldRegistry
