SPECIFICATION FairEnvSpec
CONSTANTS
    guard = guard
    hub = hub
    api = api
    loop1 = loop1
    loop2 = loop2
    Asker <- GuardAndHub
    Guard <- MCGuard
    Hub <- MCHub
    Loop <- TwoLoops
    MaxDisk = 1
    MaxRegistry = 0
    MaxLatest = 0
PROPERTIES
    LoopsEnd
    ChangeReachesTheHub
