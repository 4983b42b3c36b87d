\* An ordinary switch with two failing steps, two kills and an exit; manifests and EEPROMs of many kinds.
SPECIFICATION FairSpec
CONSTANTS
    HwDescDir = HwDescDir
    NoLink = NoLink
    NoIntf = NoIntf
    MaxDepth = 6
    RandomBytes = {10, 255}
    HighestVersion = 1
    DaemonsKeys <- SomeDaemonsKeys
    HandlerKeys <- SomeHandlerKeys
    MgmtKeys <- SomeMgmtKeys
    IntfKeys <- SomeIntfKeys
    SelfNames <- SomeSelfNames
    Systems <- SomeSystems
CHECK_DEADLOCK FALSE
INVARIANTS
    TypeOK
    RunningIsReady
    MacsAccountedFor
    ManifestIsRead
    IntactIsRead
    CrcGuards
PROPERTIES
    RestartBoots
