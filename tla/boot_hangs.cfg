\* Nothing fails, but there may be no SMBIOS.
SPECIFICATION FairSpec
CONSTANTS
    HwDescDir = HwDescDir
    NoLink = NoLink
    NoIntf = NoIntf
    MaxDepth = 6
    RandomBytes = {10, 255}
    HighestVersion = 1
    DaemonsKeys <- SomeDaemonsKeys
    HandlerKeys <- SomeHandlerKeys
    MgmtKeys <- SomeMgmtKeys
    IntfKeys <- SomeIntfKeys
    SelfNames <- SomeSelfNames
    Systems <- QuietSystems
CHECK_DEADLOCK FALSE
PROPERTIES
    CommandEnds
