\* Two instances, a crash, a user of the CLI and another: liveness, and what commands may do.
SPECIFICATION CliFairSpec
CONSTANTS
    Instances = {i1, i2}
    NoInstance = NoInstance
    HwDaemons = {d1, d2}
    SelfDone = {d1}
    Zones <- AllZones
    DefaultZone <- Utc
    NoZone = NoZone
    Releases = {r1}
    NoRelease = NoRelease
    NBatches = 0
    MaxCrashes = 1
    MaxDrops = 0
    MaxZoneSets = 2
    MaxUpgrades = 0
    MaxMgmtSets = 0
    Users = {u1}
    Words <- AllWords
    Lower <- LowerPath
    DefaultWord <- UtcWord
    ZoneLists <- ListsOf
CHECK_DEADLOCK FALSE
INVARIANTS
    ReplayRestores
PROPERTIES
    ImplementsSysdRun
    ImplementsHwReadyFair
    LocaltimeFollows
    NoFormNamesAPastZone
