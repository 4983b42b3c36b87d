\* /etc/os-release changes under an existing System row.
SPECIFICATION FairSpec
CONSTANTS
    Instances = {i1}
    NoInstance = NoInstance
    HwDaemons = {}
    SelfDone = {}
    Zones = {utc}
    DefaultZone = utc
    NoZone = NoZone
    Releases = {r1, r2}
    NoRelease = NoRelease
    NBatches = 0
    MaxCrashes = 1
    MaxDrops = 0
    MaxZoneSets = 0
    MaxUpgrades = 1
    MaxMgmtSets = 0
CHECK_DEADLOCK FALSE
PROPERTIES
    SwInfoUpdated
