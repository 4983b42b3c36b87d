\* A crash in the middle of a Package_Info load.
SPECIFICATION FairSpec
CONSTANTS
    Instances = {i1}
    NoInstance = NoInstance
    HwDaemons = {}
    SelfDone = {}
    Zones = {utc}
    DefaultZone = utc
    NoZone = NoZone
    Releases = {r1}
    NoRelease = NoRelease
    NBatches = 2
    MaxCrashes = 1
    MaxDrops = 0
    MaxZoneSets = 0
    MaxUpgrades = 0
    MaxMgmtSets = 0
CHECK_DEADLOCK FALSE
PROPERTIES
    PackagesEventually
