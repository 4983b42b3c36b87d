\* One lost connection: is cur_hw still set?
SPECIFICATION FairSpec
CONSTANTS
    Instances = {i1}
    NoInstance = NoInstance
    HwDaemons = {d1}
    SelfDone = {}
    Zones = {utc}
    DefaultZone = utc
    NoZone = NoZone
    Releases = {r1}
    NoRelease = NoRelease
    NBatches = 0
    MaxCrashes = 0
    MaxDrops = 1
    MaxZoneSets = 0
    MaxUpgrades = 0
    MaxMgmtSets = 0
CHECK_DEADLOCK FALSE
PROPERTIES
    ReadyEventually
