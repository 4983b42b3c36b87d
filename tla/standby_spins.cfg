\* Two instances, no faults: does the second one sleep?
SPECIFICATION FairSpec
CONSTANTS
    Instances = {i1, i2}
    NoInstance = NoInstance
    HwDaemons = {d1}
    SelfDone = {}
    Zones = {utc}
    DefaultZone = utc
    NoZone = NoZone
    Releases = {r1}
    NoRelease = NoRelease
    NBatches = 0
    MaxCrashes = 0
    MaxDrops = 0
    MaxZoneSets = 0
    MaxUpgrades = 0
    MaxMgmtSets = 0
CHECK_DEADLOCK FALSE
PROPERTIES
    StandbySleeps
