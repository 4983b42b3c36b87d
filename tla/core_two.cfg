\* Two instances, failover, lost connections and lost answers: safety.
SPECIFICATION Spec
CONSTANTS
    Instances = {i1, i2}
    NoInstance = NoInstance
    HwDaemons = {d1, d2}
    SelfDone = {}
    Zones = {utc}
    DefaultZone = utc
    NoZone = NoZone
    Releases = {r1}
    NoRelease = NoRelease
    NBatches = 2
    MaxCrashes = 1
    MaxDrops = 2
    MaxZoneSets = 0
    MaxUpgrades = 0
    MaxMgmtSets = 0
CHECK_DEADLOCK FALSE
INVARIANTS
    SingleSystemRow
    HwDoneOnlyAfterDaemons
    PackagesOnce
    OneActiveInstance
PROPERTIES
    ImplementsHwReady
SYMMETRY InstanceSymmetry
