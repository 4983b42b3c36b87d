\* One instance and every fault: what it has done when it sleeps, and what restarts repair.
SPECIFICATION FairSpec
CONSTANTS
    Instances = {i1}
    NoInstance = NoInstance
    HwDaemons = {d1, d2}
    SelfDone = {d1}
    Zones = {utc, pst}
    DefaultZone = utc
    NoZone = NoZone
    Releases = {r1, r2}
    NoRelease = NoRelease
    NBatches = 2
    MaxCrashes = 2
    MaxDrops = 2
    MaxZoneSets = 1
    MaxUpgrades = 1
    MaxMgmtSets = 1
CHECK_DEADLOCK FALSE
INVARIANTS
    TypeOK
    SettledDone
    SettledLocaltime
PROPERTIES
    RestartRecovers
