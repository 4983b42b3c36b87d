\* Every manifest over four names, a restart and an upgrade.
SPECIFICATION FairSpec
CONSTANTS
    SelfName = "ops-sysd"
    Names <- FourNames
    Prefixes <- NoPrefixes
    MaxRestarts = 1
    MaxUpgrades = 1
    MaxMgmtSets = 0
CHECK_DEADLOCK FALSE
INVARIANTS
    TypeOK
    CheckFindsAll
    OnlyWhenAllReported
PROPERTIES
    ReadyFollows
