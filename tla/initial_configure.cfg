\* Description files that vary one at a time, a failed commit and a failed allocation.
SPECIFICATION Spec
CONSTANTS
    Inputs <- AllInputs
    NoPort = "none"
    NoText = "no text"
    CosRows = 2
    DscpRows = 3
    MaxSplit = 2
    NoFile = NoFile
    NoEquals = "no ="
    NStr = 5
    Between <- BuildText
    Behind <- CloseText
    Unset = Unset
    Died = Died
    MaxFails = 1
    MaxNoMemory = 1
CHECK_DEADLOCK FALSE
INVARIANTS
    TypeOK
    CompleteUnlessNoMemory
    ProfilesAsDescribed
    OnlyFactoryImmutable
    LinksMutual
    EveryCodePointMapped
    VersionIsAnImages
    PassBreaksOnlyOnNews
    ShowEndsUnlessConfigured
