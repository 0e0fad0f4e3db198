SPECIFICATION Spec
CONSTANTS
    ErpLimit = 2
    BusOffLimit = 4
    IncEight = 2
    CtrMod = 9
    RecHigh = 1
    RecBack = 1
    IntegrationDuration = 2
    ErrFlgDuration = 1
    DelimWaitDuration = 1
    ErrDelimDuration = 1
    OvrFlgDuration = 1
    OvrDelimDuration = 1
    EofDuration = 1
    IntermissionDuration = 2
    SuspendDuration = 1
    DominantRepeatDuration = 1
    ArbitrationMax = 1
    BodyMax = 1
    ReintegLimit = 1
    RetrMod = 4
    RetrTh = 1
    Modes <- MCModes
INVARIANTS
    RolesFit
    BusOffSilent
    AttemptsLimited
    LonelyNotBusOff
PROPERTIES
    TecNeverWraps
    RecoversAfterIntegration
    ImplementsTxCommands
    QuietBusRecovers
