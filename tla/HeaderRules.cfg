SPECIFICATION Spec
CONSTANTS
    Slot1 = Slot1
    Slot3 = Slot3
    Algos = {Slot1, Slot3}
    PowLimit <- MCPowLimit
    UintBits = 12
    DecaySpan = 2
    DecaySpanV3 = 2
    DecayV2Start = 2
    GeometricStart = 3
    RootStartBits = 2
    RootSteps = 20
    TimeArgon2dStart = 20
    ByteBits = 2
    PoWAveragingInterval = 2
    PowTargetSpacing = 5
    InitialPhase = 4
    MaxAdjustUp = 10
    MaxAdjustDown = 10
    Rule2Start = 3
    MaxCountV1 = 2
    MaxCountV2 = 3
    MajorityWindow = 3
    MajorityReject = 2
    MedianTimeSpan = 3
    FutureLimit = 20
    Versions = {2, 3, 4}
    TimeSteps <- MCTimeSteps
    ClockStep = 40
    MaxHeight = 5
    MaxClock = 40
    Period = 2
    Threshold = 2
    TimeStart = 5
    TimeTimeout = 25
    Signalling = {4}
INVARIANTS
    TargetsAreIndependent
    UpgradesAreFinal
    WorkGrows
    RootIsExact
    TemplatesAreMinable
    CacheIsTransparent
    ActivationIsEarned
