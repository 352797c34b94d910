SPECIFICATION BackedSpec
CONSTANTS
    Trials = {t1, t2}
    NoTrial = NoTrial
    Sessions = {s1, s2}
    NoSession = NoSession
    Skills = {k1, k2}
    NoSkill = NoSkill
    Workers = {w1, w2}
    Loop = Loop
    Free = Free
    MaxGeneration = 2
    MaxSequence = 0
    MaxInstances = 1
    RootSeed <- OneSeed
SYMMETRY Symmetry
CHECK_DEADLOCK FALSE
INVARIANTS
    PolicySerial
    InFlightProtected
    DrainNeverWaits
    IInv
    LinesReproducible
PROPERTIES
    FailedIsFinal
    GenerationChangesAlone
    ImplementsService
