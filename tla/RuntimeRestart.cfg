SPECIFICATION FairBackedSpec
CONSTANTS
    Trials = {t1}
    NoTrial = NoTrial
    Sessions = {s1, s2}
    NoSession = NoSession
    Skills = {k1}
    NoSkill = NoSkill
    Workers = {w1, w2}
    Loop = Loop
    Free = Free
    MaxGeneration = 1
    MaxSequence = 0
    RootSeed <- OneSeed
    MaxInstances = 2
CHECK_DEADLOCK FALSE
PROPERTIES
    EveryCallReturns
    ImplementsLedger
    ImplementsService
