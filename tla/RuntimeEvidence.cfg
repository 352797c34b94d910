SPECIFICATION BackedSpec
CONSTANTS
    Trials = {t1, t2}
    NoTrial = NoTrial
    Sessions = {s1, s2}
    NoSession = NoSession
    Skills = {k1}
    NoSkill = NoSkill
    Workers = {w1, w2}
    Loop = Loop
    Free = Free
    MaxGeneration = 1
    MaxSequence = 1
    RootSeed <- OneSeed
    MaxInstances = 1
SYMMETRY Symmetry
CHECK_DEADLOCK FALSE
INVARIANTS
    TrialAuditCoupled
    ResponsesOnFile
    EvidenceFiledUnderItsTrial
    EvidenceInSequence
    CommitCountsResponses
PROPERTIES
    ConfirmedByLiveLease
