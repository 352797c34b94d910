SPECIFICATION Spec
CONSTANTS
    Trials = {t1}
    NoTrial = NoTrial
    Sessions = {s1}
    NoSession = NoSession
    Skills = {k1}
    NoSkill = NoSkill
    Workers = {w1, w2}
    Loop = Loop
    Free = Free
    MaxGeneration = 1
    MaxSequence = 0
    MaxInstances = 1
CHECK_DEADLOCK FALSE
PROPERTIES
    AmbiguousResponseIsFatal
