SPECIFICATION OrchSpec
CONSTANTS
    Runs = {r1, r2}
    NoRun = NoRun
    NumStages = 1
    MaxLines = 1
    NoTrial = NoTrial
    NoSession = NoSession
    NoSkill = NoSkill
    k1 = k1
    k2 = k2
    Skills = {k1, k2}
    Plan <- SkillPlan
    Sessions = {s1, s2}
    ResetBefore = {0}
    Checked = {0}
    MaxChunks = 1
    LateCalls = TRUE
    MaxInstances = 1
SYMMETRY Symmetry
INVARIANTS
    PlannedSkillServed
