SPECIFICATION FairOrchSpec
CONSTANTS
    Runs = {r1}
    NoRun = NoRun
    NumStages = 2
    MaxLines = 2
    NoTrial = NoTrial
    NoSession = NoSession
    NoSkill = NoSkill
    k1 = k1
    k2 = k2
    Skills = {k1, k2}
    Plan <- PipelinePlan
    Sessions = {s1, s2}
    ResetBefore = {0}
    Checked = {0}
    MaxChunks = 2
    LateCalls = FALSE
    MaxInstances = 2
INVARIANTS
    OrchTypeOK
    CompletedStageIsTrue
    EveryActionAccountedFor
    FailedStageNotCounted
    ArmHeldFirst
    NothingLeftOnServer
    PlannedSkillServed
PROPERTIES
    EveryRunEnds
