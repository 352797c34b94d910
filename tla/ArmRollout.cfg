SPECIFICATION ArmSpec
CONSTANTS
    k1 = k1
    k2 = k2
    Skills = {k1, k2}
    NoSkill = NoSkill
    Profiles <- GateProfiles
    MaxSamples = 4
    Procs = {p1, p2}
    Free = Free
    Poses = {0, 1, 2, 3}
    ChunkRows = 2
    ActionSteps = 5
SYMMETRY Symmetry
INVARIANTS
    ArmTypeOK
    RestIsARoundTrip
    OneDriver
    LeftHolding
