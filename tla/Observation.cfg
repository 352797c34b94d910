SPECIFICATION ObservationSpec
CONSTANTS
    Skills = {k1, k2}
    NoSkill = NoSkill
    ArmOf <- LeftArm
    Missing = Missing
    MessageAge = 2
    ObservationAge = 1
    ImageAge = 2
    Old = 3
SYMMETRY Symmetry
CHECK_DEADLOCK FALSE
INVARIANT
    NothingMissing
PROPERTY
    DecidedOnFreshData
