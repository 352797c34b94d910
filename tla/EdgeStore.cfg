SPECIFICATION EdgeSpec
CONSTANTS
    Runs = {r1, r2}
    NoRun = NoRun
    NumStages = 2
    MaxLines = 1
SYMMETRY Symmetry
INVARIANTS
    EdgeIInv
    StagesCompleteInOrder
    CompletedRunIsWhole
PROPERTIES
    EdgeImplementsLedger
