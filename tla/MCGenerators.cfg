CONSTANTS
    Rounds = 2
    Base = 2
    MaxPattern = 5
    MaxPath = 3
    MaxOtherPath = 2
SPECIFICATION MCSpec
CHECK_DEADLOCK FALSE
INVARIANTS
    FilesReplay
    GeneratedVerifies
    OnlyOnItsPath
PROPERTIES
    GeneratorFinishes
