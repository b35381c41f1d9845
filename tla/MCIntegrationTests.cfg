CONSTANTS
    Fee = {0, 3}
SPECIFICATION Spec
CHECK_DEADLOCK FALSE
INVARIANTS
    AssertionsHold
    TestsSettle
PROPERTIES
    SuiteFinishes
