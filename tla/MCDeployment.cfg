CONSTANTS
    top = top
    middle = middle
    bottom = bottom
    existing = existing
    Contract = {top, middle, bottom}
    NoAddress = NoAddress
    NoCode = NoCode
    Refs <- MCRefs
    Placeholders <- MCPlaceholders
    Added <- MCAdded
    FixedAddresses = {1}
    Starts = {0, 1}
    MaxNonce = 8
    ExistingTokens = {existing}
    MaxHeight = 5
    MaxRuns = 2
SPECIFICATION MCSpec
CHECK_DEADLOCK FALSE
INVARIANTS
    DependenciesAreDeployed
    ReportedIsDeployed
    Paired
PROPERTIES
    PlansWhatIsClosed
    RunEnds
