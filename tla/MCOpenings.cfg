CONSTANTS
    Height <- MCHeight
    InitialHeights <- MCLaterHeights
    Root = {rootA, rootB}
    NoRoot = noRoot
    MaxStateRoots = 3
    CoAnchor = {anchorA, anchorB}
    NoAnchor = noAnchor
    Bounties = {0, 1, 2}
    UnlockPeriod = 2
    DeployHeight = 1
    MaxHeight = 9
    alice = alice
    bob = bob
    User = {alice, bob}
    This = This
    CoGateway = CoGateway
    Genesis = alice
    TokensMax = 4
    v1 = v1
    v2 = v2
    v3 = v3
    Validator = {v1, v2, v3}
    Deposits = {1, 2, 3}
    Founding <- MCFounding
    MinimumWeight = 2
    Dynasty = {1, 2, 3}
    MaxMetaBlock = 4
    MaxProposals = 3
    Origin = Origin
    Auxiliary = Auxiliary
    BlocksOf <- MCBlocksOf
    ParentOf <- MCParentOf
    HeightOf <- MCHeightOf
    First <- MCFirst
    NoBlock = noBlock
    EpochLength = 1
    Voter = {v1, v2, v3}
    Initial <- MCInitial
    Joining <- MCJoining
    MaxTarget = 12
    Cases = {"auxiliary core, opening"}
SPECIFICATION MCSpec
CHECK_DEADLOCK FALSE
INVARIANTS
    OpeningsStayProvable
