CONSTANTS
    stake0 = stake0
    other0 = other0
    stake1 = stake1
    redeem0 = redeem0
    staker = staker
    redeemer = redeemer
    Message = {stake0, other0, stake1, redeem0}
    Account = {staker, redeemer}
    Acceptable = {stake0, other0, stake1, redeem0}
    NoMessage = NoMessage
    Source <- MCSource
    Secret <- MCSecret
    HashLock <- MCHashLock
    Sender <- MCSender
    Beneficiary <- MCBeneficiary
    Nonce <- MCNonce
    Amount <- MCAmount
    MaxReward <- MCMaxReward
    Bounties = {0, 2}
    InitialBounty = 2
    InitialValue <- MCTwoStakes
    InitialBase <- MCBase
    InitialCoin <- MCCoin
    MaxStateRoots = 1
    MaxStorageRoots = 1
SPECIFICATION MCSpec
CHECK_DEADLOCK FALSE
INVARIANTS
    TypeOK
    Escrow
    Backed
    RequestsMatchBoxes
    OpenProcessIsActive
    ConfirmedInOrder
PROPERTIES
    ImplementsMessageBus
    NoncesNeverFall
