CONSTANTS
    stake0 = stake0
    other0 = other0
    stake1 = stake1
    redeem0 = redeem0
    staker = staker
    redeemer = redeemer
    Message = {stake0, redeem0}
    Account = {staker, redeemer}
    Acceptable = {stake0, redeem0}
    NoMessage = NoMessage
    Source <- MCSource
    Secret <- MCSecret
    HashLock <- MCHashLock
    Sender <- MCSender
    Beneficiary <- MCBeneficiary
    Nonce <- MCNonce
    Amount <- MCAmount
    MaxReward <- MCNoReward
    Bounties = {1}
    InitialBounty = 1
    InitialValue <- MCValue
    InitialBase <- MCBase
    InitialCoin <- MCCoin
    MaxStateRoots = 1
    MaxStorageRoots = 1
SPECIFICATION FairMCSpec
CHECK_DEADLOCK FALSE
PROPERTIES
    ConfirmedIsSettled
