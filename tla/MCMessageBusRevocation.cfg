CONSTANTS
    stakeMessage = stakeMessage
    redeemMessage = redeemMessage
    Message = {stakeMessage}
    Source <- MCSource
    Secret <- MCSecret
    HashLock <- MCHashLock
    MaxStateRoots = 2
    MaxStorageRoots = 2
SPECIFICATION FairBusSpec
CHECK_DEADLOCK FALSE
PROPERTIES
    RevocationCompletes
