CONSTANTS
    stakeMessage = stakeMessage
    redeemMessage = redeemMessage
    Message = {stakeMessage, redeemMessage}
    Source <- MCSource
    Secret <- MCSecret
    HashLock <- MCHashLock
    MaxStateRoots = 1
    MaxStorageRoots = 2
SPECIFICATION BusSpec
CHECK_DEADLOCK FALSE
INVARIANTS
    Atomicity
    RevocationIsAnswered
    RootsMatchBuffers
PROPERTIES
    ImplementsAtomicTransfer
