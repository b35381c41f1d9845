CONSTANTS
    first = first
    rival = rival
    second = second
    other = other
    elsewhere = elsewhere
    alice = alice
    bob = bob
    near = near
    far = far
    token = token
    coin = coin
    User = {alice, bob}
    Worker = Worker
    Pool = Pool
    Escrows = Escrows
    Gateway = {near, far}
    Request = {first, rival, second, other, elsewhere}
    NoRequest = NoRequest
    Token = {token, coin}
    By <- MCBy
    At <- MCAt
    Nonce <- MCNonce
    Amount <- MCAmount
    MaxReward <- MCMaxReward
    TokenOf <- MCTokenOf
    Bounties = {0, 1}
    InitialBalance <- MCBalance
    MaxProxies = 2
    Beneficiary <- MCBeneficiary
    ZeroAddress = ZeroAddress
    BaseTokenOf <- MCBaseTokenOf
    Coin = coin
SPECIFICATION Spec
CHECK_DEADLOCK FALSE
INVARIANTS
    ComposerMappingsAgree
    Escrow
    AcceptableWhenIdle
PROPERTIES
    NonceKeptWhileOpen
    ImplementsRequests
