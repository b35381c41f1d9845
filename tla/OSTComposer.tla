----------------------------- MODULE OSTComposer -----------------------------
(***************************************************************************)
(* The composer of the origin chain: stakers request stakes, a worker      *)
(* accepts them and pays the bounty in the gateway's base token, which can *)
(* be the very token that is staked.  A gateway, which is external to the  *)
(* composer, takes stakes only while it is activated.                      *)
(***************************************************************************)
EXTENDS ProxyRequests

CONSTANTS Beneficiary, ZeroAddress,  \* [Request -> address], address(0)
          BaseTokenOf                \* [Gateway -> Token], pays the bounties

ASSUME BaseTokenAssumption == BaseTokenOf \in [Gateway -> Token]

VARIABLES
    stakeRequests,  \* the hashes of the open requests, for which it is true
    activated,      \* [Gateway -> BOOLEAN]
    remoteGateway   \* [Gateway -> BOOLEAN], whether its address is set

activationVars == <<activated, remoteGateway>>
ofComposer == <<stakeRequests, activationVars>>
composerVars == <<sharedVars, ofComposer>>

ComposerTypeOK ==
    /\ SharedTypeOK
    /\ stakeRequests \subseteq Request
    /\ activated \in [Gateway -> BOOLEAN]
    /\ remoteGateway \in [Gateway -> BOOLEAN]

ComposerInit ==
    /\ SharedInit
    /\ stakeRequests = {}
    /\ activated = [g \in Gateway |-> FALSE]
    /\ remoteGateway = [g \in Gateway |-> FALSE]

RequestStake(r) ==
    /\ Beneficiary[r] # ZeroAddress
    /\ MakeRequest(r)
    /\ stakeRequests' = stakeRequests \cup {r}
    /\ UNCHANGED activationVars

\* Mutant: both tokens are approved one after the other, whichever they are.
ApprovedOverriding(g, amount, t) ==
    IF t = BaseTokenOf[g] THEN bounty[g]
    ELSE IF t = TokenOf[g] THEN amount ELSE 0

\* approveTransfers: what the gateway may take from the proxy of each token.
\* When both are one token, its approval is for the sum.
Approved(g, amount, t) ==
    (IF t = TokenOf[g] THEN amount ELSE 0)
        + (IF t = BaseTokenOf[g] THEN bounty[g] ELSE 0)

\* The gateway takes the amount and the bounty from the proxy, as far as the
\* proxy holds them, in balances b, and has approved them.
Takeable(g, p, amount, b) ==
    \A t \in Token :
        LET taken == (IF t = TokenOf[g] THEN amount ELSE 0)
                     + (IF t = BaseTokenOf[g] THEN bounty[g] ELSE 0)
        IN  taken =< Approved(g, amount, t) /\ taken =< b[t][p]

Stake(g, p, amount, b) ==
    balance' = Moved(Moved(b, TokenOf[g], p, g, amount),
                     BaseTokenOf[g], p, Escrows, bounty[g])

\* The balances when the composer and the worker have provided the proxy of
\* the staker with the amount and the bounty.
Provided(r) ==
    LET g == At[r]
        p == proxies[By[r]]
    IN  Moved(Moved(balance, TokenOf[g], Pool, p, Amount[r]),
              BaseTokenOf[g], Worker, p, bounty[g])

\* Every condition of acceptStakeRequest and of the calls it makes, those of
\* EIP20Gateway.stake included: where they hold, it does not revert.
Acceptable(r) ==
    LET g == At[r]
        p == proxies[By[r]]
    IN  /\ p # 0
        /\ r \in stakeRequests
        /\ Funded(TokenOf[g], Pool, Amount[r])
        /\ Funded(BaseTokenOf[g], Worker, bounty[g])
        /\ Takeable(g, p, Amount[r], Provided(r))
        /\ activated[g]
        /\ Beneficiary[r] # ZeroAddress
        /\ RewardIsCovered(r)
        /\ Idle(g, p, Nonce[r])

AcceptStakeRequest(r) ==
    LET g == At[r]
        p == proxies[By[r]]
    IN  /\ Acceptable(r)
        /\ Forget(r)
        /\ stakeRequests' = stakeRequests \ {r}
        /\ Stake(g, p, Amount[r], Provided(r))
        /\ OpenProcess(r, p)
        /\ UNCHANGED <<proxies, owners, destroyed, bounty, activationVars>>

\* revokeStakeRequest by the staker and rejectStakeRequest by a worker.
RemoveStakeRequest(r) ==
    /\ r \in stakeRequests
    /\ RemoveRequest(r)
    /\ stakeRequests' = stakeRequests \ {r}
    /\ UNCHANGED activationVars

\* External: the organization of a gateway activates it, once.
ActivateGateway(g) ==
    /\ ~remoteGateway[g]
    /\ remoteGateway' = [remoteGateway EXCEPT ![g] = TRUE]
    /\ activated' = [activated EXCEPT ![g] = TRUE]
    /\ UNCHANGED <<sharedVars, stakeRequests>>

\* External: it deactivates it, for good.
DeactivateGateway(g) ==
    /\ activated[g]
    /\ activated' = [activated EXCEPT ![g] = FALSE]
    /\ UNCHANGED <<sharedVars, stakeRequests, remoteGateway>>

ComposerNext ==
    \/ \E r \in Request :
         RequestStake(r) \/ AcceptStakeRequest(r) \/ RemoveStakeRequest(r)
    \/ \E g \in Gateway : ActivateGateway(g) \/ DeactivateGateway(g)
    \/ SharedNext /\ UNCHANGED ofComposer

ComposerSpec == ComposerInit /\ [][ComposerNext]_composerVars

-----------------------------------------------------------------------------
\* The two mappings that record a request never disagree: a request whose hash
\* is kept for its staker and gateway can be accepted and removed, and none
\* can be accepted or paid back again once its staker may make another one.
MappingsAgree ==
    stakeRequests = {r \in Request : Open(r)}

\* A worker who has the bounty can accept a request for the next nonce of the
\* staker's proxy as soon as its previous stake is completed, also when the
\* bounty is to be paid in the staked token (approveTransfers): the staked
\* amount is there, and the proxy holds and approves all that is taken.  The
\* gateway must be active and the amount more than the maximum reward, neither
\* of which requestStake checks: a request that misses one of them is stored,
\* and can only be revoked or rejected.
AcceptableWhenIdle ==
    \A r \in stakeRequests :
        LET g == At[r] p == proxies[By[r]]
        IN  /\ p # 0
            /\ activated[g]
            /\ RewardIsCovered(r)
            /\ Idle(g, p, Nonce[r])
            /\ Funded(BaseTokenOf[g], Worker, bounty[g])
            => Acceptable(r)
=============================================================================
