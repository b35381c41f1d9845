---------------------------- MODULE ProxyRequests ----------------------------
(***************************************************************************)
(* What OSTComposer and RedeemPool have in common: users ask a pool        *)
(* contract to stake or redeem for them and pay it the amount, a worker    *)
(* accepts the request, and the pool sends it to the gateway through a     *)
(* proxy contract that it deploys for the user, so that each user has      *)
(* nonces and processes of his own at every gateway.                       *)
(*                                                                         *)
(* A request stands for its hash, which commits to the user, the gateway,  *)
(* the amount, the beneficiary, the gas price, the gas limit and the       *)
(* nonce.  Proxies are numbered in the order of their deployment and 0 is  *)
(* address(0).  The bounties that the gateways hold are on an account of   *)
(* their own, Escrows, so that what they hold for themselves is what was   *)
(* staked or redeemed.  A user's and a worker's balance is what he has and *)
(* lets the pool contract transfer.                                        *)
(***************************************************************************)
EXTENDS Naturals, Sequences, FiniteSets, Functions

CONSTANTS User, Worker, Pool, Gateway, Escrows, Request, NoRequest, Token,
          By, At, Nonce, Amount,   \* [Request -> ...], what the hash commits to
          MaxReward,               \* [Request -> Nat], its gas price * gas limit
          TokenOf,                 \* [Gateway -> Token], what is staked there
          Bounties,                \* the bounties a gateway can ask for
          InitialBalance,          \* [Token -> [User \cup {Worker} -> Nat]]
          MaxProxies               \* bound on the proxies deployed

\* A request hash has 32 bytes and commits to addresses and amounts.
ASSUME RequestAssumption ==
    /\ IsFiniteSet(Request)
    /\ NoRequest \notin Request
    /\ By \in [Request -> User]
    /\ At \in [Request -> Gateway]
    /\ Nonce \in [Request -> Nat]
    /\ Amount \in [Request -> Nat]
    /\ MaxReward \in [Request -> Nat]
    /\ TokenOf \in [Gateway -> Token]
    /\ Bounties \subseteq Nat
    /\ InitialBalance \in [Token -> [User \cup {Worker} -> Nat]]
    /\ MaxProxies \in Nat

VARIABLES
    requestHashes,  \* [User -> [Gateway -> Request or NoRequest]]
    proxies,        \* [User -> Nat], his proxy
    owners,         \* the users the proxies were deployed for, in order
    destroyed,      \* the proxies that were destroyed
    nonces,         \* getNonce of each gateway for each proxy
    processes,      \* [Gateway -> set of the proxies with an open process]
    bounty,         \* [Gateway -> Nat]
    balance         \* [Token -> [account -> Nat]]

requestVars == <<requestHashes, proxies, owners, destroyed>>
gatewayVars == <<nonces, processes, bounty>>
sharedVars == <<requestVars, gatewayVars, balance>>

Proxy == 1 .. MaxProxies
Account == User \cup {Worker, Pool, Escrows} \cup Gateway \cup Proxy

\* Users and workers call the contracts from addresses of their own.
ASSUME AccountAssumption ==
    /\ Pool \notin User \cup {Worker, Escrows} \cup Gateway \cup Proxy
    /\ Worker \notin User \cup Gateway \cup Proxy
    /\ Escrows \notin User \cup {Worker} \cup Gateway \cup Proxy
    /\ User \cap Gateway = {}
    /\ User \cap Proxy = {}
    /\ Gateway \cap Proxy = {}

SharedTypeOK ==
    /\ requestHashes \in [User -> [Gateway -> Request \cup {NoRequest}]]
    /\ proxies \in [User -> 0 .. MaxProxies]
    /\ owners \in Seq(User) /\ Len(owners) =< MaxProxies
    /\ destroyed \subseteq DOMAIN owners
    /\ nonces \in [Gateway -> [Proxy -> Nat]]
    /\ processes \in [Gateway -> SUBSET Proxy]
    /\ bounty \in [Gateway -> Bounties]
    /\ balance \in [Token -> [Account -> Nat]]

SharedInit ==
    /\ requestHashes = [u \in User |-> [g \in Gateway |-> NoRequest]]
    /\ proxies = [u \in User |-> 0]
    /\ owners = <<>>
    /\ destroyed = {}
    /\ nonces = [g \in Gateway |-> [p \in Proxy |-> 0]]
    /\ processes = [g \in Gateway |-> {}]
    /\ bounty \in [Gateway -> Bounties]
    /\ balance = [t \in Token |-> [a \in Account |->
                     IF a \in User \cup {Worker} THEN InitialBalance[t][a] ELSE 0]]

\* The balances after a transfer of n tokens, also one to the sender himself.
Moved(b, t, from, to, n) ==
    LET paid == [b EXCEPT ![t][from] = @ - n]
    IN  [paid EXCEPT ![t][to] = @ + n]

Open(r) == requestHashes[By[r]][At[r]] = r

\* The proxy a request of the user is for: his own, or one that is deployed.
ProxyFor(u) == IF proxies[u] = 0 THEN Len(owners) + 1 ELSE proxies[u]

\* Mutant: a request replaces one that is open.
NoneOpenOrReplaced(u, g) == TRUE

NoneOpen(u, g) == requestHashes[u][g] = NoRequest

\* The transfer of n tokens does not revert.
Funded(t, a, n) == balance[t][a] >= n

\* requestStake and requestRedeem: one request per user and gateway.
MakeRequest(r) ==
    LET u == By[r]
        g == At[r]
        p == ProxyFor(u)
    IN  /\ Amount[r] > 0
        /\ NoneOpen(u, g)
        /\ p =< MaxProxies
        /\ nonces[g][p] = Nonce[r]
        /\ Funded(TokenOf[g], u, Amount[r])
        /\ requestHashes' = [requestHashes EXCEPT ![u][g] = r]
        /\ proxies' = [proxies EXCEPT ![u] = p]
        /\ owners' = IF proxies[u] = 0 THEN Append(owners, u) ELSE owners
        /\ balance' = Moved(balance, TokenOf[g], u, Pool, Amount[r])
        /\ UNCHANGED <<destroyed, gatewayVars>>

\* Mutant: the hash stays where it was.
ForgetKeeping(r) == UNCHANGED requestHashes

Forget(r) == requestHashes' = [requestHashes EXCEPT ![By[r]][At[r]] = NoRequest]

\* The gateway takes a process of the proxy with the next nonce when the
\* previous one is completed.
Idle(g, p, nonce) == nonces[g][p] = nonce /\ p \notin processes[g]

\* The gateway takes only what is more than the facilitator's reward can be.
\* A product that overflows, which reverts, is more than any amount, too.
RewardIsCovered(r) == Amount[r] > MaxReward[r]

\* What the gateway does with a stake or redeem that the proxy asks for.
OpenProcess(r, p) ==
    LET g == At[r]
    IN  /\ RewardIsCovered(r)
        /\ Idle(g, p, Nonce[r])
        /\ nonces' = [nonces EXCEPT ![g][p] = @ + 1]
        /\ processes' = [processes EXCEPT ![g] = @ \cup {p}]

\* Mutant: the request is forgotten and not paid back.
RemoveRequestUnpaid(r) ==
    /\ Forget(r)
    /\ UNCHANGED <<proxies, owners, destroyed, gatewayVars, balance>>

\* revoke and reject: the request is removed and the user paid back.
RemoveRequest(r) ==
    /\ Forget(r)
    /\ Funded(TokenOf[At[r]], Pool, Amount[r])
    /\ balance' = Moved(balance, TokenOf[At[r]], Pool, By[r], Amount[r])
    /\ UNCHANGED <<proxies, owners, destroyed, gatewayVars>>

\* The user gives up his proxy, whatever it has under way.
DestructProxy(u) ==
    /\ proxies[u] # 0
    /\ proxies' = [proxies EXCEPT ![u] = 0]
    /\ destroyed' = destroyed \cup {proxies[u]}
    /\ UNCHANGED <<requestHashes, owners, gatewayVars, balance>>

\* The owner of a proxy has it transfer tokens it holds.
TransferToken(p, t, to) ==
    /\ p \in DOMAIN owners \ destroyed
    /\ Funded(t, p, 1)
    /\ balance' = Moved(balance, t, p, to, 1)
    /\ UNCHANGED <<requestVars, gatewayVars>>

\* External: somebody transfers a token to a proxy, which any account can.
Donate(u, t, p) ==
    /\ p \in DOMAIN owners
    /\ Funded(t, u, 1)
    /\ balance' = Moved(balance, t, u, p, 1)
    /\ UNCHANGED <<requestVars, gatewayVars>>

\* External: the transfer that a proxy declared is progressed at its gateway.
\* Proxies have no function that would revert one.
CompleteProcess(g, p) ==
    /\ p \in processes[g]
    /\ processes' = [processes EXCEPT ![g] = @ \ {p}]
    /\ UNCHANGED <<requestVars, nonces, bounty, balance>>

\* External: the organization of a gateway changes its bounty.
ChangeBounty(g, b) ==
    /\ bounty' = [bounty EXCEPT ![g] = b]
    /\ UNCHANGED <<requestVars, nonces, processes, balance>>

SharedNext ==
    \/ \E u \in User : DestructProxy(u)
    \/ \E p \in Proxy, t \in Token, to \in User : TransferToken(p, t, to)
    \/ \E u \in User, t \in Token, p \in Proxy : Donate(u, t, p)
    \/ \E g \in Gateway :
         \/ \E p \in Proxy : CompleteProcess(g, p)
         \/ \E b \in Bounties : ChangeBounty(g, b)
-----------------------------------------------------------------------------
\* What the pool holds of each token is what the open requests for all gateways
\* of that token may claim, so each can be revoked at any time, also after its
\* user has destroyed his proxy, and none can be paid out a second time (accept,
\* revoke and reject race for a request; the redeem pool records only its hash).
Escrow ==
    \A t \in Token :
        balance[t][Pool] = SumFunctionOnSet(Amount,
                              {r \in Request : Open(r) /\ TokenOf[At[r]] = t})

\* The nonce that a request was checked against stays the next one of its proxy
\* while the request is open, whatever is requested, accepted or completed at
\* this gateway or the others: only a new proxy makes a request obsolete.
NonceKeptWhileOpen ==
    [][\A r \in Request :
          LET u == By[r] g == At[r] p == proxies[u]
          IN  Open(r) /\ Open(r)' /\ p # 0 /\ proxies'[u] = p
              => nonces'[g][p] = nonces[g][p]]_sharedVars

\* The composer and the redeem pool keep the promise of Requests.
R == INSTANCE Requests WITH
        open <- {r \in Request : Open(r)},
        wallet <- [u \in User |-> [t \in Token |-> balance[t][u]]],
        placed <- [g \in Gateway |-> balance[TokenOf[g]][g]]
ImplementsRequests == R!Spec
=============================================================================
