---------------------------- MODULE RequestProofs ----------------------------
(***************************************************************************)
(* The requests that the composer and the redeem pool make through         *)
(* proxies, for any users, requests, gateways, tokens and balances.        *)
(*                                                                         *)
(* Both contracts take the same four kinds of steps: a request is made,    *)
(* accepted or removed, or something happens that no open request takes    *)
(* part in.  StepKind says so once; everything else is proved of the       *)
(* kinds.  The invariant ProxyInv adds to the properties that a proxy is   *)
(* recorded for the user it was deployed for, so that two users never      *)
(* share one.                                                              *)
(***************************************************************************)
EXTENDS ProxyContracts, SumTheorems

\* The requests for all gateways of a token, and for all gateways.
OpenRequests == {r \in Request : Open(r)}
OpenFor(t) == {r \in Request : Open(r) /\ TokenOf[At[r]] = t}

ProxiesAreOwned ==
    \A u \in User :
        proxies[u] # 0 => /\ proxies[u] \in DOMAIN owners
                          /\ owners[proxies[u]] = u

\* The redeem pool has no mapping of this name.
OnlyComposerStakes == contract # "composer" => stakeRequests = {}

\* What requestStake checks is no longer in doubt for gateway.stake.
BeneficiariesAreSet == \A r \in stakeRequests : Beneficiary[r] # ZeroAddress

ProxyInv ==
    /\ ComposerTypeOK
    /\ SharedTypeOK
    /\ stakeRequests \subseteq Request
    /\ BeneficiariesAreSet
    /\ ProxiesAreOwned
    /\ Escrow
    /\ ComposerMappingsAgree
    /\ OnlyComposerStakes

-----------------------------------------------------------------------------
\* The sender loses what the receiver gets, also if they are the same.
Transferred(b, c, t, from, to, n) ==
    /\ c \in [Token -> [Account -> Int]]
    /\ \A s \in Token, a \in Account :
          c[s][a] = b[s][a] + (IF s = t /\ a = to THEN n ELSE 0)
                            - (IF s = t /\ a = from THEN n ELSE 0)

LEMMA MovedBalances ==
    ASSUME NEW b \in [Token -> [Account -> Int]], NEW t \in Token,
           NEW from \in Account, NEW to \in Account, NEW n \in Int
    PROVE  Transferred(b, Moved(b, t, from, to, n), t, from, to, n)
<1>. DEFINE c == Moved(b, t, from, to, n)
<1>. DEFINE d == [b EXCEPT ![t][from] = @ - n]
<1>1. /\ d \in [Token -> [Account -> Int]]
      /\ \A s \in Token, a \in Account :
            d[s][a] = b[s][a] - (IF s = t /\ a = from THEN n ELSE 0)
  OBVIOUS
<1>2. c = [d EXCEPT ![t][to] = d[t][to] + n]
  BY DEF Moved, d
<1>. HIDE DEF c, d
<1>3. d[t][to] \in Int
  BY <1>1
<1>4. /\ c \in [Token -> [Account -> Int]]
      /\ \A s \in Token, a \in Account :
            c[s][a] = d[s][a] + (IF s = t /\ a = to THEN n ELSE 0)
  BY <1>1, <1>2, <1>3
<1>5. ASSUME NEW s \in Token, NEW a \in Account
      PROVE  c[s][a] = b[s][a] + (IF s = t /\ a = to THEN n ELSE 0)
                               - (IF s = t /\ a = from THEN n ELSE 0)
  <2>1. b[s][a] \in Int /\ d[s][a] \in Int
    BY <1>1
  <2>2. /\ d[s][a] = b[s][a] - (IF s = t /\ a = from THEN n ELSE 0)
        /\ c[s][a] = d[s][a] + (IF s = t /\ a = to THEN n ELSE 0)
    BY <1>1, <1>4
  <2>. QED
    BY <2>1, <2>2
<1>. QED
  BY <1>4, <1>5 DEF Transferred, c

\* The balances of the pool and the others are integers, too.
LEMMA BalancesAreInts ==
    ASSUME SharedTypeOK
    PROVE  balance \in [Token -> [Account -> Int]]
<1>1. /\ DOMAIN balance = Token
      /\ \A t \in Token : balance[t] \in [Account -> Int]
  BY DEF SharedTypeOK
<1>. QED
  BY <1>1 DEF SharedTypeOK

LEMMA BountiesAreNat ==
    ASSUME SharedTypeOK
    PROVE  \A g \in Gateway : bounty[g] \in Nat
<1>1. bounty \in [Gateway -> Bounties]
  BY DEF SharedTypeOK
<1>2. Bounties \subseteq Nat
  BY RequestAssumption
<1>. QED
  BY <1>1, <1>2

\* The accounts that the steps move tokens between are different ones.
LEMMA Accounts ==
    /\ \A r \in Request :
          /\ By[r] \in User /\ At[r] \in Gateway
          /\ Amount[r] \in Nat /\ Nonce[r] \in Nat
          /\ TokenOf[At[r]] \in Token /\ r # NoRequest
    /\ User \subseteq Account /\ Gateway \subseteq Account
    /\ Proxy \subseteq Account /\ {Worker, Pool, Escrows} \subseteq Account
    /\ \A g \in Gateway : TokenOf[g] \in Token
BY RequestAssumption DEF Account

\* A proxy that is recorded for a user is one that was deployed.
LEMMA DeployedProxies ==
    ASSUME SharedTypeOK
    PROVE  /\ DOMAIN owners \subseteq Proxy
           /\ \A u \in User : proxies[u] \in Nat
           /\ ProxiesAreOwned =>
                \A u \in User : proxies[u] # 0 => proxies[u] \in Proxy
BY RequestAssumption DEF SharedTypeOK, ProxiesAreOwned, Proxy

\* The gateway of r takes the amount from the pool, by way of the proxy, and
\* the worker's bounty, in token t, is kept for it.
Accepted(r, t) ==
    LET g == At[r]
        p == proxies[By[r]]
    IN  /\ p # 0
        /\ Open(r)
        /\ Forget(r)
        /\ OpenProcess(r, p)
        /\ Funded(TokenOf[g], Pool, Amount[r])
        /\ Funded(t, Worker, bounty[g])
        /\ balance' \in [Token -> [Account -> Int]]
        /\ \A s \in Token, a \in Account :
              balance'[s][a] = balance[s][a]
                  + (IF s = TokenOf[g] /\ a = g THEN Amount[r] ELSE 0)
                  - (IF s = TokenOf[g] /\ a = Pool THEN Amount[r] ELSE 0)
                  + (IF s = t /\ a = Escrows THEN bounty[g] ELSE 0)
                  - (IF s = t /\ a = Worker THEN bounty[g] ELSE 0)
        /\ UNCHANGED <<proxies, owners, destroyed, bounty>>

\* On the origin chain the proxy is given the amount and the bounty and has
\* the gateway take both.
LEMMA ComposerAccepts ==
    ASSUME ProxyInv, contract = "composer", NEW r \in Request,
           AcceptStakeRequest(r)
    PROVE  /\ Accepted(r, BaseTokenOf[At[r]])
           /\ stakeRequests' = stakeRequests \ {r}
<1>. DEFINE g == At[r]
            p == proxies[By[r]]
            T == TokenOf[g]
            B == BaseTokenOf[g]
            b1 == Moved(balance, T, Pool, p, Amount[r])
            b2 == Moved(b1, B, Worker, p, bounty[g])
            b3 == Moved(b2, T, p, g, Amount[r])
            b4 == Moved(b3, B, p, Escrows, bounty[g])
<1>1. /\ g \in Gateway /\ By[r] \in User /\ T \in Token /\ B \in Token
      /\ Amount[r] \in Int /\ bounty[g] \in Int
      /\ balance \in [Token -> [Account -> Int]]
  <2>1. g \in Gateway /\ By[r] \in User /\ T \in Token /\ Amount[r] \in Int
    BY Accounts
  <2>2. B \in Token
    BY <2>1, BaseTokenAssumption
  <2>3. bounty[g] \in Int
    BY <2>1, BountiesAreNat DEF ProxyInv
  <2>. QED
    BY <2>1, <2>2, <2>3, BalancesAreInts DEF ProxyInv
<1>2. p \in Proxy
  BY <1>1, DeployedProxies DEF AcceptStakeRequest, Acceptable, ProxyInv
<1>3. /\ g \in Account /\ p \in Account /\ Pool \in Account
      /\ Worker \in Account /\ Escrows \in Account
  BY <1>1, <1>2, Accounts
<1>4. balance' = b4
  BY DEF AcceptStakeRequest, Stake, Provided
<1>5. /\ b1 = Moved(balance, T, Pool, p, Amount[r])
      /\ b2 = Moved(b1, B, Worker, p, bounty[g])
      /\ b3 = Moved(b2, T, p, g, Amount[r])
      /\ b4 = Moved(b3, B, p, Escrows, bounty[g])
  OBVIOUS
<1>. HIDE DEF g, p, T, B, b1, b2, b3, b4
<1>6. Transferred(balance, b1, T, Pool, p, Amount[r])
  BY ONLY <1>1, <1>3, <1>5, MovedBalances, Zenon
<1>7. Transferred(b1, b2, B, Worker, p, bounty[g])
  <2>1. b1 \in [Token -> [Account -> Int]]
    BY <1>6 DEF Transferred
  <2>. QED
    BY ONLY <1>1, <1>3, <1>5, <2>1, MovedBalances, Zenon
<1>8. Transferred(b2, b3, T, p, g, Amount[r])
  <2>1. b2 \in [Token -> [Account -> Int]]
    BY <1>7 DEF Transferred
  <2>. QED
    BY ONLY <1>1, <1>3, <1>5, <2>1, MovedBalances, Zenon
<1>9. Transferred(b3, b4, B, p, Escrows, bounty[g])
  <2>1. b3 \in [Token -> [Account -> Int]]
    BY <1>8 DEF Transferred
  <2>. QED
    BY ONLY <1>1, <1>3, <1>5, <2>1, MovedBalances, Zenon
<1>. USE DEF Transferred
<1>10. ASSUME NEW s \in Token, NEW a \in Account
       PROVE  b4[s][a] = balance[s][a]
                   + (IF s = T /\ a = g THEN Amount[r] ELSE 0)
                   - (IF s = T /\ a = Pool THEN Amount[r] ELSE 0)
                   + (IF s = B /\ a = Escrows THEN bounty[g] ELSE 0)
                   - (IF s = B /\ a = Worker THEN bounty[g] ELSE 0)
  <2>1. /\ balance[s][a] \in Int /\ b1[s][a] \in Int
        /\ b2[s][a] \in Int /\ b3[s][a] \in Int
    BY ONLY <1>1, <1>6, <1>7, <1>8, <1>10
  <2>. QED
    BY ONLY <1>1, <1>6, <1>7, <1>8, <1>9, <1>10, <2>1
<1>11. Open(r)
  BY DEF AcceptStakeRequest, Acceptable, ProxyInv, ComposerMappingsAgree,
         MappingsAgree
<1>. QED
  BY <1>4, <1>9, <1>10, <1>11
     DEF AcceptStakeRequest, Acceptable, Accepted, g, p, T, B

\* On the auxiliary chain the coins go straight to the co-gateway.
LEMMA PoolAccepts ==
    ASSUME ProxyInv, NEW r \in Request, NEW value \in Bounties,
           AcceptRedeemRequest(r, value)
    PROVE  Accepted(r, Coin)
<1>. DEFINE g == At[r]
            T == TokenOf[g]
            b1 == Moved(balance, Coin, Worker, Escrows, value)
            b2 == Moved(b1, T, Pool, g, Amount[r])
<1>1. /\ g \in Gateway /\ T \in Token /\ Coin \in Token
      /\ Amount[r] \in Int /\ value \in Int
      /\ g \in Account /\ Pool \in Account
      /\ Worker \in Account /\ Escrows \in Account
      /\ balance \in [Token -> [Account -> Int]]
  BY Accounts, RequestAssumption, CoinAssumption, BalancesAreInts DEF ProxyInv
<1>2. balance' = b2 /\ value = bounty[g]
  BY DEF AcceptRedeemRequest
<1>3. /\ b1 = Moved(balance, Coin, Worker, Escrows, value)
      /\ b2 = Moved(b1, T, Pool, g, Amount[r])
  OBVIOUS
<1>. HIDE DEF g, T, b1, b2
<1>4. Transferred(balance, b1, Coin, Worker, Escrows, value)
  BY ONLY <1>1, <1>3, MovedBalances, Zenon
<1>5. Transferred(b1, b2, T, Pool, g, Amount[r])
  <2>1. b1 \in [Token -> [Account -> Int]]
    BY <1>4 DEF Transferred
  <2>. QED
    BY ONLY <1>1, <1>3, <2>1, MovedBalances, Zenon
<1>. USE DEF Transferred
<1>6. ASSUME NEW s \in Token, NEW a \in Account
      PROVE  b2[s][a] = balance[s][a]
                  + (IF s = T /\ a = g THEN Amount[r] ELSE 0)
                  - (IF s = T /\ a = Pool THEN Amount[r] ELSE 0)
                  + (IF s = Coin /\ a = Escrows THEN value ELSE 0)
                  - (IF s = Coin /\ a = Worker THEN value ELSE 0)
  <2>1. balance[s][a] \in Int /\ b1[s][a] \in Int
    BY ONLY <1>1, <1>4, <1>6
  <2>. QED
    BY ONLY <1>1, <1>4, <1>5, <1>6, <2>1
<1>. QED
  BY <1>2, <1>5, <1>6 DEF AcceptRedeemRequest, Accepted, g, T

\* A step is of its contract, and activation of the composer's gateways alone.
LEMMA ActivationStep ==
    ASSUME ProxyInv, [Next]_vars
    PROVE  /\ activated' \in [Gateway -> BOOLEAN]
           /\ remoteGateway' \in [Gateway -> BOOLEAN]
<1>1. /\ activated \in [Gateway -> BOOLEAN]
      /\ remoteGateway \in [Gateway -> BOOLEAN]
  BY DEF ProxyInv, ComposerTypeOK
<1>2. \/ UNCHANGED activationVars
      \/ \E g \in Gateway : ActivateGateway(g) \/ DeactivateGateway(g)
  BY DEF Next, vars, composerVars, ofComposer, ComposerNext, RequestStake,
         AcceptStakeRequest, RemoveStakeRequest
<1>3. CASE UNCHANGED activationVars
  BY <1>1, <1>3 DEF activationVars
<1>4. ASSUME NEW g \in Gateway, ActivateGateway(g)
      PROVE  /\ activated' \in [Gateway -> BOOLEAN]
             /\ remoteGateway' \in [Gateway -> BOOLEAN]
  BY <1>1, <1>4 DEF ActivateGateway
<1>5. ASSUME NEW g \in Gateway, DeactivateGateway(g)
      PROVE  /\ activated' \in [Gateway -> BOOLEAN]
             /\ remoteGateway' \in [Gateway -> BOOLEAN]
  BY <1>1, <1>5 DEF DeactivateGateway
<1>. QED
  BY <1>2, <1>3, <1>4, <1>5

\* Every step of either contract is of one of these kinds.
LEMMA StepKind ==
    ASSUME ProxyInv, [Next]_vars
    PROVE  /\ contract' = contract
           /\ \/ \E r \in Request :
                   /\ MakeRequest(r)
                   /\ contract = "composer" =>
                        stakeRequests' = stakeRequests \cup {r}
              \/ \E r \in Request, t \in Token :
                   /\ Accepted(r, t)
                   /\ contract = "composer" => stakeRequests' = stakeRequests \ {r}
              \/ \E r \in Request :
                   /\ Open(r) /\ RemoveRequest(r)
                   /\ contract = "composer" => stakeRequests' = stakeRequests \ {r}
              \/ SharedNext /\ UNCHANGED stakeRequests
              \/ UNCHANGED <<sharedVars, stakeRequests>>
           /\ stakeRequests' \subseteq Request
           /\ contract # "composer" => UNCHANGED stakeRequests
           /\ \A r \in stakeRequests' \ stakeRequests :
                 Beneficiary[r] # ZeroAddress
<1>1. CASE contract = "composer" /\ ComposerNext /\ UNCHANGED contract
  <2>1. ASSUME NEW r \in Request, RequestStake(r)
        PROVE  /\ MakeRequest(r) /\ stakeRequests' = stakeRequests \cup {r}
               /\ Beneficiary[r] # ZeroAddress
    BY <2>1 DEF RequestStake
  <2>2. ASSUME NEW r \in Request, AcceptStakeRequest(r)
        PROVE  \E t \in Token : /\ Accepted(r, t)
                                /\ stakeRequests' = stakeRequests \ {r}
    <3>1. BaseTokenOf[At[r]] \in Token
      BY Accounts, BaseTokenAssumption
    <3>. QED
      BY <1>1, <2>2, <3>1, ComposerAccepts
  <2>3. ASSUME NEW r \in Request, RemoveStakeRequest(r)
        PROVE  /\ Open(r) /\ RemoveRequest(r)
               /\ stakeRequests' = stakeRequests \ {r}
    BY <1>1, <2>3
       DEF RemoveStakeRequest, ProxyInv, ComposerMappingsAgree, MappingsAgree
  <2>4. ASSUME NEW g \in Gateway, ActivateGateway(g) \/ DeactivateGateway(g)
        PROVE  UNCHANGED <<sharedVars, stakeRequests>>
    BY <2>4 DEF ActivateGateway, DeactivateGateway
  <2>. QED
    BY <1>1, <2>1, <2>2, <2>3, <2>4 DEF ComposerNext, ofComposer, ProxyInv
<1>2. CASE /\ contract = "pool" /\ PoolNext
           /\ UNCHANGED <<ofComposer, contract>>
  <2>1. ASSUME NEW r \in Request, RequestRedeem(r) PROVE MakeRequest(r)
    BY <2>1 DEF RequestRedeem
  <2>2. ASSUME NEW r \in Request, NEW value \in Bounties,
               AcceptRedeemRequest(r, value)
        PROVE  \E t \in Token : Accepted(r, t)
    BY <2>2, PoolAccepts, CoinAssumption
  <2>3. ASSUME NEW r \in Request, RemoveRedeemRequest(r)
        PROVE  Open(r) /\ RemoveRequest(r)
    BY <2>3 DEF RemoveRedeemRequest
  <2>. QED
    BY <1>2, <2>1, <2>2, <2>3 DEF PoolNext, ofComposer, ProxyInv
<1>3. CASE UNCHANGED vars
  BY <1>3 DEF vars, composerVars, ofComposer, ProxyInv
<1>. QED
  BY <1>1, <1>2, <1>3 DEF Next

-----------------------------------------------------------------------------
\* A request that is made is open besides the others, and one that is
\* forgotten no longer is: no two have the same user and gateway.
LEMMA OpenGrows ==
    ASSUME SharedTypeOK, NEW r \in Request, MakeRequest(r)
    PROVE  /\ ~Open(r)
           /\ \A k \in Request : Open(k)' <=> Open(k) \/ k = r
<1>1. /\ By[r] \in User /\ At[r] \in Gateway /\ r # NoRequest
      /\ \A k \in Request : By[k] \in User /\ At[k] \in Gateway
                            /\ k # NoRequest
  BY Accounts
<1>2. /\ requestHashes' = [requestHashes EXCEPT ![By[r]][At[r]] = r]
      /\ requestHashes[By[r]][At[r]] = NoRequest
      /\ requestHashes \in [User -> [Gateway -> Request \cup {NoRequest}]]
  BY DEF MakeRequest, NoneOpen, SharedTypeOK
<1>. QED
  BY <1>1, <1>2 DEF Open

LEMMA OpenShrinks ==
    ASSUME SharedTypeOK, NEW r \in Request, Open(r), Forget(r)
    PROVE  \A k \in Request : Open(k)' <=> Open(k) /\ k # r
<1>1. /\ By[r] \in User /\ At[r] \in Gateway /\ r # NoRequest
      /\ \A k \in Request : By[k] \in User /\ At[k] \in Gateway
                            /\ k # NoRequest
  BY Accounts
<1>2. /\ requestHashes' = [requestHashes EXCEPT ![By[r]][At[r]] = NoRequest]
      /\ requestHashes[By[r]][At[r]] = r
      /\ requestHashes \in [User -> [Gateway -> Request \cup {NoRequest}]]
  BY DEF Forget, Open, SharedTypeOK
<1>. QED
  BY <1>1, <1>2 DEF Open

\* The sums of Escrow are over finite sets of natural numbers.
LEMMA EscrowSums ==
    \A t \in Token : /\ IsFiniteSet(OpenFor(t))
                     /\ \A r \in OpenFor(t) : Amount[r] \in Int
                     /\ SumFunctionOnSet(Amount, OpenFor(t)) \in Int
<1>. SUFFICES ASSUME NEW t \in Token
              PROVE  /\ IsFiniteSet(OpenFor(t))
                     /\ \A r \in OpenFor(t) : Amount[r] \in Int
                     /\ SumFunctionOnSet(Amount, OpenFor(t)) \in Int
  OBVIOUS
<1>1. IsFiniteSet(OpenFor(t))
  BY RequestAssumption, FS_Subset DEF OpenFor
<1>2. \A r \in OpenFor(t) : Amount[r] \in Int
  BY Accounts DEF OpenFor
<1>. QED
  BY <1>1, <1>2, SumInt

\* The pool gets the amount of a new request and no other one changes.
LEMMA EscrowGrows ==
    ASSUME Escrow, NEW r \in Request, ~Open(r),
           \A k \in Request : Open(k)' <=> Open(k) \/ k = r,
           \A t \in Token :
              balance'[t][Pool] = balance[t][Pool]
                  + (IF t = TokenOf[At[r]] THEN Amount[r] ELSE 0)
    PROVE  Escrow'
<1>. SUFFICES ASSUME NEW t \in Token
              PROVE  balance'[t][Pool]
                       = SumFunctionOnSet(Amount, OpenFor(t)')
  BY DEF Escrow, OpenFor
<1>1. /\ balance[t][Pool] = SumFunctionOnSet(Amount, OpenFor(t))
      /\ SumFunctionOnSet(Amount, OpenFor(t)) \in Int
  BY EscrowSums DEF Escrow, OpenFor
<1>2. CASE t = TokenOf[At[r]]
  <2>1. OpenFor(t)' = OpenFor(t) \cup {r} /\ r \notin OpenFor(t)
    BY <1>2 DEF OpenFor
  <2>2. /\ IsFiniteSet(OpenFor(t))
        /\ \A k \in OpenFor(t) \cup {r} : Amount[k] \in Int
    BY EscrowSums, Accounts
  <2>3. SumFunctionOnSet(Amount, OpenFor(t) \cup {r})
          = SumFunctionOnSet(Amount, OpenFor(t)) + Amount[r]
    BY ONLY <2>1, <2>2, SumAdd
  <2>. QED
    BY <1>1, <1>2, <2>1, <2>3
<1>3. CASE t # TokenOf[At[r]]
  <2>1. OpenFor(t)' = OpenFor(t)
    BY <1>3 DEF OpenFor
  <2>. QED
    BY <1>1, <1>3, <2>1
<1>. QED
  BY <1>2, <1>3

\* The pool loses the amount of a request that is over and no other one's.
LEMMA EscrowShrinks ==
    ASSUME Escrow, NEW r \in Request, Open(r),
           \A k \in Request : Open(k)' <=> Open(k) /\ k # r,
           \A t \in Token :
              balance'[t][Pool] = balance[t][Pool]
                  - (IF t = TokenOf[At[r]] THEN Amount[r] ELSE 0)
    PROVE  Escrow'
<1>. SUFFICES ASSUME NEW t \in Token
              PROVE  balance'[t][Pool]
                       = SumFunctionOnSet(Amount, OpenFor(t)')
  BY DEF Escrow, OpenFor
<1>1. /\ balance[t][Pool] = SumFunctionOnSet(Amount, OpenFor(t))
      /\ SumFunctionOnSet(Amount, OpenFor(t)) \in Int
  BY EscrowSums DEF Escrow, OpenFor
<1>2. CASE t = TokenOf[At[r]]
  <2>1. OpenFor(t)' = OpenFor(t) \ {r} /\ r \in OpenFor(t)
    BY <1>2 DEF OpenFor
  <2>2. SumFunctionOnSet(Amount, OpenFor(t))
          = Amount[r] + SumFunctionOnSet(Amount, OpenFor(t) \ {r})
    BY <2>1, EscrowSums, SumRemove
  <2>3. /\ Amount[r] \in Int
        /\ SumFunctionOnSet(Amount, OpenFor(t) \ {r}) \in Int
    BY <2>1, EscrowSums, FS_Subset, SumInt
  <2>. QED
    BY <1>1, <1>2, <2>1, <2>2, <2>3
<1>3. CASE t # TokenOf[At[r]]
  <2>1. OpenFor(t)' = OpenFor(t)
    BY <1>3 DEF OpenFor
  <2>. QED
    BY <1>1, <1>3, <2>1
<1>. QED
  BY <1>2, <1>3

-----------------------------------------------------------------------------
\* A transfer that the sender's balance covers.
LEMMA CoveredTransfer ==
    ASSUME SharedTypeOK, NEW t \in Token, NEW from \in Account,
           NEW to \in Account, NEW n \in Nat, Funded(t, from, n),
           balance' = Moved(balance, t, from, to, n)
    PROVE  /\ balance' \in [Token -> [Account -> Nat]]
           /\ Transferred(balance, balance', t, from, to, n)
<1>1. Transferred(balance, balance', t, from, to, n)
  BY BalancesAreInts, MovedBalances, n \in Int, Zenon
<1>2. \A s \in Token, a \in Account : balance[s][a] \in Nat
  BY DEF SharedTypeOK
<1>3. ASSUME NEW s \in Token, NEW a \in Account
      PROVE  balance'[s][a] \in Nat
  BY <1>1, <1>2 DEF Transferred, Funded
<1>4. \A s \in Token : balance'[s] \in [Account -> Int]
  BY <1>1 DEF Transferred
<1>5. \A s \in Token : balance'[s] \in [Account -> Nat]
  BY <1>3, <1>4
<1>. QED
  BY <1>1, <1>5 DEF Transferred

\* The kinds of steps keep the invariant: a request is made.
LEMMA MakeKeeps ==
    ASSUME ProxyInv, NEW r \in Request, MakeRequest(r)
    PROVE  /\ SharedTypeOK'
           /\ ProxiesAreOwned'
           /\ Escrow'
<1>. DEFINE u == By[r]
            g == At[r]
            p == ProxyFor(u)
<1>1. /\ u \in User /\ g \in Gateway /\ TokenOf[g] \in Token
      /\ Amount[r] \in Nat /\ u \in Account /\ Pool \in Account
      /\ u # Pool
  BY Accounts, AccountAssumption
<1>2. /\ balance' \in [Token -> [Account -> Nat]]
      /\ Transferred(balance, balance', TokenOf[g], u, Pool, Amount[r])
  BY <1>1, CoveredTransfer DEF MakeRequest, ProxyInv
<1>3. Escrow'
  <2>1. ASSUME NEW t \in Token
        PROVE  balance'[t][Pool] = balance[t][Pool]
                  + (IF t = TokenOf[g] THEN Amount[r] ELSE 0)
    <3>1. balance[t][Pool] \in Int
      BY <1>1, BalancesAreInts DEF ProxyInv
    <3>. QED
      BY <1>1, <1>2, <3>1 DEF Transferred
  <2>. QED
    BY <2>1, OpenGrows, EscrowGrows DEF ProxyInv
<1>4. /\ owners \in Seq(User) /\ Len(owners) \in Nat
      /\ DOMAIN owners = 1 .. Len(owners)
      /\ Len(owners) <= MaxProxies
      /\ proxies \in [User -> 0 .. MaxProxies] /\ MaxProxies \in Nat
  BY RequestAssumption DEF ProxyInv, SharedTypeOK
<1>5. ASSUME proxies[u] = 0
      PROVE  /\ owners' \in Seq(User) /\ Len(owners') <= MaxProxies
             /\ destroyed' \subseteq DOMAIN owners'
             /\ proxies' \in [User -> 0 .. MaxProxies]
             /\ ProxiesAreOwned'
  <2>1. /\ owners' = Append(owners, u)
        /\ proxies' = [proxies EXCEPT ![u] = Len(owners) + 1]
        /\ Len(owners) + 1 <= MaxProxies
    BY <1>5 DEF MakeRequest, ProxyFor
  <2>2. /\ owners' \in Seq(User) /\ Len(owners') = Len(owners) + 1
        /\ DOMAIN owners' = 1 .. (Len(owners) + 1)
        /\ \A i \in DOMAIN owners : owners'[i] = owners[i]
        /\ owners'[Len(owners) + 1] = u
    BY <1>1, <1>4, <2>1
  <2>3. proxies' \in [User -> 0 .. MaxProxies]
    <3>1. Len(owners) + 1 \in 0 .. MaxProxies
      BY ONLY <1>4, <2>1
    <3>. QED
      BY ONLY <1>1, <1>4, <2>1, <3>1
  <2>4. ProxiesAreOwned'
    <3>. SUFFICES ASSUME NEW v \in User, proxies'[v] # 0
                  PROVE  /\ proxies'[v] \in DOMAIN owners'
                         /\ owners'[proxies'[v]] = v
      BY DEF ProxiesAreOwned
    <3>1. CASE v = u
      BY <1>1, <1>4, <2>1, <2>2, <3>1
    <3>2. CASE v # u
      <4>1. proxies'[v] = proxies[v]
        BY <1>4, <2>1, <3>2
      <4>2. proxies[v] \in DOMAIN owners /\ owners[proxies[v]] = v
        BY <4>1 DEF ProxyInv, ProxiesAreOwned
      <4>. QED
        BY <1>4, <2>2, <4>1, <4>2
    <3>. QED
      BY <3>1, <3>2
  <2>5. DOMAIN owners \subseteq DOMAIN owners'
    BY <1>4, <2>2
  <2>6. destroyed' \subseteq DOMAIN owners'
    BY <2>5 DEF MakeRequest, ProxyInv, SharedTypeOK
  <2>7. Len(owners') <= MaxProxies
    BY <2>1, <2>2
  <2>. QED
    BY <2>2, <2>3, <2>4, <2>6, <2>7
<1>6. ASSUME proxies[u] # 0
      PROVE  /\ owners' \in Seq(User) /\ Len(owners') <= MaxProxies
             /\ destroyed' \subseteq DOMAIN owners'
             /\ proxies' \in [User -> 0 .. MaxProxies]
             /\ ProxiesAreOwned'
  <2>1. owners' = owners /\ proxies' = proxies
    <3>1. proxies' = [proxies EXCEPT ![u] = proxies[u]]
      BY <1>6 DEF MakeRequest, ProxyFor
    <3>. QED
      BY <1>4, <1>6, <3>1 DEF MakeRequest
  <2>. QED
    BY <1>4, <2>1 DEF MakeRequest, ProxyInv, SharedTypeOK, ProxiesAreOwned
<1>7. requestHashes' \in [User -> [Gateway -> Request \cup {NoRequest}]]
  BY <1>1 DEF MakeRequest, ProxyInv, SharedTypeOK
<1>8. /\ owners' \in Seq(User) /\ Len(owners') <= MaxProxies
      /\ destroyed' \subseteq DOMAIN owners'
      /\ proxies' \in [User -> 0 .. MaxProxies]
      /\ ProxiesAreOwned'
  BY <1>5, <1>6
<1>9. UNCHANGED gatewayVars
  BY DEF MakeRequest
<1>. QED
  BY <1>2, <1>3, <1>7, <1>8, <1>9
     DEF ProxyInv, SharedTypeOK, gatewayVars

\* An accepted request.
LEMMA AcceptKeeps ==
    ASSUME ProxyInv, NEW r \in Request, NEW t \in Token, Accepted(r, t)
    PROVE  /\ SharedTypeOK'
           /\ ProxiesAreOwned'
           /\ Escrow'
<1>. DEFINE g == At[r]
            p == proxies[By[r]]
<1>1. /\ g \in Gateway /\ By[r] \in User /\ p \in Proxy
      /\ TokenOf[g] \in Token /\ Amount[r] \in Nat /\ bounty[g] \in Nat
      /\ Pool \in Account /\ Worker \in Account
      /\ Pool # g /\ Pool # Escrows /\ Pool # Worker
  BY Accounts, AccountAssumption, BountiesAreNat, DeployedProxies
     DEF Accepted, ProxyInv
<1>2. \A s \in Token, a \in Account : balance[s][a] \in Nat
  BY DEF ProxyInv, SharedTypeOK
<1>3. \A s \in Token, a \in Account :
        balance'[s][a] = balance[s][a]
            + (IF s = TokenOf[g] /\ a = g THEN Amount[r] ELSE 0)
            - (IF s = TokenOf[g] /\ a = Pool THEN Amount[r] ELSE 0)
            + (IF s = t /\ a = Escrows THEN bounty[g] ELSE 0)
            - (IF s = t /\ a = Worker THEN bounty[g] ELSE 0)
  BY DEF Accepted
<1>4. balance' \in [Token -> [Account -> Nat]]
  <2>1. ASSUME NEW s \in Token, NEW a \in Account
        PROVE  balance'[s][a] \in Nat
    <3>1. /\ balance[TokenOf[g]][Pool] >= Amount[r]
          /\ balance[t][Worker] >= bounty[g]
      BY DEF Accepted, Funded
    <3>. QED
      BY <1>1, <1>2, <1>3, <3>1
  <2>2. \A s \in Token : balance'[s] \in [Account -> Int]
    BY DEF Accepted
  <2>3. \A s \in Token : balance'[s] \in [Account -> Nat]
    BY <2>1, <2>2
  <2>. QED
    BY <2>3 DEF Accepted
<1>5. Escrow'
  <2>1. ASSUME NEW s \in Token
        PROVE  balance'[s][Pool] = balance[s][Pool]
                  - (IF s = TokenOf[g] THEN Amount[r] ELSE 0)
    BY <1>1, <1>2, <1>3
  <2>2. \A k \in Request : Open(k)' <=> Open(k) /\ k # r
    BY OpenShrinks DEF Accepted, ProxyInv
  <2>. QED
    BY <2>1, <2>2, EscrowShrinks DEF Accepted, ProxyInv
<1>6. /\ nonces' \in [Gateway -> [Proxy -> Nat]]
      /\ processes' \in [Gateway -> SUBSET Proxy]
  <2>1. /\ nonces' = [nonces EXCEPT ![g][p] = nonces[g][p] + 1]
        /\ processes' = [processes EXCEPT ![g] = processes[g] \cup {p}]
    BY DEF Accepted, OpenProcess
  <2>2. /\ nonces \in [Gateway -> [Proxy -> Nat]]
        /\ processes \in [Gateway -> SUBSET Proxy]
    BY DEF ProxyInv, SharedTypeOK
  <2>3. nonces[g][p] \in Nat
    BY <1>1, <2>2
  <2>. QED
    BY <1>1, <2>1, <2>2, <2>3
<1>7. requestHashes' \in [User -> [Gateway -> Request \cup {NoRequest}]]
  BY <1>1 DEF Accepted, Forget, ProxyInv, SharedTypeOK
<1>8. UNCHANGED <<proxies, owners, destroyed, bounty>>
  BY DEF Accepted
<1>. QED
  BY <1>4, <1>5, <1>6, <1>7, <1>8
     DEF ProxyInv, SharedTypeOK, ProxiesAreOwned

\* A request that is revoked or rejected.
LEMMA RemoveKeeps ==
    ASSUME ProxyInv, NEW r \in Request, Open(r), RemoveRequest(r)
    PROVE  /\ SharedTypeOK'
           /\ ProxiesAreOwned'
           /\ Escrow'
<1>. DEFINE T == TokenOf[At[r]]
<1>1. /\ By[r] \in User /\ At[r] \in Gateway /\ T \in Token
      /\ Amount[r] \in Nat /\ By[r] \in Account /\ Pool \in Account
      /\ By[r] # Pool
  BY Accounts, AccountAssumption
<1>2. /\ balance' \in [Token -> [Account -> Nat]]
      /\ Transferred(balance, balance', T, Pool, By[r], Amount[r])
  BY <1>1, CoveredTransfer DEF RemoveRequest, ProxyInv
<1>3. Escrow'
  <2>1. ASSUME NEW t \in Token
        PROVE  balance'[t][Pool] = balance[t][Pool]
                  - (IF t = T THEN Amount[r] ELSE 0)
    <3>1. balance[t][Pool] \in Int
      BY <1>1, BalancesAreInts DEF ProxyInv
    <3>. QED
      BY <1>1, <1>2, <3>1 DEF Transferred
  <2>2. \A k \in Request : Open(k)' <=> Open(k) /\ k # r
    BY OpenShrinks DEF RemoveRequest, ProxyInv
  <2>. QED
    BY <2>1, <2>2, EscrowShrinks DEF ProxyInv
<1>4. requestHashes' \in [User -> [Gateway -> Request \cup {NoRequest}]]
  BY <1>1 DEF RemoveRequest, Forget, ProxyInv, SharedTypeOK
<1>5. UNCHANGED <<proxies, owners, destroyed, gatewayVars>>
  BY DEF RemoveRequest
<1>. QED
  BY <1>2, <1>3, <1>4, <1>5
     DEF ProxyInv, SharedTypeOK, ProxiesAreOwned, gatewayVars

\* What happens beside the requests: the pool's balances and the requests stay.
LEMMA SharedKeeps ==
    ASSUME ProxyInv, SharedNext
    PROVE  /\ SharedTypeOK'
           /\ ProxiesAreOwned'
           /\ Escrow'
           /\ requestHashes' = requestHashes
<1>1. ASSUME requestHashes' = requestHashes,
             \A t \in Token : balance'[t][Pool] = balance[t][Pool]
      PROVE  Escrow'
  BY <1>1 DEF ProxyInv, Escrow, Open
<1>. USE DEF ProxyInv, SharedTypeOK, ProxiesAreOwned, requestVars, gatewayVars
<1>2. ASSUME NEW u \in User, DestructProxy(u)
      PROVE  /\ SharedTypeOK' /\ ProxiesAreOwned'
             /\ requestHashes' = requestHashes /\ balance' = balance
  <2>1. /\ proxies' \in [User -> 0 .. MaxProxies]
        /\ \A v \in User : proxies'[v] # 0 => proxies'[v] = proxies[v]
    BY <1>2, RequestAssumption DEF DestructProxy
  <2>2. destroyed' \subseteq DOMAIN owners
    BY <1>2 DEF DestructProxy
  <2>3. UNCHANGED <<requestHashes, owners, gatewayVars, balance>>
    BY <1>2 DEF DestructProxy
  <2>. QED
    BY <2>1, <2>2, <2>3
<1>3. ASSUME NEW from \in Account, NEW to \in Account, NEW t \in Token,
             from # Pool, to # Pool, Funded(t, from, 1),
             balance' = Moved(balance, t, from, to, 1),
             UNCHANGED <<requestVars, gatewayVars>>
      PROVE  /\ SharedTypeOK' /\ ProxiesAreOwned' /\ Escrow'
             /\ requestHashes' = requestHashes
  <2>1. /\ balance' \in [Token -> [Account -> Nat]]
        /\ Transferred(balance, balance', t, from, to, 1)
    BY <1>3, CoveredTransfer
  <2>2. ASSUME NEW s \in Token PROVE balance'[s][Pool] = balance[s][Pool]
    <3>1. Pool \in Account /\ balance[s][Pool] \in Int
      BY Accounts, BalancesAreInts
    <3>2. Transferred(balance, balance', t, from, to, 1)
      BY <2>1
    <3>. QED
      BY ONLY <1>3, <3>1, <3>2 DEF Transferred
  <2>. QED
    BY <1>1, <1>3, <2>1, <2>2
<1>4. ASSUME NEW p \in Proxy, NEW t \in Token, NEW u \in User,
             TransferToken(p, t, u) \/ Donate(u, t, p)
      PROVE  /\ SharedTypeOK' /\ ProxiesAreOwned' /\ Escrow'
             /\ requestHashes' = requestHashes
  <2>1. p \in Account /\ u \in Account /\ p # Pool /\ u # Pool
    BY Accounts, AccountAssumption
  <2>. QED
    BY <1>3, <1>4, <2>1 DEF TransferToken, Donate
<1>5. ASSUME NEW g \in Gateway,
             \/ \E p \in Proxy : CompleteProcess(g, p)
             \/ \E b \in Bounties : ChangeBounty(g, b)
      PROVE  /\ SharedTypeOK' /\ ProxiesAreOwned'
             /\ requestHashes' = requestHashes /\ balance' = balance
  <2>1. /\ UNCHANGED <<requestVars, nonces, balance>>
        /\ processes' \in [Gateway -> SUBSET Proxy]
        /\ bounty' \in [Gateway -> Bounties]
    BY <1>5 DEF CompleteProcess, ChangeBounty
  <2>. QED
    BY <2>1
<1>. QED
  BY <1>1, <1>2, <1>4, <1>5 DEF SharedNext

-----------------------------------------------------------------------------
LEMMA InitProxyInv ==
    ASSUME Init
    PROVE  ProxyInv
<1>. USE DEF Init, ComposerInit, SharedInit
<1>1. SharedTypeOK
  <2>1. ASSUME NEW t \in Token
        PROVE  balance[t] \in [Account -> Nat]
    BY RequestAssumption
  <2>2. balance \in [Token -> [Account -> Nat]]
    BY <2>1
  <2>3. owners = <<>> /\ destroyed = {} /\ MaxProxies \in Nat
    BY RequestAssumption
  <2>4. owners \in Seq(User) /\ Len(owners) =< MaxProxies
    BY <2>3
  <2>. QED
    BY <2>2, <2>3, <2>4, RequestAssumption DEF SharedTypeOK
<1>2. \A r \in Request : ~Open(r)
  BY Accounts DEF Open
<1>3. Escrow
  <2>. SUFFICES ASSUME NEW t \in Token
                PROVE  balance[t][Pool] = SumFunctionOnSet(Amount, OpenFor(t))
    BY DEF Escrow, OpenFor
  <2>1. OpenFor(t) = {}
    BY <1>2 DEF OpenFor
  <2>2. balance[t][Pool] = 0
    BY Accounts, AccountAssumption
  <2>. QED
    BY <2>1, <2>2, SumEmpty
<1>. QED
  BY <1>1, <1>2, <1>3
     DEF ProxyInv, ProxiesAreOwned, ComposerMappingsAgree, MappingsAgree,
         OnlyComposerStakes, ComposerTypeOK, BeneficiariesAreSet

LEMMA ProxyInvStep ==
    ASSUME ProxyInv, [Next]_vars
    PROVE  ProxyInv'
<1>. USE DEF ComposerMappingsAgree, MappingsAgree
<1>1. /\ contract' = contract /\ stakeRequests' \subseteq Request
      /\ OnlyComposerStakes' /\ BeneficiariesAreSet'
  BY StepKind DEF ProxyInv, OnlyComposerStakes, BeneficiariesAreSet
<1>0. SharedTypeOK' => ComposerTypeOK'
  BY <1>1, ActivationStep DEF ComposerTypeOK
<1>2. ASSUME NEW r \in Request, MakeRequest(r),
             contract = "composer" => stakeRequests' = stakeRequests \cup {r}
      PROVE  ProxyInv'
  <2>1. \A k \in Request : Open(k)' <=> Open(k) \/ k = r
    BY <1>2, OpenGrows DEF ProxyInv
  <2>2. ComposerMappingsAgree'
    BY <1>1, <1>2, <2>1 DEF ProxyInv
  <2>. QED
    BY <1>0, <1>1, <1>2, <2>2, MakeKeeps DEF ProxyInv
<1>3. ASSUME NEW r \in Request, Open(r), Forget(r),
             contract = "composer" => stakeRequests' = stakeRequests \ {r}
      PROVE  ComposerMappingsAgree'
  <2>1. \A k \in Request : Open(k)' <=> Open(k) /\ k # r
    BY <1>3, OpenShrinks DEF ProxyInv
  <2>. QED
    BY <1>1, <1>3, <2>1 DEF ProxyInv
<1>4. ASSUME NEW r \in Request, NEW t \in Token, Accepted(r, t),
             contract = "composer" => stakeRequests' = stakeRequests \ {r}
      PROVE  ProxyInv'
  <2>1. ComposerMappingsAgree'
    BY <1>3, <1>4 DEF Accepted
  <2>. QED
    BY <1>0, <1>1, <1>4, <2>1, AcceptKeeps DEF ProxyInv
<1>5. ASSUME NEW r \in Request, Open(r), RemoveRequest(r),
             contract = "composer" => stakeRequests' = stakeRequests \ {r}
      PROVE  ProxyInv'
  <2>1. ComposerMappingsAgree'
    BY <1>3, <1>5 DEF RemoveRequest
  <2>. QED
    BY <1>0, <1>1, <1>5, <2>1, RemoveKeeps DEF ProxyInv
<1>6. ASSUME SharedNext, UNCHANGED stakeRequests
      PROVE  ProxyInv'
  <2>1. requestHashes' = requestHashes
    BY <1>6, SharedKeeps
  <2>2. ComposerMappingsAgree'
    BY <1>1, <1>6, <2>1 DEF ProxyInv, Open
  <2>. QED
    BY <1>0, <1>1, <1>6, <2>2, SharedKeeps DEF ProxyInv
<1>7. ASSUME UNCHANGED <<sharedVars, stakeRequests>>
      PROVE  ProxyInv'
  BY <1>0, <1>1, <1>7
     DEF sharedVars, requestVars, gatewayVars, ProxyInv, SharedTypeOK,
         ProxiesAreOwned, Escrow, Open
<1>. QED
  BY <1>2, <1>4, <1>5, <1>6, <1>7, StepKind

THEOREM ProxyInvariant == Spec => []ProxyInv
<1>1. Init => ProxyInv
  BY InitProxyInv
<1>2. ProxyInv /\ [Next]_vars => ProxyInv'
  BY ProxyInvStep
<1>. QED
  BY <1>1, <1>2, PTL DEF Spec

\* The state of both contracts, the proxies and the gateways is well formed:
\* no step pays more than an account has (the SafeMath subtractions of the
\* tokens), and no proxy is destroyed that was not deployed.
THEOREM RequestTypes == Spec => []SharedTypeOK
<1>1. ProxyInv => SharedTypeOK
  BY DEF ProxyInv
<1>. QED
  BY <1>1, ProxyInvariant, PTL

\* Whatever is requested, accepted, revoked and rejected at all gateways of a
\* token, the composer or pool holds what its open requests may claim.
THEOREM OpenRequestsAreEscrowed == Spec => []Escrow
<1>1. ProxyInv => Escrow
  BY DEF ProxyInv
<1>. QED
  BY <1>1, ProxyInvariant, PTL

\* The two mappings in which OSTComposer records a request agree.
THEOREM ComposerMappingsAlwaysAgree == Spec => []ComposerMappingsAgree
<1>1. ProxyInv => ComposerMappingsAgree
  BY DEF ProxyInv
<1>. QED
  BY <1>1, ProxyInvariant, PTL

-----------------------------------------------------------------------------
\* The pool holds the amount of every open request.
LEMMA PoolFundsOpen ==
    ASSUME ProxyInv, NEW r \in Request, Open(r)
    PROVE  Funded(TokenOf[At[r]], Pool, Amount[r])
<1>. DEFINE t == TokenOf[At[r]]
<1>1. t \in Token /\ r \in OpenFor(t) /\ Amount[r] \in Nat
  BY Accounts DEF OpenFor
<1>2. balance[t][Pool] = SumFunctionOnSet(Amount, OpenFor(t))
  BY <1>1 DEF ProxyInv, Escrow, OpenFor
<1>3. /\ IsFiniteSet(OpenFor(t))
      /\ \A k \in OpenFor(t) : Amount[k] \in Int /\ Amount[k] \in Nat
  BY <1>1, EscrowSums, Accounts DEF OpenFor
<1>. HIDE DEF t
<1>4. SumFunctionOnSet(Amount, OpenFor(t))
        = Amount[r] + SumFunctionOnSet(Amount, OpenFor(t) \ {r})
  BY ONLY <1>1, <1>3, SumRemove
<1>5. SumFunctionOnSet(Amount, OpenFor(t) \ {r}) \in Nat
  BY ONLY <1>3, FS_Subset, SumNat
<1>. QED
  BY <1>1, <1>2, <1>4, <1>5 DEF Funded, t

\* A proxy that has been provided for a request holds the amount and the bounty,
\* together if both are of one token, and approves that the gateway takes them.
LEMMA ProvidedIsTakeable ==
    ASSUME ProxyInv, NEW r \in Request, proxies[By[r]] # 0
    PROVE  Takeable(At[r], proxies[By[r]], Amount[r], Provided(r))
<1>. DEFINE g == At[r]
            p == proxies[By[r]]
            T == TokenOf[g]
            B == BaseTokenOf[g]
            b1 == Moved(balance, T, Pool, p, Amount[r])
            b2 == Moved(b1, B, Worker, p, bounty[g])
<1>1. /\ g \in Gateway /\ By[r] \in User /\ T \in Token /\ B \in Token
      /\ Amount[r] \in Nat /\ Amount[r] \in Int
      /\ bounty[g] \in Nat /\ bounty[g] \in Int
      /\ balance \in [Token -> [Account -> Int]]
  <2>1. g \in Gateway /\ By[r] \in User /\ T \in Token /\ Amount[r] \in Nat
    BY Accounts
  <2>2. B \in Token
    BY <2>1, BaseTokenAssumption
  <2>3. bounty[g] \in Nat
    BY <2>1, BountiesAreNat DEF ProxyInv
  <2>. QED
    BY <2>1, <2>2, <2>3, BalancesAreInts DEF ProxyInv
<1>2. p \in Proxy
  BY <1>1, DeployedProxies DEF ProxyInv
<1>3. /\ p \in Account /\ Pool \in Account /\ Worker \in Account
      /\ p # Pool /\ p # Worker
  BY <1>2, Accounts, AccountAssumption
<1>4. \A t \in Token : balance[t][p] \in Nat
  BY <1>3 DEF ProxyInv, SharedTypeOK
<1>5. /\ b1 = Moved(balance, T, Pool, p, Amount[r])
      /\ b2 = Moved(b1, B, Worker, p, bounty[g])
      /\ Provided(r) = b2
  BY DEF Provided
<1>. HIDE DEF g, p, T, B, b1, b2
<1>6. Transferred(balance, b1, T, Pool, p, Amount[r])
  BY ONLY <1>1, <1>3, <1>5, MovedBalances, Zenon
<1>7. Transferred(b1, b2, B, Worker, p, bounty[g])
  <2>1. b1 \in [Token -> [Account -> Int]]
    BY <1>6 DEF Transferred
  <2>. QED
    BY ONLY <1>1, <1>3, <1>5, <2>1, MovedBalances, Zenon
<1>8. ASSUME NEW t \in Token
      PROVE  b2[t][p] = balance[t][p] + (IF t = T THEN Amount[r] ELSE 0)
                                      + (IF t = B THEN bounty[g] ELSE 0)
  <2>1. b1[t][p] = balance[t][p] + (IF t = T THEN Amount[r] ELSE 0)
    BY <1>1, <1>3, <1>4, <1>6 DEF Transferred
  <2>2. b2[t][p] = b1[t][p] + (IF t = B THEN bounty[g] ELSE 0)
    <3>1. b1[t][p] \in Int
      BY <1>3, <1>6 DEF Transferred
    <3>. QED
      BY <1>1, <1>3, <1>7, <3>1 DEF Transferred
  <2>. QED
    BY <2>1, <2>2
<1>9. ASSUME NEW t \in Token
      PROVE  LET taken == (IF t = T THEN Amount[r] ELSE 0)
                          + (IF t = B THEN bounty[g] ELSE 0)
             IN  taken =< Approved(g, Amount[r], t) /\ taken =< b2[t][p]
  BY <1>1, <1>4, <1>8, <1>9 DEF Approved, T, B
<1>. QED
  BY <1>5, <1>9 DEF Takeable, g, p, T, B

\* A request of an idle proxy at an active gateway, for more than its reward
\* can be, waits only for a worker with the bounty: nothing else that
\* acceptStakeRequest calls can revert, whatever was requested, accepted or
\* revoked before and whichever token pays the bounty.
THEOREM IdleRequestsAreAcceptable == Spec => []AcceptableWhenIdle
<1>1. ASSUME ProxyInv PROVE AcceptableWhenIdle
  <2>. SUFFICES ASSUME NEW r \in stakeRequests,
                       proxies[By[r]] # 0,
                       activated[At[r]],
                       RewardIsCovered(r),
                       Idle(At[r], proxies[By[r]], Nonce[r]),
                       Funded(BaseTokenOf[At[r]], Worker, bounty[At[r]])
                PROVE  Acceptable(r)
    BY DEF AcceptableWhenIdle
  <2>1. r \in Request /\ Open(r)
    BY <1>1 DEF ProxyInv, OnlyComposerStakes, ComposerMappingsAgree, MappingsAgree
  <2>2. Funded(TokenOf[At[r]], Pool, Amount[r])
    BY <1>1, <2>1, PoolFundsOpen
  <2>3. Takeable(At[r], proxies[By[r]], Amount[r], Provided(r))
    BY <1>1, <2>1, ProvidedIsTakeable
  <2>4. Beneficiary[r] # ZeroAddress
    BY <1>1 DEF ProxyInv, BeneficiariesAreSet
  <2>. QED
    BY <2>2, <2>3, <2>4 DEF Acceptable
<1>2. ProxyInv => AcceptableWhenIdle
  BY <1>1
<1>. QED
  BY <1>2, ProxyInvariant, PTL

-----------------------------------------------------------------------------
\* A step moves the nonce of a proxy at a gateway only as it accepts the one
\* request its user has open there.
LEMMA NonceStep ==
    ASSUME ProxyInv, [Next]_vars, NEW r \in Request,
           Open(r), Open(r)', proxies[By[r]] # 0
    PROVE  nonces'[At[r]][proxies[By[r]]] = nonces[At[r]][proxies[By[r]]]
<1>. DEFINE g == At[r]
            p == proxies[By[r]]
<1>1. ASSUME NEW k \in Request, NEW t \in Token, Accepted(k, t)
      PROVE  nonces'[g][p] = nonces[g][p]
  <2>. DEFINE h == At[k]
              q == proxies[By[k]]
  <2>1. /\ By[r] \in User /\ By[k] \in User /\ g \in Gateway /\ h \in Gateway
        /\ nonces \in [Gateway -> [Proxy -> Nat]]
    BY Accounts DEF ProxyInv, SharedTypeOK
  <2>2. nonces' = [nonces EXCEPT ![h][q] = nonces[h][q] + 1]
    BY <1>1 DEF Accepted, OpenProcess
  <2>3. CASE g = h /\ p = q
    <3>1. owners[p] = By[r] /\ owners[q] = By[k]
      BY <1>1, <2>1 DEF Accepted, ProxyInv, ProxiesAreOwned
    <3>2. r = k
      BY <1>1, <2>3, <3>1 DEF Accepted, Open
    <3>3. ~Open(k)'
      BY <1>1, OpenShrinks DEF Accepted, ProxyInv
    <3>. QED
      BY <3>2, <3>3
  <2>4. CASE ~(g = h /\ p = q)
    BY <2>1, <2>2, <2>4
  <2>. QED
    BY <2>3, <2>4
<1>2. ASSUME UNCHANGED nonces
      PROVE  nonces'[g][p] = nonces[g][p]
  BY <1>2
<1>3. \/ \E k \in Request, t \in Token : Accepted(k, t)
      \/ UNCHANGED nonces
  <2>1. ASSUME NEW k \in Request, MakeRequest(k) \/ RemoveRequest(k)
        PROVE  UNCHANGED nonces
    BY <2>1 DEF MakeRequest, RemoveRequest, gatewayVars
  <2>2. ASSUME SharedNext PROVE UNCHANGED nonces
    BY <2>2
       DEF SharedNext, DestructProxy, TransferToken, Donate, CompleteProcess,
           ChangeBounty, gatewayVars
  <2>3. ASSUME UNCHANGED sharedVars PROVE UNCHANGED nonces
    BY <2>3 DEF sharedVars, gatewayVars
  <2>. QED
    BY <2>1, <2>2, <2>3, StepKind
<1>. QED
  BY <1>1, <1>2, <1>3

\* The nonce an open request was checked against stays its proxy's next one.
THEOREM NoncesAreKeptForRequests == Spec => NonceKeptWhileOpen
<1>1. ProxyInv /\ [Next]_vars
        => [\A r \in Request :
              LET u == By[r] g == At[r] p == proxies[u]
              IN  Open(r) /\ Open(r)' /\ p # 0 /\ proxies'[u] = p
                  => nonces'[g][p] = nonces[g][p]]_sharedVars
  BY NonceStep
<1>. QED
  BY <1>1, ProxyInvariant, PTL DEF Spec, NonceKeptWhileOpen

-----------------------------------------------------------------------------
\* The refinement mapping to Requests.
Wallets == [u \in User |-> [t \in Token |-> balance[t][u]]]
Placed == [g \in Gateway |-> balance[TokenOf[g]][g]]

\* From w to c, user u gets or pays n of token t.
Gets(w, c, u, t, n) ==
    /\ w \in [User -> [Token -> Int]]
    /\ c \in [User -> [Token -> Int]]
    /\ \A v \in User, s \in Token :
          c[v][s] = w[v][s] + (IF v = u /\ s = t THEN n ELSE 0)

Pays(w, c, u, t, n) ==
    /\ w \in [User -> [Token -> Int]]
    /\ c \in [User -> [Token -> Int]]
    /\ \A v \in User, s \in Token :
          c[v][s] = w[v][s] - (IF v = u /\ s = t THEN n ELSE 0)

LEMMA WalletGets ==
    ASSUME NEW w, NEW c, NEW u \in User, NEW t \in Token, NEW n \in Int,
           Gets(w, c, u, t, n)
    PROVE  c = [w EXCEPT ![u][t] = @ + n]
<1>. USE DEF Gets
<1>1. ASSUME NEW v \in User
      PROVE  c[v] = [w EXCEPT ![u][t] = w[u][t] + n][v]
  <2>1. \A s \in Token : w[v][s] \in Int /\ c[v][s] \in Int
    OBVIOUS
  <2>2. /\ c[v] \in [Token -> Int]
        /\ [w EXCEPT ![u][t] = w[u][t] + n][v] \in [Token -> Int]
    OBVIOUS
  <2>3. \A s \in Token : c[v][s] = [w EXCEPT ![u][t] = w[u][t] + n][v][s]
    BY <2>1
  <2>. QED
    BY <2>2, <2>3
<1>. QED
  BY <1>1

LEMMA WalletPays ==
    ASSUME NEW w, NEW c, NEW u \in User, NEW t \in Token, NEW n \in Int,
           Pays(w, c, u, t, n)
    PROVE  c = [w EXCEPT ![u][t] = @ - n]
<1>. USE DEF Pays
<1>1. ASSUME NEW v \in User
      PROVE  c[v] = [w EXCEPT ![u][t] = w[u][t] - n][v]
  <2>1. \A s \in Token : w[v][s] \in Int /\ c[v][s] \in Int
    OBVIOUS
  <2>2. /\ c[v] \in [Token -> Int]
        /\ [w EXCEPT ![u][t] = w[u][t] - n][v] \in [Token -> Int]
    OBVIOUS
  <2>3. \A s \in Token : c[v][s] = [w EXCEPT ![u][t] = w[u][t] - n][v][s]
    BY <2>1
  <2>. QED
    BY <2>2, <2>3
<1>. QED
  BY <1>1

\* What the mapping shows of a state.
LEMMA MappedState ==
    ASSUME SharedTypeOK
    PROVE  /\ Wallets \in [User -> [Token -> Int]]
           /\ \A u \in User, t \in Token : Wallets[u][t] = balance[t][u]
           /\ \A u \in User, t \in Token : Wallets[u][t] \in Nat
           /\ Placed \in [Gateway -> Int]
           /\ \A g \in Gateway : Placed[g] = balance[TokenOf[g]][g]
<1>1. \A t \in Token, a \in Account : balance[t][a] \in Nat
  BY DEF SharedTypeOK
<1>. QED
  BY <1>1, Accounts DEF Wallets, Placed

\* A transfer between a user and the pool or a proxy.
LEMMA UserPays ==
    ASSUME SharedTypeOK, SharedTypeOK', NEW u \in User, NEW t \in Token,
           NEW to \in {Pool} \cup Proxy, NEW n \in Nat,
           Transferred(balance, balance', t, u, to, n)
    PROVE  /\ Wallets' = [Wallets EXCEPT ![u][t] = @ - n]
           /\ Placed' = Placed
<1>1. /\ \A s \in Token, a \in Account :
            balance[s][a] \in Int /\ balance'[s][a] \in Int
      /\ User \subseteq Account /\ Gateway \subseteq Account
      /\ \A g \in Gateway : TokenOf[g] \in Token
      /\ \A v \in User : v # to
      /\ \A g \in Gateway : g # to /\ g # u
  <2>1. \A s \in Token, a \in Account :
          balance[s][a] \in Int /\ balance'[s][a] \in Int
    BY DEF SharedTypeOK
  <2>2. /\ \A v \in User : v # to
        /\ \A g \in Gateway : g # to /\ g # u
    BY AccountAssumption
  <2>. QED
    BY <2>1, <2>2, Accounts
<1>2. ASSUME NEW v \in User, NEW s \in Token
      PROVE  Wallets'[v][s] = Wallets[v][s] - (IF v = u /\ s = t THEN n ELSE 0)
  BY <1>1, MappedState DEF Transferred, Wallets
<1>3. Wallets' = [Wallets EXCEPT ![u][t] = @ - n]
  <2>1. /\ Wallets \in [User -> [Token -> Int]]
        /\ Wallets' \in [User -> [Token -> Int]]
    BY <1>1 DEF Wallets
  <2>2. Pays(Wallets, Wallets', u, t, n)
    BY <1>2, <2>1 DEF Pays
  <2>3. n \in Int
    OBVIOUS
  <2>. QED
    BY <2>2, <2>3, WalletPays, Zenon
<1>4. \A g \in Gateway : balance'[TokenOf[g]][g] = balance[TokenOf[g]][g]
  BY <1>1 DEF Transferred
<1>. QED
  BY <1>3, <1>4 DEF Placed

LEMMA UserGets ==
    ASSUME SharedTypeOK, SharedTypeOK', NEW u \in User, NEW t \in Token,
           NEW from \in {Pool} \cup Proxy, NEW n \in Nat,
           Transferred(balance, balance', t, from, u, n)
    PROVE  /\ Wallets' = [Wallets EXCEPT ![u][t] = @ + n]
           /\ Placed' = Placed
<1>1. /\ \A s \in Token, a \in Account :
            balance[s][a] \in Int /\ balance'[s][a] \in Int
      /\ User \subseteq Account /\ Gateway \subseteq Account
      /\ \A g \in Gateway : TokenOf[g] \in Token
      /\ \A v \in User : v # from
      /\ \A g \in Gateway : g # from /\ g # u
  <2>1. \A s \in Token, a \in Account :
          balance[s][a] \in Int /\ balance'[s][a] \in Int
    BY DEF SharedTypeOK
  <2>2. /\ \A v \in User : v # from
        /\ \A g \in Gateway : g # from /\ g # u
    BY AccountAssumption
  <2>. QED
    BY <2>1, <2>2, Accounts
<1>2. ASSUME NEW v \in User, NEW s \in Token
      PROVE  Wallets'[v][s] = Wallets[v][s] + (IF v = u /\ s = t THEN n ELSE 0)
  BY <1>1, MappedState DEF Transferred, Wallets
<1>3. Wallets' = [Wallets EXCEPT ![u][t] = @ + n]
  <2>1. /\ Wallets \in [User -> [Token -> Int]]
        /\ Wallets' \in [User -> [Token -> Int]]
    BY <1>1 DEF Wallets
  <2>2. Gets(Wallets, Wallets', u, t, n)
    BY <1>2, <2>1 DEF Gets
  <2>3. n \in Int
    OBVIOUS
  <2>. QED
    BY <2>2, <2>3, WalletGets, Zenon
<1>4. \A g \in Gateway : balance'[TokenOf[g]][g] = balance[TokenOf[g]][g]
  BY <1>1 DEF Transferred
<1>. QED
  BY <1>3, <1>4 DEF Placed

\* The kinds of steps are steps of Requests.
LEMMA MakeIsAbstract ==
    ASSUME ProxyInv, ProxyInv', NEW r \in Request, MakeRequest(r)
    PROVE  R!Make(r)
<1>. DEFINE u == By[r]
            T == TokenOf[At[r]]
<1>1. /\ u \in User /\ T \in Token /\ Amount[r] \in Nat
      /\ u \in Account /\ Pool \in Account
      /\ \A k \in Request : k # NoRequest
  BY Accounts
<1>2. Transferred(balance, balance', T, u, Pool, Amount[r])
  BY <1>1, CoveredTransfer DEF MakeRequest, ProxyInv
<1>3. Wallets' = [Wallets EXCEPT ![u][T] = @ - Amount[r]] /\ Placed' = Placed
  BY <1>1, <1>2, UserPays DEF ProxyInv
<1>4. Wallets[u][T] >= Amount[r]
  BY <1>1, MappedState DEF MakeRequest, Funded, ProxyInv
<1>5. \A k \in OpenRequests : By[k] # By[r] \/ At[k] # At[r]
  BY <1>1 DEF OpenRequests, Open, MakeRequest, NoneOpen
<1>6. OpenRequests' = OpenRequests \cup {r}
  BY OpenGrows DEF OpenRequests, ProxyInv
<1>. QED
  BY <1>3, <1>4, <1>5, <1>6 DEF R!Make, Wallets, Placed, OpenRequests

LEMMA AcceptIsAbstract ==
    ASSUME ProxyInv, NEW r \in Request, NEW t \in Token, Accepted(r, t)
    PROVE  R!Accept(r)
<1>. DEFINE g == At[r]
<1>1. /\ g \in Gateway /\ Amount[r] \in Int /\ bounty[g] \in Int
      /\ \A h \in Gateway : /\ TokenOf[h] \in Token /\ h \in Account
                            /\ h \notin {Pool, Escrows, Worker}
      /\ \A u \in User : u \in Account /\ u \notin {g, Pool, Escrows, Worker}
  BY Accounts, AccountAssumption, BountiesAreNat DEF ProxyInv
<1>2. \A s \in Token, a \in Account : balance[s][a] \in Int
  BY DEF ProxyInv, SharedTypeOK
<1>3. \A s \in Token, a \in Account :
        balance'[s][a] = balance[s][a]
            + (IF s = TokenOf[g] /\ a = g THEN Amount[r] ELSE 0)
            - (IF s = TokenOf[g] /\ a = Pool THEN Amount[r] ELSE 0)
            + (IF s = t /\ a = Escrows THEN bounty[g] ELSE 0)
            - (IF s = t /\ a = Worker THEN bounty[g] ELSE 0)
  BY DEF Accepted
<1>4. Wallets' = Wallets
  <2>1. \A u \in User, s \in Token : balance'[s][u] = balance[s][u]
    BY <1>1, <1>2, <1>3
  <2>. QED
    BY <2>1 DEF Wallets
<1>5. Placed' = [Placed EXCEPT ![g] = @ + Amount[r]]
  <2>1. \A h \in Gateway :
          balance'[TokenOf[h]][h] = IF h = g THEN balance[TokenOf[g]][g] + Amount[r]
                                             ELSE balance[TokenOf[h]][h]
    BY <1>1, <1>2, <1>3
  <2>. QED
    BY <1>1, <2>1 DEF Placed
<1>6. r \in OpenRequests /\ OpenRequests' = OpenRequests \ {r}
  <2>1. \A k \in Request : Open(k)' <=> Open(k) /\ k # r
    BY OpenShrinks DEF Accepted, ProxyInv
  <2>. QED
    BY <2>1 DEF OpenRequests, Accepted
<1>. QED
  BY <1>4, <1>5, <1>6 DEF R!Accept, Wallets, Placed, OpenRequests

LEMMA RemoveIsAbstract ==
    ASSUME ProxyInv, ProxyInv', NEW r \in Request, Open(r), RemoveRequest(r)
    PROVE  R!Return(r)
<1>. DEFINE u == By[r]
            T == TokenOf[At[r]]
<1>1. /\ u \in User /\ T \in Token /\ Amount[r] \in Nat
      /\ u \in Account /\ Pool \in Account
  BY Accounts
<1>2. Transferred(balance, balance', T, Pool, u, Amount[r])
  BY <1>1, CoveredTransfer DEF RemoveRequest, ProxyInv
<1>3. Wallets' = [Wallets EXCEPT ![u][T] = @ + Amount[r]] /\ Placed' = Placed
  BY <1>1, <1>2, UserGets DEF ProxyInv
<1>4. r \in OpenRequests /\ OpenRequests' = OpenRequests \ {r}
  <2>1. \A k \in Request : Open(k)' <=> Open(k) /\ k # r
    BY OpenShrinks DEF RemoveRequest, ProxyInv
  <2>. QED
    BY <2>1 DEF OpenRequests
<1>. QED
  BY <1>3, <1>4 DEF R!Return, Wallets, Placed, OpenRequests

LEMMA SharedIsAbstract ==
    ASSUME ProxyInv, ProxyInv', SharedNext
    PROVE  [R!Next]_(R!vars)
<1>1. OpenRequests' = OpenRequests
  BY SharedKeeps DEF OpenRequests, Open
<1>2. ASSUME NEW u \in User, NEW t \in Token, NEW p \in Proxy,
             TransferToken(p, t, u)
      PROVE  R!Receive(u, t)
  <2>1. Transferred(balance, balance', t, p, u, 1)
    BY <1>2, Accounts, CoveredTransfer DEF TransferToken, ProxyInv
  <2>2. Wallets' = [Wallets EXCEPT ![u][t] = @ + 1] /\ Placed' = Placed
    BY <2>1, UserGets DEF ProxyInv
  <2>. QED
    BY <1>1, <2>2 DEF R!Receive, Wallets, Placed, OpenRequests
<1>3. ASSUME NEW u \in User, NEW t \in Token, NEW p \in Proxy,
             Donate(u, t, p)
      PROVE  R!Spend(u, t)
  <2>1. Transferred(balance, balance', t, u, p, 1)
    BY <1>3, Accounts, CoveredTransfer DEF Donate, ProxyInv
  <2>2. Wallets[u][t] > 0
    BY <1>3, Accounts, MappedState DEF Donate, Funded, ProxyInv
  <2>3. Wallets' = [Wallets EXCEPT ![u][t] = @ - 1] /\ Placed' = Placed
    BY <2>1, UserPays DEF ProxyInv
  <2>. QED
    BY <1>1, <2>2, <2>3 DEF R!Spend, Wallets, Placed, OpenRequests
<1>4. ASSUME UNCHANGED balance
      PROVE  UNCHANGED R!vars
  BY <1>1, <1>4 DEF R!vars, OpenRequests
<1>. QED
  BY <1>2, <1>3, <1>4
     DEF SharedNext, DestructProxy, CompleteProcess, ChangeBounty, R!Next

\* Each contract keeps the promise of Requests to its users: every request
\* takes its amount into custody, and it is paid out once, in full, to the
\* gateway it was made for or back to the user who made it.
THEOREM RequestsAreKept == Spec => ImplementsRequests
<1>1. Init => R!Init
  <2>. SUFFICES ASSUME Init PROVE R!Init
    OBVIOUS
  <2>1. ProxyInv
    BY InitProxyInv
  <2>2. OpenRequests = {}
    BY Accounts DEF OpenRequests, Open, Init, ComposerInit, SharedInit
  <2>3. Wallets \in [User -> [Token -> Nat]]
    BY <2>1, MappedState DEF Wallets, ProxyInv
  <2>4. Placed = [g \in Gateway |-> 0]
    <3>1. \A g \in Gateway :
            /\ TokenOf[g] \in Token /\ g \in Account
            /\ g \notin User \cup {Worker}
      BY Accounts, AccountAssumption
    <3>. QED
      BY <3>1 DEF Placed, Init, ComposerInit, SharedInit
  <2>. QED
    BY <2>2, <2>3, <2>4 DEF R!Init, Wallets, Placed, OpenRequests
<1>2. ProxyInv /\ [Next]_vars => [R!Next]_(R!vars)
  <2>. SUFFICES ASSUME ProxyInv, [Next]_vars PROVE [R!Next]_(R!vars)
    OBVIOUS
  <2>1. ProxyInv'
    BY ProxyInvStep
  <2>2. ASSUME UNCHANGED sharedVars PROVE UNCHANGED R!vars
    BY <2>2 DEF sharedVars, requestVars, Open, R!vars
  <2>. QED
    BY <2>1, <2>2, StepKind, MakeIsAbstract, AcceptIsAbstract,
       RemoveIsAbstract, SharedIsAbstract DEF R!Next
<1>. QED
  BY <1>1, <1>2, ProxyInvariant, PTL DEF Spec, ImplementsRequests, R!Spec
=============================================================================
