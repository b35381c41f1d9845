----------------------------- MODULE RedeemPool -----------------------------
(***************************************************************************)
(* The redeem pool of the auxiliary chain: redeemers request redemptions,  *)
(* a worker accepts them and sends the bounty along in the base coin.  The *)
(* hash that is kept for a redeemer and co-gateway is all that is stored   *)
(* about a request, and the beneficiary may be the zero address.           *)
(***************************************************************************)
EXTENDS ProxyRequests

CONSTANT Coin  \* the token that stands for the base coin

ASSUME CoinAssumption == Coin \in Token

RequestRedeem(r) == MakeRequest(r)

\* The worker pays the call with "value" coins, which reach the co-gateway
\* through the pool and the proxy.
AcceptRedeemRequest(r, value) ==
    LET g == At[r]
        p == proxies[By[r]]
    IN  /\ p # 0
        /\ value = bounty[g]
        /\ Open(r)
        /\ Forget(r)
        /\ Funded(Coin, Worker, value)
        /\ Funded(TokenOf[g], Pool, Amount[r])
        /\ balance' = Moved(Moved(balance, Coin, Worker, Escrows, value),
                            TokenOf[g], Pool, g, Amount[r])
        /\ OpenProcess(r, p)
        /\ UNCHANGED <<proxies, owners, destroyed, bounty>>

\* revokeRedeemRequest by the redeemer and rejectRedeemRequest by a worker.
RemoveRedeemRequest(r) == Open(r) /\ RemoveRequest(r)

\* A proxy holds no coins that its destruction would pay out: coins come to it
\* with redeem alone, which forwards them, so DestructProxy moves none.
PoolNext ==
    \/ \E r \in Request :
         \/ RequestRedeem(r)
         \/ RemoveRedeemRequest(r)
         \/ \E value \in Bounties : AcceptRedeemRequest(r, value)
    \/ SharedNext

PoolSpec == SharedInit /\ [][PoolNext]_sharedVars
=============================================================================
