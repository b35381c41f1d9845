----------------------------- MODULE MCRequests -----------------------------
(***************************************************************************)
(* The composer or the redeem pool with two users: one has a request at    *)
(* each of two gateways, a rival one for the same nonce and one for the    *)
(* next nonce at the first, and the other user has one there, too.  The    *)
(* rival one offers its whole amount as the reward.  Both gateways take    *)
(* one token, in which only the first has its bounty paid.                 *)
(***************************************************************************)
EXTENDS ProxyContracts

CONSTANTS first, rival, second, other, elsewhere, alice, bob, near, far, token, coin

MCBy == [r \in Request |-> IF r = other THEN bob ELSE alice]
MCAt == [r \in Request |-> IF r = elsewhere THEN far ELSE near]
MCNonce == [r \in Request |-> IF r = second THEN 1 ELSE 0]
MCAmount == [r \in Request |-> IF r = rival THEN 2 ELSE 1]
MCMaxReward == [r \in Request |-> IF r = rival THEN 2 ELSE 0]
MCBeneficiary == [r \in Request |-> By[r]]
MCTokenOf == [g \in Gateway |-> token]
MCBaseTokenOf == [g \in Gateway |-> IF g = near THEN token ELSE coin]
MCBalance == [t \in Token |-> [a \in User \cup {Worker} |->
                 CASE a = Worker -> IF t = coin THEN 1 ELSE 2
                   [] a = alice -> IF t = token THEN 2 ELSE 0
                   [] OTHER -> IF t = token THEN 1 ELSE 0]]
=============================================================================
