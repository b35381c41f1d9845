------------------------- MODULE IntegrationChains -------------------------
(***************************************************************************)
(* The two development chains of test_integration, with the contracts that *)
(* its tests deploy and call, as far as the tests look at them: balances,  *)
(* the last message of every sender on either chain, and whether the head  *)
(* of a chain is a block that the anchor on the other one does not have.   *)
(* The contracts' own modules say more; here OSTPrime is the utility       *)
(* token, accounts pay for their transactions and the proxy redeems.       *)
(***************************************************************************)
EXTENDS Integers, Sequences

CONSTANT Fee        \* what the transactions of a call may cost their sender

ASSUME FeeAssumption == Fee \subseteq Nat

VARIABLES
    live,       \* what the deployment has set up
    balance,    \* balance[ledger][holder]
    process,    \* process[c][a]: the last message of a on chain c
    fresh       \* fresh[c]: the latest block of c is not anchored yet

chainVars == <<live, balance, process, fresh>>

Chain == {"origin", "auxiliary"}

Other(c) == IF c = "origin" THEN "auxiliary" ELSE "origin"

\* originAccounts[0] and [2], auxiliaryAccounts[0] and [2], the contracts, and
\* the zero address that burns.  The deployer is the organization on each chain.
Holder == {"origin0", "origin2", "auxiliary0", "auxiliary2", "gateway",
           "stakeVault", "coGateway", "ostPrime", "redeemPool", "proxy",
           "burner"}

\* The value token and the base token of origin; OSTPrime and its coin.
Ledger == {"token", "baseToken", "ostPrime", "coin"}

Sender == {"origin0", "auxiliary2", "proxy"}

NoProcess == [nonce |-> -1, status |-> "Revoked", amount |-> 0, bounty |-> 0]

\* The token's supply, and the coins of the auxiliary genesis: the deployer has
\* TOKENS_MAX and, as the other account, enough for fees and bounties.
TokensMax == 2000
Allowance == 1000

ChainsInit ==
    /\ live = {}
    /\ balance = [l \in Ledger |-> [h \in Holder |->
           IF l # "coin" THEN 0
           ELSE CASE h = "auxiliary0" -> TokensMax + Allowance
                  [] h = "auxiliary2" -> Allowance
                  [] OTHER -> 0]]
    /\ process = [c \in Chain |-> [a \in Sender |-> NoProcess]]
    /\ fresh = [c \in Chain |-> FALSE]

-----------------------------------------------------------------------------
Moved(b, ledger, from, to, n) ==
    [b EXCEPT ![ledger][from] = @ - n, ![ledger][to] = @ + n]

\* No transfer reverts when no balance of the result is negative: a call moves
\* no amount out of a holder that it moves in before.
Solvent(b) == \A l \in Ledger, h \in Holder : b[l][h] >= 0

Paid(b, account, fee) == [b EXCEPT !.coin[account] = @ - fee]

\* Mutant: the nodes mine when there is a transaction, and only then.
MinedOnDemand(c) == fresh' = [x \in Chain |-> x = c]

\* While a test waits for its transactions both nodes mine, on a clock: the
\* second order of each test with proofs anchors a chain twice with no
\* transaction on it in between, which only a clock lets pass.
Mined(c) == fresh' = [x \in Chain |-> TRUE]

\* Anchor.anchorStateRoot takes the latest block of the other chain when it is
\* higher than the last one it took; proveGateway then makes that block's box
\* the one proofs on c are read from.
Anchored(c) == fresh[Other(c)]

ProvenOn(c, m) == process[Other(c)][m.sender]

Proves(c, m, status) ==
    /\ Anchored(c)
    /\ ProvenOn(c, m).nonce = m.nonce
    /\ ProvenOn(c, m).status = status

GetNonce(c, sender) == process[c][sender].nonce + 1

\* The nonce stands for the hash: a message with another nonce is unknown.
StatusOf(c, m) ==
    IF process[c][m.sender].nonce = m.nonce THEN process[c][m.sender].status
    ELSE "Undeclared"

Register(c, m) ==
    /\ m.nonce = GetNonce(c, m.sender)
    /\ process[c][m.sender].status \in {"Progressed", "Revoked"}
    /\ process' = [process EXCEPT ![c][m.sender] =
           [nonce |-> m.nonce, status |-> "Declared", amount |-> m.amount,
            bounty |-> m.bounty]]

Close(c, m, status) ==
    process' = [process EXCEPT ![c][m.sender].status = status]

Penalty(c, m) == (process[c][m.sender].bounty * 150) \div 100

\* What a proof of the other box must show to progress the outbox.
AcceptedFor(outbox) ==
    CASE outbox = "Declared" -> {"Declared", "Progressed"}
      [] outbox = "DeclaredRevocation" -> {"Progressed"}
      [] OTHER -> {}

\* OSTPrime.increaseSupply: the tokens are its own, the coins the account's.
IncreasedSupply(b, account, n) ==
    Moved([b EXCEPT !.ostPrime["ostPrime"] = @ + n], "coin", "ostPrime",
          account, n)

\* OSTPrime.wrap
Wrapped(b, account, n) ==
    Moved(Moved(b, "coin", account, "ostPrime", n), "ostPrime", "ostPrime",
          account, n)

-----------------------------------------------------------------------------
\* What the assertion classes of test_integration expect of a transaction: m
\* is the request, initial and final are the balances captured before and after
\* it, event is what the contract emitted.

\* The balances of the holders in a row change by the given amounts.
Changes(initial, final, ledger, by) ==
    \A h \in DOMAIN by : final[ledger][h] = initial[ledger][h] + by[h]

\* The fields every event of a request repeats.
EventOf(event, m) ==
    /\ event.sender = m.sender
    /\ event.nonce = m.nonce
    /\ event.amount = m.amount

\* Progressing by secret reveals it, progressing by proof does not.
EventTells(event, m, proofProgress) ==
    /\ EventOf(event, m)
    /\ event.proofProgress = proofProgress
    /\ event.unlockSecret = IF proofProgress THEN "zero" ELSE m.unlockSecret

AssertStake(event, m, initial, final) ==
    /\ EventOf(event, m)
    /\ Changes(initial, final, "baseToken",
               [gateway |-> m.bounty, origin0 |-> -m.bounty])
    /\ Changes(initial, final, "token",
               [gateway |-> m.amount, origin0 |-> -m.amount])

AssertConfirmStakeIntent(event, m) ==
    /\ EventOf(event, m)
    /\ event.hashLock = m.unlockSecret

\* The staker is the facilitator here, and earns its own bounty.
AssertProgressStake(event, m, initial, final, proofProgress) ==
    /\ Changes(initial, final, "baseToken",
               [gateway |-> -m.bounty, origin0 |-> m.bounty, stakeVault |-> 0])
    /\ Changes(initial, final, "token",
               [gateway |-> -m.amount, origin0 |-> 0, stakeVault |-> m.amount])
    /\ EventTells(event, m, proofProgress)

AssertProgressMint(event, m, initial, final, proofProgress) ==
    /\ EventTells(event, m, proofProgress)
    /\ event.rewardAmount = m.reward
    /\ Changes(initial, final, "coin",
               [auxiliary2 |-> m.amount - m.reward, ostPrime |-> -m.amount,
                coGateway |-> 0])
    /\ Changes(initial, final, "ostPrime",
               [auxiliary2 |-> 0, ostPrime |-> m.amount, coGateway |-> 0])

AssertRevertStake(event, m, initial, final) ==
    LET penalty == (m.bounty * 150) \div 100 IN
    /\ Changes(initial, final, "baseToken",
               [gateway |-> 0, origin0 |-> -penalty, burner |-> penalty])
    /\ Changes(initial, final, "token",
               [gateway |-> 0, origin0 |-> 0, burner |-> 0])
    /\ EventOf(event, m)

AssertConfirmRevertStakeIntent(event, m) == EventOf(event, m)

AssertProgressRevertStake(event, m, initial, final) ==
    /\ Changes(initial, final, "baseToken",
               [gateway |-> -m.bounty, origin0 |-> 0, burner |-> m.bounty])
    /\ Changes(initial, final, "token",
               [gateway |-> -m.amount, origin0 |-> m.amount, burner |-> 0])
    /\ EventOf(event, m)

-----------------------------------------------------------------------------
\* fee: the cost of the redeemer's transaction, which is paid in the coin.
AssertRedeem(event, m, fee, initial, final) ==
    /\ Changes(initial, final, "coin",
               [coGateway |-> m.bounty, auxiliary2 |-> -(m.bounty + fee)])
    /\ Changes(initial, final, "ostPrime",
               [coGateway |-> m.amount, auxiliary2 |-> -m.amount])
    /\ EventOf(event, m)

AssertRequestRedeem(event, m, fee, initial, final) ==
    /\ Changes(initial, final, "coin", [redeemPool |-> 0, auxiliary2 |-> -fee])
    /\ Changes(initial, final, "ostPrime",
               [redeemPool |-> m.amount, auxiliary2 |-> -m.amount])
    /\ event.nonce = m.nonce
    /\ event.amount = m.amount

\* Of AcceptRedeemAssertion the test only calls the check of the event.
AssertAcceptRedeem(event, m) == EventOf(event, m)

AssertConfirmRedeemIntent(event, m) ==
    /\ EventOf(event, m)
    /\ event.hashLock = m.unlockSecret

\* Who progresses the redeem is the redeemer, or who had the pool redeem.
AssertProgressRedeem(event, m, fee, initial, final, proofProgress) ==
    /\ Changes(initial, final, "coin",
               [coGateway |-> -m.bounty, auxiliary2 |-> m.bounty - fee])
    /\ Changes(initial, final, "ostPrime",
               [coGateway |-> -m.amount, auxiliary2 |-> 0])
    /\ EventTells(event, m, proofProgress)

AssertProgressUnstake(event, m, initial, final, proofProgress) ==
    /\ Changes(initial, final, "baseToken",
               [gateway |-> 0, origin2 |-> 0, stakeVault |-> 0, origin0 |-> 0])
    /\ Changes(initial, final, "token",
               [gateway |-> 0, origin2 |-> m.amount - m.reward,
                stakeVault |-> -m.amount, origin0 |-> m.reward])
    /\ EventTells(event, m, proofProgress)
    /\ event.rewardAmount = m.reward

\* The penalty is read from the contract again.
AssertRevertRedeem(event, m, penalty, fee, initial, final) ==
    /\ Changes(initial, final, "coin",
               [coGateway |-> 0, auxiliary2 |-> -(penalty + fee),
                burner |-> penalty])
    /\ Changes(initial, final, "ostPrime",
               [coGateway |-> 0, auxiliary2 |-> 0, burner |-> 0])
    /\ EventOf(event, m)

AssertConfirmRevertRedeemIntent(event, m) == EventOf(event, m)

AssertProgressRevertRedeem(event, m, initial, final) ==
    /\ Changes(initial, final, "coin",
               [coGateway |-> -m.bounty, auxiliary2 |-> 0,
                burner |-> m.bounty])
    /\ Changes(initial, final, "ostPrime",
               [coGateway |-> -m.amount, auxiliary2 |-> m.amount, burner |-> 0])
    /\ EventOf(event, m)
=============================================================================
