-------------------------- MODULE IntegrationTests --------------------------
(***************************************************************************)
(* test_integration: the suite as Mocha runs it, one file after the other  *)
(* on the same two chains.  A test is a sequence of calls; one action is a *)
(* call with its preparations and the assertions on its outcome.  A call   *)
(* whose transaction reverts throws, and the suite does not go on.         *)
(***************************************************************************)
EXTENDS IntegrationChains

VARIABLES
    at,         \* the position in Suite
    request,    \* stakeRequest or redeemRequest of the test
    asserted    \* no assertion has failed yet

vars == <<chainVars, at, request, asserted>>

Bounty == 100

Deploy == <<<<"deployTokens">>, <<"deployGateways">>, <<"activateGateway">>,
            <<"initializeOSTPrime">>>>

StakeAndMint ==
    <<<<"newStakeRequest">>, <<"stake">>, <<"confirmStakeIntent">>,
      <<"progressStake">>, <<"progressMint">>>>

StakeAndMintWithProof ==
    <<<<"newStakeRequest">>, <<"stake">>, <<"confirmStakeIntent">>,
      <<"progressStakeWithProof", "Declared">>,
      <<"progressMintWithProof", "Progressed">>,
      <<"newStakeRequest">>, <<"stake">>, <<"confirmStakeIntent">>,
      <<"progressMintWithProof", "Declared">>,
      <<"progressStakeWithProof", "Progressed">>>>

RevertStakeAndMint ==
    <<<<"newStakeRequest">>, <<"stake">>, <<"confirmStakeIntent">>,
      <<"revertStake">>, <<"confirmRevertStakeIntent">>,
      <<"progressRevertStake">>>>

\* The status in the last call is what the co-gateway answers then.  The calls
\* up to the revocation are not asserted on in this file; asserting is stronger.
StakeAndMintAfterRevert ==
    <<<<"newStakeRequest">>, <<"stake">>, <<"confirmStakeIntent">>,
      <<"revertStake">>, <<"progressMint">>,
      <<"progressStakeWithProof", "inbox">>>>

RedeemAndUnstake ==
    <<<<"newRedeemRequest">>, <<"redeem">>, <<"confirmRedeemIntent">>,
      <<"progressRedeem">>, <<"progressUnstake">>>>

RedeemWithPool ==
    <<<<"newPoolRequest">>, <<"requestRedeem">>, <<"acceptRedeem">>,
      <<"confirmRedeemIntent">>, <<"progressRedeem">>, <<"progressUnstake">>>>

RedeemAndUnstakeWithProof ==
    <<<<"newRedeemRequest">>, <<"redeem">>, <<"confirmRedeemIntent">>,
      <<"progressRedeemWithProof", "Declared">>,
      <<"progressUnstakeWithProof", "Progressed">>,
      <<"newRedeemRequest">>, <<"redeem">>, <<"confirmRedeemIntent">>,
      <<"progressUnstakeWithProof", "Declared">>,
      <<"progressRedeemWithProof", "Progressed">>>>

RevertRedeemTest ==
    <<<<"newRedeemRequest">>, <<"redeem">>, <<"confirmRedeemIntent">>,
      <<"revertRedeem">>, <<"confirmRevertRedeemIntent">>,
      <<"progressRevertRedeem">>>>

RedeemAndUnstakeAfterRevert ==
    <<<<"newRedeemRequest">>, <<"redeem">>, <<"confirmRedeemIntent">>,
      <<"revertRedeem">>, <<"progressUnstake">>,
      <<"progressRedeemWithProof", "inbox">>>>

\* Mocha.utils.lookupFiles: the files in the order of their names.
Suite ==
    Deploy \o StakeAndMint \o StakeAndMintWithProof \o RevertStakeAndMint
    \o StakeAndMintAfterRevert \o RedeemAndUnstake \o RedeemWithPool
    \o RedeemAndUnstakeWithProof \o RevertRedeemTest
    \o RedeemAndUnstakeAfterRevert

NoRequest == [sender |-> "origin0", amount |-> 0, reward |-> 0, bounty |-> 0,
              nonce |-> 0, unlockSecret |-> "none"]

Init ==
    /\ ChainsInit
    /\ at = 1
    /\ request = NoRequest
    /\ asserted = TRUE

-----------------------------------------------------------------------------
Calls(name) == at =< Len(Suite) /\ Suite[at][1] = name /\ at' = at + 1

\* The status argument of a call with proof.
Claimed(target) ==
    IF Suite[at][2] = "inbox" THEN StatusOf(target, request)
    ELSE Suite[at][2]

Verify(holds) == asserted' = (asserted /\ holds) /\ UNCHANGED request

Settles(b) == Solvent(b) /\ balance' = b

Emitted(message, reward, proofProgress) ==
    [sender |-> request.sender, nonce |-> message.nonce,
     amount |-> message.amount, rewardAmount |-> reward,
     hashLock |-> request.unlockSecret,
     proofProgress |-> proofProgress,
     unlockSecret |-> IF proofProgress THEN "zero" ELSE request.unlockSecret]

EventOn(c) == Emitted(process[c][request.sender], request.reward, FALSE)

NewEvent == Emitted(request, request.reward, FALSE)

-----------------------------------------------------------------------------
\* The value token and the base token: all of each is the deployer's.
DeployTokens ==
    /\ Calls("deployTokens")
    /\ live' = live \cup {"tokens"}
    /\ balance' = [balance EXCEPT !.token["origin0"] = TokensMax,
                                  !.baseToken["origin0"] = TokensMax]
    /\ UNCHANGED <<process, fresh, request, asserted>>

\* The contracts on both chains; the anchors know the blocks before.
DeployGateways ==
    /\ Calls("deployGateways")
    /\ "tokens" \in live
    /\ live' = live \cup {"gateways"}
    /\ fresh' = [c \in Chain |-> TRUE]
    /\ UNCHANGED <<balance, process, request, asserted>>

ActivateGateway ==
    /\ Calls("activateGateway")
    /\ "gateways" \in live
    /\ live' = live \cup {"gateway"}
    /\ Mined("origin")
    /\ UNCHANGED <<balance, process, request, asserted>>

\* initialize, to which the organization pays all of TOKENS_MAX, and
\* setCoGateway.
InitializeOSTPrime ==
    /\ Calls("initializeOSTPrime")
    /\ "gateways" \in live
    /\ live' = live \cup {"ostPrime"}
    /\ Settles(Moved(balance, "coin", "auxiliary0", "ostPrime", TokensMax))
    /\ Mined("auxiliary")
    /\ UNCHANGED <<process, request, asserted>>

\* stakeRequest, for the nonce that the gateway expects.
NewStakeRequest ==
    /\ Calls("newStakeRequest")
    /\ request' = [sender |-> "origin0", amount |-> 200, reward |-> 100,
                   bounty |-> Bounty, nonce |-> GetNonce("origin", "origin0"),
                   unlockSecret |-> "secret"]
    /\ UNCHANGED <<chainVars, asserted>>

\* redeemRequest of an account.
NewRedeemRequest ==
    /\ Calls("newRedeemRequest")
    /\ request' = [sender |-> "auxiliary2", amount |-> 50, reward |-> 10,
                   bounty |-> Bounty,
                   nonce |-> GetNonce("auxiliary", "auxiliary2"),
                   unlockSecret |-> "secret"]
    /\ UNCHANGED <<chainVars, asserted>>

\* redeemRequest of the account through the pool: the nonce is its proxy's.
NewPoolRequest ==
    /\ Calls("newPoolRequest")
    /\ request' = [sender |-> "proxy", amount |-> 50, reward |-> 10,
                   bounty |-> Bounty, nonce |-> GetNonce("auxiliary", "proxy"),
                   unlockSecret |-> "secret"]
    /\ UNCHANGED <<chainVars, asserted>>

-----------------------------------------------------------------------------
Stake ==
    LET b == Moved(Moved(balance, "token", "origin0", "gateway", request.amount),
                   "baseToken", "origin0", "gateway", Bounty)
    IN  /\ Calls("stake")
        /\ "gateway" \in live
        /\ Register("origin", request)
        /\ Settles(b)
        /\ Mined("origin")
        /\ Verify(AssertStake(NewEvent, request, balance, b))
        /\ UNCHANGED live

ConfirmStakeIntent ==
    /\ Calls("confirmStakeIntent")
    /\ Proves("auxiliary", request, "Declared")
    /\ Register("auxiliary", request)
    /\ Mined("auxiliary")
    /\ Verify(AssertConfirmStakeIntent(NewEvent, request))
    /\ UNCHANGED <<live, balance>>

\* Mutant: the bounty of a completed stake stays in the gateway.
StakeSettledWithoutBounty ==
    LET message == process["origin"]["origin0"] IN
    Moved(balance, "token", "gateway", "stakeVault", message.amount)

\* progressStakeInternal, called by the staker.
StakeSettled ==
    LET message == process["origin"]["origin0"] IN
    Moved(Moved(balance, "token", "gateway", "stakeVault", message.amount),
          "baseToken", "gateway", "origin0", message.bounty)

ProgressStake ==
    /\ Calls("progressStake")
    /\ StatusOf("origin", request) = "Declared"
    /\ Close("origin", request, "Progressed")
    /\ Settles(StakeSettled)
    /\ Mined("origin")
    /\ Verify(AssertProgressStake(EventOn("origin"), request, balance,
                                  StakeSettled, FALSE))
    /\ UNCHANGED live

ProgressStakeWithProof ==
    LET event == Emitted(process["origin"]["origin0"], 0, TRUE) IN
    /\ Calls("progressStakeWithProof")
    /\ Claimed("auxiliary") \in AcceptedFor(StatusOf("origin", request))
    /\ Proves("origin", request, Claimed("auxiliary"))
    /\ Close("origin", request, "Progressed")
    /\ Settles(StakeSettled)
    /\ Mined("origin")
    /\ Verify(AssertProgressStake(event, request, balance, StakeSettled, TRUE))
    /\ UNCHANGED live

\* progressMintInternal, called by auxiliaryAccounts[0]: the call uses more gas
\* than the limit of the request, so the reward is the whole of it.
MintSettled ==
    LET amount == process["auxiliary"]["origin0"].amount IN
    IncreasedSupply(IncreasedSupply(balance, "auxiliary2", amount - request.reward),
                    "auxiliary0", request.reward)

ProgressMint ==
    /\ Calls("progressMint")
    /\ "ostPrime" \in live
    /\ StatusOf("auxiliary", request) = "Declared"
    /\ Close("auxiliary", request, "Progressed")
    /\ \E fee \in Fee : Settles(Paid(MintSettled, "auxiliary0", fee))
    /\ Mined("auxiliary")
    /\ Verify(AssertProgressMint(EventOn("auxiliary"), request, balance,
                                 MintSettled, FALSE))
    /\ UNCHANGED live

ProgressMintWithProof ==
    LET event == Emitted(process["auxiliary"]["origin0"], request.reward, TRUE)
    IN  /\ Calls("progressMintWithProof")
        /\ "ostPrime" \in live
        /\ StatusOf("auxiliary", request) = "Declared"
        /\ Claimed("origin") \in {"Declared", "Progressed"}
        /\ Proves("auxiliary", request, Claimed("origin"))
        /\ Close("auxiliary", request, "Progressed")
        /\ \E fee \in Fee : Settles(Paid(MintSettled, "auxiliary0", fee))
        /\ Mined("auxiliary")
        /\ Verify(AssertProgressMint(event, request, balance, MintSettled, TRUE))
        /\ UNCHANGED live

RevertStake ==
    LET b == Moved(balance, "baseToken", "origin0", "burner",
                   Penalty("origin", request))
    IN  /\ Calls("revertStake")
        /\ StatusOf("origin", request) = "Declared"
        /\ Close("origin", request, "DeclaredRevocation")
        /\ Settles(b)
        /\ Mined("origin")
        /\ Verify(AssertRevertStake(EventOn("origin"), request, balance, b))
        /\ UNCHANGED live

ConfirmRevertStakeIntent ==
    /\ Calls("confirmRevertStakeIntent")
    /\ StatusOf("auxiliary", request) = "Declared"
    /\ Proves("auxiliary", request, "DeclaredRevocation")
    /\ Close("auxiliary", request, "Revoked")
    /\ Mined("auxiliary")
    /\ Verify(AssertConfirmRevertStakeIntent(EventOn("auxiliary"), request))
    /\ UNCHANGED <<live, balance>>

ProgressRevertStake ==
    LET message == process["origin"]["origin0"]
        b == Moved(Moved(balance, "token", "gateway", "origin0", message.amount),
                   "baseToken", "gateway", "burner", message.bounty)
    IN  /\ Calls("progressRevertStake")
        /\ StatusOf("origin", request) = "DeclaredRevocation"
        /\ Proves("origin", request, "Revoked")
        /\ Close("origin", request, "Revoked")
        /\ Settles(b)
        /\ Mined("origin")
        /\ Verify(AssertProgressRevertStake(EventOn("origin"), request, balance, b))
        /\ UNCHANGED live

-----------------------------------------------------------------------------
\* The redeemer wraps what it redeems; the balances are captured after that.
Redeem ==
    /\ Calls("redeem")
    /\ Register("auxiliary", request)
    /\ \E fee \in Fee :
          LET wrapped == Wrapped(balance, "auxiliary2", request.amount)
              b == Moved(Moved(wrapped, "ostPrime", "auxiliary2", "coGateway",
                               request.amount),
                         "coin", "auxiliary2", "coGateway", Bounty)
          IN  /\ Settles(Paid(b, "auxiliary2", fee))
              /\ Verify(AssertRedeem(NewEvent, request, fee, wrapped,
                                     Paid(b, "auxiliary2", fee)))
    /\ Mined("auxiliary")
    /\ UNCHANGED live

RequestRedeem ==
    /\ Calls("requestRedeem")
    /\ request.nonce = GetNonce("auxiliary", "proxy")
    /\ \E fee \in Fee :
          LET wrapped == Wrapped(balance, "auxiliary2", request.amount)
              b == Paid(Moved(wrapped, "ostPrime", "auxiliary2", "redeemPool",
                              request.amount), "auxiliary2", fee)
          IN  /\ Settles(b)
              /\ Verify(AssertRequestRedeem(NewEvent, request, fee, wrapped, b))
    /\ Mined("auxiliary")
    /\ UNCHANGED <<live, process>>

\* The facilitator, who deployed the contracts, pays the bounty.  The pool moves
\* the tokens to the proxy, the proxy redeems them.
AcceptRedeem ==
    LET toProxy == Moved(Moved(balance, "ostPrime", "redeemPool", "proxy",
                               request.amount),
                         "coin", "auxiliary0", "proxy", Bounty)
        b == Moved(Moved(toProxy, "ostPrime", "proxy", "coGateway",
                         request.amount),
                   "coin", "proxy", "coGateway", Bounty)
    IN  /\ Calls("acceptRedeem")
        /\ Register("auxiliary", request)
        /\ \E fee \in Fee : Settles(Paid(b, "auxiliary0", fee))
        /\ Mined("auxiliary")
        /\ Verify(AssertAcceptRedeem(NewEvent, request))
        /\ UNCHANGED live

ConfirmRedeemIntent ==
    /\ Calls("confirmRedeemIntent")
    /\ Proves("origin", request, "Declared")
    /\ Register("origin", request)
    /\ Mined("origin")
    /\ Verify(AssertConfirmRedeemIntent(NewEvent, request))
    /\ UNCHANGED <<live, balance>>

\* Mutant: the redeemed tokens are not burnt.
RedeemSettledKeeping(fee) ==
    Paid(Moved(balance, "coin", "coGateway", "auxiliary2",
               process["auxiliary"][request.sender].bounty), "auxiliary2", fee)

\* progressRedeemInternal, called by the redeemer or whom the pool acted for.
RedeemSettled(fee) ==
    LET message == process["auxiliary"][request.sender]
        burnt == [balance EXCEPT !.ostPrime["coGateway"] = @ - message.amount]
    IN  Paid(Moved(burnt, "coin", "coGateway", "auxiliary2", message.bounty),
             "auxiliary2", fee)

ProgressRedeem ==
    /\ Calls("progressRedeem")
    /\ StatusOf("auxiliary", request) = "Declared"
    /\ Close("auxiliary", request, "Progressed")
    /\ \E fee \in Fee :
          /\ Settles(RedeemSettled(fee))
          /\ Verify(AssertProgressRedeem(EventOn("auxiliary"), request, fee,
                                         balance, RedeemSettled(fee), FALSE))
    /\ Mined("auxiliary")
    /\ UNCHANGED live

ProgressRedeemWithProof ==
    LET event == Emitted(process["auxiliary"][request.sender], 0, TRUE) IN
    /\ Calls("progressRedeemWithProof")
    /\ Claimed("origin") \in AcceptedFor(StatusOf("auxiliary", request))
    /\ Proves("auxiliary", request, Claimed("origin"))
    /\ Close("auxiliary", request, "Progressed")
    /\ \E fee \in Fee :
          /\ Settles(RedeemSettled(fee))
          /\ Verify(AssertProgressRedeem(event, request, fee, balance,
                                         RedeemSettled(fee), TRUE))
    /\ Mined("auxiliary")
    /\ UNCHANGED live

\* progressUnstakeInternal, called by originAccounts[0] for the whole reward.
UnstakeSettled ==
    LET amount == process["origin"][request.sender].amount IN
    Moved(Moved(balance, "token", "stakeVault", "origin2",
                amount - request.reward),
          "token", "stakeVault", "origin0", request.reward)

ProgressUnstake ==
    /\ Calls("progressUnstake")
    /\ StatusOf("origin", request) = "Declared"
    /\ Close("origin", request, "Progressed")
    /\ Settles(UnstakeSettled)
    /\ Mined("origin")
    /\ Verify(AssertProgressUnstake(EventOn("origin"), request, balance,
                                    UnstakeSettled, FALSE))
    /\ UNCHANGED live

ProgressUnstakeWithProof ==
    LET event == Emitted(process["origin"][request.sender], request.reward, TRUE)
    IN  /\ Calls("progressUnstakeWithProof")
        /\ StatusOf("origin", request) = "Declared"
        /\ Claimed("auxiliary") \in {"Declared", "Progressed"}
        /\ Proves("origin", request, Claimed("auxiliary"))
        /\ Close("origin", request, "Progressed")
        /\ Settles(UnstakeSettled)
        /\ Mined("origin")
        /\ Verify(AssertProgressUnstake(event, request, balance, UnstakeSettled,
                                        TRUE))
        /\ UNCHANGED live

RevertRedeem ==
    LET penalty == Penalty("auxiliary", request) IN
    /\ Calls("revertRedeem")
    /\ StatusOf("auxiliary", request) = "Declared"
    /\ Close("auxiliary", request, "DeclaredRevocation")
    /\ \E fee \in Fee :
          LET b == Paid(Moved(balance, "coin", "auxiliary2", "burner", penalty),
                        "auxiliary2", fee)
          IN  /\ Settles(b)
              /\ Verify(AssertRevertRedeem(EventOn("auxiliary"), request, penalty,
                                           fee, balance, b))
    /\ Mined("auxiliary")
    /\ UNCHANGED live

ConfirmRevertRedeemIntent ==
    /\ Calls("confirmRevertRedeemIntent")
    /\ StatusOf("origin", request) = "Declared"
    /\ Proves("origin", request, "DeclaredRevocation")
    /\ Close("origin", request, "Revoked")
    /\ Mined("origin")
    /\ Verify(AssertConfirmRevertRedeemIntent(EventOn("origin"), request))
    /\ UNCHANGED <<live, balance>>

\* Called by auxiliaryAccounts[0], so the redeemer pays no fee.
ProgressRevertRedeem ==
    LET message == process["auxiliary"][request.sender]
        b == Moved(Moved(balance, "ostPrime", "coGateway", "auxiliary2",
                         message.amount),
                   "coin", "coGateway", "burner", message.bounty)
    IN  /\ Calls("progressRevertRedeem")
        /\ StatusOf("auxiliary", request) = "DeclaredRevocation"
        /\ Proves("auxiliary", request, "Revoked")
        /\ Close("auxiliary", request, "Revoked")
        /\ \E fee \in Fee : Settles(Paid(b, "auxiliary0", fee))
        /\ Mined("auxiliary")
        /\ Verify(AssertProgressRevertRedeem(EventOn("auxiliary"), request,
                                             balance, b))
        /\ UNCHANGED live

-----------------------------------------------------------------------------
Finished == at > Len(Suite)

Next ==
    \/ DeployTokens \/ DeployGateways \/ ActivateGateway \/ InitializeOSTPrime
    \/ NewStakeRequest \/ NewRedeemRequest \/ NewPoolRequest
    \/ Stake \/ ConfirmStakeIntent
    \/ ProgressStake \/ ProgressStakeWithProof
    \/ ProgressMint \/ ProgressMintWithProof
    \/ RevertStake \/ ConfirmRevertStakeIntent \/ ProgressRevertStake
    \/ Redeem \/ RequestRedeem \/ AcceptRedeem \/ ConfirmRedeemIntent
    \/ ProgressRedeem \/ ProgressRedeemWithProof
    \/ ProgressUnstake \/ ProgressUnstakeWithProof
    \/ RevertRedeem \/ ConfirmRevertRedeemIntent \/ ProgressRevertRedeem

\* A test is run to its end, and the next one after it.
Spec == Init /\ [][Next]_vars /\ WF_vars(Next)

-----------------------------------------------------------------------------
\* Whatever the transactions cost, every expectation that the assertion classes
\* compute from the balances captured before a call is what the contracts do.
AssertionsHold == asserted

\* No call of the suite reverts: each test leaves the senders' processes, the
\* nonces, the vault and the anchors as the tests after it need them, and every
\* block a test wants to anchor is newer than the one anchored last.
SuiteFinishes == <>Finished

\* When a test is over, nothing is left with the contracts it went through, and
\* the vault on origin and the coins that OSTPrime still keeps make up the whole
\* supply: what is missing on one chain is on the other.
TestsSettle ==
    Finished \/ Suite[at][1] \in {"newStakeRequest", "newRedeemRequest",
                                  "newPoolRequest"} =>
        /\ \A h \in {"gateway", "coGateway", "redeemPool", "proxy"} :
              \A l \in Ledger : balance[l][h] = 0
        /\ balance.token["stakeVault"] + balance.coin["ostPrime"]
             = TokensMax + balance.ostPrime["auxiliary2"]
=============================================================================
