--------------------------- MODULE EIP20CoGateway ---------------------------
(***************************************************************************)
(* gateway/EIP20CoGateway.sol: mint and redeem on the auxiliary chain.     *)
(* The utility token (a git submodule) is external: increaseSupply adds to *)
(* a balance, decreaseSupply takes from the co-gateway's own.  Bounties    *)
(* and penalties are paid in the base coin of the chain.                   *)
(***************************************************************************)
EXTENDS GatewayBase

VARIABLES
    redeems,            \* redeems[m]: the Redeem of an open redeem message
    mints,              \* mints[m]: the amount of an open stake message
    utilityBalance,     \* the utility token
    coinBalance         \* the base coin

coGatewayVars == <<redeems, mints, utilityBalance, coinBalance>>

EIP20CoGatewayTypeOK ==
    /\ redeems \in [Message -> Requests]
    /\ mints \in [Message -> Nat]
    /\ utilityBalance \in [Account \cup {"gateway"} -> Nat]
    /\ coinBalance \in [Account \cup {"gateway", "burner"} -> Nat]

EIP20CoGatewayInit(coin) ==
    /\ redeems = [m \in Message |-> NoRequest]
    /\ mints = [m \in Message |-> 0]
    /\ utilityBalance = [h \in Account \cup {"gateway"} |-> 0]
    /\ coinBalance = [h \in Account \cup {"gateway", "burner"} |->
                         IF h \in Account THEN coin[h] ELSE 0]

\* UtilityToken.increaseSupply
IncreaseSupply(ledger, payee, amount) == [ledger EXCEPT ![payee] = @ + amount]

\* UtilityToken.decreaseSupply, called by the co-gateway.
DecreaseSupply(ledger, amount) == [ledger EXCEPT !["gateway"] = @ - amount]

-----------------------------------------------------------------------------
\* confirmStakeIntent; the beneficiary must be known to the utility token.
ConfirmStakeIntent(m) ==
    /\ m \in Acceptable
    /\ ValidAmount(m)
    /\ RegisterInboxProcess("auxiliary", m)
    /\ mints' = [mints EXCEPT ![m] = Amount[m]]
    /\ ConfirmMessage(m)
    /\ UNCHANGED <<redeems, utilityBalance, coinBalance>>

\* Mutant: the fee is minted on top of the amount.
ProgressMintInternalAndFee(caller, m, fee) ==
    /\ mints[m] > 0
    /\ mints' = [mints EXCEPT ![m] = 0]
    /\ utilityBalance' =
         IncreaseSupply(IncreaseSupply(utilityBalance, Beneficiary[m], mints[m]),
                        caller, fee)
    /\ UNCHANGED <<baseVars, redeems, coinBalance>>

\* progressMintInternal: new tokens for the beneficiary and, as its fee, for
\* the caller.
ProgressMintInternal(caller, m, fee) ==
    /\ mints[m] > 0
    /\ mints' = [mints EXCEPT ![m] = 0]
    /\ utilityBalance' =
         IncreaseSupply(
             IncreaseSupply(utilityBalance, Beneficiary[m], mints[m] - fee),
             caller, fee)
    /\ UNCHANGED <<baseVars, redeems, coinBalance>>

ProgressMint(caller, m, unlockSecret, fee) ==
    /\ Stored("auxiliary", m)
    /\ ProgressInbox(m, unlockSecret)
    /\ ProgressMintInternal(caller, m, fee)

ProgressMintWithProof(caller, m, fee) ==
    /\ Stored("auxiliary", m)
    /\ ProgressInboxWithProof(m)
    /\ ProgressMintInternal(caller, m, fee)

\* Mutant: the mint of a revoked stake stays on record.
ConfirmRevertStakeIntentKeeping(m) ==
    /\ mints[m] > 0
    /\ Stored("auxiliary", m)
    /\ ConfirmRevocation(m)
    /\ UNCHANGED <<baseVars, redeems, mints, utilityBalance, coinBalance>>

ConfirmRevertStakeIntent(m) ==
    /\ mints[m] > 0
    /\ mints' = [mints EXCEPT ![m] = 0]
    /\ Stored("auxiliary", m)
    /\ ConfirmRevocation(m)
    /\ UNCHANGED <<baseVars, redeems, utilityBalance, coinBalance>>

-----------------------------------------------------------------------------
\* redeem, sent by the redeemer with the bounty as its value.
Redeem(m) ==
    /\ ValidAmount(m)
    /\ RegisterOutboxProcess("auxiliary", m)
    /\ redeems' = [redeems EXCEPT
         ![m] = [amount |-> Amount[m], bounty |-> bounty["auxiliary"]]]
    /\ DeclareMessage(m)
    /\ Covers(utilityBalance, Sender[m], Amount[m])
    /\ utilityBalance' =
         Transfer(utilityBalance, Sender[m], "gateway", Amount[m])
    /\ Covers(coinBalance, Sender[m], bounty["auxiliary"])
    /\ coinBalance' =
         Transfer(coinBalance, Sender[m], "gateway", bounty["auxiliary"])
    /\ UNCHANGED mints

\* progressRedeemInternal: the redeemed tokens are gone, the bounty is the
\* caller's.
ProgressRedeemInternal(caller, m) ==
    /\ redeems[m].amount > 0
    /\ redeems' = [redeems EXCEPT ![m] = NoRequest]
    /\ Covers(utilityBalance, "gateway", redeems[m].amount)
    /\ utilityBalance' = DecreaseSupply(utilityBalance, redeems[m].amount)
    /\ Covers(coinBalance, "gateway", redeems[m].bounty)
    /\ coinBalance' = Transfer(coinBalance, "gateway", caller, redeems[m].bounty)
    /\ UNCHANGED <<baseVars, mints>>

ProgressRedeem(caller, m, unlockSecret) ==
    /\ Stored("auxiliary", m)
    /\ ProgressOutbox(m, unlockSecret)
    /\ ProgressRedeemInternal(caller, m)

ProgressRedeemWithProof(caller, m) ==
    /\ Stored("auxiliary", m)
    /\ ProgressOutboxWithProof(m)
    /\ ProgressRedeemInternal(caller, m)

\* revertRedeem, sent by the redeemer with the penalty as its value.
RevertRedeem(m) ==
    /\ Stored("auxiliary", m)
    /\ DeclareRevocationMessage(m)
    /\ Covers(coinBalance, Sender[m], Penalty(redeems[m].bounty))
    /\ coinBalance' =
         Transfer(coinBalance, Sender[m], "burner", Penalty(redeems[m].bounty))
    /\ UNCHANGED <<baseVars, redeems, mints, utilityBalance>>

ProgressRevertRedeem(m) ==
    /\ Stored("auxiliary", m)
    /\ redeems[m].amount > 0
    /\ ProgressOutboxRevocation(m)
    /\ redeems' = [redeems EXCEPT ![m] = NoRequest]
    /\ Covers(utilityBalance, "gateway", redeems[m].amount)
    /\ utilityBalance' =
         Transfer(utilityBalance, "gateway", Sender[m], redeems[m].amount)
    /\ Covers(coinBalance, "gateway", redeems[m].bounty)
    /\ coinBalance' =
         Transfer(coinBalance, "gateway", "burner", redeems[m].bounty)
    /\ UNCHANGED <<baseVars, mints>>

EIP20CoGatewayNext ==
    \/ \E m \in StakeMessage :
          \/ ConfirmStakeIntent(m) \/ ConfirmRevertStakeIntent(m)
          \/ \E caller \in Account, fee \in Fees(m) :
                \/ \E unlockSecret \in Secret :
                      ProgressMint(caller, m, unlockSecret, fee)
                \/ ProgressMintWithProof(caller, m, fee)
    \/ \E m \in RedeemMessage :
          \/ Redeem(m) \/ RevertRedeem(m) \/ ProgressRevertRedeem(m)
          \/ \E caller \in Account :
                \/ \E unlockSecret \in Secret :
                      ProgressRedeem(caller, m, unlockSecret)
                \/ ProgressRedeemWithProof(caller, m)
=============================================================================
