---------------------------- MODULE EIP20Gateway ----------------------------
(***************************************************************************)
(* gateway/EIP20Gateway.sol with its vault gateway/SimpleStake.sol: stake  *)
(* and unstake on the origin chain.  One action is one transaction; a      *)
(* transaction that reverts changes nothing and is not a step.             *)
(***************************************************************************)
EXTENDS GatewayBase

VARIABLES
    activated,      \* stake is allowed
    remoteGateway,  \* activateGateway has set the co-gateway's address
    stakes,         \* stakes[m]: the Stake of an open stake message
    unstakes,       \* unstakes[m]: the amount of an open redeem message
    valueBalance,   \* the value token
    baseBalance     \* the base token, in which bounties are paid

gatewayVars ==
    <<activated, remoteGateway, stakes, unstakes, valueBalance, baseBalance>>

EIP20GatewayTypeOK ==
    /\ activated \in BOOLEAN
    /\ remoteGateway \in BOOLEAN
    /\ stakes \in [Message -> Requests]
    /\ unstakes \in [Message -> Nat]
    /\ valueBalance \in [Account \cup {"gateway", "stakeVault"} -> Nat]
    /\ baseBalance \in [Account \cup {"gateway", "burner"} -> Nat]

EIP20GatewayInit(value, base) ==
    /\ activated = FALSE
    /\ remoteGateway = FALSE
    /\ stakes = [m \in Message |-> NoRequest]
    /\ unstakes = [m \in Message |-> 0]
    /\ valueBalance = [h \in Account \cup {"gateway", "stakeVault"} |->
                         IF h \in Account THEN value[h] ELSE 0]
    /\ baseBalance = [h \in Account \cup {"gateway", "burner"} |->
                         IF h \in Account THEN base[h] ELSE 0]

-----------------------------------------------------------------------------
\* stake, sent by the staker.
Stake(m) ==
    /\ activated
    /\ ValidAmount(m)
    /\ RegisterOutboxProcess("origin", m)
    /\ stakes' = [stakes EXCEPT
         ![m] = [amount |-> Amount[m], bounty |-> bounty["origin"]]]
    /\ DeclareMessage(m)
    /\ Covers(valueBalance, Sender[m], Amount[m])
    /\ valueBalance' = Transfer(valueBalance, Sender[m], "gateway", Amount[m])
    /\ Covers(baseBalance, Sender[m], bounty["origin"])
    /\ baseBalance' =
         Transfer(baseBalance, Sender[m], "gateway", bounty["origin"])
    /\ UNCHANGED <<activated, remoteGateway, unstakes>>

\* Mutant: the caller gets the bounty of today, not that of the stake.
ProgressStakeInternalBountyNow(caller, m) ==
    /\ stakes[m].amount > 0
    /\ stakes' = [stakes EXCEPT ![m] = NoRequest]
    /\ Covers(valueBalance, "gateway", stakes[m].amount)
    /\ valueBalance' =
         Transfer(valueBalance, "gateway", "stakeVault", stakes[m].amount)
    /\ Covers(baseBalance, "gateway", bounty["origin"])
    /\ baseBalance' = Transfer(baseBalance, "gateway", caller, bounty["origin"])
    /\ UNCHANGED <<baseVars, activated, remoteGateway, unstakes>>

\* Mutant: the message of the completed process is cleaned up at once.
ProgressStakeInternalDeleting(caller, m) ==
    /\ stakes[m].amount > 0
    /\ stakes' = [stakes EXCEPT ![m] = NoRequest]
    /\ valueBalance' =
         Transfer(valueBalance, "gateway", "stakeVault", stakes[m].amount)
    /\ baseBalance' = Transfer(baseBalance, "gateway", caller, stakes[m].bounty)
    /\ messages' = [messages EXCEPT !["origin"] = @ \ {m}]
    /\ UNCHANGED <<outboxActiveProcess, inboxActiveProcess, bounty, activated,
                   remoteGateway, unstakes>>

\* progressStakeInternal: the stake goes to the vault, its bounty to the caller.
ProgressStakeInternal(caller, m) ==
    /\ stakes[m].amount > 0
    /\ stakes' = [stakes EXCEPT ![m] = NoRequest]
    /\ Covers(valueBalance, "gateway", stakes[m].amount)
    /\ valueBalance' =
         Transfer(valueBalance, "gateway", "stakeVault", stakes[m].amount)
    /\ Covers(baseBalance, "gateway", stakes[m].bounty)
    /\ baseBalance' = Transfer(baseBalance, "gateway", caller, stakes[m].bounty)
    /\ UNCHANGED <<baseVars, activated, remoteGateway, unstakes>>

ProgressStake(caller, m, unlockSecret) ==
    /\ Stored("origin", m)
    /\ ProgressOutbox(m, unlockSecret)
    /\ ProgressStakeInternal(caller, m)

ProgressStakeWithProof(caller, m) ==
    /\ Stored("origin", m)
    /\ ProgressOutboxWithProof(m)
    /\ ProgressStakeInternal(caller, m)

\* Mutant: a staker revokes alone, without asking the target.
RevertStakeAtOnce(m) ==
    /\ Stored("origin", m)
    /\ Outbox(m) = "Declared"
    /\ SetOutbox(m, "Revoked")
    /\ baseBalance' =
         Transfer(baseBalance, Sender[m], "burner", Penalty(stakes[m].bounty))
    /\ UNCHANGED <<rootVars, baseVars, activated, remoteGateway, stakes, unstakes,
                   valueBalance>>

\* revertStake, sent by the staker, who pays the penalty of the bounty the
\* stake was declared with.
RevertStake(m) ==
    /\ Stored("origin", m)
    /\ DeclareRevocationMessage(m)
    /\ Covers(baseBalance, Sender[m], Penalty(stakes[m].bounty))
    /\ baseBalance' =
         Transfer(baseBalance, Sender[m], "burner", Penalty(stakes[m].bounty))
    /\ UNCHANGED <<baseVars, activated, remoteGateway, stakes, unstakes,
                   valueBalance>>

ProgressRevertStake(m) ==
    /\ Stored("origin", m)
    /\ stakes[m].amount > 0
    /\ ProgressOutboxRevocation(m)
    /\ stakes' = [stakes EXCEPT ![m] = NoRequest]
    /\ Covers(valueBalance, "gateway", stakes[m].amount)
    /\ valueBalance' =
         Transfer(valueBalance, "gateway", Sender[m], stakes[m].amount)
    /\ Covers(baseBalance, "gateway", stakes[m].bounty)
    /\ baseBalance' =
         Transfer(baseBalance, "gateway", "burner", stakes[m].bounty)
    /\ UNCHANGED <<baseVars, activated, remoteGateway, unstakes>>

-----------------------------------------------------------------------------
ConfirmRedeemIntent(m) ==
    /\ m \in Acceptable
    /\ ValidAmount(m)
    /\ RegisterInboxProcess("origin", m)
    /\ unstakes' = [unstakes EXCEPT ![m] = Amount[m]]
    /\ ConfirmMessage(m)
    /\ UNCHANGED <<activated, remoteGateway, stakes, valueBalance, baseBalance>>

\* progressUnstakeInternal: SimpleStake.releaseTo pays the beneficiary, then
\* the caller its fee; both come out of the vault or the call reverts.
ProgressUnstakeInternal(caller, m, fee) ==
    /\ unstakes[m] > 0
    /\ unstakes' = [unstakes EXCEPT ![m] = 0]
    /\ Covers(valueBalance, "stakeVault", unstakes[m])
    /\ valueBalance' =
         Transfer(Transfer(valueBalance, "stakeVault", Beneficiary[m],
                           unstakes[m] - fee),
                  "stakeVault", caller, fee)
    /\ UNCHANGED <<baseVars, activated, remoteGateway, stakes, baseBalance>>

ProgressUnstake(caller, m, unlockSecret, fee) ==
    /\ Stored("origin", m)
    /\ ProgressInbox(m, unlockSecret)
    /\ ProgressUnstakeInternal(caller, m, fee)

ProgressUnstakeWithProof(caller, m, fee) ==
    /\ Stored("origin", m)
    /\ ProgressInboxWithProof(m)
    /\ ProgressUnstakeInternal(caller, m, fee)

ConfirmRevertRedeemIntent(m) ==
    /\ unstakes[m] > 0
    /\ unstakes' = [unstakes EXCEPT ![m] = 0]
    /\ Stored("origin", m)
    /\ ConfirmRevocation(m)
    /\ UNCHANGED <<baseVars, activated, remoteGateway, stakes, valueBalance,
                   baseBalance>>

-----------------------------------------------------------------------------
\* activateGateway: once, and not again after deactivateGateway.
ActivateGateway ==
    /\ ~remoteGateway
    /\ remoteGateway' = TRUE
    /\ activated' = TRUE
    /\ UNCHANGED <<busVars, baseVars, stakes, unstakes, valueBalance,
                   baseBalance>>

DeactivateGateway ==
    /\ activated
    /\ activated' = FALSE
    /\ UNCHANGED <<busVars, baseVars, remoteGateway, stakes, unstakes,
                   valueBalance, baseBalance>>

EIP20GatewayNext ==
    \/ \E m \in StakeMessage :
          \/ Stake(m) \/ RevertStake(m) \/ ProgressRevertStake(m)
          \/ \E caller \in Account :
                \/ \E unlockSecret \in Secret :
                      ProgressStake(caller, m, unlockSecret)
                \/ ProgressStakeWithProof(caller, m)
    \/ \E m \in RedeemMessage :
          \/ ConfirmRedeemIntent(m) \/ ConfirmRevertRedeemIntent(m)
          \/ \E caller \in Account, fee \in Fees(m) :
                \/ \E unlockSecret \in Secret :
                      ProgressUnstake(caller, m, unlockSecret, fee)
                \/ ProgressUnstakeWithProof(caller, m, fee)
    \/ ActivateGateway
    \/ DeactivateGateway
=============================================================================
