---------------------------- MODULE BountyChange ----------------------------
(***************************************************************************)
(* The bounty of GatewayBase.sol: the organization proposes another amount *)
(* and may put it into force after an unlock period, counted in blocks.    *)
(***************************************************************************)
EXTENDS Naturals

CONSTANTS
    Bounties,       \* the amounts the organization may propose
    UnlockPeriod,   \* BOUNTY_CHANGE_UNLOCK_PERIOD
    DeployHeight,   \* the block the gateway is constructed in
    MaxHeight       \* bound on block.number

ASSUME BountyAssumption ==
    /\ Bounties \subseteq Nat
    /\ UnlockPeriod \in Nat \ {0}
    /\ DeployHeight \in Nat \ {0}
    /\ MaxHeight \in Nat

VARIABLES
    bounty,
    proposedBounty,
    proposedBountyUnlockHeight,
    blockNumber,                \* block.number
    announced                   \* history: the block and amount of the last
                                \* proposal, a set of at most one pair

bountyVars == <<bounty, proposedBounty, proposedBountyUnlockHeight, blockNumber,
          announced>>

BountyTypeOK ==
    /\ bounty \in Bounties \cup {0}
    /\ proposedBounty \in Bounties \cup {0}
    /\ proposedBountyUnlockHeight \in Nat
    /\ blockNumber \in DeployHeight .. MaxHeight
    /\ announced \in SUBSET [amount : Bounties, height : Nat]

BountyInit ==
    /\ bounty \in Bounties
    /\ proposedBounty = 0
    /\ proposedBountyUnlockHeight = 0
    /\ blockNumber = DeployHeight
    /\ announced = {}

\* Mutant: a proposal that replaces another one inherits its unlock height.
InitiateBountyAmountChangeKeepingHeight(amount) ==
    /\ proposedBounty' = amount
    /\ proposedBountyUnlockHeight' =
         IF proposedBountyUnlockHeight = 0
           THEN blockNumber + UnlockPeriod
           ELSE proposedBountyUnlockHeight
    /\ announced' = {[amount |-> amount, height |-> blockNumber]}
    /\ UNCHANGED <<bounty, blockNumber>>

InitiateBountyAmountChange(amount) ==
    /\ proposedBounty' = amount
    /\ proposedBountyUnlockHeight' = blockNumber + UnlockPeriod
    /\ announced' = {[amount |-> amount, height |-> blockNumber]}
    /\ UNCHANGED <<bounty, blockNumber>>

ConfirmBountyAmountChange ==
    /\ proposedBounty # bounty
    /\ proposedBountyUnlockHeight < blockNumber
    /\ bounty' = proposedBounty
    /\ proposedBounty' = 0
    /\ proposedBountyUnlockHeight' = 0
    /\ UNCHANGED <<blockNumber, announced>>

NextBlock ==
    /\ blockNumber < MaxHeight
    /\ blockNumber' = blockNumber + 1
    /\ UNCHANGED <<bounty, proposedBounty, proposedBountyUnlockHeight,
                   announced>>

BountyNext ==
    \/ \E amount \in Bounties : InitiateBountyAmountChange(amount)
    \/ ConfirmBountyAmountChange
    \/ NextBlock

BountySpec == BountyInit /\ [][BountyNext]_bountyVars

-----------------------------------------------------------------------------
\* The change from b to c was announced as the latest proposal and stakers had
\* more than an unlock period of blocks to react to it.
Noticed(c) ==
    \E proposal \in announced :
        proposal.amount = c /\ proposal.height + UnlockPeriod < blockNumber

\* No sequence of proposals, replaced proposals and confirmations brings a
\* bounty other than zero into force without notice (initiate overwrites both
\* the amount and the height, confirm clears both).
ChangesAreNoticed == [][bounty' # bounty => bounty' = 0 \/ Noticed(bounty')]_bountyVars

\* "Confirm bounty amount change can only be done after unlock period."
EveryChangeIsNoticed == [][bounty' # bounty => Noticed(bounty')]_bountyVars
=============================================================================
