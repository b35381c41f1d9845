----------------------------- MODULE OriginCore -----------------------------
(***************************************************************************)
(* The core on origin: MosaicCore, which takes proposals for meta-blocks   *)
(* and commits the one that two thirds of the weight have voted for, and   *)
(* Stake, which keeps the deposits that the weights come from.             *)
(*                                                                         *)
(* A hash is modelled by the value it is taken of: a kernel holds its      *)
(* parent, the parent its kernel and its transition.  Signatures and the   *)
(* token of the deposits are left out, of a transition the gas, which is   *)
(* guarded like the dynasty, and the fields that are only stored.          *)
(***************************************************************************)
EXTENDS MetaBlock

CONSTANTS
    Validator,
    Deposits,        \* the amounts that are deposited
    Founding,        \* the stakes that initialize may be given
    MinimumWeight,
    Dynasty,         \* the auxiliary dynasties that proposals state
    MaxMetaBlock,    \* bound on the height of the open meta-block
    MaxProposals     \* bound on the proposals

ASSUME OriginAssumption ==
    /\ IsFiniteSet(Validator)
    /\ Deposits \subseteq Nat \ {0}
    /\ Founding \subseteq [Validator -> Deposits \cup {0}]
    /\ MinimumWeight \in Nat \ {0}
    /\ Dynasty \subseteq Nat
    /\ MaxMetaBlock \in Nat
    /\ MaxProposals \in Nat

VARIABLES
    isInitialized,
    stakes,           \* validators[v].stake, 0 if v was never deposited for
    startingHeights,  \* validators[v].startingHeight
    stakeHeight,      \* Stake.height
    openKernel,       \* [height, parent, updates]
    head,             \* [kernel, transition], the last committed meta-block
    seals             \* [transition -> [validators, totalVoteWeight]], of the
                      \* transitions that are proposed

stakeVars == <<isInitialized, stakes, startingHeights, stakeHeight>>
coreVars == <<openKernel, head, seals>>
originVars == <<stakeVars, coreVars>>

-----------------------------------------------------------------------------
\* Stake

ValidatorWeightAtHeight(h, v) == IF startingHeights[v] > h THEN 0 ELSE stakes[v]

TotalWeightAtHeight(h) ==
    SumOf([v \in Validator |-> ValidatorWeightAtHeight(h, v)])

AboveMinimumWeight == TotalWeightAtHeight(stakeHeight) >= MinimumWeight

\* updateAddresses and updateWeights: who starts at height h, with what weight.
UpdatesAt(h) ==
    [v \in {w \in Validator : stakes[w] > 0 /\ startingHeights[w] = h} |->
        stakes[v]]

StakeInitialize(initial) ==
    /\ ~isInitialized
    /\ SumOf(initial) >= MinimumWeight
    /\ isInitialized' = TRUE
    /\ stakes' = initial
    /\ UNCHANGED <<startingHeights, stakeHeight, coreVars>>

\* Mutant: the deposit counts in the meta-block that is open.
DepositAtOnce(v, amount) ==
    /\ AboveMinimumWeight
    /\ stakes[v] = 0
    /\ stakes' = [stakes EXCEPT ![v] = amount]
    /\ startingHeights' = [startingHeights EXCEPT ![v] = stakeHeight]
    /\ UNCHANGED <<isInitialized, stakeHeight, coreVars>>

Deposit(v, amount) ==
    /\ AboveMinimumWeight
    /\ stakes[v] = 0
    /\ stakes' = [stakes EXCEPT ![v] = amount]
    /\ startingHeights' = [startingHeights EXCEPT ![v] = stakeHeight + 2]
    /\ UNCHANGED <<isInitialized, stakeHeight, coreVars>>

-----------------------------------------------------------------------------
\* MosaicCore

\* The kernel that openNextKernel opens when t is committed.
NextKernel(kernel, t) ==
    [height |-> kernel.height + 1,
     parent |-> [kernel |-> kernel, transition |-> t],
     updates |-> UpdatesAt(kernel.height + 1)]

Proposed == DOMAIN seals

\* The kernels a proposal may name to any effect: it is not required to be the
\* open one, and the one that follows a proposal is known before it is opened.
Proposable ==
    {openKernel} \cup
    {NextKernel(openKernel, t) : t \in {p \in Proposed : p.kernel = openKernel}}

ProposeBlock(kernel, dynasty) ==
    LET transition == [kernel |-> kernel, dynasty |-> dynasty]
    IN  /\ dynasty > head.transition.dynasty
        /\ transition \notin Proposed
        /\ seals' = [t \in Proposed \cup {transition} |->
                        IF t = transition
                          THEN [validators |-> {}, totalVoteWeight |-> 0]
                          ELSE seals[t]]
        /\ UNCHANGED <<openKernel, head, stakeVars>>

\* Mutant: a vote is verified as often as it is handed in.
IsVoteOfWeight(t, v) == ValidatorWeightAtHeight(openKernel.height, v) > 0

IsVoteVerifiable(t, v) ==
    /\ ValidatorWeightAtHeight(openKernel.height, v) > 0
    /\ v \notin seals[t].validators

Sealed(t, v) ==
    [validators |-> seals[t].validators \cup {v},
     totalVoteWeight |->
         seals[t].totalVoteWeight + ValidatorWeightAtHeight(openKernel.height, v)]

\* commitMetaBlock, openNextKernel and Stake.closeMetaBlock, whose assertion is
\* a guard: a call that fails it is lost.
CommitMetaBlock(t) ==
    /\ AboveMinimumWeight
    /\ openKernel.height = stakeHeight
    /\ head' = [kernel |-> openKernel, transition |-> t]
    /\ openKernel' = NextKernel(openKernel, t)
    /\ stakeHeight' = stakeHeight + 1
    /\ UNCHANGED <<isInitialized, stakes, startingHeights>>

VerifyVote(t, v) ==
    LET seal == Sealed(t, v)
        required == RequiredWeight(TotalWeightAtHeight(openKernel.height))
    IN  /\ IsVoteVerifiable(t, v)
        /\ seals' = [seals EXCEPT ![t] = seal]
        /\ IF t.kernel = openKernel /\ seal.totalVoteWeight >= required
             THEN CommitMetaBlock(t)
             ELSE UNCHANGED <<openKernel, head, stakeVars>>

-----------------------------------------------------------------------------
\* The constructor, which reports the genesis meta-block and opens height 1.
NoUpdates == [v \in {} |-> 0]

OriginInit ==
    /\ isInitialized = FALSE
    /\ stakes = [v \in Validator |-> 0]
    /\ startingHeights = [v \in Validator |-> 0]
    /\ stakeHeight = 1
    /\ LET genesisKernel == [height |-> 0, updates |-> NoUpdates]
           transition == [kernel |-> genesisKernel, dynasty |-> 0]
           genesis == [kernel |-> genesisKernel, transition |-> transition]
       IN  /\ head = genesis
           /\ openKernel = [height |-> 1, parent |-> genesis, updates |-> NoUpdates]
    /\ seals = [t \in {} |-> {}]

OriginNext ==
    \/ \E initial \in Founding : StakeInitialize(initial)
    \/ \E v \in Validator, amount \in Deposits : Deposit(v, amount)
    \/ /\ stakeHeight < MaxMetaBlock
       /\ \/ /\ Cardinality(Proposed) < MaxProposals
             /\ \E kernel \in Proposable, d \in Dynasty : ProposeBlock(kernel, d)
          \/ \E t \in Proposed, v \in Validator : VerifyVote(t, v)

OriginSpec == OriginInit /\ [][OriginNext]_originVars

-----------------------------------------------------------------------------
\* The last committed meta-block has two thirds of the weight there was at its
\* height, each validator counted once, although votes may be verified before
\* the kernel that they are for is opened, with the weights of that time.
CommittedByMajority ==
    LET h == head.kernel.height
        voters == seals[head.transition].validators
    IN  h > 0 => 3 * SumOf([v \in voters |-> ValidatorWeightAtHeight(h, v)])
                    >= 2 * TotalWeightAtHeight(h)

\* Stake and the kernels that MosaicCore opens agree on the validators: the
\* updates of the kernels are all that ever joins, at the announced height.
OriginSet == INSTANCE ValidatorSet WITH
    height <- stakeHeight,
    weights <- [v \in Validator |-> ValidatorWeightAtHeight(stakeHeight, v)],
    total <- TotalWeightAtHeight(stakeHeight),
    updates <- openKernel.updates
OriginImplementsValidatorSet == OriginSet!Spec
=============================================================================
