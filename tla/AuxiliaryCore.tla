--------------------------- MODULE AuxiliaryCore ---------------------------
(***************************************************************************)
(* The core on auxiliary: the polling place, where validators vote for     *)
(* links between checkpoints of either chain; the block stores, in which a *)
(* link with two thirds of the weight is justified; and the kernel         *)
(* gateway, which is proven the kernel of the next meta-block and keeps it *)
(* until the auxiliary store activates it in the middle of a vote.         *)
(*                                                                         *)
(* A kernel is identified with its height, as there is one chain of them   *)
(* on origin.  The contracts are deployed and initialized.  The core on    *)
(* origin is external here, see OriginCore: it commits a transition that   *)
(* has a majority, and each block of origin carries the kernel that is     *)
(* open in it.  Proofs and signatures are valid.                           *)
(***************************************************************************)
EXTENDS BlockStore, MetaBlock, Sequences

CONSTANTS
    Voter,       \* the addresses that may become validators
    Initial,     \* [subset of Voter -> weight], the first validators
    Joining,     \* [kernel -> [subset of Voter -> weight]], its updates
    MaxTarget    \* bound on the target heights that votes state

\* Stake takes one deposit per validator, see OriginCore: nobody joins twice, and
\* nobody with the first kernel, which MosaicCore opens in its constructor.
ASSUME VoterAssumption ==
    /\ IsFiniteSet(Voter)
    /\ DOMAIN Initial \subseteq Voter /\ DOMAIN Initial # {}
    /\ Initial \in [DOMAIN Initial -> Nat]
    /\ DOMAIN Joining \subseteq Nat
    /\ 1 \in DOMAIN Joining /\ Joining[1] = [v \in {} |-> 0]
    /\ \A k \in DOMAIN Joining :
         /\ DOMAIN Joining[k] \subseteq Voter \ DOMAIN Initial
         /\ Joining[k] \in [DOMAIN Joining[k] -> Nat \ {0}]
         /\ \A l \in DOMAIN Joining \ {k} : DOMAIN Joining[k] \cap DOMAIN Joining[l] = {}
    /\ MaxTarget \in Nat

VARIABLES
    \* AuxiliaryBlockStore
    originAt,          \* [reported block -> [dynasty, head] of the origin store]
    kernelHashes,      \* [checkpoint -> kernel]
    \* KernelGateway
    activeKernel,
    provenKernel,      \* openKernelHash, 0 if there is none
    activationHeight,  \* openKernelActivationHeight
    storageRoots,      \* [height of an origin block -> the kernel open in it]
    \* PollingPlace
    votesWeights,      \* [vote that was cast -> weight]
    targetHeights,     \* validatorTargetHeights
    metaBlockHeight,   \* currentMetaBlockHeight
    weights,           \* [Voter -> weight], 0 for who is no validator
    totalWeights,      \* [0 .. metaBlockHeight -> weight]
    coreHeights,       \* [Core -> height]
    \* External: MosaicCore and the blocks of origin it is in
    committed,         \* the transitions that were committed, in order
    openings           \* [reported origin block -> the kernel open in it]

gatewayVars == <<activeKernel, provenKernel, activationHeight>>
pollVars == <<votesWeights, targetHeights>>
setVars == <<metaBlockHeight, weights, totalWeights, coreHeights>>
externalVars == <<committed, openings>>
auxiliaryVars == <<storeVars, originAt, kernelHashes, gatewayVars, storageRoots,
                   pollVars, setVars, externalVars>>

AuxiliaryInit ==
    /\ StoreInit
    /\ originAt = [b \in {First[Auxiliary]} |-> [dynasty |-> 0, head |-> NoBlock]]
    /\ kernelHashes = [b \in {First[Auxiliary]} |-> 1]
    /\ activeKernel = 1
    /\ provenKernel = 0
    /\ activationHeight = 0
    /\ storageRoots = <<>>
    /\ votesWeights = <<>>
    /\ targetHeights = [v \in Voter |-> 0]
    /\ metaBlockHeight = 0
    /\ weights = [v \in Voter |-> IF v \in DOMAIN Initial THEN Initial[v] ELSE 0]
    /\ totalWeights = [h \in {0} |-> SumOf(Initial)]
    /\ coreHeights = [c \in Core |-> 0]
    /\ committed = <<>>
    /\ openings = [b \in {First[Origin]} |-> 1]

-----------------------------------------------------------------------------
\* The block stores

\* The kernel that MosaicCore has open.
OpenOnOrigin == Len(committed) + 1

\* Kernels are opened in the order of the blocks of origin.
MayOpen(b, kernel) ==
    \A other \in DOMAIN openings :
        /\ HeightOf[other] =< HeightOf[b] => openings[other] =< kernel
        /\ HeightOf[other] >= HeightOf[b] => openings[other] >= kernel

\* BlockStore.reportBlock, for which no parent is needed.
ReportOriginBlock(b, kernel) ==
    /\ b \notin reported
    /\ MayOpen(b, kernel)
    /\ reported' = reported \cup {b}
    /\ openings' = [o \in DOMAIN openings \cup {b} |->
                        IF o = b THEN kernel ELSE openings[o]]
    /\ UNCHANGED <<checkpoints, heads, dynasties, originAt, kernelHashes,
                   gatewayVars, storageRoots, pollVars, setVars, committed>>

\* AuxiliaryBlockStore.reportBlock, which may report a block again.
ReportAuxiliaryBlock(b) ==
    /\ ParentOf[b] \in reported
    /\ reported' = reported \cup {b}
    /\ originAt' =
         [a \in DOMAIN originAt \cup {b} |->
            IF a = b
              THEN [dynasty |-> dynasties[Origin], head |-> heads[Origin]]
              ELSE originAt[a]]
    /\ UNCHANGED <<checkpoints, heads, dynasties, kernelHashes, gatewayVars,
                   storageRoots, pollVars, setVars, externalVars>>

\* The object whose hash is the transition hash at a checkpoint.
TransitionAt(c, b) ==
    IF c = Origin
      THEN [dynasty |-> checkpoints[b].dynasty, block |-> b]
      ELSE [kernel |-> kernelHashes[b], dynasty |-> checkpoints[b].dynasty,
            block |-> b, origin |-> originAt[b]]

-----------------------------------------------------------------------------
\* The kernel gateway

ProveMosaicCore(b) ==
    /\ HasStateRoot(Origin, b)
    /\ HeightOf[b] \notin DOMAIN storageRoots
    /\ storageRoots' = [h \in DOMAIN storageRoots \cup {HeightOf[b]} |->
                            IF h = HeightOf[b] THEN openings[b] ELSE storageRoots[h]]
    /\ UNCHANGED <<storeVars, originAt, kernelHashes, gatewayVars, pollVars,
                   setVars, externalVars>>

\* proveBlockOpening: of the kernel that follows the active one, whose parent
\* closes the meta-block of the active one at checkpoint b.
ProveBlockOpening(originHeight, b) ==
    /\ provenKernel = 0
    /\ originHeight =< HeightAt(heads[Origin])
    /\ storageRoots[originHeight] = activeKernel + 1
    /\ IsCheckpoint(b)
    /\ activeKernel \in DOMAIN committed
    /\ committed[activeKernel] = TransitionAt(Auxiliary, b)
    /\ provenKernel' = activeKernel + 1
    /\ activationHeight' = dynasties[Auxiliary] + 2
    /\ UNCHANGED <<storeVars, originAt, kernelHashes, activeKernel, storageRoots,
                   pollVars, setVars, externalVars>>

-----------------------------------------------------------------------------
\* The polling place

\* Mutant: the weight of the previous meta-block is not carried over.
TotalAfterUpdatesAlone(joining) == SumOf(joining)

TotalAfter(joining) == totalWeights[metaBlockHeight] + SumOf(joining)

\* What updateMetaBlock requires, or the whole vote is lost.  The heights it is
\* given are the dynasties of the stores.
MayUpdate(joining) ==
    /\ \A v \in DOMAIN joining : joining[v] > 0 /\ weights[v] = 0
    /\ \A c \in Core : dynasties'[c] > coreHeights[c]

\* Mutant: the two heights change places.
NewCoreHeightsSwapped ==
    [c \in Core |-> IF c = Origin THEN dynasties'[Auxiliary] ELSE dynasties'[Origin]]

NewCoreHeights == dynasties'

UpdateMetaBlock(joining) ==
    /\ MayUpdate(joining)
    /\ metaBlockHeight' = metaBlockHeight + 1
    /\ weights' = [v \in Voter |-> IF v \in DOMAIN joining THEN joining[v] ELSE weights[v]]
    /\ totalWeights' = [h \in 0 .. metaBlockHeight + 1 |->
                            IF h > metaBlockHeight THEN TotalAfter(joining)
                                                   ELSE totalWeights[h]]
    /\ coreHeights' = NewCoreHeights

\* The open kernel becomes active in the justification that brings the dynasty
\* to exactly its activation height.
Activates == provenKernel # 0 /\ activationHeight = dynasties'[Auxiliary]

ActivateKernel ==
    IF Activates
      THEN /\ UpdateMetaBlock(Joining[provenKernel])
           /\ activeKernel' = provenKernel
           /\ provenKernel' = 0
      ELSE UNCHANGED <<setVars, activeKernel, provenKernel>>

\* justify of the store that the vote is for.
Justify(c, s, t) ==
    /\ JustifyInStore(c, s, t)
    /\ IF c = Auxiliary
         THEN /\ ActivateKernel
              /\ kernelHashes' = [b \in DOMAIN kernelHashes \cup {t} |->
                    IF b = t THEN activeKernel' ELSE kernelHashes[b]]
         ELSE UNCHANGED <<setVars, activeKernel, provenKernel, kernelHashes>>

\* Mutant: a validator may vote for the same target height again.
MayVoteAgain(v, target) == weights[v] > 0 /\ target >= targetHeights[v]

\* One target height per validator, whichever core the vote is for.
MayVote(v, target) == weights[v] > 0 /\ target > targetHeights[v]

Weight(vote) == IF vote \in DOMAIN votesWeights THEN votesWeights[vote] ELSE 0

\* vote and storeVote.  The heights in a vote are not compared with those of
\* the blocks; the source height is left out, any smaller one will do.
Vote(v, c, s, t, target) ==
    LET vote == [core |-> c, transition |-> TransitionAt(c, s),
                 source |-> s, target |-> t, targetHeight |-> target]
        weight == Weight(vote) + weights[v]
    IN  /\ MayVote(v, target)
        /\ target > coreHeights[c]
        /\ IsSourceValid(s)
        /\ IsTargetValid(c, s, t)
        /\ targetHeights' = [targetHeights EXCEPT ![v] = target]
        /\ votesWeights' = [m \in DOMAIN votesWeights \cup {vote} |->
                                IF m = vote THEN weight ELSE votesWeights[m]]
        /\ IF weight >= RequiredWeight(totalWeights[metaBlockHeight])
             THEN Justify(c, s, t)
             ELSE UNCHANGED <<storeVars, setVars, activeKernel, provenKernel,
                              kernelHashes>>
        /\ UNCHANGED <<originAt, activationHeight, storageRoots, externalVars>>

-----------------------------------------------------------------------------
\* External: MosaicCore commits a proposal that states the transition of a vote
\* with a majority.
Commit(vote) ==
    LET t == vote.transition
    IN  /\ vote.core = Auxiliary
        /\ votesWeights[vote] >= RequiredWeight(totalWeights[metaBlockHeight])
        /\ t.kernel = OpenOnOrigin
        /\ t.dynasty > (IF committed = <<>> THEN 0 ELSE committed[Len(committed)].dynasty)
        /\ t.origin.dynasty > 0 /\ t.origin.head # NoBlock
        /\ committed' = Append(committed, t)
        /\ UNCHANGED <<storeVars, originAt, kernelHashes, gatewayVars, storageRoots,
                       pollVars, setVars, openings>>

\* A target height is one that was voted for already or a higher one.
Targets ==
    LET used == {targetHeights[v] : v \in Voter}
    IN  (used \cup {Max(used) + 1}) \cap (1 .. MaxTarget)

AuxiliaryNext ==
    \/ \E b \in BlocksOf[Origin], kernel \in 1 .. OpenOnOrigin :
          ReportOriginBlock(b, kernel)
    \/ \E b \in BlocksOf[Auxiliary] \ {First[Auxiliary]} : ReportAuxiliaryBlock(b)
    \/ \E b \in BlocksOf[Origin] : ProveMosaicCore(b)
    \/ \E h \in DOMAIN storageRoots, b \in BlocksOf[Auxiliary] :
          ProveBlockOpening(h, b)
    \/ \E v \in Voter, c \in Core, target \in Targets :
          \E s \in BlocksOf[c] \cap DOMAIN checkpoints, t \in BlocksOf[c] \cap reported :
             Vote(v, c, s, t, target)
    \/ /\ OpenOnOrigin + 1 \in DOMAIN Joining
       /\ \E vote \in DOMAIN votesWeights : Commit(vote)

AuxiliarySpec == AuxiliaryInit /\ [][AuxiliaryNext]_auxiliaryVars

-----------------------------------------------------------------------------
\* An open kernel is never passed over, although it is activated at one dynasty
\* alone: the dynasty has not reached that height, the update will not be
\* refused then, which would stop the justifications of auxiliary for good, and
\* the polling place is in the meta-block of the active kernel.
ActivationIsNotMissed ==
    /\ metaBlockHeight + 1 = activeKernel
    /\ provenKernel # 0 =>
          /\ provenKernel = activeKernel + 1
          /\ dynasties[Auxiliary] < activationHeight
          /\ dynasties[Origin] > coreHeights[Origin]
          /\ activationHeight > coreHeights[Auxiliary]
          /\ \A v \in DOMAIN Joining[provenKernel] : weights[v] = 0

\* No vote gets more than the weight of all validators: each of them counts
\* once for it, over any number of meta-blocks and with whatever heights.
VotesWithinTotal ==
    \A vote \in DOMAIN votesWeights :
        votesWeights[vote] =< totalWeights[metaBlockHeight]

\* The polling place and the kernels that are activated agree on the validators.
AuxiliarySet == INSTANCE ValidatorSet WITH
    Validator <- Voter,
    height <- activeKernel,
    weights <- weights,
    total <- totalWeights[metaBlockHeight],
    updates <- Joining[activeKernel]
AuxiliaryImplementsValidatorSet == AuxiliarySet!Spec

\* A meta-block that origin has committed can be proven on auxiliary for as long
\* as the next one is not open there: the transition that the validators voted
\* for is still the one at its block.
OpeningsStayProvable ==
    activeKernel =< Len(committed) =>
        \E b \in DOMAIN kernelHashes :
            TransitionAt(Auxiliary, b) = committed[activeKernel]
=============================================================================
