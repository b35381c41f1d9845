----------------------------- MODULE BlockStore -----------------------------
(***************************************************************************)
(* The two block stores on auxiliary: BlockStore, which observes origin,   *)
(* and AuxiliaryBlockStore, which extends it and observes auxiliary.  What *)
(* a store keeps is a function of the core it is for; what the auxiliary   *)
(* store adds to a handler is a conjunct for that core.                    *)
(*                                                                         *)
(* The blocks of both chains and their parents and heights are constants:  *)
(* a header is reported or it is not.  The handlers are called by the      *)
(* polling place, see AuxiliaryCore.                                       *)
(***************************************************************************)
EXTENDS Naturals, FiniteSetsExt

CONSTANTS
    Origin, Auxiliary,   \* the core identifiers
    BlocksOf,            \* [Core -> set of blocks]
    ParentOf,            \* [block -> block or NoBlock]
    HeightOf,            \* [block -> height]
    First,               \* [Core -> the block the store is constructed with]
    NoBlock,             \* the zero hash
    EpochLength

Core == {Origin, Auxiliary}
Block == UNION {BlocksOf[c] : c \in Core}

ASSUME BlockAssumption ==
    /\ EpochLength \in Nat \ {0}
    /\ Origin # Auxiliary
    /\ BlocksOf[Origin] \cap BlocksOf[Auxiliary] = {}
    /\ NoBlock \notin Block
    /\ \A b \in Block : HeightOf[b] \in Nat
    /\ \A c \in Core :
         /\ First[c] \in BlocksOf[c]
         /\ HeightOf[First[c]] % EpochLength = 0
         /\ \A b \in BlocksOf[c] \ {First[c]} :
              ParentOf[b] \in BlocksOf[c] /\ HeightOf[b] = HeightOf[ParentOf[b]] + 1

VARIABLES
    reported,     \* the blocks in reportedBlocks
    checkpoints,  \* [justified block -> [parent, finalised, dynasty]]
    heads,        \* [Core -> the highest finalised checkpoint or NoBlock]
    dynasties     \* [Core -> currentDynasty]

storeVars == <<reported, checkpoints, heads, dynasties>>

StoreInit ==
    /\ reported = {First[c] : c \in Core}
    /\ checkpoints = [b \in reported |->
                        [parent |-> NoBlock, finalised |-> TRUE, dynasty |-> 0]]
    /\ heads = [c \in Core |-> NoBlock]
    /\ dynasties = [c \in Core |-> 1]

\* reportedBlocks[b].height, which is zero for the zero hash.
HeightAt(b) == IF b = NoBlock THEN 0 ELSE HeightOf[b]

IsCheckpoint(b) == b \in DOMAIN checkpoints

\* Back along the checkpoints, from d to the height of b.
CheckpointAtHeightOf(b, d) ==
    LET walk[e \in Block] ==
            IF HeightOf[e] > HeightOf[b] THEN walk[checkpoints[e].parent] ELSE e
    IN  walk[d]

\* isAncestorCheckpoint: first back along the blocks to the closest checkpoint.
IsAncestorCheckpoint(ancestor, descendant) ==
    LET closest[b \in Block] ==
            IF IsCheckpoint(b) THEN b ELSE closest[ParentOf[b]]
    IN  CheckpointAtHeightOf(ancestor, closest[descendant]) = ancestor

IsSourceValid(s) == s \in reported /\ IsCheckpoint(s)

\* Mutant: a block at the height of the head can still be justified.
IsAtHeadOrAbove(c, t) == HeightOf[t] >= HeightAt(heads[c])

IsAboveHead(c, t) == HeightOf[t] > HeightAt(heads[c])

IsTargetValid(c, s, t) ==
    /\ t \in reported
    /\ HeightOf[t] % EpochLength = 0
    /\ IsAboveHead(c, t)
    /\ HeightOf[t] > HeightOf[s]
    /\ IsCheckpoint(t) => checkpoints[t].parent = s
    /\ c = Auxiliary => IsAncestorCheckpoint(s, t)

\* justify_ and finalise: a link to the next epoch finalises its source first,
\* and the dynasty of the target is the one after that.
JustifyInStore(c, s, t) ==
    LET finalises == (HeightOf[t] - HeightOf[s]) \div EpochLength = 1
        rises == finalises /\ HeightOf[s] > HeightAt(heads[c])
        target == [parent |-> s, finalised |-> FALSE, dynasty |-> dynasties'[c]]
    IN  /\ IsSourceValid(s)
        /\ IsTargetValid(c, s, t)
        /\ heads' = IF rises THEN [heads EXCEPT ![c] = s] ELSE heads
        /\ dynasties' = IF rises THEN [dynasties EXCEPT ![c] = @ + 1] ELSE dynasties
        /\ checkpoints' =
             [b \in DOMAIN checkpoints \cup {t} |->
                CASE b = t -> target
                  [] b = s -> [checkpoints[s] EXCEPT !.finalised = @ \/ finalises]
                  [] OTHER -> checkpoints[b]]
        /\ UNCHANGED reported

\* stateRoot: known for the checkpoints the head has been justified from.
HasStateRoot(c, b) ==
    /\ IsCheckpoint(b)
    /\ heads[c] # NoBlock
    /\ HeightOf[b] =< HeightOf[heads[c]]
    /\ CheckpointAtHeightOf(b, heads[c]) = b

-----------------------------------------------------------------------------
\* What is finalised is final: no later link rewrites the checkpoint, although
\* one may justify its target again and store it as not finalised.
FinalisedIsFinal ==
    [][\A b \in DOMAIN checkpoints :
          checkpoints[b].finalised => checkpoints'[b] = checkpoints[b]]_checkpoints
=============================================================================
