---------------------------- MODULE MCContracts ----------------------------
(***************************************************************************)
(* The contracts that are not part of the gateways' protocol: an anchor of *)
(* seven heights with a buffer of three roots, which wraps; the bounty of  *)
(* a gateway; OST prime with four coins and two users; the core on origin  *)
(* with a founding set of two validators and a third that deposits; and    *)
(* the core on auxiliary, twice: two meta-blocks are opened one after the  *)
(* other, or two validators vote freely in a tree of blocks with a fork.   *)
(* A behaviour is about one of them.                                       *)
(***************************************************************************)
EXTENDS Anchor, BountyChange, OSTPrime, OriginCore, AuxiliaryCore

CONSTANTS alice, bob, v1, v2, v3,
          Cases   \* what the behaviours of a run are about

VARIABLE contract  \* what this behaviour is about

MCHeight == 0 .. 6
MCLaterHeights == 1 .. 6

MCFounding ==
    {[v \in Validator |-> CASE v = v1 -> 2 [] v = v2 -> 1 [] OTHER -> 0]}

-----------------------------------------------------------------------------
\* The blocks, with a fork at height three.
MCBlocksOf ==
    [c \in Core |->
        IF c = Origin THEN {"o1", "o2", "o3", "o4", "o5", "o6"}
                      ELSE {"a1", "a2", "a3", "a4", "a5", "a6", "a7", "a8", "b3"}]
MCParentOf ==
    [o1 |-> NoBlock, o2 |-> "o1", o3 |-> "o2", o4 |-> "o3", o5 |-> "o4", o6 |-> "o5",
     a1 |-> NoBlock, a2 |-> "a1", a3 |-> "a2", a4 |-> "a3", a5 |-> "a4", a6 |-> "a5",
     a7 |-> "a6", a8 |-> "a7", b3 |-> "a2"]
MCHeightOf ==
    [o1 |-> 1, o2 |-> 2, o3 |-> 3, o4 |-> 4, o5 |-> 5, o6 |-> 6,
     a1 |-> 1, a2 |-> 2, a3 |-> 3, a4 |-> 4, a5 |-> 5, a6 |-> 6,
     a7 |-> 7, a8 |-> 8, b3 |-> 3]
MCFirst == [c \in Core |-> IF c = Origin THEN "o1" ELSE "a1"]
MCInitial == [v \in {v1, v2} |-> IF v = v1 THEN 2 ELSE 1]

\* The kernel at height two announces nobody: who deposits first starts at three.
MCJoining ==
    [kernel \in 1 .. 3 |-> IF kernel < 3 THEN [v \in {} |-> 0] ELSE [v \in {v3} |-> 3]]

\* The validator with the majority, after the first opening together with the one
\* that joined, links each checkpoint to the next one, and to those of origin
\* while the opening of a meta-block has to be proven there.  A block is reported
\* when its parent is justified, and may be again during the first opening.
Opening ==
    LET cast == {m \in DOMAIN votesWeights' : votesWeights'[m] # Weight(m)}
        behind == activeKernel < OpenOnOrigin
        joined == weights[v3] > 0
        due(b) ==
            IF b \in BlocksOf[Origin]
              THEN HeightOf[b] = 2 \/ (behind /\ HeightOf[b] =< 2 * OpenOnOrigin)
              ELSE provenKernel # 0 \/ (~behind /\ HeightOf[b] =< 3 * activeKernel + 2)
    IN  /\ "b3" \notin reported'
        /\ \A b \in reported' \ reported : due(b)
        /\ \A b \in reported' : ParentOf[b] \in DOMAIN checkpoints' \cup {NoBlock}
        /\ \A b \in DOMAIN openings' \ DOMAIN openings : openings'[b] = OpenOnOrigin
        /\ \A h \in DOMAIN storageRoots' \ DOMAIN storageRoots :
              storageRoots'[h] = activeKernel + 1
        /\ \A b \in DOMAIN originAt : originAt'[b] # originAt[b] =>
              behind /\ activeKernel = 1
        /\ targetHeights'[v2] = 0
        /\ \A m \in cast :
              /\ m.source = ParentOf[m.target]
              /\ m.target \notin DOMAIN checkpoints
              /\ due(m.target)
              /\ IF joined /\ Weight(m) = 0
                   THEN /\ targetHeights[v3] =< targetHeights[v1]
                        /\ targetHeights[v1] < m.targetHeight
                        /\ UNCHANGED targetHeights[v1]
                   ELSE m.target \in DOMAIN checkpoints'

Voting ==
    /\ \A v \in Voter : targetHeights'[v] < 5
    /\ reported' \subseteq {"o1", "a1", "a2", "a3", "b3"}

-----------------------------------------------------------------------------
\* What a behaviour is not about has one initial state.
MCInit ==
    /\ Init /\ BountyInit /\ PrimeInit /\ OriginInit /\ AuxiliaryInit
    /\ contract \in Cases
    /\ contract # "anchor" => stateRoots[1] = CHOOSE r \in Root : TRUE
    /\ contract # "gateway" => bounty = 0

MCNext ==
    /\ UNCHANGED contract
    /\ \/ /\ contract = "anchor" /\ Next
          /\ UNCHANGED <<bountyVars, primeVars, originVars, auxiliaryVars>>
       \/ /\ contract = "gateway" /\ BountyNext
          /\ UNCHANGED <<vars, primeVars, originVars, auxiliaryVars>>
       \/ /\ contract = "prime" /\ PrimeNext
          /\ UNCHANGED <<vars, bountyVars, originVars, auxiliaryVars>>
       \/ /\ contract = "origin core" /\ OriginNext
          /\ UNCHANGED <<vars, bountyVars, primeVars, auxiliaryVars>>
       \/ /\ \/ contract = "auxiliary core, opening" /\ AuxiliaryNext /\ Opening
             \/ contract = "auxiliary core, voting" /\ AuxiliaryNext /\ Voting
          /\ UNCHANGED <<vars, bountyVars, primeVars, originVars>>

MCSpec ==
    MCInit /\ [][MCNext]_<<vars, bountyVars, primeVars, originVars, auxiliaryVars,
                           contract>>
=============================================================================
