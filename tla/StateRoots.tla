----------------------------- MODULE StateRoots -----------------------------
(***************************************************************************)
(* How one chain learns the state of the other: blocks, the anchors that   *)
(* carry state roots across (anchor/Anchor.sol) and the storage roots that *)
(* the gateways prove against them (GatewayBase.proveGateway).             *)
(*                                                                         *)
(* There are two chains.  Side g names a chain together with the gateway   *)
(* and the anchor deployed on it; the anchor of g follows Remote(g).  A    *)
(* root stands for the state it commits to, so what a root of height h     *)
(* says of a message box is chain[Remote(g)][h].  A block that leaves the  *)
(* message box as it was proves nothing new and is left out: a height is   *)
(* the number of blocks that changed it, and heights keep their order.     *)
(***************************************************************************)
EXTENDS Naturals, Sequences, CircularBuffer

CONSTANTS
    Message,            \* the message hashes
    MaxStateRoots,      \* items in an anchor's buffer
    MaxStorageRoots     \* items in a gateway's buffer

\* CircularBufferUint's constructor refuses a buffer of no items.
ASSUME BufferAssumption ==
    /\ MaxStateRoots \in Nat \ {0}
    /\ MaxStorageRoots \in Nat \ {0}

VARIABLES
    messageBox,     \* messageBox[g][m]: the status of m in g's message box
    chain,          \* chain[g][h]: g's message box as of block h
    anchorBuffer,   \* anchorBuffer[g]: heights kept by the anchor of g
    stateRoots,     \* stateRoots[g]: heights with a non-zero state root
    gatewayBuffer,  \* gatewayBuffer[g]: heights kept by the gateway of g
    storageRoots    \* storageRoots[g]: heights with a non-zero storage root

anchorVars == <<anchorBuffer, stateRoots>>
provenVars == <<gatewayBuffer, storageRoots>>
rootVars == <<chain, anchorVars, provenVars>>

Side == {"origin", "auxiliary"}

Remote(g) == CHOOSE r \in Side : r # g

\* enum MessageStatus
Status == {"Undeclared", "Declared", "Progressed",
           "DeclaredRevocation", "Revoked"}

EmptyBox == [m \in Message |-> "Undeclared"]

\* The block the anchors are constructed with; it is older than the gateways.
InitialHeight == 1

-----------------------------------------------------------------------------
StateRootsTypeOK ==
    /\ messageBox \in [Side -> [Message -> Status]]
    /\ chain \in [Side -> Seq([Message -> Status])]
    /\ \A g \in Side : InitialHeight \in DOMAIN chain[g]
    /\ anchorBuffer \in [Side -> Buffers(MaxStateRoots)]
    /\ gatewayBuffer \in [Side -> Buffers(MaxStorageRoots)]
    /\ stateRoots \in [Side -> SUBSET Nat]
    /\ storageRoots \in [Side -> SUBSET Nat]

\* The constructor of Anchor stores the root it is given; the one of
\* GatewayBase only sizes its buffer.
StateRootsInit ==
    /\ messageBox = [g \in Side |-> EmptyBox]
    /\ chain = [g \in Side |-> <<EmptyBox>>]
    /\ anchorBuffer =
         [g \in Side |-> Store(NewBuffer(MaxStateRoots), InitialHeight)]
    /\ stateRoots = [g \in Side |-> {InitialHeight}]
    /\ gatewayBuffer = [g \in Side |-> NewBuffer(MaxStorageRoots)]
    /\ storageRoots = [g \in Side |-> {}]

\* A block of chain g takes in everything done to g's box since the last one.
MineBlock(g) ==
    /\ messageBox[g] # chain[g][Len(chain[g])]
    /\ chain' = [chain EXCEPT ![g] = Append(@, messageBox[g])]
    /\ UNCHANGED <<messageBox, anchorVars, provenVars>>

\* Anchor.anchorStateRoot: the organization reports a root of the other
\* chain, of any height above the newest one.  It reports true roots.
AnchorStateRoot(g, h) ==
    /\ h > Newest(anchorBuffer[g])
    /\ stateRoots' =
         [stateRoots EXCEPT ![g] = (@ \cup {h}) \ {Overwritten(anchorBuffer[g])}]
    /\ anchorBuffer' = [anchorBuffer EXCEPT ![g] = Store(@, h)]
    /\ UNCHANGED <<messageBox, chain, provenVars>>

\* Mutant: the delete hits the height stored last, not the overwritten one.
ProveGatewayDeletingNewest(g, h) ==
    /\ h \in stateRoots[g]
    /\ h \notin storageRoots[g]
    /\ h # InitialHeight
    /\ storageRoots' =
         [storageRoots EXCEPT ![g] = (@ \cup {h}) \ {Newest(gatewayBuffer[g])}]
    /\ gatewayBuffer' = [gatewayBuffer EXCEPT ![g] = Store(@, h)]
    /\ UNCHANGED <<messageBox, chain, anchorVars>>

\* GatewayBase.proveGateway: anyone proves the account of the remote gateway
\* against a root the anchor still has; heights come in any order.  A height
\* that has its storage root is left alone, and the account proof fails for
\* the block that is older than the gateway.
ProveGateway(g, h) ==
    /\ h \in stateRoots[g]
    /\ h \notin storageRoots[g]
    /\ h # InitialHeight
    /\ storageRoots' =
         [storageRoots EXCEPT ![g] = (@ \cup {h}) \ {Overwritten(gatewayBuffer[g])}]
    /\ gatewayBuffer' = [gatewayBuffer EXCEPT ![g] = Store(@, h)]
    /\ UNCHANGED <<messageBox, chain, anchorVars>>

StateRootsNext ==
    \E g \in Side :
        \/ MineBlock(g)
        \/ \E h \in DOMAIN chain[Remote(g)] :
              AnchorStateRoot(g, h) \/ ProveGateway(g, h)

-----------------------------------------------------------------------------
\* MerklePatriciaProof.verify against a storage root that g holds: the box of
\* the other chain had m in status s at a height g can still look up.
Proves(g, m, s) ==
    \E h \in storageRoots[g] : chain[Remote(g)][h][m] = s

\* Both contracts keep a mapping and a ring of its keys, in whatever order the
\* heights come and come back: no root outlives its slot, none is deleted
\* while its slot is kept.
RootsMatchBuffers ==
    \A g \in Side :
        /\ stateRoots[g] = Items(anchorBuffer[g]) \ {0}
        /\ storageRoots[g] = Items(gatewayBuffer[g]) \ {0}
=============================================================================
