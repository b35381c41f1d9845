------------------------- MODULE MerklePatriciaProof -------------------------
(***************************************************************************)
(* lib/MerklePatriciaProof.sol: verify, one action per exit and per turn   *)
(* of its loop over the nodes of a proof.                                  *)
(*                                                                         *)
(* First, the nodes of a modified Merkle Patricia trie, as the fuzzy proof *)
(* generator builds and the library reads them.  A byte is the pair of its *)
(* nibbles, an RLP list the sequence of its items, and a hash the value    *)
(* that it is the hash of.                                                 *)
(***************************************************************************)
EXTENDS Naturals, Sequences

CONSTANT Base       \* nibbles are below it, and a branch has as many keys

ASSUME BaseAssumption == Base \in Nat /\ Base > 1

Nibble == 0..(Base - 1)

Bytes(b) == [bytes |-> b]
Empty == Bytes("")

\* NodeBase.hash: keccak256 of the serialized node.
Hash(node) == [hash |-> node]

ToNibbles(buffer) ==
    [n \in 1..(2 * Len(buffer)) |-> buffer[(n + 1) \div 2][2 - (n % 2)]]

\* Of an even number of nibbles: it asserts so.
NibblesToBuffer(nibbles) ==
    [k \in 1..(Len(nibbles) \div 2) |-> <<nibbles[2 * k - 1], nibbles[2 * k]>>]

\* The flag is 0 for an extension and 2 for a leaf, one more for an odd length.
EncodeCompact(flag, nibblePath) ==
    NibblesToBuffer((IF Len(nibblePath) % 2 = 0 THEN <<flag, 0>>
                     ELSE <<flag + 1>>) \o nibblePath)

LeafNode(nibblePath, value) == <<EncodeCompact(2, nibblePath), value>>

ExtensionNode(nibblePath, key) == <<EncodeCompact(0, nibblePath), key>>

BranchNode(keys, value) == keys \o <<value>>

-----------------------------------------------------------------------------
VARIABLES
    proof,      \* value, encodedPath, parentNodes and root
    i,          \* the node that the loop is at
    pathPtr,    \* the nibbles of the path that are behind it
    nodeKey,    \* the hash that the node has to have
    result      \* "idle", "running", "true", "false" or "reverted"

verifyVars == <<proof, i, pathPtr, nodeKey, result>>

NoProof == [value |-> Empty, encodedPath |-> <<>>, parentNodes |-> <<>>,
            root |-> Empty]

VerifyInit ==
    /\ proof = NoProof
    /\ i = 1
    /\ pathPtr = 0
    /\ nodeKey = Empty
    /\ result = "idle"

Path == ToNibbles(proof.encodedPath)
Node == proof.parentNodes[i]

\* What keccak256 is taken of: a leaf's value bare, a branch's with its prefix.
Data(item) == [data |-> item]
Rlp(item) == [rlp |-> item]

Answer(holds) == IF holds THEN "true" ELSE "false"

Ends(answer) ==
    /\ result' = answer
    /\ UNCHANGED <<proof, i, pathPtr, nodeKey>>

Goes(nibbles, key) ==
    /\ i' = i + 1
    /\ pathPtr' = pathPtr + nibbles
    /\ nodeKey' = key
    /\ UNCHANGED <<proof, result>>

-----------------------------------------------------------------------------
Verify(p) ==
    /\ result = "idle"
    /\ proof' = p
    /\ nodeKey' = p.root
    /\ result' = IF p.encodedPath = <<>> THEN "false" ELSE "running"
    /\ UNCHANGED <<i, pathPtr>>

AtNode == result = "running" /\ i =< Len(proof.parentNodes)

IsBranch == Len(Node) = Base + 1
IsShort == Len(Node) = 2

Admitted ==
    /\ pathPtr =< Len(Path)
    /\ nodeKey = Hash(Node)
    /\ IsBranch <=> ~IsShort

\* _getNibbleArray: the path of a leaf or an extension, without its flag.
PartialPath ==
    LET nibbles == ToNibbles(Node[1])
    IN  IF nibbles = <<>> THEN <<>>
        ELSE IF nibbles[1] \in {1, 3} THEN Tail(nibbles)
        ELSE Tail(Tail(nibbles))

\* Mutant: the nibbles are counted and not compared.
NibblesUncompared == Len(PartialPath)

NibblesToTraverse ==
    IF PartialPath = SubSeq(Path, pathPtr + 1, pathPtr + Len(PartialPath))
    THEN Len(PartialPath) ELSE 0

Rejects == AtNode /\ ~Admitted /\ Ends("false")

AtBranchEnd ==
    /\ AtNode /\ Admitted /\ IsBranch
    /\ pathPtr = Len(Path)
    /\ Ends(Answer(Rlp(Node[Base + 1]) = proof.value))

AtBranch ==
    /\ AtNode /\ Admitted /\ IsBranch
    /\ pathPtr < Len(Path)
    /\ Goes(1, Node[Path[pathPtr + 1] + 1])

\* path[i] is read beyond the end of path.
Overruns ==
    /\ AtNode /\ Admitted /\ IsShort
    /\ pathPtr + Len(PartialPath) > Len(Path)
    /\ Ends("reverted")

AtShort ==
    /\ AtNode /\ Admitted /\ IsShort
    /\ pathPtr + Len(PartialPath) =< Len(Path)

\* Whatever the flag says, a node with which the path ends is a leaf.
AtLeaf ==
    /\ AtShort
    /\ pathPtr + NibblesToTraverse = Len(Path)
    /\ Ends(Answer(Data(Node[2]) = proof.value))

Untraversed ==
    /\ AtShort
    /\ pathPtr < Len(Path)
    /\ NibblesToTraverse = 0
    /\ Ends("false")

AtExtension ==
    /\ AtShort
    /\ pathPtr + NibblesToTraverse < Len(Path)
    /\ NibblesToTraverse > 0
    /\ Goes(NibblesToTraverse, Node[2])

\* The loop is over: the result is the default one.
Exhausted ==
    /\ result = "running"
    /\ i > Len(proof.parentNodes)
    /\ Ends("false")

VerifyStep ==
    \/ Rejects \/ AtBranchEnd \/ AtBranch \/ Overruns \/ AtLeaf \/ Untraversed
    \/ AtExtension \/ Exhausted
=============================================================================
