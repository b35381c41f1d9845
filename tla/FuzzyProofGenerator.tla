------------------------- MODULE FuzzyProofGenerator -------------------------
(***************************************************************************)
(* tools/fuzzy_proof_generator_tool: generateByPattern makes up a path and *)
(* builds, bottom up, the nodes of a proof whose kinds a pattern gives.    *)
(* Here the generated proof is then given to MerklePatriciaProof.verify,   *)
(* as the tool's tests do, with its own path or with another.              *)
(***************************************************************************)
EXTENDS MerklePatriciaProof, FiniteSets, SequencesExt

CONSTANTS
    MaxPattern,     \* patterns have up to so many symbols
    MaxPath,        \* pathMaxLength
    MaxOtherPath    \* how long the paths are that a proof is not for

ASSUME GeneratorAssumption ==
    /\ MaxPattern \in Nat
    /\ MaxPath \in Nat \ {0}
    /\ MaxOtherPath \in 0..MaxPath

VARIABLES
    phase,      \* "called", "rejected", "thrown", "create" or "created"
    pattern,
    path,       \* the random path, in bytes
    pathData,   \* the nibbles that each node takes
    nodes       \* the nodes from the current one to the end

generatorVars == <<phase, pattern, path, pathData, nodes>>

fuzzyVars == <<generatorVars, verifyVars>>

Symbol == {"b", "e", "l"}

Value == Bytes("value")
RandomKeccak256 == Hash(<<>>)

Encoded(n) == [1..n -> Nibble \X Nibble]

FuzzyInit ==
    /\ phase = "called"
    /\ pattern \in UNION {[1..n -> Symbol] : n \in 0..MaxPattern}
    /\ path = <<>>
    /\ pathData = <<>>
    /\ nodes = <<>>
    /\ VerifyInit

-----------------------------------------------------------------------------
\* The index is the one of the symbol itself, counted from 1.
ProcessLeaf(p, index) == index = Len(p)

\* Mutant: a pattern may end with any branch node.
ProcessAnyBranch(p, index) == TRUE

ProcessBranch(p, index) ==
    index = Len(p) => Len(p) > 1 /\ p[index - 1] = "b"

ProcessExtension(p, index) == index < Len(p) /\ p[index + 1] = "b"

AssertPatternValidity(p) ==
    /\ p # <<>>
    /\ \A k \in 1..Len(p) :
          /\ p[k] = "l" => ProcessLeaf(p, k)
          /\ p[k] = "b" => ProcessBranch(p, k)
          /\ p[k] = "e" => ProcessExtension(p, k)

EndingWithBranchNode == Last(pattern) = "b"

\* The ending branch node takes no nibble.
SectionPattern == IF EndingWithBranchNode THEN Front(pattern) ELSE pattern

\* Stars and bars: what distinct numbers, in order, leave between each other.
GenerateRandomNumbers(sum, numberCount) ==
    LET upperBound == sum + numberCount - 1
        Between(picked, k) ==
            IF k = 1 THEN picked[1] - 1
            ELSE IF k = numberCount THEN upperBound - picked[k - 1]
            ELSE picked[k] - picked[k - 1] - 1
    IN  IF numberCount = 0 THEN {<<>>}
        ELSE IF numberCount = 1 THEN {<<sum>>}
        ELSE {[k \in 1..numberCount |-> Between(picked, k)] :
                 picked \in {P \in [1..(numberCount - 1) -> 1..upperBound] :
                               \A k \in 2..(numberCount - 1) :
                                  P[k - 1] < P[k]}}

\* The lengths of the sections of extension and leaf nodes.
GenerateRandomPathData(p, nibbles) ==
    {[k \in 1..Len(n) |-> n[k] + 1] :
        n \in GenerateRandomNumbers(
                 Len(nibbles) - Len(p),
                 Cardinality({k \in 1..Len(p) : p[k] # "b"}))}

\* The length of section k: a branch node takes one nibble.
SectionLength(p, lengths, k) ==
    IF p[k] = "b" THEN 1
    ELSE lengths[Cardinality({j \in 1..k : p[j] # "b"})]

\* nibblePathIndex at the section.
SectionStart(p, lengths, k) ==
    SumFunctionOnSet([j \in 1..Len(p) |-> SectionLength(p, lengths, j)],
                     1..(k - 1))

GeneratePathData(p, nibbles, lengths) ==
    [k \in 1..Len(p) |->
        SubSeq(nibbles, SectionStart(p, lengths, k) + 1,
               SectionStart(p, lengths, k) + SectionLength(p, lengths, k))]

\* What generatePathData asserts at its end.
CoversPath(p, nibbles, lengths) ==
    /\ SectionStart(p, lengths, Len(p) + 1) = Len(nibbles)
    /\ FlattenSeq(GeneratePathData(p, nibbles, lengths)) = nibbles

-----------------------------------------------------------------------------
Reject ==
    /\ phase = "called"
    /\ ~AssertPatternValidity(pattern)
    /\ phase' = "rejected"
    /\ UNCHANGED <<pattern, path, pathData, nodes, verifyVars>>

PathMinLength == (Len(pattern) + 1) \div 2

\* generateByPattern and generate, up to createNodes.  The sections have to
\* cover the path.
Generate ==
    /\ phase = "called"
    /\ AssertPatternValidity(pattern)
    /\ \E n \in PathMinLength..MaxPath : path' \in Encoded(n)
    /\ \E lengths \in GenerateRandomPathData(SectionPattern, ToNibbles(path')) :
          LET sections == GeneratePathData(SectionPattern, ToNibbles(path'),
                                           lengths)
          IN  /\ phase' = IF CoversPath(SectionPattern, ToNibbles(path'), lengths)
                          THEN "create" ELSE "thrown"
              /\ pathData' = IF EndingWithBranchNode
                             THEN Append(sections, <<>>) ELSE sections
    /\ UNCHANGED <<pattern, nodes, verifyVars>>

At == Len(pattern) - Len(nodes)

Creates(symbol) == phase = "create" /\ At > 0 /\ pattern[At] = symbol

Push(node) ==
    /\ nodes' = <<node>> \o nodes
    /\ UNCHANGED <<phase, pattern, path, pathData, verifyVars>>

PreviousNodeHash == Hash(Head(nodes))

\* At most Base - 1 of the keys are random hashes, the others are empty.
RandomBranchKeysData ==
    [1..Base -> {Empty, RandomKeccak256}] \ {[k \in 1..Base |-> RandomKeccak256]}

CreateLeafNode == Creates("l") /\ Push(LeafNode(pathData[At], Value))

CreateExtensionNode ==
    Creates("e") /\ Push(ExtensionNode(pathData[At], PreviousNodeHash))

CreateEndingBranchNode ==
    /\ Creates("b")
    /\ At = Len(pattern)
    /\ \E keys \in RandomBranchKeysData : Push(BranchNode(keys, Value))

CreateBranchNode ==
    /\ Creates("b")
    /\ At < Len(pattern)
    /\ \E keys \in RandomBranchKeysData :
          Push(BranchNode([keys EXCEPT ![pathData[At][1] + 1] =
                              PreviousNodeHash], Empty))

ValueHash == IF EndingWithBranchNode THEN Rlp(Value) ELSE Data(Value)

Created ==
    /\ phase = "create"
    /\ At = 0
    /\ phase' = "created"
    /\ UNCHANGED <<pattern, path, pathData, nodes, verifyVars>>

\* The tests verify a proof with its encodedPath; here also with any other.
VerifyWith ==
    /\ phase = "created"
    /\ \E encodedPath \in {path} \cup UNION {Encoded(n) : n \in 0..MaxOtherPath} :
          Verify([value |-> ValueHash, encodedPath |-> encodedPath,
                  parentNodes |-> nodes, root |-> Hash(nodes[1])])
    /\ UNCHANGED generatorVars

FuzzyNext ==
    \/ Reject \/ Generate
    \/ CreateLeafNode \/ CreateExtensionNode
    \/ CreateEndingBranchNode \/ CreateBranchNode
    \/ Created \/ VerifyWith
    \/ VerifyStep /\ UNCHANGED generatorVars

FuzzySpec == FuzzyInit /\ [][FuzzyNext]_fuzzyVars

-----------------------------------------------------------------------------
Verified == result \notin {"idle", "running"}

(***************************************************************************)
(* What the tool is for: whatever pattern it accepts and however it cuts   *)
(* the path, the contract verifies the generated proof.                    *)
(***************************************************************************)
GeneratedVerifies == Verified /\ proof.encodedPath = path => result = "true"

(***************************************************************************)
(* The contract verifies the value of a generated proof on the path that   *)
(* the proof was generated for and on no other.                            *)
(***************************************************************************)
OnlyOnItsPath == result = "true" => proof.encodedPath = path
=============================================================================
