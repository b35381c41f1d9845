------------------------------- MODULE Anchor -------------------------------
(***************************************************************************)
(* anchor/Anchor.sol: state roots of the other chain, reported by the      *)
(* organization and kept in a mapping whose size a circular buffer bounds. *)
(* Any height may be the first and any root may be reported; StateRoots    *)
(* has the same contract with truthful reports in the two-chain system.    *)
(***************************************************************************)
EXTENDS Naturals, CircularBuffer

CONSTANTS
    Height,         \* the block heights that may be reported
    InitialHeights, \* those the anchor may be constructed with
    Root,           \* non-zero state roots
    NoRoot,         \* bytes32(0)
    MaxStateRoots,
    CoAnchor,       \* addresses of co-anchors
    NoAnchor        \* address(0)

ASSUME AnchorAssumption ==
    /\ Height \subseteq Nat
    /\ InitialHeights \subseteq Height
    /\ MaxStateRoots \in Nat \ {0}
    /\ NoRoot \notin Root
    /\ NoAnchor \notin CoAnchor

VARIABLES
    stateRoots,     \* stateRoots[h]
    buffer,         \* the inherited CircularBufferUint
    coAnchor

vars == <<stateRoots, buffer, coAnchor>>

TypeOK ==
    /\ stateRoots \in [Height -> Root \cup {NoRoot}]
    /\ buffer \in Buffers(MaxStateRoots)
    /\ coAnchor \in CoAnchor \cup {NoAnchor}

\* The constructor; it does not check the root, deployments pass a real one.
Init ==
    \E h \in InitialHeights, r \in Root :
        /\ stateRoots = [i \in Height |-> IF i = h THEN r ELSE NoRoot]
        /\ buffer = Store(NewBuffer(MaxStateRoots), h)
        /\ coAnchor = NoAnchor

\* delete stateRoots[h]
Delete(roots, h) == [i \in DOMAIN roots |-> IF i = h THEN NoRoot ELSE roots[i]]

\* Mutant: the delete reads the slot after the store has moved on.
AnchorStateRootDeletingNext(h, stateRoot) ==
    /\ stateRoot # NoRoot
    /\ h > Newest(buffer)
    /\ buffer' = Store(buffer, h)
    /\ stateRoots' =
         Delete([stateRoots EXCEPT ![h] = stateRoot], Overwritten(buffer'))
    /\ UNCHANGED coAnchor

\* anchorStateRoot: the organization reports the root of a newer block.
AnchorStateRoot(h, stateRoot) ==
    /\ stateRoot # NoRoot
    /\ h > Newest(buffer)
    /\ stateRoots' =
         Delete([stateRoots EXCEPT ![h] = stateRoot], Overwritten(buffer))
    /\ buffer' = Store(buffer, h)
    /\ UNCHANGED coAnchor

\* setCoAnchorAddress: once.
SetCoAnchorAddress(address) ==
    /\ address # NoAnchor
    /\ coAnchor = NoAnchor
    /\ coAnchor' = address
    /\ UNCHANGED <<stateRoots, buffer>>

Next ==
    \/ \E h \in Height, r \in Root \cup {NoRoot} : AnchorStateRoot(h, r)
    \/ \E a \in CoAnchor \cup {NoAnchor} : SetCoAnchorAddress(a)

Spec == Init /\ [][Next]_vars

-----------------------------------------------------------------------------
\* The heights getStateRoot answers.
Kept == {h \in Height : stateRoots[h] # NoRoot}

\* An anchor that is not constructed at height zero keeps exactly the latest
\* roots: the deletion hits the oldest report and only when the buffer is full.
Window == INSTANCE RootWindow WITH
    MaxItems <- MaxStateRoots,
    kept <- {<<h, stateRoots[h]>> : h \in Kept}

ImplementsRootWindow == Window!Spec
=============================================================================
