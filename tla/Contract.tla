------------------------------ MODULE Contract ------------------------------
(***************************************************************************)
(* The contracts of the deployment tool (tools/deployment_tool): objects   *)
(* that are created, linked and instantiated before anything is deployed.  *)
(* A contract depends on the libraries that are linked into its bytecode   *)
(* and on the contracts that its constructor arguments refer to.  Bytecode *)
(* and constructor data are abstracted to the addresses they contain.      *)
(*                                                                         *)
(* Every call runs to its end before the next one; one that throws keeps   *)
(* what it had changed until then.                                         *)
(***************************************************************************)
EXTENDS Integers, Sequences, FiniteSets, Functions

CONSTANTS Contract, NoAddress,
          Refs,          \* [Contract -> SUBSET Contract], constructor references
          Placeholders,  \* [Contract -> SUBSET Contract], links its bytecode needs
          FixedAddresses \* the addresses that setAddress is called with

ASSUME ContractAssumption ==
    /\ IsFiniteSet(Contract)
    /\ NoAddress \notin Nat
    /\ Refs \in [Contract -> SUBSET Contract]
    /\ Placeholders \in [Contract -> SUBSET Contract]
    /\ FixedAddresses \subseteq Nat

VARIABLES contracts,        \* [Contract -> [state, address, data]]
          linkReplacements  \* [Contract -> SUBSET Contract]

contractVars == <<contracts, linkReplacements>>

New == [state |-> "new", address |-> NoAddress, data |-> {}]

ContractTypeOK ==
    /\ contracts \in [Contract ->
                        [state : {"new", "linked", "instantiated"},
                         address : Nat \cup {NoAddress},
                         data : SUBSET (Contract \X Nat)]]
    /\ linkReplacements \in [Contract -> SUBSET Contract]

ContractInit ==
    /\ contracts = [c \in Contract |-> New]
    /\ linkReplacements = [c \in Contract |-> {}]

Dependencies(c) == Refs[c] \cup linkReplacements[c]

AddLinkedDependency(c, d) ==
    /\ contracts[c].state = "new"
    /\ linkReplacements' = [linkReplacements EXCEPT ![c] = @ \cup {d}]
    /\ UNCHANGED contracts

\* setAddress and setGeneratedAddress throw in the other states.
AddressMayChange(cs, c) == cs[c].state \in {"new", "linked"}

SetAddress(c, a) ==
    /\ AddressMayChange(contracts, c)
    /\ contracts' = [contracts EXCEPT ![c].address = a]
    /\ UNCHANGED linkReplacements

\* getAddress gives an address that can be put into bytecode.
Known(cs, d) == cs[d].state = "instantiated" /\ cs[d].address # NoAddress

\* instantiate: the contract is linked, then its arguments are encoded, and
\* either can throw.  A contract that was linked when it failed stays so, and
\* can never be instantiated.
Instantiated(cs, c) ==
    LET linkable == /\ cs[c].state = "new"
                    /\ \A d \in linkReplacements[c] : Known(cs, d)
                    /\ Placeholders[c] \subseteq linkReplacements[c]
        encodable == \A d \in Refs[c] : Known(cs, d)
        addresses == {<<d, cs[d].address>> : d \in Dependencies(c)}
    IN  IF ~linkable THEN cs
        ELSE IF ~encodable THEN [cs EXCEPT ![c].state = "linked"]
        ELSE [cs EXCEPT ![c] = [state |-> "instantiated",
                                address |-> cs[c].address,
                                data |-> addresses]]

Instantiate(c) ==
    /\ contracts' = Instantiated(contracts, c)
    /\ UNCHANGED linkReplacements

\* Counting from one of these contracts does not end: the call throws.
Cyclic(cs) ==
    \E S \in SUBSET Contract :
        /\ S \cap cs # {}
        /\ \A c \in S : Dependencies(c) \cap S # {}

\* _getDependenciesCount, where it ends: the contract and, as often as they are
\* met, all that it depends on.
DependenciesCount[c \in {d \in Contract : ~Cyclic({d})}] ==
    1 + SumFunctionOnSet(DependenciesCount, Refs[c])
      + SumFunctionOnSet(DependenciesCount, linkReplacements[c])

ContractNext ==
    \E c \in Contract :
        \/ \E d \in Contract : AddLinkedDependency(c, d)
        \/ \E a \in FixedAddresses : SetAddress(c, a)
        \/ Instantiate(c)
=============================================================================
