-------------------------- MODULE ContractRegistry --------------------------
(***************************************************************************)
(* The registry of the deployment tool, which orders contracts, gives them *)
(* their addresses and instantiates them, for the genesis of a chain or    *)
(* for transactions of a deployer.  The address that a transaction creates *)
(* is a function of the deployer and its nonce; it is its nonce here.      *)
(***************************************************************************)
EXTENDS Contract

CONSTANT Starts  \* where plans start: nonces of the deployer, or addresses

ASSUME StartsAssumption == Starts \subseteq Nat

VARIABLES registered,    \* the contracts added, in order
          transactions,  \* of toLiveTransactionObjects, <<>> before
          genesis        \* accounts of toParityGenesisAccounts, {} before

registryVars == <<contractVars, registered, transactions, genesis>>

RegistryTypeOK ==
    /\ ContractTypeOK
    /\ registered \in Seq(Contract)
    /\ transactions \in Seq([contract : Contract, nonce : Nat, address : Nat])
    /\ genesis \subseteq Nat \X Contract

RegistryInit ==
    /\ ContractInit
    /\ registered = <<>>
    /\ transactions = <<>>
    /\ genesis = {}

AddContract(c) ==
    /\ Len(registered) < Cardinality(Contract)
    /\ registered' = Append(registered, c)
    /\ UNCHANGED <<contractVars, transactions, genesis>>

\* By ascending counts, equal counts in the order they had: the place of the
\* contract at i is one more than the number of those before it.
Sorted(cs, count) ==
    LET size == [i \in DOMAIN cs |-> count[cs[i]]]
        before(j, i) == size[j] < size[i] \/ (size[j] = size[i] /\ j < i)
        place == [i \in DOMAIN cs |->
                     Cardinality({j \in DOMAIN cs : before(j, i)}) + 1]
    IN  [k \in DOMAIN cs |-> cs[CHOOSE i \in DOMAIN cs : place[i] = k]]

\* Mutant: only the direct dependencies are counted.
DirectOrder(cs) == Sorted(cs, [c \in Contract |-> Cardinality(Dependencies(c))])

\* _orderContracts
Order(cs) == Sorted(cs, DependenciesCount)

\* What Step makes of the accumulator, for each contract in turn.
InTurn(Step(_, _), base, order) ==
    LET acc[i \in 0 .. Len(order)] ==
            IF i = 0 THEN base ELSE Step(acc[i - 1], order[i])
    IN  acc[Len(order)]

\* setGeneratedAddress.  A contract that has an address keeps it and takes none
\* of the generator's.  It throws for a contract that is instantiated.
Addressed(acc, c) ==
    IF ~acc.ok \/ ~AddressMayChange(acc.cs, c) THEN [acc EXCEPT !.ok = FALSE]
    ELSE IF acc.cs[c].address # NoAddress THEN acc
    ELSE [cs |-> [acc.cs EXCEPT ![c].address = acc.next],
          next |-> acc.next + 1,
          ok |-> TRUE]

\* instantiate, up to the first that throws.
InstantiatedNext(acc, c) ==
    IF ~acc.ok THEN acc
    ELSE [cs |-> Instantiated(acc.cs, c),
          next |-> acc.next,
          ok |-> /\ acc.cs[c].state = "new"
                 /\ Instantiated(acc.cs, c)[c].state = "instantiated"]

\* What both plans begin with, with the generator's start; ok is FALSE when the
\* call throws.
Planned(order, start) ==
    LET base == [cs |-> contracts, next |-> start, ok |-> TRUE]
        generated == InTurn(Addressed, base, order)
    IN  IF generated.ok THEN InTurn(InstantiatedNext, generated, order)
                        ELSE generated

RegisteredSet == {registered[i] : i \in DOMAIN registered}

ToLiveTransactionObjects(startingNonce) ==
    LET plan == Planned(registered', startingNonce)
        transaction(i) ==
            [contract |-> registered'[i],
             nonce |-> startingNonce + i - 1,
             address |-> contracts'[registered'[i]].address]
    IN  /\ ~Cyclic(RegisteredSet)
        /\ UNCHANGED <<linkReplacements, genesis>>
        /\ registered' = Order(registered)
        /\ contracts' = plan.cs
        /\ transactions' = IF plan.ok
                             THEN [i \in DOMAIN registered' |-> transaction(i)]
                             ELSE transactions

\* The accounts are the keys of an object: of two contracts with the same
\* address, the later one replaces the earlier one.
ToParityGenesisAccounts(start) ==
    LET plan == Planned(registered', start)
        at(i) == contracts'[registered'[i]].address
        last == {i \in DOMAIN registered' :
                    \A j \in i + 1 .. Len(registered') : at(j) # at(i)}
    IN  /\ ~Cyclic(RegisteredSet)
        /\ UNCHANGED <<linkReplacements, transactions>>
        /\ registered' = Order(registered)
        /\ contracts' = plan.cs
        /\ genesis' = IF plan.ok THEN {<<at(i), registered'[i]>> : i \in last}
                                 ELSE genesis

RegistryNext ==
    \/ ContractNext /\ UNCHANGED <<registered, transactions, genesis>>
    \/ \E c \in Contract : AddContract(c)
    \/ \E start \in Starts :
         ToLiveTransactionObjects(start) \/ ToParityGenesisAccounts(start)

RegistrySpec == RegistryInit /\ [][RegistryNext]_registryVars

-----------------------------------------------------------------------------
\* A registry of new contracts, each added once and with all that it depends
\* on, can be planned, in whatever order they were added and whatever the shape
\* of their dependencies: ordered by the counts of _getDependenciesCount, no
\* contract is instantiated before one that it depends on.
Plannable ==
    /\ registered # <<>>
    /\ IsInjective(registered)
    /\ ~Cyclic(RegisteredSet)
    /\ \A c \in RegisteredSet :
         /\ contracts[c].state = "new"
         /\ Dependencies(c) \subseteq RegisteredSet
         /\ Placeholders[c] \subseteq linkReplacements[c]
PlansWhatIsClosed ==
    [][\A start \in Starts :
          Plannable /\ ToLiveTransactionObjects(start) =>
            /\ Len(transactions') = Len(registered)
            /\ \A i, j \in DOMAIN transactions' :
                 transactions'[j].contract \in Dependencies(transactions'[i].contract)
                   => j < i]_registryVars

\* "Next address that will be used for a contract created by a transaction
\* from fromAddress at the current transaction count" (address_generators.js):
\* an address from the generator is the one its transaction creates.
GeneratedIsCreated ==
    \A i \in DOMAIN transactions :
        transactions[i].address \in FixedAddresses
          \/ transactions[i].address = transactions[i].nonce
=============================================================================
