----------------------------- MODULE Deployment -----------------------------
(***************************************************************************)
(* deployContracts of the deployment tool on a live chain: the nonce of    *)
(* the deployer is read, the contracts are planned for it, and their       *)
(* transactions are sent one after the other, each when the one before is  *)
(* mined.  Meanwhile the deployer's account may send other transactions.   *)
(* Any transaction can fail, which ends the run; the script can be run     *)
(* again.                                                                  *)
(***************************************************************************)
EXTENDS ContractRegistry

CONSTANTS Added,   \* the contracts in the order they are added, a sequence
          NoCode,  \* what is at an address without a contract
          MaxNonce \* bound on the deployer's nonces

ASSUME DeploymentAssumption ==
    /\ NoCode \notin [contract : Contract, refs : SUBSET (Contract \X Nat)]
    /\ Added \in Seq(Contract)
    /\ MaxNonce \in Nat
    /\ Len(Added) =< MaxNonce + 1

VARIABLES phase,      \* "idle", "planning", "sending", "sent", "mined", "done" or "failed"
          startingNonce,
          index,      \* of the transaction under way
          addresses,  \* contractAddresses: <<contract, address>> pairs
          count,      \* the transactions of the deployer that were mined
          code        \* [0 .. MaxNonce -> [contract, refs] or NoCode]

runVars == <<phase, startingNonce, index, addresses>>
chainVars == <<count, code>>
deployVars == <<registryVars, runVars, chainVars>>

\* The contracts of a run are created, linked and added to a registry in one
\* go, of which nothing is seen before the plan.
DeployInit ==
    /\ contracts = [c \in Contract |-> New]
    /\ linkReplacements = Placeholders
    /\ registered = Added
    /\ transactions = <<>>
    /\ genesis = {}
    /\ phase = "idle"
    /\ startingNonce = 0
    /\ index = 1
    /\ addresses = {}
    /\ count = 0
    /\ code = [a \in 0 .. MaxNonce |-> NoCode]

\* The node answers getTransactionCount.
GetTransactionCount ==
    /\ phase = "idle"
    /\ startingNonce' = count
    /\ phase' = "planning"
    /\ UNCHANGED <<registryVars, index, addresses, chainVars>>

Plan ==
    /\ phase = "planning"
    /\ ToLiveTransactionObjects(startingNonce)
    /\ phase' = IF transactions' = <<>> THEN "failed" ELSE "sending"
    /\ UNCHANGED <<startingNonce, index, addresses, chainVars>>

Current == transactions[index]

\* sendSignedTransaction: a nonce that was used already is refused.
SendDeploymentTransaction ==
    /\ phase = "sending"
    /\ phase' = IF Current.nonce < count THEN "failed" ELSE "sent"
    /\ UNCHANGED <<registryVars, startingNonce, index, addresses, chainVars>>

\* Mutant: whatever is mined is taken for the deployment.
MineAnyway ==
    /\ phase = "sent"
    /\ count =< MaxNonce
    /\ count' = count + 1
    /\ code' = [code EXCEPT ![count] =
                   [contract |-> Current.contract,
                    refs |-> contracts[Current.contract].data]]
    /\ phase' = "mined"
    /\ UNCHANGED <<registryVars, startingNonce, index, addresses>>

\* The transaction is mined and the contract created at the address of its
\* nonce, unless its constructor reverts.
Mine ==
    /\ phase = "sent"
    /\ Current.nonce = count
    /\ count' = count + 1
    /\ \/ /\ code' = [code EXCEPT ![count] =
                         [contract |-> Current.contract,
                          refs |-> contracts[Current.contract].data]]
          /\ phase' = "mined"
       \/ /\ phase' = "failed"
          /\ UNCHANGED code
    /\ UNCHANGED <<registryVars, startingNonce, index, addresses>>

\* Mutant: the promise of a transaction that is not mined stays open.
NotMinedForever == FALSE /\ UNCHANGED deployVars

\* Another transaction took the nonce: this one is not mined any more and the
\* promise is rejected.
NotMined ==
    /\ phase = "sent"
    /\ Current.nonce < count
    /\ phase' = "failed"
    /\ UNCHANGED <<registryVars, startingNonce, index, addresses, chainVars>>

\* Mutant: the next transaction is sent without waiting for the receipt.
ReceiptMissing ==
    /\ phase \in {"sent", "mined"}
    /\ addresses' = addresses \cup {<<Current.contract, Current.address>>}
    /\ index' = index + 1
    /\ phase' = IF index = Len(transactions) THEN "done" ELSE "sending"
    /\ UNCHANGED <<registryVars, startingNonce, chainVars>>

\* waitForTransactionReceiptMined resolves with the address that was created.
Receipt ==
    /\ phase = "mined"
    /\ addresses' = addresses \cup {<<Current.contract, Current.nonce>>}
    /\ index' = index + 1
    /\ phase' = IF index = Len(transactions) THEN "done" ELSE "sending"
    /\ UNCHANGED <<registryVars, startingNonce, chainVars>>

\* External: another transaction of the deployer is mined.  Bound: the rest of
\* the addresses suffices for a run.
OtherTransaction ==
    /\ count + Len(Added) =< MaxNonce
    /\ count' = count + 1
    /\ UNCHANGED <<registryVars, runVars, code>>

\* The script is run again after it failed.  The addresses that are left must
\* suffice for it.
Rerun ==
    /\ phase = "failed"
    /\ count + Len(Added) =< MaxNonce + 1
    /\ contracts' = [c \in Contract |-> New]
    /\ registered' = Added
    /\ transactions' = <<>>
    /\ phase' = "idle"
    /\ startingNonce' = 0
    /\ index' = 1
    /\ addresses' = {}
    /\ UNCHANGED <<linkReplacements, genesis, chainVars>>

\* The steps of a run that has been planned.
RunStep == SendDeploymentTransaction \/ Mine \/ NotMined \/ Receipt

DeployNext ==
    \/ GetTransactionCount
    \/ Plan
    \/ RunStep
    \/ Rerun
    \/ OtherTransaction

DeploySpec == DeployInit /\ [][DeployNext]_deployVars /\ WF_deployVars(RunStep)

-----------------------------------------------------------------------------
\* A contract is on the chain only with all that its bytecode and constructor
\* arguments refer to, at the very addresses they contain: nothing refers to a
\* contract that is not there, whichever transaction failed or lost its nonce
\* to another one (deployContracts sends in sequence).
DependenciesAreDeployed ==
    \A a \in 0 .. MaxNonce :
        code[a] # NoCode =>
            \A ref \in code[a].refs :
                /\ ref[2] < a
                /\ code[ref[2]] # NoCode
                /\ code[ref[2]].contract = ref[1]

\* What is reported for a contract is the address it was planned for, and the
\* contract is there; a run that is done has reported all of them.
ReportedIsDeployed ==
    /\ \A ref \in addresses :
         /\ contracts[ref[1]].address = ref[2]
         /\ code[ref[2]] # NoCode
         /\ code[ref[2]].contract = ref[1]
    /\ phase = "done" => {ref[1] : ref \in addresses} = RegisteredSet

\* Every run ends, by itself or by a failure: no transaction is waited for
\* that cannot be mined any more.
RunEnds == (phase = "sending") ~> (phase \in {"done", "failed"})
=============================================================================
