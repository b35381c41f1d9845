---------------------------- MODULE GatewayBase -----------------------------
(***************************************************************************)
(* gateway/GatewayBase.sol: what EIP20Gateway and EIP20CoGateway share.    *)
(* Every account has at most one open process in each direction; its       *)
(* nonces order them.                                                      *)
(*                                                                         *)
(* A message hash determines the fields that were hashed, so they are      *)
(* functions of m; what a contract keeps for a hash is a variable.  Gas    *)
(* is abstracted to the reward it buys: any amount up to                   *)
(* gasPrice * gasLimit, which is MaxReward[m].                             *)
(***************************************************************************)
EXTENDS MessageBus

CONSTANTS
    Account,        \* stakers, redeemers, beneficiaries and facilitators
    Sender,         \* Sender[m]: the account that declares m
    Beneficiary,    \* Beneficiary[m]: the account to be paid on the target
    Nonce,          \* Nonce[m]
    Amount,         \* Amount[m]: what is staked or redeemed
    MaxReward,      \* MaxReward[m]
    Acceptable,     \* messages whose beneficiary the target accepts
    Bounties,       \* the bounty amounts the organization may set
    InitialBounty,
    NoMessage       \* the zero hash

ASSUME GatewayAssumption ==
    /\ Sender \in [Message -> Account]
    /\ Beneficiary \in [Message -> Account]
    /\ Nonce \in [Message -> Nat]
    /\ Amount \in [Message -> Nat]
    /\ MaxReward \in [Message -> Nat]
    /\ Acceptable \subseteq Message
    /\ Bounties \subseteq Nat
    /\ InitialBounty \in Bounties
    /\ NoMessage \notin Message
    /\ {"gateway", "stakeVault", "burner"} \cap Account = {}

VARIABLES
    messages,               \* messages[g]: the hashes g keeps a Message for
    outboxActiveProcess,    \* [g][a]: the last message a declared on g
    inboxActiveProcess,     \* [g][a]: the last message of a confirmed on g
    bounty                  \* bounty[g]: asked of the next process

baseVars == <<messages, outboxActiveProcess, inboxActiveProcess, bounty>>

Process == Message \cup {NoMessage}

GatewayBaseTypeOK ==
    /\ messages \in [Side -> SUBSET Message]
    /\ outboxActiveProcess \in [Side -> [Account -> Process]]
    /\ inboxActiveProcess \in [Side -> [Account -> Process]]
    /\ bounty \in [Side -> Bounties]

GatewayBaseInit ==
    /\ messages = [g \in Side |-> {}]
    /\ outboxActiveProcess = [g \in Side |-> [a \in Account |-> NoMessage]]
    /\ inboxActiveProcess = [g \in Side |-> [a \in Account |-> NoMessage]]
    /\ bounty = [g \in Side |-> InitialBounty]

-----------------------------------------------------------------------------
\* messages[m] is set: without it a hash handed to a function is that of an
\* empty message, which no box knows.
Stored(g, m) == m \in messages[g]

\* getMessageNonce: the nonce after that of the previous process; a process
\* whose message is gone would read as nonce zero.
NextNonce(g, previous) ==
    IF previous = NoMessage THEN 0
    ELSE IF Stored(g, previous) THEN Nonce[previous] + 1 ELSE 1

\* _getOutboxNonce and _getInboxNonce
OutboxNonce(g, a) == NextNonce(g, outboxActiveProcess[g][a])
InboxNonce(g, a) == NextNonce(g, inboxActiveProcess[g][a])

\* Mutant: the process that is replaced need not be over.
CompletedOrNot(g, previous) == TRUE

\* The check both registrations make of the process they replace.
Completed(g, previous) ==
    previous # NoMessage => messageBox[g][previous] \in {"Progressed", "Revoked"}

\* storeMessage of m, and the delete of the previous process's message.
ReplaceMessage(g, previous, m) ==
    messages' = [messages EXCEPT ![g] = (@ \cup {m}) \ {previous}]

RegisterOutboxProcess(g, m) ==
    LET previous == outboxActiveProcess[g][Sender[m]] IN
    /\ Nonce[m] = OutboxNonce(g, Sender[m])
    /\ Completed(g, previous)
    /\ ReplaceMessage(g, previous, m)
    /\ outboxActiveProcess' = [outboxActiveProcess EXCEPT ![g][Sender[m]] = m]
    /\ UNCHANGED <<inboxActiveProcess, bounty>>

\* Mutant: a confirmation takes the message's nonce as it comes.
RegisterInboxProcessUnordered(g, m) ==
    LET previous == inboxActiveProcess[g][Sender[m]] IN
    /\ Completed(g, previous)
    /\ ReplaceMessage(g, previous, m)
    /\ inboxActiveProcess' = [inboxActiveProcess EXCEPT ![g][Sender[m]] = m]
    /\ UNCHANGED <<outboxActiveProcess, bounty>>

RegisterInboxProcess(g, m) ==
    LET previous == inboxActiveProcess[g][Sender[m]] IN
    /\ Nonce[m] = InboxNonce(g, Sender[m])
    /\ Completed(g, previous)
    /\ ReplaceMessage(g, previous, m)
    /\ inboxActiveProcess' = [inboxActiveProcess EXCEPT ![g][Sender[m]] = m]
    /\ UNCHANGED <<outboxActiveProcess, bounty>>

\* penaltyFromBounty: REVOCATION_PENALTY is 150 percent, rounded down.
Penalty(stakedBounty) == (stakedBounty * 150) \div 100

\* confirmBountyAmountChange as the processes see it: at some block the bounty
\* becomes another one.  BountyChange models the proposal and its unlocking.
ConfirmBountyAmountChange(g, proposedBounty) ==
    /\ proposedBounty # bounty[g]
    /\ bounty' = [bounty EXCEPT ![g] = proposedBounty]
    /\ UNCHANGED <<messages, outboxActiveProcess, inboxActiveProcess>>

\* feeAmount: what the facilitator may get for completing m.
Fees(m) == 0 .. MaxReward[m]

\* Both stake and redeem, and their confirmations, refuse other amounts.
ValidAmount(m) == Amount[m] > 0 /\ Amount[m] > MaxReward[m]

\* Mutant: a ledger that does not look at the balance.
CoversAlways(ledger, payer, amount) == TRUE

\* EIP20 transfer: a ledger that reverts when the payer has too little.
Covers(ledger, payer, amount) == ledger[payer] >= amount

Transfer(ledger, payer, payee, amount) ==
    [ledger EXCEPT ![payer] = @ - amount, ![payee] = @ + amount]

\* What a mapping returns for a request that was never made or was deleted.
NoRequest == [amount |-> 0, bounty |-> 0]

Requests == [amount : Nat, bounty : Nat]
=============================================================================
