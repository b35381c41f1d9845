------------------------------ MODULE Gateways ------------------------------
(***************************************************************************)
(* The whole transfer system: EIP20Gateway with its vault on the origin    *)
(* chain, EIP20CoGateway with the utility token on the auxiliary chain,    *)
(* and the blocks, anchors and proofs between them.                        *)
(***************************************************************************)
EXTENDS EIP20Gateway, EIP20CoGateway, FiniteSets, Functions

CONSTANTS InitialValue, InitialBase, InitialCoin  \* what accounts start with

ASSUME BalanceAssumption ==
    {InitialValue, InitialBase, InitialCoin} \subseteq [Account -> Nat]

\* A message hash has 32 bytes and an address has 20.
ASSUME FiniteAssumption == IsFiniteSet(Message) /\ IsFiniteSet(Account)

ledgerVars == <<gatewayVars, coGatewayVars>>
vars == <<busVars, baseVars, ledgerVars>>

TypeOK ==
    /\ StateRootsTypeOK
    /\ GatewayBaseTypeOK
    /\ EIP20GatewayTypeOK
    /\ EIP20CoGatewayTypeOK

Init ==
    /\ BusInit
    /\ GatewayBaseInit
    /\ EIP20GatewayInit(InitialValue, InitialBase)
    /\ EIP20CoGatewayInit(InitialCoin)

\* proveGateway needs the remote gateway's address, which the gateway only
\* has from its activation on; the co-gateway is constructed with it.
KnowsRemote(g) == remoteGateway \/ g = "auxiliary"

RootsNext ==
    /\ \E g \in Side :
         \/ MineBlock(g)
         \/ \E h \in DOMAIN chain[Remote(g)] :
               \/ AnchorStateRoot(g, h)
               \/ KnowsRemote(g) /\ ProveGateway(g, h)
    /\ UNCHANGED <<baseVars, ledgerVars>>

\* The organization changes the bounty of a gateway.
BountyNext ==
    /\ \E g \in Side, b \in Bounties : ConfirmBountyAmountChange(g, b)
    /\ UNCHANGED <<busVars, ledgerVars>>

Next ==
    \/ RootsNext
    \/ BountyNext
    \/ EIP20GatewayNext /\ UNCHANGED coGatewayVars
    \/ EIP20CoGatewayNext /\ UNCHANGED gatewayVars

Spec == Init /\ [][Next]_vars

\* The gateways' fairness is that of the bus: roots travel, and a transfer that
\* can be completed by a proof is, by some caller for some fee.  The functions
\* are open to everybody and whoever completes a transfer is paid for it.
Fairness ==
    /\ \A g \in Side :
         /\ WF_vars(MineBlock(g) /\ UNCHANGED <<baseVars, ledgerVars>>)
         /\ WF_vars(/\ AnchorStateRoot(g, Len(chain[Remote(g)]))
                   /\ UNCHANGED <<baseVars, ledgerVars>>)
         /\ WF_vars(/\ KnowsRemote(g)
                   /\ \E h \in DOMAIN chain[Remote(g)] : ProveGateway(g, h)
                   /\ UNCHANGED <<baseVars, ledgerVars>>)
    /\ \A m \in StakeMessage :
         /\ WF_vars(/\ \E a \in Account : ProgressStakeWithProof(a, m)
                   /\ UNCHANGED coGatewayVars)
         /\ WF_vars(ProgressRevertStake(m) /\ UNCHANGED coGatewayVars)
         /\ WF_vars(/\ \E a \in Account, fee \in Fees(m) :
                         ProgressMintWithProof(a, m, fee)
                   /\ UNCHANGED gatewayVars)
         /\ WF_vars(ConfirmRevertStakeIntent(m) /\ UNCHANGED gatewayVars)
    /\ \A m \in RedeemMessage :
         /\ WF_vars(/\ \E a \in Account : ProgressRedeemWithProof(a, m)
                   /\ UNCHANGED gatewayVars)
         /\ WF_vars(ProgressRevertRedeem(m) /\ UNCHANGED gatewayVars)
         /\ WF_vars(/\ \E a \in Account, fee \in Fees(m) :
                         ProgressUnstakeWithProof(a, m, fee)
                   /\ UNCHANGED coGatewayVars)
         /\ WF_vars(ConfirmRevertRedeemIntent(m) /\ UNCHANGED coGatewayVars)

FairSpec == Spec /\ Fairness

\* Every handler that changes a message box does so by a step of MessageBus.
ImplementsMessageBus == BusSpec

-----------------------------------------------------------------------------
Total(amount) == SumFunctionOnSet(amount, Message)
Amounts(requests) == [m \in Message |-> requests[m].amount]
PaidBounties(requests) == [m \in Message |-> requests[m].bounty]

\* What the gateway and the co-gateway hold is exactly what their open
\* requests may still claim, each bounty at the amount it was paid in, even
\* when the bounty was changed meanwhile.
Escrow ==
    /\ valueBalance["gateway"] = Total(Amounts(stakes))
    /\ baseBalance["gateway"] = Total(PaidBounties(stakes))
    /\ utilityBalance["gateway"] = Total(Amounts(redeems))
    /\ coinBalance["gateway"] = Total(PaidBounties(redeems))

\* Every utility token an account can spend or redeem is backed by value
\* tokens on the origin chain, in the vault or on their way to it, whichever
\* side of each transfer progresses first (progressMintInternal,
\* progressUnstakeInternal).
Backed ==
    SumFunctionOnSet(utilityBalance, Account)
      =< valueBalance["stakeVault"] + valueBalance["gateway"]

\* The request mappings and the message boxes never disagree, so no "request
\* must exist" guard can leave a message open that the bus would close.
RequestsMatchBoxes ==
    /\ \A m \in StakeMessage :
         /\ stakes[m].amount > 0
              <=> Outbox(m) \in {"Declared", "DeclaredRevocation"}
         /\ mints[m] > 0 <=> Inbox(m) = "Declared"
    /\ \A m \in RedeemMessage :
         /\ redeems[m].amount > 0
              <=> Outbox(m) \in {"Declared", "DeclaredRevocation"}
         /\ unstakes[m] > 0 <=> Inbox(m) = "Declared"

\* The message of an open process is the active one of its sender and is still
\* stored: "delete messages[previousMessageHash]" never hits one in use, and
\* no account has two open processes in one direction.
OpenProcessIsActive ==
    \A m \in Message :
        /\ Outbox(m) \in {"Declared", "DeclaredRevocation"} =>
             /\ Stored(Source[m], m)
             /\ outboxActiveProcess[Source[m]][Sender[m]] = m
        /\ Inbox(m) = "Declared" =>
             /\ Stored(Target(m), m)
             /\ inboxActiveProcess[Target(m)][Sender[m]] = m

\* A message is taken in on the target only when its predecessor, the message
\* of the same sender one nonce before, is closed on both chains: an account's
\* transfers neither overtake each other nor leave gaps, although each chain
\* only checks its own nonces and its own boxes.
ConfirmedInOrder ==
    \A m \in Message :
        Inbox(m) # "Undeclared" /\ Nonce[m] > 0 =>
            \E p \in Message :
                /\ Source[p] = Source[m]
                /\ Sender[p] = Sender[m]
                /\ Nonce[p] + 1 = Nonce[m]
                /\ Closed(p)

\* A transfer the target has confirmed is settled in full: its requests are
\* cleared on both chains, and so is its bounty.  A redemption may have to
\* wait for the vault, which is filled only when the stakes behind the
\* redeemed tokens are progressed on the origin chain.
ConfirmedIsSettled ==
    \A m \in Message :
        (mints[m] + unstakes[m] > 0)
          ~> (Closed(m) /\ mints[m] + unstakes[m] = 0
              /\ stakes[m] = NoRequest /\ redeems[m] = NoRequest)

\* A nonce that was used is not used again: no sequence of registrations and
\* deletions of messages lets an account's nonce fall back.
NoncesNeverFall ==
    [][\A g \in Side : \A a \in Account :
          /\ OutboxNonce(g, a)' \in OutboxNonce(g, a) .. OutboxNonce(g, a) + 1
          /\ InboxNonce(g, a)' \in InboxNonce(g, a) .. InboxNonce(g, a) + 1]_vars
=============================================================================
