--------------------------- MODULE GatewaysProofs ---------------------------
(***************************************************************************)
(* Theorems about the composed gateways, for any accounts, messages,       *)
(* amounts, bounties and balances.  Every handler changes the message box  *)
(* by a function of MessageBus or not at all, so that what is proved of    *)
(* the bus holds of the gateways.  The ledgers are last: what is held for  *)
(* open requests and what the utility tokens are backed by.                *)
(***************************************************************************)
EXTENDS Gateways, MessageBusProofs, SumTheorems

\* The transactions of the origin chain are steps of the bus.
LEMMA EIP20GatewayStep ==
    ASSUME EIP20GatewayNext
    PROVE  BusNext \/ UNCHANGED busVars
<1>. USE DEF MessageNext, BusNext
<1>1. ASSUME NEW m \in StakeMessage,
             \/ Stake(m) \/ RevertStake(m) \/ ProgressRevertStake(m)
             \/ \E caller \in Account :
                   \/ \E unlockSecret \in Secret :
                         ProgressStake(caller, m, unlockSecret)
                   \/ ProgressStakeWithProof(caller, m)
      PROVE  BusNext
  <2>1. m \in Message
    BY DEF StakeMessage
  <2>2. MessageNext(m)
    BY <1>1 DEF Stake, RevertStake, ProgressRevertStake, ProgressStake,
                ProgressStakeWithProof
  <2>. QED
    BY <2>1, <2>2
<1>2. ASSUME NEW m \in RedeemMessage,
             \/ ConfirmRedeemIntent(m) \/ ConfirmRevertRedeemIntent(m)
             \/ \E caller \in Account, fee \in Fees(m) :
                   \/ \E unlockSecret \in Secret :
                         ProgressUnstake(caller, m, unlockSecret, fee)
                   \/ ProgressUnstakeWithProof(caller, m, fee)
      PROVE  BusNext
  <2>1. m \in Message
    BY DEF RedeemMessage
  <2>2. MessageNext(m)
    BY <1>2 DEF ConfirmRedeemIntent, ConfirmRevertRedeemIntent,
                ProgressUnstake, ProgressUnstakeWithProof
  <2>. QED
    BY <2>1, <2>2
<1>3. ActivateGateway \/ DeactivateGateway => UNCHANGED busVars
  BY DEF ActivateGateway, DeactivateGateway
<1>. QED
  BY <1>1, <1>2, <1>3 DEF EIP20GatewayNext

\* So are those of the auxiliary chain.
LEMMA EIP20CoGatewayStep ==
    ASSUME EIP20CoGatewayNext
    PROVE  BusNext
<1>. USE DEF MessageNext, BusNext
<1>1. ASSUME NEW m \in StakeMessage,
             \/ ConfirmStakeIntent(m) \/ ConfirmRevertStakeIntent(m)
             \/ \E caller \in Account, fee \in Fees(m) :
                   \/ \E unlockSecret \in Secret :
                         ProgressMint(caller, m, unlockSecret, fee)
                   \/ ProgressMintWithProof(caller, m, fee)
      PROVE  BusNext
  <2>1. m \in Message
    BY DEF StakeMessage
  <2>2. MessageNext(m)
    BY <1>1 DEF ConfirmStakeIntent, ConfirmRevertStakeIntent, ProgressMint,
                ProgressMintWithProof
  <2>. QED
    BY <2>1, <2>2
<1>2. ASSUME NEW m \in RedeemMessage,
             \/ Redeem(m) \/ RevertRedeem(m) \/ ProgressRevertRedeem(m)
             \/ \E caller \in Account :
                   \/ \E unlockSecret \in Secret :
                         ProgressRedeem(caller, m, unlockSecret)
                   \/ ProgressRedeemWithProof(caller, m)
      PROVE  BusNext
  <2>1. m \in Message
    BY DEF RedeemMessage
  <2>2. MessageNext(m)
    BY <1>2 DEF Redeem, RevertRedeem, ProgressRevertRedeem, ProgressRedeem,
                ProgressRedeemWithProof
  <2>. QED
    BY <2>1, <2>2
<1>. QED
  BY <1>1, <1>2 DEF EIP20CoGatewayNext

\* The gateways implement the message bus.
THEOREM GatewaysImplementBus == Spec => ImplementsMessageBus
<1>1. Init => BusInit
  BY DEF Init
<1>2. [Next]_vars => [BusNext]_busVars
  <2>. SUFFICES ASSUME [Next]_vars PROVE BusNext \/ UNCHANGED busVars
    OBVIOUS
  <2>1. CASE RootsNext
    BY <2>1 DEF RootsNext, BusNext, StateRootsNext
  <2>2. CASE BountyNext
    BY <2>2 DEF BountyNext
  <2>3. CASE EIP20GatewayNext
    BY <2>3, EIP20GatewayStep
  <2>4. CASE EIP20CoGatewayNext
    BY <2>4, EIP20CoGatewayStep
  <2>5. CASE UNCHANGED vars
    BY <2>5 DEF vars
  <2>. QED
    BY <2>1, <2>2, <2>3, <2>4, <2>5 DEF Next
<1>. QED
  BY <1>1, <1>2, PTL DEF Spec, BusSpec, ImplementsMessageBus

\* Transfers between the gateways are atomic: no stake is returned that was
\* minted, none is kept that was refused, and likewise for redemptions.
THEOREM GatewayTransfersAreAtomic == Spec => []Atomicity
BY GatewaysImplementBus, TransfersAreAtomic, PTL DEF ImplementsMessageBus

-----------------------------------------------------------------------------
\* A transfer that the payer's balance covers leaves natural numbers.
LEMMA TransferType ==
    ASSUME NEW H, NEW ledger \in [H -> Nat], NEW payer \in H, NEW payee \in H,
           NEW amount \in Nat, Covers(ledger, payer, amount)
    PROVE  Transfer(ledger, payer, payee, amount) \in [H -> Nat]
BY DEF Transfer, Covers

\* The payer keeps at least what the transfer leaves of its balance.
LEMMA TransferLeaves ==
    ASSUME NEW H, NEW ledger \in [H -> Nat], NEW payer \in H, NEW payee \in H,
           NEW amount \in Nat, Covers(ledger, payer, amount)
    PROVE  Transfer(ledger, payer, payee, amount)[payer]
             >= ledger[payer] - amount
BY DEF Transfer, Covers

\* A penalty is a natural number, whatever the rounding.
LEMMA PenaltyType == \A b \in Nat : Penalty(b) \in Nat
BY DEF Penalty

\* A pending mint or unstake is the message's amount, and more than its fee.
PendingAmounts ==
    \A m \in Message :
        /\ mints[m] > 0 => mints[m] = Amount[m] /\ ValidAmount(m)
        /\ unstakes[m] > 0 => unstakes[m] = Amount[m] /\ ValidAmount(m)

\* The types of what the contracts keep beside the message box; balances never
\* go below zero only because fees are less than the pending amount.
LedgerInv ==
    /\ GatewayBaseTypeOK
    /\ EIP20GatewayTypeOK
    /\ EIP20CoGatewayTypeOK
    /\ PendingAmounts

\* The empty request is one.
LEMMA NoRequestType == NoRequest \in Requests
BY DEF NoRequest, Requests

\* The constructors establish the ledger invariant.
LEMMA LedgerInit == Init => LedgerInv
<1>. SUFFICES ASSUME Init PROVE LedgerInv
  OBVIOUS
<1>. USE GatewayAssumption, BalanceAssumption DEF Init
<1>1. GatewayBaseTypeOK
  BY DEF GatewayBaseInit, GatewayBaseTypeOK, Process
<1>2. EIP20GatewayTypeOK
  BY NoRequestType DEF EIP20GatewayInit, EIP20GatewayTypeOK
<1>3. EIP20CoGatewayTypeOK
  BY NoRequestType DEF EIP20CoGatewayInit, EIP20CoGatewayTypeOK
<1>4. PendingAmounts
  BY DEF PendingAmounts, EIP20GatewayInit, EIP20CoGatewayInit
<1>. QED
  BY <1>1, <1>2, <1>3, <1>4 DEF LedgerInv

\* Registering a process keeps the types of the base contract.
LEMMA RegisterType ==
    ASSUME GatewayBaseTypeOK, NEW g \in Side, NEW m \in Message,
           RegisterOutboxProcess(g, m) \/ RegisterInboxProcess(g, m)
    PROVE  GatewayBaseTypeOK'
<1>. USE GatewayAssumption
     DEF GatewayBaseTypeOK, ReplaceMessage, Process
<1>1. CASE RegisterOutboxProcess(g, m)
  BY <1>1 DEF RegisterOutboxProcess
<1>2. CASE RegisterInboxProcess(g, m)
  BY <1>2 DEF RegisterInboxProcess
<1>. QED
  BY <1>1, <1>2

\* Every transaction of the origin chain preserves it; unstaking pays twice
\* from the vault, and the guard on the sum covers both payments.
LEMMA EIP20GatewayLedger ==
    ASSUME LedgerInv, EIP20GatewayNext, UNCHANGED coGatewayVars
    PROVE  LedgerInv'
<1>. DEFINE V == Account \cup {"gateway", "stakeVault"}
            B == Account \cup {"gateway", "burner"}
<1>. USE GatewayAssumption DEF coGatewayVars, LedgerInv
<1>0. /\ valueBalance \in [V -> Nat]
      /\ baseBalance \in [B -> Nat]
      /\ stakes \in [Message -> Requests]
      /\ unstakes \in [Message -> Nat]
      /\ \A m \in Message : stakes[m].amount \in Nat /\ stakes[m].bounty \in Nat
      /\ \A g \in Side : bounty[g] \in Nat
      /\ \A m \in Message : Sender[m] \in Account /\ Beneficiary[m] \in Account
                            /\ Amount[m] \in Nat /\ MaxReward[m] \in Nat
  BY DEF EIP20GatewayTypeOK, GatewayBaseTypeOK, Requests
<1>t. ASSUME activated' \in BOOLEAN, remoteGateway' \in BOOLEAN,
             stakes' \in [Message -> Requests], unstakes' \in [Message -> Nat],
             valueBalance' \in [V -> Nat], baseBalance' \in [B -> Nat],
             GatewayBaseTypeOK',
             \A m \in Message : unstakes'[m] > 0 =>
                unstakes'[m] = Amount[m] /\ ValidAmount(m)
      PROVE  LedgerInv'
  BY <1>t DEF EIP20GatewayTypeOK, EIP20CoGatewayTypeOK, PendingAmounts, ValidAmount
<1>u. /\ activated \in BOOLEAN /\ remoteGateway \in BOOLEAN
      /\ \A m \in Message : unstakes[m] > 0 =>
            unstakes[m] = Amount[m] /\ ValidAmount(m)
      /\ UNCHANGED baseVars => GatewayBaseTypeOK'
  BY DEF EIP20GatewayTypeOK, PendingAmounts, GatewayBaseTypeOK, baseVars
<1>1. ASSUME NEW m \in Message, Stake(m)
      PROVE  LedgerInv'
  <2>1. GatewayBaseTypeOK'
    BY <1>1, RegisterType DEF Stake, Side
  <2>2. stakes' \in [Message -> Requests]
    BY <1>0, <1>1 DEF Stake, Requests, Side
  <2>3. valueBalance' \in [V -> Nat] /\ baseBalance' \in [B -> Nat]
    <3>1. Sender[m] \in V /\ "gateway" \in V /\ Sender[m] \in B
          /\ "gateway" \in B /\ bounty["origin"] \in Nat /\ Amount[m] \in Nat
      BY <1>0 DEF Side
    <3>. QED
      BY <1>0, <1>1, <3>1, TransferType DEF Stake
  <2>. QED
    BY <1>1, <1>0, <1>t, <1>u, <2>1, <2>2, <2>3 DEF Stake
<1>2. ASSUME NEW m \in Message, NEW caller \in Account,
             ProgressStakeInternal(caller, m)
      PROVE  LedgerInv'
  <2>1. valueBalance' \in [V -> Nat] /\ baseBalance' \in [B -> Nat]
    <3>1. "stakeVault" \in V /\ "gateway" \in V /\ caller \in B
          /\ "gateway" \in B
          /\ stakes[m].amount \in Nat /\ stakes[m].bounty \in Nat
      BY <1>0
    <3>. QED
      BY <1>0, <1>2, <3>1, TransferType DEF ProgressStakeInternal
  <2>2. stakes' \in [Message -> Requests]
    BY <1>0, <1>2, NoRequestType DEF ProgressStakeInternal
  <2>. QED
    BY <1>2, <1>0, <1>t, <1>u, <2>1, <2>2 DEF ProgressStakeInternal
<1>3. ASSUME NEW m \in Message, RevertStake(m)
      PROVE  LedgerInv'
  <2>1. baseBalance' \in [B -> Nat]
    <3>1. Sender[m] \in B /\ "burner" \in B /\ Penalty(stakes[m].bounty) \in Nat
      BY <1>0, PenaltyType
    <3>. QED
      BY <1>0, <1>3, <3>1, TransferType DEF RevertStake
  <2>. QED
    BY <1>3, <1>0, <1>t, <1>u, <2>1 DEF RevertStake
<1>4. ASSUME NEW m \in Message, ProgressRevertStake(m)
      PROVE  LedgerInv'
  <2>1. valueBalance' \in [V -> Nat] /\ baseBalance' \in [B -> Nat]
    <3>1. Sender[m] \in V /\ "gateway" \in V /\ "burner" \in B
          /\ "gateway" \in B
          /\ stakes[m].amount \in Nat /\ stakes[m].bounty \in Nat
      BY <1>0
    <3>. QED
      BY <1>0, <1>4, <3>1, TransferType DEF ProgressRevertStake
  <2>2. stakes' \in [Message -> Requests]
    BY <1>0, <1>4, NoRequestType DEF ProgressRevertStake
  <2>. QED
    BY <1>4, <1>0, <1>t, <1>u, <2>1, <2>2 DEF ProgressRevertStake
<1>5. ASSUME NEW m \in Message, ConfirmRedeemIntent(m)
      PROVE  LedgerInv'
  <2>1. GatewayBaseTypeOK'
    BY <1>5, RegisterType DEF ConfirmRedeemIntent, Side
  <2>. QED
    BY <1>5, <1>0, <1>t, <1>u, <2>1 DEF ConfirmRedeemIntent
<1>6. ASSUME NEW m \in Message, NEW caller \in Account, NEW fee \in Fees(m),
             ProgressUnstakeInternal(caller, m, fee)
      PROVE  LedgerInv'
  <2>. DEFINE paid == Transfer(valueBalance, "stakeVault", Beneficiary[m],
                               unstakes[m] - fee)
  <2>1. fee \in Nat /\ unstakes[m] \in Nat /\ fee =< unstakes[m]
    BY <1>0, <1>6, <1>u DEF ProgressUnstakeInternal, Fees, ValidAmount
  <2>2. /\ "stakeVault" \in V /\ caller \in V /\ Beneficiary[m] \in V
        /\ unstakes[m] - fee \in Nat
        /\ Covers(valueBalance, "stakeVault", unstakes[m] - fee)
    BY <1>0, <1>6, <2>1 DEF ProgressUnstakeInternal, Covers
  <2>3. paid \in [V -> Nat]
    BY <1>0, <2>2, TransferType
  <2>4. Covers(paid, "stakeVault", fee)
    <3>1. paid["stakeVault"] >= valueBalance["stakeVault"] - (unstakes[m] - fee)
      BY <1>0, <2>2, TransferLeaves
    <3>2. valueBalance["stakeVault"] >= unstakes[m]
      BY <1>6 DEF ProgressUnstakeInternal, Covers
    <3>3. paid["stakeVault"] \in Nat /\ valueBalance["stakeVault"] \in Nat
      BY <1>0, <2>2, <2>3
    <3>. QED
      BY <2>1, <3>1, <3>2, <3>3 DEF Covers
  <2>5. valueBalance' \in [V -> Nat]
    BY <1>6, <2>1, <2>2, <2>3, <2>4, TransferType DEF ProgressUnstakeInternal
  <2>. QED
    BY <1>6, <1>0, <1>t, <1>u, <2>5 DEF ProgressUnstakeInternal
<1>7. ASSUME NEW m \in Message, ConfirmRevertRedeemIntent(m)
      PROVE  LedgerInv'
  BY <1>7, <1>0, <1>t, <1>u DEF ConfirmRevertRedeemIntent
<1>8. CASE ActivateGateway \/ DeactivateGateway
  BY <1>8, <1>0, <1>t, <1>u DEF ActivateGateway, DeactivateGateway
<1>. QED
  BY <1>1, <1>2, <1>3, <1>4, <1>5, <1>6, <1>7, <1>8
     DEF EIP20GatewayNext, StakeMessage, RedeemMessage, ProgressStake,
         ProgressStakeWithProof, ProgressUnstake, ProgressUnstakeWithProof

\* So does every transaction of the auxiliary chain; minting splits the amount
\* into the beneficiary's part and a fee that is less than the amount.
LEMMA EIP20CoGatewayLedger ==
    ASSUME LedgerInv, EIP20CoGatewayNext, UNCHANGED gatewayVars
    PROVE  LedgerInv'
<1>. DEFINE U == Account \cup {"gateway"}
            C == Account \cup {"gateway", "burner"}
<1>. USE GatewayAssumption DEF gatewayVars, LedgerInv
<1>0. /\ utilityBalance \in [U -> Nat]
      /\ coinBalance \in [C -> Nat]
      /\ redeems \in [Message -> Requests]
      /\ mints \in [Message -> Nat]
      /\ \A m \in Message : redeems[m].amount \in Nat /\ redeems[m].bounty \in Nat
      /\ \A g \in Side : bounty[g] \in Nat
      /\ \A m \in Message : Sender[m] \in Account /\ Beneficiary[m] \in Account
                            /\ Amount[m] \in Nat /\ MaxReward[m] \in Nat
  BY DEF EIP20CoGatewayTypeOK, GatewayBaseTypeOK, Requests
<1>t. ASSUME redeems' \in [Message -> Requests], mints' \in [Message -> Nat],
             utilityBalance' \in [U -> Nat], coinBalance' \in [C -> Nat],
             GatewayBaseTypeOK',
             \A m \in Message : mints'[m] > 0 =>
                mints'[m] = Amount[m] /\ ValidAmount(m)
      PROVE  LedgerInv'
  BY <1>t DEF EIP20GatewayTypeOK, EIP20CoGatewayTypeOK, PendingAmounts, ValidAmount
<1>u. /\ \A m \in Message : mints[m] > 0 =>
            mints[m] = Amount[m] /\ ValidAmount(m)
      /\ UNCHANGED baseVars => GatewayBaseTypeOK'
  BY DEF PendingAmounts, GatewayBaseTypeOK, baseVars
<1>1. ASSUME NEW m \in Message, ConfirmStakeIntent(m)
      PROVE  LedgerInv'
  <2>1. GatewayBaseTypeOK'
    BY <1>1, RegisterType DEF ConfirmStakeIntent, Side
  <2>. QED
    BY <1>1, <1>0, <1>t, <1>u, <2>1 DEF ConfirmStakeIntent
<1>2. ASSUME NEW m \in Message, NEW caller \in Account, NEW fee \in Fees(m),
             ProgressMintInternal(caller, m, fee)
      PROVE  LedgerInv'
  <2>1. fee \in Nat /\ mints[m] - fee \in Nat
    BY <1>0, <1>2, <1>u DEF ProgressMintInternal, Fees, ValidAmount
  <2>2. utilityBalance' \in [U -> Nat]
    BY <1>0, <1>2, <2>1 DEF ProgressMintInternal, IncreaseSupply
  <2>. QED
    BY <1>2, <1>0, <1>t, <1>u, <2>2 DEF ProgressMintInternal
<1>3. ASSUME NEW m \in Message, ConfirmRevertStakeIntent(m)
      PROVE  LedgerInv'
  BY <1>3, <1>0, <1>t, <1>u DEF ConfirmRevertStakeIntent
<1>4. ASSUME NEW m \in Message, Redeem(m)
      PROVE  LedgerInv'
  <2>1. GatewayBaseTypeOK'
    BY <1>4, RegisterType DEF Redeem, Side
  <2>2. redeems' \in [Message -> Requests]
    BY <1>0, <1>4 DEF Redeem, Requests, Side
  <2>3. utilityBalance' \in [U -> Nat] /\ coinBalance' \in [C -> Nat]
    <3>1. Sender[m] \in U /\ "gateway" \in U /\ Sender[m] \in C
          /\ "gateway" \in C /\ bounty["auxiliary"] \in Nat
          /\ Amount[m] \in Nat
      BY <1>0 DEF Side
    <3>. QED
      BY <1>0, <1>4, <3>1, TransferType DEF Redeem
  <2>. QED
    BY <1>4, <1>0, <1>t, <1>u, <2>1, <2>2, <2>3 DEF Redeem
<1>5. ASSUME NEW m \in Message, NEW caller \in Account,
             ProgressRedeemInternal(caller, m)
      PROVE  LedgerInv'
  <2>1. redeems' \in [Message -> Requests]
    BY <1>0, <1>5, NoRequestType DEF ProgressRedeemInternal
  <2>2. utilityBalance' \in [U -> Nat]
    BY <1>0, <1>5 DEF ProgressRedeemInternal, DecreaseSupply, Covers
  <2>3. coinBalance' \in [C -> Nat]
    <3>1. "gateway" \in C /\ caller \in C /\ redeems[m].bounty \in Nat
      BY <1>0
    <3>. QED
      BY <1>0, <1>5, <3>1, TransferType DEF ProgressRedeemInternal
  <2>. QED
    BY <1>5, <1>0, <1>t, <1>u, <2>1, <2>2, <2>3 DEF ProgressRedeemInternal
<1>6. ASSUME NEW m \in Message, RevertRedeem(m)
      PROVE  LedgerInv'
  <2>1. coinBalance' \in [C -> Nat]
    <3>1. Sender[m] \in C /\ "burner" \in C
          /\ Penalty(redeems[m].bounty) \in Nat
      BY <1>0, PenaltyType
    <3>. QED
      BY <1>0, <1>6, <3>1, TransferType DEF RevertRedeem
  <2>. QED
    BY <1>6, <1>0, <1>t, <1>u, <2>1 DEF RevertRedeem
<1>7. ASSUME NEW m \in Message, ProgressRevertRedeem(m)
      PROVE  LedgerInv'
  <2>1. redeems' \in [Message -> Requests]
    BY <1>0, <1>7, NoRequestType DEF ProgressRevertRedeem
  <2>2. utilityBalance' \in [U -> Nat] /\ coinBalance' \in [C -> Nat]
    <3>1. "gateway" \in U /\ Sender[m] \in U /\ "gateway" \in C
          /\ "burner" \in C
          /\ redeems[m].amount \in Nat /\ redeems[m].bounty \in Nat
      BY <1>0
    <3>. QED
      BY <1>0, <1>7, <3>1, TransferType DEF ProgressRevertRedeem
  <2>. QED
    BY <1>7, <1>0, <1>t, <1>u, <2>1, <2>2 DEF ProgressRevertRedeem
<1>. QED
  BY <1>1, <1>2, <1>3, <1>4, <1>5, <1>6, <1>7
     DEF EIP20CoGatewayNext, StakeMessage, RedeemMessage, ProgressMint,
         ProgressMintWithProof, ProgressRedeem, ProgressRedeemWithProof

\* Blocks, roots and the bounty's change leave the ledgers alone.
LEMMA OtherLedger ==
    ASSUME LedgerInv, RootsNext \/ BountyNext \/ UNCHANGED vars
    PROVE  LedgerInv'
<1>1. UNCHANGED ledgerVars
  BY DEF RootsNext, BountyNext, vars
<1>2. GatewayBaseTypeOK'
  BY DEF RootsNext, BountyNext, vars, baseVars, ConfirmBountyAmountChange,
         LedgerInv, GatewayBaseTypeOK
<1>. QED
  BY <1>1, <1>2
     DEF ledgerVars, gatewayVars, coGatewayVars, LedgerInv, EIP20GatewayTypeOK,
         EIP20CoGatewayTypeOK, PendingAmounts

\* No balance, request or process ever leaves its type: no transfer takes more
\* than there is, although progressUnstake and progressMint subtract a fee from
\* an amount that was checked against it in another transaction.
THEOREM LedgersAreTyped == Spec => []LedgerInv
<1>1. LedgerInv /\ [Next]_vars => LedgerInv'
  BY EIP20GatewayLedger, EIP20CoGatewayLedger, OtherLedger DEF Next
<1>. QED
  BY <1>1, LedgerInit, PTL DEF Spec

\* Type correctness of the whole system.
THEOREM TypeCorrect == Spec => []TypeOK
<1>1. Spec => []StateRootsTypeOK
  BY GatewaysImplementBus, StateRootsTypes, PTL DEF ImplementsMessageBus
<1>2. StateRootsTypeOK /\ LedgerInv => TypeOK
  BY DEF LedgerInv, TypeOK
<1>. QED
  BY <1>1, <1>2, LedgersAreTyped, PTL

-----------------------------------------------------------------------------
(***************************************************************************)
(* The open processes of the gateways, for any number of accounts and      *)
(* messages: which mapping entries and which stored messages an open       *)
(* message may rely on.  The invariant ProcessInv joins the two properties *)
(* with the fact that an account's active process is one it opened on that *)
(* side, which is what makes the delete of the previous message harmless.  *)
(***************************************************************************)

\* The source has declared m and has not closed it.
OpenOutbox(m) == Outbox(m) \in {"Declared", "DeclaredRevocation"}

\* The source's request mapping for m, and the target's.
Requested(m) ==
    IF Source[m] = "origin" THEN stakes[m].amount ELSE redeems[m].amount
Pending(m) == IF Source[m] = "origin" THEN mints[m] ELSE unstakes[m]

RequestsInv ==
    \A m \in Message :
        /\ Requested(m) > 0 <=> OpenOutbox(m)
        /\ Pending(m) > 0 <=> Inbox(m) = "Declared"

ActiveInv ==
    \A g \in Side : \A a \in Account :
        /\ outboxActiveProcess[g][a] # NoMessage =>
             /\ Source[outboxActiveProcess[g][a]] = g
             /\ Sender[outboxActiveProcess[g][a]] = a
        /\ inboxActiveProcess[g][a] # NoMessage =>
             /\ Source[inboxActiveProcess[g][a]] # g
             /\ Sender[inboxActiveProcess[g][a]] = a

ProcessInv == RequestsInv /\ OpenProcessIsActive /\ ActiveInv

\* Nothing is open to begin with.
LEMMA ProcessInit == Init => ProcessInv
<1>. SUFFICES ASSUME Init PROVE ProcessInv
  OBVIOUS
<1>. USE DEF Init, BusInit, StateRootsInit
<1>1. \A m \in Message : Outbox(m) = "Undeclared" /\ Inbox(m) = "Undeclared"
  BY Ends DEF Outbox, Inbox, EmptyBox
<1>2. \A m \in Message : Requested(m) = 0 /\ Pending(m) = 0
  BY DEF EIP20GatewayInit, EIP20CoGatewayInit, Requested, Pending, NoRequest
<1>3. ActiveInv
  BY DEF GatewayBaseInit, ActiveInv
<1>. QED
  BY <1>1, <1>2, <1>3
     DEF ProcessInv, RequestsInv, OpenProcessIsActive, OpenOutbox

\* Setting an entry of m changes no entry of another message and not the one
\* that m has on the other side.
LEMMA BoxSet ==
    ASSUME TypeOK, NEW m \in Message, NEW s
    PROVE  /\ SetOutbox(m, s) =>
                /\ Outbox(m)' = s /\ Inbox(m)' = Inbox(m)
                /\ \A k \in Message \ {m} :
                      Outbox(k)' = Outbox(k) /\ Inbox(k)' = Inbox(k)
           /\ SetInbox(m, s) =>
                /\ Inbox(m)' = s /\ Outbox(m)' = Outbox(m)
                /\ \A k \in Message \ {m} :
                      Outbox(k)' = Outbox(k) /\ Inbox(k)' = Inbox(k)
<1>1. ASSUME NEW g \in Side, messageBox' = [messageBox EXCEPT ![g][m] = s]
      PROVE  \A f \in Side, k \in Message :
                messageBox'[f][k]
                  = IF f = g /\ k = m THEN s ELSE messageBox[f][k]
  BY <1>1 DEF TypeOK, StateRootsTypeOK
<1>2. ASSUME SetOutbox(m, s)
      PROVE  /\ Outbox(m)' = s /\ Inbox(m)' = Inbox(m)
             /\ \A k \in Message \ {m} :
                   Outbox(k)' = Outbox(k) /\ Inbox(k)' = Inbox(k)
  <2>1. messageBox' = [messageBox EXCEPT ![Source[m]][m] = s]
    BY <1>2 DEF SetOutbox
  <2>2. \A f \in Side, k \in Message :
          messageBox'[f][k] = IF f = Source[m] /\ k = m THEN s ELSE messageBox[f][k]
    BY <1>1, <2>1, Ends
  <2>. QED
    BY <2>2, Ends DEF Outbox, Inbox, Target
<1>3. ASSUME SetInbox(m, s)
      PROVE  /\ Inbox(m)' = s /\ Outbox(m)' = Outbox(m)
             /\ \A k \in Message \ {m} :
                   Outbox(k)' = Outbox(k) /\ Inbox(k)' = Inbox(k)
  <2>1. messageBox' = [messageBox EXCEPT ![Target(m)][m] = s]
    BY <1>3 DEF SetInbox
  <2>2. \A f \in Side, k \in Message :
          messageBox'[f][k] = IF f = Target(m) /\ k = m THEN s ELSE messageBox[f][k]
    BY <1>1, <2>1, Ends
  <2>. QED
    BY <2>2, Ends DEF Outbox, Inbox, Target
<1>. QED
  BY <1>2, <1>3

\* A transaction that closes or revokes a message of its own box and leaves
\* the processes alone.
LEMMA CloseStep ==
    ASSUME TypeOK, ProcessInv, NEW m \in Message, NEW s,
           UNCHANGED baseVars,
           \/ /\ SetOutbox(m, s) /\ OpenOutbox(m)
              /\ Requested(m)' > 0 <=> s \in {"Declared", "DeclaredRevocation"}
              /\ Pending(m)' = Pending(m)
           \/ /\ SetInbox(m, s) /\ Inbox(m) = "Declared" /\ s # "Declared"
              /\ ~(Pending(m)' > 0)
              /\ Requested(m)' = Requested(m),
           \A k \in Message \ {m} :
              Requested(k)' = Requested(k) /\ Pending(k)' = Pending(k)
    PROVE  ProcessInv'
<1>1. RequestsInv'
  BY BoxSet DEF ProcessInv, RequestsInv, OpenOutbox
<1>2. OpenProcessIsActive'
  BY BoxSet DEF ProcessInv, OpenProcessIsActive, OpenOutbox, baseVars, Stored, Target
<1>3. ActiveInv'
  BY DEF ProcessInv, ActiveInv, baseVars
<1>. QED
  BY <1>1, <1>2, <1>3 DEF ProcessInv

\* A transaction that declares a message and registers its process.
LEMMA DeclareStep ==
    ASSUME TypeOK, ProcessInv, NEW m \in Message,
           RegisterOutboxProcess(Source[m], m),
           Outbox(m) = "Undeclared", SetOutbox(m, "Declared"),
           Requested(m)' > 0, Pending(m)' = Pending(m),
           \A k \in Message \ {m} :
              Requested(k)' = Requested(k) /\ Pending(k)' = Pending(k)
    PROVE  ProcessInv'
<1>. DEFINE g == Source[m]
            previous == outboxActiveProcess[g][Sender[m]]
<1>0. /\ g \in Side /\ Sender[m] \in Account
      /\ Outbox(m)' = "Declared" /\ Inbox(m)' = Inbox(m)
      /\ \A k \in Message \ {m} :
            Outbox(k)' = Outbox(k) /\ Inbox(k)' = Inbox(k)
  BY Ends, BoxSet, GatewayAssumption
<1>1. /\ outboxActiveProcess' =
           [outboxActiveProcess EXCEPT ![g][Sender[m]] = m]
      /\ messages' = [messages EXCEPT ![g] = (@ \cup {m}) \ {previous}]
      /\ UNCHANGED inboxActiveProcess
      /\ previous # NoMessage =>
           messageBox[g][previous] \in {"Progressed", "Revoked"}
  BY DEF RegisterOutboxProcess, ReplaceMessage, Completed
<1>2. \A f \in Side, a \in Account :
        outboxActiveProcess'[f][a]
          = IF f = g /\ a = Sender[m] THEN m ELSE outboxActiveProcess[f][a]
  BY <1>0, <1>1 DEF TypeOK, GatewayBaseTypeOK
<1>3. /\ previous # NoMessage =>
           /\ previous \in Message /\ Source[previous] = g
           /\ Outbox(previous) \in {"Progressed", "Revoked"}
      /\ previous # m
  BY <1>0, <1>1, GatewayAssumption
     DEF TypeOK, GatewayBaseTypeOK, Process, ProcessInv, ActiveInv, Outbox
<1>4. RequestsInv'
  BY <1>0 DEF ProcessInv, RequestsInv, OpenOutbox
<1>5. OpenProcessIsActive'
  <2>1. ASSUME NEW k \in Message, Outbox(k)' \in {"Declared", "DeclaredRevocation"}
        PROVE  /\ Stored(Source[k], k)'
               /\ outboxActiveProcess'[Source[k]][Sender[k]] = k
    <3>1. CASE k = m
      BY <3>1, <1>0, <1>1, <1>2, <1>3
         DEF Stored, TypeOK, GatewayBaseTypeOK
    <3>2. CASE k # m
      <4>1. /\ Stored(Source[k], k)
            /\ outboxActiveProcess[Source[k]][Sender[k]] = k
            /\ Outbox(k) \in {"Declared", "DeclaredRevocation"}
        BY <1>0, <2>1, <3>2 DEF ProcessInv, OpenProcessIsActive
      <4>2. k # previous
        BY <4>1, <1>3, GatewayAssumption
      <4>3. Source[k] \in Side /\ Sender[k] \in Account
        BY Ends, GatewayAssumption
      <4>4. ~(Source[k] = g /\ Sender[k] = Sender[m])
        BY <4>1, <4>2
      <4>. QED
        BY <4>1, <4>2, <4>3, <4>4, <1>0, <1>1, <1>2
           DEF Stored, TypeOK, GatewayBaseTypeOK
    <3>. QED
      BY <3>1, <3>2
  <2>2. ASSUME NEW k \in Message, Inbox(k)' = "Declared"
        PROVE  /\ Stored(Target(k), k)'
               /\ inboxActiveProcess'[Target(k)][Sender[k]] = k
    <3>1. /\ Stored(Target(k), k)
          /\ inboxActiveProcess[Target(k)][Sender[k]] = k
      BY <1>0, <2>2 DEF ProcessInv, OpenProcessIsActive
    <3>2. Target(k) = g => k # previous
      BY <1>3, Ends, GatewayAssumption
    <3>. QED
      BY <3>1, <3>2, <1>0, <1>1, Ends
         DEF Stored, TypeOK, GatewayBaseTypeOK, Target
  <2>. QED
    BY <2>1, <2>2 DEF OpenProcessIsActive, Stored, Target
<1>6. ActiveInv'
  BY <1>0, <1>1, <1>2 DEF ProcessInv, ActiveInv
<1>. QED
  BY <1>4, <1>5, <1>6 DEF ProcessInv

\* A transaction that confirms a message and registers its process.
LEMMA ConfirmStep ==
    ASSUME TypeOK, ProcessInv, NEW m \in Message,
           RegisterInboxProcess(Target(m), m),
           Inbox(m) = "Undeclared", SetInbox(m, "Declared"),
           Pending(m)' > 0, Requested(m)' = Requested(m),
           \A k \in Message \ {m} :
              Requested(k)' = Requested(k) /\ Pending(k)' = Pending(k)
    PROVE  ProcessInv'
<1>. DEFINE g == Target(m)
            previous == inboxActiveProcess[g][Sender[m]]
<1>0. /\ g \in Side /\ Sender[m] \in Account /\ Source[m] # g
      /\ Inbox(m)' = "Declared" /\ Outbox(m)' = Outbox(m)
      /\ \A k \in Message \ {m} :
            Outbox(k)' = Outbox(k) /\ Inbox(k)' = Inbox(k)
  BY Ends, BoxSet, GatewayAssumption
<1>1. /\ inboxActiveProcess' =
           [inboxActiveProcess EXCEPT ![g][Sender[m]] = m]
      /\ messages' = [messages EXCEPT ![g] = (@ \cup {m}) \ {previous}]
      /\ UNCHANGED outboxActiveProcess
      /\ previous # NoMessage =>
           messageBox[g][previous] \in {"Progressed", "Revoked"}
  BY DEF RegisterInboxProcess, ReplaceMessage, Completed
<1>2. \A f \in Side, a \in Account :
        inboxActiveProcess'[f][a]
          = IF f = g /\ a = Sender[m] THEN m ELSE inboxActiveProcess[f][a]
  BY <1>0, <1>1 DEF TypeOK, GatewayBaseTypeOK
<1>3. /\ previous # NoMessage =>
           /\ previous \in Message /\ Source[previous] # g
           /\ Target(previous) = g
           /\ Inbox(previous) \in {"Progressed", "Revoked"}
      /\ previous # m
  <2>1. previous # NoMessage =>
          previous \in Message /\ Source[previous] # g
    BY <1>0, GatewayAssumption
       DEF TypeOK, GatewayBaseTypeOK, Process, ProcessInv, ActiveInv
  <2>2. previous # NoMessage => Target(previous) = g
    BY <2>1, <1>0, Ends DEF Side
  <2>. QED
    BY <2>1, <2>2, <1>1, GatewayAssumption DEF Inbox
<1>4. RequestsInv'
  BY <1>0 DEF ProcessInv, RequestsInv, OpenOutbox
<1>5. OpenProcessIsActive'
  <2>1. ASSUME NEW k \in Message, Inbox(k)' = "Declared"
        PROVE  /\ Stored(Target(k), k)'
               /\ inboxActiveProcess'[Target(k)][Sender[k]] = k
    <3>1. CASE k = m
      BY <3>1, <1>0, <1>1, <1>2, <1>3
         DEF Stored, TypeOK, GatewayBaseTypeOK, Target
    <3>2. CASE k # m
      <4>1. /\ Stored(Target(k), k)
            /\ inboxActiveProcess[Target(k)][Sender[k]] = k
            /\ Inbox(k) = "Declared"
        BY <1>0, <2>1, <3>2 DEF ProcessInv, OpenProcessIsActive
      <4>2. k # previous
        BY <4>1, <1>3, GatewayAssumption
      <4>3. Target(k) \in Side /\ Sender[k] \in Account
        BY Ends, GatewayAssumption
      <4>4. ~(Target(k) = g /\ Sender[k] = Sender[m])
        BY <4>1, <4>2
      <4>. QED
        BY <4>1, <4>2, <4>3, <4>4, <1>0, <1>1, <1>2
           DEF Stored, TypeOK, GatewayBaseTypeOK, Target
    <3>. QED
      BY <3>1, <3>2
  <2>2. ASSUME NEW k \in Message, Outbox(k)' \in {"Declared", "DeclaredRevocation"}
        PROVE  /\ Stored(Source[k], k)'
               /\ outboxActiveProcess'[Source[k]][Sender[k]] = k
    <3>1. /\ Stored(Source[k], k)
          /\ outboxActiveProcess[Source[k]][Sender[k]] = k
      BY <1>0, <2>2 DEF ProcessInv, OpenProcessIsActive
    <3>2. Source[k] = g => k # previous
      BY <1>3, GatewayAssumption
    <3>. QED
      BY <3>1, <3>2, <1>0, <1>1, Ends
         DEF Stored, TypeOK, GatewayBaseTypeOK
  <2>. QED
    BY <2>1, <2>2 DEF OpenProcessIsActive, Stored, Target
<1>6. ActiveInv'
  BY <1>0, <1>1, <1>2 DEF ProcessInv, ActiveInv
<1>. QED
  BY <1>4, <1>5, <1>6 DEF ProcessInv

-----------------------------------------------------------------------------
\* The statuses a transaction of MessageBus finds: all but declaring and
\* confirming act on an open entry.
LEMMA BusStepsClose ==
    ASSUME NEW m \in Message
    PROVE  /\ \A unlockSecret \in Secret :
                ProgressOutbox(m, unlockSecret) =>
                   OpenOutbox(m) /\ SetOutbox(m, "Progressed")
           /\ ProgressOutboxWithProof(m) =>
                OpenOutbox(m) /\ SetOutbox(m, "Progressed")
           /\ DeclareRevocationMessage(m) =>
                OpenOutbox(m) /\ SetOutbox(m, "DeclaredRevocation")
           /\ ProgressOutboxRevocation(m) =>
                OpenOutbox(m) /\ SetOutbox(m, "Revoked")
           /\ \A unlockSecret \in Secret :
                ProgressInbox(m, unlockSecret) =>
                   Inbox(m) = "Declared" /\ SetInbox(m, "Progressed")
           /\ ProgressInboxWithProof(m) =>
                Inbox(m) = "Declared" /\ SetInbox(m, "Progressed")
           /\ ConfirmRevocation(m) =>
                Inbox(m) = "Declared" /\ SetInbox(m, "Revoked")
BY DEF ProgressOutbox, ProgressOutboxWithProof, DeclareRevocationMessage,
       ProgressOutboxRevocation, ProgressInbox, ProgressInboxWithProof,
       ConfirmRevocation, OpenOutbox, ProgressProofs

\* The transactions of the origin chain.
LEMMA EIP20GatewayProcess ==
    ASSUME TypeOK, ProcessInv, EIP20GatewayNext, UNCHANGED coGatewayVars
    PROVE  ProcessInv'
<1>. USE DEF coGatewayVars
<1>0. /\ stakes \in [Message -> Requests] /\ unstakes \in [Message -> Nat]
      /\ \A m \in Message : Amount[m] \in Nat /\ MaxReward[m] \in Nat
  BY GatewayAssumption DEF TypeOK, EIP20GatewayTypeOK
<1>1. ASSUME NEW m \in StakeMessage, Stake(m)
      PROVE  ProcessInv'
  <2>1. /\ m \in Message /\ Source[m] = "origin"
        /\ RegisterOutboxProcess(Source[m], m)
        /\ Outbox(m) = "Undeclared" /\ SetOutbox(m, "Declared")
    BY <1>1 DEF Stake, StakeMessage, DeclareMessage
  <2>2. /\ Requested(m)' > 0 /\ Pending(m)' = Pending(m)
        /\ \A k \in Message \ {m} :
              Requested(k)' = Requested(k) /\ Pending(k)' = Pending(k)
    BY <1>0, <1>1, <2>1 DEF Stake, ValidAmount, Requested, Pending
  <2>. QED
    BY <2>1, <2>2, DeclareStep
<1>2. ASSUME NEW m \in StakeMessage, NEW caller \in Account,
             \/ \E unlockSecret \in Secret :
                   ProgressStake(caller, m, unlockSecret)
             \/ ProgressStakeWithProof(caller, m)
      PROVE  ProcessInv'
  <2>1. /\ m \in Message /\ Source[m] = "origin" /\ OpenOutbox(m)
        /\ SetOutbox(m, "Progressed") /\ ProgressStakeInternal(caller, m)
    BY <1>2, BusStepsClose
       DEF ProgressStake, ProgressStakeWithProof, StakeMessage
  <2>2. /\ UNCHANGED baseVars
        /\ ~(Requested(m)' > 0) /\ Pending(m)' = Pending(m)
        /\ \A k \in Message \ {m} :
              Requested(k)' = Requested(k) /\ Pending(k)' = Pending(k)
    BY <1>0, <2>1 DEF ProgressStakeInternal, NoRequest, Requested, Pending
  <2>. QED
    BY <2>1, <2>2, CloseStep
<1>3. ASSUME NEW m \in StakeMessage, RevertStake(m)
      PROVE  ProcessInv'
  <2>1. /\ m \in Message /\ OpenOutbox(m)
        /\ SetOutbox(m, "DeclaredRevocation")
    BY <1>3, BusStepsClose DEF RevertStake, StakeMessage
  <2>2. /\ UNCHANGED baseVars
        /\ \A k \in Message :
              Requested(k)' = Requested(k) /\ Pending(k)' = Pending(k)
    BY <1>3 DEF RevertStake, Requested, Pending
  <2>3. Requested(m)' > 0
    BY <2>1, <2>2 DEF ProcessInv, RequestsInv
  <2>. QED
    BY <2>1, <2>2, <2>3, CloseStep
<1>4. ASSUME NEW m \in StakeMessage, ProgressRevertStake(m)
      PROVE  ProcessInv'
  <2>1. /\ m \in Message /\ Source[m] = "origin" /\ OpenOutbox(m)
        /\ SetOutbox(m, "Revoked")
    BY <1>4, BusStepsClose DEF ProgressRevertStake, StakeMessage
  <2>2. /\ UNCHANGED baseVars
        /\ ~(Requested(m)' > 0) /\ Pending(m)' = Pending(m)
        /\ \A k \in Message \ {m} :
              Requested(k)' = Requested(k) /\ Pending(k)' = Pending(k)
    BY <1>0, <1>4, <2>1
       DEF ProgressRevertStake, NoRequest, Requested, Pending
  <2>. QED
    BY <2>1, <2>2, CloseStep
<1>5. ASSUME NEW m \in RedeemMessage, ConfirmRedeemIntent(m)
      PROVE  ProcessInv'
  <2>1. /\ m \in Message /\ Source[m] = "auxiliary"
        /\ RegisterInboxProcess(Target(m), m)
        /\ Inbox(m) = "Undeclared" /\ SetInbox(m, "Declared")
    BY <1>5, Remotes
       DEF ConfirmRedeemIntent, RedeemMessage, ConfirmMessage, Target
  <2>2. /\ Pending(m)' > 0 /\ Requested(m)' = Requested(m)
        /\ \A k \in Message \ {m} :
              Requested(k)' = Requested(k) /\ Pending(k)' = Pending(k)
    BY <1>0, <1>5, <2>1 DEF ConfirmRedeemIntent, ValidAmount, Requested, Pending
  <2>. QED
    BY <2>1, <2>2, ConfirmStep
<1>6. ASSUME NEW m \in RedeemMessage,
             \/ \E caller \in Account, fee \in Fees(m) :
                   \/ \E unlockSecret \in Secret :
                         ProgressUnstake(caller, m, unlockSecret, fee)
                   \/ ProgressUnstakeWithProof(caller, m, fee)
             \/ ConfirmRevertRedeemIntent(m)
      PROVE  ProcessInv'
  <2>1. /\ m \in Message /\ Source[m] = "auxiliary"
        /\ Inbox(m) = "Declared"
        /\ SetInbox(m, "Progressed") \/ SetInbox(m, "Revoked")
    BY <1>6, BusStepsClose
       DEF ProgressUnstake, ProgressUnstakeWithProof,
           ConfirmRevertRedeemIntent, RedeemMessage
  <2>2. /\ UNCHANGED <<baseVars, stakes>>
        /\ unstakes' = [unstakes EXCEPT ![m] = 0]
    BY <1>6
       DEF ProgressUnstake, ProgressUnstakeWithProof,
           ProgressUnstakeInternal, ConfirmRevertRedeemIntent
  <2>3. /\ ~(Pending(m)' > 0) /\ Requested(m)' = Requested(m)
        /\ \A k \in Message \ {m} :
              Requested(k)' = Requested(k) /\ Pending(k)' = Pending(k)
    BY <1>0, <2>1, <2>2 DEF Requested, Pending
  <2>. QED
    BY <2>1, <2>2, <2>3, CloseStep
<1>7. CASE ActivateGateway \/ DeactivateGateway
  BY <1>7
     DEF ActivateGateway, DeactivateGateway, busVars, baseVars, ProcessInv,
         RequestsInv, OpenProcessIsActive, ActiveInv, OpenOutbox, Requested,
         Pending, Outbox, Inbox, Stored, Target
<1>. QED
  BY <1>1, <1>2, <1>3, <1>4, <1>5, <1>6, <1>7 DEF EIP20GatewayNext

\* The transactions of the auxiliary chain.
LEMMA EIP20CoGatewayProcess ==
    ASSUME TypeOK, ProcessInv, EIP20CoGatewayNext, UNCHANGED gatewayVars
    PROVE  ProcessInv'
<1>. USE DEF gatewayVars
<1>0. /\ redeems \in [Message -> Requests] /\ mints \in [Message -> Nat]
      /\ \A m \in Message : Amount[m] \in Nat /\ MaxReward[m] \in Nat
  BY GatewayAssumption DEF TypeOK, EIP20CoGatewayTypeOK
<1>1. ASSUME NEW m \in RedeemMessage, Redeem(m)
      PROVE  ProcessInv'
  <2>1. /\ m \in Message /\ Source[m] = "auxiliary"
        /\ RegisterOutboxProcess(Source[m], m)
        /\ Outbox(m) = "Undeclared" /\ SetOutbox(m, "Declared")
    BY <1>1 DEF Redeem, RedeemMessage, DeclareMessage
  <2>2. /\ Requested(m)' > 0 /\ Pending(m)' = Pending(m)
        /\ \A k \in Message \ {m} :
              Requested(k)' = Requested(k) /\ Pending(k)' = Pending(k)
    BY <1>0, <1>1, <2>1 DEF Redeem, ValidAmount, Requested, Pending
  <2>. QED
    BY <2>1, <2>2, DeclareStep
<1>2. ASSUME NEW m \in RedeemMessage, NEW caller \in Account,
             \/ \E unlockSecret \in Secret :
                   ProgressRedeem(caller, m, unlockSecret)
             \/ ProgressRedeemWithProof(caller, m)
      PROVE  ProcessInv'
  <2>1. /\ m \in Message /\ Source[m] = "auxiliary" /\ OpenOutbox(m)
        /\ SetOutbox(m, "Progressed") /\ ProgressRedeemInternal(caller, m)
    BY <1>2, BusStepsClose
       DEF ProgressRedeem, ProgressRedeemWithProof, RedeemMessage
  <2>2. /\ UNCHANGED baseVars
        /\ ~(Requested(m)' > 0) /\ Pending(m)' = Pending(m)
        /\ \A k \in Message \ {m} :
              Requested(k)' = Requested(k) /\ Pending(k)' = Pending(k)
    BY <1>0, <2>1 DEF ProgressRedeemInternal, NoRequest, Requested, Pending
  <2>. QED
    BY <2>1, <2>2, CloseStep
<1>3. ASSUME NEW m \in RedeemMessage, RevertRedeem(m)
      PROVE  ProcessInv'
  <2>1. /\ m \in Message /\ OpenOutbox(m)
        /\ SetOutbox(m, "DeclaredRevocation")
    BY <1>3, BusStepsClose DEF RevertRedeem, RedeemMessage
  <2>2. /\ UNCHANGED baseVars
        /\ \A k \in Message :
              Requested(k)' = Requested(k) /\ Pending(k)' = Pending(k)
    BY <1>3 DEF RevertRedeem, Requested, Pending
  <2>3. Requested(m)' > 0
    BY <2>1, <2>2 DEF ProcessInv, RequestsInv
  <2>. QED
    BY <2>1, <2>2, <2>3, CloseStep
<1>4. ASSUME NEW m \in RedeemMessage, ProgressRevertRedeem(m)
      PROVE  ProcessInv'
  <2>1. /\ m \in Message /\ Source[m] = "auxiliary" /\ OpenOutbox(m)
        /\ SetOutbox(m, "Revoked")
    BY <1>4, BusStepsClose DEF ProgressRevertRedeem, RedeemMessage
  <2>2. /\ UNCHANGED baseVars
        /\ ~(Requested(m)' > 0) /\ Pending(m)' = Pending(m)
        /\ \A k \in Message \ {m} :
              Requested(k)' = Requested(k) /\ Pending(k)' = Pending(k)
    BY <1>0, <1>4, <2>1
       DEF ProgressRevertRedeem, NoRequest, Requested, Pending
  <2>. QED
    BY <2>1, <2>2, CloseStep
<1>5. ASSUME NEW m \in StakeMessage, ConfirmStakeIntent(m)
      PROVE  ProcessInv'
  <2>1. /\ m \in Message /\ Source[m] = "origin"
        /\ RegisterInboxProcess(Target(m), m)
        /\ Inbox(m) = "Undeclared" /\ SetInbox(m, "Declared")
    BY <1>5, Remotes
       DEF ConfirmStakeIntent, StakeMessage, ConfirmMessage, Target
  <2>2. /\ Pending(m)' > 0 /\ Requested(m)' = Requested(m)
        /\ \A k \in Message \ {m} :
              Requested(k)' = Requested(k) /\ Pending(k)' = Pending(k)
    BY <1>0, <1>5, <2>1 DEF ConfirmStakeIntent, ValidAmount, Requested, Pending
  <2>. QED
    BY <2>1, <2>2, ConfirmStep
<1>6. ASSUME NEW m \in StakeMessage,
             \/ \E caller \in Account, fee \in Fees(m) :
                   \/ \E unlockSecret \in Secret :
                         ProgressMint(caller, m, unlockSecret, fee)
                   \/ ProgressMintWithProof(caller, m, fee)
             \/ ConfirmRevertStakeIntent(m)
      PROVE  ProcessInv'
  <2>1. /\ m \in Message /\ Source[m] = "origin"
        /\ Inbox(m) = "Declared"
        /\ SetInbox(m, "Progressed") \/ SetInbox(m, "Revoked")
    BY <1>6, BusStepsClose
       DEF ProgressMint, ProgressMintWithProof, ConfirmRevertStakeIntent,
           StakeMessage
  <2>2. /\ UNCHANGED <<baseVars, redeems>>
        /\ mints' = [mints EXCEPT ![m] = 0]
    BY <1>6
       DEF ProgressMint, ProgressMintWithProof, ProgressMintInternal,
           ConfirmRevertStakeIntent
  <2>3. /\ ~(Pending(m)' > 0) /\ Requested(m)' = Requested(m)
        /\ \A k \in Message \ {m} :
              Requested(k)' = Requested(k) /\ Pending(k)' = Pending(k)
    BY <1>0, <2>1, <2>2 DEF Requested, Pending
  <2>. QED
    BY <2>1, <2>2, <2>3, CloseStep
<1>. QED
  BY <1>1, <1>2, <1>3, <1>4, <1>5, <1>6 DEF EIP20CoGatewayNext

\* Blocks, roots and the bounty's change leave boxes and processes alone.
LEMMA OtherProcess ==
    ASSUME ProcessInv, RootsNext \/ BountyNext \/ UNCHANGED vars
    PROVE  ProcessInv'
<1>1. UNCHANGED <<messageBox, messages, outboxActiveProcess,
                  inboxActiveProcess, ledgerVars>>
  BY DEF RootsNext, BountyNext, vars, busVars, baseVars, MineBlock,
         AnchorStateRoot, ProveGateway, ConfirmBountyAmountChange
<1>. QED
  BY <1>1
     DEF ledgerVars, gatewayVars, coGatewayVars, ProcessInv, RequestsInv,
         OpenProcessIsActive, ActiveInv, OpenOutbox, Requested, Pending,
         Outbox, Inbox, Stored, Target

\* The joint invariant of boxes, requests and processes.
THEOREM ProcessInvariant == Spec => []ProcessInv
<1>1. TypeOK /\ ProcessInv /\ [Next]_vars => ProcessInv'
  BY EIP20GatewayProcess, EIP20CoGatewayProcess, OtherProcess DEF Next
<1>. QED
  BY <1>1, ProcessInit, TypeCorrect, PTL DEF Spec

\* No "request must exist" guard ever blocks a message the bus would close, and
\* no request is left behind by one it has closed.
THEOREM RequestsAlwaysMatch == Spec => []RequestsMatchBoxes
<1>1. ProcessInv => RequestsMatchBoxes
  BY DEF ProcessInv, RequestsInv, RequestsMatchBoxes, StakeMessage,
         RedeemMessage, Requested, Pending, OpenOutbox
<1>. QED
  BY <1>1, ProcessInvariant, PTL

\* The delete in registerOutboxProcess and registerInboxProcess never hits the
\* message of an open process, of the same or of another account.
THEOREM OpenProcessesAreActive == Spec => []OpenProcessIsActive
BY ProcessInvariant, PTL DEF ProcessInv

-----------------------------------------------------------------------------
\* The message of an account's active process is kept even after it is closed:
\* the next nonce is read from it.
StoredInv ==
    \A g \in Side : \A a \in Account :
        /\ outboxActiveProcess[g][a] # NoMessage =>
             Stored(g, outboxActiveProcess[g][a])
        /\ inboxActiveProcess[g][a] # NoMessage =>
             Stored(g, inboxActiveProcess[g][a])

\* Nonces stay as they are or go one up.
NonceStep ==
    \A g \in Side : \A a \in Account :
        /\ OutboxNonce(g, a)' \in OutboxNonce(g, a) .. OutboxNonce(g, a) + 1
        /\ InboxNonce(g, a)' \in InboxNonce(g, a) .. InboxNonce(g, a) + 1

\* A transaction either registers a process for a message its box does not
\* know yet, or leaves messages and processes alone.
LEMMA RegisterOrKeep ==
    ASSUME [Next]_vars
    PROVE  \/ \E m \in Message :
                \/ /\ RegisterOutboxProcess(Source[m], m)
                   /\ Outbox(m) = "Undeclared"
                \/ /\ RegisterInboxProcess(Target(m), m)
                   /\ Inbox(m) = "Undeclared"
           \/ UNCHANGED <<messages, outboxActiveProcess, inboxActiveProcess>>
<1>1. CASE EIP20GatewayNext
  <2>1. ASSUME NEW m \in StakeMessage, Stake(m)
        PROVE  /\ m \in Message /\ RegisterOutboxProcess(Source[m], m)
               /\ Outbox(m) = "Undeclared"
    BY <2>1 DEF Stake, StakeMessage, DeclareMessage
  <2>2. ASSUME NEW m \in RedeemMessage, ConfirmRedeemIntent(m)
        PROVE  /\ m \in Message /\ RegisterInboxProcess(Target(m), m)
               /\ Inbox(m) = "Undeclared"
    BY <2>2, Remotes
       DEF ConfirmRedeemIntent, RedeemMessage, ConfirmMessage, Target
  <2>3. ASSUME NEW m \in Message,
               \/ RevertStake(m) \/ ProgressRevertStake(m)
               \/ ConfirmRevertRedeemIntent(m)
               \/ ActivateGateway \/ DeactivateGateway
               \/ \E caller \in Account : ProgressStakeInternal(caller, m)
               \/ \E caller \in Account, fee \in Fees(m) :
                     ProgressUnstakeInternal(caller, m, fee)
        PROVE  UNCHANGED baseVars
    BY <2>3
       DEF RevertStake, ProgressRevertStake, ConfirmRevertRedeemIntent,
           ActivateGateway, DeactivateGateway, ProgressStakeInternal,
           ProgressUnstakeInternal
  <2>4. ActivateGateway \/ DeactivateGateway => UNCHANGED baseVars
    BY DEF ActivateGateway, DeactivateGateway
  <2>. QED
    BY <1>1, <2>1, <2>2, <2>3, <2>4
       DEF EIP20GatewayNext, ProgressStake, ProgressStakeWithProof,
           ProgressUnstake, ProgressUnstakeWithProof, StakeMessage,
           RedeemMessage, baseVars
<1>2. CASE EIP20CoGatewayNext
  <2>1. ASSUME NEW m \in RedeemMessage, Redeem(m)
        PROVE  /\ m \in Message /\ RegisterOutboxProcess(Source[m], m)
               /\ Outbox(m) = "Undeclared"
    BY <2>1 DEF Redeem, RedeemMessage, DeclareMessage
  <2>2. ASSUME NEW m \in StakeMessage, ConfirmStakeIntent(m)
        PROVE  /\ m \in Message /\ RegisterInboxProcess(Target(m), m)
               /\ Inbox(m) = "Undeclared"
    BY <2>2, Remotes
       DEF ConfirmStakeIntent, StakeMessage, ConfirmMessage, Target
  <2>3. ASSUME NEW m \in Message,
               \/ RevertRedeem(m) \/ ProgressRevertRedeem(m)
               \/ ConfirmRevertStakeIntent(m)
               \/ \E caller \in Account : ProgressRedeemInternal(caller, m)
               \/ \E caller \in Account, fee \in Fees(m) :
                     ProgressMintInternal(caller, m, fee)
        PROVE  UNCHANGED baseVars
    BY <2>3
       DEF RevertRedeem, ProgressRevertRedeem, ConfirmRevertStakeIntent,
           ProgressRedeemInternal, ProgressMintInternal
  <2>. QED
    BY <1>2, <2>1, <2>2, <2>3
       DEF EIP20CoGatewayNext, ProgressRedeem, ProgressRedeemWithProof,
           ProgressMint, ProgressMintWithProof, StakeMessage,
           RedeemMessage, baseVars
<1>3. CASE RootsNext \/ BountyNext \/ UNCHANGED vars
  BY <1>3 DEF RootsNext, BountyNext, vars, baseVars, ConfirmBountyAmountChange
<1>. QED
  BY <1>1, <1>2, <1>3 DEF Next

\* A registration moves one nonce up by one and keeps every active process's
\* message, because the one it deletes was the account's own.
LEMMA RegisterNonces ==
    ASSUME TypeOK, ProcessInv, StoredInv, NEW m \in Message,
           \/ RegisterOutboxProcess(Source[m], m) /\ Outbox(m) = "Undeclared"
           \/ RegisterInboxProcess(Target(m), m) /\ Inbox(m) = "Undeclared"
    PROVE  StoredInv' /\ NonceStep
<1>0. /\ Source[m] \in Side /\ Target(m) \in Side /\ Target(m) # Source[m]
      /\ Sender[m] \in Account /\ m # NoMessage
      /\ \A g \in Side, a \in Account :
            /\ outboxActiveProcess[g][a] \in Process
            /\ inboxActiveProcess[g][a] \in Process
  BY Ends, GatewayAssumption DEF TypeOK, GatewayBaseTypeOK
<1>n. ASSUME NEW g \in Side, NEW p \in Process, p # NoMessage => Stored(g, p)
      PROVE  /\ NextNonce(g, p) \in Nat
             /\ p # NoMessage => NextNonce(g, p) = Nonce[p] + 1
  BY <1>n, GatewayAssumption DEF NextNonce, Process
<1>1. CASE RegisterOutboxProcess(Source[m], m) /\ Outbox(m) = "Undeclared"
  <2>. DEFINE g == Source[m]
              previous == outboxActiveProcess[g][Sender[m]]
  <2>1. /\ UNCHANGED inboxActiveProcess
        /\ \A f \in Side, a \in Account :
              outboxActiveProcess'[f][a]
                = IF f = g /\ a = Sender[m] THEN m ELSE outboxActiveProcess[f][a]
        /\ \A f \in Side :
              messages'[f] = IF f = g THEN (messages[f] \cup {m}) \ {previous}
                                      ELSE messages[f]
        /\ Nonce[m] = OutboxNonce(g, Sender[m])
        /\ previous # m
    BY <1>0, <1>1
       DEF RegisterOutboxProcess, ReplaceMessage, Completed, Outbox, TypeOK,
           GatewayBaseTypeOK
  <2>2. ASSUME NEW f \in Side, NEW a \in Account
        PROVE  /\ outboxActiveProcess'[f][a] # NoMessage =>
                    outboxActiveProcess'[f][a] \in messages'[f]
               /\ inboxActiveProcess[f][a] # NoMessage =>
                    inboxActiveProcess[f][a] \in messages'[f]
    <3>1. /\ outboxActiveProcess[f][a] # NoMessage =>
               outboxActiveProcess[f][a] \in messages[f]
          /\ inboxActiveProcess[f][a] # NoMessage =>
               inboxActiveProcess[f][a] \in messages[f]
      BY DEF StoredInv, Stored
    <3>2. CASE f # g
      BY <2>1, <3>1, <3>2
    <3>3. CASE f = g
      <4>1. messages'[f] = (messages[f] \cup {m}) \ {previous}
        BY <2>1, <3>3
      <4>2. inboxActiveProcess[f][a] # NoMessage =>
              inboxActiveProcess[f][a] # previous
        BY <1>0, <3>3 DEF ProcessInv, ActiveInv
      <4>3. a # Sender[m] /\ outboxActiveProcess[f][a] # NoMessage =>
              outboxActiveProcess[f][a] # previous
        BY <1>0, <3>3 DEF ProcessInv, ActiveInv
      <4>4. CASE a = Sender[m]
        <5>1. outboxActiveProcess'[f][a] = m
          BY <2>1, <3>3, <4>4
        <5>. QED
          BY <2>1, <3>1, <4>1, <4>2, <5>1
      <4>5. CASE a # Sender[m]
        <5>1. outboxActiveProcess'[f][a] = outboxActiveProcess[f][a]
          BY <2>1, <3>3, <4>5
        <5>. QED
          BY <3>1, <4>1, <4>2, <4>3, <4>5, <5>1
      <4>. QED
        BY <4>4, <4>5
    <3>. QED
      BY <3>2, <3>3
  <2>3. StoredInv'
    BY <2>1, <2>2 DEF StoredInv, Stored
  <2>4. NonceStep
    <3>. SUFFICES ASSUME NEW f \in Side, NEW a \in Account
                  PROVE  /\ OutboxNonce(f, a)' \in
                              OutboxNonce(f, a) .. OutboxNonce(f, a) + 1
                         /\ InboxNonce(f, a)' \in
                              InboxNonce(f, a) .. InboxNonce(f, a) + 1
      BY DEF NonceStep
    <3>1. OutboxNonce(f, a) \in Nat /\ InboxNonce(f, a) \in Nat
      BY <1>0, <1>n DEF OutboxNonce, InboxNonce, StoredInv
    <3>2. InboxNonce(f, a)' = InboxNonce(f, a)
      BY <2>1, <2>2 DEF InboxNonce, NextNonce, Stored, StoredInv
    <3>3. OutboxNonce(f, a)' = IF f = g /\ a = Sender[m]
                                 THEN OutboxNonce(f, a) + 1
                                 ELSE OutboxNonce(f, a)
      BY <1>0, <2>1, <2>2 DEF OutboxNonce, NextNonce, Stored, StoredInv
    <3>. QED
      BY <3>1, <3>2, <3>3
  <2>. QED
    BY <2>3, <2>4
<1>2. CASE RegisterInboxProcess(Target(m), m) /\ Inbox(m) = "Undeclared"
  <2>. DEFINE g == Target(m)
              previous == inboxActiveProcess[g][Sender[m]]
  <2>1. /\ UNCHANGED outboxActiveProcess
        /\ \A f \in Side, a \in Account :
              inboxActiveProcess'[f][a]
                = IF f = g /\ a = Sender[m] THEN m ELSE inboxActiveProcess[f][a]
        /\ \A f \in Side :
              messages'[f] = IF f = g THEN (messages[f] \cup {m}) \ {previous}
                                      ELSE messages[f]
        /\ Nonce[m] = InboxNonce(g, Sender[m])
        /\ previous # m
    BY <1>0, <1>2
       DEF RegisterInboxProcess, ReplaceMessage, Completed, Inbox, TypeOK,
           GatewayBaseTypeOK
  <2>2. ASSUME NEW f \in Side, NEW a \in Account
        PROVE  /\ inboxActiveProcess'[f][a] # NoMessage =>
                    inboxActiveProcess'[f][a] \in messages'[f]
               /\ outboxActiveProcess[f][a] # NoMessage =>
                    outboxActiveProcess[f][a] \in messages'[f]
    <3>1. /\ inboxActiveProcess[f][a] # NoMessage =>
               inboxActiveProcess[f][a] \in messages[f]
          /\ outboxActiveProcess[f][a] # NoMessage =>
               outboxActiveProcess[f][a] \in messages[f]
      BY DEF StoredInv, Stored
    <3>2. CASE f # g
      BY <2>1, <3>1, <3>2
    <3>3. CASE f = g
      <4>1. messages'[f] = (messages[f] \cup {m}) \ {previous}
        BY <2>1, <3>3
      <4>2. outboxActiveProcess[f][a] # NoMessage =>
              outboxActiveProcess[f][a] # previous
        BY <1>0, <3>3 DEF ProcessInv, ActiveInv
      <4>3. a # Sender[m] /\ inboxActiveProcess[f][a] # NoMessage =>
              inboxActiveProcess[f][a] # previous
        BY <1>0, <3>3 DEF ProcessInv, ActiveInv
      <4>4. CASE a = Sender[m]
        <5>1. inboxActiveProcess'[f][a] = m
          BY <2>1, <3>3, <4>4
        <5>. QED
          BY <2>1, <3>1, <4>1, <4>2, <5>1
      <4>5. CASE a # Sender[m]
        <5>1. inboxActiveProcess'[f][a] = inboxActiveProcess[f][a]
          BY <2>1, <3>3, <4>5
        <5>. QED
          BY <3>1, <4>1, <4>2, <4>3, <4>5, <5>1
      <4>. QED
        BY <4>4, <4>5
    <3>. QED
      BY <3>2, <3>3
  <2>3. StoredInv'
    BY <2>1, <2>2 DEF StoredInv, Stored
  <2>4. NonceStep
    <3>. SUFFICES ASSUME NEW f \in Side, NEW a \in Account
                  PROVE  /\ OutboxNonce(f, a)' \in
                              OutboxNonce(f, a) .. OutboxNonce(f, a) + 1
                         /\ InboxNonce(f, a)' \in
                              InboxNonce(f, a) .. InboxNonce(f, a) + 1
      BY DEF NonceStep
    <3>1. OutboxNonce(f, a) \in Nat /\ InboxNonce(f, a) \in Nat
      BY <1>0, <1>n DEF OutboxNonce, InboxNonce, StoredInv
    <3>2. OutboxNonce(f, a)' = OutboxNonce(f, a)
      BY <2>1, <2>2 DEF OutboxNonce, NextNonce, Stored, StoredInv
    <3>3. InboxNonce(f, a)' = IF f = g /\ a = Sender[m]
                                THEN InboxNonce(f, a) + 1
                                ELSE InboxNonce(f, a)
      BY <1>0, <2>1, <2>2 DEF InboxNonce, NextNonce, Stored, StoredInv
    <3>. QED
      BY <3>1, <3>2, <3>3
  <2>. QED
    BY <2>3, <2>4
<1>. QED
  BY <1>1, <1>2

\* Without a registration nothing moves.
LEMMA KeepNonces ==
    ASSUME TypeOK, StoredInv,
           UNCHANGED <<messages, outboxActiveProcess, inboxActiveProcess>>
    PROVE  StoredInv' /\ NonceStep
<1>1. StoredInv'
  BY DEF StoredInv, Stored
<1>2. ASSUME NEW g \in Side, NEW a \in Account
      PROVE  /\ OutboxNonce(g, a) \in Nat /\ InboxNonce(g, a) \in Nat
             /\ OutboxNonce(g, a)' = OutboxNonce(g, a)
             /\ InboxNonce(g, a)' = InboxNonce(g, a)
  BY GatewayAssumption
     DEF OutboxNonce, InboxNonce, NextNonce, Stored, StoredInv, TypeOK,
         GatewayBaseTypeOK, Process
<1>3. NonceStep
  BY <1>2 DEF NonceStep
<1>. QED
  BY <1>1, <1>3

\* What every step does to nonces and to the messages they are read from.
LEMMA NoncesStep ==
    TypeOK /\ ProcessInv /\ StoredInv /\ [Next]_vars => StoredInv' /\ NonceStep
BY RegisterOrKeep, RegisterNonces, KeepNonces

LEMMA StoredInvariant == Spec => []StoredInv
<1>1. Init => StoredInv
  BY DEF Init, GatewayBaseInit, StoredInv
<1>. QED
  BY <1>1, NoncesStep, TypeCorrect, ProcessInvariant, PTL DEF Spec

\* Nonces never fall and never skip, for any accounts and messages.
THEOREM NoncesOnlyGrow == Spec => NoncesNeverFall
<1>1. NonceStep
        => [\A g \in Side : \A a \in Account :
              /\ OutboxNonce(g, a)' \in OutboxNonce(g, a) .. OutboxNonce(g, a) + 1
              /\ InboxNonce(g, a)' \in InboxNonce(g, a) .. InboxNonce(g, a) + 1]_vars
  BY DEF NonceStep
<1>. QED
  BY <1>1, NoncesStep, StoredInvariant, TypeCorrect, ProcessInvariant, PTL
     DEF Spec, NoncesNeverFall

-----------------------------------------------------------------------------
\* ConfirmedInOrder relates what the two chains check on their own.  What it
\* needs besides the invariants above is that a chain declares an account's
\* messages in the order of their nonces, up to the active process.
DeclaredInOrder ==
    \A m \in Message :
        Outbox(m) # "Undeclared" =>
            LET active == outboxActiveProcess[Source[m]][Sender[m]]
            IN  active # NoMessage /\ Nonce[m] <= Nonce[active]

OrderInv == DeclaredInOrder /\ ConfirmedInOrder

\* No message becomes known to a box.
KnownKept ==
    \A k \in Message :
        /\ Outbox(k)' = "Undeclared" <=> Outbox(k) = "Undeclared"
        /\ Inbox(k)' = "Undeclared" <=> Inbox(k) = "Undeclared"

\* A transaction moves an entry of m that was declared.
Settles(m) ==
    \/ OpenOutbox(m)
       /\ \E s \in {"DeclaredRevocation", "Progressed", "Revoked"} :
             SetOutbox(m, s)
    \/ Inbox(m) = "Declared"
       /\ \E s \in {"Progressed", "Revoked"} : SetInbox(m, s)

LEMMA SettlesKnown ==
    ASSUME TypeOK, NEW m \in Message, Settles(m)
    PROVE  KnownKept /\ \A k \in Message : Closed(k) => Closed(k)'
<1>1. CASE OpenOutbox(m)
           /\ \E s \in {"DeclaredRevocation", "Progressed", "Revoked"} :
                 SetOutbox(m, s)
  BY <1>1, BoxSet DEF KnownKept, Closed, OpenOutbox
<1>2. CASE Inbox(m) = "Declared"
           /\ \E s \in {"Progressed", "Revoked"} : SetInbox(m, s)
  BY <1>2, BoxSet DEF KnownKept, Closed
<1>. QED
  BY <1>1, <1>2 DEF Settles

\* A transaction registers the process of the message it declares or confirms,
\* or it makes no message known and leaves the processes alone.
LEMMA RegisterOrKnown ==
    ASSUME TypeOK, [Next]_vars
    PROVE  \/ \E m \in Message :
                DeclareMessage(m) /\ RegisterOutboxProcess(Source[m], m)
           \/ \E m \in Message :
                ConfirmMessage(m) /\ RegisterInboxProcess(Target(m), m)
           \/ /\ UNCHANGED <<outboxActiveProcess, inboxActiveProcess>>
              /\ KnownKept
              /\ \A k \in Message : Closed(k) => Closed(k)'
<1>1. ASSUME UNCHANGED messageBox
      PROVE  KnownKept /\ \A k \in Message : Closed(k) => Closed(k)'
  BY <1>1 DEF KnownKept, Closed, Outbox, Inbox, Target
<1>2. CASE EIP20GatewayNext
  <2>1. ASSUME NEW m \in StakeMessage, Stake(m)
        PROVE  /\ m \in Message /\ DeclareMessage(m)
               /\ RegisterOutboxProcess(Source[m], m)
    BY <2>1 DEF Stake, StakeMessage
  <2>2. ASSUME NEW m \in RedeemMessage, ConfirmRedeemIntent(m)
        PROVE  /\ m \in Message /\ ConfirmMessage(m)
               /\ RegisterInboxProcess(Target(m), m)
    BY <2>2, Remotes DEF ConfirmRedeemIntent, RedeemMessage, Target
  <2>3. ASSUME NEW m \in StakeMessage,
               \/ RevertStake(m) \/ ProgressRevertStake(m)
               \/ \E caller \in Account :
                     \/ \E unlockSecret \in Secret :
                           ProgressStake(caller, m, unlockSecret)
                     \/ ProgressStakeWithProof(caller, m)
        PROVE  m \in Message /\ Settles(m) /\ UNCHANGED baseVars
    <3>1. m \in Message
      BY DEF StakeMessage
    <3>. QED
      BY <2>3, <3>1, BusStepsClose
         DEF RevertStake, ProgressRevertStake, ProgressStake, Settles,
             ProgressStakeWithProof, ProgressStakeInternal
  <2>4. ASSUME NEW m \in RedeemMessage,
               \/ ConfirmRevertRedeemIntent(m)
               \/ \E caller \in Account, fee \in Fees(m) :
                     \/ \E unlockSecret \in Secret :
                           ProgressUnstake(caller, m, unlockSecret, fee)
                     \/ ProgressUnstakeWithProof(caller, m, fee)
        PROVE  m \in Message /\ Settles(m) /\ UNCHANGED baseVars
    <3>1. m \in Message
      BY DEF RedeemMessage
    <3>. QED
      BY <2>4, <3>1, BusStepsClose
         DEF ConfirmRevertRedeemIntent, ProgressUnstake, Settles,
             ProgressUnstakeWithProof, ProgressUnstakeInternal
  <2>5. ActivateGateway \/ DeactivateGateway =>
          UNCHANGED <<messageBox, baseVars>>
    BY DEF ActivateGateway, DeactivateGateway, busVars
  <2>. QED
    BY <1>1, <1>2, <2>1, <2>2, <2>3, <2>4, <2>5, SettlesKnown
       DEF EIP20GatewayNext, baseVars
<1>3. CASE EIP20CoGatewayNext
  <2>1. ASSUME NEW m \in RedeemMessage, Redeem(m)
        PROVE  /\ m \in Message /\ DeclareMessage(m)
               /\ RegisterOutboxProcess(Source[m], m)
    BY <2>1 DEF Redeem, RedeemMessage
  <2>2. ASSUME NEW m \in StakeMessage, ConfirmStakeIntent(m)
        PROVE  /\ m \in Message /\ ConfirmMessage(m)
               /\ RegisterInboxProcess(Target(m), m)
    BY <2>2, Remotes DEF ConfirmStakeIntent, StakeMessage, Target
  <2>3. ASSUME NEW m \in RedeemMessage,
               \/ RevertRedeem(m) \/ ProgressRevertRedeem(m)
               \/ \E caller \in Account :
                     \/ \E unlockSecret \in Secret :
                           ProgressRedeem(caller, m, unlockSecret)
                     \/ ProgressRedeemWithProof(caller, m)
        PROVE  m \in Message /\ Settles(m) /\ UNCHANGED baseVars
    <3>1. m \in Message
      BY DEF RedeemMessage
    <3>. QED
      BY <2>3, <3>1, BusStepsClose
         DEF RevertRedeem, ProgressRevertRedeem, ProgressRedeem, Settles,
             ProgressRedeemWithProof, ProgressRedeemInternal
  <2>4. ASSUME NEW m \in StakeMessage,
               \/ ConfirmRevertStakeIntent(m)
               \/ \E caller \in Account, fee \in Fees(m) :
                     \/ \E unlockSecret \in Secret :
                           ProgressMint(caller, m, unlockSecret, fee)
                     \/ ProgressMintWithProof(caller, m, fee)
        PROVE  m \in Message /\ Settles(m) /\ UNCHANGED baseVars
    <3>1. m \in Message
      BY DEF StakeMessage
    <3>. QED
      BY <2>4, <3>1, BusStepsClose
         DEF ConfirmRevertStakeIntent, ProgressMint, Settles,
             ProgressMintWithProof, ProgressMintInternal
  <2>. QED
    BY <1>3, <2>1, <2>2, <2>3, <2>4, SettlesKnown
       DEF EIP20CoGatewayNext, baseVars
<1>4. CASE RootsNext \/ BountyNext \/ UNCHANGED vars
  <2>1. UNCHANGED <<messageBox, outboxActiveProcess, inboxActiveProcess>>
    BY <1>4
       DEF RootsNext, BountyNext, vars, busVars, baseVars, MineBlock,
           AnchorStateRoot, ProveGateway, ConfirmBountyAmountChange
  <2>. QED
    BY <1>1, <2>1
<1>. QED
  BY <1>2, <1>3, <1>4 DEF Next

\* A message is declared with the nonce after that of the active process, so
\* every message declared before has a smaller one.
LEMMA DeclareInOrder ==
    ASSUME TypeOK, ProcessInv, StoredInv, OrderInv, NEW m \in Message,
           DeclareMessage(m), RegisterOutboxProcess(Source[m], m)
    PROVE  OrderInv'
<1>. DEFINE g == Source[m]
            previous == outboxActiveProcess[g][Sender[m]]
<1>1. /\ g \in Side /\ Sender[m] \in Account /\ m # NoMessage
      /\ \A k \in Message : Source[k] \in Side /\ Sender[k] \in Account
      /\ \A k \in Message : Nonce[k] \in Nat
      /\ previous # NoMessage => previous \in Message
  BY Ends, GatewayAssumption DEF TypeOK, GatewayBaseTypeOK, Process
<1>2. /\ Outbox(m) = "Undeclared" /\ Outbox(m)' = "Declared"
      /\ Inbox(m)' = Inbox(m)
      /\ \A k \in Message \ {m} :
            Outbox(k)' = Outbox(k) /\ Inbox(k)' = Inbox(k)
  BY BoxSet DEF DeclareMessage
<1>3. /\ \A f \in Side, a \in Account :
            outboxActiveProcess'[f][a]
              = IF f = g /\ a = Sender[m] THEN m ELSE outboxActiveProcess[f][a]
      /\ previous # NoMessage => Nonce[m] = Nonce[previous] + 1
  BY <1>1
     DEF RegisterOutboxProcess, OutboxNonce, NextNonce, StoredInv, TypeOK,
         GatewayBaseTypeOK
<1>4. DeclaredInOrder'
  <2>. SUFFICES ASSUME NEW k \in Message, Outbox(k)' # "Undeclared"
                PROVE  /\ outboxActiveProcess'[Source[k]][Sender[k]] # NoMessage
                       /\ Nonce[k]
                            <= Nonce[outboxActiveProcess'[Source[k]][Sender[k]]]
    BY DEF DeclaredInOrder
  <2>1. CASE k = m
    BY <2>1, <1>1, <1>3
  <2>2. CASE k # m
    <3>1. LET active == outboxActiveProcess[Source[k]][Sender[k]]
          IN  active # NoMessage /\ Nonce[k] <= Nonce[active]
      BY <1>2, <2>2 DEF OrderInv, DeclaredInOrder
    <3>2. CASE Source[k] = g /\ Sender[k] = Sender[m]
      BY <3>1, <3>2, <1>1, <1>3
    <3>3. CASE ~(Source[k] = g /\ Sender[k] = Sender[m])
      BY <3>1, <3>3, <1>1, <1>3
    <3>. QED
      BY <3>2, <3>3
  <2>. QED
    BY <2>1, <2>2
<1>5. ConfirmedInOrder'
  BY <1>2 DEF OrderInv, ConfirmedInOrder, Closed
<1>. QED
  BY <1>4, <1>5 DEF OrderInv

\* A message is confirmed with the nonce after that of the process the target
\* has just closed; the source has declared both, so that only the later one
\* can be the open process there.
LEMMA ConfirmInOrder ==
    ASSUME TypeOK, BusInv, ProcessInv, StoredInv, OrderInv, NEW m \in Message,
           ConfirmMessage(m), RegisterInboxProcess(Target(m), m)
    PROVE  OrderInv'
<1>. DEFINE previous == inboxActiveProcess[Target(m)][Sender[m]]
<1>1. /\ Target(m) \in Side /\ Sender[m] \in Account
      /\ \A k \in Message : Nonce[k] \in Nat
      /\ previous # NoMessage => previous \in Message
  BY Ends, GatewayAssumption DEF TypeOK, GatewayBaseTypeOK, Process
<1>2. /\ Inbox(m) = "Undeclared" /\ Outbox(m)' = Outbox(m)
      /\ \A k \in Message \ {m} :
            Outbox(k)' = Outbox(k) /\ Inbox(k)' = Inbox(k)
      /\ UNCHANGED outboxActiveProcess
  BY BoxSet DEF ConfirmMessage, RegisterInboxProcess
<1>3. Outbox(m) # "Undeclared"
  BY Ends, ProofIsPast DEF ConfirmMessage, Reaches, Outbox
<1>4. DeclaredInOrder'
  BY <1>2 DEF OrderInv, DeclaredInOrder
<1>5. ASSUME Nonce[m] > 0
      PROVE  /\ previous \in Message
             /\ Source[previous] = Source[m]
             /\ Sender[previous] = Sender[m]
             /\ Nonce[previous] + 1 = Nonce[m]
             /\ Closed(previous)
  <2>1. previous # NoMessage
    BY <1>5 DEF RegisterInboxProcess, InboxNonce, NextNonce
  <2>2. /\ previous \in Message
        /\ Source[previous] # Target(m) /\ Sender[previous] = Sender[m]
    BY <1>1, <2>1 DEF ProcessInv, ActiveInv
  <2>3. Source[previous] = Source[m] /\ Target(previous) = Target(m)
    BY <2>2, Ends DEF Side, Target
  <2>4. Nonce[previous] + 1 = Nonce[m]
    BY <1>1, <2>1 DEF RegisterInboxProcess, InboxNonce, NextNonce, StoredInv
  <2>5. Inbox(previous) \in {"Progressed", "Revoked"}
    BY <2>1, <2>3 DEF RegisterInboxProcess, Completed, Inbox
  <2>6. Outbox(previous) # "Undeclared"
    BY <2>2, <2>5 DEF BusInv, Agreement
  <2>7. ~OpenOutbox(previous)
    <3>1. outboxActiveProcess[Source[m]][Sender[m]] # previous
      BY <1>1, <1>3, <2>2, <2>4 DEF OrderInv, DeclaredInOrder
    <3>. QED
      BY <2>2, <2>3, <3>1 DEF ProcessInv, OpenProcessIsActive, OpenOutbox
  <2>8. Outbox(previous) \in Status
    BY <2>2, Ends DEF BusInv, StateRootsTypeOK, Outbox
  <2>. QED
    BY <2>2, <2>3, <2>4, <2>5, <2>6, <2>7, <2>8
       DEF Closed, OpenOutbox, Status
<1>6. ConfirmedInOrder'
  <2>1. \A k \in Message : Closed(k) => Closed(k)'
    BY <1>2 DEF Closed
  <2>2. ASSUME NEW k \in Message, Inbox(k)' # "Undeclared", Nonce[k] > 0
        PROVE  \E p \in Message :
                  /\ Source[p] = Source[k] /\ Sender[p] = Sender[k]
                  /\ Nonce[p] + 1 = Nonce[k] /\ Closed(p)
    BY <1>2, <1>5, <2>2 DEF OrderInv, ConfirmedInOrder
  <2>. QED
    BY <2>1, <2>2 DEF ConfirmedInOrder
<1>. QED
  BY <1>4, <1>6 DEF OrderInv

\* An account's transfers arrive in the order in which it made them, none of
\* them left out, and each after the one before is closed on both chains.
THEOREM TransfersAreInOrder == Spec => []ConfirmedInOrder
<1>1. Init => OrderInv
  <2>. SUFFICES ASSUME Init PROVE OrderInv
    OBVIOUS
  <2>1. \A m \in Message : Outbox(m) = "Undeclared" /\ Inbox(m) = "Undeclared"
    BY Ends DEF Init, BusInit, StateRootsInit, Outbox, Inbox, EmptyBox
  <2>. QED
    BY <2>1 DEF OrderInv, DeclaredInOrder, ConfirmedInOrder
<1>2. TypeOK /\ BusInv /\ ProcessInv /\ StoredInv /\ OrderInv /\ [Next]_vars
        => OrderInv'
  <2>. SUFFICES ASSUME TypeOK, BusInv, ProcessInv, StoredInv, OrderInv,
                       [Next]_vars
                PROVE  OrderInv'
    OBVIOUS
  <2>1. ASSUME UNCHANGED <<outboxActiveProcess, inboxActiveProcess>>, KnownKept,
               \A k \in Message : Closed(k) => Closed(k)'
        PROVE  OrderInv'
    <3>1. DeclaredInOrder'
      BY <2>1 DEF OrderInv, DeclaredInOrder, KnownKept
    <3>2. ConfirmedInOrder'
      BY <2>1 DEF OrderInv, ConfirmedInOrder, KnownKept
    <3>. QED
      BY <3>1, <3>2 DEF OrderInv
  <2>. QED
    BY <2>1, RegisterOrKnown, DeclareInOrder, ConfirmInOrder
<1>3. OrderInv => ConfirmedInOrder
  BY DEF OrderInv
<1>4. Spec => []BusInv
  BY GatewaysImplementBus, BusInvariant, PTL DEF ImplementsMessageBus
<1>. QED
  BY <1>1, <1>2, <1>3, <1>4, TypeCorrect, ProcessInvariant, StoredInvariant, PTL
     DEF Spec

-----------------------------------------------------------------------------
(***************************************************************************)
(* What the two chains owe each other, for any number of accounts and      *)
(* messages.  Neither Escrow nor Backed is inductive.  AccountsInv adds    *)
(* that a message without a request claims nothing and one with a request  *)
(* claims its amount, and turns the inequality of Backed into a            *)
(* conservation law: the value tokens that the gateways took in are the    *)
(* utility tokens of all accounts and what is on its way between chains.   *)
(***************************************************************************)
RequestsKept ==
    \A m \in Message :
        /\ stakes[m] # NoRequest => stakes[m].amount = Amount[m] /\ Amount[m] > 0
        /\ redeems[m] # NoRequest => redeems[m].amount = Amount[m] /\ Amount[m] > 0

\* What the source has taken for m and the target has not yet paid out.
InFlight(m) ==
    IF Outbox(m) \notin {"Undeclared", "Revoked"} /\ Inbox(m) # "Progressed"
    THEN Amount[m] ELSE 0

inFlight == [m \in Message |-> InFlight(m)]

Conserved ==
    valueBalance["stakeVault"] + valueBalance["gateway"]
      = SumFunctionOnSet(utilityBalance, Account)
          + Total(inFlight)

EscrowOnOrigin ==
    /\ valueBalance["gateway"] = Total(Amounts(stakes))
    /\ baseBalance["gateway"] = Total(PaidBounties(stakes))

EscrowOnAuxiliary ==
    /\ utilityBalance["gateway"] = Total(Amounts(redeems))
    /\ coinBalance["gateway"] = Total(PaidBounties(redeems))

AccountsInv ==
    /\ RequestsKept
    /\ EscrowOnOrigin
    /\ EscrowOnAuxiliary
    /\ Conserved

-----------------------------------------------------------------------------
\* What is recorded of a request and is no more, or is new, changes the totals.
LEMMA RequestTotals ==
    ASSUME NEW old \in [Message -> Requests], NEW new \in [Message -> Requests],
           NEW m \in Message, \A k \in Message \ {m} : new[k] = old[k]
    PROVE  /\ Total(Amounts(new))
                = Total(Amounts(old)) + (new[m].amount - old[m].amount)
           /\ Total(PaidBounties(new))
                = Total(PaidBounties(old)) + (new[m].bounty - old[m].bounty)
<1>1. \A k \in Message :
        /\ Amounts(old)[k] = old[k].amount /\ Amounts(new)[k] = new[k].amount
        /\ PaidBounties(old)[k] = old[k].bounty
        /\ PaidBounties(new)[k] = new[k].bounty
        /\ old[k].amount \in Int /\ new[k].amount \in Int
        /\ old[k].bounty \in Int /\ new[k].bounty \in Int
  BY DEF Requests, Amounts, PaidBounties
<1>4. /\ \A k \in Message : Amounts(old)[k] \in Int /\ Amounts(new)[k] \in Int
      /\ \A k \in Message \ {m} : Amounts(new)[k] = Amounts(old)[k]
  BY <1>1
<1>5. /\ \A k \in Message :
            PaidBounties(old)[k] \in Int /\ PaidBounties(new)[k] \in Int
      /\ \A k \in Message \ {m} : PaidBounties(new)[k] = PaidBounties(old)[k]
  BY <1>1
<1>2. Total(Amounts(new))
        = Total(Amounts(old)) + (Amounts(new)[m] - Amounts(old)[m])
  BY <1>4, SumUpdate, FiniteAssumption DEF Total
<1>3. Total(PaidBounties(new))
        = Total(PaidBounties(old)) + (PaidBounties(new)[m] - PaidBounties(old)[m])
  BY <1>5, SumUpdate, FiniteAssumption DEF Total
<1>. QED
  BY <1>1, <1>2, <1>3

\* A transfer between two accounts touches no third one.
LEMMA TransferMoves ==
    ASSUME NEW H, NEW ledger \in [H -> Nat], NEW payer \in H, NEW payee \in H,
           payer # payee, NEW amount \in Nat
    PROVE  \A h \in H : Transfer(ledger, payer, payee, amount)[h]
                          = IF h = payer THEN ledger[h] - amount
                            ELSE IF h = payee THEN ledger[h] + amount
                            ELSE ledger[h]
BY DEF Transfer

\* A request that is closed takes its amount and its bounty out of the totals.
LEMMA RequestCloses ==
    ASSUME NEW old \in [Message -> Requests], NEW m \in Message, NEW new,
           new = [old EXCEPT ![m] = NoRequest]
    PROVE  /\ Total(Amounts(new)) = Total(Amounts(old)) - old[m].amount
           /\ Total(PaidBounties(new)) = Total(PaidBounties(old)) - old[m].bounty
<1>1. /\ new \in [Message -> Requests]
      /\ \A k \in Message \ {m} : new[k] = old[k]
      /\ new[m].amount = 0 /\ new[m].bounty = 0
      /\ old[m].amount \in Nat /\ old[m].bounty \in Nat
  BY NoRequestType DEF NoRequest, Requests
<1>2. /\ Total(Amounts(new)) = Total(Amounts(old)) + (0 - old[m].amount)
      /\ Total(PaidBounties(new))
           = Total(PaidBounties(old)) + (0 - old[m].bounty)
  <2>1. m \in Message /\ old \in [Message -> Requests]
    OBVIOUS
  <2>. QED
    BY ONLY <1>1, <2>1, RequestTotals
<1>3. Total(Amounts(old)) \in Int /\ Total(PaidBounties(old)) \in Int
  <2>1. /\ \A k \in Message : Amounts(old)[k] \in Int
        /\ \A k \in Message : PaidBounties(old)[k] \in Int
    BY DEF Amounts, PaidBounties, Requests
  <2>. QED
    BY <2>1, SumInt, FiniteAssumption DEF Total
<1>. QED
  BY <1>1, <1>2, <1>3

\* So it changes the accounts' total only if it takes from one or pays one.
LEMMA AccountTotals ==
    ASSUME NEW H, Account \subseteq H, NEW old \in [H -> Int],
           NEW new \in [H -> Int], NEW a \in Account,
           \A b \in Account \ {a} : new[b] = old[b]
    PROVE  SumFunctionOnSet(new, Account)
             = SumFunctionOnSet(old, Account) + (new[a] - old[a])
<1>1. \A b \in Account : old[b] \in Int /\ new[b] \in Int
  OBVIOUS
<1>. QED
  BY <1>1, SumUpdate, FiniteAssumption

\* A change of one message changes what is in flight by what it has in flight.
LEMMA FlightMoves ==
    ASSUME NEW m \in Message,
           \A k \in Message \ {m} :
              Outbox(k)' = Outbox(k) /\ Inbox(k)' = Inbox(k)
    PROVE  Total(inFlight)'
             = Total(inFlight)
                 + (InFlight(m)' - InFlight(m))
<1>1. \A k \in Message :
        /\ inFlight[k] = InFlight(k) /\ inFlight'[k] = InFlight(k)'
        /\ InFlight(k) \in Int /\ InFlight(k)' \in Int
  BY GatewayAssumption DEF inFlight, InFlight
<1>2. \A k \in Message \ {m} : inFlight'[k] = inFlight[k]
  BY <1>1 DEF InFlight
<1>3. Total(inFlight') = Total(inFlight) + (inFlight'[m] - inFlight[m])
  BY <1>1, <1>2, SumUpdate, FiniteAssumption DEF Total
<1>. QED
  BY <1>1, <1>3 DEF Total

-----------------------------------------------------------------------------
\* Constructors: nothing is claimed, nothing minted, nothing under way.
LEMMA AccountsInit == Init => AccountsInv
<1>. SUFFICES ASSUME Init PROVE AccountsInv
  OBVIOUS
<1>. USE DEF Init, EIP20GatewayInit, EIP20CoGatewayInit
<1>0. \A m \in Message : Outbox(m) = "Undeclared"
  BY Ends DEF BusInit, StateRootsInit, Outbox, EmptyBox
<1>1. RequestsKept
  <2>1. \A m \in Message : stakes[m] = NoRequest /\ redeems[m] = NoRequest
    OBVIOUS
  <2>. QED
    BY ONLY <2>1 DEF RequestsKept
<1>2. /\ Total(Amounts(stakes)) = 0
      /\ Total(PaidBounties(stakes)) = 0
      /\ Total(Amounts(redeems)) = 0
      /\ Total(PaidBounties(redeems)) = 0
      /\ Total(inFlight) = 0
  <2>1. \A f : (\A m \in Message : f[m] = 0) => Total(f) = 0
    BY SumZero, FiniteAssumption DEF Total
  <2>2. \A m \in Message :
          /\ stakes[m].amount = 0 /\ stakes[m].bounty = 0
          /\ redeems[m].amount = 0 /\ redeems[m].bounty = 0
          /\ InFlight(m) = 0
    BY <1>0 DEF InFlight, NoRequest
  <2>3. \A m \in Message :
          /\ Amounts(stakes)[m] = 0 /\ PaidBounties(stakes)[m] = 0
          /\ Amounts(redeems)[m] = 0 /\ PaidBounties(redeems)[m] = 0
          /\ inFlight[m] = 0
    BY <2>2 DEF Amounts, PaidBounties, inFlight
  <2>. QED
    BY ONLY <2>1, <2>3
<1>3. SumFunctionOnSet(utilityBalance, Account) = 0
  BY SumZero, FiniteAssumption
<1>4. /\ valueBalance["gateway"] = 0 /\ valueBalance["stakeVault"] = 0
      /\ baseBalance["gateway"] = 0 /\ utilityBalance["gateway"] = 0
      /\ coinBalance["gateway"] = 0
  BY GatewayAssumption
<1>. QED
  BY <1>1, <1>2, <1>3, <1>4
     DEF AccountsInv, EscrowOnOrigin, EscrowOnAuxiliary, Conserved

\* What the transactions of a chain find, in a form the provers can use.
LEMMA LedgerTypes ==
    ASSUME TypeOK
    PROVE  /\ stakes \in [Message -> Requests] /\ redeems \in [Message -> Requests]
           /\ unstakes \in [Message -> Nat] /\ mints \in [Message -> Nat]
           /\ valueBalance \in [Account \cup {"gateway", "stakeVault"} -> Nat]
           /\ baseBalance \in [Account \cup {"gateway", "burner"} -> Nat]
           /\ utilityBalance \in [Account \cup {"gateway"} -> Nat]
           /\ coinBalance \in [Account \cup {"gateway", "burner"} -> Nat]
           /\ bounty["origin"] \in Nat /\ bounty["auxiliary"] \in Nat
           /\ \A m \in Message :
                /\ stakes[m].amount \in Nat /\ stakes[m].bounty \in Nat
                /\ redeems[m].amount \in Nat /\ redeems[m].bounty \in Nat
                /\ Sender[m] \in Account /\ Beneficiary[m] \in Account
                /\ Amount[m] \in Nat /\ MaxReward[m] \in Nat
BY GatewayAssumption
   DEF TypeOK, EIP20GatewayTypeOK, EIP20CoGatewayTypeOK, GatewayBaseTypeOK,
       Requests, Side

\* A message that its source has not declared has no request, and one that is
\* open has a request for its amount.
LEMMA RequestOfMessage ==
    ASSUME TypeOK, ProcessInv, AccountsInv, NEW m \in Message
    PROVE  /\ Source[m] = "origin" /\ ~OpenOutbox(m) => stakes[m] = NoRequest
           /\ Source[m] = "auxiliary" /\ ~OpenOutbox(m) => redeems[m] = NoRequest
           /\ stakes[m].amount > 0 => stakes[m].amount = Amount[m]
           /\ redeems[m].amount > 0 => redeems[m].amount = Amount[m]
<1>1. /\ Source[m] = "origin" /\ ~OpenOutbox(m) => ~(stakes[m].amount > 0)
      /\ Source[m] = "auxiliary" /\ ~OpenOutbox(m) => ~(redeems[m].amount > 0)
  BY DEF ProcessInv, RequestsInv, Requested
<1>2. /\ stakes[m] # NoRequest =>
           stakes[m].amount = Amount[m] /\ stakes[m].amount > 0
      /\ redeems[m] # NoRequest =>
           redeems[m].amount = Amount[m] /\ redeems[m].amount > 0
  BY DEF AccountsInv, RequestsKept
<1>3. ~(NoRequest.amount > 0)
  BY DEF NoRequest
<1>. QED
  BY <1>1, <1>2, <1>3

\* The totals are integers.
LEMMA TotalsType ==
    ASSUME TypeOK
    PROVE  /\ SumFunctionOnSet(utilityBalance, Account) \in Int
           /\ Total(inFlight) \in Int
<1>1. \A m \in Message : inFlight[m] \in Int
  BY LedgerTypes DEF inFlight, InFlight
<1>2. \A a \in Account : utilityBalance[a] \in Int
  BY LedgerTypes
<1>. QED
  BY <1>1, <1>2, SumInt, FiniteAssumption DEF Total

\* The invariant of the origin chain's side of the accounts.
LEMMA OriginAccounts ==
    ASSUME TypeOK, AccountsInv, UNCHANGED coGatewayVars,
           RequestsKept', EscrowOnOrigin', NEW d \in Int,
           valueBalance'["stakeVault"] + valueBalance'["gateway"]
             = valueBalance["stakeVault"] + valueBalance["gateway"] + d,
           Total(inFlight)' = Total(inFlight) + d
    PROVE  AccountsInv'
<1>1. UNCHANGED <<utilityBalance, coinBalance, redeems>>
  BY DEF coGatewayVars
<1>2. EscrowOnAuxiliary'
  BY <1>1 DEF AccountsInv, EscrowOnAuxiliary
<1>3. /\ SumFunctionOnSet(utilityBalance, Account) \in Int
      /\ Total(inFlight) \in Int
  BY TotalsType
<1>4. Conserved'
  <2>1. valueBalance["stakeVault"] + valueBalance["gateway"]
          = SumFunctionOnSet(utilityBalance, Account) + Total(inFlight)
    BY DEF AccountsInv, Conserved
  <2>2. valueBalance'["stakeVault"] + valueBalance'["gateway"]
          = SumFunctionOnSet(utilityBalance', Account) + Total(inFlight)'
    BY <1>1, <1>3, <2>1
  <2>. QED
    BY <2>2 DEF Conserved
<1>. QED
  BY <1>2, <1>4 DEF AccountsInv

\* Stake(m): a new request, value in the gateway, and as much in flight.
LEMMA StakeAccounts ==
    ASSUME TypeOK, LedgerInv, LedgerInv', BusInv, ProcessInv, AccountsInv,
           UNCHANGED coGatewayVars, NEW m \in StakeMessage, Stake(m)
    PROVE  AccountsInv'
<1>. DEFINE V == Account \cup {"gateway", "stakeVault"}
            B == Account \cup {"gateway", "burner"}
<1>0. /\ m \in Message /\ Source[m] = "origin"
      /\ stakes' = [stakes EXCEPT
                      ![m] = [amount |-> Amount[m], bounty |-> bounty["origin"]]]
      /\ valueBalance' = Transfer(valueBalance, Sender[m], "gateway", Amount[m])
      /\ baseBalance'
           = Transfer(baseBalance, Sender[m], "gateway", bounty["origin"])
      /\ Amount[m] > 0
      /\ UNCHANGED redeems
  BY DEF StakeMessage, coGatewayVars, Stake, ValidAmount
<1>1. /\ Outbox(m) = "Undeclared" /\ Outbox(m)' = "Declared"
      /\ Inbox(m)' = Inbox(m) /\ Inbox(m) = "Undeclared"
      /\ \A k \in Message \ {m} :
            Outbox(k)' = Outbox(k) /\ Inbox(k)' = Inbox(k)
  BY <1>0, BoxSet DEF Stake, DeclareMessage, BusInv, Agreement
<1>2. stakes[m] = NoRequest
  BY <1>0, <1>1, RequestOfMessage DEF OpenOutbox
<1>3. /\ \A h \in V : valueBalance'[h]
           = IF h = Sender[m] THEN valueBalance[h] - Amount[m]
             ELSE IF h = "gateway" THEN valueBalance[h] + Amount[m]
             ELSE valueBalance[h]
      /\ baseBalance'["gateway"] = baseBalance["gateway"] + bounty["origin"]
      /\ Sender[m] # "gateway" /\ Sender[m] # "stakeVault"
  <2>1. /\ Sender[m] \in V /\ Sender[m] \in B /\ Sender[m] # "gateway"
        /\ Sender[m] # "stakeVault" /\ "gateway" \in V /\ "gateway" \in B
        /\ valueBalance \in [V -> Nat] /\ baseBalance \in [B -> Nat]
        /\ Amount[m] \in Nat /\ bounty["origin"] \in Nat
    BY <1>0, LedgerTypes, GatewayAssumption
  <2>. HIDE DEF V, B
  <2>2. \A h \in V : valueBalance'[h]
          = IF h = Sender[m] THEN valueBalance[h] - Amount[m]
            ELSE IF h = "gateway" THEN valueBalance[h] + Amount[m]
            ELSE valueBalance[h]
    BY ONLY <1>0, <2>1, TransferMoves
  <2>3. \A h \in B : baseBalance'[h]
          = IF h = Sender[m] THEN baseBalance[h] - bounty["origin"]
            ELSE IF h = "gateway" THEN baseBalance[h] + bounty["origin"]
            ELSE baseBalance[h]
    BY ONLY <1>0, <2>1, TransferMoves
  <2>. QED
    BY <2>1, <2>2, <2>3
<1>4. /\ stakes \in [Message -> Requests] /\ stakes' \in [Message -> Requests]
      /\ \A k \in Message \ {m} : stakes'[k] = stakes[k]
      /\ stakes'[m].amount = Amount[m] /\ stakes'[m].bounty = bounty["origin"]
      /\ stakes[m].amount = 0 /\ stakes[m].bounty = 0
  BY <1>0, <1>2, LedgerTypes DEF NoRequest, Requests
<1>5. /\ Total(Amounts(stakes')) = Total(Amounts(stakes)) + (Amount[m] - 0)
      /\ Total(PaidBounties(stakes'))
           = Total(PaidBounties(stakes)) + (bounty["origin"] - 0)
  <2>1. m \in Message
    BY <1>0
  <2>. QED
    BY ONLY <2>1, <1>4, RequestTotals
<1>6. Total(inFlight)' = Total(inFlight) + (Amount[m] - 0)
  BY <1>0, <1>1, FlightMoves DEF InFlight
<1>7. RequestsKept'
  BY <1>0, <1>4 DEF AccountsInv, RequestsKept
<1>8. EscrowOnOrigin'
  <2>1. /\ valueBalance["gateway"] = Total(Amounts(stakes))
        /\ baseBalance["gateway"] = Total(PaidBounties(stakes))
        /\ valueBalance["gateway"] \in Nat /\ baseBalance["gateway"] \in Nat
        /\ Amount[m] \in Nat /\ bounty["origin"] \in Nat
    BY <1>0, LedgerTypes DEF AccountsInv, EscrowOnOrigin
  <2>2. /\ valueBalance'["gateway"] = Total(Amounts(stakes'))
        /\ baseBalance'["gateway"] = Total(PaidBounties(stakes'))
    BY <1>3, <1>5, <2>1
  <2>. QED
    BY <2>2 DEF EscrowOnOrigin
<1>9. /\ valueBalance["stakeVault"] \in Nat /\ valueBalance["gateway"] \in Nat
      /\ Amount[m] \in Nat
  BY <1>0, LedgerTypes
<1>. QED
  BY <1>3, <1>6, <1>7, <1>8, <1>9, OriginAccounts

\* progressStakeInternal: the stake moves on to the vault, its bounty to the
\* caller; what is in flight stays so until the target has paid it out.
LEMMA ProgressStakeAccounts ==
    ASSUME TypeOK, LedgerInv, LedgerInv', BusInv, ProcessInv, AccountsInv,
           UNCHANGED coGatewayVars, NEW m \in StakeMessage, NEW caller \in Account,
           OpenOutbox(m), SetOutbox(m, "Progressed"),
           ProgressStakeInternal(caller, m)
    PROVE  AccountsInv'
<1>. DEFINE V == Account \cup {"gateway", "stakeVault"}
            B == Account \cup {"gateway", "burner"}
<1>0. /\ m \in Message /\ Source[m] = "origin"
      /\ stakes' = [stakes EXCEPT ![m] = NoRequest]
      /\ valueBalance'
           = Transfer(valueBalance, "gateway", "stakeVault", stakes[m].amount)
      /\ baseBalance'
           = Transfer(baseBalance, "gateway", caller, stakes[m].bounty)
      /\ UNCHANGED redeems
  BY DEF StakeMessage, coGatewayVars, ProgressStakeInternal
<1>1. /\ Outbox(m)' = "Progressed" /\ Inbox(m)' = Inbox(m)
      /\ Outbox(m) \in {"Declared", "DeclaredRevocation"}
      /\ \A k \in Message \ {m} :
            Outbox(k)' = Outbox(k) /\ Inbox(k)' = Inbox(k)
  BY <1>0, BoxSet DEF OpenOutbox
<1>2. /\ valueBalance'["gateway"] = valueBalance["gateway"] - stakes[m].amount
      /\ valueBalance'["stakeVault"]
           = valueBalance["stakeVault"] + stakes[m].amount
      /\ baseBalance'["gateway"] = baseBalance["gateway"] - stakes[m].bounty
  <2>1. /\ caller \in B /\ caller # "gateway"
        /\ "stakeVault" \in V /\ "gateway" \in V /\ "gateway" \in B
        /\ valueBalance \in [V -> Nat] /\ baseBalance \in [B -> Nat]
        /\ stakes[m].amount \in Nat /\ stakes[m].bounty \in Nat
    BY <1>0, LedgerTypes, GatewayAssumption
  <2>. HIDE DEF V, B
  <2>2. \A h \in V : valueBalance'[h]
          = IF h = "gateway" THEN valueBalance[h] - stakes[m].amount
            ELSE IF h = "stakeVault" THEN valueBalance[h] + stakes[m].amount
            ELSE valueBalance[h]
    BY ONLY <1>0, <2>1, TransferMoves
  <2>3. \A h \in B : baseBalance'[h]
          = IF h = "gateway" THEN baseBalance[h] - stakes[m].bounty
            ELSE IF h = caller THEN baseBalance[h] + stakes[m].bounty
            ELSE baseBalance[h]
    BY ONLY <1>0, <2>1, TransferMoves
  <2>. QED
    BY <2>1, <2>2, <2>3
<1>3. /\ Total(Amounts(stakes')) = Total(Amounts(stakes)) - stakes[m].amount
      /\ Total(PaidBounties(stakes'))
           = Total(PaidBounties(stakes)) - stakes[m].bounty
  BY <1>0, LedgerTypes, RequestCloses
<1>4. Total(inFlight)' = Total(inFlight) + 0
  <2>1. InFlight(m)' - InFlight(m) = 0
    BY <1>0, <1>1, LedgerTypes DEF InFlight
  <2>. QED
    BY <1>0, <1>1, <2>1, FlightMoves
<1>5. RequestsKept'
  BY <1>0, LedgerTypes DEF AccountsInv, RequestsKept
<1>6. EscrowOnOrigin'
  BY <1>2, <1>3 DEF AccountsInv, EscrowOnOrigin
<1>7. /\ valueBalance["stakeVault"] \in Nat /\ valueBalance["gateway"] \in Nat
      /\ stakes[m].amount \in Nat
  BY <1>0, LedgerTypes
<1>. QED
  BY <1>2, <1>4, <1>5, <1>6, <1>7, OriginAccounts

\* revertStake: the penalty is paid by the staker, not by the gateway.
LEMMA RevertStakeAccounts ==
    ASSUME TypeOK, LedgerInv, LedgerInv', BusInv, ProcessInv, AccountsInv,
           UNCHANGED coGatewayVars, NEW m \in StakeMessage, RevertStake(m)
    PROVE  AccountsInv'
<1>. DEFINE B == Account \cup {"gateway", "burner"}
<1>0. /\ m \in Message /\ Source[m] = "origin"
      /\ baseBalance'
           = Transfer(baseBalance, Sender[m], "burner", Penalty(stakes[m].bounty))
      /\ UNCHANGED <<redeems, stakes, valueBalance>>
  BY DEF StakeMessage, coGatewayVars, RevertStake
<1>1. /\ Outbox(m)' = "DeclaredRevocation" /\ Inbox(m)' = Inbox(m)
      /\ Outbox(m) = "Declared"
      /\ \A k \in Message \ {m} :
            Outbox(k)' = Outbox(k) /\ Inbox(k)' = Inbox(k)
  BY <1>0, BoxSet DEF RevertStake, DeclareRevocationMessage
<1>2. baseBalance'["gateway"] = baseBalance["gateway"]
  <2>1. /\ Sender[m] \in B /\ Sender[m] # "gateway" /\ Sender[m] # "burner"
        /\ "gateway" \in B /\ "burner" \in B /\ baseBalance \in [B -> Nat]
        /\ Penalty(stakes[m].bounty) \in Nat
    BY <1>0, LedgerTypes, PenaltyType, GatewayAssumption
  <2>. HIDE DEF B
  <2>2. \A h \in B : baseBalance'[h]
          = IF h = Sender[m] THEN baseBalance[h] - Penalty(stakes[m].bounty)
            ELSE IF h = "burner" THEN baseBalance[h] + Penalty(stakes[m].bounty)
            ELSE baseBalance[h]
    BY ONLY <1>0, <2>1, TransferMoves
  <2>. QED
    BY <2>1, <2>2
<1>3. Total(inFlight)' = Total(inFlight) + 0
  <2>1. InFlight(m)' - InFlight(m) = 0
    BY <1>0, <1>1, LedgerTypes DEF InFlight
  <2>. QED
    BY <1>0, <1>1, <2>1, FlightMoves
<1>4. RequestsKept' /\ EscrowOnOrigin'
  BY <1>0, <1>2 DEF AccountsInv, RequestsKept, EscrowOnOrigin
<1>5. /\ valueBalance["stakeVault"] \in Nat /\ valueBalance["gateway"] \in Nat
  BY <1>0, LedgerTypes
<1>. QED
  BY <1>0, <1>3, <1>4, <1>5, OriginAccounts

\* progressRevertStake: the stake goes back only when the target has refused
\* it for good, so that it was still in flight.
LEMMA ProgressRevertStakeAccounts ==
    ASSUME TypeOK, LedgerInv, LedgerInv', BusInv, BusInv', ProcessInv,
           AccountsInv, UNCHANGED coGatewayVars, NEW m \in StakeMessage,
           ProgressRevertStake(m)
    PROVE  AccountsInv'
<1>. DEFINE V == Account \cup {"gateway", "stakeVault"}
            B == Account \cup {"gateway", "burner"}
<1>0. /\ m \in Message /\ Source[m] = "origin"
      /\ stakes' = [stakes EXCEPT ![m] = NoRequest]
      /\ valueBalance'
           = Transfer(valueBalance, "gateway", Sender[m], stakes[m].amount)
      /\ baseBalance'
           = Transfer(baseBalance, "gateway", "burner", stakes[m].bounty)
      /\ stakes[m].amount > 0
      /\ UNCHANGED redeems
  BY DEF StakeMessage, coGatewayVars, ProgressRevertStake
<1>1. /\ Outbox(m)' = "Revoked" /\ Inbox(m)' = Inbox(m)
      /\ Outbox(m) = "DeclaredRevocation" /\ Inbox(m) = "Revoked"
      /\ \A k \in Message \ {m} :
            Outbox(k)' = Outbox(k) /\ Inbox(k)' = Inbox(k)
  <2>1. /\ Outbox(m)' = "Revoked" /\ Inbox(m)' = Inbox(m)
        /\ Outbox(m) = "DeclaredRevocation"
        /\ \A k \in Message \ {m} :
              Outbox(k)' = Outbox(k) /\ Inbox(k)' = Inbox(k)
    BY <1>0, BoxSet DEF ProgressRevertStake, ProgressOutboxRevocation
  <2>2. Inbox(m)' = "Revoked"
    BY <1>0, <2>1 DEF BusInv, Agreement
  <2>. QED
    BY <2>1, <2>2
<1>2. /\ valueBalance'["gateway"] = valueBalance["gateway"] - stakes[m].amount
      /\ valueBalance'["stakeVault"] = valueBalance["stakeVault"]
      /\ baseBalance'["gateway"] = baseBalance["gateway"] - stakes[m].bounty
  <2>1. /\ Sender[m] \in V /\ Sender[m] # "gateway" /\ Sender[m] # "stakeVault"
        /\ "stakeVault" \in V /\ "gateway" \in V /\ "gateway" \in B
        /\ "burner" \in B
        /\ valueBalance \in [V -> Nat] /\ baseBalance \in [B -> Nat]
        /\ stakes[m].amount \in Nat /\ stakes[m].bounty \in Nat
    BY <1>0, LedgerTypes, GatewayAssumption
  <2>. HIDE DEF V, B
  <2>2. \A h \in V : valueBalance'[h]
          = IF h = "gateway" THEN valueBalance[h] - stakes[m].amount
            ELSE IF h = Sender[m] THEN valueBalance[h] + stakes[m].amount
            ELSE valueBalance[h]
    BY ONLY <1>0, <2>1, TransferMoves
  <2>3. \A h \in B : baseBalance'[h]
          = IF h = "gateway" THEN baseBalance[h] - stakes[m].bounty
            ELSE IF h = "burner" THEN baseBalance[h] + stakes[m].bounty
            ELSE baseBalance[h]
    BY <1>0, <2>1, TransferMoves
  <2>. QED
    BY <2>1, <2>2, <2>3
<1>3. /\ Total(Amounts(stakes')) = Total(Amounts(stakes)) - stakes[m].amount
      /\ Total(PaidBounties(stakes'))
           = Total(PaidBounties(stakes)) - stakes[m].bounty
  BY <1>0, LedgerTypes, RequestCloses
<1>4. Total(inFlight)' = Total(inFlight) + (0 - Amount[m])
  BY <1>0, <1>1, FlightMoves DEF InFlight
<1>5. RequestsKept'
  BY <1>0, LedgerTypes DEF AccountsInv, RequestsKept
<1>6. EscrowOnOrigin'
  BY <1>2, <1>3 DEF AccountsInv, EscrowOnOrigin
<1>7. /\ valueBalance["stakeVault"] \in Nat /\ valueBalance["gateway"] \in Nat
      /\ stakes[m].amount \in Nat /\ stakes[m].amount = Amount[m]
  BY <1>0, LedgerTypes, RequestOfMessage
<1>. QED
  BY <1>2, <1>4, <1>5, <1>6, <1>7, OriginAccounts

\* The target's transactions about a redemption that pay nothing.
LEMMA RedeemIntentAccounts ==
    ASSUME TypeOK, LedgerInv, LedgerInv', AccountsInv, UNCHANGED coGatewayVars,
           UNCHANGED <<stakes, valueBalance, baseBalance>>,
           NEW m \in Message, NEW s, s # "Progressed", Inbox(m) # "Progressed",
           SetInbox(m, s)
    PROVE  AccountsInv'
<1>1. /\ Inbox(m)' = s /\ Outbox(m)' = Outbox(m)
      /\ \A k \in Message \ {m} :
            Outbox(k)' = Outbox(k) /\ Inbox(k)' = Inbox(k)
  BY BoxSet
<1>2. Total(inFlight)' = Total(inFlight) + 0
  <2>1. InFlight(m)' - InFlight(m) = 0
    BY <1>1, LedgerTypes DEF InFlight
  <2>. QED
    BY <1>1, <2>1, FlightMoves
<1>3. RequestsKept' /\ EscrowOnOrigin'
  BY DEF AccountsInv, RequestsKept, EscrowOnOrigin, coGatewayVars
<1>4. valueBalance["stakeVault"] \in Nat /\ valueBalance["gateway"] \in Nat
  BY LedgerTypes
<1>. QED
  BY <1>2, <1>3, <1>4, OriginAccounts

\* progressUnstakeInternal: the vault pays the amount, in two parts, and what
\* was in flight has arrived.
LEMMA ProgressUnstakeAccounts ==
    ASSUME TypeOK, LedgerInv, LedgerInv', BusInv, ProcessInv, AccountsInv,
           UNCHANGED coGatewayVars, NEW m \in RedeemMessage,
           NEW caller \in Account, NEW fee \in Fees(m), Inbox(m) = "Declared",
           SetInbox(m, "Progressed"), ProgressUnstakeInternal(caller, m, fee)
    PROVE  AccountsInv'
<1>. DEFINE V == Account \cup {"gateway", "stakeVault"}
            rest == unstakes[m] - fee
            paid == Transfer(valueBalance, "stakeVault", Beneficiary[m], rest)
<1>0. /\ m \in Message
      /\ valueBalance' = Transfer(paid, "stakeVault", caller, fee)
      /\ unstakes[m] > 0 /\ Covers(valueBalance, "stakeVault", unstakes[m])
      /\ UNCHANGED <<redeems, stakes, baseBalance>>
  BY DEF RedeemMessage, coGatewayVars, ProgressUnstakeInternal
<1>1. /\ Inbox(m)' = "Progressed" /\ Outbox(m)' = Outbox(m)
      /\ Outbox(m) \notin {"Undeclared", "Revoked"}
      /\ \A k \in Message \ {m} :
            Outbox(k)' = Outbox(k) /\ Inbox(k)' = Inbox(k)
  BY <1>0, BoxSet DEF BusInv, Agreement
<1>2. /\ fee \in Nat /\ rest \in Nat /\ rest + fee = Amount[m]
      /\ unstakes[m] = Amount[m]
      /\ Amount[m] \in Nat
  BY <1>0, LedgerTypes DEF LedgerInv, PendingAmounts, ValidAmount, Fees
<1>3. /\ valueBalance'["gateway"] = valueBalance["gateway"]
      /\ valueBalance'["stakeVault"] = valueBalance["stakeVault"] - Amount[m]
  <2>1. /\ caller \in V /\ caller # "gateway" /\ caller # "stakeVault"
        /\ Beneficiary[m] \in V /\ Beneficiary[m] # "gateway"
        /\ Beneficiary[m] # "stakeVault"
        /\ "stakeVault" \in V /\ "gateway" \in V
        /\ valueBalance \in [V -> Nat]
    BY <1>0, LedgerTypes, GatewayAssumption
  <2>2. paid \in [V -> Nat]
    <3>1. Covers(valueBalance, "stakeVault", rest)
      BY <1>0, <1>2, <2>1 DEF Covers
    <3>. QED
      BY <1>2, <2>1, <3>1, TransferType
  <2>3. \A h \in V : paid[h]
          = IF h = "stakeVault" THEN valueBalance[h] - rest
            ELSE IF h = Beneficiary[m] THEN valueBalance[h] + rest
            ELSE valueBalance[h]
    <3>. HIDE DEF V, rest
    <3>. QED
      BY ONLY <1>2, <2>1, TransferMoves
  <2>4. \A h \in V : valueBalance'[h]
          = IF h = "stakeVault" THEN paid[h] - fee
            ELSE IF h = caller THEN paid[h] + fee
            ELSE paid[h]
    <3>1. valueBalance' = Transfer(paid, "stakeVault", caller, fee)
      BY <1>0
    <3>2. /\ paid \in [V -> Nat] /\ fee \in Nat
          /\ "stakeVault" \in V /\ caller \in V /\ "stakeVault" # caller
      BY <1>2, <2>1, <2>2
    <3>. HIDE DEF V, paid
    <3>. QED
      BY ONLY <3>1, <3>2, TransferMoves
  <2>5. valueBalance["stakeVault"] \in Nat
    BY <2>1
  <2>. HIDE DEF V, paid, rest
  <2>. QED
    BY <1>2, <2>1, <2>3, <2>4, <2>5
<1>4. Total(inFlight)' = Total(inFlight) + (0 - Amount[m])
  BY <1>0, <1>1, FlightMoves DEF InFlight
<1>5. RequestsKept' /\ EscrowOnOrigin'
  BY <1>0, <1>3 DEF AccountsInv, RequestsKept, EscrowOnOrigin
<1>6. valueBalance["stakeVault"] \in Nat /\ valueBalance["gateway"] \in Nat
  BY LedgerTypes
<1>. QED
  BY <1>2, <1>3, <1>4, <1>5, <1>6, OriginAccounts

\* Every transaction of the origin chain keeps the accounts.
LEMMA EIP20GatewayAccounts ==
    ASSUME TypeOK, LedgerInv, LedgerInv', BusInv, BusInv', ProcessInv,
           AccountsInv, EIP20GatewayNext, UNCHANGED coGatewayVars
    PROVE  AccountsInv'
<1>1. ASSUME NEW m \in StakeMessage, NEW caller \in Account,
             \/ \E unlockSecret \in Secret :
                   ProgressStake(caller, m, unlockSecret)
             \/ ProgressStakeWithProof(caller, m)
      PROVE  AccountsInv'
  <2>1. /\ OpenOutbox(m) /\ SetOutbox(m, "Progressed")
        /\ ProgressStakeInternal(caller, m)
    BY <1>1, BusStepsClose
       DEF ProgressStake, ProgressStakeWithProof, StakeMessage
  <2>. QED
    BY <2>1, ProgressStakeAccounts
<1>2. ASSUME NEW m \in RedeemMessage, NEW caller \in Account,
             NEW fee \in Fees(m),
             \/ \E unlockSecret \in Secret :
                   ProgressUnstake(caller, m, unlockSecret, fee)
             \/ ProgressUnstakeWithProof(caller, m, fee)
      PROVE  AccountsInv'
  <2>1. /\ Inbox(m) = "Declared" /\ SetInbox(m, "Progressed")
        /\ ProgressUnstakeInternal(caller, m, fee)
    BY <1>2, BusStepsClose
       DEF ProgressUnstake, ProgressUnstakeWithProof, RedeemMessage
  <2>. QED
    BY <2>1, ProgressUnstakeAccounts
<1>3. ASSUME NEW m \in RedeemMessage, ConfirmRedeemIntent(m)
      PROVE  AccountsInv'
  <2>1. /\ m \in Message /\ Inbox(m) = "Undeclared" /\ SetInbox(m, "Declared")
        /\ UNCHANGED <<stakes, valueBalance, baseBalance>>
    BY <1>3 DEF ConfirmRedeemIntent, ConfirmMessage, RedeemMessage
  <2>. QED
    BY <2>1, RedeemIntentAccounts
<1>4. ASSUME NEW m \in RedeemMessage, ConfirmRevertRedeemIntent(m)
      PROVE  AccountsInv'
  <2>1. /\ m \in Message /\ Inbox(m) = "Declared" /\ SetInbox(m, "Revoked")
        /\ UNCHANGED <<stakes, valueBalance, baseBalance>>
    BY <1>4 DEF ConfirmRevertRedeemIntent, ConfirmRevocation, RedeemMessage
  <2>. QED
    BY <2>1, RedeemIntentAccounts
<1>5. CASE ActivateGateway \/ DeactivateGateway
  BY <1>5
     DEF ActivateGateway, DeactivateGateway, busVars, coGatewayVars,
         AccountsInv, RequestsKept, EscrowOnOrigin, EscrowOnAuxiliary,
         Conserved, inFlight, InFlight, Outbox, Inbox, Target
<1>. QED
  BY <1>1, <1>2, <1>3, <1>4, <1>5, StakeAccounts, RevertStakeAccounts,
     ProgressRevertStakeAccounts
     DEF EIP20GatewayNext

-----------------------------------------------------------------------------
\* The same for the auxiliary chain's side of the accounts, whose total of
\* utility tokens moves against what is in flight.
LEMMA AuxiliaryAccounts ==
    ASSUME TypeOK, AccountsInv, UNCHANGED gatewayVars,
           RequestsKept', EscrowOnAuxiliary', NEW d \in Int,
           SumFunctionOnSet(utilityBalance', Account)
             = SumFunctionOnSet(utilityBalance, Account) + d,
           Total(inFlight)' = Total(inFlight) - d
    PROVE  AccountsInv'
<1>1. UNCHANGED <<valueBalance, baseBalance, stakes>>
  BY DEF gatewayVars
<1>2. EscrowOnOrigin'
  BY <1>1 DEF AccountsInv, EscrowOnOrigin
<1>3. /\ SumFunctionOnSet(utilityBalance, Account) \in Int
      /\ Total(inFlight) \in Int
  BY TotalsType
<1>4. Conserved'
  <2>1. valueBalance["stakeVault"] + valueBalance["gateway"]
          = SumFunctionOnSet(utilityBalance, Account) + Total(inFlight)
    BY DEF AccountsInv, Conserved
  <2>2. valueBalance'["stakeVault"] + valueBalance'["gateway"]
          = SumFunctionOnSet(utilityBalance', Account) + Total(inFlight)'
    BY <1>1, <1>3, <2>1
  <2>. QED
    BY <2>2 DEF Conserved
<1>. QED
  BY <1>2, <1>4 DEF AccountsInv

\* Redeem(m): a new request, utility tokens in the co-gateway, as much in
\* flight.
LEMMA RedeemAccounts ==
    ASSUME TypeOK, LedgerInv, LedgerInv', BusInv, ProcessInv, AccountsInv,
           UNCHANGED gatewayVars, NEW m \in RedeemMessage, Redeem(m)
    PROVE  AccountsInv'
<1>. DEFINE U == Account \cup {"gateway"}
            C == Account \cup {"gateway", "burner"}
            a == Sender[m]
            paid == bounty["auxiliary"]
<1>0. /\ m \in Message /\ Source[m] = "auxiliary"
      /\ redeems' = [redeems EXCEPT
                       ![m] = [amount |-> Amount[m], bounty |-> paid]]
      /\ utilityBalance' = Transfer(utilityBalance, a, "gateway", Amount[m])
      /\ coinBalance' = Transfer(coinBalance, a, "gateway", paid)
      /\ Amount[m] > 0
      /\ UNCHANGED stakes
  BY DEF RedeemMessage, gatewayVars, Redeem, ValidAmount
<1>1. /\ Outbox(m) = "Undeclared" /\ Outbox(m)' = "Declared"
      /\ Inbox(m)' = Inbox(m) /\ Inbox(m) = "Undeclared"
      /\ \A k \in Message \ {m} :
            Outbox(k)' = Outbox(k) /\ Inbox(k)' = Inbox(k)
  BY <1>0, BoxSet DEF Redeem, DeclareMessage, BusInv, Agreement
<1>2. redeems[m] = NoRequest
  BY <1>0, <1>1, RequestOfMessage DEF OpenOutbox
<1>3. /\ \A h \in U : utilityBalance'[h]
           = IF h = a THEN utilityBalance[h] - Amount[m]
             ELSE IF h = "gateway" THEN utilityBalance[h] + Amount[m]
             ELSE utilityBalance[h]
      /\ coinBalance'["gateway"] = coinBalance["gateway"] + paid
      /\ a \in Account /\ a # "gateway"
  <2>1. /\ a \in U /\ a \in C /\ a # "gateway" /\ a \in Account
        /\ "gateway" \in U /\ "gateway" \in C
        /\ utilityBalance \in [U -> Nat] /\ coinBalance \in [C -> Nat]
        /\ Amount[m] \in Nat /\ paid \in Nat
    BY <1>0, LedgerTypes, GatewayAssumption
  <2>. HIDE DEF U, C, a, paid
  <2>2. \A h \in U : utilityBalance'[h]
          = IF h = a THEN utilityBalance[h] - Amount[m]
            ELSE IF h = "gateway" THEN utilityBalance[h] + Amount[m]
            ELSE utilityBalance[h]
    BY ONLY <1>0, <2>1, TransferMoves
  <2>3. \A h \in C : coinBalance'[h]
          = IF h = a THEN coinBalance[h] - paid
            ELSE IF h = "gateway" THEN coinBalance[h] + paid
            ELSE coinBalance[h]
    BY ONLY <1>0, <2>1, TransferMoves
  <2>. QED
    BY <2>1, <2>2, <2>3
<1>4. /\ redeems \in [Message -> Requests] /\ redeems' \in [Message -> Requests]
      /\ \A k \in Message \ {m} : redeems'[k] = redeems[k]
      /\ redeems'[m].amount = Amount[m] /\ redeems'[m].bounty = paid
      /\ redeems[m].amount = 0 /\ redeems[m].bounty = 0
  BY <1>0, <1>2, LedgerTypes DEF NoRequest, Requests
<1>5. /\ Total(Amounts(redeems')) = Total(Amounts(redeems)) + (Amount[m] - 0)
      /\ Total(PaidBounties(redeems')) = Total(PaidBounties(redeems)) + (paid - 0)
  <2>1. m \in Message
    BY <1>0
  <2>. QED
    BY ONLY <2>1, <1>4, RequestTotals
<1>6. Total(inFlight)' = Total(inFlight) + (Amount[m] - 0)
  BY <1>0, <1>1, FlightMoves DEF InFlight
<1>7. RequestsKept'
  BY <1>0, <1>4 DEF AccountsInv, RequestsKept
<1>8. EscrowOnAuxiliary'
  <2>1. /\ utilityBalance["gateway"] = Total(Amounts(redeems))
        /\ coinBalance["gateway"] = Total(PaidBounties(redeems))
        /\ utilityBalance["gateway"] \in Nat /\ coinBalance["gateway"] \in Nat
        /\ Amount[m] \in Nat /\ paid \in Nat
    BY <1>0, LedgerTypes DEF AccountsInv, EscrowOnAuxiliary
  <2>2. /\ utilityBalance'["gateway"] = Total(Amounts(redeems'))
        /\ coinBalance'["gateway"] = Total(PaidBounties(redeems'))
    BY <1>3, <1>5, <2>1
  <2>. QED
    BY <2>2 DEF EscrowOnAuxiliary
<1>9. SumFunctionOnSet(utilityBalance', Account)
        = SumFunctionOnSet(utilityBalance, Account) + (0 - Amount[m])
  <2>1. /\ \A b \in Account : utilityBalance[b] \in Int /\ utilityBalance'[b] \in Int
        /\ \A b \in Account \ {a} : utilityBalance'[b] = utilityBalance[b]
        /\ utilityBalance'[a] - utilityBalance[a] = 0 - Amount[m]
    BY <1>0, <1>3, LedgerTypes, GatewayAssumption
  <2>. QED
    BY <1>3, <2>1, SumUpdate, FiniteAssumption
<1>10. Amount[m] \in Int /\ Total(inFlight) \in Int
  BY <1>0, LedgerTypes, TotalsType
<1>11. Total(inFlight)' = Total(inFlight) - (0 - Amount[m])
  BY <1>6, <1>10
<1>. QED
  BY <1>7, <1>8, <1>9, <1>10, <1>11, AuxiliaryAccounts

\* progressRedeemInternal: the co-gateway burns what it held; no account's
\* tokens change, and what is in flight stays so.
LEMMA ProgressRedeemAccounts ==
    ASSUME TypeOK, LedgerInv, LedgerInv', BusInv, ProcessInv, AccountsInv,
           UNCHANGED gatewayVars, NEW m \in RedeemMessage, NEW caller \in Account,
           OpenOutbox(m), SetOutbox(m, "Progressed"),
           ProgressRedeemInternal(caller, m)
    PROVE  AccountsInv'
<1>. DEFINE U == Account \cup {"gateway"}
            C == Account \cup {"gateway", "burner"}
<1>0. /\ m \in Message /\ Source[m] = "auxiliary"
      /\ redeems' = [redeems EXCEPT ![m] = NoRequest]
      /\ utilityBalance' =
           [utilityBalance EXCEPT !["gateway"] = @ - redeems[m].amount]
      /\ coinBalance' = Transfer(coinBalance, "gateway", caller, redeems[m].bounty)
      /\ UNCHANGED stakes
  BY DEF RedeemMessage, gatewayVars, ProgressRedeemInternal, DecreaseSupply
<1>1. /\ Outbox(m)' = "Progressed" /\ Inbox(m)' = Inbox(m)
      /\ Outbox(m) \in {"Declared", "DeclaredRevocation"}
      /\ \A k \in Message \ {m} :
            Outbox(k)' = Outbox(k) /\ Inbox(k)' = Inbox(k)
  BY <1>0, BoxSet DEF OpenOutbox
<1>2. /\ utilityBalance'["gateway"] = utilityBalance["gateway"] - redeems[m].amount
      /\ \A b \in Account : utilityBalance'[b] = utilityBalance[b]
      /\ \A b \in Account : utilityBalance[b] \in Int
  BY <1>0, LedgerTypes, GatewayAssumption
<1>3. coinBalance'["gateway"] = coinBalance["gateway"] - redeems[m].bounty
  <2>1. /\ coinBalance' = Transfer(coinBalance, "gateway", caller, redeems[m].bounty)
        /\ caller \in C /\ caller # "gateway" /\ "gateway" \in C
        /\ coinBalance \in [C -> Nat] /\ redeems[m].bounty \in Nat
    BY <1>0, LedgerTypes, GatewayAssumption
  <2>. HIDE DEF C
  <2>2. \A h \in C : coinBalance'[h]
          = IF h = "gateway" THEN coinBalance[h] - redeems[m].bounty
            ELSE IF h = caller THEN coinBalance[h] + redeems[m].bounty
            ELSE coinBalance[h]
    BY ONLY <2>1, TransferMoves
  <2>. QED
    BY <2>1, <2>2
<1>4. /\ Total(Amounts(redeems')) = Total(Amounts(redeems)) - redeems[m].amount
      /\ Total(PaidBounties(redeems'))
           = Total(PaidBounties(redeems)) - redeems[m].bounty
  BY <1>0, LedgerTypes, RequestCloses
<1>5. Total(inFlight)' = Total(inFlight) - 0
  <2>1. InFlight(m)' - InFlight(m) = 0
    BY <1>0, <1>1, LedgerTypes DEF InFlight
  <2>. QED
    BY <1>0, <1>1, <2>1, TotalsType, FlightMoves
<1>6. RequestsKept'
  BY <1>0, LedgerTypes DEF AccountsInv, RequestsKept
<1>7. EscrowOnAuxiliary'
  BY <1>2, <1>3, <1>4 DEF AccountsInv, EscrowOnAuxiliary
<1>8. SumFunctionOnSet(utilityBalance', Account)
        = SumFunctionOnSet(utilityBalance, Account) + 0
  BY <1>2, TotalsType, SumSame, FiniteAssumption
<1>. QED
  BY <1>5, <1>6, <1>7, <1>8, AuxiliaryAccounts

\* revertRedeem: the penalty is paid by the redeemer, not by the co-gateway.
LEMMA RevertRedeemAccounts ==
    ASSUME TypeOK, LedgerInv, LedgerInv', BusInv, ProcessInv, AccountsInv,
           UNCHANGED gatewayVars, NEW m \in RedeemMessage, RevertRedeem(m)
    PROVE  AccountsInv'
<1>. DEFINE C == Account \cup {"gateway", "burner"}
            penalty == Penalty(redeems[m].bounty)
<1>0. /\ m \in Message /\ Source[m] = "auxiliary"
      /\ coinBalance' = Transfer(coinBalance, Sender[m], "burner", penalty)
      /\ UNCHANGED <<redeems, stakes, utilityBalance>>
  BY DEF RedeemMessage, gatewayVars, RevertRedeem
<1>1. /\ Outbox(m)' = "DeclaredRevocation" /\ Inbox(m)' = Inbox(m)
      /\ Outbox(m) = "Declared"
      /\ \A k \in Message \ {m} :
            Outbox(k)' = Outbox(k) /\ Inbox(k)' = Inbox(k)
  BY <1>0, BoxSet DEF RevertRedeem, DeclareRevocationMessage
<1>2. coinBalance'["gateway"] = coinBalance["gateway"]
  <2>1. /\ coinBalance' = Transfer(coinBalance, Sender[m], "burner", penalty)
        /\ Sender[m] \in C /\ Sender[m] # "gateway" /\ Sender[m] # "burner"
        /\ "gateway" \in C /\ "burner" \in C /\ coinBalance \in [C -> Nat]
        /\ penalty \in Nat
    BY <1>0, LedgerTypes, PenaltyType, GatewayAssumption
  <2>. HIDE DEF C, penalty
  <2>2. \A h \in C : coinBalance'[h]
          = IF h = Sender[m] THEN coinBalance[h] - penalty
            ELSE IF h = "burner" THEN coinBalance[h] + penalty
            ELSE coinBalance[h]
    BY ONLY <2>1, TransferMoves
  <2>. QED
    BY <2>1, <2>2
<1>3. /\ Total(inFlight) \in Int
      /\ SumFunctionOnSet(utilityBalance, Account) \in Int
  BY TotalsType
<1>4. Total(inFlight)' = Total(inFlight) - 0
  <2>1. InFlight(m)' - InFlight(m) = 0
    BY <1>0, <1>1, LedgerTypes DEF InFlight
  <2>. QED
    BY <1>0, <1>1, <1>3, <2>1, FlightMoves
<1>5. RequestsKept' /\ EscrowOnAuxiliary'
  BY <1>0, <1>2 DEF AccountsInv, RequestsKept, EscrowOnAuxiliary
<1>6. SumFunctionOnSet(utilityBalance', Account)
        = SumFunctionOnSet(utilityBalance, Account) + 0
  BY <1>0, <1>3
<1>. QED
  BY <1>4, <1>5, <1>6, AuxiliaryAccounts

\* progressRevertRedeem: the tokens go back only when the target has refused
\* the redemption for good, so that it was still in flight.
LEMMA ProgressRevertRedeemAccounts ==
    ASSUME TypeOK, LedgerInv, LedgerInv', BusInv, BusInv', ProcessInv,
           AccountsInv, UNCHANGED gatewayVars, NEW m \in RedeemMessage,
           ProgressRevertRedeem(m)
    PROVE  AccountsInv'
<1>. DEFINE U == Account \cup {"gateway"}
            C == Account \cup {"gateway", "burner"}
            a == Sender[m]
<1>0. /\ m \in Message /\ Source[m] = "auxiliary"
      /\ redeems' = [redeems EXCEPT ![m] = NoRequest]
      /\ utilityBalance'
           = Transfer(utilityBalance, "gateway", a, redeems[m].amount)
      /\ coinBalance'
           = Transfer(coinBalance, "gateway", "burner", redeems[m].bounty)
      /\ redeems[m].amount > 0
      /\ UNCHANGED stakes
  BY DEF RedeemMessage, gatewayVars, ProgressRevertRedeem
<1>1. /\ Outbox(m)' = "Revoked" /\ Inbox(m)' = Inbox(m)
      /\ Outbox(m) = "DeclaredRevocation" /\ Inbox(m) = "Revoked"
      /\ \A k \in Message \ {m} :
            Outbox(k)' = Outbox(k) /\ Inbox(k)' = Inbox(k)
  <2>1. /\ Outbox(m)' = "Revoked" /\ Inbox(m)' = Inbox(m)
        /\ Outbox(m) = "DeclaredRevocation"
        /\ \A k \in Message \ {m} :
              Outbox(k)' = Outbox(k) /\ Inbox(k)' = Inbox(k)
    BY <1>0, BoxSet DEF ProgressRevertRedeem, ProgressOutboxRevocation
  <2>2. Inbox(m)' = "Revoked"
    BY <1>0, <2>1 DEF BusInv, Agreement
  <2>. QED
    BY <2>1, <2>2
<1>2. /\ \A h \in U : utilityBalance'[h]
           = IF h = "gateway" THEN utilityBalance[h] - redeems[m].amount
             ELSE IF h = a THEN utilityBalance[h] + redeems[m].amount
             ELSE utilityBalance[h]
      /\ coinBalance'["gateway"] = coinBalance["gateway"] - redeems[m].bounty
      /\ a \in Account /\ a # "gateway"
  <2>1. /\ utilityBalance'
             = Transfer(utilityBalance, "gateway", a, redeems[m].amount)
        /\ a \in U /\ a # "gateway" /\ "gateway" \in U /\ a \in Account
        /\ utilityBalance \in [U -> Nat] /\ redeems[m].amount \in Nat
    BY <1>0, LedgerTypes, GatewayAssumption
  <2>2. /\ coinBalance'
             = Transfer(coinBalance, "gateway", "burner", redeems[m].bounty)
        /\ "gateway" \in C /\ "burner" \in C /\ "burner" # "gateway"
        /\ coinBalance \in [C -> Nat] /\ redeems[m].bounty \in Nat
    BY <1>0, LedgerTypes
  <2>. HIDE DEF U, C, a
  <2>3. \A h \in U : utilityBalance'[h]
          = IF h = "gateway" THEN utilityBalance[h] - redeems[m].amount
            ELSE IF h = a THEN utilityBalance[h] + redeems[m].amount
            ELSE utilityBalance[h]
    BY ONLY <2>1, TransferMoves
  <2>4. \A h \in C : coinBalance'[h]
          = IF h = "gateway" THEN coinBalance[h] - redeems[m].bounty
            ELSE IF h = "burner" THEN coinBalance[h] + redeems[m].bounty
            ELSE coinBalance[h]
    BY ONLY <2>2, TransferMoves
  <2>. QED
    BY <2>1, <2>2, <2>3, <2>4
<1>3. /\ Total(Amounts(redeems')) = Total(Amounts(redeems)) - redeems[m].amount
      /\ Total(PaidBounties(redeems'))
           = Total(PaidBounties(redeems)) - redeems[m].bounty
  BY <1>0, LedgerTypes, RequestCloses
<1>4. Total(inFlight)' = Total(inFlight) + (0 - Amount[m])
  BY <1>0, <1>1, FlightMoves DEF InFlight
<1>5. RequestsKept'
  BY <1>0, LedgerTypes DEF AccountsInv, RequestsKept
<1>6. EscrowOnAuxiliary'
  BY <1>2, <1>3 DEF AccountsInv, EscrowOnAuxiliary
<1>7. SumFunctionOnSet(utilityBalance', Account)
        = SumFunctionOnSet(utilityBalance, Account) + Amount[m]
  <2>1. redeems[m].amount = Amount[m] /\ Amount[m] \in Nat
    BY <1>0, RequestOfMessage, LedgerTypes
  <2>2. /\ \A b \in Account : utilityBalance[b] \in Int /\ utilityBalance'[b] \in Int
        /\ \A b \in Account \ {a} : utilityBalance'[b] = utilityBalance[b]
        /\ utilityBalance'[a] - utilityBalance[a] = Amount[m]
    BY <1>2, <2>1, LedgerTypes, GatewayAssumption
  <2>. QED
    BY <1>2, <2>2, SumUpdate, FiniteAssumption
<1>8. Amount[m] \in Int /\ Total(inFlight) \in Int
  BY <1>0, LedgerTypes, TotalsType
<1>9. Total(inFlight)' = Total(inFlight) - Amount[m]
  BY <1>4, <1>8
<1>. QED
  BY <1>5, <1>6, <1>7, <1>8, <1>9, AuxiliaryAccounts

\* The target's transactions about a stake that mint nothing.
LEMMA StakeIntentAccounts ==
    ASSUME TypeOK, AccountsInv, UNCHANGED gatewayVars,
           UNCHANGED <<redeems, utilityBalance, coinBalance>>,
           NEW m \in Message, NEW s, s # "Progressed", Inbox(m) # "Progressed",
           SetInbox(m, s)
    PROVE  AccountsInv'
<1>1. /\ Inbox(m)' = s /\ Outbox(m)' = Outbox(m)
      /\ \A k \in Message \ {m} :
            Outbox(k)' = Outbox(k) /\ Inbox(k)' = Inbox(k)
  BY BoxSet
<1>2. Total(inFlight)' = Total(inFlight) - 0
  <2>1. InFlight(m)' - InFlight(m) = 0
    BY <1>1, LedgerTypes DEF InFlight
  <2>. QED
    BY <1>1, <2>1, TotalsType, FlightMoves
<1>3. RequestsKept' /\ EscrowOnAuxiliary'
  BY DEF AccountsInv, RequestsKept, EscrowOnAuxiliary, gatewayVars
<1>4. SumFunctionOnSet(utilityBalance', Account)
        = SumFunctionOnSet(utilityBalance, Account) + 0
  BY TotalsType
<1>. QED
  BY <1>2, <1>3, <1>4, AuxiliaryAccounts

\* New tokens are more tokens of all accounts together.
LEMMA SupplyIncreases ==
    ASSUME NEW ledger \in [Account \cup {"gateway"} -> Nat],
           NEW payee \in Account, NEW amount \in Nat
    PROVE  LET increased == IncreaseSupply(ledger, payee, amount)
           IN  /\ increased \in [Account \cup {"gateway"} -> Nat]
               /\ increased["gateway"] = ledger["gateway"]
               /\ SumFunctionOnSet(increased, Account)
                    = SumFunctionOnSet(ledger, Account) + amount
<1>. DEFINE increased == IncreaseSupply(ledger, payee, amount)
<1>1. /\ increased \in [Account \cup {"gateway"} -> Nat]
      /\ increased["gateway"] = ledger["gateway"]
      /\ increased[payee] = ledger[payee] + amount
      /\ \A b \in Account \ {payee} : increased[b] = ledger[b]
  BY GatewayAssumption DEF IncreaseSupply
<1>. HIDE DEF increased
<1>2. /\ \A b \in Account : ledger[b] \in Int /\ increased[b] \in Int
      /\ increased[payee] - ledger[payee] = amount
  BY <1>1
<1>3. SumFunctionOnSet(increased, Account)
        = SumFunctionOnSet(ledger, Account) + (increased[payee] - ledger[payee])
  BY <1>1, <1>2, SumUpdate, FiniteAssumption
<1>. QED
  BY <1>1, <1>2, <1>3 DEF increased

\* progressMintInternal: the amount is minted, in two parts, and what was in
\* flight has arrived.
LEMMA ProgressMintAccounts ==
    ASSUME TypeOK, LedgerInv, BusInv, AccountsInv,
           UNCHANGED gatewayVars, NEW m \in StakeMessage,
           NEW caller \in Account, NEW fee \in Fees(m), Inbox(m) = "Declared",
           SetInbox(m, "Progressed"), ProgressMintInternal(caller, m, fee)
    PROVE  AccountsInv'
<1>. DEFINE rest == mints[m] - fee
            minted == IncreaseSupply(utilityBalance, Beneficiary[m], rest)
<1>0. /\ m \in Message
      /\ utilityBalance' = IncreaseSupply(minted, caller, fee)
      /\ mints[m] > 0
      /\ UNCHANGED <<redeems, stakes, coinBalance>>
  BY DEF StakeMessage, gatewayVars, ProgressMintInternal
<1>1. /\ Inbox(m)' = "Progressed" /\ Outbox(m)' = Outbox(m)
      /\ Outbox(m) \notin {"Undeclared", "Revoked"}
      /\ \A k \in Message \ {m} :
            Outbox(k)' = Outbox(k) /\ Inbox(k)' = Inbox(k)
  BY <1>0, BoxSet DEF BusInv, Agreement
<1>2. fee \in Nat /\ rest \in Nat /\ rest + fee = Amount[m] /\ Amount[m] \in Nat
  BY <1>0, LedgerTypes DEF LedgerInv, PendingAmounts, ValidAmount, Fees
<1>3. /\ minted \in [Account \cup {"gateway"} -> Nat]
      /\ minted["gateway"] = utilityBalance["gateway"]
      /\ SumFunctionOnSet(minted, Account)
           = SumFunctionOnSet(utilityBalance, Account) + rest
  <2>1. Beneficiary[m] \in Account
    BY <1>0, LedgerTypes
  <2>. HIDE DEF rest
  <2>. QED
    BY <1>2, <2>1, LedgerTypes, SupplyIncreases
<1>4. /\ utilityBalance'["gateway"] = minted["gateway"]
      /\ SumFunctionOnSet(utilityBalance', Account)
           = SumFunctionOnSet(minted, Account) + fee
  <2>. HIDE DEF minted
  <2>. QED
    BY <1>0, <1>2, <1>3, SupplyIncreases
<1>. HIDE DEF minted
<1>5. SumFunctionOnSet(utilityBalance', Account)
        = SumFunctionOnSet(utilityBalance, Account) + Amount[m]
  <2>. HIDE DEF rest
  <2>. QED
    BY <1>2, <1>3, <1>4, TotalsType
<1>6. Total(inFlight)' = Total(inFlight) - Amount[m]
  <2>1. Total(inFlight)' = Total(inFlight) + (0 - Amount[m])
    BY <1>0, <1>1, FlightMoves DEF InFlight
  <2>. QED
    BY <1>2, <2>1, TotalsType
<1>7. RequestsKept' /\ EscrowOnAuxiliary'
  BY <1>0, <1>3, <1>4 DEF AccountsInv, RequestsKept, EscrowOnAuxiliary
<1>. QED
  BY <1>2, <1>5, <1>6, <1>7, AuxiliaryAccounts

\* Every transaction of the auxiliary chain keeps the accounts.
LEMMA EIP20CoGatewayAccounts ==
    ASSUME TypeOK, LedgerInv, LedgerInv', BusInv, BusInv', ProcessInv,
           AccountsInv, EIP20CoGatewayNext, UNCHANGED gatewayVars
    PROVE  AccountsInv'
<1>1. ASSUME NEW m \in RedeemMessage, NEW caller \in Account,
             \/ \E unlockSecret \in Secret :
                   ProgressRedeem(caller, m, unlockSecret)
             \/ ProgressRedeemWithProof(caller, m)
      PROVE  AccountsInv'
  <2>1. /\ OpenOutbox(m) /\ SetOutbox(m, "Progressed")
        /\ ProgressRedeemInternal(caller, m)
    BY <1>1, BusStepsClose
       DEF ProgressRedeem, ProgressRedeemWithProof, RedeemMessage
  <2>. QED
    BY <2>1, ProgressRedeemAccounts
<1>2. ASSUME NEW m \in StakeMessage, NEW caller \in Account,
             NEW fee \in Fees(m),
             \/ \E unlockSecret \in Secret :
                   ProgressMint(caller, m, unlockSecret, fee)
             \/ ProgressMintWithProof(caller, m, fee)
      PROVE  AccountsInv'
  <2>1. /\ Inbox(m) = "Declared" /\ SetInbox(m, "Progressed")
        /\ ProgressMintInternal(caller, m, fee)
    BY <1>2, BusStepsClose
       DEF ProgressMint, ProgressMintWithProof, StakeMessage
  <2>. QED
    BY <2>1, ProgressMintAccounts
<1>3. ASSUME NEW m \in StakeMessage, ConfirmStakeIntent(m)
      PROVE  AccountsInv'
  <2>1. /\ m \in Message /\ Inbox(m) = "Undeclared" /\ SetInbox(m, "Declared")
        /\ UNCHANGED <<redeems, utilityBalance, coinBalance>>
    BY <1>3 DEF ConfirmStakeIntent, ConfirmMessage, StakeMessage
  <2>. QED
    BY <2>1, StakeIntentAccounts
<1>4. ASSUME NEW m \in StakeMessage, ConfirmRevertStakeIntent(m)
      PROVE  AccountsInv'
  <2>1. /\ m \in Message /\ Inbox(m) = "Declared" /\ SetInbox(m, "Revoked")
        /\ UNCHANGED <<redeems, utilityBalance, coinBalance>>
    BY <1>4 DEF ConfirmRevertStakeIntent, ConfirmRevocation, StakeMessage
  <2>. QED
    BY <2>1, StakeIntentAccounts
<1>. QED
  BY <1>1, <1>2, <1>3, <1>4, RedeemAccounts, RevertRedeemAccounts,
     ProgressRevertRedeemAccounts
     DEF EIP20CoGatewayNext

\* Blocks, roots and the bounty's change leave the accounts alone.
LEMMA OtherAccounts ==
    ASSUME AccountsInv, RootsNext \/ BountyNext \/ UNCHANGED vars
    PROVE  AccountsInv'
<1>1. UNCHANGED <<messageBox, ledgerVars>>
  BY DEF RootsNext, BountyNext, vars, busVars, baseVars, MineBlock,
         AnchorStateRoot, ProveGateway
<1>. QED
  BY <1>1
     DEF ledgerVars, gatewayVars, coGatewayVars, AccountsInv, RequestsKept,
         EscrowOnOrigin, EscrowOnAuxiliary, Conserved, inFlight, InFlight,
         Outbox, Inbox, Target

\* The joint invariant of requests, escrows and tokens.
THEOREM AccountsInvariant == Spec => []AccountsInv
<1>1. Spec => []BusInv
  BY GatewaysImplementBus, BusInvariant, PTL DEF ImplementsMessageBus
<1>2. /\ TypeOK /\ LedgerInv /\ LedgerInv' /\ BusInv /\ BusInv' /\ ProcessInv
      /\ AccountsInv /\ [Next]_vars
      => AccountsInv'
  BY EIP20GatewayAccounts, EIP20CoGatewayAccounts, OtherAccounts DEF Next
<1>. QED
  BY <1>1, <1>2, AccountsInit, TypeCorrect, LedgersAreTyped, ProcessInvariant,
     PTL DEF Spec

\* At every moment the gateway and the co-gateway hold exactly what their open
\* requests may still claim, whatever bounties the organization has set since.
THEOREM RequestsAreEscrowed == Spec => []Escrow
<1>1. AccountsInv => Escrow
  BY DEF AccountsInv, EscrowOnOrigin, EscrowOnAuxiliary, Escrow
<1>. QED
  BY <1>1, AccountsInvariant, PTL

\* No utility token is ever without the value token behind it: what the
\* accounts hold is what the origin chain took in, less what is in flight.
THEOREM UtilityIsBacked == Spec => []Backed
<1>1. TypeOK /\ AccountsInv => Backed
  <2>. SUFFICES ASSUME TypeOK, AccountsInv PROVE Backed
    OBVIOUS
  <2>1. Total(inFlight) \in Nat
    <3>1. \A m \in Message : inFlight[m] \in Nat
      BY LedgerTypes DEF inFlight, InFlight
    <3>. QED
      BY <3>1, SumNat, FiniteAssumption DEF Total
  <2>2. valueBalance["stakeVault"] + valueBalance["gateway"]
          = SumFunctionOnSet(utilityBalance, Account) + Total(inFlight)
    BY DEF AccountsInv, Conserved
  <2>. QED
    BY <2>1, <2>2, TotalsType DEF Backed
<1>. QED
  BY <1>1, AccountsInvariant, TypeCorrect, PTL
=============================================================================
