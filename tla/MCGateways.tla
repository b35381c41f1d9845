----------------------------- MODULE MCGateways -----------------------------
(***************************************************************************)
(* Gateways with four messages: two stakes of one account for the same     *)
(* nonce, of which one can be declared, a third one for the next nonce,    *)
(* and a redeem of the account that the stakes pay out to.  A behaviour is *)
(* about the two directions, at one bounty, or about the stakes that       *)
(* follow each other, while the organization changes their bounty.         *)
(***************************************************************************)
EXTENDS Gateways

CONSTANTS stake0, other0, stake1, redeem0, staker, redeemer

VARIABLE used  \* the messages of this behaviour

MCSource == [m \in Message |-> IF m = redeem0 THEN "auxiliary" ELSE "origin"]
MCSecret == {"secret", "guess"}
MCHashLock == [m \in Message |-> "secret"]

MCSender == [m \in Message |-> IF m = redeem0 THEN redeemer ELSE staker]
MCBeneficiary == [m \in Message |-> IF m = redeem0 THEN staker ELSE redeemer]
MCNonce == [m \in Message |-> IF m = stake1 THEN 1 ELSE 0]
MCAmount == [m \in Message |-> 2]
MCMaxReward == [m \in Message |-> IF m \in {stake0, redeem0} THEN 1 ELSE 0]
MCNoReward == [m \in Message |-> 0]

MCValue == [a \in Account |-> IF a = staker THEN 2 ELSE 0]
MCTwoStakes == [a \in Account |-> IF a = staker THEN 4 ELSE 0]
MCBase == [a \in Account |-> IF a = staker THEN 10 ELSE 0]
MCCoin == [a \in Account |-> IF a = redeemer THEN 6 ELSE 0]

BothWays == {stake0, redeem0}
InSequence == {stake0, other0, stake1}

MCInit == Init /\ used \in {s \in {BothWays, InSequence} : s \subseteq Message}

MCNext ==
    /\ Next
    /\ \A m \in Message \ used : messageBox'[Source[m]][m] = "Undeclared"
    /\ UNCHANGED bounty["auxiliary"]
    /\ used = BothWays => UNCHANGED bounty
    /\ UNCHANGED used

MCSpec == MCInit /\ [][MCNext]_<<vars, used>>

FairMCSpec == MCSpec /\ Fairness
=============================================================================
