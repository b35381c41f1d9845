---------------------------- MODULE ValidatorSet ----------------------------
(***************************************************************************)
(* What the meta-blockchain promises about its validators, on either       *)
(* chain: the weights are fixed while a meta-block is open, and opening    *)
(* the next one adds exactly the validators its kernel announces, none of  *)
(* which had a weight before.  Nothing in the repository is translated     *)
(* here; OriginCore and AuxiliaryCore are shown to implement it.           *)
(***************************************************************************)
EXTENDS MetaBlock

CONSTANT Validator

VARIABLES
    height,     \* of the open meta-block
    weights,    \* [Validator -> Nat], in the open meta-block
    total,      \* the weight that majorities are counted against
    updates     \* the validators the kernel announces, with their weights

Joined(known, joining) ==
    [v \in Validator |->
        IF v \in DOMAIN joining THEN joining[v] ELSE known[v]]

Empty == [v \in {} |-> 0]

Init ==
    /\ height = 1
    /\ weights \in [Validator -> Nat]
    /\ total = SumOf(weights)
    /\ updates = Empty

\* The founding set, when it is not given at once.
Found ==
    /\ height = 1
    /\ total = 0
    /\ weights' \in [Validator -> Nat]
    /\ total' = SumOf(weights')
    /\ UNCHANGED <<height, updates>>

Open ==
    /\ height' = height + 1
    /\ \A v \in DOMAIN updates' : updates'[v] > 0 /\ weights[v] = 0
    /\ weights' = Joined(weights, updates')
    /\ total' = total + SumOf(updates')

Next == Found \/ Open

Spec == Init /\ [][Next]_<<height, weights, total, updates>>
=============================================================================
