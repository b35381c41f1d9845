--------------------------- MODULE AtomicTransfer ---------------------------
(***************************************************************************)
(* What the two gateways promise for one transfer, without chains, roots   *)
(* or proofs: the source holds the value, the target either credits the    *)
(* transfer or refuses it, and the source settles or refunds it without    *)
(* ever contradicting the target.  Nothing in the repository is translated *)
(* here; MessageBus is shown to implement it.                              *)
(***************************************************************************)
CONSTANT Message

VARIABLES source,   \* what the source chain has done with the value
          target    \* what the target chain has decided

vars == <<source, target>>

TypeOK ==
    /\ source \in [Message -> {"idle", "held", "settled", "refunded"}]
    /\ target \in [Message -> {"pending", "credited", "refused"}]

Init ==
    /\ source = [m \in Message |-> "idle"]
    /\ target = [m \in Message |-> "pending"]

\* The source takes the value into custody.
Hold(m) ==
    /\ source[m] = "idle"
    /\ source' = [source EXCEPT ![m] = "held"]
    /\ UNCHANGED target

\* The target pays out: never for a transfer that was not started, nor for
\* one that was refunded.
Credit(m) ==
    /\ source[m] \in {"held", "settled"}
    /\ target[m] = "pending"
    /\ target' = [target EXCEPT ![m] = "credited"]
    /\ UNCHANGED source

\* The target decides that it will never pay; the value must still be there
\* to be given back.
Refuse(m) ==
    /\ source[m] = "held"
    /\ target[m] = "pending"
    /\ target' = [target EXCEPT ![m] = "refused"]
    /\ UNCHANGED source

\* The source gives the value away for good.
Settle(m) ==
    /\ source[m] = "held"
    /\ target[m] # "refused"
    /\ source' = [source EXCEPT ![m] = "settled"]
    /\ UNCHANGED target

\* The source gives the value back, once the target has refused.
Refund(m) ==
    /\ source[m] = "held"
    /\ target[m] = "refused"
    /\ source' = [source EXCEPT ![m] = "refunded"]
    /\ UNCHANGED target

Next ==
    \E m \in Message :
        Hold(m) \/ Credit(m) \/ Refuse(m) \/ Settle(m) \/ Refund(m)

Spec == Init /\ [][Next]_vars
=============================================================================
