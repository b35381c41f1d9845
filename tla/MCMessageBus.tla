---------------------------- MODULE MCMessageBus ----------------------------
(***************************************************************************)
(* MessageBus with a stake message of the origin chain and, where a        *)
(* configuration asks for it, a redeem message of the auxiliary chain.     *)
(***************************************************************************)
EXTENDS MessageBus

CONSTANTS stakeMessage, redeemMessage

MCSource ==
    [m \in Message |-> IF m = stakeMessage THEN "origin" ELSE "auxiliary"]

\* The second secret is one that opens no message.
MCSecret == {"secret", "guess"}
MCHashLock == [m \in Message |-> "secret"]
=============================================================================
