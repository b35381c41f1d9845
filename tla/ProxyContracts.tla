--------------------------- MODULE ProxyContracts ---------------------------
(***************************************************************************)
(* The two contracts that send requests through proxies: the composer of   *)
(* the origin chain and the redeem pool of the auxiliary chain.  They do   *)
(* not meet; a behaviour is one of either.                                 *)
(***************************************************************************)
EXTENDS OSTComposer, RedeemPool

VARIABLE contract  \* the one this behaviour is about

vars == <<composerVars, contract>>

Init == ComposerInit /\ contract \in {"composer", "pool"}

Next ==
    /\ \/ contract = "composer" /\ ComposerNext
       \/ contract = "pool" /\ PoolNext /\ UNCHANGED ofComposer
    /\ UNCHANGED contract

Spec == Init /\ [][Next]_vars

\* The two mappings of the composer agree; the redeem pool has only one.
ComposerMappingsAgree == contract = "composer" => MappingsAgree
=============================================================================
