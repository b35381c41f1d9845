---------------------------- MODULE MCDeployment ----------------------------
(***************************************************************************)
(* The deployment tool: a registry that is used in any way, a run of       *)
(* deployContracts on one chain, or the script for both chains.  Of three  *)
(* contracts the top one refers to the middle one, which needs the bottom  *)
(* one to be linked; a run is given them in the wrong order.               *)
(***************************************************************************)
EXTENDS Deployment, BlueDeployment

CONSTANTS top, middle, bottom, existing

VARIABLE used  \* the part that this behaviour is about

MCRefs == [c \in Contract |-> IF c = top THEN {middle} ELSE {}]
MCPlaceholders == [c \in Contract |-> IF c = middle THEN {bottom} ELSE {}]
MCAdded == <<top, middle, bottom>>

\* Parts that are not used stay as they are before.
RunIdle ==
    /\ phase = "idle" /\ startingNonce = 0 /\ index = 1 /\ addresses = {}
    /\ count = 0 /\ code = [a \in 0 .. MaxNonce |-> NoCode]

MCInit ==
    /\ \/ used = "registry" /\ RegistryInit /\ RunIdle
       \/ used \in {"run", "script"} /\ DeployInit
    /\ ScriptInit

MCNext ==
    /\ \/ /\ used = "registry"
          /\ RegistryNext
          /\ UNCHANGED <<runVars, chainVars, scriptVars>>
       \/ used = "run" /\ DeployNext /\ UNCHANGED scriptVars
       \/ used = "script" /\ ScriptNext /\ UNCHANGED deployVars
    /\ UNCHANGED used

MCSpec ==
    /\ MCInit /\ [][MCNext]_<<deployVars, scriptVars, used>>
    /\ WF_<<deployVars, scriptVars>>(used = "run" /\ RunStep /\ UNCHANGED scriptVars)
=============================================================================
