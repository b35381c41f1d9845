--------------------------- MODULE BlueDeployment ---------------------------
(***************************************************************************)
(* The deployment script of both chains (tools/blue_deployment): it asks   *)
(* for each token and deploys the new ones, reads the latest block of each *)
(* chain, and deploys the origin and then the auxiliary contracts.  How a  *)
(* batch of contracts is planned and sent is in Deployment; of a batch,    *)
(* only the anchor and the gateway, which comes after it, are seen here.   *)
(***************************************************************************)
EXTENDS Naturals, FiniteSets

CONSTANTS ExistingTokens,  \* tokens on origin that can be chosen
          MaxHeight,       \* bound on the blocks of each chain
          MaxRuns          \* bound on how often the script is run

Side == {"origin", "auxiliary"}
Remote(s) == IF s = "origin" THEN "auxiliary" ELSE "origin"

VARIABLES step,     \* what main awaits next, or "done" or "failed"
          run,      \* number of this run
          tokens,   \* [name -> address] of the tokens chosen or deployed
          info,     \* [Side -> height], what getChainInfo returned
          height,   \* [Side -> Nat], the latest block
          anchors,  \* [at, run, height]: deployed Anchors
          gateways, \* [run, token, height], height that of its block
          coGateways \* [run, token, gateway]

deployed == <<anchors, gateways, coGateways>>
scriptVars == <<step, run, tokens, info, height, deployed>>

ScriptInit ==
    /\ step = "token"
    /\ run = 1
    /\ tokens = [name \in {"token", "baseToken"} |-> "none"]
    /\ info = [s \in Side |-> 0]
    /\ height = [s \in Side |-> 0]
    /\ anchors = {}
    /\ gateways = {}
    /\ coGateways = {}

\* External: a block, with or without transactions.
MineBlock(s) ==
    /\ height[s] < MaxHeight
    /\ height' = [height EXCEPT ![s] = @ + 1]
    /\ UNCHANGED <<step, run, tokens, info, deployed>>

Proceeds(from, to) == step = from /\ step' = to /\ UNCHANGED run

\* A transaction of the script is mined in a block of its own.
MinedOn(s) ==
    /\ height[s] < MaxHeight
    /\ height' = [height EXCEPT ![s] = @ + 1]

\* The prompt for a token, "existing contract" and its address or "deploy new
\* token", and deployedToken on the answer: an existing address is taken as it
\* is, code or not; checkAddressForCode only warns.
DeployedToken(name, next) ==
    /\ Proceeds(name, next)
    /\ \/ /\ \E address \in ExistingTokens : tokens' = [tokens EXCEPT ![name] = address]
          /\ UNCHANGED height
       \/ /\ tokens' = [tokens EXCEPT ![name] = <<run, name>>]
          /\ MinedOn("origin")
    /\ UNCHANGED <<info, deployed>>

\* getChainInfo: the latest block of a chain.
GetChainInfo(s, name, next) ==
    /\ Proceeds(name, next)
    /\ info' = [info EXCEPT ![s] = height[s]]
    /\ UNCHANGED <<tokens, height, deployed>>

\* createAnchor: the block of the other chain that the anchor starts from.
CreateAnchor(s) == [at |-> s, run |-> run, height |-> info[Remote(s)]]

DeployAnchor(s, name, next) ==
    /\ Proceeds(name, next)
    /\ MinedOn(s)
    /\ anchors' = anchors \cup {CreateAnchor(s)}
    /\ UNCHANGED <<tokens, info, gateways, coGateways>>

\* The rest of deployOrigin.
DeployGateway ==
    /\ Proceeds("gateway", "auxiliaryAnchor")
    /\ MinedOn("origin")
    /\ gateways' = gateways \cup
           {[run |-> run, token |-> tokens["token"], height |-> height'["origin"]]}
    /\ UNCHANGED <<tokens, info, anchors, coGateways>>

\* Mutant: the co-gateway is deployed for the gateway of the first run.
RunOfGateway == IF \E g \in gateways : g.run = 1 THEN 1 ELSE run

\* originAddresses.EIP20Gateway, the gateway that this run has deployed.
GatewayRun == run

\* The rest of deployAuxiliary.
DeployCoGateway ==
    /\ Proceeds("coGateway", "done")
    /\ MinedOn("auxiliary")
    /\ coGateways' = coGateways \cup
           {[run |-> run, token |-> tokens["token"], gateway |-> GatewayRun]}
    /\ UNCHANGED <<tokens, info, anchors, gateways>>

\* A request to a node or a transaction fails: main rejects where it is.
ScriptFails ==
    /\ step \notin {"done", "failed"}
    /\ step' = "failed"
    /\ UNCHANGED <<run, tokens, info, height, deployed>>

\* The script is run again, after whatever the run before has left.
RunScriptAgain ==
    /\ step \in {"done", "failed"}
    /\ run < MaxRuns
    /\ run' = run + 1
    /\ step' = "token"
    /\ UNCHANGED <<tokens, info, height, deployed>>

ScriptNext ==
    \/ \E s \in Side : MineBlock(s)
    \/ DeployedToken("token", "baseToken")
    \/ DeployedToken("baseToken", "originInfo")
    \/ GetChainInfo("origin", "originInfo", "auxiliaryInfo")
    \/ GetChainInfo("auxiliary", "auxiliaryInfo", "originAnchor")
    \/ DeployAnchor("origin", "originAnchor", "gateway")
    \/ DeployGateway
    \/ DeployAnchor("auxiliary", "auxiliaryAnchor", "coGateway")
    \/ DeployCoGateway
    \/ ScriptFails
    \/ RunScriptAgain

ScriptSpec == ScriptInit /\ [][ScriptNext]_scriptVars

-----------------------------------------------------------------------------
\* Every co-gateway has its own gateway on origin, for the same value token,
\* and no gateway has two co-gateways, however often the script broke off and
\* was run again: a co-gateway never mints what was staked for another one.
Paired ==
    /\ \A c \in coGateways :
         \E g \in gateways : g.run = c.gateway /\ g.token = c.token
    /\ \A c, d \in coGateways : c.gateway = d.gateway => c = d
=============================================================================
