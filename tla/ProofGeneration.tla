--------------------------- MODULE ProofGeneration ---------------------------
(***************************************************************************)
(* proof_generation: generator.js records, call by call, the proofs that   *)
(* the unit tests of the gateways replay, with ProofGenerationUtils.  A    *)
(* behaviour is one of its tests: beforeEach gives each of them contracts, *)
(* parameters and records of its own.  A call that reverts ends the test.  *)
(*                                                                         *)
(* First, proof_generation/helper: the Gateway and CoGateway classes call  *)
(* the two gateways that deployer.js puts on one chain.  A call funds and  *)
(* approves what it needs, sets the storage root of the proof it is given, *)
(* runs dry for the returned value and is then sent.  The deployer owns    *)
(* every token and is the staker, redeemer and facilitator, so only the    *)
(* message boxes can make a call revert.                                   *)
(***************************************************************************)
EXTENDS Naturals, FiniteSets, Sequences

CONSTANT Rounds     \* numberOfProofs, and the hash locks there are

ASSUME RoundsAssumption == Rounds \in Nat \ {0}

VARIABLE box        \* box[c][m]: the entry of message m in contract c

Contract == {"gateway", "coGateway"}

\* accounts[0] sends every message.
Message == [nonce : 0..(Rounds - 1), hashLock : 1..Rounds]

Closed == {"Progressed", "Revoked"}

\* The gateways that deployer.js leaves: activated, with nothing in them.
Deployed == [c \in Contract |-> [m \in Message |-> "Undeclared"]]

\* What eth_getProof answers for the latest block, once the call is in it.
LatestProof(c) == box'[c]

-----------------------------------------------------------------------------
Known(c) == {m \in Message : box[c][m] # "Undeclared"}

Register(c, m) ==
    /\ m \in Message \ Known(c)
    /\ m.nonce = Cardinality(Known(c))
    /\ \A x \in Known(c) : box[c][x] \in Closed
    /\ box' = [box EXCEPT ![c][m] = "Declared"]

Becomes(c, m, from, to) ==
    /\ box[c][m] = from
    /\ box' = [box EXCEPT ![c][m] = to]

Stake(m) == Register("gateway", m)

ProgressStake(m, unlockSecret) ==
    /\ m.hashLock = unlockSecret
    /\ Becomes("gateway", m, "Declared", "Progressed")

RevertStake(m) == Becomes("gateway", m, "Declared", "DeclaredRevocation")

ProgressRevertStake(m, proof) ==
    /\ proof[m] = "Revoked"
    /\ Becomes("gateway", m, "DeclaredRevocation", "Revoked")

ConfirmRedeemIntent(m, proof) ==
    /\ proof[m] = "Declared"
    /\ Register("gateway", m)

\* The deployer first puts into the vault what the unstake takes out of it.
ProgressUnstake(m, unlockSecret) ==
    /\ m.hashLock = unlockSecret
    /\ Becomes("gateway", m, "Declared", "Progressed")

ConfirmRevertRedeemIntent(m, proof) ==
    /\ proof[m] = "DeclaredRevocation"
    /\ Becomes("gateway", m, "Declared", "Revoked")

Redeem(m) == Register("coGateway", m)

ProgressRedeem(m, unlockSecret) ==
    /\ m.hashLock = unlockSecret
    /\ Becomes("coGateway", m, "Declared", "Progressed")

RevertRedeem(m) == Becomes("coGateway", m, "Declared", "DeclaredRevocation")

ProgressRevertRedeem(m, proof) ==
    /\ proof[m] = "Revoked"
    /\ Becomes("coGateway", m, "DeclaredRevocation", "Revoked")

ConfirmStakeIntent(m, proof) ==
    /\ proof[m] = "Declared"
    /\ Register("coGateway", m)

ProgressMint(m, unlockSecret) ==
    /\ m.hashLock = unlockSecret
    /\ Becomes("coGateway", m, "Declared", "Progressed")

ConfirmRevertStakeIntent(m, proof) ==
    /\ proof[m] = "DeclaredRevocation"
    /\ Becomes("coGateway", m, "Declared", "Revoked")

-----------------------------------------------------------------------------
VARIABLES
    test,       \* the test that runs
    round,      \* the proofs it has finished
    step,       \* the position in its flow; 0 before resetProofData
    params,     \* stakeParams or redeemParams: one object for all rounds
    proofData,  \* what the steps of this round recorded
    pending,    \* files handed to fs.writeFile
    disk        \* files in test/data

vars == <<box, test, round, step, params, proofData, pending, disk>>

Tests == {"stake_progressed", "stake_revoked", "redeem_progressed",
          "redeem_revoked", "redeem_progressed_reward_based_on_gas_consumption"}

\* The calls of a test, by the names under which their proofs are recorded.
Flow(t) ==
    CASE t = "stake_progressed" ->
            <<"stake", "confirm_stake_intent", "progress_stake",
              "progress_mint">>
      [] t = "stake_revoked" ->
            <<"stake", "confirm_stake_intent", "revert_stake",
              "confirm_revert_stake_intent", "progress_revert_stake_intent">>
      [] t = "redeem_revoked" ->
            <<"redeem", "confirm_redeem_intent", "revert_redeem",
              "confirm_revert_redeem_intent", "progress_revert_redeem">>
      [] OTHER ->
            <<"redeem", "confirm_redeem_intent", "progress_redeem",
              "progress_unstake">>

ByGas == "redeem_progressed_reward_based_on_gas_consumption"

NumberOfProofs(t) == IF t = ByGas THEN 1 ELSE Rounds

Init ==
    /\ box = Deployed
    /\ test \in Tests
    /\ round = 0
    /\ step = 0
    /\ params = [nonce |-> 0, hashLock |-> 0]
    /\ proofData = <<>>
    /\ pending = {}
    /\ disk = {}

-----------------------------------------------------------------------------
\* resetProofData and initializeProofData.
StartRound ==
    /\ step = 0
    /\ round < NumberOfProofs(test)
    /\ proofData' = <<>>
    /\ step' = 1
    /\ UNCHANGED <<box, test, round, params, pending, disk>>

Calls(s) ==
    /\ step \in 1..Len(Flow(test))
    /\ Flow(test)[step] = s
    /\ step' = step + 1
    /\ UNCHANGED <<test, round, pending, disk>>

Recording(s, record) ==
    proofData' = [t \in DOMAIN proofData \cup {s} |->
                     IF t = s THEN record ELSE proofData[t]]

\* Mutant: the proof is fetched before the call is mined.
RecordsEarly(s, c, m) == Recording(s, [message |-> m, proof |-> box[c]])

\* params, return_value and proof_data of the step, as its caller gets them.
Records(s, c, m) == Recording(s, [message |-> m, proof |-> LatestProof(c)])

MessageOf(s) == proofData[s].message
ProofOf(s) == proofData[s].proof

\* A hash lock and its secret are written into the parameter object.
GenerateHashLock == params' = [params EXCEPT !.hashLock = round + 1]

PopulateStake ==
    /\ Calls("stake")
    /\ GenerateHashLock
    /\ Stake(params')
    /\ Records("stake", "gateway", params')

PopulateConfirmStakeIntent ==
    /\ Calls("confirm_stake_intent")
    /\ ConfirmStakeIntent(params, ProofOf("stake"))
    /\ Records("confirm_stake_intent", "coGateway", params)
    /\ UNCHANGED params

PopulateProgressStake ==
    /\ Calls("progress_stake")
    /\ ProgressStake(MessageOf("stake"), params.hashLock)
    /\ Records("progress_stake", "gateway", MessageOf("confirm_stake_intent"))
    /\ UNCHANGED params

PopulateProgressMint ==
    /\ Calls("progress_mint")
    /\ ProgressMint(MessageOf("progress_stake"), params.hashLock)
    /\ Records("progress_mint", "coGateway", MessageOf("confirm_stake_intent"))
    /\ UNCHANGED params

PopulateRevertStake ==
    /\ Calls("revert_stake")
    /\ RevertStake(MessageOf("confirm_stake_intent"))
    /\ Records("revert_stake", "gateway", MessageOf("stake"))
    /\ UNCHANGED params

PopulateConfirmRevertStake ==
    /\ Calls("confirm_revert_stake_intent")
    /\ ConfirmRevertStakeIntent(MessageOf("revert_stake"),
                                ProofOf("revert_stake"))
    /\ Records("confirm_revert_stake_intent", "coGateway",
               MessageOf("revert_stake"))
    /\ UNCHANGED params

PopulateProgressRevertStake ==
    /\ Calls("progress_revert_stake_intent")
    /\ ProgressRevertStake(MessageOf("revert_stake"),
                           ProofOf("confirm_revert_stake_intent"))
    /\ Records("progress_revert_stake_intent", "gateway",
               MessageOf("revert_stake"))
    /\ UNCHANGED params

PopulateRedeem ==
    /\ Calls("redeem")
    /\ GenerateHashLock
    /\ Redeem(params')
    /\ Records("redeem", "coGateway", params')

PopulateConfirmRedeemIntent ==
    /\ Calls("confirm_redeem_intent")
    /\ ConfirmRedeemIntent(params, ProofOf("redeem"))
    /\ Records("confirm_redeem_intent", "gateway", params)
    /\ UNCHANGED params

PopulateProgressRedeem ==
    /\ Calls("progress_redeem")
    /\ ProgressRedeem(MessageOf("confirm_redeem_intent"), params.hashLock)
    /\ Records("progress_redeem", "coGateway",
               MessageOf("confirm_redeem_intent"))
    /\ UNCHANGED params

PopulateProgressUnstake ==
    /\ Calls("progress_unstake")
    /\ ProgressUnstake(MessageOf("progress_redeem"), params.hashLock)
    /\ Records("progress_unstake", "gateway", MessageOf("progress_redeem"))
    /\ UNCHANGED params

PopulateRevertRedeem ==
    /\ Calls("revert_redeem")
    /\ RevertRedeem(MessageOf("redeem"))
    /\ Records("revert_redeem", "coGateway", MessageOf("redeem"))
    /\ UNCHANGED params

PopulateConfirmRevertRedeem ==
    /\ Calls("confirm_revert_redeem_intent")
    /\ ConfirmRevertRedeemIntent(MessageOf("revert_redeem"),
                                 ProofOf("revert_redeem"))
    /\ Records("confirm_revert_redeem_intent", "gateway",
               MessageOf("revert_redeem"))
    /\ UNCHANGED params

PopulateProgressRevertRedeem ==
    /\ Calls("progress_revert_redeem")
    /\ ProgressRevertRedeem(MessageOf("revert_redeem"),
                            ProofOf("confirm_revert_redeem_intent"))
    /\ Records("progress_revert_redeem", "coGateway",
               MessageOf("revert_redeem"))
    /\ UNCHANGED params

\* JSON.stringify: stake.params and redeem.params are the object that every
\* round changes, all other parameters are copies.
Content(p) ==
    [s \in DOMAIN proofData |->
        IF s \in {"stake", "redeem"} THEN [proofData[s] EXCEPT !.message = p]
        ELSE proofData[s]]

\* Mutant: the nonce is incremented before the file is written.
FinishRoundIncrementing ==
    /\ step = Len(Flow(test)) + 1
    /\ params' = [params EXCEPT !.nonce = @ + 1]
    /\ pending' = pending \cup {[nonce |-> params'.nonce,
                                 content |-> Content(params')]}
    /\ round' = round + 1
    /\ step' = 0
    /\ UNCHANGED <<box, test, proofData, disk>>

\* writeToFile with the content of now, then the next nonce.  Nobody waits for
\* the file.
FinishRound ==
    /\ step = Len(Flow(test)) + 1
    /\ pending' = pending \cup {[nonce |-> params.nonce,
                                 content |-> Content(params)]}
    /\ params' = [params EXCEPT !.nonce = @ + 1]
    /\ round' = round + 1
    /\ step' = 0
    /\ UNCHANGED <<box, test, proofData, disk>>

\* The thread pool has written a file; the writes end in any order.
Written ==
    \E f \in pending :
        /\ pending' = pending \ {f}
        /\ disk' = disk \cup {f}
        /\ UNCHANGED <<box, test, round, step, params, proofData>>

Populate ==
    \/ PopulateStake \/ PopulateConfirmStakeIntent \/ PopulateProgressStake
    \/ PopulateProgressMint \/ PopulateRevertStake
    \/ PopulateConfirmRevertStake \/ PopulateProgressRevertStake
    \/ PopulateRedeem \/ PopulateConfirmRedeemIntent \/ PopulateProgressRedeem
    \/ PopulateProgressUnstake \/ PopulateRevertRedeem
    \/ PopulateConfirmRevertRedeem \/ PopulateProgressRevertRedeem

Next == StartRound \/ Populate \/ FinishRound \/ Written

Spec == Init /\ [][Next]_vars

\* The test function runs on, and the process lives until its writes are done.
LiveSpec ==
    Spec /\ WF_vars(StartRound \/ Populate \/ FinishRound) /\ WF_vars(Written)

-----------------------------------------------------------------------------
\* The status of the message in the contract that a call was made to.
Leaves(s) ==
    CASE s \in {"stake", "redeem", "confirm_stake_intent",
               "confirm_redeem_intent"} -> "Declared"
      [] s \in {"revert_stake", "revert_redeem"} -> "DeclaredRevocation"
      [] s \in {"confirm_revert_stake_intent", "confirm_revert_redeem_intent",
               "progress_revert_stake_intent", "progress_revert_redeem"} ->
            "Revoked"
      [] OTHER -> "Progressed"

(***************************************************************************)
(* A file can be replayed: all of its calls are about one message, the one *)
(* with the nonce in the file's name, and the proof recorded with a call   *)
(* shows that message in the status that the call left, although the       *)
(* parameter object is shared between rounds and the write is not awaited. *)
(***************************************************************************)
FilesReplay ==
    \A f \in disk : \A s, t \in DOMAIN f.content :
        /\ f.content[s].message = f.content[t].message
        /\ f.content[s].message.nonce = f.nonce
        /\ f.content[s].proof[f.content[t].message] = Leaves(s)

(***************************************************************************)
(* Every test gets all of its files written: no call of any round reverts  *)
(* on what the rounds before it left behind.                               *)
(***************************************************************************)
GeneratorFinishes ==
    (test \in Tests) ~> ({f.nonce : f \in disk} = 0..(NumberOfProofs(test) - 1))
=============================================================================
