--------------------------- MODULE GeneratorProofs ---------------------------
(***************************************************************************)
(* Theorems about the two tools that make up proofs, for any number of     *)
(* rounds of the recorder and, of the fuzzy generator, any number of keys  *)
(* of a branch, any pattern and any length of a path.                      *)
(***************************************************************************)
EXTENDS ProofGeneration, FuzzyProofGenerator, SumTheorems, SequenceTheorems

(***************************************************************************)
(* The recorder.  While a round runs, all that it has recorded is about    *)
(* the message in the shared parameter object.                             *)
(***************************************************************************)
Status == {"Undeclared", "Declared", "Progressed", "DeclaredRevocation",
           "Revoked"}

RecorderTypeOK ==
    /\ box \in [Contract -> [Message -> Status]]
    /\ test \in Tests
    /\ round \in Nat
    /\ step \in Nat
    /\ params \in [nonce : {round}, hashLock : Nat]

Called == {Flow(test)[k] : k \in 1..(step - 1)}

RoundIsOfOneMessage ==
    /\ step > 0 => DOMAIN proofData = Called
    /\ step > 1 =>
          /\ params = [nonce |-> round, hashLock |-> round + 1]
          /\ params \in Message
          /\ \A s \in DOMAIN proofData :
                /\ proofData[s] \in [message : {params}, proof : [Message -> Status]]
                /\ proofData[s].proof[params] = Leaves(s)

Replays(f) ==
    \A s, t \in DOMAIN f.content :
        /\ f.content[s].message = f.content[t].message
        /\ f.content[s].message.nonce = f.nonce
        /\ f.content[s].proof[f.content[t].message] = Leaves(s)

RecorderInv ==
    /\ RecorderTypeOK
    /\ RoundIsOfOneMessage
    /\ \A f \in pending \cup disk : Replays(f)

LEMMA RecorderInit == Init => RecorderInv
<1> SUFFICES ASSUME Init PROVE RecorderInv
  OBVIOUS
<1>1. box \in [Contract -> [Message -> Status]]
  BY DEF Init, Deployed, Status
<1>2. RecorderTypeOK
  BY <1>1 DEF Init, RecorderTypeOK
<1> QED
  BY <1>2 DEF Init, RecorderInv, RoundIsOfOneMessage

LEMMA StartRoundKeeps ==
    ASSUME RecorderInv, StartRound
    PROVE  RecorderInv'
<1>1. RecorderTypeOK'
  BY DEF RecorderInv, RecorderTypeOK, StartRound
<1>2. Called' = {} /\ DOMAIN proofData' = {}
  BY DEF Called, StartRound
<1>3. RoundIsOfOneMessage'
  BY <1>2 DEF RoundIsOfOneMessage, StartRound
<1> QED
  BY <1>1, <1>3 DEF RecorderInv, StartRound

\* The name of a call is added to those of the calls before it.
LEMMA CallIsAdded ==
    ASSUME RecorderTypeOK, NEW s, Calls(s)
    PROVE  /\ step \in Nat \ {0} /\ step' = step + 1 /\ test' = test
           /\ round' = round /\ pending' = pending /\ disk' = disk
           /\ Called' = Called \cup {s}
<1>1. /\ step \in Nat \ {0} /\ step' = step + 1 /\ test' = test
      /\ round' = round /\ pending' = pending /\ disk' = disk
      /\ Flow(test)[step] = s
  BY DEF Calls, RecorderTypeOK
<1>2. Called' = {Flow(test)[k] : k \in 1..step}
  BY <1>1 DEF Called
<1>3. 1..step = 1..(step - 1) \cup {step}
  BY <1>1
<1>4. Called' = Called \cup {s}
  BY <1>1, <1>2, <1>3 DEF Called
<1> QED
  BY <1>1, <1>4

\* What every call does, once its message is known to be the round's.
LEMMA CallKeeps ==
    ASSUME RecorderInv, NEW s, Calls(s), NEW c \in Contract,
           params' = [nonce |-> round, hashLock |-> round + 1],
           step > 1 => params' = params,
           params' \in Message,
           Leaves(s) \in Status,
           box' = [box EXCEPT ![c][params'] = Leaves(s)],
           Records(s, c, params')
    PROVE  RecorderInv'
<1> DEFINE m == params'
<1>1. /\ step \in Nat \ {0} /\ step' = step + 1 /\ test' = test
      /\ round' = round /\ pending' = pending /\ disk' = disk
      /\ Called' = Called \cup {s}
  BY CallIsAdded DEF RecorderInv
<1>2. /\ box' \in [Contract -> [Message -> Status]]
      /\ box'[c] \in [Message -> Status] /\ box'[c][m] = Leaves(s)
  BY DEF RecorderInv, RecorderTypeOK
<1>3. RecorderTypeOK'
  BY <1>1, <1>2 DEF RecorderInv, RecorderTypeOK
<1>4. DOMAIN proofData = Called
  BY <1>1 DEF RecorderInv, RoundIsOfOneMessage
<1>5. proofData' = [t \in Called' |->
                       IF t = s THEN [message |-> m, proof |-> box'[c]]
                       ELSE proofData[t]]
  BY <1>1, <1>4 DEF Records, Recording, LatestProof
<1>6. ASSUME NEW t \in DOMAIN proofData'
      PROVE  /\ proofData'[t] \in [message : {m}, proof : [Message -> Status]]
             /\ proofData'[t].proof[m] = Leaves(t)
  <2>1. CASE t = s
    <3>1. proofData'[t] = [message |-> m, proof |-> box'[c]]
      BY <1>5, <2>1
    <3> QED
      BY <1>2, <2>1, <3>1
  <2>2. CASE t # s
    <3>1. t \in Called /\ proofData'[t] = proofData[t]
      BY <1>1, <1>5, <2>2
    <3>2. step > 1
      BY <1>1, <3>1 DEF Called
    <3> QED
      BY <1>4, <3>1, <3>2 DEF RecorderInv, RoundIsOfOneMessage
  <2> QED
    BY <2>1, <2>2
<1>7. RoundIsOfOneMessage'
  <2>1. DOMAIN proofData' = Called'
    BY <1>5
  <2> QED
    BY <1>1, <1>6, <2>1 DEF RoundIsOfOneMessage
<1> QED
  BY <1>1, <1>3, <1>7 DEF RecorderInv
\* Which calls a test has made when it comes to another.
LEMMA EarlierCalls ==
    ASSUME test \in Tests, NEW s, Calls(s)
    PROVE  /\ step = 1 <=> s \in {"stake", "redeem"}
           /\ step \in Nat \ {0}
           /\ s \in {"progress_stake", "revert_stake"} =>
                 {"stake", "confirm_stake_intent"} \subseteq Called
           /\ s = "progress_mint" =>
                 {"confirm_stake_intent", "progress_stake"} \subseteq Called
           /\ s \in {"confirm_revert_stake_intent",
                      "progress_revert_stake_intent"} =>
                 "revert_stake" \in Called
           /\ s \in {"progress_redeem", "revert_redeem"} =>
                 {"redeem", "confirm_redeem_intent"} \subseteq Called
           /\ s = "progress_unstake" => "progress_redeem" \in Called
           /\ s \in {"confirm_revert_redeem_intent", "progress_revert_redeem"} =>
                 "revert_redeem" \in Called
<1>1. \A k \in 1..(step - 1) : Flow(test)[k] \in Called
  BY DEF Called
<1>2. CASE test = "stake_progressed"
  <2>1. Flow(test) = <<"stake", "confirm_stake_intent", "progress_stake",
                       "progress_mint">>
    BY <1>2 DEF Flow
  <2> QED
    BY <1>1, <2>1 DEF Calls
<1>3. CASE test = "stake_revoked"
  <2>1. Flow(test) = <<"stake", "confirm_stake_intent", "revert_stake",
                       "confirm_revert_stake_intent",
                       "progress_revert_stake_intent">>
    BY <1>3 DEF Flow
  <2> QED
    BY <1>1, <2>1 DEF Calls
<1>4. CASE test = "redeem_revoked"
  <2>1. Flow(test) = <<"redeem", "confirm_redeem_intent", "revert_redeem",
                       "confirm_revert_redeem_intent",
                       "progress_revert_redeem">>
    BY <1>4 DEF Flow
  <2> QED
    BY <1>1, <2>1 DEF Calls
<1>5. CASE test \in {"redeem_progressed", ByGas}
  <2>1. Flow(test) = <<"redeem", "confirm_redeem_intent", "progress_redeem",
                       "progress_unstake">>
    BY <1>5 DEF Flow, ByGas
  <2> QED
    BY <1>1, <2>1 DEF Calls
<1> QED
  BY <1>2, <1>3, <1>4, <1>5 DEF Tests, ByGas

\* The first call of a round is about a new message.
LEMMA FirstCallKeeps ==
    ASSUME RecorderInv, NEW s \in {"stake", "redeem"}, Calls(s),
           NEW c \in Contract, GenerateHashLock, Register(c, params'),
           Records(s, c, params')
    PROVE  RecorderInv'
<1>1. step = 1
  BY EarlierCalls DEF RecorderInv, RecorderTypeOK
<1>2. params' = [nonce |-> round, hashLock |-> round + 1]
  BY DEF RecorderInv, RecorderTypeOK, GenerateHashLock
<1>3. /\ params' \in Message /\ Leaves(s) \in Status
      /\ box' = [box EXCEPT ![c][params'] = Leaves(s)]
  BY DEF Register, Leaves, Status
<1>4. ~(step > 1)
  BY <1>1
<1> QED
  BY <1>2, <1>3, <1>4, CallKeeps

\* The message of an earlier call is the one in the parameter object.
LEMMA MessagesAreShared ==
    ASSUME RecorderInv, NEW s, Calls(s), s \notin {"stake", "redeem"}
    PROVE  /\ step > 1
           /\ params = [nonce |-> round, hashLock |-> round + 1]
           /\ params \in Message
           /\ \A t \in Called : MessageOf(t) = params
<1>0. step > 0
  BY EarlierCalls DEF RecorderInv, RecorderTypeOK
<1>1. step > 1
  BY EarlierCalls DEF RecorderInv, RecorderTypeOK
<1>2. ASSUME NEW t \in Called PROVE MessageOf(t) = params
  <2>1. proofData[t] \in [message : {params}, proof : [Message -> Status]]
    BY <1>1, <1>0 DEF RecorderInv, RoundIsOfOneMessage
  <2> QED
    BY <2>1 DEF MessageOf
<1> QED
  BY <1>1, <1>2 DEF RecorderInv, RoundIsOfOneMessage

\* And a later call is about the same.
LEMMA LaterCallKeeps ==
    ASSUME RecorderInv, NEW s, Calls(s), s \notin {"stake", "redeem"},
           NEW c \in Contract, UNCHANGED params,
           Leaves(s) \in Status,
           box' = [box EXCEPT ![c][params] = Leaves(s)],
           Records(s, c, params)
    PROVE  RecorderInv'
<1>1. /\ step > 1
      /\ params = [nonce |-> round, hashLock |-> round + 1]
      /\ params \in Message
  BY MessagesAreShared
<1>2. params' = params
  OBVIOUS
<1> QED
  BY <1>1, <1>2, CallKeeps

LEMMA PopulateKeeps ==
    ASSUME RecorderInv, Populate
    PROVE  RecorderInv'
<1> USE DEF Contract
<1>0. test \in Tests
  BY DEF RecorderInv, RecorderTypeOK
<1>1. CASE PopulateStake
  BY <1>1, FirstCallKeeps DEF PopulateStake, Stake
<1>2. CASE PopulateRedeem
  BY <1>2, FirstCallKeeps DEF PopulateRedeem, Redeem
<1>3. CASE PopulateConfirmStakeIntent
  <2>1. Calls("confirm_stake_intent") /\ UNCHANGED params
    BY <1>3 DEF PopulateConfirmStakeIntent
  <2>2. \A t \in Called : MessageOf(t) = params
    BY <2>1, MessagesAreShared
  <2>3. /\ Leaves("confirm_stake_intent") \in Status
        /\ box' = [box EXCEPT !["coGateway"][params] = Leaves("confirm_stake_intent")]
        /\ Records("confirm_stake_intent", "coGateway", params)
    BY <1>0, <1>3, <2>1, <2>2, EarlierCalls
       DEF PopulateConfirmStakeIntent, ConfirmStakeIntent, Register, Leaves, Status
  <2> QED
    BY <2>1, <2>3, LaterCallKeeps
<1>4. CASE PopulateProgressStake
  <2>1. Calls("progress_stake") /\ UNCHANGED params
    BY <1>4 DEF PopulateProgressStake
  <2>2. \A t \in Called : MessageOf(t) = params
    BY <2>1, MessagesAreShared
  <2>3. /\ Leaves("progress_stake") \in Status
        /\ box' = [box EXCEPT !["gateway"][params] = Leaves("progress_stake")]
        /\ Records("progress_stake", "gateway", params)
    BY <1>0, <1>4, <2>1, <2>2, EarlierCalls
       DEF PopulateProgressStake, ProgressStake, Becomes, Leaves, Status
  <2> QED
    BY <2>1, <2>3, LaterCallKeeps
<1>5. CASE PopulateProgressMint
  <2>1. Calls("progress_mint") /\ UNCHANGED params
    BY <1>5 DEF PopulateProgressMint
  <2>2. \A t \in Called : MessageOf(t) = params
    BY <2>1, MessagesAreShared
  <2>3. /\ Leaves("progress_mint") \in Status
        /\ box' = [box EXCEPT !["coGateway"][params] = Leaves("progress_mint")]
        /\ Records("progress_mint", "coGateway", params)
    BY <1>0, <1>5, <2>1, <2>2, EarlierCalls
       DEF PopulateProgressMint, ProgressMint, Becomes, Leaves, Status
  <2> QED
    BY <2>1, <2>3, LaterCallKeeps
<1>6. CASE PopulateRevertStake
  <2>1. Calls("revert_stake") /\ UNCHANGED params
    BY <1>6 DEF PopulateRevertStake
  <2>2. \A t \in Called : MessageOf(t) = params
    BY <2>1, MessagesAreShared
  <2>3. /\ Leaves("revert_stake") \in Status
        /\ box' = [box EXCEPT !["gateway"][params] = Leaves("revert_stake")]
        /\ Records("revert_stake", "gateway", params)
    BY <1>0, <1>6, <2>1, <2>2, EarlierCalls
       DEF PopulateRevertStake, RevertStake, Becomes, Leaves, Status
  <2> QED
    BY <2>1, <2>3, LaterCallKeeps
<1>7. CASE PopulateConfirmRevertStake
  <2>1. Calls("confirm_revert_stake_intent") /\ UNCHANGED params
    BY <1>7 DEF PopulateConfirmRevertStake
  <2>2. \A t \in Called : MessageOf(t) = params
    BY <2>1, MessagesAreShared
  <2>3. /\ Leaves("confirm_revert_stake_intent") \in Status
        /\ box' = [box EXCEPT !["coGateway"][params] = Leaves("confirm_revert_stake_intent")]
        /\ Records("confirm_revert_stake_intent", "coGateway", params)
    BY <1>0, <1>7, <2>1, <2>2, EarlierCalls
       DEF PopulateConfirmRevertStake, ConfirmRevertStakeIntent, Becomes, Leaves, Status
  <2> QED
    BY <2>1, <2>3, LaterCallKeeps
<1>8. CASE PopulateProgressRevertStake
  <2>1. Calls("progress_revert_stake_intent") /\ UNCHANGED params
    BY <1>8 DEF PopulateProgressRevertStake
  <2>2. \A t \in Called : MessageOf(t) = params
    BY <2>1, MessagesAreShared
  <2>3. /\ Leaves("progress_revert_stake_intent") \in Status
        /\ box' = [box EXCEPT !["gateway"][params] = Leaves("progress_revert_stake_intent")]
        /\ Records("progress_revert_stake_intent", "gateway", params)
    BY <1>0, <1>8, <2>1, <2>2, EarlierCalls
       DEF PopulateProgressRevertStake, ProgressRevertStake, Becomes, Leaves, Status
  <2> QED
    BY <2>1, <2>3, LaterCallKeeps
<1>9. CASE PopulateConfirmRedeemIntent
  <2>1. Calls("confirm_redeem_intent") /\ UNCHANGED params
    BY <1>9 DEF PopulateConfirmRedeemIntent
  <2>2. \A t \in Called : MessageOf(t) = params
    BY <2>1, MessagesAreShared
  <2>3. /\ Leaves("confirm_redeem_intent") \in Status
        /\ box' = [box EXCEPT !["gateway"][params] = Leaves("confirm_redeem_intent")]
        /\ Records("confirm_redeem_intent", "gateway", params)
    BY <1>0, <1>9, <2>1, <2>2, EarlierCalls
       DEF PopulateConfirmRedeemIntent, ConfirmRedeemIntent, Register, Leaves, Status
  <2> QED
    BY <2>1, <2>3, LaterCallKeeps
<1>10. CASE PopulateProgressRedeem
  <2>1. Calls("progress_redeem") /\ UNCHANGED params
    BY <1>10 DEF PopulateProgressRedeem
  <2>2. \A t \in Called : MessageOf(t) = params
    BY <2>1, MessagesAreShared
  <2>3. /\ Leaves("progress_redeem") \in Status
        /\ box' = [box EXCEPT !["coGateway"][params] = Leaves("progress_redeem")]
        /\ Records("progress_redeem", "coGateway", params)
    BY <1>0, <1>10, <2>1, <2>2, EarlierCalls
       DEF PopulateProgressRedeem, ProgressRedeem, Becomes, Leaves, Status
  <2> QED
    BY <2>1, <2>3, LaterCallKeeps
<1>11. CASE PopulateProgressUnstake
  <2>1. Calls("progress_unstake") /\ UNCHANGED params
    BY <1>11 DEF PopulateProgressUnstake
  <2>2. \A t \in Called : MessageOf(t) = params
    BY <2>1, MessagesAreShared
  <2>3. /\ Leaves("progress_unstake") \in Status
        /\ box' = [box EXCEPT !["gateway"][params] = Leaves("progress_unstake")]
        /\ Records("progress_unstake", "gateway", params)
    BY <1>0, <1>11, <2>1, <2>2, EarlierCalls
       DEF PopulateProgressUnstake, ProgressUnstake, Becomes, Leaves, Status
  <2> QED
    BY <2>1, <2>3, LaterCallKeeps
<1>12. CASE PopulateRevertRedeem
  <2>1. Calls("revert_redeem") /\ UNCHANGED params
    BY <1>12 DEF PopulateRevertRedeem
  <2>2. \A t \in Called : MessageOf(t) = params
    BY <2>1, MessagesAreShared
  <2>3. /\ Leaves("revert_redeem") \in Status
        /\ box' = [box EXCEPT !["coGateway"][params] = Leaves("revert_redeem")]
        /\ Records("revert_redeem", "coGateway", params)
    BY <1>0, <1>12, <2>1, <2>2, EarlierCalls
       DEF PopulateRevertRedeem, RevertRedeem, Becomes, Leaves, Status
  <2> QED
    BY <2>1, <2>3, LaterCallKeeps
<1>13. CASE PopulateConfirmRevertRedeem
  <2>1. Calls("confirm_revert_redeem_intent") /\ UNCHANGED params
    BY <1>13 DEF PopulateConfirmRevertRedeem
  <2>2. \A t \in Called : MessageOf(t) = params
    BY <2>1, MessagesAreShared
  <2>3. /\ Leaves("confirm_revert_redeem_intent") \in Status
        /\ box' = [box EXCEPT !["gateway"][params] = Leaves("confirm_revert_redeem_intent")]
        /\ Records("confirm_revert_redeem_intent", "gateway", params)
    BY <1>0, <1>13, <2>1, <2>2, EarlierCalls
       DEF PopulateConfirmRevertRedeem, ConfirmRevertRedeemIntent, Becomes, Leaves, Status
  <2> QED
    BY <2>1, <2>3, LaterCallKeeps
<1>14. CASE PopulateProgressRevertRedeem
  <2>1. Calls("progress_revert_redeem") /\ UNCHANGED params
    BY <1>14 DEF PopulateProgressRevertRedeem
  <2>2. \A t \in Called : MessageOf(t) = params
    BY <2>1, MessagesAreShared
  <2>3. /\ Leaves("progress_revert_redeem") \in Status
        /\ box' = [box EXCEPT !["coGateway"][params] = Leaves("progress_revert_redeem")]
        /\ Records("progress_revert_redeem", "coGateway", params)
    BY <1>0, <1>14, <2>1, <2>2, EarlierCalls
       DEF PopulateProgressRevertRedeem, ProgressRevertRedeem, Becomes, Leaves, Status
  <2> QED
    BY <2>1, <2>3, LaterCallKeeps
<1> QED
  BY <1>1, <1>2, <1>3, <1>4, <1>5, <1>6, <1>7, <1>8, <1>9, <1>10, <1>11, <1>12, <1>13, <1>14 DEF Populate

LEMMA FinishRoundKeeps ==
    ASSUME RecorderInv, FinishRound
    PROVE  RecorderInv'
<1> DEFINE file == [nonce |-> params.nonce, content |-> Content(params)]
<1>1. step > 1 /\ step' = 0 /\ test \in Tests
  <2>1. test \in Tests /\ step = Len(Flow(test)) + 1
    BY DEF FinishRound, RecorderInv, RecorderTypeOK
  <2>2. Len(Flow(test)) \in {4, 5}
    BY <2>1 DEF Flow, Tests
  <2> QED
    BY <2>1, <2>2 DEF FinishRound
<1>2. RecorderTypeOK'
  BY <1>1 DEF RecorderInv, RecorderTypeOK, FinishRound
<1>3. RoundIsOfOneMessage'
  BY <1>1 DEF RoundIsOfOneMessage
<1>4. ASSUME NEW s \in DOMAIN file.content
      PROVE  /\ file.content[s].message = params
             /\ file.content[s].proof[params] = Leaves(s)
  <2>1. s \in DOMAIN proofData
    BY DEF Content
  <2>2. /\ proofData[s] \in [message : {params}, proof : [Message -> Status]]
        /\ proofData[s].proof[params] = Leaves(s)
    BY <1>1, <2>1 DEF RecorderInv, RoundIsOfOneMessage
  <2>3. [proofData[s] EXCEPT !.message = params] = proofData[s]
    BY <2>2
  <2>4. file.content[s] = proofData[s]
    BY <2>1, <2>3 DEF Content
  <2> QED
    BY <2>2, <2>4
<1>5. Replays(file)
  BY <1>4 DEF Replays
<1>6. \A f \in (pending \cup disk)' : Replays(f)
  BY <1>5 DEF FinishRound, RecorderInv
<1> QED
  BY <1>2, <1>3, <1>6 DEF RecorderInv

LEMMA WrittenKeeps ==
    ASSUME RecorderInv, Written
    PROVE  RecorderInv'
<1>1. RecorderTypeOK' /\ RoundIsOfOneMessage'
  BY DEF RecorderInv, RecorderTypeOK, RoundIsOfOneMessage, Called, Written
<1> QED
  BY <1>1 DEF RecorderInv, Written

(***************************************************************************)
(* Every file that the recorder writes, or is about to write, replays, and *)
(* the round that runs is about one message: the parameter object that the *)
(* rounds share never mixes two of them (generator.js, populate* and       *)
(* writeToFile).                                                           *)
(***************************************************************************)
THEOREM RecorderInvariant == Spec => []RecorderInv
<1>1. RecorderInv /\ [Next]_vars => RecorderInv'
  <2> SUFFICES ASSUME RecorderInv, [Next]_vars PROVE RecorderInv'
    OBVIOUS
  <2>1. CASE UNCHANGED vars
    BY <2>1 DEF vars, RecorderInv, RecorderTypeOK, RoundIsOfOneMessage, Called
  <2> QED
    BY <2>1, StartRoundKeeps, PopulateKeeps, FinishRoundKeeps, WrittenKeeps
       DEF Next
<1> QED
  BY <1>1, RecorderInit, PTL DEF Spec

(***************************************************************************)
(* So the data that the unit tests replay is sound for any number of       *)
(* rounds and in whatever order the files are written.                     *)
(***************************************************************************)
THEOREM FilesAlwaysReplay == Spec => []FilesReplay
<1>1. RecorderInv => FilesReplay
  BY DEF RecorderInv, Replays, FilesReplay
<1> QED
  BY <1>1, RecorderInvariant, PTL
-----------------------------------------------------------------------------
(***************************************************************************)
(* The encodings of paths.                                                 *)
(***************************************************************************)
LEMMA NibblesOfBytes ==
    ASSUME NEW n \in Nat, NEW buffer \in Encoded(n)
    PROVE  /\ ToNibbles(buffer) \in Seq(Nibble)
           /\ Len(ToNibbles(buffer)) = 2 * n
           /\ \A k \in 1..n :
                 /\ ToNibbles(buffer)[2 * k - 1] = buffer[k][1]
                 /\ ToNibbles(buffer)[2 * k] = buffer[k][2]
<1>1. Len(buffer) = n
  BY DEF Encoded
<1>2. ToNibbles(buffer)
        = [j \in 1..(2 * n) |-> buffer[(j + 1) \div 2][2 - (j % 2)]]
  BY <1>1 DEF ToNibbles
<1>3. ASSUME NEW j \in 1..(2 * n)
      PROVE  buffer[(j + 1) \div 2][2 - (j % 2)] \in Nibble
  <2>1. (j + 1) \div 2 \in 1..n /\ 2 - (j % 2) \in {1, 2}
    OBVIOUS
  <2>2. buffer[(j + 1) \div 2] \in Nibble \X Nibble
    BY <2>1 DEF Encoded
  <2> QED
    BY <2>1, <2>2
<1>4. ToNibbles(buffer) \in [1..(2 * n) -> Nibble]
  BY <1>2, <1>3
<1>5. ASSUME NEW k \in 1..n
      PROVE  /\ ToNibbles(buffer)[2 * k - 1] = buffer[k][1]
             /\ ToNibbles(buffer)[2 * k] = buffer[k][2]
  <2>1. /\ 2 * k - 1 \in 1..(2 * n) /\ 2 * k \in 1..(2 * n)
        /\ (2 * k - 1 + 1) \div 2 = k /\ 2 - ((2 * k - 1) % 2) = 1
        /\ (2 * k + 1) \div 2 = k /\ 2 - ((2 * k) % 2) = 2
    OBVIOUS
  <2>2. ToNibbles(buffer)[2 * k - 1]
          = buffer[(2 * k - 1 + 1) \div 2][2 - ((2 * k - 1) % 2)]
    BY <1>2, <2>1
  <2>3. ToNibbles(buffer)[2 * k] = buffer[(2 * k + 1) \div 2][2 - ((2 * k) % 2)]
    BY <1>2, <2>1
  <2> QED
    BY <2>1, <2>2, <2>3
<1> QED
  BY <1>4, <1>5

\* Two paths with the same nibbles are the same.
LEMMA NibblesDecide ==
    ASSUME NEW m \in Nat, NEW n \in Nat,
           NEW a \in Encoded(m), NEW b \in Encoded(n),
           m = n, \A k \in 1..(2 * m) : ToNibbles(a)[k] = ToNibbles(b)[k]
    PROVE  a = b
<1>1. ASSUME NEW k \in 1..m PROVE a[k] = b[k]
  <2>1. 2 * k - 1 \in 1..(2 * m) /\ 2 * k \in 1..(2 * m)
    OBVIOUS
  <2>2. a[k][1] = b[k][1] /\ a[k][2] = b[k][2]
    BY <2>1, NibblesOfBytes
  <2>3. a[k] \in Nibble \X Nibble /\ b[k] \in Nibble \X Nibble
    BY DEF Encoded
  <2> QED
    BY <2>2, <2>3
<1> QED
  BY <1>1 DEF Encoded

LEMMA SameSequence ==
    ASSUME NEW S, NEW s \in Seq(S), NEW t \in Seq(S), Len(s) = Len(t),
           \A k \in 1..Len(s) : s[k] = t[k]
    PROVE  s = t
<1>1. s \in [1..Len(s) -> S] /\ t \in [1..Len(s) -> S]
  OBVIOUS
<1> QED
  BY <1>1

LEMMA TailOf ==
    ASSUME NEW S, NEW s \in Seq(S), Len(s) > 0
    PROVE  /\ Tail(s) \in Seq(S) /\ Len(Tail(s)) = Len(s) - 1
           /\ \A k \in 1..(Len(s) - 1) : Tail(s)[k] = s[k + 1]
OBVIOUS

LEMMA BufferOfNibbles ==
    ASSUME NEW s \in Seq(Nat), Len(s) % 2 = 0
    PROVE  /\ ToNibbles(NibblesToBuffer(s)) \in Seq(Nat)
           /\ Len(ToNibbles(NibblesToBuffer(s))) = Len(s)
           /\ \A k \in 1..Len(s) : ToNibbles(NibblesToBuffer(s))[k] = s[k]
<1> DEFINE h == Len(s) \div 2
           b == NibblesToBuffer(s)
<1>1. h \in Nat /\ Len(s) = 2 * h
  OBVIOUS
<1>2. b = [k \in 1..h |-> <<s[2 * k - 1], s[2 * k]>>]
  BY DEF NibblesToBuffer
<1> HIDE DEF h, b
<1>3. ASSUME NEW k \in 1..h
      PROVE  <<s[2 * k - 1], s[2 * k]>> \in Nat \X Nat
  <2>1. 2 * k - 1 \in 1..Len(s) /\ 2 * k \in 1..Len(s)
    BY <1>1
  <2>2. s[2 * k - 1] \in Nat /\ s[2 * k] \in Nat
    BY <2>1
  <2> QED
    BY <2>2, Zenon
<1>4. b \in [1..h -> Nat \X Nat] /\ Len(b) = h
  BY <1>1, <1>2, <1>3
<1>5. ToNibbles(b) = [j \in 1..(2 * h) |-> b[(j + 1) \div 2][2 - (j % 2)]]
  BY <1>4 DEF ToNibbles
<1>6. ASSUME NEW j \in 1..(2 * h)
      PROVE  b[(j + 1) \div 2][2 - (j % 2)] = s[j]
  <2> DEFINE k == (j + 1) \div 2
  <2>1. k \in 1..h
    BY <1>1
  <2>2. b[k] = <<s[2 * k - 1], s[2 * k]>>
    BY <1>2, <2>1
  <2>3. \/ j = 2 * k - 1 /\ 2 - (j % 2) = 1
        \/ j = 2 * k /\ 2 - (j % 2) = 2
    BY <1>1
  <2> HIDE DEF k
  <2>4. b[k][2 - (j % 2)] = s[j]
    BY <2>2, <2>3
  <2> QED
    BY <2>4 DEF k
<1>7. ASSUME NEW j \in 1..(2 * h)
      PROVE  ToNibbles(b)[j] = s[j] /\ s[j] \in Nat
  <2>1. ToNibbles(b)[j] = b[(j + 1) \div 2][2 - (j % 2)]
    BY <1>5, Zenon
  <2>2. s[j] \in Nat
    BY <1>1
  <2> QED
    BY <1>6, <2>1, <2>2, Zenon
<1>8. ToNibbles(b) \in [1..(2 * h) -> Nat]
  BY <1>5, <1>7
<1> QED
  BY <1>1, <1>7, <1>8 DEF b

\* The contract reads the nibbles that the generator wrote, without the flag.
LEMMA PartialPathOfNode ==
    ASSUME NEW s \in Seq(Nibble), NEW flag \in {0, 2},
           Node[1] = EncodeCompact(flag, s)
    PROVE  PartialPath = s
<1> DEFINE t == (IF Len(s) % 2 = 0 THEN <<flag, 0>> ELSE <<flag + 1>>) \o s
           nibbles == ToNibbles(Node[1])
<1>1. s \in Seq(Nat) /\ flag \in Nat
  BY BaseAssumption DEF Nibble
<1>2. CASE Len(s) % 2 = 0
  <2>1. t = <<flag, 0>> \o s
    BY <1>2
  <2>2. /\ t \in Seq(Nat) /\ Len(t) = Len(s) + 2 /\ Len(t) % 2 = 0
        /\ t[1] = flag /\ \A k \in 1..Len(s) : t[k + 2] = s[k]
    BY <1>1, <1>2, <2>1
  <2> HIDE DEF t
  <2>3. nibbles = ToNibbles(NibblesToBuffer(t))
    BY DEF EncodeCompact, t
  <2>4. /\ nibbles \in Seq(Nat) /\ Len(nibbles) = Len(t)
        /\ \A k \in 1..Len(t) : nibbles[k] = t[k]
    BY <2>2, <2>3, BufferOfNibbles
  <2> HIDE DEF nibbles
  <2>5. nibbles # <<>> /\ nibbles[1] = flag /\ nibbles[1] \notin {1, 3}
    BY <2>2, <2>4
  <2>6. PartialPath = Tail(Tail(nibbles))
    BY <2>5 DEF PartialPath, nibbles
  <2>7. /\ Tail(nibbles) \in Seq(Nat) /\ Len(Tail(nibbles)) = Len(s) + 1
        /\ \A k \in 1..(Len(s) + 1) : Tail(nibbles)[k] = nibbles[k + 1]
    <3>1. Len(nibbles) > 0 /\ Len(nibbles) - 1 = Len(s) + 1
      BY <2>2, <2>4
    <3> QED
      BY <2>4, <3>1, TailOf
  <2>8. /\ Tail(Tail(nibbles)) \in Seq(Nat)
        /\ Len(Tail(Tail(nibbles))) = Len(s)
        /\ \A k \in 1..Len(s) : Tail(Tail(nibbles))[k] = Tail(nibbles)[k + 1]
    <3>1. Len(Tail(nibbles)) > 0 /\ Len(Tail(nibbles)) - 1 = Len(s)
      BY <2>7
    <3> QED
      BY <2>7, <3>1, TailOf
  <2>9. ASSUME NEW k \in 1..Len(s) PROVE Tail(Tail(nibbles))[k] = s[k]
    <3>1. k + 1 \in 1..(Len(s) + 1) /\ k + 1 + 1 = k + 2 /\ k + 2 \in 1..Len(t)
      BY <2>2
    <3>2. Tail(nibbles)[k + 1] = nibbles[k + 2] /\ nibbles[k + 2] = t[k + 2]
      BY <2>4, <2>7, <3>1
    <3> QED
      BY <2>2, <2>8, <3>2
  <2> QED
    BY <1>1, <2>6, <2>8, <2>9, SameSequence
<1>3. CASE Len(s) % 2 # 0
  <2>1. t = <<flag + 1>> \o s
    BY <1>3
  <2>2. /\ t \in Seq(Nat) /\ Len(t) = Len(s) + 1 /\ Len(t) % 2 = 0
        /\ t[1] = flag + 1 /\ \A k \in 1..Len(s) : t[k + 1] = s[k]
    <3>1. PICK f \in Nat : f = flag + 1
      BY <1>1
    <3>2. t = <<f>> \o s
      BY <2>1, <3>1
    <3> HIDE DEF t
    <3>3. /\ t \in Seq(Nat) /\ Len(t) = Len(s) + 1
          /\ t[1] = f /\ \A k \in 1..Len(s) : t[k + 1] = s[k]
      BY <1>1, <3>2
    <3>4. Len(s) \in Nat /\ (Len(s) + 1) % 2 = 0
      BY <1>3
    <3> QED
      BY <3>1, <3>3, <3>4
  <2> HIDE DEF t
  <2>3. nibbles = ToNibbles(NibblesToBuffer(t))
    BY DEF EncodeCompact, t
  <2>4. /\ nibbles \in Seq(Nat) /\ Len(nibbles) = Len(t)
        /\ \A k \in 1..Len(t) : nibbles[k] = t[k]
    BY <2>2, <2>3, BufferOfNibbles
  <2> HIDE DEF nibbles
  <2>5. nibbles # <<>> /\ nibbles[1] = flag + 1 /\ nibbles[1] \in {1, 3}
    BY <2>2, <2>4
  <2>6. PartialPath = Tail(nibbles)
    BY <2>5 DEF PartialPath, nibbles
  <2>7. /\ Tail(nibbles) \in Seq(Nat) /\ Len(Tail(nibbles)) = Len(s)
        /\ \A k \in 1..Len(s) : Tail(nibbles)[k] = nibbles[k + 1]
    <3>1. Len(nibbles) > 0 /\ Len(nibbles) - 1 = Len(s)
      BY <2>2, <2>4
    <3> QED
      BY <2>4, <3>1, TailOf
  <2>8. ASSUME NEW k \in 1..Len(s) PROVE Tail(nibbles)[k] = s[k]
    <3>1. k + 1 \in 1..Len(t)
      BY <2>2
    <3> QED
      BY <2>2, <2>4, <2>7, <3>1
  <2> QED
    BY <1>1, <2>6, <2>7, <2>8, SameSequence
<1> QED
  BY <1>2, <1>3
-----------------------------------------------------------------------------
(***************************************************************************)
(* The fuzzy generator: what holds of the parts while they are made, and   *)
(* where the contract's loop is while it verifies what was made of them.   *)
(***************************************************************************)
PathNibbles == ToNibbles(path)

\* The nibbles that the nodes before node k take.
Offset(data, k) ==
    SumFunctionOnSet([j \in 1..Len(data) |-> Len(data[j])], 1..(k - 1))

Behind(k) == Offset(pathData, k)

PatternOK ==
    /\ pattern \in Seq(Symbol)
    /\ pattern # <<>>
    /\ \A k \in 1..Len(pattern) :
          /\ pattern[k] = "l" => k = Len(pattern)
          /\ pattern[k] = "e" => k < Len(pattern) /\ pattern[k + 1] = "b"
          /\ pattern[k] = "b" /\ k = Len(pattern) =>
                k > 1 /\ pattern[k - 1] = "b"

\* Every node takes its nibbles right after those of the nodes before it, and
\* the nodes together take the whole path.
SectionsOK ==
    /\ \E n \in Nat \ {0} : path \in Encoded(n)
    /\ pathData \in Seq(Seq(Nibble)) /\ Len(pathData) = Len(pattern)
    /\ \A k \in 1..Len(pattern) :
          /\ \A j \in 1..Len(pathData[k]) :
                pathData[k][j] = PathNibbles[Behind(k) + j]
          /\ IF pattern[k] = "b"
             THEN Len(pathData[k]) = IF k = Len(pattern) THEN 0 ELSE 1
             ELSE Len(pathData[k]) > 0
    /\ Behind(Len(pattern) + 1) = Len(PathNibbles)

IsNode(p, data, k, node, key) ==
    /\ p[k] = "l" => node = LeafNode(data[k], Value)
    /\ p[k] = "e" => node = ExtensionNode(data[k], key)
    /\ p[k] = "b" =>
          \E keys \in RandomBranchKeysData :
             node = IF k = Len(p) THEN BranchNode(keys, Value)
                    ELSE BranchNode([keys EXCEPT ![data[k][1] + 1] = key], Empty)

IsSequence(s) == s \in Seq({s[k] : k \in 1..Len(s)})

\* Each node holds the hash of the one below it.
NodesOK ==
    /\ IsSequence(nodes)
    /\ Len(nodes) =< Len(pattern)
    /\ \A k \in 1..Len(nodes) :
          IsNode(pattern, pathData, Len(pattern) - Len(nodes) + k, nodes[k],
                 IF k < Len(nodes) THEN Hash(nodes[k + 1]) ELSE Empty)

BuiltOK ==
    /\ PatternOK
    /\ SectionsOK
    /\ NodesOK
    /\ phase = "created" => Len(nodes) = Len(pattern)

\* The loop is at a node of the generated path.
OnPath ==
    /\ i \in 1..Len(nodes)
    /\ pathPtr = Behind(i)
    /\ pathPtr =< Len(Path)
    /\ nodeKey = Hash(nodes[i])
    /\ \A k \in 1..pathPtr : Path[k] = PathNibbles[k]

\* The loop has left it: no node has the hash that it looks for.
OffPath ==
    /\ i \in Nat \ {0}
    /\ \A k \in 1..Len(nodes) : nodeKey # Hash(nodes[k])
    /\ proof.encodedPath # path

VerifyOK ==
    /\ proof.value = ValueHash
    /\ \E n \in Nat : proof.encodedPath \in Encoded(n)
    /\ proof.parentNodes = nodes
    /\ result = "running" => OnPath \/ OffPath
    /\ result \in {"true", "false", "reverted"} =>
          (result = "true" <=> proof.encodedPath = path)

FuzzyInv ==
    /\ phase \in {"called", "rejected", "thrown", "create", "created"}
    /\ phase = "called" => nodes = <<>> /\ pattern \in Seq(Symbol)
    /\ phase \in {"create", "created"} => BuiltOK
    /\ IF result = "idle"
       THEN i = 1 /\ pathPtr = 0
       ELSE phase = "created" /\ VerifyOK
    /\ result \in {"idle", "running", "true", "false", "reverted"}

-----------------------------------------------------------------------------
LEMMA OffsetStep ==
    ASSUME NEW S, NEW data \in Seq(Seq(S)), NEW k \in 1..Len(data)
    PROVE  /\ Offset(data, 1) = 0
           /\ Offset(data, k) \in Nat
           /\ Offset(data, k + 1) = Offset(data, k) + Len(data[k])
<1> DEFINE f == [j \in 1..Len(data) |-> Len(data[j])]
<1>1. \A j \in 1..Len(data) : f[j] \in Nat /\ f[j] = Len(data[j])
  OBVIOUS
<1>2. 1..k = 1..(k - 1) \cup {k} /\ k \notin 1..(k - 1)
  OBVIOUS
<1>3. IsFiniteSet(1..(k - 1)) /\ 1..(1 - 1) = {}
  BY FS_Interval
<1>4. 1..(k - 1) \subseteq 1..Len(data)
  OBVIOUS
<1> HIDE DEF f
<1>5. SumFunctionOnSet(f, 1..k) = SumFunctionOnSet(f, 1..(k - 1)) + f[k]
  <2> DEFINE D == 1..(k - 1)
  <2>1. /\ IsFiniteSet(D) /\ k \notin D /\ 1..k = D \cup {k}
        /\ \A y \in D \cup {k} : f[y] \in Int
    BY <1>1, <1>2, <1>3, <1>4
  <2> HIDE DEF D
  <2>2. SumFunctionOnSet(f, D \cup {k}) = SumFunctionOnSet(f, D) + f[k]
    BY ONLY <2>1, SumAdd
  <2> QED
    BY <2>1, <2>2 DEF D
<1>6. SumFunctionOnSet(f, 1..(k - 1)) \in Nat
  BY <1>1, <1>3, <1>4, SumNat
<1>7. SumFunctionOnSet(f, {}) = 0
  BY SumEmpty
<1>8. k + 1 - 1 = k
  OBVIOUS
<1> QED
  BY <1>1, <1>3, <1>5, <1>6, <1>7, <1>8 DEF Offset, f

LEMMA OffsetGrows ==
    ASSUME NEW S, NEW data \in Seq(Seq(S)), NEW k \in 1..(Len(data) + 1),
           NEW l \in k..(Len(data) + 1)
    PROVE  Offset(data, k) =< Offset(data, l)
<1> DEFINE f == [j \in 1..Len(data) |-> Len(data[j])]
<1>1. \A j \in 1..Len(data) : f[j] \in Nat
  OBVIOUS
<1>2. 1..(k - 1) \subseteq 1..(l - 1) /\ 1..(l - 1) \subseteq 1..Len(data)
  OBVIOUS
<1>3. IsFiniteSet(1..(l - 1))
  BY FS_Interval
<1> HIDE DEF f
<1>4. /\ \A j \in 1..(l - 1) : f[j] \in Nat
      /\ \A j \in 1..(k - 1) : f[j] \in Int /\ f[j] =< f[j]
  BY <1>1, <1>2
<1>5. SumFunctionOnSet(f, 1..(k - 1)) =< SumFunctionOnSet(f, 1..(l - 1))
  BY <1>2, <1>3, <1>4, SumMonotone
<1> QED
  BY <1>5 DEF Offset, f

\* The numbers between sorted distinct numbers are natural numbers.
LEMMA RandomNumbersType ==
    ASSUME NEW sum \in Nat, NEW numberCount \in Nat,
           NEW n \in GenerateRandomNumbers(sum, numberCount)
    PROVE  n \in [1..numberCount -> Nat]
<1>1. CASE numberCount = 0
  BY <1>1 DEF GenerateRandomNumbers
<1>2. CASE numberCount = 1
  BY <1>2 DEF GenerateRandomNumbers
<1>3. CASE numberCount > 1
  <2> DEFINE upperBound == sum + numberCount - 1
  <2>1. PICK picked \in [1..(numberCount - 1) -> 1..upperBound] :
           /\ \A k \in 2..(numberCount - 1) : picked[k - 1] < picked[k]
           /\ n = [k \in 1..numberCount |->
                     IF k = 1 THEN picked[1] - 1
                     ELSE IF k = numberCount THEN upperBound - picked[k - 1]
                     ELSE picked[k] - picked[k - 1] - 1]
    <3>1. numberCount # 0 /\ numberCount # 1
      BY <1>3
    <3> QED
      BY <3>1, Zenon DEF GenerateRandomNumbers
  <2>2. ASSUME NEW k \in 1..numberCount
        PROVE  n[k] \in Nat
    <3>1. CASE k = 1
      <4>1. n[k] = picked[1] - 1 /\ picked[1] \in 1..upperBound
        BY <1>3, <2>1, <3>1
      <4> QED
        BY <4>1
    <3>2. CASE k # 1 /\ k = numberCount
      <4>1. n[k] = upperBound - picked[k - 1] /\ picked[k - 1] \in 1..upperBound
        BY <1>3, <2>1, <3>2
      <4> QED
        BY <4>1
    <3>3. CASE k # 1 /\ k # numberCount
      <4>1. /\ n[k] = picked[k] - picked[k - 1] - 1
            /\ picked[k] \in 1..upperBound /\ picked[k - 1] \in 1..upperBound
            /\ picked[k - 1] < picked[k]
        <5>1. k \in 2..(numberCount - 1) /\ k - 1 \in 1..(numberCount - 1)
          BY <1>3, <3>3
        <5> QED
          BY <1>3, <2>1, <3>3, <5>1
      <4> QED
        BY <4>1
    <3> QED
      BY <3>1, <3>2, <3>3
  <2> QED
    BY <2>1, <2>2
<1> QED
  BY <1>1, <1>2, <1>3
\* Every section takes a nibble at least, that of a branch node just one.
LEMMA SectionLengths ==
    ASSUME NEW p \in Seq(Symbol), NEW nibbles, Len(nibbles) \in Nat,
           Len(p) =< Len(nibbles),
           NEW lengths \in GenerateRandomPathData(p, nibbles),
           NEW k \in 1..Len(p)
    PROVE  /\ SectionLength(p, lengths, k) \in Nat \ {0}
           /\ p[k] = "b" => SectionLength(p, lengths, k) = 1
<1> DEFINE shorts == {j \in 1..Len(p) : p[j] # "b"}
           upTo == {j \in 1..k : p[j] # "b"}
<1>1. IsFiniteSet(1..Len(p)) /\ shorts \subseteq 1..Len(p)
  BY FS_Interval
<1>2. IsFiniteSet(shorts) /\ Cardinality(shorts) \in Nat
  BY <1>1, FS_Subset, FS_CardinalityType
<1>3. PICK n \in GenerateRandomNumbers(Len(nibbles) - Len(p), Cardinality(shorts)) :
         lengths = [l \in 1..Len(n) |-> n[l] + 1]
  BY DEF GenerateRandomPathData
<1>4. n \in [1..Cardinality(shorts) -> Nat]
  <2>1. Len(nibbles) - Len(p) \in Nat
    OBVIOUS
  <2> QED
    BY <1>2, <1>3, <2>1, RandomNumbersType
<1>5. \A l \in 1..Cardinality(shorts) : lengths[l] \in Nat \ {0}
  <2>1. Len(n) = Cardinality(shorts)
    BY <1>2, <1>4
  <2> QED
    BY <1>3, <1>4, <2>1
<1>6. CASE p[k] = "b"
  BY <1>6 DEF SectionLength
<1>7. CASE p[k] # "b"
  <2>1. upTo \subseteq shorts /\ k \in upTo
    BY <1>7
  <2> HIDE DEF shorts, upTo
  <2>2. /\ IsFiniteSet(upTo) /\ Cardinality(upTo) \in Nat
        /\ Cardinality(upTo) =< Cardinality(shorts)
    BY <1>2, <2>1, FS_Subset, FS_CardinalityType
  <2>3. Cardinality(upTo) # 0
    BY <2>1, <2>2, FS_EmptySet
  <2>4. Cardinality(upTo) \in 1..Cardinality(shorts)
    BY <1>2, <2>2, <2>3
  <2>5. SectionLength(p, lengths, k) = lengths[Cardinality(upTo)]
    BY <1>7 DEF SectionLength, upTo
  <2> QED
    BY <1>5, <1>7, <2>4, <2>5
<1> QED
  BY <1>6, <1>7

\* What the assertions of generatePathData make of the sections.
Sectioned(p, nibbles, sections) ==
    /\ sections \in Seq(Seq(Nibble)) /\ Len(sections) = Len(p)
    /\ \A k \in 1..Len(p) :
          /\ Len(sections[k]) > 0
          /\ p[k] = "b" => Len(sections[k]) = 1
          /\ \A j \in 1..Len(sections[k]) :
                sections[k][j] = nibbles[Offset(sections, k) + j]
    /\ Offset(sections, Len(p) + 1) = Len(nibbles)

LEMMA GeneratedSections ==
    ASSUME NEW p \in Seq(Symbol), NEW nibbles \in Seq(Nibble),
           Len(p) =< Len(nibbles),
           NEW lengths \in GenerateRandomPathData(p, nibbles),
           CoversPath(p, nibbles, lengths)
    PROVE  Sectioned(p, nibbles, GeneratePathData(p, nibbles, lengths))
<1> DEFINE sections == GeneratePathData(p, nibbles, lengths)
           N == Len(p)
           len == [j \in 1..N |-> SectionLength(p, lengths, j)]
           start(k) == SumFunctionOnSet(len, 1..(k - 1))
<1>1. N \in Nat /\ Len(nibbles) \in Nat
  OBVIOUS
<1>2. /\ \A k \in 1..N : len[k] \in Nat \ {0} /\ (p[k] = "b" => len[k] = 1)
      /\ len \in [1..N -> Nat]
  BY <1>1, SectionLengths
<1>3. \A k \in 1..(N + 1) : SectionStart(p, lengths, k) = start(k)
  BY DEF SectionStart
<1>4. sections = [k \in 1..N |-> SubSeq(nibbles, start(k) + 1, start(k) + len[k])]
  <2> DEFINE section(k) == SubSeq(nibbles, start(k) + 1, start(k) + len[k])
  <2>1. ASSUME NEW k \in 1..N
        PROVE  section(k)
                 = SubSeq(nibbles, SectionStart(p, lengths, k) + 1,
                          SectionStart(p, lengths, k)
                            + SectionLength(p, lengths, k))
    <3>1. k \in 1..(N + 1) /\ len[k] = SectionLength(p, lengths, k)
      BY <1>1
    <3> HIDE DEF len, start
    <3> QED
      BY <1>3, <3>1
  <2> HIDE DEF section
  <2>2. sections = [k \in 1..N |-> section(k)]
    BY <2>1 DEF GeneratePathData
  <2> QED
    BY <2>2, Zenon DEF section
<1>5. start(N + 1) = Len(nibbles)
  BY <1>1, <1>3 DEF CoversPath
<1> HIDE DEF len, sections
<1>6. ASSUME NEW k \in 1..N
      PROVE  start(k) \in Nat /\ start(k) + len[k] =< Len(nibbles)
  <2> DEFINE D == 1..(k - 1)
             E == 1..N
  <2>1. /\ IsFiniteSet(D) /\ IsFiniteSet(E) /\ k \notin D /\ 1..k = D \cup {k}
        /\ 1..k \subseteq E /\ \A y \in E : len[y] \in Nat
        /\ \A y \in D \cup {k} : len[y] \in Nat /\ len[y] \in Int
    <3>1. IsFiniteSet(D) /\ IsFiniteSet(E)
      BY <1>1, FS_Interval
    <3>2. k \notin D /\ 1..k = D \cup {k} /\ 1..k \subseteq E
      BY <1>1
    <3>3. \A y \in E : len[y] \in Nat
      BY <1>2
    <3> QED
      BY <3>1, <3>2, <3>3
  <2>2. SumFunctionOnSet(len, E) = Len(nibbles)
    BY <1>1, <1>5
  <2> HIDE DEF D, E
  <2>3. SumFunctionOnSet(len, D) \in Nat
    BY <2>1, SumNat
  <2>4. SumFunctionOnSet(len, D \cup {k}) = SumFunctionOnSet(len, D) + len[k]
    BY <2>1, SumAdd
  <2>5. SumFunctionOnSet(len, D \cup {k}) =< SumFunctionOnSet(len, E)
    <3>1. D \cup {k} \subseteq E /\ \A y \in D \cup {k} : len[y] =< len[y]
      BY <2>1
    <3> QED
      BY <2>1, <3>1, SumMonotone
  <2> QED
    BY <2>2, <2>3, <2>4, <2>5 DEF D
<1>7. ASSUME NEW k \in 1..N
      PROVE  /\ sections[k] \in Seq(Nibble) /\ Len(sections[k]) = len[k]
             /\ \A j \in 1..len[k] : sections[k][j] = nibbles[start(k) + j]
  <2> DEFINE a == start(k) + 1
             b == start(k) + len[k]
  <2>1. /\ start(k) \in Nat /\ len[k] \in Nat \ {0}
        /\ start(k) + len[k] =< Len(nibbles)
    BY <1>2, <1>6
  <2>2. sections[k] = SubSeq(nibbles, a, b)
    BY <1>4
  <2> HIDE DEF start
  <2>3. /\ a \in Int /\ b \in Int /\ a =< b /\ b - a + 1 = len[k]
        /\ \A j \in a..b : nibbles[j] \in Nibble
    <3>1. /\ a \in Int /\ b \in Int /\ a =< b /\ b - a + 1 = len[k]
          /\ 1 =< a /\ b =< Len(nibbles)
      <4>1. \A u, v, w \in Nat :
               v # 0 /\ u + v =< w =>
                  /\ u + 1 \in Int /\ u + v \in Int /\ u + 1 =< u + v
                  /\ (u + v) - (u + 1) + 1 = v
                  /\ 1 =< u + 1 /\ u + v =< w
        OBVIOUS
      <4>2. /\ start(k) \in Nat /\ len[k] \in Nat /\ Len(nibbles) \in Nat
            /\ len[k] # 0 /\ start(k) + len[k] =< Len(nibbles)
        BY ONLY <1>1, <2>1
      <4> QED
        BY ONLY <4>1, <4>2, Zenon
    <3> HIDE DEF a, b
    <3>2. \A j \in a..b : j \in 1..Len(nibbles)
      BY <1>1, <3>1
    <3> QED
      BY <3>1, <3>2
  <2>4. /\ SubSeq(nibbles, a, b) \in Seq(Nibble)
        /\ Len(SubSeq(nibbles, a, b)) = len[k]
        /\ \A j \in 1..len[k] : SubSeq(nibbles, a, b)[j] = nibbles[a + j - 1]
    BY <2>3, SubSeqProperties
  <2>5. \A j \in 1..len[k] : a + j - 1 = start(k) + j
    BY <2>1
  <2> QED
    BY <2>2, <2>4, <2>5
<1>8. sections \in Seq(Seq(Nibble)) /\ Len(sections) = N
  BY <1>1, <1>4, <1>7
<1>9. ASSUME NEW k \in 1..(N + 1)
      PROVE  Offset(sections, k) = start(k)
  <2> DEFINE f == [j \in 1..Len(sections) |-> Len(sections[j])]
             D == 1..(k - 1)
  <2>1. \A j \in D : f[j] \in Int /\ f[j] = len[j]
    BY <1>1, <1>2, <1>7, <1>8
  <2>2. IsFiniteSet(D)
    BY FS_Interval
  <2>3. Offset(sections, k) = SumFunctionOnSet(f, D)
    BY DEF Offset
  <2> HIDE DEF f, D
  <2>4. SumFunctionOnSet(f, D) = SumFunctionOnSet(len, D)
    BY <2>1, <2>2, SumSame
  <2> QED
    BY <2>3, <2>4 DEF D
<1>10. N + 1 \in 1..(N + 1) /\ \A k \in 1..N : k \in 1..(N + 1)
  BY <1>1
<1> HIDE DEF start
<1>11. ASSUME NEW k \in 1..N
       PROVE  /\ Len(sections[k]) > 0
              /\ p[k] = "b" => Len(sections[k]) = 1
              /\ \A j \in 1..Len(sections[k]) :
                    sections[k][j] = nibbles[Offset(sections, k) + j]
  <2>1. Offset(sections, k) = start(k)
    BY <1>9, <1>10
  <2>2. /\ Len(sections[k]) = len[k]
        /\ \A j \in 1..len[k] : sections[k][j] = nibbles[start(k) + j]
    BY <1>7
  <2>3. len[k] > 0 /\ (p[k] = "b" => len[k] = 1)
    BY <1>2
  <2>4. Len(sections[k]) > 0 /\ (p[k] = "b" => Len(sections[k]) = 1)
    BY ONLY <2>2, <2>3
  <2> QED
    BY <2>1, <2>2, <2>4, Zenon
<1>12. Offset(sections, N + 1) = Len(nibbles)
  BY <1>5, <1>9, <1>10
<1> QED
  BY <1>8, <1>11, <1>12 DEF Sectioned, sections
LEMMA OffsetAppend ==
    ASSUME NEW S, NEW data \in Seq(Seq(S)), NEW e \in Seq(S),
           NEW k \in 1..(Len(data) + 1)
    PROVE  Offset(Append(data, e), k) = Offset(data, k)
<1> DEFINE longer == Append(data, e)
           f == [j \in 1..Len(data) |-> Len(data[j])]
           g == [j \in 1..Len(longer) |-> Len(longer[j])]
           D == 1..(k - 1)
<1>1. /\ Len(longer) = Len(data) + 1
      /\ \A j \in 1..Len(data) : longer[j] = data[j] /\ Len(data[j]) \in Nat
  OBVIOUS
<1>2. \A j \in D : j \in 1..Len(data) /\ j \in 1..(Len(data) + 1)
  OBVIOUS
<1>3. \A j \in D : f[j] \in Int /\ f[j] = g[j]
  BY <1>1, <1>2
<1>4. IsFiniteSet(D)
  BY FS_Interval
<1>5. Offset(data, k) = SumFunctionOnSet(f, D) /\ Offset(longer, k) = SumFunctionOnSet(g, D)
  BY DEF Offset
<1> HIDE DEF f, g, D
<1>6. SumFunctionOnSet(f, D) = SumFunctionOnSet(g, D)
  BY <1>3, <1>4, SumSame
<1> QED
  BY <1>5, <1>6

LEMMA FrontOf ==
    ASSUME NEW S, NEW s \in Seq(S), Len(s) > 0
    PROVE  /\ Front(s) \in Seq(S) /\ Len(Front(s)) = Len(s) - 1
           /\ \A k \in 1..(Len(s) - 1) : Front(s)[k] = s[k]
<1>1. PICK n \in Nat : n = Len(s) - 1
  OBVIOUS
<1>2. 1 \in Int /\ n \in Int /\ \A k \in 1..n : s[k] \in S
  BY <1>1
<1>3. /\ SubSeq(s, 1, n) \in Seq(S)
      /\ Len(SubSeq(s, 1, n)) = IF 1 =< n THEN n - 1 + 1 ELSE 0
      /\ \A k \in 1..(n - 1 + 1) : SubSeq(s, 1, n)[k] = s[1 + k - 1]
  BY <1>2, SubSeqProperties
<1>4. /\ n - 1 + 1 = n /\ (~(1 =< n) => n = 0)
      /\ \A k \in 1..n : 1 + k - 1 = k
  OBVIOUS
<1>5. Front(s) = SubSeq(s, 1, n)
  BY <1>1 DEF Front
<1> QED
  BY <1>1, <1>3, <1>4, <1>5

LEMMA ValidPattern ==
    ASSUME pattern \in Seq(Symbol), AssertPatternValidity(pattern)
    PROVE  PatternOK
BY DEF PatternOK, AssertPatternValidity, ProcessLeaf, ProcessBranch,
       ProcessExtension

LEMMA GenerateSections ==
    ASSUME PatternOK, UNCHANGED pattern,
           NEW n \in Nat \ {0}, path' \in Encoded(n), Len(pattern) =< 2 * n,
           NEW lengths \in GenerateRandomPathData(SectionPattern, ToNibbles(path')),
           CoversPath(SectionPattern, ToNibbles(path'), lengths),
           NEW sections,
           sections = GeneratePathData(SectionPattern, ToNibbles(path'), lengths),
           pathData' = IF EndingWithBranchNode THEN Append(sections, <<>>)
                       ELSE sections
    PROVE  SectionsOK'
<1> DEFINE N == Len(pattern)
           p == SectionPattern
           nibbles == ToNibbles(path')
<1>1. /\ N \in Nat \ {0} /\ pattern \in Seq(Symbol)
      /\ Last(pattern) = pattern[N]
  BY DEF PatternOK, Last
<1>2. nibbles \in Seq(Nibble) /\ Len(nibbles) = 2 * n
  BY NibblesOfBytes
<1>3. /\ p \in Seq(Symbol) /\ Len(p) = IF EndingWithBranchNode THEN N - 1 ELSE N
      /\ \A k \in 1..Len(p) : p[k] = pattern[k]
  <2>1. CASE ~EndingWithBranchNode
    BY <1>1, <2>1 DEF SectionPattern
  <2>2. CASE EndingWithBranchNode
    BY <1>1, <2>2, FrontOf DEF SectionPattern
  <2> QED
    BY <2>1, <2>2
<1>4. Len(p) =< Len(nibbles)
  BY <1>1, <1>2, <1>3
<1> HIDE DEF p, nibbles
<1>5. /\ sections \in Seq(Seq(Nibble)) /\ Len(sections) = Len(p)
      /\ \A k \in 1..Len(p) :
            /\ Len(sections[k]) > 0
            /\ p[k] = "b" => Len(sections[k]) = 1
            /\ \A j \in 1..Len(sections[k]) :
                  sections[k][j] = nibbles[Offset(sections, k) + j]
      /\ Offset(sections, Len(p) + 1) = Len(nibbles)
  <2>1. /\ p \in Seq(Symbol) /\ nibbles \in Seq(Nibble)
        /\ Len(p) =< Len(nibbles)
        /\ lengths \in GenerateRandomPathData(p, nibbles)
        /\ CoversPath(p, nibbles, lengths)
        /\ sections = GeneratePathData(p, nibbles, lengths)
    BY <1>2, <1>3, <1>4 DEF p, nibbles
  <2>2. Sectioned(p, nibbles, sections)
    BY <2>1, GeneratedSections
  <2> QED
    BY <2>2, Zenon DEF Sectioned
<1>6. /\ pathData' \in Seq(Seq(Nibble)) /\ Len(pathData') = N
      /\ \A k \in 1..Len(p) : pathData'[k] = sections[k]
  BY <1>1, <1>3, <1>5
<1>7. \A k \in 1..(Len(p) + 1) : Behind(k)' = Offset(sections, k)
  <2>1. CASE EndingWithBranchNode
    <3>1. pathData' = Append(sections, <<>>) /\ <<>> \in Seq(Nibble)
      BY <2>1
    <3>2. \A k \in 1..(Len(sections) + 1) :
             Offset(Append(sections, <<>>), k) = Offset(sections, k)
      BY <1>5, <3>1, OffsetAppend
    <3> QED
      BY <1>5, <3>1, <3>2 DEF Behind
  <2>2. CASE ~EndingWithBranchNode
    BY <2>2 DEF Behind
  <2> QED
    BY <2>1, <2>2
<1>8. ASSUME NEW k \in 1..N, k # Len(p) + 1
      PROVE  /\ \A j \in 1..Len(pathData'[k]) :
                   pathData'[k][j] = nibbles[Behind(k)' + j]
             /\ IF pattern[k] = "b"
                THEN Len(pathData'[k]) = IF k = N THEN 0 ELSE 1
                ELSE Len(pathData'[k]) > 0
  <2>1. k \in 1..Len(p) /\ k \in 1..(Len(p) + 1)
    BY <1>1, <1>3, <1>8
  <2>2. pathData'[k] = sections[k] /\ Behind(k)' = Offset(sections, k)
        /\ p[k] = pattern[k]
    BY <1>3, <1>6, <1>7, <2>1
  <2>3. pattern[k] = "b" => k # N
    BY <1>1, <1>3, <2>1 DEF EndingWithBranchNode
  <2>4. /\ Len(sections[k]) > 0
        /\ pattern[k] = "b" => Len(sections[k]) = 1
        /\ \A j \in 1..Len(sections[k]) :
              sections[k][j] = nibbles[Offset(sections, k) + j]
    BY <1>5, <2>1, <2>2
  <2>5. \A j \in 1..Len(pathData'[k]) :
           pathData'[k][j] = nibbles[Behind(k)' + j]
    BY ONLY <2>2, <2>4, Zenon
  <2>6. IF pattern[k] = "b" THEN Len(pathData'[k]) = IF k = N THEN 0 ELSE 1
        ELSE Len(pathData'[k]) > 0
    BY ONLY <2>2, <2>3, <2>4
  <2> QED
    BY <2>5, <2>6
<1>9. ASSUME N = Len(p) + 1
      PROVE  /\ EndingWithBranchNode
             /\ pathData'[N] = <<>> /\ pattern[N] = "b"
             /\ Behind(N + 1)' = Behind(N)'
  <2>1. EndingWithBranchNode
    BY <1>1, <1>3, <1>9
  <2>2. pathData'[N] = <<>>
    BY <1>5, <1>9, <2>1
  <2>3. Offset(pathData', N + 1) = Offset(pathData', N) + Len(pathData'[N])
        /\ Offset(pathData', N) \in Nat
    <3>1. N \in 1..Len(pathData')
      BY <1>1, <1>6
    <3> QED
      BY <1>6, <3>1, OffsetStep
  <2>4. Len(pathData'[N]) = 0
    BY <2>2
  <2>5. Offset(pathData', N + 1) = Offset(pathData', N)
    BY ONLY <2>3, <2>4
  <2> QED
    BY <1>1, <2>1, <2>2, <2>5 DEF Behind, EndingWithBranchNode
<1>10. Behind(N + 1)' = Len(nibbles)
  <2>1. CASE N = Len(p) + 1
    <3>1. N \in 1..(Len(p) + 1)
      BY <1>1, <2>1
    <3> QED
      BY <1>5, <1>7, <1>9, <2>1, <3>1
  <2>2. CASE N = Len(p)
    <3>1. N + 1 \in 1..(Len(p) + 1)
      BY <1>1, <2>2
    <3> QED
      BY <1>5, <1>7, <2>2, <3>1
  <2> QED
    BY <1>1, <1>3, <2>1, <2>2
<1>11. ASSUME NEW k \in 1..N
       PROVE  /\ \A j \in 1..Len(pathData'[k]) :
                    pathData'[k][j] = nibbles[Behind(k)' + j]
              /\ IF pattern[k] = "b"
                 THEN Len(pathData'[k]) = IF k = N THEN 0 ELSE 1
                 ELSE Len(pathData'[k]) > 0
  <2>1. CASE k = Len(p) + 1
    <3>1. k = N
      BY <1>1, <1>3, <2>1
    <3>2. pathData'[k] = <<>> /\ pattern[k] = "b"
      BY <1>9, <2>1, <3>1
    <3>3. Len(pathData'[k]) = 0
      BY <3>2
    <3>4. \A j \in 1..Len(pathData'[k]) : FALSE
      <4>1. \A l : l = 0 => \A j \in 1..l : FALSE
        OBVIOUS
      <4> QED
        BY <3>3, <4>1, Zenon
    <3>5. Len(pathData'[k]) = IF k = N THEN 0 ELSE 1
      BY ONLY <3>1, <3>3
    <3> QED
      BY ONLY <3>2, <3>4, <3>5, Zenon
  <2> QED
    BY <1>8, <2>1
<1> QED
  BY <1>6, <1>10, <1>11 DEF SectionsOK, PathNibbles, nibbles

LEMMA GenerateKeeps ==
    ASSUME FuzzyInv, Generate
    PROVE  FuzzyInv'
<1>1. /\ phase = "called" /\ pattern \in Seq(Symbol) /\ nodes = <<>>
      /\ result = "idle" /\ i = 1 /\ pathPtr = 0
      /\ UNCHANGED <<pattern, nodes, i, pathPtr, result>>
      /\ phase' \in {"create", "thrown"}
  BY DEF Generate, FuzzyInv, verifyVars
<1>2. PatternOK /\ PatternOK'
  BY <1>1, ValidPattern DEF Generate, PatternOK
<1>3. ASSUME phase' = "create" PROVE BuiltOK'
  <2>1. PICK n \in PathMinLength..MaxPath : path' \in Encoded(n)
    BY DEF Generate
  <2>2. n \in Nat \ {0} /\ Len(pattern) =< 2 * n
    <3>1. Len(pattern) \in Nat \ {0} /\ MaxPath \in Nat
      BY <1>2, GeneratorAssumption DEF PatternOK
    <3> QED
      BY <3>1 DEF PathMinLength
  <2>3. PICK lengths \in GenerateRandomPathData(SectionPattern, ToNibbles(path')) :
          LET sections == GeneratePathData(SectionPattern, ToNibbles(path'),
                                           lengths)
          IN  /\ phase' = IF CoversPath(SectionPattern, ToNibbles(path'), lengths)
                          THEN "create" ELSE "thrown"
              /\ pathData' = IF EndingWithBranchNode
                             THEN Append(sections, <<>>) ELSE sections
    BY DEF Generate
  <2>4. CoversPath(SectionPattern, ToNibbles(path'), lengths)
    BY <1>3, <2>3
  <2>5. SectionsOK'
    BY <1>1, <1>2, <2>1, <2>2, <2>3, <2>4, GenerateSections
  <2>6. NodesOK'
    <3>1. /\ nodes' = <<>> /\ Len(<<>>) = 0 /\ Len(pattern') \in Nat
          /\ <<>> \in Seq({})
      BY <1>1
    <3>2. IsSequence(nodes')
      BY <3>1 DEF IsSequence
    <3> QED
      BY <3>1, <3>2 DEF NodesOK
  <2> QED
    BY <1>2, <1>3, <2>5, <2>6 DEF BuiltOK
<1> QED
  BY <1>1, <1>3 DEF FuzzyInv
-----------------------------------------------------------------------------
LEMMA PushSequence ==
    ASSUME NEW S, NEW s \in Seq(S), NEW e
    PROVE  /\ IsSequence(<<e>> \o s)
           /\ Len(<<e>> \o s) = Len(s) + 1
           /\ (<<e>> \o s)[1] = e
           /\ \A k \in 1..Len(s) : (<<e>> \o s)[k + 1] = s[k]
<1> DEFINE t == <<e>> \o s
           T == S \cup {e}
<1>1. s \in Seq(T) /\ e \in T
  OBVIOUS
<1> HIDE DEF T
<1>2. /\ t \in Seq(T)
      /\ Len(t) = Len(s) + 1
      /\ t[1] = e
      /\ \A k \in 1..Len(s) : t[k + 1] = s[k]
  BY <1>1
<1> HIDE DEF t
<1>3. Len(t) \in Nat /\ t \in [1..Len(t) -> T]
  BY ONLY <1>2
<1>4. t \in [1..Len(t) -> {t[k] : k \in 1..Len(t)}]
  BY ONLY <1>3
<1>5. t \in Seq({t[k] : k \in 1..Len(t)})
  BY ONLY <1>3, <1>4
<1> QED
  BY <1>2, <1>5 DEF IsSequence, t

\* A node is put above the ones that are there.
LEMMA PushKeeps ==
    ASSUME FuzzyInv, phase = "create", At > 0, NEW node, Push(node),
           IsNode(pattern, pathData, At, node,
                  IF nodes = <<>> THEN Empty ELSE PreviousNodeHash)
    PROVE  FuzzyInv'
<1> DEFINE N == Len(pattern)
           L == Len(nodes)
<1>1. /\ BuiltOK /\ result = "idle" /\ i = 1 /\ pathPtr = 0
      /\ UNCHANGED <<phase, pattern, path, pathData, result, i, pathPtr>>
      /\ nodes' = <<node>> \o nodes
  BY DEF FuzzyInv, Push, verifyVars
<1>2. /\ N \in Nat \ {0} /\ L \in Nat /\ L < N /\ At = N - L
      /\ IsSequence(nodes)
  BY <1>1 DEF BuiltOK, PatternOK, NodesOK, At
<1>3. /\ IsSequence(nodes')
      /\ Len(nodes') = L + 1
      /\ nodes'[1] = node
      /\ \A k \in 1..L : nodes'[k + 1] = nodes[k]
  <2>1. PICK S : nodes \in Seq(S)
    BY <1>2 DEF IsSequence
  <2> QED
    BY <1>1, <2>1, PushSequence
<1> HIDE DEF N, L
<1>4. ASSUME NEW k \in 1..(L + 1)
      PROVE  IsNode(pattern, pathData, N - (L + 1) + k, nodes'[k],
                    IF k < L + 1 THEN Hash(nodes'[k + 1]) ELSE Empty)
  <2>1. CASE k = 1
    <3>1. N - (L + 1) + k = At /\ nodes'[k] = node
      BY <1>2, <1>3, <2>1
    <3>2. (IF k < L + 1 THEN Hash(nodes'[k + 1]) ELSE Empty)
            = IF nodes = <<>> THEN Empty ELSE PreviousNodeHash
      <4>1. CASE L = 0
        <5>1. nodes = <<>>
          BY <1>2, <4>1 DEF L
        <5> QED
          BY <2>1, <4>1, <5>1
      <4>2. CASE L > 0
        <5>1. nodes # <<>> /\ Head(nodes) = nodes[1]
          BY <1>2, <4>2 DEF L
        <5>2. k < L + 1 /\ nodes'[k + 1] = nodes[1]
          BY <1>2, <1>3, <2>1, <4>2
        <5> QED
          BY <5>1, <5>2 DEF PreviousNodeHash
      <4> QED
        BY <1>2, <4>1, <4>2
    <3> QED
      BY <3>1, <3>2
  <2>2. CASE k # 1
    <3> DEFINE l == k - 1
    <3>1. /\ l \in 1..L /\ l + 1 = k /\ N - (L + 1) + k = N - L + l
          /\ (k < L + 1 <=> l < L)
      BY <1>2, <2>2
    <3>2. nodes'[k] = nodes[l] /\ (l < L => nodes'[k + 1] = nodes[l + 1])
      <4>1. nodes'[l + 1] = nodes[l]
        BY <1>3, <3>1
      <4>2. ASSUME l < L PROVE nodes'[k + 1] = nodes[l + 1]
        <5>1. l + 1 \in 1..L
          BY <1>2, <3>1, <4>2
        <5> QED
          BY <1>3, <3>1, <5>1
      <4> QED
        BY <3>1, <4>1, <4>2
    <3>3. IsNode(pattern, pathData, N - L + l, nodes[l],
                  IF l < L THEN Hash(nodes[l + 1]) ELSE Empty)
      BY <1>1, <3>1 DEF BuiltOK, NodesOK, N, L
    <3> HIDE DEF l
    <3>4. (IF k < L + 1 THEN Hash(nodes'[k + 1]) ELSE Empty)
            = IF l < L THEN Hash(nodes[l + 1]) ELSE Empty
      BY <3>1, <3>2
    <3> QED
      BY <3>1, <3>2, <3>3, <3>4
  <2> QED
    BY <2>1, <2>2
<1>5. NodesOK'
  <2>1. Len(pattern') = N /\ Len(nodes') = L + 1 /\ L + 1 =< N
    BY <1>1, <1>2, <1>3 DEF N
  <2> QED
    BY <1>1, <1>3, <1>4, <2>1 DEF NodesOK
<1>6. BuiltOK'
  <2>1. PatternOK' /\ SectionsOK'
    BY <1>1 DEF BuiltOK, PatternOK, SectionsOK, PathNibbles, Behind
  <2> QED
    BY <1>1, <1>5, <2>1 DEF BuiltOK
<1> QED
  BY <1>1, <1>6 DEF FuzzyInv
LEMMA CreateKeeps ==
    ASSUME FuzzyInv,
           \/ CreateLeafNode \/ CreateExtensionNode
           \/ CreateEndingBranchNode \/ CreateBranchNode
    PROVE  FuzzyInv'
<1> DEFINE N == Len(pattern)
           key == IF nodes = <<>> THEN Empty ELSE PreviousNodeHash
<1>1. phase = "create" /\ At > 0 /\ BuiltOK
  BY DEF CreateLeafNode, CreateExtensionNode, CreateEndingBranchNode,
         CreateBranchNode, Creates, FuzzyInv
<1>2. /\ At \in 1..N /\ N \in Nat \ {0}
      /\ At < N => nodes # <<>>
  <2>1. N \in Nat \ {0} /\ Len(nodes) \in Nat /\ Len(nodes) =< N
    BY <1>1 DEF BuiltOK, PatternOK, NodesOK, IsSequence
  <2>2. nodes = <<>> => Len(nodes) = 0
    OBVIOUS
  <2> QED
    BY <1>1, <2>1, <2>2 DEF At
<1>3. At < N => key = PreviousNodeHash
  BY <1>2
<1> HIDE DEF key
<1>4. CASE CreateLeafNode
  <2> DEFINE node == LeafNode(pathData[At], Value)
  <2>1. pattern[At] = "l" /\ Push(node)
    BY <1>4 DEF CreateLeafNode, Creates
  <2>2. IsNode(pattern, pathData, At, node, key)
    BY <2>1 DEF IsNode
  <2> QED
    BY <1>1, <2>1, <2>2, PushKeeps DEF key
<1>5. CASE CreateExtensionNode
  <2> DEFINE node == ExtensionNode(pathData[At], PreviousNodeHash)
  <2>1. pattern[At] = "e" /\ Push(node)
    BY <1>5 DEF CreateExtensionNode, Creates
  <2>2. At < N
    BY <1>1, <1>2, <2>1 DEF BuiltOK, PatternOK
  <2>3. IsNode(pattern, pathData, At, node, key)
    BY <1>3, <2>1, <2>2 DEF IsNode
  <2> QED
    BY <1>1, <2>1, <2>3, PushKeeps DEF key
<1>6. CASE CreateEndingBranchNode
  <2>1. PICK keys \in RandomBranchKeysData : Push(BranchNode(keys, Value))
    BY <1>6 DEF CreateEndingBranchNode
  <2>2. pattern[At] = "b" /\ At = N
    BY <1>6 DEF CreateEndingBranchNode, Creates
  <2>3. IsNode(pattern, pathData, At, BranchNode(keys, Value), key)
    BY <2>2 DEF IsNode
  <2> QED
    BY <1>1, <2>1, <2>3, PushKeeps DEF key
<1>7. CASE CreateBranchNode
  <2> DEFINE node(keys) ==
        BranchNode([keys EXCEPT ![pathData[At][1] + 1] = PreviousNodeHash], Empty)
  <2>1. PICK keys \in RandomBranchKeysData : Push(node(keys))
    BY <1>7 DEF CreateBranchNode
  <2>2. pattern[At] = "b" /\ At < N
    BY <1>7 DEF CreateBranchNode, Creates
  <2>3. IsNode(pattern, pathData, At, node(keys), key)
    <3>1. /\ At # N /\ pattern[At] # "l" /\ pattern[At] # "e"
          /\ key = PreviousNodeHash
      BY <1>2, <1>3, <2>2
    <3> HIDE DEF N
    <3> QED
      BY <3>1, Zenon DEF IsNode, N
  <2> QED
    BY <1>1, <2>1, <2>3, PushKeeps DEF key
<1> QED
  BY <1>4, <1>5, <1>6, <1>7

LEMMA CreatedKeeps ==
    ASSUME FuzzyInv, Created
    PROVE  FuzzyInv'
<1>1. /\ phase' = "created" /\ BuiltOK
      /\ result = "idle" /\ i = 1 /\ pathPtr = 0
      /\ UNCHANGED <<pattern, path, pathData, nodes, result, i, pathPtr>>
  BY DEF FuzzyInv, Created, verifyVars
<1>2. Len(nodes) = Len(pattern)
  <2>1. Len(pattern) \in Nat /\ Len(nodes) \in Nat
    BY <1>1 DEF BuiltOK, PatternOK, NodesOK, IsSequence
  <2> QED
    BY <2>1 DEF Created, At
<1>3. BuiltOK'
  BY <1>1, <1>2
     DEF BuiltOK, PatternOK, SectionsOK, NodesOK, PathNibbles, Behind
<1> QED
  BY <1>1, <1>3 DEF FuzzyInv

-----------------------------------------------------------------------------
(***************************************************************************)
(* The contract's loop at a generated node.                                *)
(***************************************************************************)
LEMMA KeysAndValue ==
    ASSUME NEW n \in Nat, NEW S, NEW keys \in [1..n -> S], NEW v
    PROVE  /\ Len(keys \o <<v>>) = n + 1
           /\ (keys \o <<v>>)[n + 1] = v
           /\ \A m \in 1..n : (keys \o <<v>>)[m] = keys[m]
<1> DEFINE T == S \cup {v}
<1>1. keys \in [1..n -> T] /\ v \in T
  OBVIOUS
<1> HIDE DEF T
<1>2. keys \in Seq(T) /\ Len(keys) = n
  BY <1>1
<1> QED
  BY <1>1, <1>2

\* A branch node has Base + 1 items, a leaf or extension node has two.
LEMMA GeneratedNodes ==
    ASSUME BuiltOK, phase = "created", NEW k \in 1..Len(pattern)
    PROVE  /\ Len(nodes) = Len(pattern)
           /\ pattern[k] \in Symbol
           /\ nodes[k] # <<>>
           /\ pattern[k] # "b" =>
                 /\ Len(nodes[k]) = 2
                 /\ \E flag \in {0, 2} :
                       nodes[k][1] = EncodeCompact(flag, pathData[k])
                 /\ nodes[k][2] = IF k = Len(pattern) THEN Value
                                  ELSE Hash(nodes[k + 1])
           /\ pattern[k] = "b" =>
                 /\ Len(nodes[k]) = Base + 1
                 /\ nodes[k][Base + 1] = IF k = Len(pattern) THEN Value ELSE Empty
                 /\ \A m \in 1..Base :
                       \/ nodes[k][m] \in {Empty, RandomKeccak256}
                       \/ k < Len(pattern) /\ m = pathData[k][1] + 1
                 /\ k < Len(pattern) =>
                       nodes[k][pathData[k][1] + 1] = Hash(nodes[k + 1])
<1> DEFINE N == Len(pattern)
<1>1. /\ N \in Nat /\ pattern[k] \in Symbol
      /\ pattern[k] = "l" => k = N
      /\ pattern[k] = "e" => k < N
  BY DEF BuiltOK, PatternOK
<1>2. Len(nodes) = N
  BY DEF BuiltOK
<1>3. IsNode(pattern, pathData, k, nodes[k],
             IF k < N THEN Hash(nodes[k + 1]) ELSE Empty)
  <2>1. N - N + k = k
    BY <1>1
  <2> QED
    BY <1>2, <2>1 DEF BuiltOK, NodesOK
<1>4. CASE pattern[k] = "l"
  <2>1. nodes[k] = <<EncodeCompact(2, pathData[k]), Value>>
    BY <1>3, <1>4 DEF IsNode, LeafNode
  <2> QED
    BY <1>1, <1>2, <1>4, <2>1
<1>5. CASE pattern[k] = "e"
  <2>1. nodes[k] = <<EncodeCompact(0, pathData[k]), Hash(nodes[k + 1])>>
    BY <1>1, <1>3, <1>5 DEF IsNode, ExtensionNode
  <2> QED
    BY <1>1, <1>2, <1>5, <2>1
<1>6. CASE pattern[k] = "b"
  <2> DEFINE key == IF k < N THEN Hash(nodes[k + 1]) ELSE Empty
  <2>0. IsNode(pattern, pathData, k, nodes[k], key)
    BY <1>3
  <2> HIDE DEF key
  <2>1. PICK keys \in RandomBranchKeysData :
           nodes[k] = IF k = N THEN BranchNode(keys, Value)
                      ELSE BranchNode([keys EXCEPT ![pathData[k][1] + 1] = key],
                                      Empty)
    BY <1>6, <2>0, Zenon DEF IsNode
  <2>2. keys \in [1..Base -> {Empty, RandomKeccak256}] /\ Base \in Nat \ {0}
    BY BaseAssumption DEF RandomBranchKeysData
  <2>3. CASE k = N
    <3>1. nodes[k] = keys \o <<Value>>
      BY <2>1, <2>3 DEF BranchNode
    <3>2. /\ Len(nodes[k]) = Base + 1 /\ nodes[k][Base + 1] = Value
          /\ \A m \in 1..Base : nodes[k][m] = keys[m]
      BY <2>2, <3>1, KeysAndValue
    <3> QED
      BY <1>1, <1>2, <1>6, <2>2, <2>3, <3>2
  <2>4. CASE k < N
    <3> DEFINE b == pathData[k][1] + 1
               ks == [keys EXCEPT ![b] = Hash(nodes[k + 1])]
               S == {Empty, RandomKeccak256, Hash(nodes[k + 1])}
    <3>1. b \in 1..Base
      <4>1. Len(pathData[k]) = 1 /\ pathData[k] \in Seq(Nibble)
        <5>1. k # N /\ SectionsOK
          BY <1>1, <2>4 DEF BuiltOK
        <5>2. Len(pathData[k]) = 1
          BY <1>6, <5>1, Zenon DEF SectionsOK
        <5>3. pathData[k] \in Seq(Nibble)
          BY <5>1 DEF SectionsOK
        <5> QED
          BY <5>2, <5>3
      <4>2. pathData[k][1] \in 0..(Base - 1)
        <5>1. pathData[k][1] \in Nibble
          BY <4>1
        <5> QED
          BY <5>1 DEF Nibble
      <4> QED
        BY <2>2, <4>2
    <3>2. /\ ks \in [1..Base -> S] /\ ks[b] = Hash(nodes[k + 1])
          /\ \A m \in 1..Base : m # b => ks[m] \in {Empty, RandomKeccak256}
      BY <2>2, <3>1
    <3> HIDE DEF b
    <3>3. nodes[k] = ks \o <<Empty>>
      <4>1. k # N /\ key = Hash(nodes[k + 1])
        BY <1>1, <2>4 DEF key
      <4> QED
        BY <2>1, <4>1 DEF BranchNode, b
    <3> HIDE DEF S, ks
    <3>4. /\ Len(nodes[k]) = Base + 1 /\ nodes[k][Base + 1] = Empty
          /\ \A m \in 1..Base : nodes[k][m] = ks[m]
      BY <2>2, <3>2, <3>3, KeysAndValue
    <3>5. /\ \A m \in 1..Base :
                 m # b => nodes[k][m] \in {Empty, RandomKeccak256}
          /\ nodes[k][b] = Hash(nodes[k + 1])
      BY <3>1, <3>2, <3>4
    <3>6. nodes[k] # <<>>
      <4>1. Len(<<>>) = 0 /\ Len(nodes[k]) # 0
        BY <2>2, <3>4
      <4> QED
        BY <4>1
    <3>7. k # N
      BY <1>1, <2>4
    <3> QED
      BY <1>1, <1>2, <1>6, <2>4, <3>4, <3>5, <3>6, <3>7, Zenon DEF b
  <2> QED
    BY <1>1, <2>3, <2>4
<1> QED
  BY <1>1, <1>4, <1>5, <1>6 DEF Symbol
\* No key but the hash of a node can be the one that the loop needs.
LEMMA OtherKeys ==
    ASSUME NEW node, node # <<>>
    PROVE  Hash(node) \notin {Empty, RandomKeccak256, Value}
<1>1. Hash(node) # RandomKeccak256
  <2>1. Hash(node).hash = node /\ RandomKeccak256.hash = <<>>
    BY DEF Hash, RandomKeccak256
  <2> QED
    BY <2>1
<1>2. \A b : Hash(node) # Bytes(b)
  <2>1. "hash" \in DOMAIN Hash(node) /\ \A b : "hash" \notin DOMAIN Bytes(b)
    BY DEF Hash, Bytes
  <2> QED
    BY <2>1
<1> QED
  BY <1>1, <1>2, Zenon DEF Empty, Value

LEMMA ValuesDiffer ==
    /\ Value # Empty
    /\ \A item : item # Value => Data(item) # Data(Value) /\ Rlp(item) # Rlp(Value)
    /\ \A a, b : Data(a) # Rlp(b)
<1>1. Value # Empty
  <2>1. Value.bytes = "value" /\ Empty.bytes = ""
    BY DEF Value, Empty, Bytes
  <2>2. "value" # ""
    OBVIOUS
  <2> QED
    BY <2>1, <2>2, Zenon
<1>2. ASSUME NEW item, item # Value
      PROVE  Data(item) # Data(Value) /\ Rlp(item) # Rlp(Value)
  <2>1. /\ Data(item).data = item /\ Data(Value).data = Value
        /\ Rlp(item).rlp = item /\ Rlp(Value).rlp = Value
    BY DEF Data, Rlp
  <2> QED
    BY <1>2, <2>1
<1>3. ASSUME NEW a, NEW b PROVE Data(a) # Rlp(b)
  <2>1. "data" \in DOMAIN Data(a) /\ "data" \notin DOMAIN Rlp(b)
    BY DEF Data, Rlp
  <2> QED
    BY <2>1
<1> QED
  BY <1>1, <1>2, <1>3

\* How much of the generated path is behind a node.
LEMMA BehindNode ==
    ASSUME BuiltOK, NEW k \in 1..Len(pattern)
    PROVE  /\ Len(pattern) \in Nat
           /\ PathNibbles \in Seq(Nibble) /\ Len(PathNibbles) \in Nat
           /\ pathData[k] \in Seq(Nibble) /\ Len(pathData[k]) \in Nat
           /\ Behind(1) = 0
           /\ Behind(k) \in Nat
           /\ Behind(k + 1) = Behind(k) + Len(pathData[k])
           /\ Behind(k + 1) =< Len(PathNibbles)
           /\ k = Len(pattern) => Behind(k + 1) = Len(PathNibbles)
           /\ \A j \in 1..Len(pathData[k]) :
                 pathData[k][j] = PathNibbles[Behind(k) + j]
           /\ pattern[k] = "b" =>
                 Len(pathData[k]) = IF k = Len(pattern) THEN 0 ELSE 1
           /\ pattern[k] # "b" => Len(pathData[k]) > 0
           /\ pattern[k] = "e" =>
                 k < Len(pattern) /\ Behind(k + 1) < Len(PathNibbles)
           /\ pattern[k] = "l" => k = Len(pattern)
<1> DEFINE N == Len(pattern)
<1>1. /\ N \in Nat /\ k \in 1..N
      /\ pathData \in Seq(Seq(Nibble)) /\ Len(pathData) = N
      /\ pattern[k] = "l" => k = N
      /\ pattern[k] = "e" => k < N /\ pattern[k + 1] = "b"
  BY DEF BuiltOK, PatternOK, SectionsOK
<1>2. PathNibbles \in Seq(Nibble) /\ Len(PathNibbles) \in Nat
  BY NibblesOfBytes DEF BuiltOK, SectionsOK, PathNibbles
<1>3. /\ Behind(1) = 0 /\ Behind(k) \in Nat
      /\ Behind(k + 1) = Behind(k) + Len(pathData[k])
      /\ pathData[k] \in Seq(Nibble) /\ Len(pathData[k]) \in Nat
  BY <1>1, OffsetStep DEF Behind
<1>4. /\ Behind(k + 1) =< Len(PathNibbles)
      /\ k = N => Behind(k + 1) = Len(PathNibbles)
  <2>1. Behind(N + 1) = Len(PathNibbles)
    BY DEF BuiltOK, SectionsOK
  <2>2. k + 1 \in 1..(Len(pathData) + 1)
        /\ N + 1 \in (k + 1)..(Len(pathData) + 1)
    BY <1>1
  <2>3. Offset(pathData, k + 1) =< Offset(pathData, N + 1)
    BY <1>1, <2>2, OffsetGrows
  <2> QED
    BY <2>1, <2>3 DEF Behind
<1>5. \A j \in 1..N :
        /\ \A l \in 1..Len(pathData[j]) :
              pathData[j][l] = PathNibbles[Behind(j) + l]
        /\ IF pattern[j] = "b"
           THEN Len(pathData[j]) = IF j = N THEN 0 ELSE 1
           ELSE Len(pathData[j]) > 0
  BY DEF BuiltOK, SectionsOK
<1>6. ASSUME pattern[k] = "e"
      PROVE  Behind(k + 1) < Len(PathNibbles)
  <2>1. k + 1 \in 1..N /\ pattern[k + 1] = "b"
    BY <1>1, <1>6
  <2>2. k + 1 # N
    <3>1. k + 1 = N => pattern[(k + 1) - 1] = "b"
      BY <2>1 DEF BuiltOK, PatternOK
    <3>2. (k + 1) - 1 = k
      BY <1>1
    <3> QED
      BY <1>6, <3>1, <3>2
  <2>3. Len(pathData[k + 1]) = 1
    BY <1>5, <2>1, <2>2
  <2>4. /\ Offset(pathData, (k + 1) + 1)
              = Offset(pathData, k + 1) + Len(pathData[k + 1])
        /\ Offset(pathData, k + 1) \in Nat
    BY <1>1, <2>1, OffsetStep
  <2>5. Offset(pathData, (k + 1) + 1) =< Offset(pathData, N + 1)
    <3>1. (k + 1) + 1 \in 1..(Len(pathData) + 1)
          /\ N + 1 \in ((k + 1) + 1)..(Len(pathData) + 1)
      BY <1>1, <2>1, <2>2
    <3> QED
      BY <1>1, <3>1, OffsetGrows
  <2>6. Offset(pathData, N + 1) = Len(PathNibbles)
    BY DEF BuiltOK, SectionsOK, Behind
  <2> QED
    BY <1>2, <2>3, <2>4, <2>5, <2>6 DEF Behind
<1>7. /\ \A l \in 1..Len(pathData[k]) :
            pathData[k][l] = PathNibbles[Behind(k) + l]
      /\ pattern[k] = "b" => Len(pathData[k]) = IF k = N THEN 0 ELSE 1
      /\ pattern[k] # "b" => Len(pathData[k]) > 0
  BY <1>1, <1>5
<1> QED
  BY <1>1, <1>2, <1>3, <1>4, <1>6, <1>7
LEMMA PathIsDecided ==
    ASSUME BuiltOK, VerifyOK
    PROVE  /\ Path \in Seq(Nibble) /\ Len(Path) \in Nat
           /\ proof.encodedPath = path
                <=> /\ Len(Path) = Len(PathNibbles)
                    /\ \A k \in 1..Len(Path) : Path[k] = PathNibbles[k]
<1>1. PICK m \in Nat : proof.encodedPath \in Encoded(m)
  BY DEF VerifyOK
<1>2. PICK n \in Nat : path \in Encoded(n)
  BY DEF BuiltOK, SectionsOK
<1>3. /\ Path \in Seq(Nibble) /\ Len(Path) = 2 * m /\ Len(PathNibbles) = 2 * n
  BY <1>1, <1>2, NibblesOfBytes DEF Path, PathNibbles
<1>4. proof.encodedPath = path => Path = PathNibbles
  BY DEF Path, PathNibbles
<1>5. ASSUME Len(Path) = Len(PathNibbles),
             \A k \in 1..Len(Path) : Path[k] = PathNibbles[k]
      PROVE  proof.encodedPath = path
  <2>1. m = n
    BY <1>3, <1>5
  <2>2. \A k \in 1..(2 * m) :
           ToNibbles(proof.encodedPath)[k] = ToNibbles(path)[k]
    BY <1>3, <1>5 DEF Path, PathNibbles
  <2> QED
    BY <1>1, <1>2, <2>1, <2>2, NibblesDecide
<1> QED
  BY <1>3, <1>4, <1>5

LEMMA AtGeneratedNode ==
    ASSUME BuiltOK, phase = "created", VerifyOK, OnPath
    PROVE  /\ Len(nodes) = Len(pattern) /\ i \in 1..Len(pattern)
           /\ Node = nodes[i] /\ Len(proof.parentNodes) = Len(pattern)
           /\ pathPtr = Behind(i) /\ pathPtr =< Len(Path)
           /\ Admitted
           /\ IsBranch <=> pattern[i] = "b"
           /\ IsShort <=> pattern[i] # "b"
           /\ pattern[i] # "b" => PartialPath = pathData[i]
<1>1. /\ Len(nodes) = Len(pattern) /\ i \in 1..Len(pattern)
      /\ proof.parentNodes = nodes /\ Node = nodes[i]
      /\ pathPtr = Behind(i) /\ pathPtr =< Len(Path) /\ nodeKey = Hash(nodes[i])
  BY DEF BuiltOK, VerifyOK, OnPath, Node
<1>2. /\ pattern[i] # "b" =>
            /\ Len(Node) = 2
            /\ \E flag \in {0, 2} : Node[1] = EncodeCompact(flag, pathData[i])
      /\ pattern[i] = "b" => Len(Node) = Base + 1
  BY <1>1, GeneratedNodes
<1>7. Base + 1 # 2
  BY BaseAssumption
<1>3. IsBranch <=> pattern[i] = "b"
  BY <1>2, <1>7, Zenon DEF IsBranch
<1>4. IsShort <=> pattern[i] # "b"
  BY <1>2, <1>7, Zenon DEF IsShort
<1>5. Admitted
  BY <1>1, <1>3, <1>4 DEF Admitted
<1>6. pattern[i] # "b" => PartialPath = pathData[i]
  <2>1. pathData[i] \in Seq(Nibble)
    BY <1>1, BehindNode
  <2> QED
    BY <1>2, <2>1, PartialPathOfNode
<1> QED
  BY <1>1, <1>3, <1>4, <1>5, <1>6

\* What the answer is compared with, and where it is found.
LEMMA AnswerOfNode ==
    ASSUME BuiltOK, phase = "created", VerifyOK, OnPath
    PROVE  /\ pattern[i] = "b" =>
                 (Rlp(Node[Base + 1]) = proof.value <=> i = Len(pattern))
           /\ pattern[i] # "b" =>
                 (Data(Node[2]) = proof.value <=> i = Len(pattern))
<1> DEFINE N == Len(pattern)
<1>1. i \in 1..N /\ Node = nodes[i] /\ N \in Nat /\ Len(nodes) = N
  BY AtGeneratedNode, BehindNode
<1>2. proof.value = IF pattern[N] = "b" THEN Rlp(Value) ELSE Data(Value)
  BY DEF VerifyOK, ValueHash, EndingWithBranchNode, Last
<1>3. CASE pattern[i] = "b"
  <2>1. Node[Base + 1] = IF i = N THEN Value ELSE Empty
    BY <1>1, <1>3, GeneratedNodes
  <2>2. CASE i = N
    BY <1>2, <1>3, <2>1, <2>2
  <2>3. CASE i # N
    <3>1. Rlp(Empty) # Rlp(Value) /\ Rlp(Empty) # Data(Value)
      BY ValuesDiffer
    <3> QED
      BY <1>2, <1>3, <2>1, <2>3, <3>1
  <2> QED
    BY <2>2, <2>3
<1>4. CASE pattern[i] # "b"
  <2>1. Node[2] = IF i = N THEN Value ELSE Hash(nodes[i + 1])
    BY <1>1, <1>4, GeneratedNodes
  <2>2. CASE i = N
    BY <1>2, <1>4, <2>1, <2>2
  <2>3. CASE i # N
    <3>1. i + 1 \in 1..N
      BY <1>1, <2>3
    <3>2. Hash(nodes[i + 1]) # Value
      BY <3>1, GeneratedNodes, OtherKeys
    <3>3. Data(Hash(nodes[i + 1])) # Data(Value)
          /\ Data(Hash(nodes[i + 1])) # Rlp(Value)
      BY <3>2, ValuesDiffer
    <3> QED
      BY <1>2, <1>4, <2>1, <2>3, <3>3
  <2> QED
    BY <2>2, <2>3
<1> QED
  BY <1>3, <1>4

\* The loop takes the nibbles of a short node if the path goes on with them.
LEMMA Traversed ==
    ASSUME BuiltOK, phase = "created", VerifyOK, OnPath, pattern[i] # "b",
           pathPtr + Len(pathData[i]) =< Len(Path)
    PROVE  /\ NibblesToTraverse \in {0, Len(pathData[i])}
           /\ NibblesToTraverse # 0
                <=> \A j \in 1..Len(pathData[i]) :
                       pathData[i][j] = Path[pathPtr + j]
<1> DEFINE l == Len(pathData[i])
           t == SubSeq(Path, pathPtr + 1, pathPtr + l)
<1>1. PartialPath = pathData[i] /\ i \in 1..Len(pattern) /\ pathPtr = Behind(i)
  BY AtGeneratedNode
<1>2. pathData[i] \in Seq(Nibble) /\ l \in Nat /\ l > 0 /\ pathPtr \in Nat
  BY <1>1, BehindNode
<1>3. Path \in Seq(Nibble) /\ Len(Path) \in Nat
  BY PathIsDecided
<1>4. /\ t \in Seq(Nibble) /\ Len(t) = l
      /\ \A j \in 1..l : t[j] = Path[pathPtr + j]
  <2> DEFINE a == pathPtr + 1
             b == pathPtr + l
  <2> HIDE DEF l
  <2>1. /\ a \in Int /\ b \in Int /\ a =< b /\ b - a + 1 = l
        /\ 1 =< a /\ b =< Len(Path)
    BY <1>2, <1>3 DEF l
  <2>2. \A j \in 1..l : a + j - 1 = pathPtr + j
    BY <1>2
  <2> HIDE DEF a, b
  <2>3. \A j \in a..b : Path[j] \in Nibble
    <3>1. \A j \in a..b : j \in 1..Len(Path)
      BY <1>3, <2>1
    <3> QED
      BY <1>3, <3>1
  <2>4. /\ SubSeq(Path, a, b) \in Seq(Nibble)
        /\ Len(SubSeq(Path, a, b)) = l
        /\ \A j \in 1..l : SubSeq(Path, a, b)[j] = Path[a + j - 1]
    BY <2>1, <2>3, SubSeqProperties
  <2> QED
    BY <2>2, <2>4 DEF a, b, l
<1>5. NibblesToTraverse = IF pathData[i] = t THEN l ELSE 0
  BY <1>1 DEF NibblesToTraverse
<1> HIDE DEF l, t
<1>6. pathData[i] = t <=> \A j \in 1..l : pathData[i][j] = Path[pathPtr + j]
  <2>1. ASSUME \A j \in 1..l : pathData[i][j] = Path[pathPtr + j]
        PROVE  pathData[i] = t
    <3>1. Len(pathData[i]) = Len(t) /\ Len(pathData[i]) = l
      BY <1>4 DEF l
    <3>2. \A j \in 1..Len(pathData[i]) : pathData[i][j] = t[j]
      BY <1>4, <2>1, <3>1
    <3> QED
      BY <1>2, <1>4, <3>1, <3>2, SameSequence
  <2> QED
    BY <1>4, <2>1
<1> QED
  BY <1>2, <1>5, <1>6 DEF l
LEMMA EndsRight ==
    ASSUME VerifyOK, UNCHANGED generatorVars, NEW answer, Ends(answer),
           answer \in {"true", "false", "reverted"},
           answer = "true" <=> proof.encodedPath = path
    PROVE  VerifyOK'
BY DEF VerifyOK, Ends, generatorVars, ValueHash, EndingWithBranchNode

LEMMA GoesRight ==
    ASSUME VerifyOK, UNCHANGED generatorVars, result = "running",
           NEW n, NEW key, Goes(n, key), OnPath' \/ OffPath'
    PROVE  VerifyOK'
BY DEF VerifyOK, Goes, generatorVars, ValueHash, EndingWithBranchNode

\* The loop goes on with the node below, if the path does.
LEMMA GoesToNext ==
    ASSUME BuiltOK, phase = "created", VerifyOK, OnPath, UNCHANGED generatorVars,
           i < Len(pattern),
           pathPtr + Len(pathData[i]) =< Len(Path),
           \A j \in 1..Len(pathData[i]) : pathData[i][j] = Path[pathPtr + j],
           Goes(Len(pathData[i]), Hash(nodes[i + 1]))
    PROVE  OnPath'
<1> DEFINE l == Len(pathData[i])
<1>1. /\ i \in 1..Len(pattern) /\ Len(nodes) = Len(pattern)
      /\ pathPtr = Behind(i)
  BY AtGeneratedNode
<1>2. /\ Len(pattern) \in Nat /\ l \in Nat /\ pathPtr \in Nat
      /\ Behind(i + 1) = pathPtr + l
      /\ \A j \in 1..l : pathData[i][j] = PathNibbles[pathPtr + j]
  BY <1>1, BehindNode
<1>3. /\ i' = i + 1 /\ pathPtr' = pathPtr + l /\ nodeKey' = Hash(nodes[i + 1])
      /\ UNCHANGED <<proof, pattern, path, pathData, nodes>>
  BY DEF Goes, generatorVars
<1>4. i' \in 1..Len(nodes')
  BY <1>1, <1>2, <1>3
<1>5. /\ Path' = Path /\ PathNibbles' = PathNibbles
      /\ Offset(pathData', i') = pathPtr'
  BY <1>2, <1>3 DEF Path, PathNibbles, Behind
<1>6. ASSUME NEW k \in 1..(pathPtr + l)
      PROVE  Path[k] = PathNibbles[k]
  <2>1. CASE k =< pathPtr
    <3>1. k \in 1..pathPtr
      BY <1>2, <2>1
    <3> QED
      BY <3>1 DEF OnPath
  <2>2. CASE k > pathPtr
    <3> DEFINE j == k - pathPtr
    <3>1. j \in 1..l /\ pathPtr + j = k
      BY <1>2, <2>2
    <3>2. pathData[i][j] = Path[pathPtr + j]
          /\ pathData[i][j] = PathNibbles[pathPtr + j]
      BY <1>2, <3>1
    <3> QED
      BY <3>1, <3>2
  <2> QED
    BY <1>2, <2>1, <2>2
<1>7. pathPtr' =< Len(Path') /\ nodeKey' = Hash(nodes'[i'])
  BY <1>3, <1>5
<1>8. \A k \in 1..pathPtr' : Path'[k] = PathNibbles'[k]
  BY <1>3, <1>5, <1>6
<1> QED
  BY <1>4, <1>5, <1>7, <1>8 DEF OnPath, Behind

\* With any other key it is on no node.
LEMMA GoesAstray ==
    ASSUME BuiltOK, phase = "created", VerifyOK, OnPath, UNCHANGED generatorVars,
           NEW n, NEW key \in {Empty, RandomKeccak256, Value}, Goes(n, key),
           proof.encodedPath # path
    PROVE  OffPath'
<1>1. i \in 1..Len(pattern) /\ Len(nodes) = Len(pattern)
  BY AtGeneratedNode
<1>2. /\ i' = i + 1 /\ nodeKey' = key
      /\ UNCHANGED <<proof, path, nodes>>
  BY DEF Goes, generatorVars
<1>3. ASSUME NEW k \in 1..Len(nodes') PROVE nodeKey' # Hash(nodes'[k])
  <2>1. k \in 1..Len(pattern)
    BY <1>1, <1>2
  <2>2. nodes[k] # <<>>
    BY <2>1, GeneratedNodes
  <2> QED
    BY <1>2, <2>2, OtherKeys
<1>4. i' \in Nat \ {0}
  BY <1>1, <1>2
<1> QED
  BY <1>2, <1>3, <1>4 DEF OffPath

LEMMA BranchEndStep ==
    ASSUME BuiltOK, phase = "created", VerifyOK, OnPath, UNCHANGED generatorVars,
           AtBranchEnd
    PROVE  VerifyOK'
<1> DEFINE answer == Answer(Rlp(Node[Base + 1]) = proof.value)
<1>1. /\ i \in 1..Len(pattern) /\ pattern[i] = "b" /\ pathPtr = Behind(i)
      /\ pathPtr = Len(Path)
  BY AtGeneratedNode DEF AtBranchEnd
<1>2. /\ Len(pattern) \in Nat /\ Behind(i) \in Nat
      /\ i = Len(pattern) => Behind(i) = Len(PathNibbles)
      /\ i # Len(pattern) => Behind(i) < Len(PathNibbles)
  <2>1. /\ Len(pattern) \in Nat /\ Behind(i) \in Nat
        /\ Len(PathNibbles) \in Nat
        /\ Behind(i + 1) = Behind(i) + Len(pathData[i])
        /\ Behind(i + 1) =< Len(PathNibbles)
        /\ i = Len(pattern) => Behind(i + 1) = Len(PathNibbles)
        /\ Len(pathData[i]) = IF i = Len(pattern) THEN 0 ELSE 1
    BY <1>1, BehindNode
  <2> QED
    BY ONLY <2>1
<1>3. answer = IF i = Len(pattern) THEN "true" ELSE "false"
  BY <1>1, AnswerOfNode DEF Answer
<1>4. proof.encodedPath = path <=> i = Len(pattern)
  <2>1. \A k \in 1..Len(Path) : Path[k] = PathNibbles[k]
    BY <1>1 DEF OnPath
  <2>2. proof.encodedPath = path <=> Len(Path) = Len(PathNibbles)
    BY <2>1, PathIsDecided
  <2> QED
    BY <1>1, <1>2, <2>2
<1>5. Ends(answer)
  BY DEF AtBranchEnd
<1> HIDE DEF answer
<1> QED
  BY <1>3, <1>4, <1>5, EndsRight

LEMMA BranchStep ==
    ASSUME BuiltOK, phase = "created", VerifyOK, OnPath, UNCHANGED generatorVars,
           result = "running", AtBranch
    PROVE  VerifyOK'
<1> DEFINE N == Len(pattern)
           next == Path[pathPtr + 1]
           key == Node[next + 1]
<1>1. /\ i \in 1..N /\ pattern[i] = "b" /\ pathPtr = Behind(i)
      /\ pathPtr < Len(Path) /\ Node = nodes[i] /\ Goes(1, key)
  BY AtGeneratedNode DEF AtBranch
<1>2. /\ N \in Nat /\ Behind(i) \in Nat /\ Len(PathNibbles) \in Nat
      /\ Behind(i + 1) = Behind(i) + Len(pathData[i])
      /\ Behind(i + 1) =< Len(PathNibbles)
      /\ Len(pathData[i]) = IF i = N THEN 0 ELSE 1
      /\ i = N => Behind(i) = Len(PathNibbles)
      /\ \A j \in 1..Len(pathData[i]) :
            pathData[i][j] = PathNibbles[Behind(i) + j]
  BY <1>1, BehindNode
<1>3. Len(Path) \in Nat /\ next \in Nibble /\ next + 1 \in 1..Base
  <2>1. Path \in Seq(Nibble) /\ Len(Path) \in Nat
    BY PathIsDecided
  <2>2. pathPtr + 1 \in 1..Len(Path)
    BY <1>1, <1>2, <2>1
  <2>3. next \in Nibble
    BY <2>1, <2>2
  <2> QED
    BY <2>1, <2>3, BaseAssumption DEF Nibble
<1>4. CASE i < N /\ next = pathData[i][1]
  <2>1. key = Hash(nodes[i + 1])
    BY <1>1, <1>4, GeneratedNodes
  <2>2. Len(pathData[i]) = 1
    BY <1>2, <1>4
  <2>3. pathPtr + Len(pathData[i]) =< Len(Path)
    BY <1>1, <1>2, <1>3, <2>2
  <2>4. \A j \in 1..Len(pathData[i]) : pathData[i][j] = Path[pathPtr + j]
    <3>1. \A j \in 1..Len(pathData[i]) : j = 1
      BY <2>2
    <3> QED
      BY <1>4, <3>1
  <2>5. OnPath'
    BY <1>1, <1>4, <2>1, <2>2, <2>3, <2>4, GoesToNext
  <2> QED
    BY <1>1, <2>5, GoesRight
<1>5. CASE ~(i < N /\ next = pathData[i][1])
  <2>1. key \in {Empty, RandomKeccak256}
    <3>1. ~(i < N /\ next + 1 = pathData[i][1] + 1)
      <4>1. CASE i < N
        <5>1. Len(pathData[i]) = 1 /\ pathData[i] \in Seq(Nibble)
          BY <1>1, <1>2, <4>1, BehindNode
        <5>2. pathData[i][1] \in Nibble
          BY <5>1
        <5>3. \A a, b \in Nibble : a + 1 = b + 1 => a = b
          BY BaseAssumption DEF Nibble
        <5> QED
          BY <1>3, <1>5, <4>1, <5>2, <5>3, Zenon
      <4> QED
        BY <4>1
    <3> QED
      BY <1>1, <1>3, <3>1, GeneratedNodes
  <2>2. proof.encodedPath # path
    <3>1. CASE i = N
      <4>1. Len(Path) # Len(PathNibbles)
        BY <1>1, <1>2, <1>3, <3>1
      <4> QED
        BY <4>1, PathIsDecided
    <3>2. CASE i < N
      <4>1. pathPtr + 1 \in 1..Len(Path)
        BY <1>1, <1>2, <1>3
      <4>2. pathData[i][1] = PathNibbles[pathPtr + 1]
        <5>1. 1 \in 1..Len(pathData[i])
          BY <1>2, <3>2
        <5> QED
          BY <1>1, <1>2, <5>1
      <4>3. Path[pathPtr + 1] # PathNibbles[pathPtr + 1]
        BY <1>5, <3>2, <4>2
      <4> QED
        BY <4>1, <4>3, PathIsDecided
    <3> QED
      BY <1>1, <1>2, <3>1, <3>2
  <2>3. OffPath'
    BY <1>1, <2>1, <2>2, GoesAstray
  <2> QED
    BY <1>1, <2>3, GoesRight
<1> QED
  BY <1>4, <1>5
\* What holds at a leaf or extension node, however the loop goes on.
LEMMA AtShortNode ==
    ASSUME BuiltOK, phase = "created", VerifyOK, OnPath, IsShort
    PROVE  /\ i \in 1..Len(pattern) /\ pattern[i] # "b" /\ Node = nodes[i]
           /\ PartialPath = pathData[i]
           /\ pathPtr \in Nat /\ Len(Path) \in Nat /\ Len(PathNibbles) \in Nat
           /\ Len(pathData[i]) \in Nat \ {0} /\ Len(pattern) \in Nat
           /\ pathPtr + Len(pathData[i]) =< Len(PathNibbles)
           /\ i = Len(pattern) =>
                 pathPtr + Len(pathData[i]) = Len(PathNibbles)
           /\ i # Len(pattern) =>
                 pathPtr + Len(pathData[i]) < Len(PathNibbles)
           /\ \A j \in 1..Len(pathData[i]) :
                 pathData[i][j] = PathNibbles[pathPtr + j]
<1>1. /\ i \in 1..Len(pattern) /\ pattern[i] # "b" /\ Node = nodes[i]
      /\ PartialPath = pathData[i] /\ pathPtr = Behind(i)
  BY AtGeneratedNode
<1>2. pattern[i] \in Symbol
  BY <1>1 DEF BuiltOK, PatternOK
<1>3. Len(Path) \in Nat
  BY PathIsDecided
<1>4. /\ Behind(i) \in Nat /\ Len(PathNibbles) \in Nat
      /\ Len(pathData[i]) \in Nat /\ Len(pathData[i]) > 0 /\ Len(pattern) \in Nat
      /\ Behind(i + 1) = Behind(i) + Len(pathData[i])
      /\ Behind(i + 1) =< Len(PathNibbles)
      /\ i = Len(pattern) => Behind(i + 1) = Len(PathNibbles)
      /\ pattern[i] = "e" => Behind(i + 1) < Len(PathNibbles)
      /\ pattern[i] = "l" => i = Len(pattern)
      /\ \A j \in 1..Len(pathData[i]) :
            pathData[i][j] = PathNibbles[Behind(i) + j]
  BY <1>1, BehindNode
<1>5. i # Len(pattern) => Behind(i + 1) < Len(PathNibbles)
  BY <1>1, <1>2, <1>4 DEF Symbol
<1> QED
  BY <1>1, <1>3, <1>4, <1>5

LEMMA OverrunStep ==
    ASSUME BuiltOK, phase = "created", VerifyOK, OnPath, UNCHANGED generatorVars,
           Overruns
    PROVE  VerifyOK'
<1>1. IsShort /\ pathPtr + Len(PartialPath) > Len(Path) /\ Ends("reverted")
  BY DEF Overruns
<1>2. Len(Path) # Len(PathNibbles)
  BY <1>1, AtShortNode
<1>3. proof.encodedPath # path
  BY <1>2, PathIsDecided
<1> QED
  BY <1>1, <1>3, EndsRight

LEMMA LeafStep ==
    ASSUME BuiltOK, phase = "created", VerifyOK, OnPath, UNCHANGED generatorVars,
           AtLeaf
    PROVE  VerifyOK'
<1> DEFINE answer == Answer(Data(Node[2]) = proof.value)
           l == Len(pathData[i])
<1>1. /\ IsShort /\ pathPtr + Len(PartialPath) =< Len(Path)
      /\ pathPtr + NibblesToTraverse = Len(Path) /\ Ends(answer)
  BY DEF AtLeaf, AtShort
<1>2. /\ i \in 1..Len(pattern) /\ pattern[i] # "b" /\ PartialPath = pathData[i]
      /\ pathPtr \in Nat /\ Len(Path) \in Nat /\ Len(PathNibbles) \in Nat
      /\ l \in Nat \ {0}
      /\ i = Len(pattern) => pathPtr + l = Len(PathNibbles)
      /\ i # Len(pattern) => pathPtr + l < Len(PathNibbles)
      /\ \A j \in 1..l : pathData[i][j] = PathNibbles[pathPtr + j]
  BY <1>1, AtShortNode
<1>3. /\ NibblesToTraverse \in {0, l}
      /\ NibblesToTraverse # 0
           <=> \A j \in 1..l : pathData[i][j] = Path[pathPtr + j]
  BY <1>1, <1>2, Traversed
<1> HIDE DEF l
<1>4. /\ pathPtr + l = Len(Path)
      /\ \A j \in 1..l : pathData[i][j] = Path[pathPtr + j]
  <2>1. pathPtr + l =< Len(Path)
    BY <1>1, <1>2 DEF l
  <2>2. NibblesToTraverse # 0
    BY <1>1, <1>2, <1>3, <2>1
  <2> QED
    BY <1>1, <1>2, <1>3, <2>2
<1>5. ASSUME NEW k \in 1..Len(Path)
      PROVE  Path[k] = PathNibbles[k]
  <2>1. CASE k =< pathPtr
    <3>1. k \in 1..pathPtr
      BY <1>2, <2>1
    <3> QED
      BY <3>1 DEF OnPath
  <2>2. CASE k > pathPtr
    <3> DEFINE j == k - pathPtr
    <3>1. j \in 1..l /\ pathPtr + j = k
      BY <1>2, <1>4, <2>2
    <3>2. pathData[i][j] = Path[pathPtr + j]
          /\ pathData[i][j] = PathNibbles[pathPtr + j]
      BY <1>2, <1>4, <3>1
    <3> QED
      BY <3>1, <3>2
  <2> QED
    BY <1>2, <2>1, <2>2
<1>6. proof.encodedPath = path <=> i = Len(pattern)
  <2>1. proof.encodedPath = path <=> Len(Path) = Len(PathNibbles)
    BY <1>5, PathIsDecided
  <2> QED
    BY <1>2, <1>4, <2>1
<1>7. answer = IF i = Len(pattern) THEN "true" ELSE "false"
  BY <1>2, AnswerOfNode DEF Answer
<1> HIDE DEF answer
<1> QED
  BY <1>1, <1>6, <1>7, EndsRight

LEMMA UntraversedStep ==
    ASSUME BuiltOK, phase = "created", VerifyOK, OnPath, UNCHANGED generatorVars,
           Untraversed
    PROVE  VerifyOK'
<1> DEFINE l == Len(pathData[i])
<1>1. /\ IsShort /\ pathPtr + Len(PartialPath) =< Len(Path)
      /\ NibblesToTraverse = 0 /\ Ends("false")
  BY DEF Untraversed, AtShort
<1>2. /\ i \in 1..Len(pattern) /\ pattern[i] # "b" /\ PartialPath = pathData[i]
      /\ pathPtr \in Nat /\ Len(Path) \in Nat /\ l \in Nat
      /\ \A j \in 1..l : pathData[i][j] = PathNibbles[pathPtr + j]
  BY <1>1, AtShortNode
<1>3. PICK j \in 1..l : pathData[i][j] # Path[pathPtr + j]
  BY <1>1, <1>2, Traversed
<1>4. pathPtr + j \in 1..Len(Path)
  <2>1. pathPtr + l =< Len(Path)
    BY <1>1, <1>2
  <2> HIDE DEF l
  <2> QED
    BY <1>2, <2>1
<1>5. Path[pathPtr + j] # PathNibbles[pathPtr + j]
  BY <1>2, <1>3
<1>6. proof.encodedPath # path
  BY <1>4, <1>5, PathIsDecided
<1> QED
  BY <1>1, <1>6, EndsRight

LEMMA ExtensionStep ==
    ASSUME BuiltOK, phase = "created", VerifyOK, OnPath, UNCHANGED generatorVars,
           result = "running", AtExtension
    PROVE  VerifyOK'
<1> DEFINE l == Len(pathData[i])
<1>1. /\ IsShort /\ pathPtr + Len(PartialPath) =< Len(Path)
      /\ pathPtr + NibblesToTraverse < Len(Path) /\ NibblesToTraverse > 0
      /\ Goes(NibblesToTraverse, Node[2])
  BY DEF AtExtension, AtShort
<1>2. /\ i \in 1..Len(pattern) /\ pattern[i] # "b" /\ PartialPath = pathData[i]
      /\ Node = nodes[i] /\ Len(pattern) \in Nat
      /\ pathPtr \in Nat /\ Len(Path) \in Nat /\ Len(PathNibbles) \in Nat
      /\ l \in Nat \ {0}
      /\ i = Len(pattern) => pathPtr + l = Len(PathNibbles)
  BY <1>1, AtShortNode
<1>3. /\ NibblesToTraverse = l
      /\ \A j \in 1..l : pathData[i][j] = Path[pathPtr + j]
  BY <1>1, <1>2, Traversed
<1>4. Node[2] = IF i = Len(pattern) THEN Value ELSE Hash(nodes[i + 1])
  BY <1>2, GeneratedNodes
<1>5. CASE i = Len(pattern)
  <2>1. Len(Path) # Len(PathNibbles)
    BY <1>1, <1>2, <1>3, <1>5
  <2>2. proof.encodedPath # path
    BY <2>1, PathIsDecided
  <2>3. OffPath'
    BY <1>1, <1>4, <1>5, <2>2, GoesAstray
  <2> QED
    BY <1>1, <2>3, GoesRight
<1>6. CASE i # Len(pattern)
  <2>1. i < Len(pattern) /\ Goes(l, Hash(nodes[i + 1]))
    BY <1>1, <1>2, <1>3, <1>4, <1>6
  <2>2. pathPtr + l =< Len(Path)
    BY <1>1, <1>2
  <2>3. OnPath'
    BY <1>3, <2>1, <2>2, GoesToNext
  <2> QED
    BY <1>1, <2>3, GoesRight
<1> QED
  BY <1>5, <1>6

LEMMA OffPathStep ==
    ASSUME BuiltOK, phase = "created", VerifyOK, OffPath, UNCHANGED generatorVars,
           result = "running", VerifyStep
    PROVE  VerifyOK'
<1>1. ~(AtNode /\ Admitted)
  <2> SUFFICES ASSUME AtNode, Admitted PROVE FALSE
    OBVIOUS
  <2>1. i \in 1..Len(nodes) /\ nodeKey = Hash(nodes[i])
    <3>1. proof.parentNodes = nodes /\ Len(nodes) \in Nat
      BY DEF VerifyOK, BuiltOK, NodesOK, IsSequence
    <3> QED
      BY <3>1 DEF OffPath, AtNode, Admitted, Node
  <2> QED
    BY <2>1 DEF OffPath
<1>2. Ends("false")
  BY <1>1 DEF VerifyStep, Rejects, AtBranchEnd, AtBranch, Overruns, AtShort,
              AtLeaf, Untraversed, AtExtension, Exhausted
<1> QED
  BY <1>2, EndsRight DEF OffPath

LEMMA VerifyStepKeeps ==
    ASSUME FuzzyInv, VerifyStep, UNCHANGED generatorVars
    PROVE  FuzzyInv'
<1>1. result = "running"
  BY DEF VerifyStep, Rejects, AtBranchEnd, AtBranch, Overruns, AtShort,
         AtLeaf, Untraversed, AtExtension, Exhausted, AtNode
<1>2. phase = "created" /\ BuiltOK /\ VerifyOK
  BY <1>1 DEF FuzzyInv
<1>3. VerifyOK'
  <2>1. CASE OffPath
    BY <1>1, <1>2, <2>1, OffPathStep
  <2>2. CASE OnPath
    <3>1. Admitted /\ i =< Len(proof.parentNodes)
      BY <1>2, <2>2, AtGeneratedNode, BehindNode
    <3>2. ~Rejects /\ ~Exhausted
      <4>1. Len(proof.parentNodes) \in Nat /\ i \in Nat
        BY <1>2, <2>2, AtGeneratedNode, BehindNode
      <4> QED
        BY <3>1, <4>1 DEF Rejects, Exhausted
    <3> QED
      BY <1>1, <1>2, <2>2, <3>2, BranchEndStep, BranchStep, OverrunStep,
         LeafStep, UntraversedStep, ExtensionStep DEF VerifyStep
  <2> QED
    BY <1>1, <1>2, <2>1, <2>2 DEF VerifyOK
<1>4. BuiltOK'
  BY <1>2 DEF BuiltOK, PatternOK, SectionsOK, NodesOK, PathNibbles, Behind,
              generatorVars
<1>5. result' \in {"running", "true", "false", "reverted"} /\ phase' = phase
  BY <1>1 DEF VerifyStep, Rejects, AtBranchEnd, AtBranch, Overruns, AtShort,
              AtLeaf, Untraversed, AtExtension, Exhausted, Ends, Goes, Answer,
              generatorVars
<1> QED
  BY <1>2, <1>3, <1>4, <1>5 DEF FuzzyInv

LEMMA VerifyWithKeeps ==
    ASSUME FuzzyInv, VerifyWith
    PROVE  FuzzyInv'
<1>1. phase = "created" /\ BuiltOK /\ UNCHANGED generatorVars
  BY DEF VerifyWith, FuzzyInv
<1>2. PICK encodedPath \in {path} \cup UNION {Encoded(n) : n \in 0..MaxOtherPath} :
         Verify([value |-> ValueHash, encodedPath |-> encodedPath,
                 parentNodes |-> nodes, root |-> Hash(nodes[1])])
  BY DEF VerifyWith
<1>3. /\ result = "idle" /\ i = 1 /\ pathPtr = 0
      /\ proof'.value = ValueHash /\ proof'.encodedPath = encodedPath
      /\ proof'.parentNodes = nodes /\ nodeKey' = Hash(nodes[1])
      /\ result' = IF encodedPath = <<>> THEN "false" ELSE "running"
      /\ UNCHANGED <<i, pathPtr>>
  BY <1>2 DEF Verify, FuzzyInv
<1>4. PICK m \in Nat \ {0} : path \in Encoded(m)
  BY <1>1 DEF BuiltOK, SectionsOK
<1>5. PICK n \in Nat : encodedPath \in Encoded(n)
  <2>1. CASE encodedPath = path
    BY <1>4, <2>1
  <2>2. CASE encodedPath # path
    <3>1. PICK n \in 0..MaxOtherPath : encodedPath \in Encoded(n)
      BY <2>2
    <3> QED
      BY <3>1, GeneratorAssumption
  <2> QED
    BY <2>1, <2>2
<1>6. UNCHANGED <<phase, pattern, path, pathData, nodes>>
  BY <1>1 DEF generatorVars
<1>7. BuiltOK'
  BY <1>1, <1>6 DEF BuiltOK, PatternOK, SectionsOK, NodesOK, PathNibbles, Behind
<1>8. OnPath'
  <2>1. Len(Path') \in Nat
    <3>1. Path' = ToNibbles(encodedPath)
      BY <1>3 DEF Path
    <3>2. Len(ToNibbles(encodedPath)) = 2 * n
      BY <1>5, NibblesOfBytes
    <3> QED
      BY <3>1, <3>2
  <2>2. /\ Len(nodes) = Len(pattern) /\ 1 \in 1..Len(pattern)
    BY <1>1 DEF BuiltOK, PatternOK
  <2>3. Offset(pathData, 1) = 0
    BY <1>1, <2>2, BehindNode DEF Behind
  <2> QED
    BY <1>3, <1>6, <2>1, <2>2, <2>3 DEF OnPath, Behind
<1>9. path # <<>>
  <2>1. Len(path) = m
    BY <1>4 DEF Encoded
  <2> QED
    BY <1>4, <2>1
<1>10. VerifyOK'
  <2>1. ValueHash' = ValueHash
    BY <1>6 DEF ValueHash, EndingWithBranchNode
  <2>2. \E k \in Nat : proof'.encodedPath \in Encoded(k)
    BY <1>3, <1>5
  <2>3. result' \in {"true", "false", "reverted"} =>
           (result' = "true" <=> proof'.encodedPath = path')
    BY <1>3, <1>6, <1>9
  <2> QED
    BY <1>3, <1>6, <1>8, <2>1, <2>2, <2>3 DEF VerifyOK
<1> QED
  BY <1>1, <1>3, <1>6, <1>7, <1>10 DEF FuzzyInv

(***************************************************************************)
(* While the contract verifies a generated proof, its loop is at the node  *)
(* that the path so far leads to, or looks for a hash that no node has;    *)
(* and it answers true if and only if the path is the proof's own.         *)
(***************************************************************************)
THEOREM FuzzyInvariant == FuzzySpec => []FuzzyInv
<1>1. FuzzyInit => FuzzyInv
  <2> SUFFICES ASSUME FuzzyInit PROVE FuzzyInv
    OBVIOUS
  <2>1. pattern \in Seq(Symbol)
    <3>1. PICK n \in 0..MaxPattern : pattern \in [1..n -> Symbol]
      BY DEF FuzzyInit
    <3>2. n \in Nat
      BY <3>1, GeneratorAssumption
    <3> QED
      BY <3>1, <3>2
  <2> QED
    BY <2>1 DEF FuzzyInit, VerifyInit, FuzzyInv
<1>2. FuzzyInv /\ [FuzzyNext]_fuzzyVars => FuzzyInv'
  <2> SUFFICES ASSUME FuzzyInv, [FuzzyNext]_fuzzyVars PROVE FuzzyInv'
    OBVIOUS
  <2>1. CASE UNCHANGED fuzzyVars
    BY <2>1 DEF fuzzyVars, generatorVars, verifyVars, FuzzyInv, BuiltOK,
       PatternOK, SectionsOK, NodesOK, PathNibbles, Behind, VerifyOK, OnPath,
       OffPath, Path, ValueHash, EndingWithBranchNode
  <2>2. CASE Reject
    <3>1. phase = "called" /\ phase' = "rejected"
          /\ UNCHANGED <<result, i, pathPtr>>
      BY <2>2 DEF Reject, verifyVars
    <3> QED
      BY <3>1 DEF FuzzyInv
  <2> QED
    BY <2>1, <2>2, GenerateKeeps, CreateKeeps, CreatedKeeps, VerifyWithKeeps,
       VerifyStepKeeps DEF FuzzyNext
<1> QED
  BY <1>1, <1>2, PTL DEF FuzzySpec

(***************************************************************************)
(* Whatever pattern the tool accepts and however it cuts the path, for any *)
(* width of a branch, the contract verifies the generated proof.           *)
(***************************************************************************)
THEOREM GeneratedProofsVerify == FuzzySpec => []GeneratedVerifies
<1>1. FuzzyInv => GeneratedVerifies
  BY DEF FuzzyInv, VerifyOK, GeneratedVerifies, Verified
<1> QED
  BY <1>1, FuzzyInvariant, PTL

(***************************************************************************)
(* The contract accepts a generated proof on no path but its own.          *)
(***************************************************************************)
THEOREM ProofsAreOfOnePath == FuzzySpec => []OnlyOnItsPath
<1>1. FuzzyInv => OnlyOnItsPath
  BY DEF FuzzyInv, VerifyOK, OnlyOnItsPath
<1> QED
  BY <1>1, FuzzyInvariant, PTL
=============================================================================
