-------------------------- MODULE IntegrationProofs --------------------------
(***************************************************************************)
(* The suite of test_integration for any fees.  What a test relies on and  *)
(* leaves behind is a matter of the order of the calls, so the proof gives *)
(* every position of Suite the statuses that the request of the test has   *)
(* there on its source and on its target chain (Phases), shows once that   *)
(* each call leads from its statuses to those of the next (SuiteOrder),    *)
(* and relates the processes and balances to the statuses (SuiteInv).      *)
(***************************************************************************)
EXTENDS IntegrationTests, SequenceTheorems, TLAPS

DeployCalls == {"deployTokens", "deployGateways", "activateGateway",
                "initializeOSTPrime"}
NewCalls == {"newStakeRequest", "newRedeemRequest", "newPoolRequest"}
StakeCalls == {"stake", "confirmStakeIntent", "progressStake",
               "progressStakeWithProof", "progressMint",
               "progressMintWithProof", "revertStake",
               "confirmRevertStakeIntent", "progressRevertStake"}
RedeemCalls == {"redeem", "requestRedeem", "acceptRedeem",
                "confirmRedeemIntent", "progressRedeem",
                "progressRedeemWithProof", "progressUnstake",
                "progressUnstakeWithProof", "revertRedeem",
                "confirmRevertRedeemIntent", "progressRevertRedeem"}

\* An unstake is of tokens that were redeemed and are not given back.
UnstakeCalls == {"progressUnstake", "progressUnstakeWithProof"}

\* The statuses of a request on its source and on its target chain.
NoneYet == <<"Undeclared", "Undeclared">>
Declared1 == <<"Declared", "Undeclared">>
Declared2 == <<"Declared", "Declared">>
Revoking == <<"DeclaredRevocation", "Declared">>

\* What they are after a call, if they are ph before.
After(name, ph) ==
    CASE name \in {"stake", "redeem", "acceptRedeem"} -> <<"Declared", ph[2]>>
      [] name \in {"confirmStakeIntent", "confirmRedeemIntent"} ->
           <<ph[1], "Declared">>
      [] name \in {"progressStake", "progressStakeWithProof",
                   "progressRedeem", "progressRedeemWithProof"} ->
           <<"Progressed", ph[2]>>
      [] name \in {"progressMint", "progressMintWithProof",
                   "progressUnstake", "progressUnstakeWithProof"} ->
           <<ph[1], "Progressed">>
      [] name \in {"revertStake", "revertRedeem"} ->
           <<"DeclaredRevocation", ph[2]>>
      [] name \in {"confirmRevertStakeIntent", "confirmRevertRedeemIntent"} ->
           <<ph[1], "Revoked">>
      [] name \in {"progressRevertStake", "progressRevertRedeem"} ->
           <<"Revoked", ph[2]>>
      [] name \in NewCalls -> NoneYet
      [] OTHER -> ph

\* The statuses of a request that is over; those of the first are NoneYet.
Over == {NoneYet, <<"Progressed", "Progressed">>, <<"Revoked", "Revoked">>}

\* A test or the deployment may end with the call.
Closing(name, ph) ==
    /\ After(name, ph) \in Over
    /\ name \in DeployCalls => name = "initializeOSTPrime"
    /\ name # "requestRedeem"

\* The call "next" with its statuses may follow the call "name" with its own.
Follows(name, ph, next, phNext) ==
    IF next \in NewCalls THEN Closing(name, ph)
    ELSE /\ phNext = After(name, ph)
         /\ next \in StakeCalls => name \in StakeCalls \cup {"newStakeRequest"}
         /\ next \in RedeemCalls =>
              name \in RedeemCalls \cup {"newRedeemRequest", "newPoolRequest"}
         /\ next \in DeployCalls <=> name \in DeployCalls
         /\ name # "initializeOSTPrime"
         /\ next = "acceptRedeem" <=> name = "requestRedeem"
         /\ next \in UnstakeCalls =>
              phNext[1] \in {"Declared", "DeclaredRevocation", "Progressed"}

\* The statuses before each call of the deployment and of the kinds of tests:
\* by secrets, through the pool, with proofs, reverted, and progressed although
\* the source declared the revocation.
DeployPhases == <<NoneYet, NoneYet, NoneYet, NoneYet>>
SecretPhases == <<NoneYet, NoneYet, Declared1, Declared2,
                  <<"Progressed", "Declared">>>>
PoolPhases == <<NoneYet, NoneYet, NoneYet, Declared1, Declared2,
                <<"Progressed", "Declared">>>>
ProofPhases == <<NoneYet, NoneYet, Declared1, Declared2,
                 <<"Progressed", "Declared">>,
                 NoneYet, NoneYet, Declared1, Declared2,
                 <<"Declared", "Progressed">>>>
RevertPhases == <<NoneYet, NoneYet, Declared1, Declared2, Revoking,
                  <<"DeclaredRevocation", "Revoked">>>>
AfterRevertPhases == <<NoneYet, NoneYet, Declared1, Declared2, Revoking,
                       <<"DeclaredRevocation", "Progressed">>>>

Phases ==
    DeployPhases \o SecretPhases \o ProofPhases \o RevertPhases
    \o AfterRevertPhases \o SecretPhases \o PoolPhases \o ProofPhases
    \o RevertPhases \o AfterRevertPhases

Ordered(calls, phases) ==
    /\ \E S, T : calls \in Seq(S) /\ phases \in Seq(T)
    /\ Len(phases) = Len(calls) /\ Len(calls) >= 1
    /\ \A i \in 1 .. Len(calls) - 1 :
          Follows(calls[i][1], phases[i], calls[i + 1][1], phases[i + 1])
    /\ Closing(calls[Len(calls)][1], phases[Len(calls)])

-----------------------------------------------------------------------------
Source == IF request.sender = "origin0" THEN "origin" ELSE "auxiliary"
SourceOf(s) == IF s = "origin0" THEN "origin" ELSE "auxiliary"

InSource == StatusOf(Source, request)
InTarget == StatusOf(Other(Source), request)
Statuses == <<InSource, InTarget>>

Name == IF at =< Len(Suite) THEN Suite[at][1] ELSE "none"

ProcessStatus == {"Declared", "DeclaredRevocation", "Progressed", "Revoked"}

IntegrationTypeOK ==
    /\ at \in 1 .. Len(Suite) + 1
    /\ balance \in [Ledger -> [Holder -> Int]]
    /\ process \in [Chain -> [Sender -> [nonce : Int, status : ProcessStatus,
                                         amount : Nat, bounty : Nat]]]
    /\ request \in [sender : Sender, amount : Nat, reward : Nat, bounty : Nat,
                    nonce : Int, unlockSecret : {"none", "secret"}]

\* The process that a sender has is over on both chains.
Settled(s) ==
    LET source == process[SourceOf(s)][s]
        target == process[Other(SourceOf(s))][s]
    IN  /\ source.nonce = target.nonce
        /\ source.status = target.status
        /\ source.status \in {"Progressed", "Revoked"}

\* The statuses are those of the position, and the request is one of its test.
RequestInv ==
    /\ IF at > Len(Suite) \/ Name \in NewCalls THEN Statuses \in Over
       ELSE Statuses = Phases[at]
    /\ Name \in StakeCalls => request.sender = "origin0"
    /\ Name \in RedeemCalls => request.sender # "origin0"
    /\ Name \in StakeCalls \cup RedeemCalls => request.bounty = Bounty
    /\ Name \in UnstakeCalls =>
         InSource \in {"Declared", "DeclaredRevocation", "Progressed"}

\* Only the sender of the request has a process under way, which is about it.
ProcessInv ==
    /\ \A s \in Sender \ {request.sender} : Settled(s)
    /\ InSource = "Undeclared" => Settled(request.sender)
    /\ process[Other(Source)][request.sender].nonce
         =< process[Source][request.sender].nonce
    /\ \A c \in Chain :
          StatusOf(c, request) # "Undeclared" =>
             /\ process[c][request.sender].amount = request.amount
             /\ process[c][request.sender].bounty = request.bounty

\* What the gateway of a chain keeps for a request that is declared there.
Keeps(c) == Source = c /\ InSource \in {"Declared", "DeclaredRevocation"}
KeptAmount(c) == IF Keeps(c) THEN request.amount ELSE 0
KeptBounty(c) == IF Keeps(c) THEN request.bounty ELSE 0

\* What has left one chain and has not arrived on the other.
Underway ==
    CASE Source = "origin"
           /\ InSource = "Progressed" /\ InTarget # "Progressed" ->
           request.amount
      [] Source = "origin"
           /\ InSource # "Progressed" /\ InTarget = "Progressed" ->
           -request.amount
      [] Source = "auxiliary" /\ InTarget # "Progressed"
           /\ InSource \in {"Declared", "DeclaredRevocation", "Progressed"} ->
           request.amount
      [] OTHER -> 0

Pooled == IF Name = "acceptRedeem" THEN request.amount ELSE 0

HoldingsInv ==
    /\ \A l \in Ledger :
          /\ balance[l]["proxy"] = 0
          /\ l # "ostPrime" => balance[l]["redeemPool"] = 0
          /\ l \notin {"token", "baseToken"} => balance[l]["gateway"] = 0
          /\ l \notin {"ostPrime", "coin"} => balance[l]["coGateway"] = 0
    /\ balance["ostPrime"]["redeemPool"] = Pooled
    /\ balance["token"]["gateway"] = KeptAmount("origin")
    /\ balance["baseToken"]["gateway"] = KeptBounty("origin")
    /\ balance["ostPrime"]["coGateway"] = KeptAmount("auxiliary")
    /\ balance["coin"]["coGateway"] = KeptBounty("auxiliary")

Supply == Underway + Pooled + (IF Name \in DeployCalls THEN 0 ELSE TokensMax)

SupplyInv ==
    balance["token"]["stakeVault"] + balance["coin"]["ostPrime"]
      = balance["ostPrime"]["auxiliary2"] + Supply

SuiteInv ==
    /\ IntegrationTypeOK
    /\ RequestInv
    /\ ProcessInv
    /\ HoldingsInv
    /\ SupplyInv
    /\ asserted
-----------------------------------------------------------------------------
\* One test after the other.
LEMMA Join ==
    ASSUME NEW c, NEW p, NEW d, NEW q, Ordered(c, p), Ordered(d, q),
           d[1][1] \in NewCalls
    PROVE  Ordered(c \o d, p \o q)
<1>. DEFINE cd == c \o d
            pq == p \o q
<1>1. PICK A, B, P, Q :
         c \in Seq(A) /\ d \in Seq(B) /\ p \in Seq(P) /\ q \in Seq(Q)
  BY DEF Ordered
<1>2. /\ Len(p) = Len(c) /\ Len(q) = Len(d) /\ Len(c) >= 1 /\ Len(d) >= 1
      /\ Len(c) \in Nat /\ Len(d) \in Nat
  BY <1>1 DEF Ordered
<1>3. /\ c \in Seq(A \cup B) /\ d \in Seq(A \cup B)
      /\ p \in Seq(P \cup Q) /\ q \in Seq(P \cup Q)
  BY <1>1
<1>4. /\ cd \in Seq(A \cup B) /\ Len(cd) = Len(c) + Len(d)
      /\ \A i \in 1 .. Len(c) + Len(d) :
            cd[i] = IF i =< Len(c) THEN c[i] ELSE d[i - Len(c)]
  BY ONLY <1>3, ConcatProperties, Zenon
<1>5. /\ pq \in Seq(P \cup Q) /\ Len(pq) = Len(p) + Len(q)
      /\ \A i \in 1 .. Len(p) + Len(q) :
            pq[i] = IF i =< Len(p) THEN p[i] ELSE q[i - Len(p)]
  BY ONLY <1>3, ConcatProperties, Zenon
<1>. HIDE DEF cd, pq
<1>6. ASSUME NEW i \in 1 .. Len(cd) - 1
      PROVE  Follows(cd[i][1], pq[i], cd[i + 1][1], pq[i + 1])
  <2>0. /\ i \in 1 .. Len(c) + Len(d) /\ i + 1 \in 1 .. Len(c) + Len(d)
        /\ i \in Int
    BY <1>2, <1>4
  <2>a. /\ cd[i] = IF i =< Len(c) THEN c[i] ELSE d[i - Len(c)]
        /\ pq[i] = IF i =< Len(c) THEN p[i] ELSE q[i - Len(c)]
    BY <1>2, <1>4, <1>5, <2>0
  <2>b. /\ cd[i + 1] = IF i + 1 =< Len(c) THEN c[i + 1] ELSE d[i + 1 - Len(c)]
        /\ pq[i + 1] = IF i + 1 =< Len(c) THEN p[i + 1] ELSE q[i + 1 - Len(c)]
    BY <1>2, <1>4, <1>5, <2>0
  <2>1. CASE i < Len(c)
    <3>1. /\ i \in 1 .. Len(c) - 1
          /\ cd[i] = c[i] /\ cd[i + 1] = c[i + 1]
          /\ pq[i] = p[i] /\ pq[i + 1] = p[i + 1]
      BY <1>2, <2>0, <2>a, <2>b, <2>1
    <3>. QED
      BY <3>1 DEF Ordered
  <2>2. CASE i = Len(c)
    <3>1. /\ cd[i] = c[Len(c)] /\ pq[i] = p[Len(c)]
          /\ cd[i + 1] = d[i + 1 - Len(c)]
      BY <1>2, <2>0, <2>a, <2>b, <2>2
    <3>2. i + 1 - Len(c) = 1
      BY <1>2, <2>2
    <3>3. Closing(c[Len(c)][1], p[Len(c)])
      BY DEF Ordered
    <3>. QED
      BY <3>1, <3>2, <3>3 DEF Follows
  <2>3. CASE i > Len(c)
    <3>. DEFINE j == i - Len(c)
    <3>1. j \in 1 .. Len(d) - 1 /\ i + 1 - Len(c) = j + 1
      BY <1>2, <2>0, <2>3
    <3>2. /\ cd[i] = d[j] /\ cd[i + 1] = d[j + 1]
          /\ pq[i] = q[j] /\ pq[i + 1] = q[j + 1]
      BY <1>2, <2>0, <2>a, <2>b, <2>3, <3>1
    <3>. HIDE DEF j
    <3>. QED
      BY <3>1, <3>2 DEF Ordered
  <2>. QED
    BY <1>2, <2>0, <2>1, <2>2, <2>3
<1>7. Closing(cd[Len(cd)][1], pq[Len(cd)])
  <2>1. Closing(d[Len(d)][1], q[Len(d)])
    BY DEF Ordered
  <2>2. cd[Len(cd)] = d[Len(d)] /\ pq[Len(cd)] = q[Len(d)]
    BY <1>2, <1>4, <1>5
  <2>. QED
    BY <2>1, <2>2
<1>. QED
  BY <1>2, <1>4, <1>5, <1>6, <1>7 DEF Ordered, cd, pq

\* What begins with the deployment still does with a test after it.
DeployedOrder(calls, phases) ==
    /\ Ordered(calls, phases)
    /\ calls[1][1] = "deployTokens"
    /\ phases[1] = NoneYet

LEMMA JoinDeployed ==
    ASSUME NEW c, NEW p, NEW d, NEW q, DeployedOrder(c, p),
           Ordered(d, q), d[1][1] \in NewCalls
    PROVE  DeployedOrder(c \o d, p \o q)
<1>1. Ordered(c, p)
  BY DEF DeployedOrder
<1>2. Ordered(c \o d, p \o q)
  BY ONLY <1>1, Ordered(d, q), d[1][1] \in NewCalls, Join, Zenon
<1>3. (c \o d)[1] = c[1] /\ (p \o q)[1] = p[1]
  <2>1. PICK A, B, P, Q :
           c \in Seq(A) /\ d \in Seq(B) /\ p \in Seq(P) /\ q \in Seq(Q)
    BY <1>1 DEF Ordered
  <2>2. /\ Len(c) >= 1 /\ Len(p) >= 1 /\ Len(c) \in Nat /\ Len(d) \in Nat
        /\ Len(p) \in Nat /\ Len(q) \in Nat
    BY <1>1, <2>1 DEF Ordered
  <2>3. /\ c \in Seq(A \cup B) /\ d \in Seq(A \cup B)
        /\ p \in Seq(P \cup Q) /\ q \in Seq(P \cup Q)
    BY <2>1
  <2>4. /\ \A i \in 1 .. Len(c) + Len(d) :
              (c \o d)[i] = IF i =< Len(c) THEN c[i] ELSE d[i - Len(c)]
        /\ \A i \in 1 .. Len(p) + Len(q) :
              (p \o q)[i] = IF i =< Len(p) THEN p[i] ELSE q[i - Len(p)]
    BY ONLY <2>3, ConcatProperties, Zenon
  <2>5. 1 \in 1 .. Len(c) + Len(d) /\ 1 \in 1 .. Len(p) + Len(q)
    BY <2>2
  <2>. QED
    BY ONLY <2>2, <2>4, <2>5, Zenon
<1>. QED
  BY <1>2, <1>3 DEF DeployedOrder

\* The tests have four to ten calls.
LEMMA Tuple4 ==
    ASSUME NEW a, NEW b, NEW c, NEW d
    PROVE  \E S : <<a, b, c, d>> \in Seq(S)
<1>1. <<a, b, c, d>> \in Seq({a, b, c, d})
  OBVIOUS
<1>. QED
  BY <1>1

LEMMA Tuple5 ==
    ASSUME NEW a, NEW b, NEW c, NEW d, NEW e
    PROVE  \E S : <<a, b, c, d, e>> \in Seq(S)
<1>1. <<a, b, c, d, e>> \in Seq({a, b, c, d, e})
  OBVIOUS
<1>. QED
  BY <1>1

LEMMA Tuple6 ==
    ASSUME NEW a, NEW b, NEW c, NEW d, NEW e, NEW f
    PROVE  \E S : <<a, b, c, d, e, f>> \in Seq(S)
<1>1. <<a, b, c, d, e, f>> \in Seq({a, b, c, d, e, f})
  OBVIOUS
<1>. QED
  BY <1>1

LEMMA Tuple10 ==
    ASSUME NEW a, NEW b, NEW c, NEW d, NEW e, NEW f, NEW g,
           NEW h, NEW i, NEW j
    PROVE  \E S : <<a, b, c, d, e, f, g, h, i, j>> \in Seq(S)
<1>1. <<a, b, c, d, e, f, g, h, i, j>> \in Seq({a, b, c, d, e, f, g, h, i, j})
  OBVIOUS
<1>. QED
  BY <1>1

\* Each test is in order: its calls lead from statuses to statuses.
LEMMA DeployOrder ==
    /\ Ordered(Deploy, DeployPhases)
    /\ Deploy[1][1] = "deployTokens" /\ DeployPhases[1] = NoneYet
<1>. DEFINE c == Deploy
            p == DeployPhases
<1>. USE DEF Deploy, DeployPhases, NoneYet, Declared1, Declared2, Revoking
<1>1. (\E S : c \in Seq(S)) /\ (\E T : p \in Seq(T))
  BY Tuple4, Zenon
<1>2. Len(c) = 4 /\ Len(p) = 4
  OBVIOUS
<1>. USE DEF Follows, Closing, After, Over, NewCalls, StakeCalls, RedeemCalls,
             DeployCalls, UnstakeCalls
<1>3. /\ Follows(c[1][1], p[1], c[2][1], p[2])
      /\ Follows(c[2][1], p[2], c[3][1], p[3])
      /\ Follows(c[3][1], p[3], c[4][1], p[4])
  OBVIOUS
<1>4. Closing(c[4][1], p[4])
  OBVIOUS
<1>. HIDE DEF c, p, Follows, Closing
<1>5. \A i \in 1 .. Len(c) - 1 : Follows(c[i][1], p[i], c[i + 1][1], p[i + 1])
  BY ONLY <1>2, <1>3
<1>. QED
  BY <1>1, <1>2, <1>4, <1>5 DEF Ordered, c, p

LEMMA StakeAndMintOrder ==
    Ordered(StakeAndMint, SecretPhases) /\ StakeAndMint[1][1] \in NewCalls
<1>. DEFINE c == StakeAndMint
            p == SecretPhases
<1>. USE DEF StakeAndMint, SecretPhases, NoneYet,
             Declared1, Declared2, Revoking
<1>1. (\E S : c \in Seq(S)) /\ (\E T : p \in Seq(T))
  BY Tuple5, Zenon
<1>2. Len(c) = 5 /\ Len(p) = 5
  OBVIOUS
<1>. USE DEF Follows, Closing, After, Over, NewCalls, StakeCalls, RedeemCalls,
             DeployCalls, UnstakeCalls
<1>3. /\ Follows(c[1][1], p[1], c[2][1], p[2])
      /\ Follows(c[2][1], p[2], c[3][1], p[3])
      /\ Follows(c[3][1], p[3], c[4][1], p[4])
      /\ Follows(c[4][1], p[4], c[5][1], p[5])
  OBVIOUS
<1>4. Closing(c[5][1], p[5])
  OBVIOUS
<1>. HIDE DEF c, p, Follows, Closing
<1>5. \A i \in 1 .. Len(c) - 1 : Follows(c[i][1], p[i], c[i + 1][1], p[i + 1])
  BY ONLY <1>2, <1>3
<1>. QED
  BY <1>1, <1>2, <1>4, <1>5 DEF Ordered, c, p

LEMMA StakeAndMintWithProofOrder ==
    /\ Ordered(StakeAndMintWithProof, ProofPhases)
    /\ StakeAndMintWithProof[1][1] \in NewCalls
<1>. DEFINE c == StakeAndMintWithProof
            p == ProofPhases
<1>. USE DEF StakeAndMintWithProof, ProofPhases, NoneYet,
             Declared1, Declared2, Revoking
<1>1. (\E S : c \in Seq(S)) /\ (\E T : p \in Seq(T))
  BY Tuple10, Zenon
<1>2. Len(c) = 10 /\ Len(p) = 10
  OBVIOUS
<1>. USE DEF Follows, Closing, After, Over, NewCalls, StakeCalls, RedeemCalls,
             DeployCalls, UnstakeCalls
<1>3. /\ Follows(c[1][1], p[1], c[2][1], p[2])
      /\ Follows(c[2][1], p[2], c[3][1], p[3])
      /\ Follows(c[3][1], p[3], c[4][1], p[4])
      /\ Follows(c[4][1], p[4], c[5][1], p[5])
      /\ Follows(c[5][1], p[5], c[6][1], p[6])
      /\ Follows(c[6][1], p[6], c[7][1], p[7])
      /\ Follows(c[7][1], p[7], c[8][1], p[8])
      /\ Follows(c[8][1], p[8], c[9][1], p[9])
      /\ Follows(c[9][1], p[9], c[10][1], p[10])
  OBVIOUS
<1>4. Closing(c[10][1], p[10])
  OBVIOUS
<1>. HIDE DEF c, p, Follows, Closing
<1>5. \A i \in 1 .. Len(c) - 1 : Follows(c[i][1], p[i], c[i + 1][1], p[i + 1])
  BY ONLY <1>2, <1>3
<1>. QED
  BY <1>1, <1>2, <1>4, <1>5 DEF Ordered, c, p

LEMMA RevertStakeAndMintOrder ==
    /\ Ordered(RevertStakeAndMint, RevertPhases)
    /\ RevertStakeAndMint[1][1] \in NewCalls
<1>. DEFINE c == RevertStakeAndMint
            p == RevertPhases
<1>. USE DEF RevertStakeAndMint, RevertPhases, NoneYet,
             Declared1, Declared2, Revoking
<1>1. (\E S : c \in Seq(S)) /\ (\E T : p \in Seq(T))
  BY Tuple6, Zenon
<1>2. Len(c) = 6 /\ Len(p) = 6
  OBVIOUS
<1>. USE DEF Follows, Closing, After, Over, NewCalls, StakeCalls, RedeemCalls,
             DeployCalls, UnstakeCalls
<1>3. /\ Follows(c[1][1], p[1], c[2][1], p[2])
      /\ Follows(c[2][1], p[2], c[3][1], p[3])
      /\ Follows(c[3][1], p[3], c[4][1], p[4])
      /\ Follows(c[4][1], p[4], c[5][1], p[5])
      /\ Follows(c[5][1], p[5], c[6][1], p[6])
  OBVIOUS
<1>4. Closing(c[6][1], p[6])
  OBVIOUS
<1>. HIDE DEF c, p, Follows, Closing
<1>5. \A i \in 1 .. Len(c) - 1 : Follows(c[i][1], p[i], c[i + 1][1], p[i + 1])
  BY ONLY <1>2, <1>3
<1>. QED
  BY <1>1, <1>2, <1>4, <1>5 DEF Ordered, c, p

LEMMA StakeAndMintAfterRevertOrder ==
    /\ Ordered(StakeAndMintAfterRevert, AfterRevertPhases)
    /\ StakeAndMintAfterRevert[1][1] \in NewCalls
<1>. DEFINE c == StakeAndMintAfterRevert
            p == AfterRevertPhases
<1>. USE DEF StakeAndMintAfterRevert, AfterRevertPhases, NoneYet,
             Declared1, Declared2, Revoking
<1>1. (\E S : c \in Seq(S)) /\ (\E T : p \in Seq(T))
  BY Tuple6, Zenon
<1>2. Len(c) = 6 /\ Len(p) = 6
  OBVIOUS
<1>. USE DEF Follows, Closing, After, Over, NewCalls, StakeCalls, RedeemCalls,
             DeployCalls, UnstakeCalls
<1>3. /\ Follows(c[1][1], p[1], c[2][1], p[2])
      /\ Follows(c[2][1], p[2], c[3][1], p[3])
      /\ Follows(c[3][1], p[3], c[4][1], p[4])
      /\ Follows(c[4][1], p[4], c[5][1], p[5])
      /\ Follows(c[5][1], p[5], c[6][1], p[6])
  OBVIOUS
<1>4. Closing(c[6][1], p[6])
  OBVIOUS
<1>. HIDE DEF c, p, Follows, Closing
<1>5. \A i \in 1 .. Len(c) - 1 : Follows(c[i][1], p[i], c[i + 1][1], p[i + 1])
  BY ONLY <1>2, <1>3
<1>. QED
  BY <1>1, <1>2, <1>4, <1>5 DEF Ordered, c, p

LEMMA RedeemAndUnstakeOrder ==
    /\ Ordered(RedeemAndUnstake, SecretPhases)
    /\ RedeemAndUnstake[1][1] \in NewCalls
<1>. DEFINE c == RedeemAndUnstake
            p == SecretPhases
<1>. USE DEF RedeemAndUnstake, SecretPhases, NoneYet,
             Declared1, Declared2, Revoking
<1>1. (\E S : c \in Seq(S)) /\ (\E T : p \in Seq(T))
  BY Tuple5, Zenon
<1>2. Len(c) = 5 /\ Len(p) = 5
  OBVIOUS
<1>. USE DEF Follows, Closing, After, Over, NewCalls, StakeCalls, RedeemCalls,
             DeployCalls, UnstakeCalls
<1>3. /\ Follows(c[1][1], p[1], c[2][1], p[2])
      /\ Follows(c[2][1], p[2], c[3][1], p[3])
      /\ Follows(c[3][1], p[3], c[4][1], p[4])
      /\ Follows(c[4][1], p[4], c[5][1], p[5])
  OBVIOUS
<1>4. Closing(c[5][1], p[5])
  OBVIOUS
<1>. HIDE DEF c, p, Follows, Closing
<1>5. \A i \in 1 .. Len(c) - 1 : Follows(c[i][1], p[i], c[i + 1][1], p[i + 1])
  BY ONLY <1>2, <1>3
<1>. QED
  BY <1>1, <1>2, <1>4, <1>5 DEF Ordered, c, p

LEMMA RedeemWithPoolOrder ==
    Ordered(RedeemWithPool, PoolPhases) /\ RedeemWithPool[1][1] \in NewCalls
<1>. DEFINE c == RedeemWithPool
            p == PoolPhases
<1>. USE DEF RedeemWithPool, PoolPhases, NoneYet,
             Declared1, Declared2, Revoking
<1>1. (\E S : c \in Seq(S)) /\ (\E T : p \in Seq(T))
  BY Tuple6, Zenon
<1>2. Len(c) = 6 /\ Len(p) = 6
  OBVIOUS
<1>. USE DEF Follows, Closing, After, Over, NewCalls, StakeCalls, RedeemCalls,
             DeployCalls, UnstakeCalls
<1>3. /\ Follows(c[1][1], p[1], c[2][1], p[2])
      /\ Follows(c[2][1], p[2], c[3][1], p[3])
      /\ Follows(c[3][1], p[3], c[4][1], p[4])
      /\ Follows(c[4][1], p[4], c[5][1], p[5])
      /\ Follows(c[5][1], p[5], c[6][1], p[6])
  OBVIOUS
<1>4. Closing(c[6][1], p[6])
  OBVIOUS
<1>. HIDE DEF c, p, Follows, Closing
<1>5. \A i \in 1 .. Len(c) - 1 : Follows(c[i][1], p[i], c[i + 1][1], p[i + 1])
  BY ONLY <1>2, <1>3
<1>. QED
  BY <1>1, <1>2, <1>4, <1>5 DEF Ordered, c, p

LEMMA RedeemAndUnstakeWithProofOrder ==
    /\ Ordered(RedeemAndUnstakeWithProof, ProofPhases)
    /\ RedeemAndUnstakeWithProof[1][1] \in NewCalls
<1>. DEFINE c == RedeemAndUnstakeWithProof
            p == ProofPhases
<1>. USE DEF RedeemAndUnstakeWithProof, ProofPhases, NoneYet,
             Declared1, Declared2, Revoking
<1>1. (\E S : c \in Seq(S)) /\ (\E T : p \in Seq(T))
  BY Tuple10, Zenon
<1>2. Len(c) = 10 /\ Len(p) = 10
  OBVIOUS
<1>. USE DEF Follows, Closing, After, Over, NewCalls, StakeCalls, RedeemCalls,
             DeployCalls, UnstakeCalls
<1>3. /\ Follows(c[1][1], p[1], c[2][1], p[2])
      /\ Follows(c[2][1], p[2], c[3][1], p[3])
      /\ Follows(c[3][1], p[3], c[4][1], p[4])
      /\ Follows(c[4][1], p[4], c[5][1], p[5])
      /\ Follows(c[5][1], p[5], c[6][1], p[6])
      /\ Follows(c[6][1], p[6], c[7][1], p[7])
      /\ Follows(c[7][1], p[7], c[8][1], p[8])
      /\ Follows(c[8][1], p[8], c[9][1], p[9])
      /\ Follows(c[9][1], p[9], c[10][1], p[10])
  OBVIOUS
<1>4. Closing(c[10][1], p[10])
  OBVIOUS
<1>. HIDE DEF c, p, Follows, Closing
<1>5. \A i \in 1 .. Len(c) - 1 : Follows(c[i][1], p[i], c[i + 1][1], p[i + 1])
  BY ONLY <1>2, <1>3
<1>. QED
  BY <1>1, <1>2, <1>4, <1>5 DEF Ordered, c, p

LEMMA RevertRedeemTestOrder ==
    /\ Ordered(RevertRedeemTest, RevertPhases)
    /\ RevertRedeemTest[1][1] \in NewCalls
<1>. DEFINE c == RevertRedeemTest
            p == RevertPhases
<1>. USE DEF RevertRedeemTest, RevertPhases, NoneYet,
             Declared1, Declared2, Revoking
<1>1. (\E S : c \in Seq(S)) /\ (\E T : p \in Seq(T))
  BY Tuple6, Zenon
<1>2. Len(c) = 6 /\ Len(p) = 6
  OBVIOUS
<1>. USE DEF Follows, Closing, After, Over, NewCalls, StakeCalls, RedeemCalls,
             DeployCalls, UnstakeCalls
<1>3. /\ Follows(c[1][1], p[1], c[2][1], p[2])
      /\ Follows(c[2][1], p[2], c[3][1], p[3])
      /\ Follows(c[3][1], p[3], c[4][1], p[4])
      /\ Follows(c[4][1], p[4], c[5][1], p[5])
      /\ Follows(c[5][1], p[5], c[6][1], p[6])
  OBVIOUS
<1>4. Closing(c[6][1], p[6])
  OBVIOUS
<1>. HIDE DEF c, p, Follows, Closing
<1>5. \A i \in 1 .. Len(c) - 1 : Follows(c[i][1], p[i], c[i + 1][1], p[i + 1])
  BY ONLY <1>2, <1>3
<1>. QED
  BY <1>1, <1>2, <1>4, <1>5 DEF Ordered, c, p

LEMMA RedeemAndUnstakeAfterRevertOrder ==
    /\ Ordered(RedeemAndUnstakeAfterRevert, AfterRevertPhases)
    /\ RedeemAndUnstakeAfterRevert[1][1] \in NewCalls
<1>. DEFINE c == RedeemAndUnstakeAfterRevert
            p == AfterRevertPhases
<1>. USE DEF RedeemAndUnstakeAfterRevert, AfterRevertPhases, NoneYet,
             Declared1, Declared2, Revoking
<1>1. (\E S : c \in Seq(S)) /\ (\E T : p \in Seq(T))
  BY Tuple6, Zenon
<1>2. Len(c) = 6 /\ Len(p) = 6
  OBVIOUS
<1>. USE DEF Follows, Closing, After, Over, NewCalls, StakeCalls, RedeemCalls,
             DeployCalls, UnstakeCalls
<1>3. /\ Follows(c[1][1], p[1], c[2][1], p[2])
      /\ Follows(c[2][1], p[2], c[3][1], p[3])
      /\ Follows(c[3][1], p[3], c[4][1], p[4])
      /\ Follows(c[4][1], p[4], c[5][1], p[5])
      /\ Follows(c[5][1], p[5], c[6][1], p[6])
  OBVIOUS
<1>4. Closing(c[6][1], p[6])
  OBVIOUS
<1>. HIDE DEF c, p, Follows, Closing
<1>5. \A i \in 1 .. Len(c) - 1 : Follows(c[i][1], p[i], c[i + 1][1], p[i + 1])
  BY ONLY <1>2, <1>3
<1>. QED
  BY <1>1, <1>2, <1>4, <1>5 DEF Ordered, c, p

-----------------------------------------------------------------------------
\* The whole suite is in order, and begins with the deployment.
LEMMA SuiteOrder ==
    /\ Ordered(Suite, Phases)
    /\ Suite[1][1] = "deployTokens" /\ Phases[1] = NoneYet
<1>. DEFINE c1 == Deploy \o StakeAndMint
            p1 == DeployPhases \o SecretPhases
            c2 == c1 \o StakeAndMintWithProof
            p2 == p1 \o ProofPhases
            c3 == c2 \o RevertStakeAndMint
            p3 == p2 \o RevertPhases
            c4 == c3 \o StakeAndMintAfterRevert
            p4 == p3 \o AfterRevertPhases
            c5 == c4 \o RedeemAndUnstake
            p5 == p4 \o SecretPhases
            c6 == c5 \o RedeemWithPool
            p6 == p5 \o PoolPhases
            c7 == c6 \o RedeemAndUnstakeWithProof
            p7 == p6 \o ProofPhases
            c8 == c7 \o RevertRedeemTest
            p8 == p7 \o RevertPhases
            c9 == c8 \o RedeemAndUnstakeAfterRevert
            p9 == p8 \o AfterRevertPhases
<1>0. DeployedOrder(Deploy, DeployPhases)
  BY DeployOrder DEF DeployedOrder
<1>1. DeployedOrder(c1, p1)
  BY ONLY <1>0, StakeAndMintOrder, JoinDeployed, Zenon
<1>2. DeployedOrder(c2, p2)
  BY ONLY <1>1, StakeAndMintWithProofOrder, JoinDeployed, Zenon
<1>3. DeployedOrder(c3, p3)
  BY ONLY <1>2, RevertStakeAndMintOrder, JoinDeployed, Zenon
<1>4. DeployedOrder(c4, p4)
  BY ONLY <1>3, StakeAndMintAfterRevertOrder, JoinDeployed, Zenon
<1>5. DeployedOrder(c5, p5)
  BY ONLY <1>4, RedeemAndUnstakeOrder, JoinDeployed, Zenon
<1>6. DeployedOrder(c6, p6)
  BY ONLY <1>5, RedeemWithPoolOrder, JoinDeployed, Zenon
<1>7. DeployedOrder(c7, p7)
  BY ONLY <1>6, RedeemAndUnstakeWithProofOrder, JoinDeployed, Zenon
<1>8. DeployedOrder(c8, p8)
  BY ONLY <1>7, RevertRedeemTestOrder, JoinDeployed, Zenon
<1>9. DeployedOrder(c9, p9)
  BY ONLY <1>8, RedeemAndUnstakeAfterRevertOrder, JoinDeployed, Zenon
<1>. QED
  BY <1>9 DEF Suite, Phases, DeployedOrder

-----------------------------------------------------------------------------
\* A call leads to the next position of the suite.  If the statuses follow it
\* as expected, they are those of the next position, where the request is one
\* of the kind the next call needs.
LEMMA NextPosition ==
    ASSUME IntegrationTypeOK, RequestInv, NEW name, Calls(name),
           Statuses' = After(name, Statuses),
           \/ name \notin NewCalls /\ request' = request
           \/ /\ request'.bounty = Bounty
              /\ name = "newStakeRequest" /\ request'.sender = "origin0"
           \/ /\ request'.bounty = Bounty
              /\ name \in {"newRedeemRequest", "newPoolRequest"}
              /\ request'.sender # "origin0"
    PROVE  /\ RequestInv'
           /\ Name = name
           /\ Name' = "acceptRedeem" <=> name = "requestRedeem"
           /\ Name' \in DeployCalls
                <=> name \in DeployCalls \ {"initializeOSTPrime"}
           /\ at' \in 1 .. Len(Suite) + 1
<1>. DEFINE n == Len(Suite)
<1>1. /\ Name = name /\ name = Suite[at][1] /\ at' = at + 1
      /\ at \in 1 .. n /\ n \in Nat
  <2>1. n \in Nat
    BY SuiteOrder DEF Ordered
  <2>. QED
    BY <2>1 DEF Calls, Name, IntegrationTypeOK
<1>2. After(name, Statuses) = After(name, Phases[at])
  <2>1. CASE name \in NewCalls
    BY <2>1 DEF NewCalls, After
  <2>2. CASE name \notin NewCalls
    BY <1>1, <2>2 DEF RequestInv
  <2>. QED
    BY <2>1, <2>2
<1>3. CASE at = n
  <2>1. Name' = "none"
    BY <1>1, <1>3 DEF Name
  <2>2. Closing(name, Phases[at])
    BY <1>1, <1>3, SuiteOrder DEF Ordered
  <2>3. Statuses' \in Over
    BY <1>2, <2>2 DEF Closing
  <2>. QED
    BY <1>1, <1>3, <2>1, <2>2, <2>3
       DEF RequestInv, Closing, NewCalls, StakeCalls, RedeemCalls,
           DeployCalls, UnstakeCalls
<1>4. CASE at # n
  <2>1. /\ Follows(name, Phases[at], Suite[at + 1][1], Phases[at + 1])
        /\ Name' = Suite[at + 1][1]
    <3>1. at \in 1 .. n - 1 /\ at' =< n
      BY <1>1, <1>4
    <3>. QED
      BY <1>1, <3>1, SuiteOrder DEF Ordered, Name
  <2>2. CASE Name' \in NewCalls
    <3>1. Closing(name, Phases[at])
      BY <2>1, <2>2 DEF Follows
    <3>2. Statuses' \in Over
      BY <1>2, <3>1 DEF Closing
    <3>. QED
      BY <1>1, <2>2, <3>1, <3>2
         DEF RequestInv, Closing, NewCalls, StakeCalls, RedeemCalls,
             DeployCalls, UnstakeCalls
  <2>3. CASE Name' \notin NewCalls
    <3>1. /\ Phases[at + 1] = After(name, Phases[at])
          /\ Name' \in StakeCalls =>
               name \in StakeCalls \cup {"newStakeRequest"}
          /\ Name' \in RedeemCalls =>
               name \in RedeemCalls \cup {"newRedeemRequest", "newPoolRequest"}
          /\ Name' \in DeployCalls <=> name \in DeployCalls
          /\ name # "initializeOSTPrime"
          /\ Name' = "acceptRedeem" <=> name = "requestRedeem"
      BY <2>1, <2>3 DEF Follows
    <3>2. Statuses' = Phases'[at']
      BY <1>1, <1>2, <3>1
    <3>4. Name' \in UnstakeCalls =>
             InSource' \in {"Declared", "DeclaredRevocation", "Progressed"}
      BY <1>1, <2>1, <2>3, <3>2 DEF Follows, Statuses
    <3>3. /\ Name' \in StakeCalls =>
               request'.sender = "origin0" /\ request'.bounty = Bounty
          /\ Name' \in RedeemCalls =>
               request'.sender # "origin0" /\ request'.bounty = Bounty
      <4>1. name \in StakeCalls => name \notin NewCalls
        BY DEF StakeCalls, NewCalls
      <4>2. name \in RedeemCalls => name \notin NewCalls
        BY DEF RedeemCalls, NewCalls
      <4>. QED
        BY <1>1, <3>1, <4>1, <4>2 DEF RequestInv, NewCalls
    <3>. QED
      BY <1>1, <1>4, <2>3, <3>1, <3>2, <3>3, <3>4 DEF RequestInv, NewCalls
  <2>. QED
    BY <2>2, <2>3
<1>. QED
  BY <1>3, <1>4

-----------------------------------------------------------------------------
\* What the calls do to the processes: nothing is under way when a request is
\* made, and a call changes the process of the request on one chain.
Processes == [Chain -> [Sender -> [nonce : Int, status : ProcessStatus,
                                   amount : Nat, bounty : Nat]]]

LEMMA Chains ==
    /\ Source \in Chain /\ Other(Source) \in Chain /\ Other(Source) # Source
    /\ \A c \in Chain : /\ Other(c) \in Chain /\ Other(c) # c
                        /\ c = Source \/ c = Other(Source)
    /\ Source = SourceOf(request.sender)
    /\ \A s : SourceOf(s) \in Chain
BY DEF Source, SourceOf, Chain, Other

LEMMA NothingUnderWay ==
    ASSUME IntegrationTypeOK, ProcessInv, Statuses \in Over
    PROVE  \A s \in Sender : Settled(s)
<1>1. CASE InSource = "Undeclared"
  BY <1>1 DEF ProcessInv
<1>2. CASE InSource # "Undeclared"
  <2>. DEFINE r == request.sender
  <2>1. /\ InSource = InTarget /\ InSource \in {"Progressed", "Revoked"}
    BY <1>2 DEF Statuses, Over, NoneYet
  <2>2. Settled(r)
    BY <2>1, Chains DEF Settled, InSource, InTarget, StatusOf
  <2>. QED
    BY <2>2 DEF ProcessInv
<1>. QED
  BY <1>1, <1>2

LEMMA RequestMade ==
    ASSUME IntegrationTypeOK, ProcessInv, Statuses \in Over,
           process' = process, request'.sender \in Sender,
           request'.nonce
             = GetNonce(SourceOf(request'.sender), request'.sender)
    PROVE  ProcessInv' /\ Statuses' = NoneYet
<1>. DEFINE s == request'.sender
            source == SourceOf(s)
            target == Other(source)
<1>1. /\ source \in Chain /\ target \in Chain /\ Source' = source
      /\ \A c \in Chain : c = source \/ c = target
  BY DEF SourceOf, Chain, Other, Source
<1>2. /\ \A k \in Sender : Settled(k)
      /\ \A k \in Sender : Settled(k)'
  <2>1. \A k \in Sender : Settled(k)
    BY NothingUnderWay
  <2>. QED
    BY <2>1 DEF Settled
<1>3. /\ process[source][s].nonce \in Int
      /\ process[target][s].nonce = process[source][s].nonce
      /\ request'.nonce = process[source][s].nonce + 1
  BY <1>1, <1>2 DEF Settled, GetNonce, IntegrationTypeOK
<1>4. \A c \in Chain : StatusOf(c, request)' = "Undeclared"
  BY <1>1, <1>3 DEF StatusOf
<1>. QED
  BY <1>1, <1>2, <1>3, <1>4
     DEF ProcessInv, Statuses, InSource, InTarget, NoneYet

\* A process that changes on one chain, to one with the nonce of the request.
LEMMA ProcessChanged ==
    ASSUME IntegrationTypeOK, ProcessInv, request' = request, NEW c \in Chain,
           NEW new \in [nonce : Int, status : ProcessStatus, amount : Nat,
                        bounty : Nat],
           new.nonce = request.nonce, new.amount = request.amount,
           new.bounty = request.bounty,
           process' = [process EXCEPT ![c][request.sender] = new],
           \/ process[Other(c)][request.sender].nonce = request.nonce
           \/ /\ c = Source
              /\ process[Other(c)][request.sender].nonce =< request.nonce
    PROVE  /\ ProcessInv' /\ process' \in Processes
           /\ Statuses' = IF c = Source THEN <<new.status, InTarget>>
                                        ELSE <<InSource, new.status>>
<1>. DEFINE s == request.sender
<1>1. /\ s \in Sender /\ process \in Processes /\ Source' = Source
      /\ request.nonce \in Int
      /\ \A d \in Chain, k \in Sender : process[d][k].nonce \in Int
  BY DEF IntegrationTypeOK, Source, Processes
<1>2. process' \in Processes
  <2>1. \A d \in Chain : process'[d] \in
           [Sender -> [nonce : Int, status : ProcessStatus, amount : Nat,
                       bounty : Nat]]
    BY <1>1 DEF Processes
  <2>. QED
    BY <1>1, <2>1 DEF Processes
<1>3. /\ process'[c][s] = new
      /\ \A d \in Chain : d # c => process'[d] = process[d]
      /\ \A d \in Chain, k \in Sender :
            k # s => process'[d][k] = process[d][k]
  BY <1>1 DEF Processes
<1>4. /\ StatusOf(c, request)' = new.status
      /\ \A d \in Chain : d # c => StatusOf(d, request)' = StatusOf(d, request)
      /\ new.status # "Undeclared"
  BY <1>3 DEF StatusOf, ProcessStatus
<1>5. Statuses' = IF c = Source THEN <<new.status, InTarget>>
                                ELSE <<InSource, new.status>>
  BY <1>1, <1>4, Chains DEF Statuses, InSource, InTarget
<1>6. \A k \in Sender \ {s} : Settled(k)'
  <2>1. \A k \in Sender \ {s} : Settled(k)
    BY DEF ProcessInv
  <2>. QED
    BY <1>3, <2>1, Chains DEF Settled
<1>7. process'[Other(Source)][s].nonce =< process'[Source][s].nonce
  BY <1>1, <1>3, Chains DEF Other, Chain
<1>8. InSource' # "Undeclared"
  <2>1. CASE c = Source
    BY <1>1, <1>4, <2>1 DEF InSource
  <2>2. CASE c # Source
    <3>1. process[Source][s].nonce = request.nonce /\ InSource' = InSource
      BY <1>1, <1>4, <2>2, Chains DEF Other, Chain, InSource
    <3>. QED
      BY <1>1, <3>1, Chains
         DEF InSource, StatusOf, Processes, ProcessStatus
  <2>. QED
    BY <2>1, <2>2
<1>9. \A d \in Chain :
         StatusOf(d, request)' # "Undeclared" =>
            /\ process'[d][s].amount = request.amount
            /\ process'[d][s].bounty = request.bounty
  BY <1>3, <1>4 DEF ProcessInv
<1>. QED
  BY <1>1, <1>2, <1>5, <1>6, <1>7, <1>8, <1>9 DEF ProcessInv

LEMMA RegisteredAtSource ==
    ASSUME IntegrationTypeOK, ProcessInv, request' = request,
           Register(Source, request)
    PROVE  /\ ProcessInv' /\ process' \in Processes
           /\ InSource = "Undeclared" /\ InTarget = "Undeclared"
           /\ Statuses' = <<"Declared", "Undeclared">>
<1>. DEFINE new == [nonce |-> request.nonce, status |-> "Declared",
                    amount |-> request.amount, bounty |-> request.bounty]
<1>1. /\ new \in [nonce : Int, status : ProcessStatus, amount : Nat,
                  bounty : Nat]
      /\ new.nonce = request.nonce /\ new.amount = request.amount
      /\ new.bounty = request.bounty /\ new.status = "Declared"
      /\ process' = [process EXCEPT ![Source][request.sender] = new]
      /\ request.sender \in Sender
  BY DEF IntegrationTypeOK, ProcessStatus, Register
<1>. HIDE DEF new
<1>2. /\ process[Source][request.sender].nonce \in Int
      /\ process[Other(Source)][request.sender].nonce \in Int
  BY <1>1, Chains DEF IntegrationTypeOK
<1>3. request.nonce = process[Source][request.sender].nonce + 1
  BY DEF Register, GetNonce
<1>4. process[Other(Source)][request.sender].nonce =< request.nonce
  BY <1>2, <1>3 DEF ProcessInv
<1>5. InSource = "Undeclared"
  BY <1>2, <1>3 DEF InSource, StatusOf
<1>6. InTarget = "Undeclared"
  <2>1. Settled(request.sender)
    BY <1>5 DEF ProcessInv
  <2>. QED
    BY <1>2, <1>3, <2>1, Chains DEF Settled, InTarget, StatusOf
<1>. QED
  BY <1>1, <1>4, <1>5, <1>6, ProcessChanged, Chains

LEMMA RegisteredAtTarget ==
    ASSUME IntegrationTypeOK, ProcessInv, request' = request,
           Proves(Other(Source), request, "Declared"),
           Register(Other(Source), request)
    PROVE  /\ ProcessInv' /\ process' \in Processes
           /\ InSource = "Declared" /\ InTarget = "Undeclared"
           /\ Statuses' = <<"Declared", "Declared">>
<1>. DEFINE new == [nonce |-> request.nonce, status |-> "Declared",
                    amount |-> request.amount, bounty |-> request.bounty]
            c == Other(Source)
<1>1. /\ new \in [nonce : Int, status : ProcessStatus, amount : Nat,
                  bounty : Nat]
      /\ new.nonce = request.nonce /\ new.amount = request.amount
      /\ new.bounty = request.bounty /\ new.status = "Declared"
      /\ process' = [process EXCEPT ![c][request.sender] = new]
      /\ request.sender \in Sender
  BY DEF IntegrationTypeOK, ProcessStatus, Register
<1>. HIDE DEF new
<1>2. c \in Chain /\ c # Source /\ Other(c) = Source
  BY Chains DEF Other, Chain
<1>3. /\ process[Other(c)][request.sender].nonce = request.nonce
      /\ InSource = "Declared"
  BY <1>2 DEF Proves, ProvenOn, InSource, StatusOf
<1>4. process[c][request.sender].nonce \in Int
  BY <1>1, <1>2 DEF IntegrationTypeOK
<1>5. request.nonce = process[c][request.sender].nonce + 1
  BY DEF Register, GetNonce
<1>6. InTarget = "Undeclared"
  BY <1>4, <1>5 DEF InTarget, StatusOf
<1>. QED
  BY <1>1, <1>2, <1>3, <1>6, ProcessChanged

\* A process that goes on is the request's, with its amount and bounty.
LEMMA ProcessClosed ==
    ASSUME IntegrationTypeOK, ProcessInv, request' = request, NEW c \in Chain,
           StatusOf(c, request) # "Undeclared", NEW status \in ProcessStatus,
           Close(c, request, status)
    PROVE  /\ ProcessInv' /\ process' \in Processes
           /\ Statuses' = IF c = Source THEN <<status, InTarget>>
                                        ELSE <<InSource, status>>
           /\ process[c][request.sender].nonce = request.nonce
           /\ process[c][request.sender].amount = request.amount
           /\ process[c][request.sender].bounty = request.bounty
<1>. DEFINE old == process[c][request.sender]
            new == [old EXCEPT !.status = status]
<1>1. /\ old \in [nonce : Int, status : ProcessStatus, amount : Nat,
                  bounty : Nat]
      /\ request.sender \in Sender
  BY DEF IntegrationTypeOK
<1>2. /\ old.nonce = request.nonce /\ old.amount = request.amount
      /\ old.bounty = request.bounty
  BY DEF StatusOf, ProcessInv
<1>3. /\ new \in [nonce : Int, status : ProcessStatus, amount : Nat,
                  bounty : Nat]
      /\ new.nonce = request.nonce /\ new.amount = request.amount
      /\ new.bounty = request.bounty /\ new.status = status
  BY <1>1, <1>2
<1>4. process' = [process EXCEPT ![c][request.sender] = new]
  BY DEF Close
<1>5. \/ process[Other(c)][request.sender].nonce = request.nonce
      \/ /\ c = Source
         /\ process[Other(c)][request.sender].nonce =< request.nonce
  <2>1. CASE c = Source
    BY <1>2, <2>1 DEF ProcessInv
  <2>2. CASE c # Source
    <3>1. c = Other(Source) /\ Other(c) = Source
      BY <2>2, Chains DEF Other, Chain
    <3>2. InSource # "Undeclared"
      BY <1>1, <1>2, <2>2, <3>1, Chains
         DEF ProcessInv, Settled, InSource, StatusOf, IntegrationTypeOK
    <3>. QED
      BY <3>1, <3>2 DEF InSource, StatusOf
  <2>. QED
    BY <2>1, <2>2
<1>. HIDE DEF old, new
<1>6. /\ ProcessInv' /\ process' \in Processes
      /\ Statuses' = IF c = Source THEN <<new.status, InTarget>>
                                   ELSE <<InSource, new.status>>
  BY <1>3, <1>4, <1>5, ProcessChanged
<1>. QED
  BY <1>2, <1>3, <1>6 DEF old

-----------------------------------------------------------------------------
\* What a transfer and a fee change, and that they change nothing else.
Balances == [Ledger -> [Holder -> Int]]

Transfers(b, c, ledger, from, to, n) ==
    /\ c \in Balances
    /\ c[ledger][from] = b[ledger][from] - n
    /\ c[ledger][to] = b[ledger][to] + n
    /\ \A l \in Ledger, h \in Holder :
          ~ (l = ledger /\ h \in {from, to}) => c[l][h] = b[l][h]

Adds(b, c, ledger, account, n) ==
    /\ c \in Balances
    /\ c[ledger][account] = b[ledger][account] + n
    /\ \A l \in Ledger, h \in Holder :
          ~ (l = ledger /\ h = account) => c[l][h] = b[l][h]

LEMMA MovedTransfers ==
    ASSUME NEW b \in Balances, NEW l \in Ledger, NEW from \in Holder,
           NEW to \in Holder, from # to, NEW n \in Int
    PROVE  Transfers(b, Moved(b, l, from, to, n), l, from, to, n)
<1>. DEFINE c == Moved(b, l, from, to, n)
            d == [b EXCEPT ![l][from] = b[l][from] - n]
<1>1. Adds(b, d, l, from, -n)
  BY DEF Adds, Balances
<1>2. c = [d EXCEPT ![l][to] = b[l][to] + n]
  BY DEF Moved, Balances
<1>. HIDE DEF c, d
<1>3. /\ c \in Balances
      /\ c[l][to] = b[l][to] + n
      /\ \A k \in Ledger, h \in Holder :
            ~ (k = l /\ h = to) => c[k][h] = d[k][h]
  BY <1>1, <1>2 DEF Adds, Balances
<1>. QED
  BY <1>1, <1>3 DEF Transfers, Adds, Balances, c

LEMMA PaidAdds ==
    ASSUME NEW b \in Balances, NEW a \in Holder, NEW n \in Int
    PROVE  Adds(b, Paid(b, a, n), "coin", a, -n)
BY DEF Adds, Paid, Balances, Ledger

LEMMA Names ==
    /\ "token" \in Ledger /\ "baseToken" \in Ledger
    /\ "ostPrime" \in Ledger /\ "coin" \in Ledger
    /\ "origin0" \in Holder /\ "origin2" \in Holder
    /\ "auxiliary0" \in Holder /\ "auxiliary2" \in Holder
    /\ "gateway" \in Holder /\ "stakeVault" \in Holder
    /\ "coGateway" \in Holder /\ "ostPrime" \in Holder
    /\ "redeemPool" \in Holder /\ "proxy" \in Holder
    /\ "burner" \in Holder
BY DEF Ledger, Holder

AreAmounts(b) ==
    /\ b["token"]["gateway"] \in Int /\ b["baseToken"]["gateway"] \in Int
    /\ b["ostPrime"]["coGateway"] \in Int /\ b["coin"]["coGateway"] \in Int
    /\ b["ostPrime"]["redeemPool"] \in Int /\ b["token"]["stakeVault"] \in Int
    /\ b["coin"]["ostPrime"] \in Int /\ b["ostPrime"]["auxiliary2"] \in Int

\* All of them.
AreIntegers(b) == \A l \in Ledger, h \in Holder : b[l][h] \in Int

LEMMA BalancesAreIntegers ==
    ASSUME NEW b \in Balances
    PROVE  AreIntegers(b) /\ AreAmounts(b)
BY Names DEF AreIntegers, AreAmounts, Balances

\* OSTPrime gives an account coins for tokens of its own, or takes them.
Increases(b, c, account, n) ==
    /\ c \in Balances
    /\ c["ostPrime"]["ostPrime"] = b["ostPrime"]["ostPrime"] + n
    /\ c["coin"]["ostPrime"] = b["coin"]["ostPrime"] - n
    /\ c["coin"][account] = b["coin"][account] + n
    /\ \A l \in Ledger, h \in Holder :
          ~ \/ l = "ostPrime" /\ h = "ostPrime"
            \/ l = "coin" /\ h \in {"ostPrime", account}
          => c[l][h] = b[l][h]

Wraps(b, c, account, n) ==
    /\ c \in Balances
    /\ c["coin"][account] = b["coin"][account] - n
    /\ c["coin"]["ostPrime"] = b["coin"]["ostPrime"] + n
    /\ c["ostPrime"]["ostPrime"] = b["ostPrime"]["ostPrime"] - n
    /\ c["ostPrime"][account] = b["ostPrime"][account] + n
    /\ \A l \in Ledger, h \in Holder :
          ~ (l \in {"ostPrime", "coin"} /\ h \in {"ostPrime", account})
          => c[l][h] = b[l][h]

LEMMA IncreasedSupplyIncreases ==
    ASSUME NEW b \in Balances, NEW a \in Holder, a # "ostPrime", NEW n \in Int
    PROVE  Increases(b, IncreasedSupply(b, a, n), a, n)
<1>. DEFINE d == [b EXCEPT !.ostPrime["ostPrime"] = @ + n]
<1>1. Adds(b, d, "ostPrime", "ostPrime", n)
  BY Names DEF Adds, Balances, Ledger
<1>2. IncreasedSupply(b, a, n) = Moved(d, "coin", "ostPrime", a, n)
  BY DEF IncreasedSupply
<1>. HIDE DEF d
<1>3. Transfers(d, Moved(d, "coin", "ostPrime", a, n),
                "coin", "ostPrime", a, n)
  <2>1. d \in Balances
    BY <1>1 DEF Adds
  <2>. QED
    BY <2>1, Names, MovedTransfers
<1>. QED
  BY <1>1, <1>2, <1>3, Names DEF Increases, Adds, Transfers, Balances

LEMMA WrappedWraps ==
    ASSUME NEW b \in Balances, NEW a \in Holder, a # "ostPrime", NEW n \in Int
    PROVE  Wraps(b, Wrapped(b, a, n), a, n)
<1>. DEFINE d == Moved(b, "coin", a, "ostPrime", n)
<1>1. Transfers(b, d, "coin", a, "ostPrime", n)
  BY Names, MovedTransfers
<1>2. Wrapped(b, a, n) = Moved(d, "ostPrime", "ostPrime", a, n)
  BY DEF Wrapped
<1>. HIDE DEF d
<1>3. Transfers(d, Moved(d, "ostPrime", "ostPrime", a, n),
                "ostPrime", "ostPrime", a, n)
  <2>1. d \in Balances
    BY <1>1 DEF Transfers
  <2>. QED
    BY <2>1, Names, MovedTransfers
<1>. QED
  BY <1>1, <1>2, <1>3, Names DEF Wraps, Transfers, Balances

LEMMA BurntAdds ==
    ASSUME NEW b \in Balances, NEW n \in Int
    PROVE  Adds(b, [b EXCEPT !.ostPrime["coGateway"] = @ - n],
                "ostPrime", "coGateway", -n)
BY Names DEF Adds, Balances, Ledger

-----------------------------------------------------------------------------
\* What a call of a test that starts on chain c finds.
Situated(name, c) ==
    /\ IntegrationTypeOK /\ RequestInv /\ ProcessInv
    /\ HoldingsInv /\ SupplyInv /\ asserted
    /\ Name = name /\ name \notin NewCalls /\ name \notin DeployCalls
    /\ Source = c /\ InSource = StatusOf(c, request)
    /\ InTarget = StatusOf(Other(c), request)
    /\ request.sender = "origin0" <=> c = "origin"
    /\ request.sender \in Sender /\ request.bounty = Bounty
    /\ request.amount \in Int /\ request.bounty \in Int
    /\ request.reward \in Int
    /\ balance \in Balances /\ Fee \subseteq Int

LEMMA Situation ==
    ASSUME SuiteInv, NEW name, Calls(name)
    PROVE  /\ name \in StakeCalls => Situated(name, "origin")
           /\ name \in RedeemCalls => Situated(name, "auxiliary")
<1>. SUFFICES ASSUME name \in StakeCalls \cup RedeemCalls
              PROVE  /\ name \in StakeCalls => Situated(name, "origin")
                     /\ name \in RedeemCalls => Situated(name, "auxiliary")
  OBVIOUS
<1>1. Name = name
  BY DEF Calls, Name
<1>2. name \notin NewCalls /\ name \notin DeployCalls
  BY DEF StakeCalls, RedeemCalls, NewCalls, DeployCalls
<1>3. /\ request.sender \in Sender /\ request.amount \in Int
      /\ request.bounty \in Int /\ request.reward \in Int
      /\ balance \in Balances
  BY DEF SuiteInv, IntegrationTypeOK, Balances
<1>4. Fee \subseteq Int
  BY FeeAssumption
<1>5. /\ name \in StakeCalls => request.sender = "origin0"
      /\ name \in RedeemCalls => request.sender # "origin0"
      /\ request.bounty = Bounty
  BY <1>1 DEF SuiteInv, RequestInv
<1>6. /\ name \in StakeCalls => Source = "origin"
      /\ name \in RedeemCalls => Source = "auxiliary"
  BY <1>5 DEF Source
<1>. QED
  BY <1>1, <1>2, <1>3, <1>4, <1>5, <1>6
     DEF SuiteInv, InSource, InTarget, Situated

\* A supply that comes or goes does so with the vault's tokens or the coins.
LEMMA SupplyMoves ==
    ASSUME SupplyInv, AreAmounts(balance), Supply \in Int,
           request.amount \in Int,
           balance'["ostPrime"]["auxiliary2"]
             = balance["ostPrime"]["auxiliary2"],
           \/ /\ Supply' = Supply + request.amount
              /\ balance'["token"]["stakeVault"]
                   = balance["token"]["stakeVault"] + request.amount
              /\ balance'["coin"]["ostPrime"] = balance["coin"]["ostPrime"]
           \/ /\ Supply' = Supply - request.amount
              /\ balance'["token"]["stakeVault"]
                   = balance["token"]["stakeVault"] - request.amount
              /\ balance'["coin"]["ostPrime"] = balance["coin"]["ostPrime"]
           \/ /\ Supply' = Supply - request.amount
              /\ balance'["token"]["stakeVault"]
                   = balance["token"]["stakeVault"]
              /\ balance'["coin"]["ostPrime"]
                   = balance["coin"]["ostPrime"] - request.amount
    PROVE  SupplyInv'
<1>. DEFINE v == balance["token"]["stakeVault"]
            c == balance["coin"]["ostPrime"]
            a == balance["ostPrime"]["auxiliary2"]
            n == request.amount
            supply == Supply
<1>1. v \in Int /\ c \in Int /\ a \in Int /\ n \in Int /\ supply \in Int
  BY DEF AreAmounts
<1>2. v + c = a + supply
  BY DEF SupplyInv
<1>3. \/ SupplyInv' <=> (v + n) + c = a + (supply + n)
      \/ SupplyInv' <=> (v - n) + c = a + (supply - n)
      \/ SupplyInv' <=> v + (c - n) = a + (supply - n)
  BY DEF SupplyInv
<1>. HIDE DEF v, c, a, n, supply
<1>. QED
  BY ONLY <1>1, <1>2, <1>3

LEMMA CallKeeps ==
    ASSUME IntegrationTypeOK, request' = request, RequestInv', ProcessInv',
           process' \in Processes, at' \in 1 .. Len(Suite) + 1,
           balance' \in Balances, HoldingsInv', SupplyInv', asserted'
    PROVE  SuiteInv'
BY DEF SuiteInv, IntegrationTypeOK, Processes, Balances

LEMMA ProcessKept ==
    ASSUME IntegrationTypeOK, ProcessInv, request' = request,
           process' = process
    PROVE  /\ ProcessInv' /\ process' \in Processes
           /\ Statuses' = Statuses
BY DEF IntegrationTypeOK, Processes, ProcessInv, Settled, Statuses, InSource,
       InTarget, Source, StatusOf

-----------------------------------------------------------------------------
\* The calls of the stakes.  Each keeps SuiteInv in the same steps: the process
\* (<1>3), the position (<1>4), what is kept and under way (<1>5), each transfer
\* of its balances (<1>a ...), and with these the holdings, the supply and what
\* is asserted of the balances.
\* The stake and its bounty go to the gateway, which keeps them.
LEMMA StakeKeeps ==
    ASSUME SuiteInv, Stake
    PROVE  SuiteInv'
<1>. DEFINE b1 == Moved(balance, "token", "origin0", "gateway",
                        request.amount)
<1>1. /\ Calls("stake")
      /\ request' = request
      /\ Register("origin", request)
  BY DEF Stake, Verify
<1>2. Situated("stake", "origin")
  BY <1>1, Situation DEF StakeCalls
<1>3. /\ ProcessInv' /\ process' \in Processes
      /\ InSource = "Undeclared" /\ InTarget = "Undeclared"
      /\ Statuses' = <<"Declared", "Undeclared">>
  BY <1>1, <1>2, RegisteredAtSource DEF Situated
<1>4. /\ RequestInv' /\ at' \in 1 .. Len(Suite) + 1
      /\ Name' \notin DeployCalls
      /\ Name' # "acceptRedeem"
  BY <1>1, <1>2, <1>3, NextPosition DEF After, Situated, Statuses, NewCalls
<1>5. /\ KeptAmount("auxiliary") = 0 /\ KeptAmount("auxiliary")' = 0
      /\ KeptBounty("auxiliary") = 0 /\ KeptBounty("auxiliary")' = 0
      /\ KeptAmount("origin") = 0
      /\ KeptAmount("origin")' = request.amount
      /\ KeptBounty("origin") = 0
      /\ KeptBounty("origin")' = request.bounty
      /\ Pooled = 0 /\ Pooled' = 0
      /\ Supply' = Supply /\ Supply \in Int
  <2>1. /\ Source' = Source /\ Source = "origin"
        /\ Statuses' = <<InSource', InTarget'>>
    BY <1>1, <1>2 DEF Source, Statuses, Situated
  <2>2. Pooled = 0 /\ Pooled' = 0
    BY <1>1, <1>2, <1>4 DEF Pooled, Situated
  <2>5. Underway' = Underway /\ Underway \in Int
    BY <1>1, <1>2, <1>3, <2>1 DEF Underway, Statuses, Situated
  <2>. QED
    BY <1>1, <1>2, <1>3, <1>4, <2>1, <2>2, <2>5
       DEF KeptAmount, KeptBounty, Keeps, Supply, Statuses, TokensMax,
           Situated
<1>6. balance' = Moved(b1, "baseToken", "origin0", "gateway", Bounty)
  BY <1>1, <1>2, <1>3 DEF Stake, Settles, Situated
<1>a. Transfers(balance, b1, "token", "origin0", "gateway", request.amount)
  BY <1>2, Names, MovedTransfers DEF Situated
<1>b. Transfers(b1, balance', "baseToken", "origin0", "gateway", Bounty)
  <2>1. b1 \in Balances
    BY <1>a DEF Transfers
  <2>. QED
    BY <2>1, <1>2, <1>6, Names, MovedTransfers DEF Situated
<1>. HIDE DEF b1
<1>7. /\ balance' \in Balances
      /\ AreIntegers(balance) /\ AreAmounts(balance)
      /\ AreIntegers(b1) /\ AreAmounts(b1)
      /\ AreIntegers(balance') /\ AreAmounts(balance')
  BY <1>2, <1>a, <1>b, BalancesAreIntegers DEF Transfers, Situated
<1>8. /\ HoldingsInv /\ SupplyInv
      /\ request.amount \in Int /\ request.reward \in Int
      /\ request.bounty = Bounty /\ Bounty \in Int
  BY <1>2 DEF Situated
<1>9. HoldingsInv'
  BY ONLY <1>a, <1>b, <1>5, <1>7, <1>8, Names
     DEF Transfers, AreAmounts, HoldingsInv
<1>10. SupplyInv'
  BY ONLY <1>a, <1>b, <1>5, <1>7, <1>8, Names
     DEF Transfers, AreAmounts, SupplyInv
<1>11. asserted'
  <2>1. Changes(balance, balance', "baseToken",
              [gateway |-> request.bounty, origin0 |-> -request.bounty])
    <3>1. /\ balance'["baseToken"]["gateway"]
             = balance["baseToken"]["gateway"] + request.bounty
          /\ balance'["baseToken"]["origin0"]
             = balance["baseToken"]["origin0"] - request.bounty
      BY ONLY <1>a, <1>b, <1>7, <1>8, Names DEF Transfers, AreIntegers
    <3>. QED
      BY ONLY <3>1, <1>7, <1>8, Names DEF Changes, AreIntegers
  <2>2. Changes(balance, balance', "token",
              [gateway |-> request.amount, origin0 |-> -request.amount])
    <3>1. /\ balance'["token"]["gateway"]
             = balance["token"]["gateway"] + request.amount
          /\ balance'["token"]["origin0"]
             = balance["token"]["origin0"] - request.amount
      BY ONLY <1>a, <1>b, <1>7, <1>8, Names DEF Transfers, AreIntegers
    <3>. QED
      BY ONLY <3>1, <1>7, <1>8, Names DEF Changes, AreIntegers
  <2>3. AssertStake(NewEvent, request, balance, balance')
    BY <1>2, <1>3, <2>1, <2>2
       DEF AssertStake, NewEvent, EventOf, Emitted, Situated
  <2>. QED
    BY <1>2, <1>3, <1>6, <2>3 DEF Stake, Verify, Situated, b1
<1>. QED
  BY <1>1, <1>2, <1>3, <1>4, <1>7, <1>9, <1>10, <1>11, CallKeeps DEF Situated

\* Nothing moves when the target declares the request.
LEMMA ConfirmStakeIntentKeeps ==
    ASSUME SuiteInv, ConfirmStakeIntent
    PROVE  SuiteInv'
<1>1. /\ Calls("confirmStakeIntent")
      /\ request' = request
      /\ Proves("auxiliary", request, "Declared")
      /\ Register("auxiliary", request)
  BY DEF ConfirmStakeIntent, Verify
<1>2. Situated("confirmStakeIntent", "origin")
  BY <1>1, Situation DEF StakeCalls
<1>3. /\ ProcessInv' /\ process' \in Processes
      /\ InSource = "Declared" /\ InTarget = "Undeclared"
      /\ Statuses' = <<"Declared", "Declared">>
  BY <1>1, <1>2, RegisteredAtTarget DEF Situated, Other
<1>4. /\ RequestInv' /\ at' \in 1 .. Len(Suite) + 1
      /\ Name' \notin DeployCalls
      /\ Name' # "acceptRedeem"
  BY <1>1, <1>2, <1>3, NextPosition DEF After, Situated, Statuses, NewCalls
<1>5. /\ KeptAmount("auxiliary") = 0 /\ KeptAmount("auxiliary")' = 0
      /\ KeptBounty("auxiliary") = 0 /\ KeptBounty("auxiliary")' = 0
      /\ KeptAmount("origin")' = KeptAmount("origin")
      /\ KeptBounty("origin")' = KeptBounty("origin")
      /\ Pooled = 0 /\ Pooled' = 0
      /\ Supply' = Supply /\ Supply \in Int
  <2>1. /\ Source' = Source /\ Source = "origin"
        /\ Statuses' = <<InSource', InTarget'>>
    BY <1>1, <1>2 DEF Source, Statuses, Situated
  <2>2. Pooled = 0 /\ Pooled' = 0
    BY <1>1, <1>2, <1>4 DEF Pooled, Situated
  <2>5. Underway' = Underway /\ Underway \in Int
    BY <1>1, <1>2, <1>3, <2>1 DEF Underway, Statuses, Situated
  <2>. QED
    BY <1>1, <1>2, <1>3, <1>4, <2>1, <2>2, <2>5
       DEF KeptAmount, KeptBounty, Keeps, Supply, Statuses, TokensMax,
           Situated
<1>6. balance' = balance
  BY DEF ConfirmStakeIntent
<1>7. balance' \in Balances /\ AreAmounts(balance)
  BY <1>2, <1>6, BalancesAreIntegers DEF Situated
<1>8. /\ HoldingsInv /\ SupplyInv
      /\ request.amount \in Int /\ request.reward \in Int
      /\ request.bounty = Bounty /\ Bounty \in Int
  BY <1>2 DEF Situated
<1>9. HoldingsInv'
  BY ONLY <1>6, <1>5, <1>7, <1>8, Names DEF AreAmounts, HoldingsInv
<1>10. SupplyInv'
  BY ONLY <1>6, <1>5, <1>7, <1>8, Names DEF AreAmounts, SupplyInv
<1>11. asserted'
  <2>1. AssertConfirmStakeIntent(NewEvent, request)
    BY <1>1, <1>2, <1>3, <1>6, <1>7, <1>8, Names
       DEF AssertConfirmStakeIntent, NewEvent, EventOf, Emitted, Situated
  <2>. QED
    BY <1>2, <2>1 DEF ConfirmStakeIntent, Verify, Situated
<1>. QED
  BY <1>1, <1>2, <1>3, <1>4, <1>7, <1>9, <1>10, <1>11, CallKeeps DEF Situated

\* The stake goes to the vault: it is under way to auxiliary.
LEMMA ProgressStakeKeeps ==
    ASSUME SuiteInv, ProgressStake
    PROVE  SuiteInv'
<1>. DEFINE b1 == Moved(balance, "token", "gateway", "stakeVault",
                        request.amount)
<1>1. /\ Calls("progressStake")
      /\ request' = request
      /\ StatusOf("origin", request) = "Declared"
      /\ Close("origin", request, "Progressed")
  BY DEF ProgressStake, Verify
<1>2. Situated("progressStake", "origin")
  BY <1>1, Situation DEF StakeCalls
<1>3. /\ ProcessInv' /\ process' \in Processes
      /\ Statuses' = <<"Progressed", InTarget>>
      /\ process["origin"][request.sender].nonce = request.nonce
      /\ process["origin"][request.sender].amount = request.amount
      /\ process["origin"][request.sender].bounty = request.bounty
  BY <1>1, <1>2, ProcessClosed DEF Situated, Chain, ProcessStatus
<1>4. /\ RequestInv' /\ at' \in 1 .. Len(Suite) + 1
      /\ Name' \notin DeployCalls
      /\ Name' # "acceptRedeem"
  BY <1>1, <1>2, <1>3, NextPosition DEF After, Situated, Statuses, NewCalls
<1>5. /\ KeptAmount("auxiliary") = 0 /\ KeptAmount("auxiliary")' = 0
      /\ KeptBounty("auxiliary") = 0 /\ KeptBounty("auxiliary")' = 0
      /\ KeptAmount("origin") = request.amount
      /\ KeptAmount("origin")' = 0
      /\ KeptBounty("origin") = request.bounty
      /\ KeptBounty("origin")' = 0
      /\ Pooled = 0 /\ Pooled' = 0
      /\ Supply' = Supply + request.amount /\ Supply \in Int
  <2>1. /\ Source' = Source /\ Source = "origin"
        /\ Statuses' = <<InSource', InTarget'>>
    BY <1>1, <1>2 DEF Source, Statuses, Situated
  <2>2. Pooled = 0 /\ Pooled' = 0
    BY <1>1, <1>2, <1>4 DEF Pooled, Situated
  <2>5. Underway' = Underway + request.amount /\ Underway \in Int
    BY <1>1, <1>2, <1>3, <2>1 DEF Underway, Statuses, Situated
  <2>6. InSource \in {"Declared", "DeclaredRevocation"}
    BY <1>1, <1>2, <1>3 DEF Situated
  <2>. QED
    BY <1>1, <1>2, <1>3, <1>4, <2>1, <2>2, <2>5, <2>6
       DEF KeptAmount, KeptBounty, Keeps, Supply, Statuses, TokensMax,
           Situated
<1>6. balance' = Moved(b1, "baseToken", "gateway", "origin0", request.bounty)
  BY <1>1, <1>2, <1>3 DEF ProgressStake, Settles, Situated, StakeSettled
<1>a. Transfers(balance, b1, "token", "gateway", "stakeVault", request.amount)
  BY <1>2, Names, MovedTransfers DEF Situated
<1>b. Transfers(b1, balance', "baseToken", "gateway", "origin0",
                request.bounty)
  <2>1. b1 \in Balances
    BY <1>a DEF Transfers
  <2>. QED
    BY <2>1, <1>2, <1>6, Names, MovedTransfers DEF Situated
<1>. HIDE DEF b1
<1>7. /\ balance' \in Balances
      /\ AreIntegers(balance) /\ AreAmounts(balance)
      /\ AreIntegers(b1) /\ AreAmounts(b1)
      /\ AreIntegers(balance') /\ AreAmounts(balance')
  BY <1>2, <1>a, <1>b, BalancesAreIntegers DEF Transfers, Situated
<1>8. /\ HoldingsInv /\ SupplyInv
      /\ request.amount \in Int /\ request.reward \in Int
      /\ request.bounty = Bounty /\ Bounty \in Int
  BY <1>2 DEF Situated
<1>9. HoldingsInv'
  BY ONLY <1>a, <1>b, <1>5, <1>7, <1>8, Names
     DEF Transfers, AreAmounts, HoldingsInv
<1>10. SupplyInv'
  <2>1. /\ balance'["token"]["stakeVault"]
             = balance["token"]["stakeVault"] + request.amount
        /\ balance'["coin"]["ostPrime"]
             = balance["coin"]["ostPrime"]
        /\ balance'["ostPrime"]["auxiliary2"]
             = balance["ostPrime"]["auxiliary2"]
    BY ONLY <1>a, <1>b, <1>7, <1>8, Names DEF Transfers, AreAmounts
  <2>. QED
    BY ONLY <1>5, <1>7, <1>8, <2>1, SupplyMoves
<1>11. asserted'
  <2>1. Changes(balance, balance', "baseToken",
              [gateway |-> -request.bounty, origin0 |-> request.bounty,
               stakeVault |-> 0])
    <3>1. /\ balance'["baseToken"]["gateway"]
             = balance["baseToken"]["gateway"] - request.bounty
          /\ balance'["baseToken"]["origin0"]
             = balance["baseToken"]["origin0"] + request.bounty
          /\ balance'["baseToken"]["stakeVault"]
             = balance["baseToken"]["stakeVault"]
      BY ONLY <1>a, <1>b, <1>7, <1>8, Names DEF Transfers, AreIntegers
    <3>. QED
      BY ONLY <3>1, <1>7, <1>8, Names DEF Changes, AreIntegers
  <2>2. Changes(balance, balance', "token",
              [gateway |-> -request.amount, origin0 |-> 0,
               stakeVault |-> request.amount])
    <3>1. /\ balance'["token"]["gateway"]
             = balance["token"]["gateway"] - request.amount
          /\ balance'["token"]["origin0"] = balance["token"]["origin0"]
          /\ balance'["token"]["stakeVault"]
             = balance["token"]["stakeVault"] + request.amount
      BY ONLY <1>a, <1>b, <1>7, <1>8, Names DEF Transfers, AreIntegers
    <3>. QED
      BY ONLY <3>1, <1>7, <1>8, Names DEF Changes, AreIntegers
  <2>3. AssertProgressStake(EventOn("origin"), request, balance, balance',
                            FALSE)
    BY <1>2, <1>3, <2>1, <2>2
       DEF AssertProgressStake, EventTells, EventOn, EventOf, Emitted,
           Situated
  <2>. QED
    BY <1>2, <1>3, <1>6, <2>3
       DEF ProgressStake, Verify, Situated, StakeSettled, b1
<1>. QED
  BY <1>1, <1>2, <1>3, <1>4, <1>7, <1>9, <1>10, <1>11, CallKeeps DEF Situated

\* As by secret; the source may have declared the revocation.
LEMMA ProgressStakeWithProofKeeps ==
    ASSUME SuiteInv, ProgressStakeWithProof
    PROVE  SuiteInv'
<1>. DEFINE b1 == Moved(balance, "token", "gateway", "stakeVault",
                        request.amount)
<1>1. /\ Calls("progressStakeWithProof")
      /\ request' = request
      /\ StatusOf("origin", request) \in {"Declared", "DeclaredRevocation"}
      /\ Close("origin", request, "Progressed")
  BY DEF ProgressStakeWithProof, Verify, AcceptedFor
<1>2. Situated("progressStakeWithProof", "origin")
  BY <1>1, Situation DEF StakeCalls
<1>3. /\ ProcessInv' /\ process' \in Processes
      /\ Statuses' = <<"Progressed", InTarget>>
      /\ process["origin"][request.sender].nonce = request.nonce
      /\ process["origin"][request.sender].amount = request.amount
      /\ process["origin"][request.sender].bounty = request.bounty
  BY <1>1, <1>2, ProcessClosed DEF Situated, Chain, ProcessStatus
<1>4. /\ RequestInv' /\ at' \in 1 .. Len(Suite) + 1
      /\ Name' \notin DeployCalls
      /\ Name' # "acceptRedeem"
  BY <1>1, <1>2, <1>3, NextPosition DEF After, Situated, Statuses, NewCalls
<1>5. /\ KeptAmount("auxiliary") = 0 /\ KeptAmount("auxiliary")' = 0
      /\ KeptBounty("auxiliary") = 0 /\ KeptBounty("auxiliary")' = 0
      /\ KeptAmount("origin") = request.amount
      /\ KeptAmount("origin")' = 0
      /\ KeptBounty("origin") = request.bounty
      /\ KeptBounty("origin")' = 0
      /\ Pooled = 0 /\ Pooled' = 0
      /\ Supply' = Supply + request.amount /\ Supply \in Int
  <2>1. /\ Source' = Source /\ Source = "origin"
        /\ Statuses' = <<InSource', InTarget'>>
    BY <1>1, <1>2 DEF Source, Statuses, Situated
  <2>2. Pooled = 0 /\ Pooled' = 0
    BY <1>1, <1>2, <1>4 DEF Pooled, Situated
  <2>5. Underway' = Underway + request.amount /\ Underway \in Int
    BY <1>1, <1>2, <1>3, <2>1 DEF Underway, Statuses, Situated
  <2>6. InSource \in {"Declared", "DeclaredRevocation"}
    BY <1>1, <1>2, <1>3 DEF Situated
  <2>. QED
    BY <1>1, <1>2, <1>3, <1>4, <2>1, <2>2, <2>5, <2>6
       DEF KeptAmount, KeptBounty, Keeps, Supply, Statuses, TokensMax,
           Situated
<1>6. balance' = Moved(b1, "baseToken", "gateway", "origin0", request.bounty)
  BY <1>1, <1>2, <1>3
     DEF ProgressStakeWithProof, Settles, Situated, StakeSettled
<1>a. Transfers(balance, b1, "token", "gateway", "stakeVault", request.amount)
  BY <1>2, Names, MovedTransfers DEF Situated
<1>b. Transfers(b1, balance', "baseToken", "gateway", "origin0",
                request.bounty)
  <2>1. b1 \in Balances
    BY <1>a DEF Transfers
  <2>. QED
    BY <2>1, <1>2, <1>6, Names, MovedTransfers DEF Situated
<1>. HIDE DEF b1
<1>7. /\ balance' \in Balances
      /\ AreIntegers(balance) /\ AreAmounts(balance)
      /\ AreIntegers(b1) /\ AreAmounts(b1)
      /\ AreIntegers(balance') /\ AreAmounts(balance')
  BY <1>2, <1>a, <1>b, BalancesAreIntegers DEF Transfers, Situated
<1>8. /\ HoldingsInv /\ SupplyInv
      /\ request.amount \in Int /\ request.reward \in Int
      /\ request.bounty = Bounty /\ Bounty \in Int
  BY <1>2 DEF Situated
<1>9. HoldingsInv'
  BY ONLY <1>a, <1>b, <1>5, <1>7, <1>8, Names
     DEF Transfers, AreAmounts, HoldingsInv
<1>10. SupplyInv'
  <2>1. /\ balance'["token"]["stakeVault"]
             = balance["token"]["stakeVault"] + request.amount
        /\ balance'["coin"]["ostPrime"]
             = balance["coin"]["ostPrime"]
        /\ balance'["ostPrime"]["auxiliary2"]
             = balance["ostPrime"]["auxiliary2"]
    BY ONLY <1>a, <1>b, <1>7, <1>8, Names DEF Transfers, AreAmounts
  <2>. QED
    BY ONLY <1>5, <1>7, <1>8, <2>1, SupplyMoves
<1>11. asserted'
  <2>1. Changes(balance, balance', "baseToken",
              [gateway |-> -request.bounty, origin0 |-> request.bounty,
               stakeVault |-> 0])
    <3>1. /\ balance'["baseToken"]["gateway"]
             = balance["baseToken"]["gateway"] - request.bounty
          /\ balance'["baseToken"]["origin0"]
             = balance["baseToken"]["origin0"] + request.bounty
          /\ balance'["baseToken"]["stakeVault"]
             = balance["baseToken"]["stakeVault"]
      BY ONLY <1>a, <1>b, <1>7, <1>8, Names DEF Transfers, AreIntegers
    <3>. QED
      BY ONLY <3>1, <1>7, <1>8, Names DEF Changes, AreIntegers
  <2>2. Changes(balance, balance', "token",
              [gateway |-> -request.amount, origin0 |-> 0,
               stakeVault |-> request.amount])
    <3>1. /\ balance'["token"]["gateway"]
             = balance["token"]["gateway"] - request.amount
          /\ balance'["token"]["origin0"] = balance["token"]["origin0"]
          /\ balance'["token"]["stakeVault"]
             = balance["token"]["stakeVault"] + request.amount
      BY ONLY <1>a, <1>b, <1>7, <1>8, Names DEF Transfers, AreIntegers
    <3>. QED
      BY ONLY <3>1, <1>7, <1>8, Names DEF Changes, AreIntegers
  <2>3. AssertProgressStake(Emitted(process["origin"]["origin0"], 0, TRUE),
                            request, balance, balance', TRUE)
    BY <1>2, <1>3, <2>1, <2>2
       DEF AssertProgressStake, EventTells, EventOf, Emitted, Situated
  <2>. QED
    BY <1>2, <1>3, <1>6, <2>3
       DEF ProgressStakeWithProof, Verify, Situated, StakeSettled, b1
<1>. QED
  BY <1>1, <1>2, <1>3, <1>4, <1>7, <1>9, <1>10, <1>11, CallKeeps DEF Situated

\* OSTPrime gives its coins: what was under way arrives, or is due to come.
LEMMA ProgressMintKeeps ==
    ASSUME SuiteInv, ProgressMint
    PROVE  SuiteInv'
<1>. DEFINE b1 == IncreasedSupply(balance, "auxiliary2",
                                  request.amount - request.reward)
            b2 == IncreasedSupply(b1, "auxiliary0", request.reward)
<1>1. /\ Calls("progressMint")
      /\ request' = request
      /\ StatusOf("auxiliary", request) = "Declared"
      /\ Close("auxiliary", request, "Progressed")
  BY DEF ProgressMint, Verify
<1>2. Situated("progressMint", "origin")
  BY <1>1, Situation DEF StakeCalls
<1>3. /\ ProcessInv' /\ process' \in Processes
      /\ Statuses' = <<InSource, "Progressed">>
      /\ process["auxiliary"][request.sender].nonce = request.nonce
      /\ process["auxiliary"][request.sender].amount = request.amount
      /\ process["auxiliary"][request.sender].bounty = request.bounty
  BY <1>1, <1>2, ProcessClosed DEF Situated, Chain, ProcessStatus
<1>4. /\ RequestInv' /\ at' \in 1 .. Len(Suite) + 1
      /\ Name' \notin DeployCalls
      /\ Name' # "acceptRedeem"
  BY <1>1, <1>2, <1>3, NextPosition DEF After, Situated, Statuses, NewCalls
<1>5. /\ KeptAmount("auxiliary") = 0 /\ KeptAmount("auxiliary")' = 0
      /\ KeptBounty("auxiliary") = 0 /\ KeptBounty("auxiliary")' = 0
      /\ KeptAmount("origin")' = KeptAmount("origin")
      /\ KeptBounty("origin")' = KeptBounty("origin")
      /\ Pooled = 0 /\ Pooled' = 0
      /\ Supply' = Supply - request.amount /\ Supply \in Int
  <2>1. /\ Source' = Source /\ Source = "origin"
        /\ Statuses' = <<InSource', InTarget'>>
    BY <1>1, <1>2 DEF Source, Statuses, Situated
  <2>2. Pooled = 0 /\ Pooled' = 0
    BY <1>1, <1>2, <1>4 DEF Pooled, Situated
  <2>4. InTarget = "Declared"
    BY <1>1, <1>2 DEF Other, Situated
  <2>5. Underway' = Underway - request.amount /\ Underway \in Int
    BY <1>1, <1>2, <1>3, <2>1, <2>4 DEF Underway, Statuses, Situated
  <2>. QED
    BY <1>1, <1>2, <1>3, <1>4, <2>1, <2>2, <2>5
       DEF KeptAmount, KeptBounty, Keeps, Supply, Statuses, TokensMax,
           Situated
<1>6. PICK fee \in Fee : balance' = Paid(b2, "auxiliary0", fee)
  BY <1>1, <1>2, <1>3 DEF ProgressMint, Settles, Situated, MintSettled
<1>a. Increases(balance, b1, "auxiliary2", request.amount - request.reward)
  BY <1>2, Names, IncreasedSupplyIncreases DEF Situated
<1>b. Increases(b1, b2, "auxiliary0", request.reward)
  <2>1. b1 \in Balances
    BY <1>a DEF Increases
  <2>. QED
    BY <2>1, <1>2, Names, IncreasedSupplyIncreases DEF Situated
<1>c. Adds(b2, balance', "coin", "auxiliary0", -fee)
  <2>1. b2 \in Balances
    BY <1>b DEF Increases
  <2>. QED
    BY <2>1, <1>2, <1>6, Names, PaidAdds DEF Situated
<1>. HIDE DEF b1, b2
<1>7. /\ balance' \in Balances
      /\ AreIntegers(balance) /\ AreAmounts(balance)
      /\ AreIntegers(b1) /\ AreAmounts(b1)
      /\ AreIntegers(b2) /\ AreAmounts(b2)
      /\ AreIntegers(balance') /\ AreAmounts(balance')
  BY <1>2, <1>a, <1>b, <1>c, BalancesAreIntegers DEF Increases, Adds, Situated
<1>8. /\ HoldingsInv /\ SupplyInv
      /\ request.amount \in Int /\ request.reward \in Int
      /\ request.bounty = Bounty /\ Bounty \in Int /\ fee \in Int
  BY <1>2 DEF Situated
<1>9. HoldingsInv'
  BY ONLY <1>a, <1>b, <1>c, <1>5, <1>7, <1>8, Names
     DEF Increases, Adds, AreAmounts, HoldingsInv
<1>10. SupplyInv'
  <2>1. /\ balance'["coin"]["ostPrime"]
             = balance["coin"]["ostPrime"] - request.amount
        /\ balance'["token"]["stakeVault"]
             = balance["token"]["stakeVault"]
        /\ balance'["ostPrime"]["auxiliary2"]
             = balance["ostPrime"]["auxiliary2"]
    BY ONLY <1>a, <1>b, <1>c, <1>7, <1>8, Names
       DEF Increases, Adds, AreAmounts
  <2>. QED
    BY ONLY <1>5, <1>7, <1>8, <2>1, SupplyMoves
<1>11. asserted'
  <2>1. Changes(balance, b2, "coin",
              [auxiliary2 |-> request.amount - request.reward,
               ostPrime |-> -request.amount, coGateway |-> 0])
    <3>1. /\ b2["coin"]["auxiliary2"]
             = balance["coin"]["auxiliary2"]
                 + (request.amount - request.reward)
          /\ b2["coin"]["ostPrime"]
             = balance["coin"]["ostPrime"] - request.amount
          /\ b2["coin"]["coGateway"] = balance["coin"]["coGateway"]
      BY ONLY <1>a, <1>b, <1>7, <1>8, Names DEF Increases, AreIntegers
    <3>. QED
      BY ONLY <3>1, <1>7, <1>8, Names DEF Changes, AreIntegers
  <2>2. Changes(balance, b2, "ostPrime",
              [auxiliary2 |-> 0, ostPrime |-> request.amount, coGateway |-> 0])
    <3>1. /\ b2["ostPrime"]["auxiliary2"] = balance["ostPrime"]["auxiliary2"]
          /\ b2["ostPrime"]["ostPrime"]
             = balance["ostPrime"]["ostPrime"] + request.amount
          /\ b2["ostPrime"]["coGateway"] = balance["ostPrime"]["coGateway"]
      BY ONLY <1>a, <1>b, <1>7, <1>8, Names DEF Increases, AreIntegers
    <3>. QED
      BY ONLY <3>1, <1>7, <1>8, Names DEF Changes, AreIntegers
  <2>3. AssertProgressMint(EventOn("auxiliary"), request, balance, b2, FALSE)
    BY <1>2, <1>3, <2>1, <2>2
       DEF AssertProgressMint, EventTells, EventOn, EventOf, Emitted, Situated
  <2>. QED
    BY <1>2, <1>3, <1>6, <2>3
       DEF ProgressMint, Verify, Situated, MintSettled, b1, b2
<1>. QED
  BY <1>1, <1>2, <1>3, <1>4, <1>7, <1>9, <1>10, <1>11, CallKeeps DEF Situated

\* As by secret.
LEMMA ProgressMintWithProofKeeps ==
    ASSUME SuiteInv, ProgressMintWithProof
    PROVE  SuiteInv'
<1>. DEFINE b1 == IncreasedSupply(balance, "auxiliary2",
                                  request.amount - request.reward)
            b2 == IncreasedSupply(b1, "auxiliary0", request.reward)
<1>1. /\ Calls("progressMintWithProof")
      /\ request' = request
      /\ StatusOf("auxiliary", request) = "Declared"
      /\ Close("auxiliary", request, "Progressed")
  BY DEF ProgressMintWithProof, Verify
<1>2. Situated("progressMintWithProof", "origin")
  BY <1>1, Situation DEF StakeCalls
<1>3. /\ ProcessInv' /\ process' \in Processes
      /\ Statuses' = <<InSource, "Progressed">>
      /\ process["auxiliary"][request.sender].nonce = request.nonce
      /\ process["auxiliary"][request.sender].amount = request.amount
      /\ process["auxiliary"][request.sender].bounty = request.bounty
  BY <1>1, <1>2, ProcessClosed DEF Situated, Chain, ProcessStatus
<1>4. /\ RequestInv' /\ at' \in 1 .. Len(Suite) + 1
      /\ Name' \notin DeployCalls
      /\ Name' # "acceptRedeem"
  BY <1>1, <1>2, <1>3, NextPosition DEF After, Situated, Statuses, NewCalls
<1>5. /\ KeptAmount("auxiliary") = 0 /\ KeptAmount("auxiliary")' = 0
      /\ KeptBounty("auxiliary") = 0 /\ KeptBounty("auxiliary")' = 0
      /\ KeptAmount("origin")' = KeptAmount("origin")
      /\ KeptBounty("origin")' = KeptBounty("origin")
      /\ Pooled = 0 /\ Pooled' = 0
      /\ Supply' = Supply - request.amount /\ Supply \in Int
  <2>1. /\ Source' = Source /\ Source = "origin"
        /\ Statuses' = <<InSource', InTarget'>>
    BY <1>1, <1>2 DEF Source, Statuses, Situated
  <2>2. Pooled = 0 /\ Pooled' = 0
    BY <1>1, <1>2, <1>4 DEF Pooled, Situated
  <2>4. InTarget = "Declared"
    BY <1>1, <1>2 DEF Other, Situated
  <2>5. Underway' = Underway - request.amount /\ Underway \in Int
    BY <1>1, <1>2, <1>3, <2>1, <2>4 DEF Underway, Statuses, Situated
  <2>. QED
    BY <1>1, <1>2, <1>3, <1>4, <2>1, <2>2, <2>5
       DEF KeptAmount, KeptBounty, Keeps, Supply, Statuses, TokensMax,
           Situated
<1>6. PICK fee \in Fee : balance' = Paid(b2, "auxiliary0", fee)
  BY <1>1, <1>2, <1>3
     DEF ProgressMintWithProof, Settles, Situated, MintSettled
<1>a. Increases(balance, b1, "auxiliary2", request.amount - request.reward)
  BY <1>2, Names, IncreasedSupplyIncreases DEF Situated
<1>b. Increases(b1, b2, "auxiliary0", request.reward)
  <2>1. b1 \in Balances
    BY <1>a DEF Increases
  <2>. QED
    BY <2>1, <1>2, Names, IncreasedSupplyIncreases DEF Situated
<1>c. Adds(b2, balance', "coin", "auxiliary0", -fee)
  <2>1. b2 \in Balances
    BY <1>b DEF Increases
  <2>. QED
    BY <2>1, <1>2, <1>6, Names, PaidAdds DEF Situated
<1>. HIDE DEF b1, b2
<1>7. /\ balance' \in Balances
      /\ AreIntegers(balance) /\ AreAmounts(balance)
      /\ AreIntegers(b1) /\ AreAmounts(b1)
      /\ AreIntegers(b2) /\ AreAmounts(b2)
      /\ AreIntegers(balance') /\ AreAmounts(balance')
  BY <1>2, <1>a, <1>b, <1>c, BalancesAreIntegers DEF Increases, Adds, Situated
<1>8. /\ HoldingsInv /\ SupplyInv
      /\ request.amount \in Int /\ request.reward \in Int
      /\ request.bounty = Bounty /\ Bounty \in Int /\ fee \in Int
  BY <1>2 DEF Situated
<1>9. HoldingsInv'
  BY ONLY <1>a, <1>b, <1>c, <1>5, <1>7, <1>8, Names
     DEF Increases, Adds, AreAmounts, HoldingsInv
<1>10. SupplyInv'
  <2>1. /\ balance'["coin"]["ostPrime"]
             = balance["coin"]["ostPrime"] - request.amount
        /\ balance'["token"]["stakeVault"]
             = balance["token"]["stakeVault"]
        /\ balance'["ostPrime"]["auxiliary2"]
             = balance["ostPrime"]["auxiliary2"]
    BY ONLY <1>a, <1>b, <1>c, <1>7, <1>8, Names
       DEF Increases, Adds, AreAmounts
  <2>. QED
    BY ONLY <1>5, <1>7, <1>8, <2>1, SupplyMoves
<1>11. asserted'
  <2>1. Changes(balance, b2, "coin",
              [auxiliary2 |-> request.amount - request.reward,
               ostPrime |-> -request.amount, coGateway |-> 0])
    <3>1. /\ b2["coin"]["auxiliary2"]
             = balance["coin"]["auxiliary2"]
                 + (request.amount - request.reward)
          /\ b2["coin"]["ostPrime"]
             = balance["coin"]["ostPrime"] - request.amount
          /\ b2["coin"]["coGateway"] = balance["coin"]["coGateway"]
      BY ONLY <1>a, <1>b, <1>7, <1>8, Names DEF Increases, AreIntegers
    <3>. QED
      BY ONLY <3>1, <1>7, <1>8, Names DEF Changes, AreIntegers
  <2>2. Changes(balance, b2, "ostPrime",
              [auxiliary2 |-> 0, ostPrime |-> request.amount, coGateway |-> 0])
    <3>1. /\ b2["ostPrime"]["auxiliary2"] = balance["ostPrime"]["auxiliary2"]
          /\ b2["ostPrime"]["ostPrime"]
             = balance["ostPrime"]["ostPrime"] + request.amount
          /\ b2["ostPrime"]["coGateway"] = balance["ostPrime"]["coGateway"]
      BY ONLY <1>a, <1>b, <1>7, <1>8, Names DEF Increases, AreIntegers
    <3>. QED
      BY ONLY <3>1, <1>7, <1>8, Names DEF Changes, AreIntegers
  <2>3. AssertProgressMint(Emitted(process["auxiliary"]["origin0"],
                                   request.reward, TRUE),
                           request, balance, b2, TRUE)
    BY <1>2, <1>3, <2>1, <2>2
       DEF AssertProgressMint, EventTells, EventOf, Emitted, Situated
  <2>. QED
    BY <1>2, <1>3, <1>6, <2>3
       DEF ProgressMintWithProof, Verify, Situated, MintSettled, b1, b2
<1>. QED
  BY <1>1, <1>2, <1>3, <1>4, <1>7, <1>9, <1>10, <1>11, CallKeeps DEF Situated

\* The penalty is burnt; the gateway keeps the stake.
LEMMA RevertStakeKeeps ==
    ASSUME SuiteInv, RevertStake
    PROVE  SuiteInv'
<1>1. /\ Calls("revertStake")
      /\ request' = request
      /\ StatusOf("origin", request) = "Declared"
      /\ Close("origin", request, "DeclaredRevocation")
  BY DEF RevertStake, Verify
<1>2. Situated("revertStake", "origin")
  BY <1>1, Situation DEF StakeCalls
<1>3. /\ ProcessInv' /\ process' \in Processes
      /\ Statuses' = <<"DeclaredRevocation", InTarget>>
      /\ process["origin"][request.sender].nonce = request.nonce
      /\ process["origin"][request.sender].amount = request.amount
      /\ process["origin"][request.sender].bounty = request.bounty
  BY <1>1, <1>2, ProcessClosed DEF Situated, Chain, ProcessStatus
<1>4. /\ RequestInv' /\ at' \in 1 .. Len(Suite) + 1
      /\ Name' \notin DeployCalls
      /\ Name' # "acceptRedeem"
  BY <1>1, <1>2, <1>3, NextPosition DEF After, Situated, Statuses, NewCalls
<1>5. /\ KeptAmount("auxiliary") = 0 /\ KeptAmount("auxiliary")' = 0
      /\ KeptBounty("auxiliary") = 0 /\ KeptBounty("auxiliary")' = 0
      /\ KeptAmount("origin")' = KeptAmount("origin")
      /\ KeptBounty("origin")' = KeptBounty("origin")
      /\ Pooled = 0 /\ Pooled' = 0
      /\ Supply' = Supply /\ Supply \in Int
  <2>1. /\ Source' = Source /\ Source = "origin"
        /\ Statuses' = <<InSource', InTarget'>>
    BY <1>1, <1>2 DEF Source, Statuses, Situated
  <2>2. Pooled = 0 /\ Pooled' = 0
    BY <1>1, <1>2, <1>4 DEF Pooled, Situated
  <2>5. Underway' = Underway /\ Underway \in Int
    BY <1>1, <1>2, <1>3, <2>1 DEF Underway, Statuses, Situated
  <2>. QED
    BY <1>1, <1>2, <1>3, <1>4, <2>1, <2>2, <2>5
       DEF KeptAmount, KeptBounty, Keeps, Supply, Statuses, TokensMax,
           Situated
<1>6. balance' = Moved(balance, "baseToken", "origin0", "burner",
                       (request.bounty * 150) \div 100)
  BY <1>1, <1>2, <1>3 DEF RevertStake, Settles, Situated, Penalty
<1>a. Transfers(balance, balance', "baseToken", "origin0", "burner",
                (request.bounty * 150) \div 100)
  BY <1>2, <1>6, Names, MovedTransfers DEF Situated
<1>7. /\ balance' \in Balances
      /\ AreIntegers(balance) /\ AreAmounts(balance)
      /\ AreIntegers(balance') /\ AreAmounts(balance')
  BY <1>2, <1>a, BalancesAreIntegers DEF Transfers, Situated
<1>8. /\ HoldingsInv /\ SupplyInv
      /\ request.amount \in Int /\ request.reward \in Int
      /\ request.bounty = Bounty /\ Bounty \in Int
  BY <1>2 DEF Situated
<1>9. HoldingsInv'
  BY ONLY <1>a, <1>5, <1>7, <1>8, Names DEF Transfers, AreAmounts, HoldingsInv
<1>10. SupplyInv'
  BY ONLY <1>a, <1>5, <1>7, <1>8, Names DEF Transfers, AreAmounts, SupplyInv
<1>11. asserted'
  <2>1. Changes(balance, balance', "baseToken",
              [gateway |-> 0, origin0 |-> -((request.bounty * 150) \div 100),
               burner |-> (request.bounty * 150) \div 100])
    <3>1. /\ balance'["baseToken"]["gateway"]
             = balance["baseToken"]["gateway"]
          /\ balance'["baseToken"]["origin0"]
             = balance["baseToken"]["origin0"]
                 - ((request.bounty * 150) \div 100)
          /\ balance'["baseToken"]["burner"]
             = balance["baseToken"]["burner"]
                 + (request.bounty * 150) \div 100
      BY ONLY <1>a, <1>7, <1>8, Names DEF Transfers, AreIntegers
    <3>. QED
      BY ONLY <3>1, <1>7, <1>8, Names DEF Changes, AreIntegers
  <2>2. Changes(balance, balance', "token",
              [gateway |-> 0, origin0 |-> 0, burner |-> 0])
    <3>1. /\ balance'["token"]["gateway"] = balance["token"]["gateway"]
          /\ balance'["token"]["origin0"] = balance["token"]["origin0"]
          /\ balance'["token"]["burner"] = balance["token"]["burner"]
      BY ONLY <1>a, <1>7, <1>8, Names DEF Transfers, AreIntegers
    <3>. QED
      BY ONLY <3>1, <1>7, <1>8, Names DEF Changes, AreIntegers
  <2>3. AssertRevertStake(EventOn("origin"), request, balance, balance')
    BY <1>2, <1>3, <2>1, <2>2
       DEF AssertRevertStake, EventOn, EventOf, Emitted, Situated
  <2>. QED
    BY <1>2, <1>3, <1>6, <2>3 DEF RevertStake, Verify, Situated, Penalty
<1>. QED
  BY <1>1, <1>2, <1>3, <1>4, <1>7, <1>9, <1>10, <1>11, CallKeeps DEF Situated

\* Nothing moves when the target revokes the request.
LEMMA ConfirmRevertStakeIntentKeeps ==
    ASSUME SuiteInv, ConfirmRevertStakeIntent
    PROVE  SuiteInv'
<1>1. /\ Calls("confirmRevertStakeIntent")
      /\ request' = request
      /\ StatusOf("auxiliary", request) = "Declared"
      /\ Close("auxiliary", request, "Revoked")
  BY DEF ConfirmRevertStakeIntent, Verify
<1>2. Situated("confirmRevertStakeIntent", "origin")
  BY <1>1, Situation DEF StakeCalls
<1>3. /\ ProcessInv' /\ process' \in Processes
      /\ Statuses' = <<InSource, "Revoked">>
      /\ process["auxiliary"][request.sender].nonce = request.nonce
      /\ process["auxiliary"][request.sender].amount = request.amount
      /\ process["auxiliary"][request.sender].bounty = request.bounty
  BY <1>1, <1>2, ProcessClosed DEF Situated, Chain, ProcessStatus
<1>4. /\ RequestInv' /\ at' \in 1 .. Len(Suite) + 1
      /\ Name' \notin DeployCalls
      /\ Name' # "acceptRedeem"
  BY <1>1, <1>2, <1>3, NextPosition DEF After, Situated, Statuses, NewCalls
<1>5. /\ KeptAmount("auxiliary") = 0 /\ KeptAmount("auxiliary")' = 0
      /\ KeptBounty("auxiliary") = 0 /\ KeptBounty("auxiliary")' = 0
      /\ KeptAmount("origin")' = KeptAmount("origin")
      /\ KeptBounty("origin")' = KeptBounty("origin")
      /\ Pooled = 0 /\ Pooled' = 0
      /\ Supply' = Supply /\ Supply \in Int
  <2>1. /\ Source' = Source /\ Source = "origin"
        /\ Statuses' = <<InSource', InTarget'>>
    BY <1>1, <1>2 DEF Source, Statuses, Situated
  <2>2. Pooled = 0 /\ Pooled' = 0
    BY <1>1, <1>2, <1>4 DEF Pooled, Situated
  <2>4. InTarget = "Declared"
    BY <1>1, <1>2 DEF Other, Situated
  <2>5. Underway' = Underway /\ Underway \in Int
    BY <1>1, <1>2, <1>3, <2>1, <2>4 DEF Underway, Statuses, Situated
  <2>. QED
    BY <1>1, <1>2, <1>3, <1>4, <2>1, <2>2, <2>5
       DEF KeptAmount, KeptBounty, Keeps, Supply, Statuses, TokensMax,
           Situated
<1>6. balance' = balance
  BY DEF ConfirmRevertStakeIntent
<1>7. balance' \in Balances /\ AreAmounts(balance)
  BY <1>2, <1>6, BalancesAreIntegers DEF Situated
<1>8. /\ HoldingsInv /\ SupplyInv
      /\ request.amount \in Int /\ request.reward \in Int
      /\ request.bounty = Bounty /\ Bounty \in Int
  BY <1>2 DEF Situated
<1>9. HoldingsInv'
  BY ONLY <1>6, <1>5, <1>7, <1>8, Names DEF AreAmounts, HoldingsInv
<1>10. SupplyInv'
  BY ONLY <1>6, <1>5, <1>7, <1>8, Names DEF AreAmounts, SupplyInv
<1>11. asserted'
  <2>1. AssertConfirmRevertStakeIntent(EventOn("auxiliary"), request)
    BY <1>1, <1>2, <1>3, <1>6, <1>7, <1>8, Names
       DEF AssertConfirmRevertStakeIntent, EventOn, EventOf, Emitted, Situated
  <2>. QED
    BY <1>2, <2>1 DEF ConfirmRevertStakeIntent, Verify, Situated
<1>. QED
  BY <1>1, <1>2, <1>3, <1>4, <1>7, <1>9, <1>10, <1>11, CallKeeps DEF Situated

\* The stake goes back, its bounty is burnt.
LEMMA ProgressRevertStakeKeeps ==
    ASSUME SuiteInv, ProgressRevertStake
    PROVE  SuiteInv'
<1>. DEFINE b1 == Moved(balance, "token", "gateway", "origin0",
                        request.amount)
<1>1. /\ Calls("progressRevertStake")
      /\ request' = request
      /\ StatusOf("origin", request) = "DeclaredRevocation"
      /\ Proves("origin", request, "Revoked")
      /\ Close("origin", request, "Revoked")
  BY DEF ProgressRevertStake, Verify
<1>2. Situated("progressRevertStake", "origin")
  BY <1>1, Situation DEF StakeCalls
<1>3. /\ ProcessInv' /\ process' \in Processes
      /\ Statuses' = <<"Revoked", InTarget>>
      /\ process["origin"][request.sender].nonce = request.nonce
      /\ process["origin"][request.sender].amount = request.amount
      /\ process["origin"][request.sender].bounty = request.bounty
  BY <1>1, <1>2, ProcessClosed DEF Situated, Chain, ProcessStatus
<1>4. /\ RequestInv' /\ at' \in 1 .. Len(Suite) + 1
      /\ Name' \notin DeployCalls
      /\ Name' # "acceptRedeem"
  BY <1>1, <1>2, <1>3, NextPosition DEF After, Situated, Statuses, NewCalls
<1>5. /\ KeptAmount("auxiliary") = 0 /\ KeptAmount("auxiliary")' = 0
      /\ KeptBounty("auxiliary") = 0 /\ KeptBounty("auxiliary")' = 0
      /\ KeptAmount("origin") = request.amount
      /\ KeptAmount("origin")' = 0
      /\ KeptBounty("origin") = request.bounty
      /\ KeptBounty("origin")' = 0
      /\ Pooled = 0 /\ Pooled' = 0
      /\ Supply' = Supply /\ Supply \in Int
  <2>1. /\ Source' = Source /\ Source = "origin"
        /\ Statuses' = <<InSource', InTarget'>>
    BY <1>1, <1>2 DEF Source, Statuses, Situated
  <2>2. Pooled = 0 /\ Pooled' = 0
    BY <1>1, <1>2, <1>4 DEF Pooled, Situated
  <2>3. InTarget = "Revoked"
    BY <1>1, <1>2 DEF Proves, ProvenOn, Other, StatusOf, Situated
  <2>5. Underway' = Underway /\ Underway \in Int
    BY <1>1, <1>2, <1>3, <2>1, <2>3 DEF Underway, Statuses, Situated
  <2>6. InSource \in {"Declared", "DeclaredRevocation"}
    BY <1>1, <1>2, <1>3 DEF Situated
  <2>. QED
    BY <1>1, <1>2, <1>3, <1>4, <2>1, <2>2, <2>5, <2>6
       DEF KeptAmount, KeptBounty, Keeps, Supply, Statuses, TokensMax,
           Situated
<1>6. balance' = Moved(b1, "baseToken", "gateway", "burner", request.bounty)
  BY <1>1, <1>2, <1>3 DEF ProgressRevertStake, Settles, Situated
<1>a. Transfers(balance, b1, "token", "gateway", "origin0", request.amount)
  BY <1>2, Names, MovedTransfers DEF Situated
<1>b. Transfers(b1, balance', "baseToken", "gateway", "burner",
                request.bounty)
  <2>1. b1 \in Balances
    BY <1>a DEF Transfers
  <2>. QED
    BY <2>1, <1>2, <1>6, Names, MovedTransfers DEF Situated
<1>. HIDE DEF b1
<1>7. /\ balance' \in Balances
      /\ AreIntegers(balance) /\ AreAmounts(balance)
      /\ AreIntegers(b1) /\ AreAmounts(b1)
      /\ AreIntegers(balance') /\ AreAmounts(balance')
  BY <1>2, <1>a, <1>b, BalancesAreIntegers DEF Transfers, Situated
<1>8. /\ HoldingsInv /\ SupplyInv
      /\ request.amount \in Int /\ request.reward \in Int
      /\ request.bounty = Bounty /\ Bounty \in Int
  BY <1>2 DEF Situated
<1>9. HoldingsInv'
  BY ONLY <1>a, <1>b, <1>5, <1>7, <1>8, Names
     DEF Transfers, AreAmounts, HoldingsInv
<1>10. SupplyInv'
  BY ONLY <1>a, <1>b, <1>5, <1>7, <1>8, Names
     DEF Transfers, AreAmounts, SupplyInv
<1>11. asserted'
  <2>1. Changes(balance, balance', "baseToken",
              [gateway |-> -request.bounty, origin0 |-> 0,
               burner |-> request.bounty])
    <3>1. /\ balance'["baseToken"]["gateway"]
             = balance["baseToken"]["gateway"] - request.bounty
          /\ balance'["baseToken"]["origin0"]
             = balance["baseToken"]["origin0"]
          /\ balance'["baseToken"]["burner"]
             = balance["baseToken"]["burner"] + request.bounty
      BY ONLY <1>a, <1>b, <1>7, <1>8, Names DEF Transfers, AreIntegers
    <3>. QED
      BY ONLY <3>1, <1>7, <1>8, Names DEF Changes, AreIntegers
  <2>2. Changes(balance, balance', "token",
              [gateway |-> -request.amount, origin0 |-> request.amount,
               burner |-> 0])
    <3>1. /\ balance'["token"]["gateway"]
             = balance["token"]["gateway"] - request.amount
          /\ balance'["token"]["origin0"]
             = balance["token"]["origin0"] + request.amount
          /\ balance'["token"]["burner"] = balance["token"]["burner"]
      BY ONLY <1>a, <1>b, <1>7, <1>8, Names DEF Transfers, AreIntegers
    <3>. QED
      BY ONLY <3>1, <1>7, <1>8, Names DEF Changes, AreIntegers
  <2>3. AssertProgressRevertStake(EventOn("origin"), request, balance,
                                  balance')
    BY <1>2, <1>3, <2>1, <2>2
       DEF AssertProgressRevertStake, EventOn, EventOf, Emitted, Situated
  <2>. QED
    BY <1>2, <1>3, <1>6, <2>3 DEF ProgressRevertStake, Verify, Situated, b1
<1>. QED
  BY <1>1, <1>2, <1>3, <1>4, <1>7, <1>9, <1>10, <1>11, CallKeeps DEF Situated

-----------------------------------------------------------------------------
\* The calls of the redeems, in the same steps.
\* The wrapped amount and the bounty go to the co-gateway: from here on it
\* is missing in the holdings of the redeemer.
LEMMA RedeemKeeps ==
    ASSUME SuiteInv, Redeem
    PROVE  SuiteInv'
<1>. DEFINE b1 == Wrapped(balance, "auxiliary2", request.amount)
            b2 == Moved(b1, "ostPrime", "auxiliary2", "coGateway",
                        request.amount)
            b3 == Moved(b2, "coin", "auxiliary2", "coGateway", Bounty)
<1>1. /\ Calls("redeem")
      /\ request' = request
      /\ Register("auxiliary", request)
  BY DEF Redeem, Verify
<1>2. Situated("redeem", "auxiliary")
  BY <1>1, Situation DEF RedeemCalls
<1>3. /\ ProcessInv' /\ process' \in Processes
      /\ InSource = "Undeclared" /\ InTarget = "Undeclared"
      /\ Statuses' = <<"Declared", "Undeclared">>
  BY <1>1, <1>2, RegisteredAtSource DEF Situated
<1>4. /\ RequestInv' /\ at' \in 1 .. Len(Suite) + 1
      /\ Name' \notin DeployCalls
      /\ Name' # "acceptRedeem"
  BY <1>1, <1>2, <1>3, NextPosition DEF After, Situated, Statuses, NewCalls
<1>5. /\ KeptAmount("origin") = 0 /\ KeptAmount("origin")' = 0
      /\ KeptBounty("origin") = 0 /\ KeptBounty("origin")' = 0
      /\ KeptAmount("auxiliary") = 0
      /\ KeptAmount("auxiliary")' = request.amount
      /\ KeptBounty("auxiliary") = 0
      /\ KeptBounty("auxiliary")' = request.bounty
      /\ Pooled = 0 /\ Pooled' = 0
      /\ Supply' = Supply + request.amount /\ Supply \in Int
  <2>1. /\ Source' = Source /\ Source = "auxiliary"
        /\ Statuses' = <<InSource', InTarget'>>
    BY <1>1, <1>2 DEF Source, Statuses, Situated
  <2>2. Pooled = 0 /\ Pooled' = 0
    BY <1>1, <1>2, <1>4 DEF Pooled, Situated
  <2>5. Underway' = Underway + request.amount /\ Underway \in Int
    BY <1>1, <1>2, <1>3, <2>1 DEF Underway, Statuses, Situated
  <2>. QED
    BY <1>1, <1>2, <1>3, <1>4, <2>1, <2>2, <2>5
       DEF KeptAmount, KeptBounty, Keeps, Supply, Statuses, TokensMax,
           Situated
<1>6. PICK fee \in Fee :
        /\ balance' = Paid(b3, "auxiliary2", fee)
        /\ asserted' =
             (asserted
                /\ AssertRedeem(NewEvent, request, fee, b1, balance'))
  BY <1>1, <1>2, <1>3 DEF Redeem, Settles, Situated, Verify
<1>a. Wraps(balance, b1, "auxiliary2", request.amount)
  BY <1>2, Names, WrappedWraps DEF Situated
<1>b. Transfers(b1, b2, "ostPrime", "auxiliary2", "coGateway", request.amount)
  <2>1. b1 \in Balances
    BY <1>a DEF Wraps
  <2>. QED
    BY <2>1, <1>2, Names, MovedTransfers DEF Situated
<1>c. Transfers(b2, b3, "coin", "auxiliary2", "coGateway", Bounty)
  <2>1. b2 \in Balances
    BY <1>b DEF Transfers
  <2>. QED
    BY <2>1, <1>2, Names, MovedTransfers DEF Situated
<1>d. Adds(b3, balance', "coin", "auxiliary2", -fee)
  <2>1. b3 \in Balances
    BY <1>c DEF Transfers
  <2>. QED
    BY <2>1, <1>2, <1>6, Names, PaidAdds DEF Situated
<1>. HIDE DEF b1, b2, b3
<1>7. /\ balance' \in Balances
      /\ AreIntegers(balance) /\ AreAmounts(balance)
      /\ AreIntegers(b1) /\ AreAmounts(b1)
      /\ AreIntegers(b2) /\ AreAmounts(b2)
      /\ AreIntegers(b3) /\ AreAmounts(b3)
      /\ AreIntegers(balance') /\ AreAmounts(balance')
  BY <1>2, <1>a, <1>b, <1>c, <1>d, BalancesAreIntegers
     DEF Wraps, Transfers, Adds, Situated
<1>8. /\ HoldingsInv /\ SupplyInv
      /\ request.amount \in Int /\ request.reward \in Int
      /\ request.bounty = Bounty /\ Bounty \in Int /\ fee \in Int
  BY <1>2 DEF Situated
<1>9. HoldingsInv'
  <2>1. /\ balance'["ostPrime"]["redeemPool"] = Pooled'
        /\ balance'["token"]["gateway"] = KeptAmount("origin")'
        /\ balance'["baseToken"]["gateway"] = KeptBounty("origin")'
        /\ balance'["ostPrime"]["coGateway"] = KeptAmount("auxiliary")'
        /\ balance'["coin"]["coGateway"] = KeptBounty("auxiliary")'
    BY ONLY <1>a, <1>b, <1>c, <1>d, <1>5, <1>7, <1>8, Names
       DEF Wraps, Transfers, Adds, AreAmounts, AreIntegers, HoldingsInv
  <2>2. ASSUME NEW l \in Ledger
        PROVE  /\ balance'[l]["proxy"] = 0
               /\ l # "ostPrime" => balance'[l]["redeemPool"] = 0
               /\ l \notin {"token", "baseToken"} => balance'[l]["gateway"] = 0
               /\ l \notin {"ostPrime", "coin"} => balance'[l]["coGateway"] = 0
    BY ONLY <1>a, <1>b, <1>c, <1>d, <1>5, <1>7, <1>8, Names
       DEF Wraps, Transfers, Adds, AreAmounts, AreIntegers, HoldingsInv
  <2>. QED
    BY ONLY <2>1, <2>2 DEF HoldingsInv
<1>10. SupplyInv'
  BY ONLY <1>a, <1>b, <1>c, <1>d, <1>5, <1>7, <1>8, Names
     DEF Wraps, Transfers, Adds, AreAmounts, SupplyInv
<1>11. asserted'
  <2>1. Changes(b1, balance', "coin",
              [coGateway |-> request.bounty,
               auxiliary2 |-> -(request.bounty + fee)])
    <3>1. /\ balance'["coin"]["coGateway"]
             = b1["coin"]["coGateway"] + request.bounty
          /\ balance'["coin"]["auxiliary2"]
             = b1["coin"]["auxiliary2"] - (request.bounty + fee)
      BY ONLY <1>b, <1>c, <1>d, <1>7, <1>8, Names
         DEF Transfers, Adds, AreIntegers
    <3>. QED
      BY ONLY <3>1, <1>7, <1>8, Names DEF Changes, AreIntegers
  <2>2. Changes(b1, balance', "ostPrime",
              [coGateway |-> request.amount, auxiliary2 |-> -request.amount])
    <3>1. /\ balance'["ostPrime"]["coGateway"]
             = b1["ostPrime"]["coGateway"] + request.amount
          /\ balance'["ostPrime"]["auxiliary2"]
             = b1["ostPrime"]["auxiliary2"] - request.amount
      BY ONLY <1>b, <1>c, <1>d, <1>7, <1>8, Names
         DEF Transfers, Adds, AreIntegers
    <3>. QED
      BY ONLY <3>1, <1>7, <1>8, Names DEF Changes, AreIntegers
  <2>3. AssertRedeem(NewEvent, request, fee, b1, balance')
    BY <1>2, <1>3, <2>1, <2>2
       DEF AssertRedeem, NewEvent, EventOf, Emitted, Situated
  <2>. QED
    BY <1>2, <1>6, <2>3 DEF Situated
<1>. QED
  BY <1>1, <1>2, <1>3, <1>4, <1>7, <1>9, <1>10, <1>11, CallKeeps DEF Situated

\* The wrapped amount goes to the pool; no process changes.
LEMMA RequestRedeemKeeps ==
    ASSUME SuiteInv, RequestRedeem
    PROVE  SuiteInv'
<1>. DEFINE b1 == Wrapped(balance, "auxiliary2", request.amount)
            b2 == Moved(b1, "ostPrime", "auxiliary2", "redeemPool",
                        request.amount)
<1>1. /\ Calls("requestRedeem")
      /\ request' = request
      /\ process' = process
  BY DEF RequestRedeem, Verify
<1>2. Situated("requestRedeem", "auxiliary")
  BY <1>1, Situation DEF RedeemCalls
<1>3. /\ ProcessInv' /\ process' \in Processes
      /\ Statuses' = Statuses
  BY <1>1, <1>2, ProcessKept DEF Situated
<1>4. /\ RequestInv' /\ at' \in 1 .. Len(Suite) + 1
      /\ Name' \notin DeployCalls
      /\ Name' = "acceptRedeem"
  BY <1>1, <1>2, <1>3, NextPosition DEF After, Situated, Statuses, NewCalls
<1>5. /\ KeptAmount("origin") = 0 /\ KeptAmount("origin")' = 0
      /\ KeptBounty("origin") = 0 /\ KeptBounty("origin")' = 0
      /\ KeptAmount("auxiliary")' = KeptAmount("auxiliary")
      /\ KeptBounty("auxiliary")' = KeptBounty("auxiliary")
      /\ Pooled = 0 /\ Pooled' = request.amount
      /\ Supply' = Supply + request.amount /\ Supply \in Int
  <2>1. /\ Source' = Source /\ Source = "auxiliary"
        /\ Statuses' = <<InSource', InTarget'>>
    BY <1>1, <1>2 DEF Source, Statuses, Situated
  <2>2. Pooled = 0 /\ Pooled' = request.amount
    BY <1>1, <1>2, <1>4 DEF Pooled, Situated
  <2>5. Underway' = Underway /\ Underway \in Int
    BY <1>1, <1>2, <1>3, <2>1 DEF Underway, Statuses, Situated
  <2>. QED
    BY <1>1, <1>2, <1>3, <1>4, <2>1, <2>2, <2>5
       DEF KeptAmount, KeptBounty, Keeps, Supply, Statuses, TokensMax,
           Situated
<1>6. PICK fee \in Fee :
        /\ balance' = Paid(b2, "auxiliary2", fee)
        /\ asserted' =
             (asserted
                /\ AssertRequestRedeem(NewEvent, request, fee, b1, balance'))
  BY <1>1, <1>2, <1>3 DEF RequestRedeem, Settles, Situated, Verify
<1>a. Wraps(balance, b1, "auxiliary2", request.amount)
  BY <1>2, Names, WrappedWraps DEF Situated
<1>b. Transfers(b1, b2, "ostPrime", "auxiliary2", "redeemPool",
                request.amount)
  <2>1. b1 \in Balances
    BY <1>a DEF Wraps
  <2>. QED
    BY <2>1, <1>2, Names, MovedTransfers DEF Situated
<1>c. Adds(b2, balance', "coin", "auxiliary2", -fee)
  <2>1. b2 \in Balances
    BY <1>b DEF Transfers
  <2>. QED
    BY <2>1, <1>2, <1>6, Names, PaidAdds DEF Situated
<1>. HIDE DEF b1, b2
<1>7. /\ balance' \in Balances
      /\ AreIntegers(balance) /\ AreAmounts(balance)
      /\ AreIntegers(b1) /\ AreAmounts(b1)
      /\ AreIntegers(b2) /\ AreAmounts(b2)
      /\ AreIntegers(balance') /\ AreAmounts(balance')
  BY <1>2, <1>a, <1>b, <1>c, BalancesAreIntegers
     DEF Wraps, Transfers, Adds, Situated
<1>8. /\ HoldingsInv /\ SupplyInv
      /\ request.amount \in Int /\ request.reward \in Int
      /\ request.bounty = Bounty /\ Bounty \in Int /\ fee \in Int
  BY <1>2 DEF Situated
<1>9. HoldingsInv'
  BY ONLY <1>a, <1>b, <1>c, <1>5, <1>7, <1>8, Names
     DEF Wraps, Transfers, Adds, AreAmounts, HoldingsInv
<1>10. SupplyInv'
  BY ONLY <1>a, <1>b, <1>c, <1>5, <1>7, <1>8, Names
     DEF Wraps, Transfers, Adds, AreAmounts, SupplyInv
<1>11. asserted'
  <2>1. Changes(b1, balance', "coin", [redeemPool |-> 0, auxiliary2 |-> -fee])
    <3>1. /\ balance'["coin"]["redeemPool"] = b1["coin"]["redeemPool"]
          /\ balance'["coin"]["auxiliary2"]
             = b1["coin"]["auxiliary2"] - fee
      BY ONLY <1>b, <1>c, <1>7, <1>8, Names DEF Transfers, Adds, AreIntegers
    <3>. QED
      BY ONLY <3>1, <1>7, <1>8, Names DEF Changes, AreIntegers
  <2>2. Changes(b1, balance', "ostPrime",
              [redeemPool |-> request.amount, auxiliary2 |-> -request.amount])
    <3>1. /\ balance'["ostPrime"]["redeemPool"]
             = b1["ostPrime"]["redeemPool"] + request.amount
          /\ balance'["ostPrime"]["auxiliary2"]
             = b1["ostPrime"]["auxiliary2"] - request.amount
      BY ONLY <1>b, <1>c, <1>7, <1>8, Names DEF Transfers, Adds, AreIntegers
    <3>. QED
      BY ONLY <3>1, <1>7, <1>8, Names DEF Changes, AreIntegers
  <2>3. AssertRequestRedeem(NewEvent, request, fee, b1, balance')
    BY <1>2, <1>3, <2>1, <2>2
       DEF AssertRequestRedeem, NewEvent, EventOf, Emitted, Situated
  <2>. QED
    BY <1>2, <1>6, <2>3 DEF Situated
<1>. QED
  BY <1>1, <1>2, <1>3, <1>4, <1>7, <1>9, <1>10, <1>11, CallKeeps DEF Situated

\* The amount goes from the pool, and the bounty from the facilitator, over
\* the proxy to the co-gateway.
LEMMA AcceptRedeemKeeps ==
    ASSUME SuiteInv, AcceptRedeem
    PROVE  SuiteInv'
<1>. DEFINE b1 == Moved(balance, "ostPrime", "redeemPool", "proxy",
                        request.amount)
            b2 == Moved(b1, "coin", "auxiliary0", "proxy", Bounty)
            b3 == Moved(b2, "ostPrime", "proxy", "coGateway", request.amount)
            b4 == Moved(b3, "coin", "proxy", "coGateway", Bounty)
<1>1. /\ Calls("acceptRedeem")
      /\ request' = request
      /\ Register("auxiliary", request)
  BY DEF AcceptRedeem, Verify
<1>2. Situated("acceptRedeem", "auxiliary")
  BY <1>1, Situation DEF RedeemCalls
<1>3. /\ ProcessInv' /\ process' \in Processes
      /\ InSource = "Undeclared" /\ InTarget = "Undeclared"
      /\ Statuses' = <<"Declared", "Undeclared">>
  BY <1>1, <1>2, RegisteredAtSource DEF Situated
<1>4. /\ RequestInv' /\ at' \in 1 .. Len(Suite) + 1
      /\ Name' \notin DeployCalls
      /\ Name' # "acceptRedeem"
  BY <1>1, <1>2, <1>3, NextPosition DEF After, Situated, Statuses, NewCalls
<1>5. /\ KeptAmount("origin") = 0 /\ KeptAmount("origin")' = 0
      /\ KeptBounty("origin") = 0 /\ KeptBounty("origin")' = 0
      /\ KeptAmount("auxiliary") = 0
      /\ KeptAmount("auxiliary")' = request.amount
      /\ KeptBounty("auxiliary") = 0
      /\ KeptBounty("auxiliary")' = request.bounty
      /\ Pooled = request.amount /\ Pooled' = 0
      /\ Supply' = Supply /\ Supply \in Int
  <2>1. /\ Source' = Source /\ Source = "auxiliary"
        /\ Statuses' = <<InSource', InTarget'>>
    BY <1>1, <1>2 DEF Source, Statuses, Situated
  <2>2. Pooled = request.amount /\ Pooled' = 0
    BY <1>1, <1>2, <1>4 DEF Pooled, Situated
  <2>5. Underway' = Underway + request.amount /\ Underway \in Int
    BY <1>1, <1>2, <1>3, <2>1 DEF Underway, Statuses, Situated
  <2>. QED
    BY <1>1, <1>2, <1>3, <1>4, <2>1, <2>2, <2>5
       DEF KeptAmount, KeptBounty, Keeps, Supply, Statuses, TokensMax,
           Situated
<1>6. PICK fee \in Fee : balance' = Paid(b4, "auxiliary0", fee)
  BY <1>1, <1>2, <1>3 DEF AcceptRedeem, Settles, Situated
<1>a. Transfers(balance, b1, "ostPrime", "redeemPool", "proxy",
                request.amount)
  BY <1>2, Names, MovedTransfers DEF Situated
<1>b. Transfers(b1, b2, "coin", "auxiliary0", "proxy", Bounty)
  <2>1. b1 \in Balances
    BY <1>a DEF Transfers
  <2>. QED
    BY <2>1, <1>2, Names, MovedTransfers DEF Situated
<1>c. Transfers(b2, b3, "ostPrime", "proxy", "coGateway", request.amount)
  <2>1. b2 \in Balances
    BY <1>b DEF Transfers
  <2>. QED
    BY <2>1, <1>2, Names, MovedTransfers DEF Situated
<1>d. Transfers(b3, b4, "coin", "proxy", "coGateway", Bounty)
  <2>1. b3 \in Balances
    BY <1>c DEF Transfers
  <2>. QED
    BY <2>1, <1>2, Names, MovedTransfers DEF Situated
<1>e. Adds(b4, balance', "coin", "auxiliary0", -fee)
  <2>1. b4 \in Balances
    BY <1>d DEF Transfers
  <2>. QED
    BY <2>1, <1>2, <1>6, Names, PaidAdds DEF Situated
<1>. HIDE DEF b1, b2, b3, b4
<1>7. /\ balance' \in Balances
      /\ AreIntegers(balance) /\ AreAmounts(balance)
      /\ AreIntegers(b1) /\ AreAmounts(b1)
      /\ AreIntegers(b2) /\ AreAmounts(b2)
      /\ AreIntegers(b3) /\ AreAmounts(b3)
      /\ AreIntegers(b4) /\ AreAmounts(b4)
      /\ AreIntegers(balance') /\ AreAmounts(balance')
  BY <1>2, <1>a, <1>b, <1>c, <1>d, <1>e, BalancesAreIntegers
     DEF Transfers, Adds, Situated
<1>8. /\ HoldingsInv /\ SupplyInv
      /\ request.amount \in Int /\ request.reward \in Int
      /\ request.bounty = Bounty /\ Bounty \in Int /\ fee \in Int
  BY <1>2 DEF Situated
<1>9. HoldingsInv'
  <2>1. /\ balance'["ostPrime"]["redeemPool"]
             = balance["ostPrime"]["redeemPool"] - request.amount
        /\ balance'["ostPrime"]["coGateway"]
             = balance["ostPrime"]["coGateway"] + request.amount
    BY ONLY <1>a, <1>b, <1>c, <1>d, <1>e, <1>7, <1>8, Names
       DEF Transfers, Adds, AreAmounts
  <2>2. balance'["coin"]["coGateway"] = balance["coin"]["coGateway"] + Bounty
    BY ONLY <1>a, <1>b, <1>c, <1>d, <1>e, <1>7, <1>8, Names
       DEF Transfers, Adds, AreAmounts
  <2>3. \A l \in Ledger : balance'[l]["proxy"] = balance[l]["proxy"]
    <3>1. \A l \in Ledger : l \notin {"ostPrime", "coin"} =>
             balance'[l]["proxy"] = balance[l]["proxy"]
      BY ONLY <1>a, <1>b, <1>c, <1>d, <1>e, Names DEF Transfers, Adds
    <3>2. /\ balance'["ostPrime"]["proxy"] = balance["ostPrime"]["proxy"]
          /\ balance'["coin"]["proxy"] = balance["coin"]["proxy"]
      BY ONLY <1>a, <1>b, <1>c, <1>d, <1>e, <1>7, <1>8, Names
         DEF Transfers, Adds, AreIntegers
    <3>. QED
      BY ONLY <3>1, <3>2
  <2>4. \A l \in Ledger :
           /\ balance'[l]["gateway"] = balance[l]["gateway"]
           /\ l # "ostPrime" =>
                balance'[l]["redeemPool"] = balance[l]["redeemPool"]
           /\ l \notin {"ostPrime", "coin"} =>
                balance'[l]["coGateway"] = balance[l]["coGateway"]
    BY ONLY <1>a, <1>b, <1>c, <1>d, <1>e, Names DEF Transfers, Adds
  <2>. QED
    BY ONLY <1>5, <1>7, <1>8, <2>1, <2>2, <2>3, <2>4, Names
       DEF HoldingsInv, AreAmounts
<1>10. SupplyInv'
  BY ONLY <1>a, <1>b, <1>c, <1>d, <1>e, <1>5, <1>7, <1>8, Names
     DEF Transfers, Adds, AreAmounts, SupplyInv
<1>11. asserted'
  <2>1. AssertAcceptRedeem(NewEvent, request)
    BY <1>1, <1>2, <1>3, <1>a, <1>b, <1>c, <1>d, <1>e, <1>7, <1>8, Names
       DEF AssertAcceptRedeem, Changes, NewEvent, EventOf, Emitted, Transfers,
           Adds, Situated, Balances
  <2>. QED
    BY <1>2, <1>3, <1>6, <2>1
       DEF AcceptRedeem, Verify, Situated, b1, b2, b3, b4
<1>. QED
  BY <1>1, <1>2, <1>3, <1>4, <1>7, <1>9, <1>10, <1>11, CallKeeps DEF Situated

\* Nothing moves when origin declares the request.
LEMMA ConfirmRedeemIntentKeeps ==
    ASSUME SuiteInv, ConfirmRedeemIntent
    PROVE  SuiteInv'
<1>1. /\ Calls("confirmRedeemIntent")
      /\ request' = request
      /\ Proves("origin", request, "Declared")
      /\ Register("origin", request)
  BY DEF ConfirmRedeemIntent, Verify
<1>2. Situated("confirmRedeemIntent", "auxiliary")
  BY <1>1, Situation DEF RedeemCalls
<1>3. /\ ProcessInv' /\ process' \in Processes
      /\ InSource = "Declared" /\ InTarget = "Undeclared"
      /\ Statuses' = <<"Declared", "Declared">>
  BY <1>1, <1>2, RegisteredAtTarget DEF Situated, Other
<1>4. /\ RequestInv' /\ at' \in 1 .. Len(Suite) + 1
      /\ Name' \notin DeployCalls
      /\ Name' # "acceptRedeem"
  BY <1>1, <1>2, <1>3, NextPosition DEF After, Situated, Statuses, NewCalls
<1>5. /\ KeptAmount("origin") = 0 /\ KeptAmount("origin")' = 0
      /\ KeptBounty("origin") = 0 /\ KeptBounty("origin")' = 0
      /\ KeptAmount("auxiliary")' = KeptAmount("auxiliary")
      /\ KeptBounty("auxiliary")' = KeptBounty("auxiliary")
      /\ Pooled = 0 /\ Pooled' = 0
      /\ Supply' = Supply /\ Supply \in Int
  <2>1. /\ Source' = Source /\ Source = "auxiliary"
        /\ Statuses' = <<InSource', InTarget'>>
    BY <1>1, <1>2 DEF Source, Statuses, Situated
  <2>2. Pooled = 0 /\ Pooled' = 0
    BY <1>1, <1>2, <1>4 DEF Pooled, Situated
  <2>5. Underway' = Underway /\ Underway \in Int
    BY <1>1, <1>2, <1>3, <2>1 DEF Underway, Statuses, Situated
  <2>. QED
    BY <1>1, <1>2, <1>3, <1>4, <2>1, <2>2, <2>5
       DEF KeptAmount, KeptBounty, Keeps, Supply, Statuses, TokensMax,
           Situated
<1>6. balance' = balance
  BY DEF ConfirmRedeemIntent
<1>7. balance' \in Balances /\ AreAmounts(balance)
  BY <1>2, <1>6, BalancesAreIntegers DEF Situated
<1>8. /\ HoldingsInv /\ SupplyInv
      /\ request.amount \in Int /\ request.reward \in Int
      /\ request.bounty = Bounty /\ Bounty \in Int
  BY <1>2 DEF Situated
<1>9. HoldingsInv'
  BY ONLY <1>6, <1>5, <1>7, <1>8, Names DEF AreAmounts, HoldingsInv
<1>10. SupplyInv'
  BY ONLY <1>6, <1>5, <1>7, <1>8, Names DEF AreAmounts, SupplyInv
<1>11. asserted'
  <2>1. AssertConfirmRedeemIntent(NewEvent, request)
    BY <1>1, <1>2, <1>3, <1>6, <1>7, <1>8, Names
       DEF AssertConfirmRedeemIntent, NewEvent, EventOf, Emitted, Situated
  <2>. QED
    BY <1>2, <2>1 DEF ConfirmRedeemIntent, Verify, Situated
<1>. QED
  BY <1>1, <1>2, <1>3, <1>4, <1>7, <1>9, <1>10, <1>11, CallKeeps DEF Situated

\* The redeemed tokens are burnt, the bounty comes back.
LEMMA ProgressRedeemKeeps ==
    ASSUME SuiteInv, ProgressRedeem
    PROVE  SuiteInv'
<1>. DEFINE b1 == [balance EXCEPT !.ostPrime["coGateway"] = @ - request.amount]
            b2 == Moved(b1, "coin", "coGateway", "auxiliary2", request.bounty)
<1>1. /\ Calls("progressRedeem")
      /\ request' = request
      /\ StatusOf("auxiliary", request) = "Declared"
      /\ Close("auxiliary", request, "Progressed")
  BY DEF ProgressRedeem, Verify
<1>2. Situated("progressRedeem", "auxiliary")
  BY <1>1, Situation DEF RedeemCalls
<1>3. /\ ProcessInv' /\ process' \in Processes
      /\ Statuses' = <<"Progressed", InTarget>>
      /\ process["auxiliary"][request.sender].nonce = request.nonce
      /\ process["auxiliary"][request.sender].amount = request.amount
      /\ process["auxiliary"][request.sender].bounty = request.bounty
  BY <1>1, <1>2, ProcessClosed DEF Situated, Chain, ProcessStatus
<1>4. /\ RequestInv' /\ at' \in 1 .. Len(Suite) + 1
      /\ Name' \notin DeployCalls
      /\ Name' # "acceptRedeem"
  BY <1>1, <1>2, <1>3, NextPosition DEF After, Situated, Statuses, NewCalls
<1>5. /\ KeptAmount("origin") = 0 /\ KeptAmount("origin")' = 0
      /\ KeptBounty("origin") = 0 /\ KeptBounty("origin")' = 0
      /\ KeptAmount("auxiliary") = request.amount
      /\ KeptAmount("auxiliary")' = 0
      /\ KeptBounty("auxiliary") = request.bounty
      /\ KeptBounty("auxiliary")' = 0
      /\ Pooled = 0 /\ Pooled' = 0
      /\ Supply' = Supply /\ Supply \in Int
  <2>1. /\ Source' = Source /\ Source = "auxiliary"
        /\ Statuses' = <<InSource', InTarget'>>
    BY <1>1, <1>2 DEF Source, Statuses, Situated
  <2>2. Pooled = 0 /\ Pooled' = 0
    BY <1>1, <1>2, <1>4 DEF Pooled, Situated
  <2>5. Underway' = Underway /\ Underway \in Int
    BY <1>1, <1>2, <1>3, <2>1 DEF Underway, Statuses, Situated
  <2>6. InSource \in {"Declared", "DeclaredRevocation"}
    BY <1>1, <1>2, <1>3 DEF Situated
  <2>. QED
    BY <1>1, <1>2, <1>3, <1>4, <2>1, <2>2, <2>5, <2>6
       DEF KeptAmount, KeptBounty, Keeps, Supply, Statuses, TokensMax,
           Situated
<1>6. PICK fee \in Fee :
        /\ balance' = Paid(b2, "auxiliary2", fee)
        /\ asserted' =
             (asserted
                /\ AssertProgressRedeem(EventOn("auxiliary"), request, fee,
                                        balance,
                                        balance', FALSE))
  BY <1>1, <1>2, <1>3
     DEF ProgressRedeem, Settles, Situated, Verify, RedeemSettled
<1>a. Adds(balance, b1, "ostPrime", "coGateway", -request.amount)
  BY <1>2, Names, BurntAdds DEF Situated
<1>b. Transfers(b1, b2, "coin", "coGateway", "auxiliary2", request.bounty)
  <2>1. b1 \in Balances
    BY <1>a DEF Adds
  <2>. QED
    BY <2>1, <1>2, Names, MovedTransfers DEF Situated
<1>c. Adds(b2, balance', "coin", "auxiliary2", -fee)
  <2>1. b2 \in Balances
    BY <1>b DEF Transfers
  <2>. QED
    BY <2>1, <1>2, <1>6, Names, PaidAdds DEF Situated
<1>. HIDE DEF b1, b2
<1>7. /\ balance' \in Balances
      /\ AreIntegers(balance) /\ AreAmounts(balance)
      /\ AreIntegers(b1) /\ AreAmounts(b1)
      /\ AreIntegers(b2) /\ AreAmounts(b2)
      /\ AreIntegers(balance') /\ AreAmounts(balance')
  BY <1>2, <1>a, <1>b, <1>c, BalancesAreIntegers DEF Adds, Transfers, Situated
<1>8. /\ HoldingsInv /\ SupplyInv
      /\ request.amount \in Int /\ request.reward \in Int
      /\ request.bounty = Bounty /\ Bounty \in Int /\ fee \in Int
  BY <1>2 DEF Situated
<1>9. HoldingsInv'
  BY ONLY <1>a, <1>b, <1>c, <1>5, <1>7, <1>8, Names
     DEF Adds, Transfers, AreAmounts, HoldingsInv
<1>10. SupplyInv'
  BY ONLY <1>a, <1>b, <1>c, <1>5, <1>7, <1>8, Names
     DEF Adds, Transfers, AreAmounts, SupplyInv
<1>11. asserted'
  <2>1. Changes(balance, balance', "coin",
              [coGateway |-> -request.bounty,
               auxiliary2 |-> request.bounty - fee])
    <3>1. /\ balance'["coin"]["coGateway"]
             = balance["coin"]["coGateway"] - request.bounty
          /\ balance'["coin"]["auxiliary2"]
             = balance["coin"]["auxiliary2"] + (request.bounty - fee)
      BY ONLY <1>a, <1>b, <1>c, <1>7, <1>8, Names
         DEF Adds, Transfers, AreIntegers
    <3>. QED
      BY ONLY <3>1, <1>7, <1>8, Names DEF Changes, AreIntegers
  <2>2. Changes(balance, balance', "ostPrime",
              [coGateway |-> -request.amount, auxiliary2 |-> 0])
    <3>1. /\ balance'["ostPrime"]["coGateway"]
             = balance["ostPrime"]["coGateway"] - request.amount
          /\ balance'["ostPrime"]["auxiliary2"]
             = balance["ostPrime"]["auxiliary2"]
      BY ONLY <1>a, <1>b, <1>c, <1>7, <1>8, Names
         DEF Adds, Transfers, AreIntegers
    <3>. QED
      BY ONLY <3>1, <1>7, <1>8, Names DEF Changes, AreIntegers
  <2>3. AssertProgressRedeem(EventOn("auxiliary"), request, fee, balance,
                             balance', FALSE)
    BY <1>2, <1>3, <2>1, <2>2
       DEF AssertProgressRedeem, EventTells, EventOn, EventOf, Emitted,
           Situated
  <2>. QED
    BY <1>2, <1>6, <2>3 DEF Situated
<1>. QED
  BY <1>1, <1>2, <1>3, <1>4, <1>7, <1>9, <1>10, <1>11, CallKeeps DEF Situated

\* As by secret; the source may have declared the revocation.
LEMMA ProgressRedeemWithProofKeeps ==
    ASSUME SuiteInv, ProgressRedeemWithProof
    PROVE  SuiteInv'
<1>. DEFINE b1 == [balance EXCEPT !.ostPrime["coGateway"] = @ - request.amount]
            b2 == Moved(b1, "coin", "coGateway", "auxiliary2", request.bounty)
<1>1. /\ Calls("progressRedeemWithProof")
      /\ request' = request
      /\ StatusOf("auxiliary", request) \in {"Declared", "DeclaredRevocation"}
      /\ Close("auxiliary", request, "Progressed")
  BY DEF ProgressRedeemWithProof, Verify, AcceptedFor
<1>2. Situated("progressRedeemWithProof", "auxiliary")
  BY <1>1, Situation DEF RedeemCalls
<1>3. /\ ProcessInv' /\ process' \in Processes
      /\ Statuses' = <<"Progressed", InTarget>>
      /\ process["auxiliary"][request.sender].nonce = request.nonce
      /\ process["auxiliary"][request.sender].amount = request.amount
      /\ process["auxiliary"][request.sender].bounty = request.bounty
  BY <1>1, <1>2, ProcessClosed DEF Situated, Chain, ProcessStatus
<1>4. /\ RequestInv' /\ at' \in 1 .. Len(Suite) + 1
      /\ Name' \notin DeployCalls
      /\ Name' # "acceptRedeem"
  BY <1>1, <1>2, <1>3, NextPosition DEF After, Situated, Statuses, NewCalls
<1>5. /\ KeptAmount("origin") = 0 /\ KeptAmount("origin")' = 0
      /\ KeptBounty("origin") = 0 /\ KeptBounty("origin")' = 0
      /\ KeptAmount("auxiliary") = request.amount
      /\ KeptAmount("auxiliary")' = 0
      /\ KeptBounty("auxiliary") = request.bounty
      /\ KeptBounty("auxiliary")' = 0
      /\ Pooled = 0 /\ Pooled' = 0
      /\ Supply' = Supply /\ Supply \in Int
  <2>1. /\ Source' = Source /\ Source = "auxiliary"
        /\ Statuses' = <<InSource', InTarget'>>
    BY <1>1, <1>2 DEF Source, Statuses, Situated
  <2>2. Pooled = 0 /\ Pooled' = 0
    BY <1>1, <1>2, <1>4 DEF Pooled, Situated
  <2>5. Underway' = Underway /\ Underway \in Int
    BY <1>1, <1>2, <1>3, <2>1 DEF Underway, Statuses, Situated
  <2>6. InSource \in {"Declared", "DeclaredRevocation"}
    BY <1>1, <1>2, <1>3 DEF Situated
  <2>. QED
    BY <1>1, <1>2, <1>3, <1>4, <2>1, <2>2, <2>5, <2>6
       DEF KeptAmount, KeptBounty, Keeps, Supply, Statuses, TokensMax,
           Situated
<1>6. PICK fee \in Fee :
        /\ balance' = Paid(b2, "auxiliary2", fee)
        /\ asserted' =
             (asserted
                /\ AssertProgressRedeem(Emitted(process["auxiliary"]
                                                       [request.sender], 0, TRUE),
                                        request, fee, balance, balance', TRUE))
  BY <1>1, <1>2, <1>3
     DEF ProgressRedeemWithProof, Settles, Situated, Verify, RedeemSettled
<1>a. Adds(balance, b1, "ostPrime", "coGateway", -request.amount)
  BY <1>2, Names, BurntAdds DEF Situated
<1>b. Transfers(b1, b2, "coin", "coGateway", "auxiliary2", request.bounty)
  <2>1. b1 \in Balances
    BY <1>a DEF Adds
  <2>. QED
    BY <2>1, <1>2, Names, MovedTransfers DEF Situated
<1>c. Adds(b2, balance', "coin", "auxiliary2", -fee)
  <2>1. b2 \in Balances
    BY <1>b DEF Transfers
  <2>. QED
    BY <2>1, <1>2, <1>6, Names, PaidAdds DEF Situated
<1>. HIDE DEF b1, b2
<1>7. /\ balance' \in Balances
      /\ AreIntegers(balance) /\ AreAmounts(balance)
      /\ AreIntegers(b1) /\ AreAmounts(b1)
      /\ AreIntegers(b2) /\ AreAmounts(b2)
      /\ AreIntegers(balance') /\ AreAmounts(balance')
  BY <1>2, <1>a, <1>b, <1>c, BalancesAreIntegers DEF Adds, Transfers, Situated
<1>8. /\ HoldingsInv /\ SupplyInv
      /\ request.amount \in Int /\ request.reward \in Int
      /\ request.bounty = Bounty /\ Bounty \in Int /\ fee \in Int
  BY <1>2 DEF Situated
<1>9. HoldingsInv'
  BY ONLY <1>a, <1>b, <1>c, <1>5, <1>7, <1>8, Names
     DEF Adds, Transfers, AreAmounts, HoldingsInv
<1>10. SupplyInv'
  BY ONLY <1>a, <1>b, <1>c, <1>5, <1>7, <1>8, Names
     DEF Adds, Transfers, AreAmounts, SupplyInv
<1>11. asserted'
  <2>1. Changes(balance, balance', "coin",
              [coGateway |-> -request.bounty,
               auxiliary2 |-> request.bounty - fee])
    <3>1. /\ balance'["coin"]["coGateway"]
             = balance["coin"]["coGateway"] - request.bounty
          /\ balance'["coin"]["auxiliary2"]
             = balance["coin"]["auxiliary2"] + (request.bounty - fee)
      BY ONLY <1>a, <1>b, <1>c, <1>7, <1>8, Names
         DEF Adds, Transfers, AreIntegers
    <3>. QED
      BY ONLY <3>1, <1>7, <1>8, Names DEF Changes, AreIntegers
  <2>2. Changes(balance, balance', "ostPrime",
              [coGateway |-> -request.amount, auxiliary2 |-> 0])
    <3>1. /\ balance'["ostPrime"]["coGateway"]
             = balance["ostPrime"]["coGateway"] - request.amount
          /\ balance'["ostPrime"]["auxiliary2"]
             = balance["ostPrime"]["auxiliary2"]
      BY ONLY <1>a, <1>b, <1>c, <1>7, <1>8, Names
         DEF Adds, Transfers, AreIntegers
    <3>. QED
      BY ONLY <3>1, <1>7, <1>8, Names DEF Changes, AreIntegers
  <2>3. AssertProgressRedeem(Emitted(process["auxiliary"][request.sender], 0,
                                     TRUE),
                             request, fee, balance, balance', TRUE)
    BY <1>2, <1>3, <2>1, <2>2
       DEF AssertProgressRedeem, EventTells, EventOf, Emitted, Situated
  <2>. QED
    BY <1>2, <1>6, <2>3 DEF Situated
<1>. QED
  BY <1>1, <1>2, <1>3, <1>4, <1>7, <1>9, <1>10, <1>11, CallKeeps DEF Situated

\* The vault pays the unstake: what was under way arrives.
LEMMA ProgressUnstakeKeeps ==
    ASSUME SuiteInv, ProgressUnstake
    PROVE  SuiteInv'
<1>. DEFINE b1 == Moved(balance, "token", "stakeVault", "origin2",
                        request.amount - request.reward)
<1>1. /\ Calls("progressUnstake")
      /\ request' = request
      /\ StatusOf("origin", request) = "Declared"
      /\ Close("origin", request, "Progressed")
  BY DEF ProgressUnstake, Verify
<1>2. Situated("progressUnstake", "auxiliary")
  BY <1>1, Situation DEF RedeemCalls
<1>3. /\ ProcessInv' /\ process' \in Processes
      /\ Statuses' = <<InSource, "Progressed">>
      /\ process["origin"][request.sender].nonce = request.nonce
      /\ process["origin"][request.sender].amount = request.amount
      /\ process["origin"][request.sender].bounty = request.bounty
  BY <1>1, <1>2, ProcessClosed DEF Situated, Chain, ProcessStatus
<1>4. /\ RequestInv' /\ at' \in 1 .. Len(Suite) + 1
      /\ Name' \notin DeployCalls
      /\ Name' # "acceptRedeem"
  BY <1>1, <1>2, <1>3, NextPosition DEF After, Situated, Statuses, NewCalls
<1>5. /\ KeptAmount("origin") = 0 /\ KeptAmount("origin")' = 0
      /\ KeptBounty("origin") = 0 /\ KeptBounty("origin")' = 0
      /\ KeptAmount("auxiliary")' = KeptAmount("auxiliary")
      /\ KeptBounty("auxiliary")' = KeptBounty("auxiliary")
      /\ Pooled = 0 /\ Pooled' = 0
      /\ Supply' = Supply - request.amount /\ Supply \in Int
  <2>1. /\ Source' = Source /\ Source = "auxiliary"
        /\ Statuses' = <<InSource', InTarget'>>
    BY <1>1, <1>2 DEF Source, Statuses, Situated
  <2>2. Pooled = 0 /\ Pooled' = 0
    BY <1>1, <1>2, <1>4 DEF Pooled, Situated
  <2>3. InSource \in {"Declared", "DeclaredRevocation", "Progressed"}
    BY <1>2 DEF RequestInv, UnstakeCalls, Situated
  <2>4. InTarget = "Declared"
    BY <1>1, <1>2 DEF Other, Situated
  <2>5. Underway' = Underway - request.amount /\ Underway \in Int
    BY <1>1, <1>2, <1>3, <2>1, <2>3, <2>4 DEF Underway, Statuses, Situated
  <2>. QED
    BY <1>1, <1>2, <1>3, <1>4, <2>1, <2>2, <2>5
       DEF KeptAmount, KeptBounty, Keeps, Supply, Statuses, TokensMax,
           Situated
<1>6. balance' = Moved(b1, "token", "stakeVault", "origin0", request.reward)
  BY <1>1, <1>2, <1>3 DEF ProgressUnstake, Settles, Situated, UnstakeSettled
<1>a. Transfers(balance, b1, "token", "stakeVault", "origin2",
                request.amount - request.reward)
  BY <1>2, Names, MovedTransfers DEF Situated
<1>b. Transfers(b1, balance', "token", "stakeVault", "origin0",
                request.reward)
  <2>1. b1 \in Balances
    BY <1>a DEF Transfers
  <2>. QED
    BY <2>1, <1>2, <1>6, Names, MovedTransfers DEF Situated
<1>. HIDE DEF b1
<1>7. /\ balance' \in Balances
      /\ AreIntegers(balance) /\ AreAmounts(balance)
      /\ AreIntegers(b1) /\ AreAmounts(b1)
      /\ AreIntegers(balance') /\ AreAmounts(balance')
  BY <1>2, <1>a, <1>b, BalancesAreIntegers DEF Transfers, Situated
<1>8. /\ HoldingsInv /\ SupplyInv
      /\ request.amount \in Int /\ request.reward \in Int
      /\ request.bounty = Bounty /\ Bounty \in Int
  BY <1>2 DEF Situated
<1>9. HoldingsInv'
  BY ONLY <1>a, <1>b, <1>5, <1>7, <1>8, Names
     DEF Transfers, AreAmounts, HoldingsInv
<1>10. SupplyInv'
  <2>1. /\ balance'["token"]["stakeVault"]
             = balance["token"]["stakeVault"] - request.amount
        /\ balance'["coin"]["ostPrime"]
             = balance["coin"]["ostPrime"]
        /\ balance'["ostPrime"]["auxiliary2"]
             = balance["ostPrime"]["auxiliary2"]
    BY ONLY <1>a, <1>b, <1>7, <1>8, Names DEF Transfers, AreAmounts
  <2>. QED
    BY ONLY <1>5, <1>7, <1>8, <2>1, SupplyMoves
<1>11. asserted'
  <2>1. Changes(balance, balance', "baseToken",
              [gateway |-> 0, origin2 |-> 0, stakeVault |-> 0, origin0 |-> 0])
    <3>1. /\ balance'["baseToken"]["gateway"]
             = balance["baseToken"]["gateway"]
          /\ balance'["baseToken"]["origin2"]
             = balance["baseToken"]["origin2"]
          /\ balance'["baseToken"]["stakeVault"]
             = balance["baseToken"]["stakeVault"]
          /\ balance'["baseToken"]["origin0"]
             = balance["baseToken"]["origin0"]
      BY ONLY <1>a, <1>b, <1>7, <1>8, Names DEF Transfers, AreIntegers
    <3>. QED
      BY ONLY <3>1, <1>7, <1>8, Names DEF Changes, AreIntegers
  <2>2. Changes(balance, balance', "token",
              [gateway |-> 0, origin2 |-> request.amount - request.reward,
               stakeVault |-> -request.amount, origin0 |-> request.reward])
    <3>1. /\ balance'["token"]["gateway"] = balance["token"]["gateway"]
          /\ balance'["token"]["origin2"]
             = balance["token"]["origin2"] + (request.amount - request.reward)
          /\ balance'["token"]["stakeVault"]
             = balance["token"]["stakeVault"] - request.amount
          /\ balance'["token"]["origin0"]
             = balance["token"]["origin0"] + request.reward
      BY ONLY <1>a, <1>b, <1>7, <1>8, Names DEF Transfers, AreIntegers
    <3>. QED
      BY ONLY <3>1, <1>7, <1>8, Names DEF Changes, AreIntegers
  <2>3. AssertProgressUnstake(EventOn("origin"), request, balance, balance',
                              FALSE)
    BY <1>2, <1>3, <2>1, <2>2
       DEF AssertProgressUnstake, EventTells, EventOn, EventOf, Emitted,
           Situated
  <2>. QED
    BY <1>2, <1>3, <1>6, <2>3
       DEF ProgressUnstake, Verify, Situated, UnstakeSettled, b1
<1>. QED
  BY <1>1, <1>2, <1>3, <1>4, <1>7, <1>9, <1>10, <1>11, CallKeeps DEF Situated

\* As by secret.
LEMMA ProgressUnstakeWithProofKeeps ==
    ASSUME SuiteInv, ProgressUnstakeWithProof
    PROVE  SuiteInv'
<1>. DEFINE b1 == Moved(balance, "token", "stakeVault", "origin2",
                        request.amount - request.reward)
<1>1. /\ Calls("progressUnstakeWithProof")
      /\ request' = request
      /\ StatusOf("origin", request) = "Declared"
      /\ Close("origin", request, "Progressed")
  BY DEF ProgressUnstakeWithProof, Verify
<1>2. Situated("progressUnstakeWithProof", "auxiliary")
  BY <1>1, Situation DEF RedeemCalls
<1>3. /\ ProcessInv' /\ process' \in Processes
      /\ Statuses' = <<InSource, "Progressed">>
      /\ process["origin"][request.sender].nonce = request.nonce
      /\ process["origin"][request.sender].amount = request.amount
      /\ process["origin"][request.sender].bounty = request.bounty
  BY <1>1, <1>2, ProcessClosed DEF Situated, Chain, ProcessStatus
<1>4. /\ RequestInv' /\ at' \in 1 .. Len(Suite) + 1
      /\ Name' \notin DeployCalls
      /\ Name' # "acceptRedeem"
  BY <1>1, <1>2, <1>3, NextPosition DEF After, Situated, Statuses, NewCalls
<1>5. /\ KeptAmount("origin") = 0 /\ KeptAmount("origin")' = 0
      /\ KeptBounty("origin") = 0 /\ KeptBounty("origin")' = 0
      /\ KeptAmount("auxiliary")' = KeptAmount("auxiliary")
      /\ KeptBounty("auxiliary")' = KeptBounty("auxiliary")
      /\ Pooled = 0 /\ Pooled' = 0
      /\ Supply' = Supply - request.amount /\ Supply \in Int
  <2>1. /\ Source' = Source /\ Source = "auxiliary"
        /\ Statuses' = <<InSource', InTarget'>>
    BY <1>1, <1>2 DEF Source, Statuses, Situated
  <2>2. Pooled = 0 /\ Pooled' = 0
    BY <1>1, <1>2, <1>4 DEF Pooled, Situated
  <2>3. InSource \in {"Declared", "DeclaredRevocation", "Progressed"}
    BY <1>2 DEF RequestInv, UnstakeCalls, Situated
  <2>4. InTarget = "Declared"
    BY <1>1, <1>2 DEF Other, Situated
  <2>5. Underway' = Underway - request.amount /\ Underway \in Int
    BY <1>1, <1>2, <1>3, <2>1, <2>3, <2>4 DEF Underway, Statuses, Situated
  <2>. QED
    BY <1>1, <1>2, <1>3, <1>4, <2>1, <2>2, <2>5
       DEF KeptAmount, KeptBounty, Keeps, Supply, Statuses, TokensMax,
           Situated
<1>6. balance' = Moved(b1, "token", "stakeVault", "origin0", request.reward)
  BY <1>1, <1>2, <1>3
     DEF ProgressUnstakeWithProof, Settles, Situated, UnstakeSettled
<1>a. Transfers(balance, b1, "token", "stakeVault", "origin2",
                request.amount - request.reward)
  BY <1>2, Names, MovedTransfers DEF Situated
<1>b. Transfers(b1, balance', "token", "stakeVault", "origin0",
                request.reward)
  <2>1. b1 \in Balances
    BY <1>a DEF Transfers
  <2>. QED
    BY <2>1, <1>2, <1>6, Names, MovedTransfers DEF Situated
<1>. HIDE DEF b1
<1>7. /\ balance' \in Balances
      /\ AreIntegers(balance) /\ AreAmounts(balance)
      /\ AreIntegers(b1) /\ AreAmounts(b1)
      /\ AreIntegers(balance') /\ AreAmounts(balance')
  BY <1>2, <1>a, <1>b, BalancesAreIntegers DEF Transfers, Situated
<1>8. /\ HoldingsInv /\ SupplyInv
      /\ request.amount \in Int /\ request.reward \in Int
      /\ request.bounty = Bounty /\ Bounty \in Int
  BY <1>2 DEF Situated
<1>9. HoldingsInv'
  BY ONLY <1>a, <1>b, <1>5, <1>7, <1>8, Names
     DEF Transfers, AreAmounts, HoldingsInv
<1>10. SupplyInv'
  <2>1. /\ balance'["token"]["stakeVault"]
             = balance["token"]["stakeVault"] - request.amount
        /\ balance'["coin"]["ostPrime"]
             = balance["coin"]["ostPrime"]
        /\ balance'["ostPrime"]["auxiliary2"]
             = balance["ostPrime"]["auxiliary2"]
    BY ONLY <1>a, <1>b, <1>7, <1>8, Names DEF Transfers, AreAmounts
  <2>. QED
    BY ONLY <1>5, <1>7, <1>8, <2>1, SupplyMoves
<1>11. asserted'
  <2>1. Changes(balance, balance', "baseToken",
              [gateway |-> 0, origin2 |-> 0, stakeVault |-> 0, origin0 |-> 0])
    <3>1. /\ balance'["baseToken"]["gateway"]
             = balance["baseToken"]["gateway"]
          /\ balance'["baseToken"]["origin2"]
             = balance["baseToken"]["origin2"]
          /\ balance'["baseToken"]["stakeVault"]
             = balance["baseToken"]["stakeVault"]
          /\ balance'["baseToken"]["origin0"]
             = balance["baseToken"]["origin0"]
      BY ONLY <1>a, <1>b, <1>7, <1>8, Names DEF Transfers, AreIntegers
    <3>. QED
      BY ONLY <3>1, <1>7, <1>8, Names DEF Changes, AreIntegers
  <2>2. Changes(balance, balance', "token",
              [gateway |-> 0, origin2 |-> request.amount - request.reward,
               stakeVault |-> -request.amount, origin0 |-> request.reward])
    <3>1. /\ balance'["token"]["gateway"] = balance["token"]["gateway"]
          /\ balance'["token"]["origin2"]
             = balance["token"]["origin2"] + (request.amount - request.reward)
          /\ balance'["token"]["stakeVault"]
             = balance["token"]["stakeVault"] - request.amount
          /\ balance'["token"]["origin0"]
             = balance["token"]["origin0"] + request.reward
      BY ONLY <1>a, <1>b, <1>7, <1>8, Names DEF Transfers, AreIntegers
    <3>. QED
      BY ONLY <3>1, <1>7, <1>8, Names DEF Changes, AreIntegers
  <2>3. AssertProgressUnstake(Emitted(process["origin"][request.sender],
                                      request.reward, TRUE),
                              request, balance, balance', TRUE)
    BY <1>2, <1>3, <2>1, <2>2
       DEF AssertProgressUnstake, EventTells, EventOf, Emitted, Situated
  <2>. QED
    BY <1>2, <1>3, <1>6, <2>3
       DEF ProgressUnstakeWithProof, Verify, Situated, UnstakeSettled, b1
<1>. QED
  BY <1>1, <1>2, <1>3, <1>4, <1>7, <1>9, <1>10, <1>11, CallKeeps DEF Situated

\* The penalty is burnt; the co-gateway keeps the tokens.
LEMMA RevertRedeemKeeps ==
    ASSUME SuiteInv, RevertRedeem
    PROVE  SuiteInv'
<1>. DEFINE b1 == Moved(balance, "coin", "auxiliary2", "burner",
                        (request.bounty * 150) \div 100)
<1>1. /\ Calls("revertRedeem")
      /\ request' = request
      /\ StatusOf("auxiliary", request) = "Declared"
      /\ Close("auxiliary", request, "DeclaredRevocation")
  BY DEF RevertRedeem, Verify
<1>2. Situated("revertRedeem", "auxiliary")
  BY <1>1, Situation DEF RedeemCalls
<1>3. /\ ProcessInv' /\ process' \in Processes
      /\ Statuses' = <<"DeclaredRevocation", InTarget>>
      /\ process["auxiliary"][request.sender].nonce = request.nonce
      /\ process["auxiliary"][request.sender].amount = request.amount
      /\ process["auxiliary"][request.sender].bounty = request.bounty
  BY <1>1, <1>2, ProcessClosed DEF Situated, Chain, ProcessStatus
<1>4. /\ RequestInv' /\ at' \in 1 .. Len(Suite) + 1
      /\ Name' \notin DeployCalls
      /\ Name' # "acceptRedeem"
  BY <1>1, <1>2, <1>3, NextPosition DEF After, Situated, Statuses, NewCalls
<1>5. /\ KeptAmount("origin") = 0 /\ KeptAmount("origin")' = 0
      /\ KeptBounty("origin") = 0 /\ KeptBounty("origin")' = 0
      /\ KeptAmount("auxiliary")' = KeptAmount("auxiliary")
      /\ KeptBounty("auxiliary")' = KeptBounty("auxiliary")
      /\ Pooled = 0 /\ Pooled' = 0
      /\ Supply' = Supply /\ Supply \in Int
  <2>1. /\ Source' = Source /\ Source = "auxiliary"
        /\ Statuses' = <<InSource', InTarget'>>
    BY <1>1, <1>2 DEF Source, Statuses, Situated
  <2>2. Pooled = 0 /\ Pooled' = 0
    BY <1>1, <1>2, <1>4 DEF Pooled, Situated
  <2>5. Underway' = Underway /\ Underway \in Int
    BY <1>1, <1>2, <1>3, <2>1 DEF Underway, Statuses, Situated
  <2>. QED
    BY <1>1, <1>2, <1>3, <1>4, <2>1, <2>2, <2>5
       DEF KeptAmount, KeptBounty, Keeps, Supply, Statuses, TokensMax,
           Situated
<1>6. PICK fee \in Fee :
        /\ balance' = Paid(b1, "auxiliary2", fee)
        /\ asserted' =
             (asserted
                /\ AssertRevertRedeem(EventOn("auxiliary"), request,
                                      (request.bounty * 150) \div 100, fee,
                                      balance, balance'))
  BY <1>1, <1>2, <1>3 DEF RevertRedeem, Settles, Situated, Verify, Penalty
<1>a. Transfers(balance, b1, "coin", "auxiliary2", "burner",
                (request.bounty * 150) \div 100)
  BY <1>2, Names, MovedTransfers DEF Situated
<1>b. Adds(b1, balance', "coin", "auxiliary2", -fee)
  <2>1. b1 \in Balances
    BY <1>a DEF Transfers
  <2>. QED
    BY <2>1, <1>2, <1>6, Names, PaidAdds DEF Situated
<1>. HIDE DEF b1
<1>7. /\ balance' \in Balances
      /\ AreIntegers(balance) /\ AreAmounts(balance)
      /\ AreIntegers(b1) /\ AreAmounts(b1)
      /\ AreIntegers(balance') /\ AreAmounts(balance')
  BY <1>2, <1>a, <1>b, BalancesAreIntegers DEF Transfers, Adds, Situated
<1>8. /\ HoldingsInv /\ SupplyInv
      /\ request.amount \in Int /\ request.reward \in Int
      /\ request.bounty = Bounty /\ Bounty \in Int /\ fee \in Int
  BY <1>2 DEF Situated
<1>9. HoldingsInv'
  BY ONLY <1>a, <1>b, <1>5, <1>7, <1>8, Names
     DEF Transfers, Adds, AreAmounts, HoldingsInv
<1>10. SupplyInv'
  BY ONLY <1>a, <1>b, <1>5, <1>7, <1>8, Names
     DEF Transfers, Adds, AreAmounts, SupplyInv
<1>11. asserted'
  <2>1. Changes(balance, balance', "coin",
              [coGateway |-> 0,
               auxiliary2 |-> -((request.bounty * 150) \div 100 + fee),
               burner |-> (request.bounty * 150) \div 100])
    <3>1. /\ balance'["coin"]["coGateway"] = balance["coin"]["coGateway"]
          /\ balance'["coin"]["auxiliary2"]
             = balance["coin"]["auxiliary2"]
                 - ((request.bounty * 150) \div 100 + fee)
          /\ balance'["coin"]["burner"]
             = balance["coin"]["burner"] + (request.bounty * 150) \div 100
      BY ONLY <1>a, <1>b, <1>7, <1>8, Names DEF Transfers, Adds, AreIntegers
    <3>. QED
      BY ONLY <3>1, <1>7, <1>8, Names DEF Changes, AreIntegers
  <2>2. Changes(balance, balance', "ostPrime",
              [coGateway |-> 0, auxiliary2 |-> 0, burner |-> 0])
    <3>1. /\ balance'["ostPrime"]["coGateway"]
             = balance["ostPrime"]["coGateway"]
          /\ balance'["ostPrime"]["auxiliary2"]
             = balance["ostPrime"]["auxiliary2"]
          /\ balance'["ostPrime"]["burner"] = balance["ostPrime"]["burner"]
      BY ONLY <1>a, <1>b, <1>7, <1>8, Names DEF Transfers, Adds, AreIntegers
    <3>. QED
      BY ONLY <3>1, <1>7, <1>8, Names DEF Changes, AreIntegers
  <2>3. AssertRevertRedeem(EventOn("auxiliary"), request,
                           (request.bounty * 150) \div 100, fee, balance,
                           balance')
    BY <1>2, <1>3, <2>1, <2>2
       DEF AssertRevertRedeem, EventOn, EventOf, Emitted, Situated
  <2>. QED
    BY <1>2, <1>6, <2>3 DEF Situated
<1>. QED
  BY <1>1, <1>2, <1>3, <1>4, <1>7, <1>9, <1>10, <1>11, CallKeeps DEF Situated

\* Nothing moves when origin revokes the request.
LEMMA ConfirmRevertRedeemIntentKeeps ==
    ASSUME SuiteInv, ConfirmRevertRedeemIntent
    PROVE  SuiteInv'
<1>1. /\ Calls("confirmRevertRedeemIntent")
      /\ request' = request
      /\ StatusOf("origin", request) = "Declared"
      /\ Close("origin", request, "Revoked")
  BY DEF ConfirmRevertRedeemIntent, Verify
<1>2. Situated("confirmRevertRedeemIntent", "auxiliary")
  BY <1>1, Situation DEF RedeemCalls
<1>3. /\ ProcessInv' /\ process' \in Processes
      /\ Statuses' = <<InSource, "Revoked">>
      /\ process["origin"][request.sender].nonce = request.nonce
      /\ process["origin"][request.sender].amount = request.amount
      /\ process["origin"][request.sender].bounty = request.bounty
  BY <1>1, <1>2, ProcessClosed DEF Situated, Chain, ProcessStatus
<1>4. /\ RequestInv' /\ at' \in 1 .. Len(Suite) + 1
      /\ Name' \notin DeployCalls
      /\ Name' # "acceptRedeem"
  BY <1>1, <1>2, <1>3, NextPosition DEF After, Situated, Statuses, NewCalls
<1>5. /\ KeptAmount("origin") = 0 /\ KeptAmount("origin")' = 0
      /\ KeptBounty("origin") = 0 /\ KeptBounty("origin")' = 0
      /\ KeptAmount("auxiliary")' = KeptAmount("auxiliary")
      /\ KeptBounty("auxiliary")' = KeptBounty("auxiliary")
      /\ Pooled = 0 /\ Pooled' = 0
      /\ Supply' = Supply /\ Supply \in Int
  <2>1. /\ Source' = Source /\ Source = "auxiliary"
        /\ Statuses' = <<InSource', InTarget'>>
    BY <1>1, <1>2 DEF Source, Statuses, Situated
  <2>2. Pooled = 0 /\ Pooled' = 0
    BY <1>1, <1>2, <1>4 DEF Pooled, Situated
  <2>4. InTarget = "Declared"
    BY <1>1, <1>2 DEF Other, Situated
  <2>5. Underway' = Underway /\ Underway \in Int
    BY <1>1, <1>2, <1>3, <2>1, <2>4 DEF Underway, Statuses, Situated
  <2>. QED
    BY <1>1, <1>2, <1>3, <1>4, <2>1, <2>2, <2>5
       DEF KeptAmount, KeptBounty, Keeps, Supply, Statuses, TokensMax,
           Situated
<1>6. balance' = balance
  BY DEF ConfirmRevertRedeemIntent
<1>7. balance' \in Balances /\ AreAmounts(balance)
  BY <1>2, <1>6, BalancesAreIntegers DEF Situated
<1>8. /\ HoldingsInv /\ SupplyInv
      /\ request.amount \in Int /\ request.reward \in Int
      /\ request.bounty = Bounty /\ Bounty \in Int
  BY <1>2 DEF Situated
<1>9. HoldingsInv'
  BY ONLY <1>6, <1>5, <1>7, <1>8, Names DEF AreAmounts, HoldingsInv
<1>10. SupplyInv'
  BY ONLY <1>6, <1>5, <1>7, <1>8, Names DEF AreAmounts, SupplyInv
<1>11. asserted'
  <2>1. AssertConfirmRevertRedeemIntent(EventOn("origin"), request)
    BY <1>1, <1>2, <1>3, <1>6, <1>7, <1>8, Names
       DEF AssertConfirmRevertRedeemIntent, EventOn, EventOf, Emitted,
           Situated
  <2>. QED
    BY <1>2, <2>1 DEF ConfirmRevertRedeemIntent, Verify, Situated
<1>. QED
  BY <1>1, <1>2, <1>3, <1>4, <1>7, <1>9, <1>10, <1>11, CallKeeps DEF Situated

\* The tokens go back, the bounty is burnt.
LEMMA ProgressRevertRedeemKeeps ==
    ASSUME SuiteInv, ProgressRevertRedeem
    PROVE  SuiteInv'
<1>. DEFINE b1 == Moved(balance, "ostPrime", "coGateway", "auxiliary2",
                        request.amount)
            b2 == Moved(b1, "coin", "coGateway", "burner", request.bounty)
<1>1. /\ Calls("progressRevertRedeem")
      /\ request' = request
      /\ StatusOf("auxiliary", request) = "DeclaredRevocation"
      /\ Proves("auxiliary", request, "Revoked")
      /\ Close("auxiliary", request, "Revoked")
  BY DEF ProgressRevertRedeem, Verify
<1>2. Situated("progressRevertRedeem", "auxiliary")
  BY <1>1, Situation DEF RedeemCalls
<1>3. /\ ProcessInv' /\ process' \in Processes
      /\ Statuses' = <<"Revoked", InTarget>>
      /\ process["auxiliary"][request.sender].nonce = request.nonce
      /\ process["auxiliary"][request.sender].amount = request.amount
      /\ process["auxiliary"][request.sender].bounty = request.bounty
  BY <1>1, <1>2, ProcessClosed DEF Situated, Chain, ProcessStatus
<1>4. /\ RequestInv' /\ at' \in 1 .. Len(Suite) + 1
      /\ Name' \notin DeployCalls
      /\ Name' # "acceptRedeem"
  BY <1>1, <1>2, <1>3, NextPosition DEF After, Situated, Statuses, NewCalls
<1>5. /\ KeptAmount("origin") = 0 /\ KeptAmount("origin")' = 0
      /\ KeptBounty("origin") = 0 /\ KeptBounty("origin")' = 0
      /\ KeptAmount("auxiliary") = request.amount
      /\ KeptAmount("auxiliary")' = 0
      /\ KeptBounty("auxiliary") = request.bounty
      /\ KeptBounty("auxiliary")' = 0
      /\ Pooled = 0 /\ Pooled' = 0
      /\ Supply' = Supply - request.amount /\ Supply \in Int
  <2>1. /\ Source' = Source /\ Source = "auxiliary"
        /\ Statuses' = <<InSource', InTarget'>>
    BY <1>1, <1>2 DEF Source, Statuses, Situated
  <2>2. Pooled = 0 /\ Pooled' = 0
    BY <1>1, <1>2, <1>4 DEF Pooled, Situated
  <2>3. InTarget = "Revoked"
    BY <1>1, <1>2 DEF Proves, ProvenOn, Other, StatusOf, Situated
  <2>5. Underway' = Underway - request.amount /\ Underway \in Int
    BY <1>1, <1>2, <1>3, <2>1, <2>3 DEF Underway, Statuses, Situated
  <2>6. InSource \in {"Declared", "DeclaredRevocation"}
    BY <1>1, <1>2, <1>3 DEF Situated
  <2>. QED
    BY <1>1, <1>2, <1>3, <1>4, <2>1, <2>2, <2>5, <2>6
       DEF KeptAmount, KeptBounty, Keeps, Supply, Statuses, TokensMax,
           Situated
<1>6. PICK fee \in Fee : balance' = Paid(b2, "auxiliary0", fee)
  BY <1>1, <1>2, <1>3 DEF ProgressRevertRedeem, Settles, Situated
<1>a. Transfers(balance, b1, "ostPrime", "coGateway", "auxiliary2",
                request.amount)
  BY <1>2, Names, MovedTransfers DEF Situated
<1>b. Transfers(b1, b2, "coin", "coGateway", "burner", request.bounty)
  <2>1. b1 \in Balances
    BY <1>a DEF Transfers
  <2>. QED
    BY <2>1, <1>2, Names, MovedTransfers DEF Situated
<1>c. Adds(b2, balance', "coin", "auxiliary0", -fee)
  <2>1. b2 \in Balances
    BY <1>b DEF Transfers
  <2>. QED
    BY <2>1, <1>2, <1>6, Names, PaidAdds DEF Situated
<1>. HIDE DEF b1, b2
<1>7. /\ balance' \in Balances
      /\ AreIntegers(balance) /\ AreAmounts(balance)
      /\ AreIntegers(b1) /\ AreAmounts(b1)
      /\ AreIntegers(b2) /\ AreAmounts(b2)
      /\ AreIntegers(balance') /\ AreAmounts(balance')
  BY <1>2, <1>a, <1>b, <1>c, BalancesAreIntegers DEF Transfers, Adds, Situated
<1>8. /\ HoldingsInv /\ SupplyInv
      /\ request.amount \in Int /\ request.reward \in Int
      /\ request.bounty = Bounty /\ Bounty \in Int /\ fee \in Int
  BY <1>2 DEF Situated
<1>9. HoldingsInv'
  BY ONLY <1>a, <1>b, <1>c, <1>5, <1>7, <1>8, Names
     DEF Transfers, Adds, AreAmounts, HoldingsInv
<1>10. SupplyInv'
  BY ONLY <1>a, <1>b, <1>c, <1>5, <1>7, <1>8, Names
     DEF Transfers, Adds, AreAmounts, SupplyInv
<1>11. asserted'
  <2>1. Changes(balance, b2, "coin",
              [coGateway |-> -request.bounty, auxiliary2 |-> 0,
               burner |-> request.bounty])
    <3>1. /\ b2["coin"]["coGateway"]
             = balance["coin"]["coGateway"] - request.bounty
          /\ b2["coin"]["auxiliary2"] = balance["coin"]["auxiliary2"]
          /\ b2["coin"]["burner"]
             = balance["coin"]["burner"] + request.bounty
      BY ONLY <1>a, <1>b, <1>7, <1>8, Names DEF Transfers, AreIntegers
    <3>. QED
      BY ONLY <3>1, <1>7, <1>8, Names DEF Changes, AreIntegers
  <2>2. Changes(balance, b2, "ostPrime",
              [coGateway |-> -request.amount, auxiliary2 |-> request.amount,
               burner |-> 0])
    <3>1. /\ b2["ostPrime"]["coGateway"]
             = balance["ostPrime"]["coGateway"] - request.amount
          /\ b2["ostPrime"]["auxiliary2"]
             = balance["ostPrime"]["auxiliary2"] + request.amount
          /\ b2["ostPrime"]["burner"] = balance["ostPrime"]["burner"]
      BY ONLY <1>a, <1>b, <1>7, <1>8, Names DEF Transfers, AreIntegers
    <3>. QED
      BY ONLY <3>1, <1>7, <1>8, Names DEF Changes, AreIntegers
  <2>3. AssertProgressRevertRedeem(EventOn("auxiliary"), request, balance, b2)
    BY <1>2, <1>3, <2>1, <2>2
       DEF AssertProgressRevertRedeem, EventOn, EventOf, Emitted, Situated
  <2>. QED
    BY <1>2, <1>3, <1>6, <2>3
       DEF ProgressRevertRedeem, Verify, Situated, b1, b2
<1>. QED
  BY <1>1, <1>2, <1>3, <1>4, <1>7, <1>9, <1>10, <1>11, CallKeeps DEF Situated


-----------------------------------------------------------------------------
\* A request that is over has nothing with the contracts or under way.
LEMMA OverIsSettled ==
    ASSUME Statuses \in Over
    PROVE  /\ \A c \in Chain : KeptAmount(c) = 0 /\ KeptBounty(c) = 0
           /\ Underway = 0
<1>1. /\ InSource \notin {"Declared", "DeclaredRevocation"}
      /\ InSource = "Progressed" <=> InTarget = "Progressed"
  BY DEF Statuses, Over, NoneYet
<1>. QED
  BY <1>1 DEF KeptAmount, KeptBounty, Keeps, Underway

\* A test begins with a request when the one before it is over.
LEMMA RequestKeeps ==
    ASSUME SuiteInv, NEW name \in NewCalls, Calls(name),
           UNCHANGED <<chainVars, asserted>>,
           NEW s \in Sender, NEW n \in Nat, NEW r \in Nat,
           request' = [sender |-> s, amount |-> n, reward |-> r,
                       bounty |-> Bounty, nonce |-> GetNonce(SourceOf(s), s),
                       unlockSecret |-> "secret"],
           name = "newStakeRequest" <=> s = "origin0"
    PROVE  SuiteInv'
<1>1. /\ IntegrationTypeOK /\ ProcessInv /\ RequestInv /\ Name = name
      /\ process' = process /\ balance' = balance /\ asserted'
      /\ request'.sender = s /\ request'.bounty = Bounty
      /\ request'.nonce = GetNonce(SourceOf(s), s)
  BY DEF SuiteInv, Calls, Name, chainVars
<1>2. Statuses \in Over
  BY <1>1 DEF RequestInv
<1>3. ProcessInv' /\ Statuses' = NoneYet
  BY <1>1, <1>2, RequestMade
<1>4. /\ RequestInv' /\ at' \in 1 .. Len(Suite) + 1
      /\ Name' # "acceptRedeem" /\ Name' \notin DeployCalls
      /\ Name # "acceptRedeem" /\ Name \notin DeployCalls
  <2>1. /\ Statuses' = After(name, Statuses)
        /\ name \notin DeployCalls /\ name # "requestRedeem"
        /\ name # "acceptRedeem"
    BY <1>3 DEF After, NewCalls, DeployCalls
  <2>2. \/ name = "newStakeRequest" /\ request'.sender = "origin0"
        \/ /\ name \in {"newRedeemRequest", "newPoolRequest"}
           /\ request'.sender # "origin0"
    BY DEF NewCalls
  <2>. QED
    BY <1>1, <2>1, <2>2, NextPosition
<1>5. IntegrationTypeOK'
  <2>1. GetNonce(SourceOf(s), s) \in Int
    <3>1. SourceOf(s) \in Chain
      BY Chains
    <3>2. process[SourceOf(s)][s].nonce \in Int
      BY <1>1, <3>1 DEF IntegrationTypeOK
    <3>. QED
      BY <3>2 DEF GetNonce
  <2>2. Bounty \in Nat
    BY DEF Bounty
  <2>3. request' \in [sender : Sender, amount : Nat, reward : Nat, bounty : Nat,
                      nonce : Int, unlockSecret : {"none", "secret"}]
    BY <2>1, <2>2
  <2>. QED
    BY <1>1, <1>4, <2>3 DEF IntegrationTypeOK
<1>6. /\ \A c \in Chain : /\ KeptAmount(c)' = KeptAmount(c)
                          /\ KeptBounty(c)' = KeptBounty(c)
      /\ Pooled' = Pooled /\ Supply' = Supply
  <2>1. /\ \A c \in Chain : KeptAmount(c) = 0 /\ KeptBounty(c) = 0
        /\ Underway = 0
    BY <1>2, OverIsSettled
  <2>2. /\ \A c \in Chain : KeptAmount(c)' = 0 /\ KeptBounty(c)' = 0
        /\ Underway' = 0
    <3>1. /\ InSource' = "Undeclared" /\ InTarget' = "Undeclared"
      BY <1>3 DEF Statuses, NoneYet
    <3>. QED
      BY <3>1 DEF KeptAmount, KeptBounty, Keeps, Underway
  <2>3. Pooled = 0 /\ Pooled' = 0
    BY <1>4 DEF Pooled
  <2>. QED
    BY <1>4, <2>1, <2>2, <2>3 DEF Supply
<1>7. HoldingsInv' /\ SupplyInv'
  BY <1>1, <1>6 DEF SuiteInv, HoldingsInv, SupplyInv, Chain
<1>. QED
  BY <1>1, <1>3, <1>4, <1>5, <1>7 DEF SuiteInv

LEMMA NewRequestsKeep ==
    ASSUME SuiteInv, NewStakeRequest \/ NewRedeemRequest \/ NewPoolRequest
    PROVE  SuiteInv'
<1>1. CASE NewStakeRequest
  <2>1. /\ Calls("newStakeRequest") /\ UNCHANGED <<chainVars, asserted>>
        /\ request' = [sender |-> "origin0", amount |-> 200, reward |-> 100,
                       bounty |-> Bounty,
                       nonce |-> GetNonce(SourceOf("origin0"), "origin0"),
                       unlockSecret |-> "secret"]
    BY <1>1 DEF NewStakeRequest, SourceOf
  <2>2. "newStakeRequest" \in NewCalls /\ "origin0" \in Sender
    BY DEF NewCalls, Sender
  <2>. QED
    BY <2>1, <2>2, RequestKeeps
<1>2. CASE NewRedeemRequest
  <2>1. /\ Calls("newRedeemRequest") /\ UNCHANGED <<chainVars, asserted>>
        /\ request' = [sender |-> "auxiliary2", amount |-> 50, reward |-> 10,
                       bounty |-> Bounty,
                       nonce |-> GetNonce(SourceOf("auxiliary2"), "auxiliary2"),
                       unlockSecret |-> "secret"]
    BY <1>2 DEF NewRedeemRequest, SourceOf
  <2>2. "newRedeemRequest" \in NewCalls /\ "auxiliary2" \in Sender
    BY DEF NewCalls, Sender
  <2>. QED
    BY <2>1, <2>2, RequestKeeps
<1>3. CASE NewPoolRequest
  <2>1. /\ Calls("newPoolRequest") /\ UNCHANGED <<chainVars, asserted>>
        /\ request' = [sender |-> "proxy", amount |-> 50, reward |-> 10,
                       bounty |-> Bounty,
                       nonce |-> GetNonce(SourceOf("proxy"), "proxy"),
                       unlockSecret |-> "secret"]
    BY <1>3 DEF NewPoolRequest, SourceOf
  <2>2. "newPoolRequest" \in NewCalls /\ "proxy" \in Sender
    BY DEF NewCalls, Sender
  <2>. QED
    BY <2>1, <2>2, RequestKeeps
<1>. QED
  BY <1>1, <1>2, <1>3

\* The deployment comes before all requests and processes.
LEMMA DeploymentKeeps ==
    ASSUME SuiteInv, NEW name \in DeployCalls, Calls(name),
           UNCHANGED <<process, request, asserted>>, balance' \in Balances,
           \A h \in {"proxy", "redeemPool", "gateway", "coGateway",
                     "stakeVault"} :
              \A l \in Ledger : balance'[l][h] = balance[l][h],
           balance'["ostPrime"]["auxiliary2"]
             = balance["ostPrime"]["auxiliary2"],
           balance'["coin"]["ostPrime"]
             = balance["coin"]["ostPrime"]
                 + (IF name = "initializeOSTPrime" THEN TokensMax ELSE 0)
    PROVE  SuiteInv'
<1>1. /\ IntegrationTypeOK /\ ProcessInv /\ RequestInv /\ Name = name
      /\ HoldingsInv /\ SupplyInv /\ asserted'
      /\ process' = process /\ request' = request /\ balance \in Balances
  BY DEF SuiteInv, Calls, Name, IntegrationTypeOK, Balances
<1>2. ProcessInv' /\ process' \in Processes /\ Statuses' = Statuses
  BY <1>1, ProcessKept
<1>3. /\ name \notin NewCalls /\ Statuses' = After(name, Statuses)
      /\ name # "requestRedeem" /\ name # "acceptRedeem"
  BY <1>2 DEF DeployCalls, NewCalls, After
<1>4. /\ RequestInv' /\ at' \in 1 .. Len(Suite) + 1
      /\ Name' # "acceptRedeem" /\ Name # "acceptRedeem"
      /\ Name' \in DeployCalls <=> name # "initializeOSTPrime"
  BY <1>1, <1>3, NextPosition
<1>5. /\ \A c \in Chain : /\ KeptAmount(c)' = KeptAmount(c)
                          /\ KeptBounty(c)' = KeptBounty(c)
      /\ Pooled' = 0 /\ Pooled = 0
      /\ Underway' = Underway /\ Underway \in Int
      /\ Supply = Underway
      /\ Supply' = Underway
                     + (IF name = "initializeOSTPrime" THEN TokensMax ELSE 0)
  <2>1. /\ Source' = Source /\ InSource' = InSource /\ InTarget' = InTarget
    BY <1>1 DEF Source, InSource, InTarget, StatusOf
  <2>2. Pooled = 0 /\ Pooled' = 0
    BY <1>4 DEF Pooled
  <2>3. Underway' = Underway /\ Underway \in Int
    BY <1>1, <2>1 DEF Underway, IntegrationTypeOK
  <2>4. \A c \in Chain : /\ KeptAmount(c)' = KeptAmount(c)
                         /\ KeptBounty(c)' = KeptBounty(c)
    BY <1>1, <2>1 DEF KeptAmount, KeptBounty, Keeps
  <2>. QED
    BY <1>1, <1>4, <2>2, <2>3, <2>4 DEF Supply, TokensMax
<1>6. HoldingsInv'
  BY <1>1, <1>5, Names DEF HoldingsInv, Chain
<1>7. SupplyInv'
  <2>. DEFINE n == IF name = "initializeOSTPrime" THEN TokensMax ELSE 0
              v == balance["token"]["stakeVault"]
              c == balance["coin"]["ostPrime"]
              a == balance["ostPrime"]["auxiliary2"]
  <2>1. n \in Int /\ v \in Int /\ c \in Int /\ a \in Int
    BY <1>1, BalancesAreIntegers DEF AreAmounts, TokensMax
  <2>2. v + c = a + Underway
    BY <1>1, <1>5 DEF SupplyInv
  <2>3. SupplyInv' <=> v + (c + n) = a + (Underway + n)
    BY <1>5, Names DEF SupplyInv
  <2>. HIDE DEF n, v, c, a
  <2>. QED
    BY <1>5, <2>1, <2>2, <2>3
<1>. QED
  BY <1>1, <1>2, <1>4, <1>6, <1>7, CallKeeps

LEMMA DeployingKeeps ==
    ASSUME SuiteInv,
           \/ DeployTokens \/ DeployGateways
           \/ ActivateGateway \/ InitializeOSTPrime
    PROVE  SuiteInv'
<1>0. balance \in Balances /\ AreIntegers(balance)
  BY BalancesAreIntegers DEF SuiteInv, IntegrationTypeOK, Balances
<1>1. CASE DeployTokens
  <2>. DEFINE b == [balance EXCEPT !["token"]["origin0"] = TokensMax]
  <2>1. /\ Calls("deployTokens") /\ UNCHANGED <<process, request, asserted>>
        /\ balance' = [b EXCEPT !["baseToken"]["origin0"] = TokensMax]
    BY <1>0, <1>1, Names DEF DeployTokens, Balances
  <2>2. /\ b \in Balances
        /\ \A l \in Ledger, h \in Holder :
              h # "origin0" => b[l][h] = balance[l][h]
    BY <1>0, Names DEF Balances, TokensMax
  <2>. HIDE DEF b
  <2>3. /\ balance' \in Balances
        /\ \A l \in Ledger, h \in Holder :
              h # "origin0" => balance'[l][h] = balance[l][h]
    BY <2>1, <2>2, Names DEF Balances, TokensMax
  <2>. QED
    BY <1>0, <2>1, <2>3, Names, DeploymentKeeps DEF DeployCalls, AreIntegers
<1>2. CASE DeployGateways
  BY <1>0, <1>2, Names, DeploymentKeeps
     DEF DeployGateways, DeployCalls, AreIntegers
<1>3. CASE ActivateGateway
  BY <1>0, <1>3, Names, DeploymentKeeps
     DEF ActivateGateway, DeployCalls, AreIntegers
<1>4. CASE InitializeOSTPrime
  <2>1. /\ Calls("initializeOSTPrime")
        /\ UNCHANGED <<process, request, asserted>>
        /\ balance' =
             Moved(balance, "coin", "auxiliary0", "ostPrime", TokensMax)
    BY <1>4 DEF InitializeOSTPrime, Settles
  <2>2. Transfers(balance, balance', "coin", "auxiliary0", "ostPrime",
                  TokensMax)
    BY <1>0, <2>1, Names, MovedTransfers DEF TokensMax
  <2>. QED
    BY <1>0, <2>1, <2>2, Names, DeploymentKeeps DEF Transfers, DeployCalls
<1>. QED
  BY <1>1, <1>2, <1>3, <1>4

-----------------------------------------------------------------------------
LEMMA SuiteStarts == Init => SuiteInv
<1>. SUFFICES ASSUME Init PROVE SuiteInv
  OBVIOUS
<1>1. /\ at = 1 /\ Name = "deployTokens" /\ Phases[1] = NoneYet
      /\ Len(Suite) >= 1
  BY SuiteOrder DEF Init, Name, Ordered
<1>2. /\ \A c \in Chain, s \in Sender : process[c][s] = NoProcess
      /\ request = NoRequest /\ Sender = {"origin0", "auxiliary2", "proxy"}
  BY DEF Init, ChainsInit, Sender
<1>3. IntegrationTypeOK
  <2>1. balance \in [Ledger -> [Holder -> Int]]
    BY DEF Init, ChainsInit, TokensMax, Allowance
  <2>2. process \in [Chain -> [Sender -> [nonce : Int, status : ProcessStatus,
                                          amount : Nat, bounty : Nat]]]
    BY DEF Init, ChainsInit, NoProcess, ProcessStatus
  <2>3. request \in [sender : Sender, amount : Nat, reward : Nat, bounty : Nat,
                     nonce : Int, unlockSecret : {"none", "secret"}]
    BY <1>2 DEF NoRequest
  <2>4. Len(Suite) \in Nat
    BY SuiteOrder DEF Ordered
  <2>. QED
    BY <1>1, <2>1, <2>2, <2>3, <2>4 DEF IntegrationTypeOK
<1>4. InSource = "Undeclared" /\ InTarget = "Undeclared"
  BY <1>2, Chains DEF InSource, InTarget, StatusOf, NoRequest, NoProcess
<1>5. RequestInv
  BY <1>1, <1>4
     DEF RequestInv, Statuses, NoneYet, NewCalls, StakeCalls, RedeemCalls,
         UnstakeCalls
<1>6. ProcessInv
  <2>1. \A s \in Sender : Settled(s)
    BY <1>2, Chains DEF Settled, NoProcess
  <2>2. \A c \in Chain : StatusOf(c, request) = "Undeclared"
    BY <1>4, Chains DEF InSource, InTarget
  <2>. QED
    BY <1>2, <2>1, <2>2, Chains DEF ProcessInv, NoRequest, NoProcess
<1>7. /\ \A c \in Chain : KeptAmount(c) = 0 /\ KeptBounty(c) = 0
      /\ Pooled = 0 /\ Supply = 0
  <2>1. Statuses \in Over
    BY <1>4 DEF Statuses, Over, NoneYet
  <2>. QED
    BY <1>1, <2>1, OverIsSettled DEF Pooled, Supply, DeployCalls
<1>8. \A l \in Ledger, h \in Holder :
         h \notin {"auxiliary0", "auxiliary2"} \/ l # "coin"
         => balance[l][h] = 0
  BY DEF Init, ChainsInit
<1>9. HoldingsInv /\ SupplyInv
  BY <1>7, <1>8, Names DEF HoldingsInv, SupplyInv, Chain
<1>. QED
  BY <1>3, <1>5, <1>6, <1>9 DEF SuiteInv, Init

LEMMA SuiteSteps == SuiteInv /\ [Next]_vars => SuiteInv'
<1>. SUFFICES ASSUME SuiteInv, [Next]_vars PROVE SuiteInv'
  OBVIOUS
<1>1. CASE \/ DeployTokens \/ DeployGateways
           \/ ActivateGateway \/ InitializeOSTPrime
  BY <1>1, DeployingKeeps
<1>2. CASE NewStakeRequest \/ NewRedeemRequest \/ NewPoolRequest
  BY <1>2, NewRequestsKeep
<1>3. CASE Stake \/ ConfirmStakeIntent
  BY <1>3, StakeKeeps, ConfirmStakeIntentKeeps
<1>4. CASE \/ ProgressStake \/ ProgressStakeWithProof
           \/ ProgressMint \/ ProgressMintWithProof
  BY <1>4, ProgressStakeKeeps, ProgressStakeWithProofKeeps,
     ProgressMintKeeps, ProgressMintWithProofKeeps
<1>5. CASE RevertStake \/ ConfirmRevertStakeIntent \/ ProgressRevertStake
  BY <1>5, RevertStakeKeeps, ConfirmRevertStakeIntentKeeps,
     ProgressRevertStakeKeeps
<1>6. CASE Redeem \/ RequestRedeem \/ AcceptRedeem \/ ConfirmRedeemIntent
  BY <1>6, RedeemKeeps, RequestRedeemKeeps, AcceptRedeemKeeps,
     ConfirmRedeemIntentKeeps
<1>7. CASE \/ ProgressRedeem \/ ProgressRedeemWithProof
           \/ ProgressUnstake \/ ProgressUnstakeWithProof
  BY <1>7, ProgressRedeemKeeps, ProgressRedeemWithProofKeeps,
     ProgressUnstakeKeeps, ProgressUnstakeWithProofKeeps
<1>8. CASE RevertRedeem \/ ConfirmRevertRedeemIntent \/ ProgressRevertRedeem
  BY <1>8, RevertRedeemKeeps, ConfirmRevertRedeemIntentKeeps,
     ProgressRevertRedeemKeeps
<1>9. CASE UNCHANGED vars
  <2>1. /\ at' = at /\ request' = request /\ process' = process
        /\ balance' = balance /\ asserted' = asserted
    BY <1>9 DEF vars, chainVars
  <2>2. /\ Source' = Source /\ InSource' = InSource /\ InTarget' = InTarget
        /\ Name' = Name /\ Statuses' = Statuses
    BY <2>1 DEF Source, InSource, InTarget, StatusOf, Name, Statuses
  <2>3. /\ \A c \in Chain : /\ KeptAmount(c)' = KeptAmount(c)
                            /\ KeptBounty(c)' = KeptBounty(c)
        /\ Pooled' = Pooled /\ Supply' = Supply
    BY <2>1, <2>2
       DEF KeptAmount, KeptBounty, Keeps, Pooled, Underway, Supply
  <2>4. IntegrationTypeOK' /\ RequestInv'
    BY <2>1, <2>2 DEF SuiteInv, IntegrationTypeOK, RequestInv
  <2>5. ProcessInv'
    BY <2>1, ProcessKept DEF SuiteInv
  <2>6. HoldingsInv' /\ SupplyInv'
    BY <2>1, <2>3 DEF SuiteInv, HoldingsInv, SupplyInv, Chain
  <2>. QED
    BY <2>1, <2>4, <2>5, <2>6 DEF SuiteInv
<1>. QED
  BY <1>1, <1>2, <1>3, <1>4, <1>5, <1>6, <1>7, <1>8, <1>9 DEF Next

\* At every position of the suite the request of the test has the statuses of
\* that position on its two chains, the processes and the contracts' balances
\* are those of such a request, and no assertion has failed.
THEOREM SuiteInvariant == Spec => []SuiteInv
<1>1. Init => SuiteInv
  BY SuiteStarts
<1>2. SuiteInv /\ [Next]_vars => SuiteInv'
  BY SuiteSteps
<1>. QED
  BY <1>1, <1>2, PTL DEF Spec

\* Whatever the transactions cost, every expectation the assertion classes
\* compute from the balances before a call is what the contracts do.
THEOREM AssertionsAlwaysHold == Spec => []AssertionsHold
<1>1. SuiteInv => AssertionsHold
  BY DEF SuiteInv, AssertionsHold
<1>. QED
  BY <1>1, SuiteInvariant, PTL

\* When a test is over nothing is left with the contracts it went through, and
\* the vault and the coins OSTPrime keeps make up the whole supply.
THEOREM TestsAlwaysSettle == Spec => []TestsSettle
<1>1. SuiteInv => TestsSettle
  <2>. SUFFICES
         ASSUME SuiteInv,
                \/ Finished
                \/ Suite[at][1] \in {"newStakeRequest", "newRedeemRequest",
                                     "newPoolRequest"}
         PROVE  /\ \A h \in {"gateway", "coGateway", "redeemPool", "proxy"} :
                      \A l \in Ledger : balance[l][h] = 0
                /\ balance.token["stakeVault"] + balance.coin["ostPrime"]
                     = TokensMax + balance.ostPrime["auxiliary2"]
    BY DEF TestsSettle
  <2>1. /\ RequestInv /\ HoldingsInv /\ SupplyInv /\ at \in Int
        /\ Len(Suite) \in Int /\ balance \in Balances
    <3>1. Len(Suite) \in Nat
      BY SuiteOrder DEF Ordered
    <3>. QED
      BY <3>1 DEF SuiteInv, IntegrationTypeOK, Balances
  <2>2. /\ at > Len(Suite) \/ Name \in NewCalls
        /\ Name \notin DeployCalls /\ Name # "acceptRedeem"
    BY <2>1 DEF Finished, Name, NewCalls, DeployCalls
  <2>3. /\ KeptAmount("origin") = 0 /\ KeptBounty("origin") = 0
        /\ KeptAmount("auxiliary") = 0 /\ KeptBounty("auxiliary") = 0
        /\ Underway = 0 /\ Pooled = 0 /\ Supply = TokensMax
    <3>1. Statuses \in Over
      BY <2>1, <2>2 DEF RequestInv
    <3>. QED
      BY <2>2, <3>1, OverIsSettled DEF Chain, Pooled, Supply, TokensMax
  <2>4. \A h \in {"gateway", "coGateway", "redeemPool", "proxy"} :
           \A l \in Ledger : balance[l][h] = 0
    BY <2>1, <2>3 DEF HoldingsInv, Ledger
  <2>5. balance["token"]["stakeVault"] + balance["coin"]["ostPrime"]
          = TokensMax + balance["ostPrime"]["auxiliary2"]
    BY <2>1, <2>3, BalancesAreIntegers DEF SupplyInv, AreAmounts, TokensMax
  <2>. QED
    BY <2>4, <2>5
<1>. QED
  BY <1>1, SuiteInvariant, PTL
=============================================================================
