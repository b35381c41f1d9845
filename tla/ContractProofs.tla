--------------------------- MODULE ContractProofs ---------------------------
(***************************************************************************)
(* The contracts that work by themselves, and the two cores.  An anchor    *)
(* keeps exactly its latest roots, for buffers of any size and any heights *)
(* but zero; a bounty changes only with notice, for any amounts and unlock *)
(* period; and OST prime can exchange whatever others hold, for any users  *)
(* and number of coins.  For any trees of blocks, validators and kernels,  *)
(* finalised checkpoints of auxiliary are final, a kernel that has been    *)
(* proven is activated and never passed over, and no vote gets more weight *)
(* than there is; on origin, a majority of the weight has voted for what   *)
(* is committed.  Both cores agree with ValidatorSet.                      *)
(***************************************************************************)
EXTENDS Anchor, BountyChange, OSTPrime, OriginCore, AuxiliaryCore, SumTheorems

-----------------------------------------------------------------------------
\* The bounty

\* A proposal is always the last one announced, with its unlock height.
ProposalInv ==
    /\ blockNumber \in Nat
    /\ \A p \in announced : p.height \in Nat
    /\ proposedBounty # 0 =>
          \E p \in announced :
             /\ p.amount = proposedBounty
             /\ proposedBountyUnlockHeight = p.height + UnlockPeriod

LEMMA ProposalInductive == ProposalInv /\ [BountyNext]_bountyVars => ProposalInv'
<1> SUFFICES ASSUME ProposalInv, [BountyNext]_bountyVars PROVE ProposalInv'
  OBVIOUS
<1>1. ASSUME NEW amount \in Bounties, InitiateBountyAmountChange(amount)
      PROVE  ProposalInv'
  BY <1>1 DEF InitiateBountyAmountChange, ProposalInv
<1>2. CASE ConfirmBountyAmountChange
  BY <1>2 DEF ConfirmBountyAmountChange, ProposalInv
<1>3. CASE NextBlock
  BY <1>3 DEF NextBlock, ProposalInv
<1>4. CASE UNCHANGED bountyVars
  BY <1>4 DEF bountyVars, ProposalInv
<1> QED
  BY <1>1, <1>2, <1>3, <1>4 DEF BountyNext

\* Stakers have more than an unlock period of blocks to react to a change of
\* the bounty to anything but zero, whatever is proposed, replaced or confirmed
\* (initiateBountyAmountChange, confirmBountyAmountChange).
THEOREM BountyChangesAreNoticed == BountySpec => ChangesAreNoticed
<1>1. BountyInit => ProposalInv
  BY BountyAssumption DEF BountyInit, ProposalInv
<1>2. ASSUME ProposalInv, [BountyNext]_bountyVars, bounty' # bounty
      PROVE  bounty' = 0 \/ Noticed(bounty')
  BY <1>2 DEF BountyNext, bountyVars, InitiateBountyAmountChange, NextBlock,
              ConfirmBountyAmountChange, ProposalInv, Noticed
<1>3. ProposalInv /\ [BountyNext]_bountyVars =>
          [bounty' # bounty => bounty' = 0 \/ Noticed(bounty')]_bountyVars
  BY <1>2
<1> QED
  BY <1>1, <1>3, ProposalInductive, PTL DEF BountySpec, ChangesAreNoticed

-----------------------------------------------------------------------------
\* The anchor

Ring == Slots(MaxStateRoots)

\* The order in which the slots were last written, as far as they were: behind
\* the index come the older ones.
Before(s, t) ==
    IF (s =< buffer.index) <=> (t =< buffer.index) THEN s < t ELSE buffer.index < s

\* Older slots hold smaller heights or none at all, so the slot that comes next
\* is unset until all are set; and the roots that are kept are those of the ring.
RingInv ==
    /\ buffer \in Buffers(MaxStateRoots)
    /\ Newest(buffer) # 0
    /\ \A s, t \in Ring : Before(s, t) =>
          buffer.items[s] = 0 \/ buffer.items[s] < buffer.items[t]

KeptInv ==
    /\ stateRoots \in [Height -> Root \cup {NoRoot}]
    /\ Kept = Items(buffer) \ {0}

Reports == {<<h, stateRoots[h]>> : h \in Kept}

LEMMA Oldest ==
    ASSUME RingInv
    PROVE  /\ NextIndex(buffer) \in Ring
           /\ buffer.index \in Ring
           /\ \A s \in Ring : buffer.items[s] \in Nat
           /\ \A s \in Ring : buffer.items[s] =< Newest(buffer)
           /\ \A s \in Ring \ {NextIndex(buffer)} :
                 \/ Overwritten(buffer) = 0
                 \/ Overwritten(buffer) < buffer.items[s]
           /\ \A s, t \in Ring :
                 buffer.items[s] # 0 /\ buffer.items[s] = buffer.items[t] => s = t
<1> DEFINE n == MaxStateRoots
           i == buffer.index
           x == NextIndex(buffer)
<1>1. /\ n \in Nat \ {0} /\ Ring = 0 .. n - 1
      /\ i \in Ring /\ buffer.items \in [Ring -> Nat]
  BY AnchorAssumption DEF RingInv, Ring, Slots, Buffers
<1>2. x = IF i + 1 < n THEN i + 1 ELSE 0
  BY <1>1 DEF NextIndex
<1>3. \A s \in Ring \ {x} : Before(x, s)
  BY <1>1, <1>2 DEF Before
<1>4. \A s \in Ring \ {i} : Before(s, i)
  BY <1>1 DEF Before
<1>5. \A s, t \in Ring : s # t => Before(s, t) \/ Before(t, s)
  BY <1>1 DEF Before
<1>6. x \in Ring
  BY <1>1, <1>2
<1> HIDE DEF n, i, x
<1>7. \A s \in Ring : buffer.items[s] \in Nat
  BY <1>1
<1>8. \A s \in Ring : buffer.items[s] =< Newest(buffer)
  BY <1>1, <1>4, <1>7 DEF RingInv, Newest, i
<1>9. \A s \in Ring \ {x} : Overwritten(buffer) = 0 \/ Overwritten(buffer) < buffer.items[s]
  BY <1>3, <1>6 DEF RingInv, Overwritten, x
<1>10. \A s, t \in Ring :
          buffer.items[s] # 0 /\ buffer.items[s] = buffer.items[t] => s = t
  BY <1>5, <1>7 DEF RingInv
<1> QED
  BY <1>1, <1>6, <1>7, <1>8, <1>9, <1>10 DEF i, x

LEMMA StoreRing ==
    ASSUME RingInv, NEW h \in Nat, h > Newest(buffer), buffer' = Store(buffer, h)
    PROVE  /\ RingInv'
           /\ buffer'.items = [buffer.items EXCEPT ![NextIndex(buffer)] = h]
           /\ Newest(buffer)' = h
<1> DEFINE n == MaxStateRoots
           i == buffer.index
           x == NextIndex(buffer)
<1>1. /\ n \in Nat \ {0} /\ Ring = 0 .. n - 1
      /\ i \in Ring /\ buffer.items \in [Ring -> Nat]
  BY AnchorAssumption DEF RingInv, Ring, Slots, Buffers
<1>2. x = IF i + 1 < n THEN i + 1 ELSE 0
  BY <1>1 DEF NextIndex
<1>3. buffer'.index = x /\ buffer'.items = [buffer.items EXCEPT ![x] = h]
  BY DEF Store
<1>4. x \in Ring
  BY <1>1, <1>2
<1>5. buffer'.items \in [Ring -> Nat]
  BY <1>1, <1>3
<1>6. buffer' \in Buffers(MaxStateRoots)
  BY <1>3, <1>4, <1>5 DEF Store, Buffers, Ring
<1>7. Newest(buffer)' = h /\ Newest(buffer) \in Nat
  BY <1>1, <1>3, <1>4 DEF Newest
<1>8. ASSUME NEW s \in Ring, NEW t \in Ring, Before(s, t)'
      PROVE  buffer'.items[s] = 0 \/ buffer'.items[s] < buffer'.items[t]
  <2>1. s # x
    BY <1>1, <1>2, <1>3, <1>8 DEF Before
  <2>2. CASE t = x
    <3>1. buffer.items[s] \in Nat /\ buffer.items[s] =< Newest(buffer)
      BY Oldest
    <3>2. buffer'.items[s] = buffer.items[s] /\ buffer'.items[t] = h
      BY <1>1, <1>3, <2>1, <2>2
    <3> QED
      BY <1>7, <3>1, <3>2
  <2>3. CASE t # x
    <3>1. Before(s, t)
      BY <1>1, <1>2, <1>3, <1>8, <2>1, <2>3 DEF Before
    <3> QED
      BY <1>1, <1>3, <2>1, <2>3, <3>1 DEF RingInv
  <2> QED
    BY <2>2, <2>3
<1> QED
  BY <1>3, <1>6, <1>7, <1>8 DEF RingInv, Ring

LEMMA InitialAnchor ==
    ASSUME 0 \notin InitialHeights, Init
    PROVE  RingInv /\ KeptInv /\ Window!Init
<1>1. PICK h \in InitialHeights, r \in Root :
        /\ stateRoots = [g \in Height |-> IF g = h THEN r ELSE NoRoot]
        /\ buffer = Store(NewBuffer(MaxStateRoots), h)
  BY DEF Init
<1> DEFINE n == MaxStateRoots
           x == NextIndex(NewBuffer(n))
<1>2. h \in Height /\ h \in Nat \ {0} /\ n \in Nat \ {0} /\ r # NoRoot
  BY AnchorAssumption
<1>3. x \in Ring /\ Ring = 0 .. n - 1 /\ x = IF 1 < n THEN 1 ELSE 0
  BY <1>2 DEF NextIndex, NewBuffer, Slots, Ring
<1>4. /\ buffer.index = x
      /\ buffer.items = [s \in Ring |-> IF s = x THEN h ELSE 0]
  BY <1>1 DEF Store, NewBuffer, Ring
<1>5. buffer \in Buffers(MaxStateRoots)
  BY <1>1, <1>2, <1>3, <1>4 DEF Store, NewBuffer, Buffers, Ring
<1>6. RingInv
  BY <1>2, <1>3, <1>4, <1>5 DEF RingInv, Before, Newest
<1>7. Kept = {h}
  BY <1>1, <1>2 DEF Kept
<1>8. Items(buffer) \ {0} = {h}
  BY <1>2, <1>3, <1>4 DEF Items
<1>9. KeptInv
  BY <1>1, <1>2, <1>7, <1>8 DEF KeptInv
<1>10. Reports = {<<h, r>>}
  BY <1>1, <1>2, <1>7 DEF Reports
<1> QED
  BY <1>2, <1>6, <1>9, <1>10 DEF Window!Init, Reports

\* The ring is full when no root can be added without deleting one.
LEMMA Full ==
    ASSUME RingInv, KeptInv
    PROVE  /\ Cardinality(Reports) =< MaxStateRoots
           /\ Cardinality(Reports) \in Nat
           /\ Cardinality(Reports) = MaxStateRoots <=> Overwritten(buffer) # 0
<1> DEFINE slot == [p \in Reports |-> CHOOSE s \in Ring : buffer.items[s] = p[1]]
           x == NextIndex(buffer)
<1>1. /\ DOMAIN buffer.items = Ring /\ x \in Ring
      /\ Overwritten(buffer) = buffer.items[x]
  BY Oldest DEF RingInv, Buffers, Ring, Overwritten
<1>2. ASSUME NEW p \in Reports
      PROVE  /\ slot[p] \in Ring
             /\ buffer.items[slot[p]] = p[1]
             /\ p[1] # 0
             /\ p = <<p[1], stateRoots[p[1]]>>
  <2>1. PICK h \in Kept : p = <<h, stateRoots[h]>>
    BY DEF Reports
  <2>2. \E s \in Ring : buffer.items[s] = p[1]
    BY <1>1, <2>1 DEF KeptInv, Items
  <2>3. h # 0
    BY DEF KeptInv
  <2> QED
    BY <2>1, <2>2, <2>3
<1> HIDE DEF slot, x
<1>3. slot \in Injection(Reports, Ring)
  <2>1. slot \in [Reports -> Ring]
    BY <1>2 DEF slot
  <2>2. \A p, q \in Reports : slot[p] = slot[q] => p = q
    BY <1>2
  <2> QED
    BY <2>1, <2>2 DEF Injection, IsInjective
<1>4. IsFiniteSet(Ring) /\ Cardinality(Ring) = MaxStateRoots
  BY AnchorAssumption, FS_Interval DEF Ring, Slots
<1>5. /\ IsFiniteSet(Reports)
      /\ Cardinality(Reports) =< MaxStateRoots
      /\ Cardinality(Reports) = MaxStateRoots <=> slot \in Surjection(Reports, Ring)
  BY <1>3, <1>4, FS_Injection
<1>6. ASSUME slot \in Surjection(Reports, Ring) PROVE buffer.items[x] # 0
  <2>1. PICK p \in Reports : slot[p] = x
    BY <1>1, <1>6 DEF Surjection
  <2> QED
    BY <1>2, <2>1
<1>7. ASSUME buffer.items[x] # 0 PROVE slot \in Surjection(Reports, Ring)
  <2> SUFFICES ASSUME NEW s \in Ring PROVE \E p \in Reports : slot[p] = s
    BY <1>3 DEF Injection, Surjection
  <2>1. buffer.items[s] # 0 /\ buffer.items[s] \in Kept
    <3>1. buffer.items[s] # 0
      BY <1>1, <1>7, Oldest DEF x
    <3> QED
      BY <1>1, <3>1 DEF KeptInv, Items
  <2>2. PICK p \in Reports : p[1] = buffer.items[s]
    <3> DEFINE k == buffer.items[s]
    <3>1. <<k, stateRoots[k]>> \in Reports
      BY <2>1 DEF Reports
    <3> QED
      BY <3>1
  <2>3. slot[p] = s
    BY <1>2, <2>1, <2>2, Oldest
  <2> QED
    BY <2>3
<1> QED
  BY <1>1, <1>5, <1>6, <1>7, FS_CardinalityType

LEMMA AnchorReports ==
    ASSUME RingInv, KeptInv,
           NEW h \in Height, NEW r \in Root \cup {NoRoot}, AnchorStateRoot(h, r)
    PROVE  /\ RingInv' /\ KeptInv'
           /\ Window!Report(h, r) /\ r \in Root
<1> DEFINE x == NextIndex(buffer)
           old == Overwritten(buffer)
<1>1. /\ r \in Root /\ r # NoRoot /\ h \in Nat
      /\ h > Newest(buffer) /\ buffer' = Store(buffer, h)
  BY AnchorAssumption DEF AnchorStateRoot
<1>2. /\ DOMAIN buffer.items = Ring /\ x \in Ring
      /\ old = buffer.items[x] /\ old \in Nat
      /\ Newest(buffer) = buffer.items[buffer.index] /\ buffer.index \in Ring
      /\ Newest(buffer) \in Nat /\ Newest(buffer) # 0
  BY Oldest DEF RingInv, Buffers, Ring, Overwritten, Newest
<1>3. RingInv' /\ buffer'.items = [buffer.items EXCEPT ![x] = h]
  BY <1>1, StoreRing
<1>4. \A k \in Kept : k \in Nat /\ k =< Newest(buffer)
  BY <1>2, Oldest DEF KeptInv, Items
<1>5. h \notin Kept /\ old # h /\ h # 0
  BY <1>1, <1>2, <1>4, Oldest
<1>6. /\ stateRoots' \in [Height -> Root \cup {NoRoot}]
      /\ \A g \in Height : stateRoots'[g] = CASE g = old -> NoRoot
                                              [] g = h /\ g # old -> r
                                              [] OTHER -> stateRoots[g]
  BY <1>1, <1>5 DEF AnchorStateRoot, Delete, KeptInv
<1>7. Kept' = (Kept \ {old}) \cup {h}
  BY <1>1, <1>5, <1>6 DEF Kept
<1>8. Items(buffer)' \ {0} = ((Items(buffer) \ {0}) \ {old}) \cup {h}
  <2>1. DOMAIN buffer'.items = Ring
    BY <1>2, <1>3
  <2>2. \A s \in Ring \ {x} : buffer.items[s] = old => old = 0
    BY <1>2, Oldest
  <2>3. \A s \in Ring : buffer'.items[s] = IF s = x THEN h ELSE buffer.items[s]
    BY <1>2, <1>3
  <2> HIDE DEF x, old
  <2> QED
    <3>1. ASSUME NEW k \in Items(buffer)', k # 0
          PROVE  k = h \/ (k \in Items(buffer) /\ k # old)
      <4>1. PICK s \in Ring : k = buffer'.items[s]
        BY <2>1 DEF Items
      <4> QED
        BY <1>2, <2>2, <2>3, <3>1, <4>1 DEF Items
    <3>2. ASSUME NEW k \in Items(buffer), k # old
          PROVE  k \in Items(buffer)'
      <4>1. PICK s \in Ring : k = buffer.items[s]
        BY <1>2 DEF Items
      <4> QED
        BY <1>2, <2>1, <2>3, <3>2, <4>1 DEF Items
    <3>3. h \in Items(buffer)'
      BY <1>2, <2>1, <2>3 DEF Items
    <3> QED
      BY <1>5, <3>1, <3>2, <3>3
<1>9. KeptInv'
  BY <1>6, <1>7, <1>8 DEF KeptInv
<1>10. Reports' = (Reports \ {<<old, stateRoots[old]>>}) \cup {<<h, r>>}
  <2>1. \A k \in Kept \ {old} : stateRoots'[k] = stateRoots[k]
    BY <1>5, <1>6 DEF Kept
  <2>2. stateRoots'[h] = r
    BY <1>5, <1>6
  <2> HIDE DEF old
  <2> QED
    BY <1>5, <1>7, <2>1, <2>2 DEF Reports
<1>11. h > Window!Latest(Reports)
  <2> DEFINE heights == {p[1] : p \in Reports}
  <2>1. Newest(buffer) \in heights /\ \A k \in heights : k \in Nat /\ k =< Newest(buffer)
    <3>1. heights = Kept
      <4>1. \A p \in Reports : p[1] \in Kept
        BY DEF Reports
      <4>2. ASSUME NEW k \in Kept PROVE k \in heights
        <5>1. <<k, stateRoots[k]>> \in Reports
          BY DEF Reports
        <5> QED
          BY <5>1
      <4> QED
        BY <4>1, <4>2
    <3>2. Newest(buffer) \in Kept
      BY <1>2 DEF KeptInv, Items
    <3> QED
      BY <1>4, <3>1, <3>2
  <2> HIDE DEF heights
  <2>2. Window!Max(heights) = Newest(buffer)
    BY <1>2, <2>1 DEF Window!Max
  <2> QED
    BY <1>1, <2>2 DEF Window!Latest, heights
<1>12. Window!Cardinality(Reports) = Cardinality(Reports)
  BY DEF Window!Cardinality, Cardinality
<1>13. CASE old = 0
  <2>1. Cardinality(Reports) < MaxStateRoots
    BY <1>13, Full, AnchorAssumption
  <2>2. Reports' = Reports \cup {<<h, r>>}
    <3>1. <<old, stateRoots[old]>> \notin Reports
      BY <1>13 DEF Reports, KeptInv
    <3> QED
      BY <1>10, <3>1
  <2>3. Window!Report(h, r)
    BY <1>11, <1>12, <2>1, <2>2 DEF Window!Report, Reports
  <2> QED
    BY <1>1, <1>3, <1>9, <2>3
<1>14. CASE old # 0
  <2>1. ~(Cardinality(Reports) < MaxStateRoots)
    BY <1>14, Full, AnchorAssumption
  <2>2. old \in Kept /\ \A k \in Kept \ {old} : old < k
    BY <1>2, <1>14, Oldest DEF KeptInv, Items
  <2>3. Window!Oldest(Reports) = <<old, stateRoots[old]>>
    <3> HIDE DEF old
    <3>1. /\ <<old, stateRoots[old]>> \in Reports
          /\ \A p \in Reports : old =< p[1]
      <4>1. \A p \in Reports : p[1] \in Kept
        BY DEF Reports
      <4>2. \A k \in Kept : old =< k
        BY <1>2, <1>4, <2>2
      <4> QED
        BY <2>2, <4>1, <4>2 DEF Reports
    <3>2. ASSUME NEW p \in Reports, \A q \in Reports : p[1] =< q[1]
          PROVE  p = <<old, stateRoots[old]>>
      <4>1. PICK k \in Kept : p = <<k, stateRoots[k]>>
        BY DEF Reports
      <4>2. k =< old
        BY <3>1, <3>2, <4>1
      <4>3. k \in Nat /\ old \in Nat
        BY <1>2, <1>4, <2>2
      <4>4. k # old => old < k
        BY <2>2
      <4> QED
        BY <4>1, <4>2, <4>3, <4>4
    <3> QED
      BY <3>1, <3>2 DEF Window!Oldest
  <2>4. Window!Report(h, r)
    BY <1>10, <1>11, <1>12, <2>1, <2>3 DEF Window!Report, Reports
  <2> QED
    BY <1>1, <1>3, <1>9, <2>4
<1> QED
  BY <1>13, <1>14

LEMMA AnchorSteps ==
    RingInv /\ KeptInv /\ [Next]_vars =>
        RingInv' /\ KeptInv' /\ [Window!Next]_Reports
<1> SUFFICES ASSUME RingInv, KeptInv, [Next]_vars
             PROVE  RingInv' /\ KeptInv' /\ [Window!Next]_Reports
  OBVIOUS
<1>1. ASSUME NEW h \in Height, NEW r \in Root \cup {NoRoot}, AnchorStateRoot(h, r)
      PROVE  RingInv' /\ KeptInv' /\ [Window!Next]_Reports
  BY <1>1, AnchorReports DEF Window!Next
<1>2. ASSUME UNCHANGED <<stateRoots, buffer>>
      PROVE  RingInv' /\ KeptInv' /\ [Window!Next]_Reports
  BY <1>2 DEF RingInv, KeptInv, Kept, Reports, Before, Newest, Items
<1> QED
  BY <1>1, <1>2 DEF Next, SetCoAnchorAddress, vars

\* An anchor that is not constructed at height zero answers for exactly the
\* latest roots, for any size of its buffer (anchorStateRoot, store).
THEOREM AnchorKeepsLatestRoots ==
    ASSUME 0 \notin InitialHeights
    PROVE  Spec => ImplementsRootWindow
<1>1. Init => RingInv /\ KeptInv /\ Window!Init
  BY InitialAnchor
<1> QED
  BY <1>1, AnchorSteps, PTL DEF Spec, ImplementsRootWindow, Window!Spec, Reports

-----------------------------------------------------------------------------
\* OST prime

\* No coin and no token is lost, and what the contract holds of both together
\* is worth all coins there are: a transfer to the contract only adds to it.
PrimeInv ==
    /\ PrimeTypeOK
    /\ SumFunctionOnSet(balances, Account) = totalSupply
    /\ SumFunctionOnSet(coins, Account) = TokensMax
    /\ totalSupply =< TokensMax
    /\ IF initialized THEN coins[This] + balances[This] >= TokensMax
                       ELSE coins[This] = 0 /\ totalSupply = 0

LEMMA PrimeAccounts ==
    /\ IsFiniteSet(Account) /\ IsFiniteSet(Others)
    /\ This \in Account /\ CoGateway \in Account /\ Genesis \in Account
    /\ Others = Account \ {This} /\ User \subseteq Others
    /\ This # CoGateway /\ Genesis # This
<1>1. IsFiniteSet(Others)
  BY PrimeAssumption, FS_AddElement DEF Others
<1>2. IsFiniteSet(Account)
  BY <1>1, FS_AddElement DEF Account
<1>. QED
  BY <1>1, <1>2, PrimeAssumption DEF Others, Account

\* What a transfer between two accounts makes of a ledger.
Exchanged(b, c, from, to, n) ==
    /\ c \in [Account -> Int]
    /\ c[from] = b[from] - n
    /\ c[to] = b[to] + n
    /\ \A a \in Account \ {from, to} : c[a] = b[a]
    /\ SumFunctionOnSet(c, Account) = SumFunctionOnSet(b, Account)

LEMMA Exchange ==
    ASSUME NEW b \in [Account -> Nat], NEW n \in Nat,
           NEW from \in Account, NEW to \in Account, from # to
    PROVE  Exchanged(b, Moved(b, from, to, n), from, to, n)
<1>. DEFINE d == [b EXCEPT ![from] = @ - n]
            c == Moved(b, from, to, n)
<1>1. /\ d \in [Account -> Int] /\ d[from] = b[from] - n
      /\ \A a \in Account \ {from} : d[a] = b[a]
  OBVIOUS
<1>2. c = [d EXCEPT ![to] = d[to] + n]
  BY DEF Moved
<1>. HIDE DEF c, d
<1>3. /\ c \in [Account -> Int] /\ c[to] = d[to] + n
      /\ \A a \in Account \ {to} : c[a] = d[a]
  BY <1>1, <1>2
<1>4. \A a \in Account : b[a] \in Int /\ c[a] \in Int /\ d[a] \in Int
  BY <1>1, <1>3
<1>5. SumFunctionOnSet(d, Account)
        = SumFunctionOnSet(b, Account) + (d[from] - b[from])
  BY <1>1, <1>4, PrimeAccounts, SumUpdate
<1>6. SumFunctionOnSet(c, Account)
        = SumFunctionOnSet(d, Account) + (c[to] - d[to])
  BY <1>3, <1>4, PrimeAccounts, SumUpdate
<1>7. SumFunctionOnSet(b, Account) \in Int /\ SumFunctionOnSet(d, Account) \in Int
  BY <1>4, PrimeAccounts, SumInt
<1>8. SumFunctionOnSet(c, Account) = SumFunctionOnSet(b, Account)
  BY <1>1, <1>3, <1>4, <1>5, <1>6, <1>7
<1>9. c[from] = b[from] - n /\ c[to] = b[to] + n
  BY <1>1, <1>3
<1>10. \A a \in Account \ {from, to} : c[a] = b[a]
  BY <1>1, <1>3
<1>. QED
  BY <1>3, <1>8, <1>9, <1>10 DEF Exchanged, c

\* A transfer that the sender can pay leaves no negative balance.
LEMMA PaidExchange ==
    ASSUME NEW b \in [Account -> Nat], NEW n \in Nat,
           NEW from \in Account, NEW to \in Account, from # to,
           Backs(b, from, n)
    PROVE  /\ Moved(b, from, to, n) \in [Account -> Nat]
           /\ Exchanged(b, Moved(b, from, to, n), from, to, n)
<1>. DEFINE c == Moved(b, from, to, n)
<1>1. Exchanged(b, c, from, to, n)
  BY Exchange
<1>. HIDE DEF c
<1>2. ASSUME NEW a \in Account PROVE c[a] \in Nat
  BY <1>1, b[a] \in Nat, b[from] \in Nat DEF Exchanged, Backs
<1>. QED
  BY <1>1, <1>2 DEF Exchanged, c

LEMMA LedgerSums ==
    ASSUME NEW b \in [Account -> Nat]
    PROVE  /\ SumFunctionOnSet(b, Account)
                = b[This] + SumFunctionOnSet(b, Others)
           /\ SumFunctionOnSet(b, Others) \in Nat
           /\ \A a \in Others : b[a] =< SumFunctionOnSet(b, Others)
<1>1. \A a \in Account : b[a] \in Int
  OBVIOUS
<1>2. SumFunctionOnSet(b, Account) = b[This] + SumFunctionOnSet(b, Others)
  BY <1>1, PrimeAccounts, SumRemove
<1>3. \A a \in Others : b[a] \in Nat
  BY PrimeAccounts
<1>. QED
  BY <1>2, <1>3, PrimeAccounts, SumNat, SumMember

\* What others hold is what the contract does not.
LEMMA HeldByOthers ==
    ASSUME PrimeInv
    PROVE  /\ totalSupply = balances[This] + SumFunctionOnSet(balances, Others)
           /\ TokensMax = coins[This] + SumFunctionOnSet(coins, Others)
           /\ SumFunctionOnSet(balances, Others) \in Nat
           /\ SumFunctionOnSet(coins, Others) \in Nat
           /\ balances[This] \in Nat /\ coins[This] \in Nat
           /\ totalSupply \in Nat /\ TokensMax \in Nat
           /\ \A a \in Others : /\ balances[a] \in Nat
                                /\ balances[a] =< totalSupply - balances[This]
                                /\ coins[a] \in Nat
                                /\ coins[a] =< TokensMax - coins[This]
<1>1. balances \in [Account -> Nat] /\ coins \in [Account -> Nat]
  BY DEF PrimeInv, PrimeTypeOK
<1>2. /\ totalSupply = balances[This] + SumFunctionOnSet(balances, Others)
      /\ SumFunctionOnSet(balances, Others) \in Nat
      /\ \A a \in Others : balances[a] =< SumFunctionOnSet(balances, Others)
  BY <1>1, LedgerSums DEF PrimeInv
<1>3. /\ TokensMax = coins[This] + SumFunctionOnSet(coins, Others)
      /\ SumFunctionOnSet(coins, Others) \in Nat
      /\ \A a \in Others : coins[a] =< SumFunctionOnSet(coins, Others)
  BY <1>1, LedgerSums DEF PrimeInv
<1>4. /\ \A a \in Account : balances[a] \in Nat /\ coins[a] \in Nat
      /\ totalSupply \in Nat /\ TokensMax \in Nat
  BY <1>1, PrimeAssumption DEF PrimeInv, PrimeTypeOK
<1>5. \A a \in Others : a \in Account /\ This \in Account
  BY PrimeAccounts
<1>6. ASSUME NEW a \in Others
      PROVE  /\ balances[a] \in Nat
             /\ balances[a] =< totalSupply - balances[This]
             /\ coins[a] \in Nat
             /\ coins[a] =< TokensMax - coins[This]
  BY <1>2, <1>3, <1>4, <1>5, <1>6
<1>7. balances[This] \in Nat /\ coins[This] \in Nat
  BY <1>4, PrimeAccounts
<1>. QED
  BY <1>2, <1>3, <1>4, <1>6, <1>7

\* Every call keeps the invariant and is one that CoinPool allows.
LEMMA PrimeStep ==
    ASSUME PrimeInv, [PrimeNext]_primeVars
    PROVE  PrimeInv' /\ [P!Next]_(P!vars)
<1>. USE DEF PrimeInv, PrimeTypeOK
<1>1. /\ balances \in [Account -> Nat] /\ coins \in [Account -> Nat]
      /\ totalSupply \in Nat /\ TokensMax \in Nat
      /\ initialized \in BOOLEAN
      /\ balances[This] \in Nat /\ coins[This] \in Nat
  BY PrimeAccounts, PrimeAssumption
<1>2. \A a \in Others : a \in Account /\ a # This
  BY PrimeAccounts
<1>3. \A a \in User : a \in Others
  BY DEF Others
<1>4. \A n \in 1 .. TokensMax : n \in Nat /\ n \in 0 .. TokensMax /\ n > 0
  BY <1>1
<1>5. ASSUME NEW a \in User, Initialize(a)
      PROVE  PrimeInv' /\ P!Fill
  <2>1. /\ coins' = Moved(coins, a, This, TokensMax)
        /\ ~initialized /\ initialized' /\ Backs(coins, a, TokensMax)
        /\ UNCHANGED <<balances, totalSupply>>
    BY <1>5 DEF Initialize
  <2>2. /\ coins' \in [Account -> Nat]
        /\ Exchanged(coins, coins', a, This, TokensMax)
    BY <1>1, <1>2, <1>3, <2>1, PrimeAccounts, PaidExchange
  <2>3. coins'[This] = TokensMax
    BY <1>1, <2>1, <2>2 DEF Exchanged
  <2>. QED
    BY <1>1, <1>5, <2>1, <2>2, <2>3 DEF P!Fill, Exchanged, Initialize
<1>6. ASSUME NEW a \in User, NEW n \in 1 .. TokensMax, Unwrap(a, n)
      PROVE  PrimeInv' /\ P!Unwrap(n)
  <2>1. /\ balances' = Moved(balances, a, This, n) /\ Backs(balances, a, n)
        /\ coins' = Moved(coins, This, a, n) /\ Backs(coins, This, n)
        /\ initialized /\ UNCHANGED <<initialized, totalSupply>>
    BY <1>6 DEF Unwrap, UnwrapAssert, Backs
  <2>2. /\ balances' \in [Account -> Nat]
        /\ Exchanged(balances, balances', a, This, n)
    BY <1>1, <1>2, <1>3, <1>4, <2>1, PrimeAccounts, PaidExchange
  <2>3. /\ coins' \in [Account -> Nat]
        /\ Exchanged(coins, coins', This, a, n)
    BY <1>1, <1>2, <1>3, <1>4, <2>1, PrimeAccounts, PaidExchange
  <2>4. n =< totalSupply - balances[This]
    BY <1>1, <1>3, <1>4, <2>1, HeldByOthers DEF Backs
  <2>5. /\ balances'[This] = balances[This] + n
        /\ coins'[This] = coins[This] - n
    BY <2>2, <2>3 DEF Exchanged
  <2>6. coins'[This] + balances'[This] >= TokensMax
    BY <1>1, <1>4, <2>1, <2>5
  <2>7. PrimeInv'
    BY <2>1, <2>2, <2>3, <2>6 DEF Exchanged
  <2>. QED
    BY <2>1, <2>4, <2>5, <2>7 DEF P!Unwrap
<1>7. ASSUME NEW a \in User, NEW n \in 1 .. TokensMax, Wrap(a, n)
      PROVE  PrimeInv' /\ P!Wrap(n)
  <2>1. /\ balances' = Moved(balances, This, a, n) /\ Backs(balances, This, n)
        /\ coins' = Moved(coins, a, This, n) /\ Backs(coins, a, n)
        /\ initialized /\ UNCHANGED <<initialized, totalSupply>>
    BY <1>7 DEF Wrap, WrapAssert, Backs
  <2>2. /\ balances' \in [Account -> Nat]
        /\ Exchanged(balances, balances', This, a, n)
    BY <1>1, <1>2, <1>3, <1>4, <2>1, PrimeAccounts, PaidExchange
  <2>3. /\ coins' \in [Account -> Nat]
        /\ Exchanged(coins, coins', a, This, n)
    BY <1>1, <1>2, <1>3, <1>4, <2>1, PrimeAccounts, PaidExchange
  <2>4. n =< TokensMax - coins[This]
    BY <1>1, <1>3, <1>4, <2>1, HeldByOthers DEF Backs
  <2>5. /\ balances'[This] = balances[This] - n
        /\ coins'[This] = coins[This] + n
    BY <2>2, <2>3 DEF Exchanged
  <2>6. coins'[This] + balances'[This] >= TokensMax
    BY <1>1, <1>4, <2>1, <2>5
  <2>7. PrimeInv'
    BY <2>1, <2>2, <2>3, <2>6 DEF Exchanged
  <2>. QED
    BY <2>1, <2>4, <2>5, <2>7 DEF P!Wrap
<1>8. ASSUME NEW a \in User, NEW n \in 1 .. TokensMax, IncreaseSupply(a, n)
      PROVE  PrimeInv' /\ P!Mint(n)
  <2>1. /\ balances' = [balances EXCEPT ![This] = balances[This] + n]
        /\ totalSupply' = totalSupply + n /\ totalSupply + n =< TokensMax
        /\ coins' = Moved(coins, This, a, n) /\ Backs(coins, This, n)
        /\ initialized /\ UNCHANGED initialized
    BY <1>8 DEF IncreaseSupply
  <2>2. /\ coins' \in [Account -> Nat]
        /\ Exchanged(coins, coins', This, a, n)
    BY <1>1, <1>2, <1>3, <1>4, <2>1, PrimeAccounts, PaidExchange
  <2>3. /\ balances' \in [Account -> Nat]
        /\ balances'[This] = balances[This] + n
        /\ \A b \in Account \ {This} : balances'[b] = balances[b]
    BY <1>1, <1>4, <2>1, PrimeAccounts
  <2>4. SumFunctionOnSet(balances', Account)
          = SumFunctionOnSet(balances, Account)
              + (balances'[This] - balances[This])
    <3>1. \A b \in Account : balances[b] \in Int /\ balances'[b] \in Int
      BY <1>1, <2>3
    <3>. QED
      BY <2>3, <3>1, PrimeAccounts, SumUpdate
  <2>5. SumFunctionOnSet(balances', Account) = totalSupply'
    BY <1>1, <1>4, <2>1, <2>3, <2>4
  <2>6. coins'[This] = coins[This] - n
    BY <2>2 DEF Exchanged
  <2>7. /\ coins'[This] + balances'[This] >= TokensMax
        /\ totalSupply' \in Nat
    BY <1>1, <1>4, <2>1, <2>3, <2>6
  <2>8. PrimeInv'
    BY <2>1, <2>2, <2>3, <2>5, <2>7 DEF Exchanged
  <2>. QED
    BY <2>1, <2>3, <2>6, <2>8 DEF P!Mint
<1>9. ASSUME NEW n \in 1 .. TokensMax, DecreaseSupply(n)
      PROVE  PrimeInv' /\ P!Burn(n)
  <2>1. /\ balances' = [balances EXCEPT ![CoGateway] = balances[CoGateway] - n]
        /\ totalSupply' = totalSupply - n /\ balances[CoGateway] >= n
        /\ initialized /\ UNCHANGED <<initialized, coins>>
    BY <1>9 DEF DecreaseSupply, Backs
  <2>2. CoGateway \in Account /\ CoGateway # This /\ CoGateway \in Others
    BY PrimeAccounts DEF Others
  <2>3. balances[CoGateway] - n \in Nat
    BY <1>1, <1>4, <2>1, <2>2
  <2>4. /\ balances' \in [Account -> Nat]
        /\ balances'[CoGateway] = balances[CoGateway] - n
        /\ \A b \in Account \ {CoGateway} : balances'[b] = balances[b]
    BY <1>1, <2>1, <2>2, <2>3
  <2>5. SumFunctionOnSet(balances', Account)
          = SumFunctionOnSet(balances, Account)
              + (balances'[CoGateway] - balances[CoGateway])
    <3>1. \A b \in Account : balances[b] \in Int /\ balances'[b] \in Int
      BY <1>1, <2>4
    <3>. QED
      BY <2>2, <2>4, <3>1, PrimeAccounts, SumUpdate
  <2>6. n =< totalSupply - balances[This]
    BY <1>1, <1>4, <2>1, <2>2, HeldByOthers
  <2>7. /\ SumFunctionOnSet(balances', Account) = totalSupply'
        /\ totalSupply' \in Nat /\ totalSupply' =< TokensMax
        /\ balances'[This] = balances[This]
    BY <1>1, <1>2, <1>4, <2>1, <2>2, <2>4, <2>5, <2>6, PrimeAccounts
  <2>8. PrimeInv'
    BY <2>1, <2>4, <2>7
  <2>. QED
    BY <2>1, <2>6, <2>7, <2>8 DEF P!Burn
<1>10. ASSUME NEW a \in Others, NEW n \in 1 .. TokensMax,
              NEW to \in Account \ {a}, Transfer(a, to, n)
       PROVE  PrimeInv' /\ [P!Next]_(P!vars)
  <2>1. /\ balances' = Moved(balances, a, to, n) /\ Backs(balances, a, n)
        /\ UNCHANGED <<initialized, totalSupply, coins>>
    BY <1>10 DEF Transfer
  <2>2. /\ balances' \in [Account -> Nat]
        /\ Exchanged(balances, balances', a, to, n)
    BY <1>1, <1>2, <1>4, <2>1, PrimeAccounts, PaidExchange
  <2>3. n =< totalSupply - balances[This]
    BY <1>1, <1>4, <2>1, HeldByOthers DEF Backs
  <2>4. CASE to = This
    <3>1. balances'[This] = balances[This] + n
      BY <2>2, <2>4 DEF Exchanged
    <3>2. PrimeInv'
      BY <1>1, <1>4, <2>1, <2>2, <3>1 DEF Exchanged
    <3>3. P!Receive(n)
      BY <2>1, <2>3, <3>1 DEF P!Receive
    <3>. QED
      BY <1>4, <3>2, <3>3 DEF P!Next
  <2>5. CASE to # This
    <3>1. balances'[This] = balances[This]
      BY <1>2, <2>2, <2>5, PrimeAccounts DEF Exchanged
    <3>2. PrimeInv'
      BY <2>1, <2>2, <3>1 DEF Exchanged
    <3>. QED
      BY <2>1, <3>1, <3>2 DEF P!vars
  <2>. QED
    BY <2>4, <2>5
<1>11. ASSUME NEW a \in Others, NEW n \in 1 .. TokensMax,
              NEW to \in Others \ {a}, TransferCoins(a, to, n)
       PROVE  PrimeInv' /\ UNCHANGED P!vars
  <2>1. /\ coins' = Moved(coins, a, to, n) /\ Backs(coins, a, n)
        /\ UNCHANGED <<initialized, balances, totalSupply>>
    BY <1>11 DEF TransferCoins
  <2>2. /\ coins' \in [Account -> Nat]
        /\ Exchanged(coins, coins', a, to, n)
    BY <1>1, <1>2, <1>4, <2>1, PaidExchange
  <2>3. coins'[This] = coins[This]
    BY <1>2, <2>2, PrimeAccounts DEF Exchanged
  <2>. QED
    BY <2>1, <2>2, <2>3 DEF Exchanged, P!vars
<1>12. CASE UNCHANGED primeVars
  BY <1>12 DEF primeVars, P!vars
<1>. QED
  BY <1>3, <1>4, <1>5, <1>6, <1>7, <1>8, <1>9, <1>10, <1>11, <1>12
     DEF PrimeNext, P!Next

LEMMA PrimeInitial ==
    ASSUME PrimeInit
    PROVE  PrimeInv /\ P!Init
<1>. USE DEF PrimeInit
<1>1. TokensMax \in Nat /\ This \in Account /\ Genesis \in Account
      /\ This # Genesis
  BY PrimeAccounts, PrimeAssumption
<1>2. PrimeTypeOK
  BY <1>1 DEF PrimeTypeOK
<1>3. SumFunctionOnSet(balances, Account) = 0
  BY PrimeAccounts, SumZero
<1>4. SumFunctionOnSet(coins, Account) = TokensMax
  <2>1. SumFunctionOnSet([a \in Account |-> 0], Account) = 0
    BY PrimeAccounts, SumZero
  <2>2. /\ \A a \in Account : coins[a] \in Int /\ [b \in Account |-> 0][a] \in Int
        /\ \A a \in Account \ {Genesis} : coins[a] = [b \in Account |-> 0][a]
        /\ coins[Genesis] = TokensMax /\ [b \in Account |-> 0][Genesis] = 0
    BY <1>1
  <2>. DEFINE zero == [b \in Account |-> 0]
  <2>3. /\ \A a \in Account : coins[a] \in Int /\ zero[a] \in Int
        /\ \A a \in Account \ {Genesis} : coins[a] = zero[a]
        /\ coins[Genesis] = TokensMax /\ zero[Genesis] = 0
        /\ SumFunctionOnSet(zero, Account) = 0
    BY <2>1, <2>2
  <2>. HIDE DEF zero
  <2>4. SumFunctionOnSet(coins, Account)
          = SumFunctionOnSet(zero, Account) + (coins[Genesis] - zero[Genesis])
    BY <1>1, <2>3, PrimeAccounts, SumUpdate
  <2>. QED
    BY <1>1, <2>3, <2>4
<1>. QED
  BY <1>1, <1>2, <1>3, <1>4 DEF PrimeInv, P!Init

LEMMA PrimeInvariant == PrimeSpec => []PrimeInv
<1>1. PrimeInv /\ [PrimeNext]_primeVars => PrimeInv'
  BY PrimeStep
<1>. QED
  BY <1>1, PrimeInitial, PTL DEF PrimeSpec

\* Neither assertion of OSTPrime can fail, whoever unwraps or wraps all that
\* others hold, and what may still be minted is covered by coins (unwrap, wrap,
\* increaseSupply).
THEOREM AssertionsNeverFail == PrimeSpec => []AssertsHold
<1>1. ASSUME PrimeInv PROVE AssertsHold
  BY <1>1, HeldByOthers DEF AssertsHold, UnwrapAssert, WrapAssert, PrimeInv
<1>. QED
  BY <1>1, PrimeInvariant, PTL

\* Every call of OSTPrime and every transfer is a step of CoinPool.
THEOREM PrimeIsCoinPool == PrimeSpec => ImplementsCoinPool
<1>1. PrimeInv /\ [PrimeNext]_primeVars => [P!Next]_(P!vars)
  BY PrimeStep
<1>2. PrimeInit => P!Init
  BY PrimeInitial
<1>. QED
  BY <1>1, <1>2, PrimeInvariant, PTL DEF PrimeSpec, ImplementsCoinPool, P!Spec

\* What CoinPool promises by itself: the coins and tokens that the contract
\* holds cover what others can unwrap and wrap and what is not minted yet.
THEOREM PoolIsCovered == P!Spec => []P!Covered
<1>. DEFINE PoolInv == P!TypeOK /\ P!Covered
<1>1. P!Init => PoolInv
  <2>. SUFFICES ASSUME P!Init PROVE PoolInv
    OBVIOUS
  <2>1. initialized \in BOOLEAN /\ ~initialized
    BY Zenon DEF P!Init
  <2>. QED
    BY <2>1 DEF P!Init, P!TypeOK, P!Covered
<1>2. PoolInv /\ [P!Next]_(P!vars) => PoolInv'
  <2>. SUFFICES ASSUME PoolInv, [P!Next]_(P!vars) PROVE PoolInv'
    OBVIOUS
  <2>. USE PrimeAssumption DEF P!TypeOK, P!Covered
  <2>1. CASE P!Fill
    BY <2>1 DEF P!Fill
  <2>2. ASSUME NEW n \in 0 .. TokensMax, P!Unwrap(n) PROVE PoolInv'
    BY <2>2 DEF P!Unwrap
  <2>3. ASSUME NEW n \in 0 .. TokensMax, P!Wrap(n) PROVE PoolInv'
    BY <2>3 DEF P!Wrap
  <2>4. ASSUME NEW n \in 0 .. TokensMax, P!Mint(n) PROVE PoolInv'
    BY <2>4 DEF P!Mint
  <2>5. ASSUME NEW n \in 0 .. TokensMax, P!Burn(n) PROVE PoolInv'
    BY <2>5 DEF P!Burn
  <2>6. ASSUME NEW n \in 0 .. TokensMax, P!Receive(n) PROVE PoolInv'
    BY <2>6 DEF P!Receive
  <2>7. CASE UNCHANGED P!vars
    BY <2>7 DEF P!vars
  <2>. QED
    BY <2>1, <2>2, <2>3, <2>4, <2>5, <2>6, <2>7 DEF P!Next
<1>3. PoolInv => P!Covered
  OBVIOUS
<1>. QED
  BY <1>1, <1>2, <1>3, PTL DEF P!Spec

-----------------------------------------------------------------------------
\* The block stores

Checkpoint == [parent : Block \cup {NoBlock}, finalised : BOOLEAN, dynasty : Nat]

StoreTypes ==
    /\ dynasties \in [Core -> Nat]
    /\ heads \in [Core -> Block \cup {NoBlock}]
    /\ reported \subseteq Block
    /\ checkpoints \in [DOMAIN checkpoints -> Checkpoint]
    /\ DOMAIN checkpoints \subseteq reported

\* No checkpoint is below the first one, so the first is never a target again;
\* every other one that is finalised is not above the head.
FinalityInv ==
    \A c \in Core :
        /\ heads[c] # NoBlock => heads[c] \in BlocksOf[c] \cap DOMAIN checkpoints
        /\ \A b \in BlocksOf[c] \cap DOMAIN checkpoints :
              /\ HeightOf[First[c]] =< HeightOf[b]
              /\ checkpoints[b].finalised =>
                    b = First[c] \/ HeightOf[b] =< HeightAt(heads[c])

FinalStep ==
    \A b \in DOMAIN checkpoints :
        checkpoints[b].finalised => checkpoints'[b] = checkpoints[b]

\* A justification moves the store of one core: by one dynasty with a new head,
\* or not at all.
Moves(c) ==
    /\ \A d \in Core \ {c} : dynasties'[d] = dynasties[d] /\ heads'[d] = heads[d]
    /\ \/ dynasties'[c] = dynasties[c] /\ heads'[c] = heads[c]
       \/ dynasties'[c] = dynasties[c] + 1

LEMMA Blocks ==
    ASSUME NEW c \in Core, NEW b \in BlocksOf[c]
    PROVE  /\ b \in Block /\ HeightOf[b] \in Nat /\ b # NoBlock
           /\ \A d \in Core : b \in BlocksOf[d] => d = c
           /\ First[c] \in BlocksOf[c] /\ HeightOf[First[c]] \in Nat
  BY BlockAssumption DEF Core, Block

LEMMA InitialStore == StoreInit => StoreTypes /\ FinalityInv
<1> SUFFICES ASSUME StoreInit PROVE StoreTypes /\ FinalityInv
  OBVIOUS
<1>1. \A c \in Core : First[c] \in BlocksOf[c] /\ First[c] \in Block
  BY BlockAssumption, Blocks
<1>2. \A b \in reported : checkpoints[b] \in Checkpoint
  BY DEF StoreInit, Checkpoint
<1>3. StoreTypes
  BY <1>1, <1>2 DEF StoreInit, StoreTypes
<1>4. ASSUME NEW c \in Core, NEW b \in BlocksOf[c] \cap DOMAIN checkpoints
      PROVE  b = First[c]
  BY <1>1, <1>4, Blocks DEF StoreInit
<1>5. FinalityInv
  BY <1>1, <1>4, Blocks DEF StoreInit, FinalityInv
<1> QED
  BY <1>3, <1>5

LEMMA JustifyStore ==
    ASSUME StoreTypes, FinalityInv,
           NEW c \in Core, NEW s \in BlocksOf[c], NEW t \in BlocksOf[c],
           JustifyInStore(c, s, t)
    PROVE  StoreTypes' /\ FinalityInv' /\ FinalStep /\ Moves(c)
<1> DEFINE finalises == (HeightOf[t] - HeightOf[s]) \div EpochLength = 1
           rises == finalises /\ HeightOf[s] > HeightAt(heads[c])
           source == [checkpoints[s] EXCEPT !.finalised = @ \/ finalises]
           target == [parent |-> s, finalised |-> FALSE, dynasty |-> dynasties'[c]]
<1>1. /\ s \in DOMAIN checkpoints /\ t \in reported /\ reported' = reported
      /\ HeightOf[t] > HeightAt(heads[c]) /\ HeightOf[t] > HeightOf[s]
  BY DEF JustifyInStore, IsSourceValid, IsTargetValid, IsAboveHead, IsCheckpoint
<1>2. /\ heads' = IF rises THEN [heads EXCEPT ![c] = s] ELSE heads
      /\ dynasties' = IF rises THEN [dynasties EXCEPT ![c] = @ + 1] ELSE dynasties
      /\ checkpoints' = [b \in DOMAIN checkpoints \cup {t} |->
                            CASE b = t -> target
                              [] b = s -> source
                              [] OTHER -> checkpoints[b]]
  BY DEF JustifyInStore
<1>3. /\ s \in Block /\ t \in Block /\ s # t
      /\ HeightOf[s] \in Nat /\ HeightOf[t] \in Nat /\ s # NoBlock
  BY <1>1, Blocks
<1> HIDE DEF finalises
<1>4. Moves(c)
  BY <1>2 DEF Moves, StoreTypes, rises
<1>5. /\ dynasties' \in [Core -> Nat]
      /\ heads' \in [Core -> Block \cup {NoBlock}]
  BY <1>2, <1>3 DEF StoreTypes
<1> HIDE DEF rises
<1>6. target \in Checkpoint
  BY <1>3, <1>5 DEF Checkpoint
<1>7. /\ checkpoints[s] \in Checkpoint
      /\ source.finalised = (checkpoints[s].finalised \/ finalises)
      /\ source \in Checkpoint
      /\ checkpoints[s].finalised => source = checkpoints[s]
  <2>1. checkpoints[s] \in Checkpoint
    BY <1>1 DEF StoreTypes
  <2>2. finalises \in BOOLEAN
    BY DEF finalises
  <2> QED
    BY <2>1, <2>2, Zenon DEF Checkpoint
<1> HIDE DEF source, target
<1>8. /\ DOMAIN checkpoints' = DOMAIN checkpoints \cup {t}
      /\ checkpoints'[t] = target /\ checkpoints'[s] = source
      /\ \A b \in DOMAIN checkpoints \ {s, t} : checkpoints'[b] = checkpoints[b]
  BY <1>1, <1>2, <1>3
<1>9. StoreTypes'
  BY <1>1, <1>2, <1>5, <1>6, <1>7, <1>8 DEF StoreTypes
<1>10. ~(t \in DOMAIN checkpoints /\ checkpoints[t].finalised)
  <2> SUFFICES ASSUME t \in DOMAIN checkpoints, checkpoints[t].finalised PROVE FALSE
    OBVIOUS
  <2>1. t = First[c] \/ HeightOf[t] =< HeightAt(heads[c])
    BY DEF FinalityInv
  <2>2. HeightOf[First[c]] =< HeightOf[s] /\ HeightAt(heads[c]) \in Nat
    BY <1>1, Blocks DEF FinalityInv, HeightAt
  <2> QED
    BY <1>1, <1>3, <2>1, <2>2
<1>11. FinalStep
  BY <1>7, <1>8, <1>10 DEF FinalStep
<1>12. FinalityInv'
  <2> SUFFICES ASSUME NEW d \in Core
               PROVE  /\ heads'[d] # NoBlock =>
                            heads'[d] \in BlocksOf[d] \cap DOMAIN checkpoints'
                      /\ \A b \in BlocksOf[d] \cap DOMAIN checkpoints' :
                            /\ HeightOf[First[d]] =< HeightOf[b]
                            /\ checkpoints'[b].finalised =>
                                  b = First[d] \/ HeightOf[b] =< HeightAt(heads'[d])
    BY DEF FinalityInv, HeightAt
  <2>1. heads'[d] = IF rises /\ d = c THEN s ELSE heads[d]
    BY <1>2 DEF StoreTypes
  <2>2. heads'[d] # NoBlock => heads'[d] \in BlocksOf[d] \cap DOMAIN checkpoints'
    BY <1>1, <1>8, <2>1 DEF FinalityInv
  <2>3. HeightAt(heads[d]) \in Nat /\ HeightAt(heads[d]) =< HeightAt(heads'[d])
    <3>1. HeightAt(heads[d]) \in Nat
      BY Blocks DEF FinalityInv, HeightAt
    <3>2. CASE rises /\ d = c
      BY <1>3, <2>1, <3>1, <3>2 DEF rises, HeightAt
    <3> QED
      BY <2>1, <3>1, <3>2
  <2>4. HeightAt(heads'[d]) \in Nat
    BY <1>3, <2>1, <2>3 DEF HeightAt
  <2>5. ASSUME NEW b \in BlocksOf[d] \cap DOMAIN checkpoints'
        PROVE  /\ HeightOf[First[d]] =< HeightOf[b]
               /\ checkpoints'[b].finalised =>
                     b = First[d] \/ HeightOf[b] =< HeightAt(heads'[d])
    <3>1. HeightOf[b] \in Nat /\ HeightOf[First[d]] \in Nat
      BY Blocks
    <3>2. CASE b = t
      <4>1. d = c /\ HeightOf[First[c]] =< HeightOf[s]
        BY <1>1, <3>2, Blocks DEF FinalityInv
      <4>2. ~checkpoints'[b].finalised
        BY <1>8, <3>2 DEF target
      <4> QED
        BY <1>1, <1>3, <3>1, <3>2, <4>1, <4>2
    <3>3. CASE b = s
      <4>1. /\ d = c /\ HeightOf[First[c]] =< HeightOf[s]
            /\ checkpoints[s].finalised =>
                  s = First[c] \/ HeightOf[s] =< HeightAt(heads[c])
        BY <1>1, <3>3, Blocks DEF FinalityInv
      <4>2. finalises => HeightOf[s] =< HeightAt(heads'[c])
        BY <1>3, <2>1, <2>3, <2>4, <4>1 DEF rises, HeightAt
      <4>3. checkpoints'[b].finalised =>
                s = First[c] \/ HeightOf[s] =< HeightAt(heads'[c])
        <5>1. checkpoints'[b].finalised => checkpoints[s].finalised \/ finalises
          BY <1>7, <1>8, <3>3, Zenon
        <5>2. HeightOf[s] =< HeightAt(heads[c]) => HeightOf[s] =< HeightAt(heads'[c])
          BY <1>3, <2>3, <2>4, <4>1
        <5> QED
          BY <4>1, <4>2, <5>1, <5>2
      <4> QED
        BY <3>3, <4>1, <4>3
    <3>4. CASE b # s /\ b # t
      BY <1>8, <2>3, <2>4, <3>1, <3>4 DEF FinalityInv
    <3> QED
      BY <3>2, <3>3, <3>4
  <2> QED
    BY <2>2, <2>5
<1> QED
  BY <1>4, <1>9, <1>11, <1>12

\* What a step of the core does to the stores.
StoreStep ==
    \/ /\ reported \subseteq reported' /\ reported' \subseteq Block
       /\ UNCHANGED <<checkpoints, heads, dynasties>>
    \/ \E c \in Core : \E s, t \in BlocksOf[c] : JustifyInStore(c, s, t)

LEMMA StoreSteps ==
    ASSUME StoreTypes, [AuxiliaryNext]_auxiliaryVars
    PROVE  StoreStep
<1> USE DEF StoreTypes
<1>1. ASSUME NEW b \in BlocksOf[Origin], NEW k, ReportOriginBlock(b, k) PROVE StoreStep
  BY <1>1, Blocks DEF StoreStep, ReportOriginBlock, Core
<1>2. ASSUME NEW b \in BlocksOf[Auxiliary], ReportAuxiliaryBlock(b) PROVE StoreStep
  BY <1>2, Blocks DEF StoreStep, ReportAuxiliaryBlock, Core
<1>3. ASSUME NEW b, ProveMosaicCore(b) PROVE StoreStep
  BY <1>3 DEF StoreStep, ProveMosaicCore, storeVars
<1>4. ASSUME NEW h, NEW b, ProveBlockOpening(h, b) PROVE StoreStep
  BY <1>4 DEF StoreStep, ProveBlockOpening, storeVars
<1>5. ASSUME NEW v, NEW c \in Core, NEW target, NEW s \in BlocksOf[c],
             NEW t \in BlocksOf[c], Vote(v, c, s, t, target)
      PROVE  StoreStep
  BY <1>5 DEF StoreStep, Vote, Justify, storeVars
<1>6. ASSUME NEW vote, Commit(vote) PROVE StoreStep
  BY <1>6 DEF StoreStep, Commit, storeVars
<1>7. CASE UNCHANGED auxiliaryVars
  BY <1>7 DEF StoreStep, auxiliaryVars, storeVars
<1> QED
  BY <1>1, <1>2, <1>3, <1>4, <1>5, <1>6, <1>7 DEF AuxiliaryNext

LEMMA StoreInductive ==
    ASSUME StoreTypes, FinalityInv, StoreStep
    PROVE  StoreTypes' /\ FinalityInv' /\ FinalStep
<1>1. CASE /\ reported \subseteq reported' /\ reported' \subseteq Block
           /\ UNCHANGED <<checkpoints, heads, dynasties>>
  BY <1>1 DEF StoreTypes, FinalityInv, FinalStep, HeightAt
<1>2. CASE \E c \in Core : \E s, t \in BlocksOf[c] : JustifyInStore(c, s, t)
  BY <1>2, JustifyStore
<1> QED
  BY <1>1, <1>2 DEF StoreStep

THEOREM StoreInvariant == AuxiliarySpec => [](StoreTypes /\ FinalityInv)
<1>1. AuxiliaryInit => StoreTypes /\ FinalityInv
  BY InitialStore DEF AuxiliaryInit
<1>2. StoreTypes /\ FinalityInv /\ [AuxiliaryNext]_auxiliaryVars
        => (StoreTypes /\ FinalityInv)'
  BY StoreSteps, StoreInductive
<1> QED
  BY <1>1, <1>2, PTL DEF AuxiliarySpec

\* No vote ever rewrites a checkpoint that is finalised, in any tree of blocks,
\* although a target may be justified again (justify_ in both stores).
THEOREM FinalisedStaysFinal == AuxiliarySpec => FinalisedIsFinal
<1>1. StoreTypes /\ FinalityInv /\ [AuxiliaryNext]_auxiliaryVars => FinalStep
  BY StoreSteps, StoreInductive
<1>2. FinalStep => [\A b \in DOMAIN checkpoints :
                      checkpoints[b].finalised =>
                          checkpoints'[b] = checkpoints[b]]_checkpoints
  BY DEF FinalStep
<1> QED
  BY <1>1, <1>2, StoreInvariant, PTL DEF AuxiliarySpec, FinalisedIsFinal

-----------------------------------------------------------------------------
\* The kernels

View == [dynasty : Nat, head : Block \cup {NoBlock}]

Transition == [kernel : Nat, dynasty : Nat, block : Block, origin : View]

KernelTypes ==
    /\ coreHeights \in [Core -> Nat]
    /\ activeKernel \in Nat \ {0} /\ provenKernel \in Nat
    /\ activationHeight \in Nat
    /\ metaBlockHeight + 1 = activeKernel /\ metaBlockHeight \in Nat
    /\ committed \in Seq(Transition)
    /\ originAt \in [reported \cap BlocksOf[Auxiliary] -> View]
    /\ openings \in [reported \cap BlocksOf[Origin] -> Nat]
    /\ storageRoots \in [DOMAIN storageRoots -> Nat]

\* A vote and a committed transition hold the kernel that was active at their
\* checkpoint, so origin is at most one meta-block ahead, and so are its blocks.
CommitInv ==
    /\ kernelHashes \in [DOMAIN checkpoints \cap BlocksOf[Auxiliary] -> 1 .. activeKernel]
    /\ \A m \in DOMAIN votesWeights :
          m.core = Auxiliary => /\ m.transition \in Transition
                                /\ m.transition.kernel =< activeKernel
    /\ Len(committed) =< activeKernel
    /\ Len(committed) = 0 \/ OpenOnOrigin \in DOMAIN Joining
    /\ \A a, b \in DOMAIN openings :
          /\ openings[a] =< OpenOnOrigin
          /\ HeightOf[a] =< HeightOf[b] => openings[a] =< openings[b]

\* A kernel after the active one is only seen on origin at a head that has
\* been finalised since the active one was activated.
RootsInv ==
    /\ \A c \in Core : coreHeights[c] =< dynasties[c]
    /\ heads[Origin] # NoBlock /\ openings[heads[Origin]] > activeKernel
          => dynasties[Origin] > coreHeights[Origin]
    /\ \A h \in DOMAIN storageRoots :
          /\ storageRoots[h] =< OpenOnOrigin
          /\ storageRoots[h] > activeKernel => dynasties[Origin] > coreHeights[Origin]

ProvenInv ==
    provenKernel # 0 =>
        /\ provenKernel = activeKernel + 1 /\ Len(committed) = activeKernel
        /\ dynasties[Auxiliary] < activationHeight
        /\ dynasties[Origin] > coreHeights[Origin]

\* Who has a weight has joined with a kernel that is active or was.
SetInv ==
    \A v \in Voter : weights[v] # 0 =>
        \/ v \in DOMAIN Initial
        \/ \E k \in DOMAIN Joining : k =< activeKernel /\ v \in DOMAIN Joining[k]

KernelInv == KernelTypes /\ CommitInv /\ RootsInv /\ ProvenInv /\ SetInv

LEMMA Cores == Origin \in Core /\ Auxiliary \in Core /\ Origin # Auxiliary
  BY BlockAssumption DEF Core

LEMMA InitialKernels == AuxiliaryInit => KernelInv
<1> SUFFICES ASSUME AuxiliaryInit PROVE KernelInv
  OBVIOUS
<1> USE DEF AuxiliaryInit, StoreInit
<1>1. /\ reported \cap BlocksOf[Auxiliary] = {First[Auxiliary]}
      /\ reported \cap BlocksOf[Origin] = {First[Origin]}
      /\ DOMAIN checkpoints \cap BlocksOf[Auxiliary] = {First[Auxiliary]}
  BY Cores, Blocks, BlockAssumption DEF Core
<1>2. KernelTypes
  BY <1>1, Cores DEF KernelTypes, View
<1>3. /\ DOMAIN votesWeights = {} /\ DOMAIN storageRoots = {}
      /\ Len(committed) = 0 /\ OpenOnOrigin = 1
      /\ kernelHashes \in [DOMAIN checkpoints \cap BlocksOf[Auxiliary] -> 1 .. activeKernel]
      /\ \A b \in DOMAIN openings : openings[b] = 1
  BY <1>1 DEF OpenOnOrigin
<1>4. CommitInv
  BY <1>3 DEF CommitInv
<1>5. RootsInv
  BY <1>3, Cores DEF RootsInv
<1>6. ProvenInv /\ SetInv
  BY DEF ProvenInv, SetInv
<1> QED
  BY <1>2, <1>4, <1>5, <1>6 DEF KernelInv

\* What the invariants say at the head of the origin store.
LEMMA OriginHead ==
    ASSUME StoreTypes, FinalityInv, KernelTypes, heads[Origin] # NoBlock
    PROVE  /\ heads[Origin] \in BlocksOf[Origin] \cap DOMAIN checkpoints
           /\ heads[Origin] \in DOMAIN openings
           /\ openings[heads[Origin]] \in Nat
<1>1. heads[Origin] \in BlocksOf[Origin] \cap DOMAIN checkpoints
  BY Cores DEF FinalityInv
<1>2. heads[Origin] \in reported
  BY <1>1 DEF StoreTypes
<1> QED
  BY <1>1, <1>2 DEF KernelTypes

LEMMA KeepReportOrigin ==
    ASSUME StoreTypes, FinalityInv, KernelInv,
           NEW b \in BlocksOf[Origin], NEW kernel \in 1 .. OpenOnOrigin,
           ReportOriginBlock(b, kernel)
    PROVE  KernelInv'
<1>1. /\ KernelTypes /\ CommitInv /\ RootsInv /\ ProvenInv /\ SetInv
      /\ b \notin reported /\ MayOpen(b, kernel)
      /\ reported' = reported \cup {b}
      /\ openings' = [o \in DOMAIN openings \cup {b} |->
                        IF o = b THEN kernel ELSE openings[o]]
      /\ UNCHANGED <<checkpoints, heads, dynasties, originAt, kernelHashes,
                     activeKernel, provenKernel, activationHeight, storageRoots,
                     votesWeights, metaBlockHeight, weights, coreHeights, committed>>
  BY DEF KernelInv, ReportOriginBlock, gatewayVars, pollVars, setVars
<1>2. /\ b \notin BlocksOf[Auxiliary] /\ HeightOf[b] \in Nat
      /\ OpenOnOrigin \in Nat /\ OpenOnOrigin' = OpenOnOrigin
      /\ kernel \in Nat /\ kernel =< OpenOnOrigin
      /\ DOMAIN openings = reported \cap BlocksOf[Origin]
      /\ \A a \in DOMAIN openings : openings[a] \in Nat /\ HeightOf[a] \in Nat
  BY <1>1, Cores, Blocks DEF KernelTypes, OpenOnOrigin
<1>3. KernelTypes'
  BY <1>1, <1>2 DEF KernelTypes
<1>4. CommitInv'
  <2>1. \A a \in DOMAIN openings' : openings'[a] =< OpenOnOrigin
    BY <1>1, <1>2 DEF CommitInv
  <2>2. ASSUME NEW a \in DOMAIN openings', NEW d \in DOMAIN openings',
               HeightOf[a] =< HeightOf[d]
        PROVE  openings'[a] =< openings'[d]
    <3>1. CASE a \in DOMAIN openings /\ d \in DOMAIN openings
      BY <1>1, <1>2, <2>2, <3>1 DEF CommitInv
    <3>2. CASE a = b \/ d = b
      BY <1>1, <1>2, <2>2, <3>2 DEF MayOpen
    <3> QED
      BY <1>1, <3>1, <3>2
  <2> QED
    BY <1>1, <1>2, <2>1, <2>2 DEF CommitInv
<1>5. RootsInv'
  <2>1. heads[Origin] # NoBlock => openings'[heads[Origin]] = openings[heads[Origin]]
    BY <1>1, <1>2, OriginHead
  <2> QED
    BY <1>1, <1>2, <2>1 DEF RootsInv
<1>6. ProvenInv' /\ SetInv'
  BY <1>1 DEF ProvenInv, SetInv
<1> QED
  BY <1>3, <1>4, <1>5, <1>6 DEF KernelInv

LEMMA KeepReportAuxiliary ==
    ASSUME StoreTypes, FinalityInv, KernelInv,
           NEW b \in BlocksOf[Auxiliary], ReportAuxiliaryBlock(b)
    PROVE  KernelInv'
<1> DEFINE view == [dynasty |-> dynasties[Origin], head |-> heads[Origin]]
<1>1. /\ KernelTypes /\ CommitInv /\ RootsInv /\ ProvenInv /\ SetInv
      /\ reported' = reported \cup {b}
      /\ originAt' = [a \in DOMAIN originAt \cup {b} |->
                        IF a = b THEN view ELSE originAt[a]]
      /\ UNCHANGED <<checkpoints, heads, dynasties, kernelHashes, activeKernel,
                     provenKernel, activationHeight, storageRoots, votesWeights,
                     metaBlockHeight, weights, coreHeights, committed, openings>>
  BY DEF KernelInv, ReportAuxiliaryBlock, gatewayVars, pollVars, setVars, externalVars
<1>2. view \in View /\ b \notin BlocksOf[Origin] /\ OpenOnOrigin' = OpenOnOrigin
  BY <1>1, Cores, Blocks DEF View, StoreTypes, OpenOnOrigin
<1> HIDE DEF view
<1>3. KernelTypes'
  BY <1>1, <1>2 DEF KernelTypes
<1>4. CommitInv' /\ RootsInv'
  BY <1>1, <1>2 DEF CommitInv, RootsInv
<1>5. ProvenInv' /\ SetInv'
  BY <1>1 DEF ProvenInv, SetInv
<1> QED
  BY <1>3, <1>4, <1>5 DEF KernelInv

LEMMA KeepProveMosaicCore ==
    ASSUME StoreTypes, FinalityInv, KernelInv,
           NEW b \in BlocksOf[Origin], ProveMosaicCore(b)
    PROVE  KernelInv'
<1>1. /\ KernelTypes /\ CommitInv /\ RootsInv /\ ProvenInv /\ SetInv
      /\ HasStateRoot(Origin, b)
      /\ storageRoots' = [h \in DOMAIN storageRoots \cup {HeightOf[b]} |->
                            IF h = HeightOf[b] THEN openings[b] ELSE storageRoots[h]]
      /\ UNCHANGED <<reported, checkpoints, heads, dynasties, originAt, kernelHashes,
                     activeKernel, provenKernel, activationHeight, votesWeights,
                     metaBlockHeight, weights, coreHeights, committed, openings>>
  BY DEF KernelInv, ProveMosaicCore, storeVars, gatewayVars, pollVars, setVars,
         externalVars
<1>2. /\ heads[Origin] # NoBlock /\ b \in DOMAIN checkpoints
      /\ HeightOf[b] =< HeightOf[heads[Origin]]
  BY <1>1 DEF HasStateRoot, IsCheckpoint
<1>3. /\ heads[Origin] \in DOMAIN openings /\ openings[heads[Origin]] \in Nat
      /\ b \in DOMAIN openings /\ openings[b] \in Nat
      /\ OpenOnOrigin' = OpenOnOrigin /\ OpenOnOrigin \in Nat /\ activeKernel \in Nat
  BY <1>1, <1>2, OriginHead DEF StoreTypes, KernelTypes, OpenOnOrigin
<1>4. openings[b] =< openings[heads[Origin]] /\ openings[b] =< OpenOnOrigin
  BY <1>1, <1>2, <1>3 DEF CommitInv
<1>5. KernelTypes' /\ CommitInv'
  BY <1>1, <1>3 DEF KernelTypes, CommitInv
<1>6. RootsInv'
  BY <1>1, <1>2, <1>3, <1>4 DEF RootsInv
<1>7. ProvenInv' /\ SetInv'
  BY <1>1 DEF ProvenInv, SetInv
<1> QED
  BY <1>5, <1>6, <1>7 DEF KernelInv

LEMMA KeepProveBlockOpening ==
    ASSUME StoreTypes, FinalityInv, KernelInv,
           NEW h \in DOMAIN storageRoots, NEW b, ProveBlockOpening(h, b)
    PROVE  KernelInv'
<1>1. /\ KernelTypes /\ CommitInv /\ RootsInv /\ ProvenInv /\ SetInv
      /\ storageRoots[h] = activeKernel + 1
      /\ activeKernel \in DOMAIN committed
      /\ provenKernel' = activeKernel + 1
      /\ activationHeight' = dynasties[Auxiliary] + 2
      /\ UNCHANGED <<reported, checkpoints, heads, dynasties, originAt, kernelHashes,
                     activeKernel, storageRoots, votesWeights, metaBlockHeight,
                     weights, coreHeights, committed, openings>>
  BY DEF KernelInv, ProveBlockOpening, storeVars, pollVars, setVars, externalVars
<1>2. /\ dynasties[Auxiliary] \in Nat /\ activeKernel \in Nat
      /\ Len(committed) \in Nat /\ DOMAIN committed = 1 .. Len(committed)
      /\ OpenOnOrigin' = OpenOnOrigin
  BY <1>1, Cores DEF StoreTypes, KernelTypes, OpenOnOrigin
<1>3. KernelTypes' /\ CommitInv' /\ RootsInv' /\ SetInv'
  BY <1>1, <1>2 DEF KernelTypes, CommitInv, RootsInv, SetInv
<1>4. dynasties[Origin] > coreHeights[Origin] /\ Len(committed) = activeKernel
  BY <1>1, <1>2 DEF RootsInv, CommitInv
<1>5. ProvenInv'
  BY <1>1, <1>2, <1>4 DEF ProvenInv
<1> QED
  BY <1>3, <1>5 DEF KernelInv

LEMMA KeepCommit ==
    ASSUME StoreTypes, FinalityInv, KernelInv, OpenOnOrigin + 1 \in DOMAIN Joining,
           NEW vote \in DOMAIN votesWeights, Commit(vote)
    PROVE  KernelInv'
<1>1. /\ KernelTypes /\ CommitInv /\ RootsInv /\ ProvenInv /\ SetInv
      /\ vote.core = Auxiliary /\ vote.transition.kernel = OpenOnOrigin
      /\ committed' = Append(committed, vote.transition)
      /\ UNCHANGED <<reported, checkpoints, heads, dynasties, originAt, kernelHashes,
                     activeKernel, provenKernel, activationHeight, storageRoots,
                     votesWeights, metaBlockHeight, weights, coreHeights, openings>>
  BY DEF KernelInv, Commit, storeVars, gatewayVars, pollVars, setVars
<1>2. vote.transition \in Transition /\ vote.transition.kernel =< activeKernel
  BY <1>1 DEF CommitInv
<1>3. /\ Len(committed) \in Nat /\ activeKernel \in Nat
      /\ committed' \in Seq(Transition) /\ Len(committed') = Len(committed) + 1
      /\ OpenOnOrigin = Len(committed) + 1 /\ OpenOnOrigin' = OpenOnOrigin + 1
  BY <1>1, <1>2 DEF KernelTypes, OpenOnOrigin
<1>4. Len(committed) < activeKernel
  BY <1>1, <1>2, <1>3
<1>5. KernelTypes'
  BY <1>1, <1>3 DEF KernelTypes
<1>6. CommitInv'
  <2>1. \A a \in DOMAIN openings : openings[a] \in Nat
    BY <1>1 DEF KernelTypes
  <2> QED
    BY <1>1, <1>3, <1>4, <2>1 DEF CommitInv
<1>7. RootsInv'
  <2>1. \A h \in DOMAIN storageRoots : storageRoots[h] \in Nat
    BY <1>1 DEF KernelTypes
  <2> QED
    BY <1>1, <1>3, <2>1 DEF RootsInv
<1>8. ProvenInv' /\ SetInv'
  BY <1>1, <1>3, <1>4 DEF ProvenInv, SetInv
<1> QED
  BY <1>5, <1>6, <1>7, <1>8 DEF KernelInv

LEMMA KeepVote ==
    ASSUME StoreTypes, FinalityInv, KernelInv,
           NEW v, NEW c \in Core, NEW target,
           NEW s \in BlocksOf[c] \cap DOMAIN checkpoints,
           NEW t \in BlocksOf[c] \cap reported,
           Vote(v, c, s, t, target)
    PROVE  KernelInv'
<1> DEFINE vote == [core |-> c, transition |-> TransitionAt(c, s),
                    source |-> s, target |-> t, targetHeight |-> target]
<1>1. /\ KernelTypes /\ CommitInv /\ RootsInv /\ ProvenInv /\ SetInv
      /\ DOMAIN votesWeights' = DOMAIN votesWeights \cup {vote}
      /\ UNCHANGED <<originAt, activationHeight, storageRoots, committed, openings>>
      /\ \/ Justify(c, s, t)
         \/ UNCHANGED <<reported, checkpoints, heads, dynasties, setVars, activeKernel,
                        provenKernel, kernelHashes>>
  BY DEF KernelInv, Vote, storeVars, externalVars
<1>2. /\ activeKernel \in Nat /\ OpenOnOrigin' = OpenOnOrigin
      /\ OpenOnOrigin = Len(committed) + 1 /\ Len(committed) \in Nat
      /\ \A b \in DOMAIN openings : openings[b] \in Nat
      /\ \A h \in DOMAIN storageRoots : storageRoots[h] \in Nat
      /\ \A d \in Core : dynasties[d] \in Nat /\ coreHeights[d] \in Nat
  BY <1>1 DEF StoreTypes, KernelTypes, OpenOnOrigin
<1>3. ASSUME NEW m \in DOMAIN votesWeights', m.core = Auxiliary
      PROVE  m.transition \in Transition /\ m.transition.kernel =< activeKernel
  <2>1. CASE m \in DOMAIN votesWeights
    BY <1>1, <1>3, <2>1 DEF CommitInv
  <2>2. CASE m = vote
    <3>1. c = Auxiliary /\ s \in reported /\ s \in Block
      BY <1>3, <2>2, Blocks DEF StoreTypes
    <3>2. /\ kernelHashes[s] \in 1 .. activeKernel /\ originAt[s] \in View
          /\ checkpoints[s].dynasty \in Nat
      BY <1>1, <3>1 DEF CommitInv, KernelTypes, StoreTypes, Checkpoint
    <3>3. m.transition = [kernel |-> kernelHashes[s], dynasty |-> checkpoints[s].dynasty,
                          block |-> s, origin |-> originAt[s]]
      BY <2>2, <3>1, Cores DEF TransitionAt
    <3> QED
      BY <1>2, <3>1, <3>2, <3>3 DEF Transition
  <2> QED
    BY <1>1, <2>1, <2>2
<1> HIDE DEF vote
<1>4. CASE UNCHANGED <<reported, checkpoints, heads, dynasties, setVars, activeKernel,
                       provenKernel, kernelHashes>>
  <2>1. KernelTypes'
    BY <1>1, <1>4 DEF KernelTypes, setVars
  <2>2. CommitInv' /\ RootsInv'
    BY <1>1, <1>2, <1>3, <1>4 DEF CommitInv, RootsInv, setVars
  <2>3. ProvenInv' /\ SetInv'
    BY <1>1, <1>4 DEF ProvenInv, SetInv, setVars
  <2> QED
    BY <2>1, <2>2, <2>3 DEF KernelInv
<1>5. CASE Justify(c, s, t)
  <2>1. /\ JustifyInStore(c, s, t) /\ Moves(c) /\ StoreTypes'
        /\ reported' = reported /\ DOMAIN checkpoints' = DOMAIN checkpoints \cup {t}
    BY <1>5, JustifyStore DEF Justify, JustifyInStore
  <2>2. \A d \in Core : dynasties'[d] \in Nat /\ dynasties'[d] >= dynasties[d]
    <3>1. \A d \in Core \ {c} : dynasties'[d] = dynasties[d]
      BY <2>1 DEF Moves
    <3>2. dynasties'[c] = dynasties[c] \/ dynasties'[c] = dynasties[c] + 1
      BY <2>1 DEF Moves
    <3> QED
      BY <1>2, <3>1, <3>2
  <2>3. CASE c = Origin
    <3>1. UNCHANGED <<setVars, activeKernel, provenKernel, kernelHashes>>
      BY <1>5, <2>3, Cores DEF Justify
    <3>2. DOMAIN checkpoints' \cap BlocksOf[Auxiliary]
            = DOMAIN checkpoints \cap BlocksOf[Auxiliary]
      BY <2>1, <2>3, Cores, Blocks
    <3>3. KernelTypes'
      BY <1>1, <2>1, <3>1 DEF KernelTypes, setVars
    <3>4. CommitInv'
      BY <1>1, <1>2, <1>3, <3>1, <3>2 DEF CommitInv
    <3>5. RootsInv'
      <4>1. \/ dynasties'[Origin] = dynasties[Origin] /\ heads'[Origin] = heads[Origin]
            \/ dynasties'[Origin] = dynasties[Origin] + 1
        BY <2>1, <2>3 DEF Moves
      <4> QED
        BY <1>1, <1>2, <2>2, <3>1, <4>1, Cores DEF RootsInv, setVars
    <3>6. dynasties'[Auxiliary] = dynasties[Auxiliary]
      BY <2>1, <2>3, Cores DEF Moves
    <3>7. ProvenInv' /\ SetInv'
      BY <1>1, <1>2, <2>2, <3>1, <3>6, Cores DEF ProvenInv, SetInv, setVars
    <3> QED
      BY <3>3, <3>4, <3>5, <3>7 DEF KernelInv
  <2>4. CASE c = Auxiliary
    <3>1. /\ ActivateKernel
          /\ kernelHashes' = [b \in DOMAIN kernelHashes \cup {t} |->
                                IF b = t THEN activeKernel' ELSE kernelHashes[b]]
          /\ dynasties'[Origin] = dynasties[Origin] /\ heads'[Origin] = heads[Origin]
          /\ dynasties'[Auxiliary] =< dynasties[Auxiliary] + 1
      BY <1>2, <1>5, <2>1, <2>4, Cores DEF Justify, Moves
    <3>2. DOMAIN checkpoints' \cap BlocksOf[Auxiliary]
            = (DOMAIN checkpoints \cap BlocksOf[Auxiliary]) \cup {t}
      BY <2>1, <2>4
    <3>3. CASE ~Activates
      <4>1. UNCHANGED <<setVars, activeKernel, provenKernel>>
        BY <3>1, <3>3 DEF ActivateKernel
      <4>2. KernelTypes'
        BY <1>1, <2>1, <4>1 DEF KernelTypes, setVars
      <4>3. activeKernel \in 1 .. activeKernel
        BY <1>1 DEF KernelTypes
      <4>4. kernelHashes' \in [DOMAIN checkpoints' \cap BlocksOf[Auxiliary]
                                  -> 1 .. activeKernel']
        BY <1>1, <3>1, <3>2, <4>1, <4>3 DEF CommitInv
      <4>5. CommitInv'
        BY <1>1, <1>2, <1>3, <4>1, <4>4 DEF CommitInv
      <4>6. RootsInv'
        BY <1>1, <1>2, <2>2, <3>1, <4>1 DEF RootsInv, setVars
      <4>7. ProvenInv' /\ SetInv'
        BY <1>1, <1>2, <2>2, <3>1, <3>3, <4>1, Cores
           DEF ProvenInv, SetInv, Activates, KernelTypes, setVars
      <4> QED
        BY <4>2, <4>5, <4>6, <4>7 DEF KernelInv
    <3>4. CASE Activates
      <4>1. /\ provenKernel = activeKernel + 1 /\ Len(committed) = activeKernel
            /\ activeKernel >= 1 /\ provenKernel \in DOMAIN Joining
        <5>1. provenKernel = activeKernel + 1 /\ Len(committed) = activeKernel
          BY <1>1, <3>4 DEF ProvenInv, Activates
        <5> QED
          BY <1>1, <1>2, <5>1 DEF KernelTypes, CommitInv
      <4>2. /\ metaBlockHeight' = metaBlockHeight + 1 /\ coreHeights' = dynasties'
            /\ weights' = [w \in Voter |->
                             IF w \in DOMAIN Joining[provenKernel]
                               THEN Joining[provenKernel][w] ELSE weights[w]]
            /\ activeKernel' = activeKernel + 1 /\ provenKernel' = 0
        BY <3>1, <3>4, <4>1 DEF ActivateKernel, UpdateMetaBlock, NewCoreHeights
      <4>3. KernelTypes'
        BY <1>1, <2>1, <4>2 DEF KernelTypes, StoreTypes
      <4>4. kernelHashes' \in [DOMAIN checkpoints' \cap BlocksOf[Auxiliary]
                                  -> 1 .. activeKernel']
        BY <1>1, <1>2, <3>1, <3>2, <4>2 DEF CommitInv
      <4>5. CommitInv'
        <5>1. \A m \in DOMAIN votesWeights' : m.core = Auxiliary =>
                 m.transition \in Transition /\ m.transition.kernel =< activeKernel'
          BY <1>2, <1>3, <4>2 DEF Transition
        <5> QED
          BY <1>1, <1>2, <4>2, <4>4, <5>1 DEF CommitInv
      <4>6. RootsInv'
        <5>1. heads[Origin] # NoBlock => openings[heads[Origin]] =< activeKernel'
          BY <1>1, <1>2, <4>1, <4>2, OriginHead DEF CommitInv
        <5>2. \A h \in DOMAIN storageRoots : storageRoots[h] =< activeKernel'
          BY <1>1, <1>2, <4>1, <4>2 DEF RootsInv
        <5> QED
          BY <1>1, <1>2, <2>2, <3>1, <4>2, <5>1, <5>2, OriginHead DEF RootsInv
      <4>7. ProvenInv'
        BY <4>2 DEF ProvenInv
      <4>8. SetInv'
        <5> SUFFICES ASSUME NEW w \in Voter, weights'[w] # 0, w \notin DOMAIN Initial
                     PROVE  \E k \in DOMAIN Joining :
                               k =< activeKernel' /\ w \in DOMAIN Joining[k]
          BY DEF SetInv
        <5>1. CASE w \in DOMAIN Joining[provenKernel]
          BY <1>2, <4>1, <4>2, <5>1
        <5>2. CASE w \notin DOMAIN Joining[provenKernel]
          <6>1. weights[w] # 0
            BY <4>2, <5>2
          <6>2. PICK k \in DOMAIN Joining : k =< activeKernel /\ w \in DOMAIN Joining[k]
            BY <1>1, <6>1 DEF SetInv
          <6> QED
            BY <1>2, <4>2, <6>2, VoterAssumption
        <5> QED
          BY <5>1, <5>2
      <4> QED
        BY <4>3, <4>5, <4>6, <4>7, <4>8 DEF KernelInv
    <3> QED
      BY <3>3, <3>4
  <2> QED
    BY <2>3, <2>4 DEF Core
<1> QED
  BY <1>1, <1>4, <1>5

LEMMA KernelInductive ==
    StoreTypes /\ FinalityInv /\ KernelInv /\ [AuxiliaryNext]_auxiliaryVars => KernelInv'
<1> SUFFICES ASSUME StoreTypes, FinalityInv, KernelInv, [AuxiliaryNext]_auxiliaryVars
             PROVE  KernelInv'
  OBVIOUS
<1>1. ASSUME NEW b \in BlocksOf[Origin], NEW kernel \in 1 .. OpenOnOrigin,
             ReportOriginBlock(b, kernel)
      PROVE  KernelInv'
  BY <1>1, KeepReportOrigin
<1>2. ASSUME NEW b \in BlocksOf[Auxiliary], ReportAuxiliaryBlock(b) PROVE KernelInv'
  BY <1>2, KeepReportAuxiliary
<1>3. ASSUME NEW b \in BlocksOf[Origin], ProveMosaicCore(b) PROVE KernelInv'
  BY <1>3, KeepProveMosaicCore
<1>4. ASSUME NEW h \in DOMAIN storageRoots, NEW b \in BlocksOf[Auxiliary],
             ProveBlockOpening(h, b)
      PROVE  KernelInv'
  BY <1>4, KeepProveBlockOpening
<1>5. ASSUME NEW v \in Voter, NEW c \in Core, NEW target \in Targets,
             NEW s \in BlocksOf[c] \cap DOMAIN checkpoints,
             NEW t \in BlocksOf[c] \cap reported, Vote(v, c, s, t, target)
      PROVE  KernelInv'
  BY <1>5, KeepVote
<1>6. ASSUME OpenOnOrigin + 1 \in DOMAIN Joining,
             NEW vote \in DOMAIN votesWeights, Commit(vote)
      PROVE  KernelInv'
  BY <1>6, KeepCommit
<1>7. CASE UNCHANGED auxiliaryVars
  <2>1. UNCHANGED <<reported, checkpoints, heads, dynasties, originAt, kernelHashes,
                    activeKernel, provenKernel, activationHeight, storageRoots,
                    votesWeights, metaBlockHeight, weights, coreHeights, committed,
                    openings>>
    BY <1>7 DEF auxiliaryVars, storeVars, gatewayVars, pollVars, setVars, externalVars
  <2>2. KernelTypes' /\ CommitInv'
    BY <2>1 DEF KernelInv, KernelTypes, CommitInv, OpenOnOrigin
  <2>3. RootsInv' /\ ProvenInv' /\ SetInv'
    BY <2>1 DEF KernelInv, RootsInv, ProvenInv, SetInv, OpenOnOrigin
  <2> QED
    BY <2>2, <2>3 DEF KernelInv
<1> QED
  BY <1>1, <1>2, <1>3, <1>4, <1>5, <1>6, <1>7 DEF AuxiliaryNext

\* Whatever order blocks are reported, links are voted for and meta-blocks are
\* committed in, a proven kernel is activated at its height and the polling place
\* does not refuse it (justify of the auxiliary store, updateMetaBlock).
THEOREM ActivationsAreNotMissed == AuxiliarySpec => []ActivationIsNotMissed
<1>1. AuxiliaryInit => KernelInv
  BY InitialKernels
<1>2. StoreTypes /\ KernelInv => ActivationIsNotMissed
  <2> SUFFICES ASSUME StoreTypes, KernelInv PROVE ActivationIsNotMissed
    OBVIOUS
  <2> USE DEF KernelInv
  <2>1. metaBlockHeight + 1 = activeKernel
    BY DEF KernelTypes
  <2>2. ASSUME provenKernel # 0
        PROVE  /\ provenKernel = activeKernel + 1
               /\ dynasties[Auxiliary] < activationHeight
               /\ dynasties[Origin] > coreHeights[Origin]
               /\ activationHeight > coreHeights[Auxiliary]
               /\ \A v \in DOMAIN Joining[provenKernel] : weights[v] = 0
    <3>1. /\ provenKernel = activeKernel + 1 /\ Len(committed) = activeKernel
          /\ dynasties[Auxiliary] < activationHeight
          /\ dynasties[Origin] > coreHeights[Origin]
      BY <2>2 DEF ProvenInv
    <3>2. activationHeight > coreHeights[Auxiliary]
      BY <3>1, Cores DEF RootsInv, KernelTypes, StoreTypes
    <3>3. provenKernel \in DOMAIN Joining
      BY <3>1 DEF KernelTypes, CommitInv, OpenOnOrigin
    <3>4. ASSUME NEW v \in DOMAIN Joining[provenKernel] PROVE weights[v] = 0
      <4>1. v \in Voter \ DOMAIN Initial
        BY <3>3, VoterAssumption
      <4>2. ~\E k \in DOMAIN Joining : k =< activeKernel /\ v \in DOMAIN Joining[k]
        <5>1. \A k \in DOMAIN Joining \ {provenKernel} : v \notin DOMAIN Joining[k]
          BY <3>3, VoterAssumption
        <5> QED
          BY <3>1, <5>1 DEF KernelTypes
      <4> QED
        BY <4>1, <4>2 DEF SetInv
    <3> QED
      BY <3>1, <3>2, <3>4
  <2> QED
    BY <2>1, <2>2 DEF ActivationIsNotMissed
<1> QED
  BY <1>1, <1>2, KernelInductive, StoreInvariant, PTL DEF AuxiliarySpec

-----------------------------------------------------------------------------
\* The votes

\* Whoever votes for a target height cannot do so again, so a vote has the
\* weights of validators who have reached its height: those they had when they
\* voted, which they still have.
Supporters(m) == {v \in Voter : targetHeights[v] >= m.targetHeight}

WeightInv ==
    /\ weights \in [Voter -> Nat]
    /\ targetHeights \in [Voter -> Nat]
    /\ totalWeights[metaBlockHeight] = SumFunctionOnSet(weights, Voter)
    /\ \A m \in DOMAIN votesWeights :
          /\ m.targetHeight \in Nat
          /\ votesWeights[m] \in Nat
          /\ votesWeights[m] =< SumFunctionOnSet(weights, Supporters(m))

\* The validators change in a vote that activates the next kernel, if at all.
Activation ==
    /\ activeKernel' = activeKernel + 1
    /\ activeKernel + 1 \in DOMAIN Joining
    /\ UpdateMetaBlock(Joining[activeKernel + 1])

SameSet == UNCHANGED <<activeKernel, metaBlockHeight, weights, totalWeights>>

LEMMA VoteKind ==
    ASSUME KernelInv, NEW v, NEW c \in Core, NEW s, NEW t, NEW target,
           Vote(v, c, s, t, target)
    PROVE  SameSet \/ Activation
<1>1. \/ Justify(c, s, t)
      \/ UNCHANGED <<setVars, activeKernel>>
  BY DEF Vote
<1>2. ASSUME UNCHANGED <<setVars, activeKernel>> PROVE SameSet
  BY <1>2 DEF setVars, SameSet
<1>3. CASE Justify(c, s, t)
  <2>1. CASE c = Auxiliary /\ Activates
    <3>1. /\ UpdateMetaBlock(Joining[provenKernel])
          /\ activeKernel' = provenKernel
      BY <1>3, <2>1 DEF Justify, ActivateKernel
    <3>2. provenKernel = activeKernel + 1 /\ Len(committed) = activeKernel
      BY <2>1 DEF Activates, KernelInv, ProvenInv
    <3>3. activeKernel + 1 \in DOMAIN Joining
      BY <3>2 DEF KernelInv, KernelTypes, CommitInv, OpenOnOrigin
    <3> QED
      BY <3>1, <3>2, <3>3 DEF Activation
  <2>2. CASE ~(c = Auxiliary /\ Activates)
    BY <1>2, <1>3, <2>2 DEF Justify, ActivateKernel
  <2> QED
    BY <2>1, <2>2
<1> QED
  BY <1>1, <1>2, <1>3

LEMMA Joins ==
    ASSUME NEW k \in DOMAIN Joining
    PROVE  /\ DOMAIN Joining[k] \subseteq Voter
           /\ \A v \in DOMAIN Joining[k] : Joining[k][v] \in Nat \ {0}
<1>1. /\ DOMAIN Joining[k] \subseteq Voter \ DOMAIN Initial
      /\ Joining[k] \in [DOMAIN Joining[k] -> Nat \ {0}]
  BY VoterAssumption
<1> QED
  BY <1>1

\* Weights are only added, and so is the total.
LEMMA ActivationAdds ==
    ASSUME WeightInv, KernelTypes, Activation
    PROVE  /\ weights' \in [Voter -> Nat]
           /\ \A v \in Voter : weights[v] =< weights'[v]
           /\ totalWeights'[metaBlockHeight'] = SumFunctionOnSet(weights', Voter)
<1> DEFINE joining == Joining[activeKernel + 1]
           known == DOMAIN joining
<1>1. /\ \A v \in known : weights[v] = 0
      /\ weights' = [v \in Voter |-> IF v \in known THEN joining[v] ELSE weights[v]]
      /\ metaBlockHeight' = metaBlockHeight + 1
      /\ totalWeights' = [h \in 0 .. metaBlockHeight + 1 |->
                              IF h > metaBlockHeight THEN TotalAfter(joining)
                                                     ELSE totalWeights[h]]
  BY DEF Activation, UpdateMetaBlock, MayUpdate
<1>2. known \subseteq Voter /\ \A v \in known : joining[v] \in Nat \ {0}
  BY Joins DEF Activation
<1>3. weights \in [Voter -> Nat] /\ metaBlockHeight \in Nat
  BY DEF WeightInv, KernelTypes
<1>4. totalWeights'[metaBlockHeight'] = TotalAfter(joining)
  <2>1. /\ metaBlockHeight + 1 \in 0 .. metaBlockHeight + 1
        /\ metaBlockHeight + 1 > metaBlockHeight
    BY <1>3
  <2> QED
    BY <1>1, <2>1
<1>5. TotalAfter(joining)
        = SumFunctionOnSet(weights, Voter) + SumFunctionOnSet(joining, known)
  BY DEF TotalAfter, SumOf, WeightInv
<1> HIDE DEF joining, known
<1>6. weights' \in [Voter -> Nat]
  BY <1>1, <1>2, <1>3
<1>7. /\ \A v \in Voter : weights[v] \in Int
      /\ \A v \in known : /\ weights[v] = 0 /\ joining[v] \in Int
                           /\ weights'[v] = joining[v]
      /\ \A v \in Voter \ known : weights'[v] = weights[v]
  BY <1>1, <1>2, <1>3
<1>8. SumFunctionOnSet(weights', Voter)
        = SumFunctionOnSet(weights, Voter) + SumFunctionOnSet(joining, known)
  BY <1>2, <1>7, VoterAssumption, SumJoin
<1>9. \A v \in Voter : weights[v] =< weights'[v]
  BY <1>2, <1>3, <1>7
<1> QED
  BY <1>4, <1>5, <1>6, <1>8, <1>9

LEMMA SupportersFinite ==
    ASSUME NEW m
    PROVE  Supporters(m) \subseteq Voter /\ IsFiniteSet(Supporters(m))
<1>1. Supporters(m) \subseteq Voter
  BY DEF Supporters
<1> QED
  BY <1>1, VoterAssumption, FS_Subset

\* A vote keeps what the others have and adds one weight to its own.
LEMMA VoteCounts ==
    ASSUME WeightInv, KernelInv, NEW v \in Voter, NEW c \in Core, NEW s, NEW t,
           NEW target \in Nat, Vote(v, c, s, t, target)
    PROVE  WeightInv'
<1>0. PICK vote : vote = [core |-> c, transition |-> TransitionAt(c, s),
                          source |-> s, target |-> t, targetHeight |-> target]
  OBVIOUS
<1>1. /\ weights' \in [Voter -> Nat]
      /\ \A w \in Voter : weights[w] =< weights'[w]
      /\ totalWeights'[metaBlockHeight'] = SumFunctionOnSet(weights', Voter)
  <2>1. CASE SameSet
    BY <2>1 DEF SameSet, WeightInv
  <2>2. CASE Activation
    BY <2>2, ActivationAdds DEF KernelInv
  <2> QED
    BY <2>1, <2>2, VoteKind
<1>2. /\ targetHeights' = [targetHeights EXCEPT ![v] = target]
      /\ target > targetHeights[v]
      /\ votesWeights' = [m \in DOMAIN votesWeights \cup {vote} |->
                             IF m = vote THEN Weight(vote) + weights[v]
                                         ELSE votesWeights[m]]
      /\ vote.targetHeight = target
  BY <1>0 DEF Vote, MayVote
<1>3. /\ weights \in [Voter -> Nat] /\ targetHeights \in [Voter -> Nat]
      /\ \A w \in Voter : targetHeights[w] \in Nat /\ weights'[w] \in Nat
                           /\ weights[w] \in Int
  BY <1>1 DEF WeightInv
<1>4. targetHeights' \in [Voter -> Nat]
  BY <1>2, <1>3
<1>5. ASSUME NEW m, m.targetHeight \in Nat
      PROVE  Supporters(m) \subseteq Supporters(m)'
  BY <1>2, <1>3, <1>5 DEF Supporters
<1>6. ASSUME NEW D \in SUBSET Voter, NEW m, D \subseteq Supporters(m)'
      PROVE  SumFunctionOnSet(weights, D)
               =< SumFunctionOnSet(weights', Supporters(m)')
  <2>1. IsFiniteSet(Supporters(m)') /\ Supporters(m)' \subseteq Voter
    <3>1. Supporters(m)' \subseteq Voter
      BY DEF Supporters
    <3> QED
      BY <3>1, VoterAssumption, FS_Subset
  <2>2. /\ \A w \in Supporters(m)' : weights'[w] \in Nat
        /\ \A w \in D : weights[w] \in Int /\ weights[w] =< weights'[w]
    BY <1>1, <1>3, <2>1
  <2> QED
    BY <1>6, <2>1, <2>2, SumMonotone
<1>7. ASSUME NEW m \in DOMAIN votesWeights, m # vote
      PROVE  /\ m.targetHeight \in Nat /\ votesWeights'[m] \in Nat
             /\ votesWeights'[m] =< SumFunctionOnSet(weights', Supporters(m)')
  <2>1. /\ m.targetHeight \in Nat /\ votesWeights[m] \in Nat
        /\ votesWeights[m] =< SumFunctionOnSet(weights, Supporters(m))
        /\ votesWeights'[m] = votesWeights[m]
    BY <1>2, <1>7 DEF WeightInv
  <2>2. SumFunctionOnSet(weights, Supporters(m))
          =< SumFunctionOnSet(weights', Supporters(m)')
    BY <1>5, <1>6, <2>1, SupportersFinite
  <2>3. /\ SumFunctionOnSet(weights, Supporters(m)) \in Nat
        /\ SumFunctionOnSet(weights', Supporters(m)') \in Nat
    <3>1. /\ Supporters(m)' \subseteq Voter /\ IsFiniteSet(Supporters(m)')
          /\ Supporters(m) \subseteq Voter /\ IsFiniteSet(Supporters(m))
      <4>1. Supporters(m)' \subseteq Voter
        BY DEF Supporters
      <4> QED
        BY <4>1, SupportersFinite, VoterAssumption, FS_Subset
    <3>2. /\ \A w \in Supporters(m)' : weights'[w] \in Nat
          /\ \A w \in Supporters(m) : weights[w] \in Nat
      BY <1>1, <1>3, <3>1
    <3> QED
      BY <3>1, <3>2, SumNat
  <2> QED
    BY <2>1, <2>2, <2>3
<1>8. /\ vote.targetHeight \in Nat /\ votesWeights'[vote] \in Nat
      /\ votesWeights'[vote] =< SumFunctionOnSet(weights', Supporters(vote)')
  <2> DEFINE before == Supporters(vote)
             D == before \cup {v}
  <2>1. /\ v \notin before /\ before \subseteq Voter /\ IsFiniteSet(before)
        /\ D \subseteq Supporters(vote)' /\ D \in SUBSET Voter
    <3>1. before \subseteq Voter /\ IsFiniteSet(before)
      BY SupportersFinite
    <3>2. v \notin before
      BY <1>2, <1>3 DEF Supporters
    <3>3. before \subseteq Supporters(vote)'
      BY <1>2, <1>5
    <3>4. v \in Supporters(vote)'
      BY <1>2, <1>3, <1>4 DEF Supporters
    <3> HIDE DEF before
    <3> QED
      BY <3>1, <3>2, <3>3, <3>4
  <2>2. votesWeights'[vote] = Weight(vote) + weights[v]
    BY <1>2
  <2>3. SumFunctionOnSet(weights, before) \in Nat
    <3>1. \A w \in before : weights[w] \in Nat
      BY <1>3, <2>1
    <3> QED
      BY <2>1, <3>1, SumNat
  <2>4. Weight(vote) \in Nat /\ Weight(vote) =< SumFunctionOnSet(weights, before)
    <3>1. CASE vote \in DOMAIN votesWeights
      BY <3>1 DEF Weight, WeightInv
    <3>2. CASE vote \notin DOMAIN votesWeights
      BY <2>3, <3>2 DEF Weight
    <3> QED
      BY <3>1, <3>2
  <2> HIDE DEF before
  <2>5. SumFunctionOnSet(weights, D)
          = SumFunctionOnSet(weights, before) + weights[v]
    <3>1. \A w \in before \cup {v} : weights[w] \in Int
      BY <1>3, <2>1
    <3> QED
      BY <2>1, <3>1, SumAdd
  <2>6. SumFunctionOnSet(weights, D)
          =< SumFunctionOnSet(weights', Supporters(vote)')
    BY <1>6, <2>1
  <2>7. SumFunctionOnSet(weights', Supporters(vote)') \in Int
    <3>1. Supporters(vote)' \subseteq Voter
      BY DEF Supporters
    <3>2. IsFiniteSet(Supporters(vote)')
      BY <3>1, VoterAssumption, FS_Subset
    <3>3. \A w \in Supporters(vote)' : weights'[w] \in Int
      BY <1>3, <3>1
    <3> QED
      BY <3>2, <3>3, SumInt
  <2>8. weights[v] \in Nat
    BY <1>3
  <2> QED
    BY <1>2, <2>2, <2>3, <2>4, <2>5, <2>6, <2>7, <2>8
<1>9. ASSUME NEW m \in DOMAIN votesWeights'
      PROVE  /\ m.targetHeight \in Nat /\ votesWeights'[m] \in Nat
             /\ votesWeights'[m] =< SumFunctionOnSet(weights', Supporters(m)')
  <2>1. m \in DOMAIN votesWeights \/ m = vote
    BY <1>2
  <2> QED
    BY <1>7, <1>8, <2>1
<1> QED
  BY <1>1, <1>4, <1>9 DEF WeightInv

\* Only votes change the validators and the votes.
LEMMA SetSteps ==
    ASSUME StoreTypes, FinalityInv, KernelInv, [AuxiliaryNext]_auxiliaryVars
    PROVE  \/ SameSet /\ UNCHANGED pollVars
           \/ /\ SameSet \/ Activation
              /\ \E v \in Voter, c \in Core, target \in Nat :
                    \E s, t : Vote(v, c, s, t, target)
<1>1. ASSUME NEW v \in Voter, NEW c \in Core, NEW target \in Targets, NEW s, NEW t,
             Vote(v, c, s, t, target)
      PROVE  /\ SameSet \/ Activation
             /\ \E w \in Voter, d \in Core, goal \in Nat :
                   \E x, y : Vote(w, d, x, y, goal)
  <2>1. target \in Nat
    BY VoterAssumption DEF Targets
  <2> QED
    BY <1>1, <2>1, VoteKind
<1>2. ASSUME UNCHANGED <<activeKernel, pollVars, setVars>>
      PROVE  SameSet /\ UNCHANGED pollVars
  BY <1>2 DEF SameSet, setVars
<1>3. ASSUME NEW b, NEW kernel, ReportOriginBlock(b, kernel)
      PROVE  UNCHANGED <<activeKernel, pollVars, setVars>>
  BY <1>3 DEF ReportOriginBlock, gatewayVars
<1>4. ASSUME NEW b, ReportAuxiliaryBlock(b)
      PROVE  UNCHANGED <<activeKernel, pollVars, setVars>>
  BY <1>4 DEF ReportAuxiliaryBlock, gatewayVars
<1>5. ASSUME NEW b, ProveMosaicCore(b)
      PROVE  UNCHANGED <<activeKernel, pollVars, setVars>>
  BY <1>5 DEF ProveMosaicCore, gatewayVars
<1>6. ASSUME NEW h, NEW b, ProveBlockOpening(h, b)
      PROVE  UNCHANGED <<activeKernel, pollVars, setVars>>
  BY <1>6 DEF ProveBlockOpening
<1>7. ASSUME NEW vote, Commit(vote)
      PROVE  UNCHANGED <<activeKernel, pollVars, setVars>>
  BY <1>7 DEF Commit, gatewayVars
<1>8. ASSUME UNCHANGED auxiliaryVars
      PROVE  UNCHANGED <<activeKernel, pollVars, setVars>>
  BY <1>8 DEF auxiliaryVars, gatewayVars
<1> QED
  BY <1>1, <1>2, <1>3, <1>4, <1>5, <1>6, <1>7, <1>8 DEF AuxiliaryNext

LEMMA InitialWeights == AuxiliaryInit => WeightInv
<1> SUFFICES ASSUME AuxiliaryInit PROVE WeightInv
  OBVIOUS
<1>1. /\ weights = [v \in Voter |-> IF v \in DOMAIN Initial THEN Initial[v] ELSE 0]
      /\ targetHeights = [v \in Voter |-> 0]
      /\ totalWeights[metaBlockHeight] = SumFunctionOnSet(Initial, DOMAIN Initial)
      /\ DOMAIN votesWeights = {}
  BY DEF AuxiliaryInit, SumOf
<1>2. /\ DOMAIN Initial \subseteq Voter /\ IsFiniteSet(Voter)
      /\ \A v \in DOMAIN Initial : Initial[v] \in Nat
  BY VoterAssumption
<1>3. /\ \A v \in DOMAIN Initial : Initial[v] \in Int /\ weights[v] = Initial[v]
      /\ \A v \in Voter \ DOMAIN Initial : weights[v] = 0
  BY <1>1, <1>2
<1>4. SumFunctionOnSet(weights, Voter) = SumFunctionOnSet(Initial, DOMAIN Initial)
  BY <1>2, <1>3, SumExtend
<1>5. weights \in [Voter -> Nat] /\ targetHeights \in [Voter -> Nat]
  BY <1>1, <1>2
<1> QED
  BY <1>1, <1>4, <1>5 DEF WeightInv

LEMMA WeightInductive ==
    StoreTypes /\ FinalityInv /\ KernelInv /\ WeightInv
        /\ [AuxiliaryNext]_auxiliaryVars => WeightInv'
<1> SUFFICES ASSUME StoreTypes, FinalityInv, KernelInv, WeightInv,
                    [AuxiliaryNext]_auxiliaryVars
             PROVE  WeightInv'
  OBVIOUS
<1>1. CASE SameSet /\ UNCHANGED pollVars
  BY <1>1 DEF SameSet, pollVars, WeightInv, Supporters
<1>2. ASSUME NEW v \in Voter, NEW c \in Core, NEW target \in Nat, NEW s, NEW t,
             Vote(v, c, s, t, target)
      PROVE  WeightInv'
  BY <1>2, VoteCounts
<1> QED
  BY <1>1, <1>2, SetSteps

LEMMA WeightInvariant == AuxiliarySpec => []WeightInv
BY InitialKernels, InitialWeights, KernelInductive, WeightInductive,
   StoreInvariant, PTL DEF AuxiliarySpec

\* However validators place their votes, with whatever heights and over any
\* number of meta-blocks, none gets more than the weight of all of them, each
\* counted once (vote, storeVote, updateMetaBlock of PollingPlace).
THEOREM VotesStayWithinTotal == AuxiliarySpec => []VotesWithinTotal
<1>1. WeightInv => VotesWithinTotal
  <2> SUFFICES ASSUME WeightInv, NEW m \in DOMAIN votesWeights
               PROVE  votesWeights[m] =< totalWeights[metaBlockHeight]
    BY DEF VotesWithinTotal
  <2>1. /\ votesWeights[m] \in Nat
        /\ votesWeights[m] =< SumFunctionOnSet(weights, Supporters(m))
        /\ totalWeights[metaBlockHeight] = SumFunctionOnSet(weights, Voter)
    BY DEF WeightInv
  <2>2. \A v \in Voter : weights[v] \in Nat
    BY DEF WeightInv
  <2>3. /\ Supporters(m) \subseteq Voter /\ IsFiniteSet(Voter)
        /\ \A v \in Supporters(m) : weights[v] \in Int /\ weights[v] =< weights[v]
    BY <2>2, SupportersFinite, VoterAssumption
  <2>4. SumFunctionOnSet(weights, Supporters(m)) =< SumFunctionOnSet(weights, Voter)
    BY <2>2, <2>3, SumMonotone
  <2>5. /\ SumFunctionOnSet(weights, Supporters(m)) \in Int
        /\ SumFunctionOnSet(weights, Voter) \in Int
    BY <2>2, <2>3, SupportersFinite, SumInt
  <2> QED
    BY <2>1, <2>4, <2>5
<1> QED
  BY <1>1, WeightInvariant, PTL

\* ValidatorSet takes its sums like the cores.
LEMMA SameSums ==
    /\ \A f : AuxiliarySet!SumOf(f) = SumOf(f)
    /\ \A f : OriginSet!SumOf(f) = SumOf(f)
BY DEF AuxiliarySet!SumOf, AuxiliarySet!SumFunctionOnSet,
       AuxiliarySet!FoldFunctionOnSet, AuxiliarySet!MapThenFoldSet,
       OriginSet!SumOf, OriginSet!SumFunctionOnSet,
       OriginSet!FoldFunctionOnSet, OriginSet!MapThenFoldSet,
       SumOf, SumFunctionOnSet, FoldFunctionOnSet, MapThenFoldSet

\* The polling place changes its validators only as a kernel is activated, by
\* exactly those the kernel announces, and always knows their weight.
THEOREM AuxiliaryKeepsValidatorSet ==
    AuxiliarySpec => AuxiliaryImplementsValidatorSet
<1> DEFINE total == totalWeights[metaBlockHeight]
           updates == Joining[activeKernel]
<1>1. ASSUME AuxiliaryInit PROVE AuxiliarySet!Init
  <2>1. WeightInv /\ activeKernel = 1 /\ updates = AuxiliarySet!Empty
    BY <1>1, InitialWeights, VoterAssumption DEF AuxiliaryInit, AuxiliarySet!Empty
  <2>2. SumOf(weights) = SumFunctionOnSet(weights, Voter)
    BY <2>1 DEF WeightInv, SumOf
  <2>3. weights \in [Voter -> Nat] /\ total = AuxiliarySet!SumOf(weights)
    BY <2>1, <2>2, SameSums DEF WeightInv
  <2> QED
    BY <2>1, <2>3 DEF AuxiliarySet!Init
<1>2. ASSUME StoreTypes, FinalityInv, KernelInv, [AuxiliaryNext]_auxiliaryVars
      PROVE  \/ AuxiliarySet!Next
             \/ UNCHANGED <<activeKernel, weights, total, updates>>
  <2>1. ASSUME Activation PROVE AuxiliarySet!Open
    <3> DEFINE joining == Joining[activeKernel + 1]
    <3>1. /\ activeKernel' = activeKernel + 1 /\ updates' = joining
          /\ \A v \in DOMAIN joining : joining[v] > 0 /\ weights[v] = 0
          /\ weights' = [v \in Voter |-> IF v \in DOMAIN joining THEN joining[v]
                                                              ELSE weights[v]]
      BY <2>1 DEF Activation, UpdateMetaBlock, MayUpdate
    <3>2. total' = total + SumOf(joining)
      <4>1. /\ metaBlockHeight' = metaBlockHeight + 1
            /\ totalWeights' = [h \in 0 .. metaBlockHeight + 1 |->
                                   IF h > metaBlockHeight THEN TotalAfter(joining)
                                                          ELSE totalWeights[h]]
        BY <2>1 DEF Activation, UpdateMetaBlock
      <4>2. /\ metaBlockHeight + 1 \in 0 .. metaBlockHeight + 1
            /\ metaBlockHeight + 1 > metaBlockHeight
        BY <1>2 DEF KernelInv, KernelTypes
      <4> QED
        BY <4>1, <4>2 DEF TotalAfter
    <3>3. weights' = AuxiliarySet!Joined(weights, updates')
      BY <3>1 DEF AuxiliarySet!Joined
    <3>4. total' = total + AuxiliarySet!SumOf(updates')
      BY <3>1, <3>2, SameSums
    <3> QED
      BY <3>1, <3>3, <3>4 DEF AuxiliarySet!Open
  <2>2. ASSUME SameSet
        PROVE  UNCHANGED <<activeKernel, weights, total, updates>>
    BY <2>2 DEF SameSet
  <2> QED
    BY <1>2, <2>1, <2>2, SetSteps DEF AuxiliarySet!Next
<1>3. ASSUME StoreTypes, FinalityInv, KernelInv, [AuxiliaryNext]_auxiliaryVars
      PROVE  [AuxiliarySet!Next]_<<activeKernel, weights, total, updates>>
  BY <1>2, <1>3
<1> QED
  BY <1>1, <1>3, InitialKernels, KernelInductive, StoreInvariant, PTL
     DEF AuxiliarySpec, AuxiliaryImplementsValidatorSet, AuxiliarySet!Spec

-----------------------------------------------------------------------------
\* The core on origin

\* The weight of some validators at a height.
WeightOf(h, D) == SumOf([v \in D |-> ValidatorWeightAtHeight(h, v)])

\* A vote is counted with the weight at the height open then, which is not more
\* than the weight later.
SealInv ==
    \A t \in Proposed :
        /\ seals[t].validators \subseteq Validator
        /\ seals[t].totalVoteWeight \in Nat
        /\ seals[t].totalVoteWeight
              =< WeightOf(stakeHeight, seals[t].validators)

OriginTypes ==
    /\ stakes \in [Validator -> Nat] /\ startingHeights \in [Validator -> Nat]
    /\ stakeHeight \in Nat /\ head.kernel.height \in Nat
    /\ openKernel.height = stakeHeight
    /\ stakeHeight = head.kernel.height + 1
    /\ isInitialized \/ (head.kernel.height = 0 /\ \A v \in Validator : stakes[v] = 0)
    /\ head.kernel.height > 0 => head.transition \in Proposed
    /\ seals = [t \in Proposed |-> seals[t]]

OriginInv == OriginTypes /\ SealInv /\ CommittedByMajority

LEMMA WeightsAreNat ==
    ASSUME OriginTypes, NEW h \in Nat, NEW D \in SUBSET Validator
    PROVE  /\ \A v \in Validator : ValidatorWeightAtHeight(h, v) \in Nat
           /\ IsFiniteSet(D)
           /\ WeightOf(h, D) \in Nat
<1>1. \A v \in Validator : ValidatorWeightAtHeight(h, v) \in Nat
  BY DEF OriginTypes, ValidatorWeightAtHeight
<1>2. IsFiniteSet(D)
  BY OriginAssumption, FS_Subset
<1> DEFINE w == [v \in D |-> ValidatorWeightAtHeight(h, v)]
<1>3. DOMAIN w = D /\ \A v \in D : w[v] \in Nat
  BY <1>1
<1> HIDE DEF w
<1>4. SumFunctionOnSet(w, D) \in Nat
  BY <1>2, <1>3, SumNat
<1> QED
  BY <1>1, <1>2, <1>3, <1>4 DEF WeightOf, SumOf, w

\* More validators with more weight have more of it.
LEMMA WeightsGrow ==
    ASSUME NEW f, NEW g, DOMAIN f \subseteq DOMAIN g, DOMAIN g \subseteq Validator,
           \A v \in DOMAIN f : f[v] \in Nat /\ f[v] =< g[v],
           \A v \in DOMAIN g : g[v] \in Nat
    PROVE  SumOf(f) =< SumOf(g)
<1>1. IsFiniteSet(DOMAIN g)
  BY OriginAssumption, FS_Subset
<1>2. \A v \in DOMAIN f : f[v] \in Int /\ f[v] =< g[v]
  OBVIOUS
<1>3. SumFunctionOnSet(f, DOMAIN f) =< SumFunctionOnSet(g, DOMAIN g)
  BY <1>1, <1>2, SumMonotone
<1> QED
  BY <1>3 DEF SumOf

\* Two thirds of a weight, rounded up, are two thirds at least.
LEMMA SuperMajority ==
    ASSUME NEW total \in Nat
    PROVE  /\ RequiredWeight(total) \in Nat
           /\ 3 * RequiredWeight(total) >= 2 * total
<1> DEFINE double == total * 2
<1>1. double \in Nat /\ double = 2 * total
  OBVIOUS
<1> HIDE DEF double
<1>2. /\ double - (double % 3) = 3 * (double \div 3)
      /\ double % 3 \in 0 .. 2
      /\ double \div 3 \in Nat
  BY <1>1
<1>3. RequiredWeight(total)
        = (double \div 3) + (IF double % 3 > 0 THEN 1 ELSE 0)
  BY DEF RequiredWeight, double
<1> QED
  BY <1>1, <1>2, <1>3

\* Nothing can be deposited or committed before the founding stakes are given.
LEMMA Founded ==
    ASSUME OriginTypes, AboveMinimumWeight
    PROVE  isInitialized
<1> SUFFICES ASSUME ~isInitialized PROVE FALSE
  OBVIOUS
<1> DEFINE w == [v \in Validator |-> ValidatorWeightAtHeight(stakeHeight, v)]
<1>1. DOMAIN w = Validator /\ \A v \in Validator : w[v] = 0
  BY DEF OriginTypes, ValidatorWeightAtHeight
<1>2. SumOf(w) >= MinimumWeight
  BY DEF AboveMinimumWeight, TotalWeightAtHeight
<1> HIDE DEF w
<1>3. SumOf(w) = 0
  BY <1>1, OriginAssumption, SumZero DEF SumOf
<1> QED
  BY <1>2, <1>3, OriginAssumption

\* A deposit changes no weight at the open height or below.
LEMMA DepositLater ==
    ASSUME OriginTypes, NEW v \in Validator, NEW amount \in Deposits,
           Deposit(v, amount), NEW h \in Nat, h =< stakeHeight
    PROVE  \A w \in Validator :
              ValidatorWeightAtHeight(h, w)' = ValidatorWeightAtHeight(h, w)
<1>1. /\ stakes' = [stakes EXCEPT ![v] = amount] /\ stakes[v] = 0
      /\ startingHeights' = [startingHeights EXCEPT ![v] = stakeHeight + 2]
      /\ stakes \in [Validator -> Nat] /\ startingHeights \in [Validator -> Nat]
      /\ stakeHeight \in Nat
  BY DEF Deposit, OriginTypes
<1>2. ASSUME NEW w \in Validator, w # v
      PROVE  ValidatorWeightAtHeight(h, w)' = ValidatorWeightAtHeight(h, w)
  BY <1>1, <1>2 DEF ValidatorWeightAtHeight
<1>3. ValidatorWeightAtHeight(h, v)' = 0
  BY <1>1 DEF ValidatorWeightAtHeight
<1>4. ValidatorWeightAtHeight(h, v) = 0
  BY <1>1 DEF ValidatorWeightAtHeight
<1> QED
  BY <1>2, <1>3, <1>4

\* A verified vote adds the validator's weight to a seal without it.
LEMMA SealCounts ==
    ASSUME OriginTypes, SealInv, NEW t \in Proposed, NEW v \in Validator,
           IsVoteVerifiable(t, v)
    PROVE  /\ Sealed(t, v).validators \subseteq Validator
           /\ Sealed(t, v).totalVoteWeight \in Nat
           /\ Sealed(t, v).totalVoteWeight
                 =< WeightOf(stakeHeight, Sealed(t, v).validators)
<1> DEFINE D == seals[t].validators
           f == [w \in D |-> ValidatorWeightAtHeight(stakeHeight, w)]
           g == [w \in D \cup {v} |-> ValidatorWeightAtHeight(stakeHeight, w)]
           x == ValidatorWeightAtHeight(stakeHeight, v)
<1>1. /\ D \subseteq Validator /\ v \notin D
      /\ seals[t].totalVoteWeight \in Nat
      /\ seals[t].totalVoteWeight =< SumOf(f)
      /\ stakeHeight \in Nat
  BY DEF SealInv, IsVoteVerifiable, OriginTypes, WeightOf
<1>2. /\ \A w \in Validator : ValidatorWeightAtHeight(stakeHeight, w) \in Nat
      /\ IsFiniteSet(D)
  BY <1>1, WeightsAreNat
<1>3. /\ DOMAIN f = D /\ DOMAIN g = D \cup {v}
      /\ \A w \in D : f[w] \in Int /\ f[w] = g[w]
      /\ \A w \in D \cup {v} : g[w] \in Int
      /\ g[v] = x /\ x \in Nat
  BY <1>1, <1>2
<1>4. /\ Sealed(t, v).validators = D \cup {v}
      /\ Sealed(t, v).totalVoteWeight = seals[t].totalVoteWeight + x
  BY DEF Sealed, OriginTypes
<1>5. WeightOf(stakeHeight, D \cup {v}) = SumOf(g)
  BY DEF WeightOf
<1> HIDE DEF D, f, g, x
<1>6. SumFunctionOnSet(g, D \cup {v}) = SumFunctionOnSet(g, D) + g[v]
  BY <1>1, <1>2, <1>3, SumAdd
<1>7. SumFunctionOnSet(f, D) = SumFunctionOnSet(g, D)
  BY <1>2, <1>3, SumSame
<1>8. SumFunctionOnSet(f, D) \in Int
  BY <1>2, <1>3, SumInt
<1>9. SumOf(g) = SumOf(f) + x /\ SumOf(f) \in Int
  BY <1>3, <1>6, <1>7, <1>8 DEF SumOf
<1>10. seals[t].totalVoteWeight + x =< SumOf(g)
  BY <1>1, <1>3, <1>9
<1> QED
  BY <1>1, <1>3, <1>4, <1>5, <1>10

\* The weights at a height no less than another, in one state or the next.
LEMMA WeightsCompare ==
    ASSUME NEW h \in Nat, NEW k \in Nat, NEW D \in SUBSET Validator,
           OriginTypes, OriginTypes',
           \A v \in D : ValidatorWeightAtHeight(h, v)
                           =< ValidatorWeightAtHeight(k, v)'
    PROVE  /\ WeightOf(h, D) =< WeightOf(k, D)'
           /\ WeightOf(h, D) \in Nat /\ WeightOf(k, D)' \in Nat
<1>1. PICK f : f = [v \in D |-> ValidatorWeightAtHeight(h, v)]
  OBVIOUS
<1>2. PICK g : g = [v \in D |-> ValidatorWeightAtHeight(k, v)']
  OBVIOUS
<1>3. \A v \in Validator : ValidatorWeightAtHeight(h, v) \in Nat
  BY DEF OriginTypes, ValidatorWeightAtHeight
<1>4. \A v \in Validator : ValidatorWeightAtHeight(k, v)' \in Nat
  BY DEF OriginTypes, ValidatorWeightAtHeight
<1>5. /\ DOMAIN f = D /\ DOMAIN g = D
      /\ \A v \in D : f[v] \in Nat /\ f[v] =< g[v] /\ g[v] \in Nat
  BY <1>1, <1>2, <1>3, <1>4
<1>6. SumOf(f) =< SumOf(g)
  BY <1>5, WeightsGrow
<1>7. WeightOf(h, D) = SumOf(f) /\ WeightOf(k, D)' = SumOf(g)
  BY <1>1, <1>2 DEF WeightOf
<1>8. IsFiniteSet(D)
  BY OriginAssumption, FS_Subset
<1>9. SumOf(f) \in Nat /\ SumOf(g) \in Nat
  BY <1>5, <1>8, SumNat DEF SumOf
<1> QED
  BY <1>6, <1>7, <1>9

\* The seal of a transition that gets no vote stays covered.
LEMMA KeepSeal ==
    ASSUME OriginTypes, OriginTypes', SealInv,
           NEW t \in Proposed, t \in Proposed', seals'[t] = seals[t],
           \A v \in Validator : ValidatorWeightAtHeight(stakeHeight, v)
                                  =< ValidatorWeightAtHeight(stakeHeight, v)'
    PROVE  /\ seals'[t].validators \subseteq Validator
           /\ seals'[t].totalVoteWeight \in Nat
           /\ seals'[t].totalVoteWeight
                 =< WeightOf(stakeHeight, seals[t].validators)'
<1>1. PICK h : h = stakeHeight
  OBVIOUS
<1>2. PICK k : k = stakeHeight'
  OBVIOUS
<1>3. PICK D : D = seals[t].validators
  OBVIOUS
<1>4. /\ seals[t].validators \subseteq Validator
      /\ seals[t].totalVoteWeight \in Nat
      /\ seals[t].totalVoteWeight =< WeightOf(h, D)
  BY <1>1, <1>3 DEF SealInv, WeightOf
<1>5. h \in Nat /\ k \in Nat /\ D \in SUBSET Validator
  BY <1>1, <1>2, <1>3, <1>4 DEF OriginTypes
<1>6. \A v \in D : ValidatorWeightAtHeight(h, v) =< ValidatorWeightAtHeight(k, v)'
  BY <1>1, <1>2, <1>5 DEF ValidatorWeightAtHeight
<1>7. WeightOf(h, D) =< WeightOf(k, D)' /\ WeightOf(h, D) \in Nat
      /\ WeightOf(k, D)' \in Nat
  BY <1>5, <1>6, WeightsCompare
<1>8. WeightOf(stakeHeight, seals[t].validators)' = WeightOf(k, D)'
  BY <1>2, <1>3 DEF WeightOf, ValidatorWeightAtHeight
<1> QED
  BY <1>4, <1>7, <1>8

\* If nothing is committed, the majority that was found before stays one.
LEMMA KeepMajority ==
    ASSUME OriginTypes, OriginTypes', SealInv, CommittedByMajority,
           head' = head,
           head.kernel.height > 0 =>
              /\ seals[head.transition].validators
                    \subseteq seals'[head.transition].validators
              /\ seals'[head.transition].validators \subseteq Validator
              /\ \A v \in Validator :
                    ValidatorWeightAtHeight(head.kernel.height, v)'
                       = ValidatorWeightAtHeight(head.kernel.height, v)
    PROVE  CommittedByMajority'
<1>1. PICK h : h = head.kernel.height
  OBVIOUS
<1>2. h \in Nat /\ head'.kernel.height = h
  BY <1>1 DEF OriginTypes
<1>3. CASE h = 0
  BY <1>2, <1>3 DEF CommittedByMajority
<1>4. CASE h # 0
  <2>1. h > 0
    BY <1>2, <1>4
  <2>2. PICK D : D = seals[head.transition].validators
    OBVIOUS
  <2>3. PICK E : E = seals'[head.transition].validators
    OBVIOUS
  <2>4. /\ D \subseteq E /\ E \subseteq Validator
        /\ \A v \in Validator :
              ValidatorWeightAtHeight(h, v)' = ValidatorWeightAtHeight(h, v)
    BY <1>1, <2>1, <2>2, <2>3 DEF ValidatorWeightAtHeight
  <2>5. 3 * WeightOf(h, D) >= 2 * WeightOf(h, Validator)
    BY <1>1, <2>1, <2>2
       DEF CommittedByMajority, WeightOf, TotalWeightAtHeight
  <2>6. PICK d : d = [v \in D |-> ValidatorWeightAtHeight(h, v)]
    OBVIOUS
  <2>7. PICK e : e = [v \in E |-> ValidatorWeightAtHeight(h, v)']
    OBVIOUS
  <2>8. \A v \in Validator : ValidatorWeightAtHeight(h, v) \in Nat
    BY <1>2 DEF OriginTypes, ValidatorWeightAtHeight
  <2>9. SumOf(d) =< SumOf(e)
    <3>1. /\ DOMAIN d = D /\ DOMAIN e = E
          /\ \A v \in D : d[v] \in Nat /\ d[v] =< e[v]
          /\ \A v \in E : e[v] \in Nat
      BY <2>4, <2>6, <2>7, <2>8
    <3> QED
      BY <3>1, <2>4, WeightsGrow
  <2>10. SumOf(d) = WeightOf(h, D) /\ SumOf(e) = WeightOf(h, E)'
    BY <2>6, <2>7 DEF WeightOf
  <2>11. WeightOf(h, Validator)' = WeightOf(h, Validator)
    <3>1. [v \in Validator |-> ValidatorWeightAtHeight(h, v)']
            = [v \in Validator |-> ValidatorWeightAtHeight(h, v)]
      BY <2>4
    <3> QED
      BY <3>1 DEF WeightOf
  <2>12. /\ WeightOf(h, D) \in Nat /\ WeightOf(h, E)' \in Nat
         /\ WeightOf(h, Validator) \in Nat
    <3>1. WeightOf(h, D) \in Nat /\ WeightOf(h, Validator) \in Nat
      BY <1>2, <2>4, WeightsAreNat
    <3>2. IsFiniteSet(E) /\ DOMAIN e = E /\ \A v \in E : e[v] \in Nat
      BY <2>4, <2>7, <2>8, OriginAssumption, FS_Subset
    <3>3. SumOf(e) \in Nat
      BY <3>2, SumNat DEF SumOf
    <3> QED
      BY <3>1, <3>3, <2>10
  <2>13. 3 * WeightOf(h, E)' >= 2 * WeightOf(h, Validator)'
    BY <2>5, <2>9, <2>10, <2>11, <2>12
  <2> QED
    BY <2>13, <2>3, <1>2, <1>1
       DEF CommittedByMajority, WeightOf, TotalWeightAtHeight,
           ValidatorWeightAtHeight
<1> QED
  BY <1>3, <1>4

\* The steps, each with what it does to the weights.
LEMMA KeepStakeInitialize ==
    ASSUME OriginInv, NEW initial \in Founding, StakeInitialize(initial)
    PROVE  OriginInv'
<1>1. /\ isInitialized' = TRUE /\ stakes' = initial
      /\ UNCHANGED <<startingHeights, stakeHeight, openKernel, head, seals>>
      /\ ~isInitialized /\ initial \in [Validator -> Deposits \cup {0}]
  BY OriginAssumption DEF StakeInitialize, coreVars
<1>2. OriginTypes /\ SealInv /\ CommittedByMajority
  BY DEF OriginInv
<1>3. head.kernel.height = 0 /\ \A v \in Validator : stakes[v] = 0
  BY <1>1, <1>2 DEF OriginTypes
<1>4. OriginTypes'
  <2>1. initial \in [Validator -> Nat]
    <3>1. \A d \in Deposits \cup {0} : d \in Nat
      BY OriginAssumption
    <3> QED
      BY <3>1, <1>1
  <2> QED
    BY <1>1, <1>2, <2>1 DEF OriginTypes, Proposed
<1>5. \A v \in Validator : ValidatorWeightAtHeight(stakeHeight, v)
                             =< ValidatorWeightAtHeight(stakeHeight, v)'
  <2>1. \A v \in Validator : ValidatorWeightAtHeight(stakeHeight, v) = 0
    BY <1>3 DEF ValidatorWeightAtHeight
  <2>2. stakeHeight' \in Nat
    BY <1>4 DEF OriginTypes
  <2>3. \A v \in Validator : ValidatorWeightAtHeight(stakeHeight, v)' \in Nat
    BY <1>4 DEF ValidatorWeightAtHeight, OriginTypes
  <2> QED
    BY <2>1, <2>3
<1>6. SealInv'
  <2>1. ASSUME NEW t \in Proposed'
        PROVE  /\ seals'[t].validators \subseteq Validator
               /\ seals'[t].totalVoteWeight \in Nat
               /\ seals'[t].totalVoteWeight
                     =< WeightOf(stakeHeight, seals[t].validators)'
    BY <1>1, <1>2, <1>4, <1>5, KeepSeal DEF Proposed
  <2> QED
    BY <2>1 DEF SealInv
<1>7. CommittedByMajority'
  BY <1>1, <1>3 DEF CommittedByMajority
<1> QED
  BY <1>4, <1>6, <1>7 DEF OriginInv

LEMMA KeepDeposit ==
    ASSUME OriginInv, NEW v \in Validator, NEW amount \in Deposits,
           Deposit(v, amount)
    PROVE  OriginInv'
<1>1. /\ AboveMinimumWeight
      /\ stakes' = [stakes EXCEPT ![v] = amount]
      /\ startingHeights' = [startingHeights EXCEPT ![v] = stakeHeight + 2]
      /\ UNCHANGED <<isInitialized, stakeHeight, openKernel, head, seals>>
  BY DEF Deposit, coreVars
<1>2. OriginTypes /\ SealInv /\ CommittedByMajority
  BY DEF OriginInv
<1>3. isInitialized
  BY <1>1, <1>2, Founded
<1>4. OriginTypes'
  BY <1>1, <1>2, <1>3, OriginAssumption DEF OriginTypes, Proposed
<1>5. ASSUME NEW h \in Nat, h =< stakeHeight
      PROVE  \A w \in Validator :
                ValidatorWeightAtHeight(h, w)' = ValidatorWeightAtHeight(h, w)
  BY <1>2, <1>5, DepositLater
<1>6. PICK h : h = stakeHeight
  OBVIOUS
<1>7. \A w \in Validator : ValidatorWeightAtHeight(stakeHeight, w)
                             =< ValidatorWeightAtHeight(stakeHeight, w)'
  <2>1. h \in Nat /\ h =< stakeHeight
    BY <1>6, <1>2 DEF OriginTypes
  <2>2. \A w \in Validator :
           /\ ValidatorWeightAtHeight(h, w)' = ValidatorWeightAtHeight(h, w)
           /\ ValidatorWeightAtHeight(h, w) \in Nat
    BY <2>1, <1>2, <1>5, WeightsAreNat
  <2>3. \A w \in Validator :
           /\ ValidatorWeightAtHeight(stakeHeight, w)
                 = ValidatorWeightAtHeight(h, w)
           /\ ValidatorWeightAtHeight(stakeHeight, w)'
                 = ValidatorWeightAtHeight(h, w)'
    BY <1>1, <1>6 DEF ValidatorWeightAtHeight
  <2> QED
    BY <2>2, <2>3
<1>8. SealInv'
  <2>1. ASSUME NEW t \in Proposed'
        PROVE  /\ seals'[t].validators \subseteq Validator
               /\ seals'[t].totalVoteWeight \in Nat
               /\ seals'[t].totalVoteWeight
                     =< WeightOf(stakeHeight, seals[t].validators)'
    BY <1>1, <1>2, <1>4, <1>7, KeepSeal DEF Proposed
  <2> QED
    BY <2>1 DEF SealInv
<1>9. CommittedByMajority'
  <2>1. PICK k : k = head.kernel.height
    OBVIOUS
  <2>2. k \in Nat /\ k =< stakeHeight
    BY <2>1, <1>2 DEF OriginTypes
  <2>3. \A w \in Validator :
           ValidatorWeightAtHeight(k, w)' = ValidatorWeightAtHeight(k, w)
    BY <2>2, <1>5
  <2>4. \A w \in Validator :
           ValidatorWeightAtHeight(head.kernel.height, w)'
             = ValidatorWeightAtHeight(head.kernel.height, w)
    BY <2>1, <2>3, <1>1 DEF ValidatorWeightAtHeight
  <2>5. head.kernel.height > 0 =>
           seals[head.transition].validators \subseteq Validator
    BY <1>2 DEF OriginTypes, SealInv
  <2> QED
    BY <2>4, <2>5, <1>1, <1>2, <1>4, KeepMajority
<1> QED
  BY <1>4, <1>8, <1>9 DEF OriginInv

LEMMA KeepPropose ==
    ASSUME OriginInv, NEW kernel, NEW dynasty, ProposeBlock(kernel, dynasty)
    PROVE  OriginInv'
<1> DEFINE new == [kernel |-> kernel, dynasty |-> dynasty]
           empty == [validators |-> {}, totalVoteWeight |-> 0]
<1>1. /\ new \notin Proposed
      /\ seals' = [t \in Proposed \cup {new} |->
                      IF t = new THEN empty ELSE seals[t]]
      /\ UNCHANGED <<isInitialized, stakes, startingHeights, stakeHeight,
                     openKernel, head>>
  BY DEF ProposeBlock, stakeVars
<1>2. OriginTypes /\ SealInv /\ CommittedByMajority
  BY DEF OriginInv
<1>3. /\ Proposed' = Proposed \cup {new} /\ seals'[new] = empty
      /\ \A t \in Proposed : seals'[t] = seals[t]
  <2> HIDE DEF new, empty
  <2> QED
    BY <1>1 DEF Proposed
<1>4. OriginTypes'
  <2> HIDE DEF new, empty
  <2>1. seals' = [t \in DOMAIN seals' |-> seals'[t]]
    BY <1>1
  <2> QED
    BY <2>1, <1>1, <1>2, <1>3 DEF OriginTypes, Proposed
<1>5. \A w \in Validator : ValidatorWeightAtHeight(stakeHeight, w)
                             =< ValidatorWeightAtHeight(stakeHeight, w)'
  BY <1>1, <1>2 DEF OriginTypes, ValidatorWeightAtHeight
<1>6. SealInv'
  <2>1. ASSUME NEW t \in Proposed'
        PROVE  /\ seals'[t].validators \subseteq Validator
               /\ seals'[t].totalVoteWeight \in Nat
               /\ seals'[t].totalVoteWeight
                     =< WeightOf(stakeHeight, seals[t].validators)'
    <3>1. CASE t = new
      <4>1. /\ seals'[t].validators = {}
            /\ seals'[t].totalVoteWeight = 0
        BY <3>1, <1>3
      <4>2. PICK f : f = [v \in {} |-> ValidatorWeightAtHeight(stakeHeight, v)']
        OBVIOUS
      <4>3. SumOf(f) = 0
        BY <4>2, SumEmpty DEF SumOf
      <4>4. WeightOf(stakeHeight, seals[t].validators)' = 0
        BY <4>1, <4>2, <4>3 DEF WeightOf
      <4> QED
        BY <4>1, <4>4
    <3>2. CASE t # new
      <4>1. t \in Proposed /\ seals'[t] = seals[t]
        BY <3>2, <1>3
      <4> QED
        BY <4>1, <1>2, <1>4, <1>5, KeepSeal
    <3> QED
      BY <3>1, <3>2
  <2> QED
    BY <2>1 DEF SealInv
<1>7. CommittedByMajority'
  <2>1. head.kernel.height > 0 =>
           /\ seals'[head.transition] = seals[head.transition]
           /\ seals[head.transition].validators \subseteq Validator
    BY <1>2, <1>3 DEF OriginTypes, SealInv
  <2>2. \A w \in Validator :
           ValidatorWeightAtHeight(head.kernel.height, w)'
             = ValidatorWeightAtHeight(head.kernel.height, w)
    BY <1>1 DEF ValidatorWeightAtHeight
  <2> QED
    BY <2>1, <2>2, <1>1, <1>2, <1>4, KeepMajority
<1> QED
  BY <1>4, <1>6, <1>7 DEF OriginInv

\* What a vote does, whether it commits or not.
VoteStep(t, v) ==
    /\ seals' = [seals EXCEPT ![t] = Sealed(t, v)]
    /\ UNCHANGED <<isInitialized, stakes, startingHeights>>
    /\ \/ UNCHANGED <<openKernel, head, stakeHeight>>
       \/ /\ CommitMetaBlock(t)
          /\ t.kernel = openKernel
          /\ Sealed(t, v).totalVoteWeight
                >= RequiredWeight(TotalWeightAtHeight(openKernel.height))

LEMMA VoteSteps ==
    ASSUME NEW t \in Proposed, NEW v \in Validator, VerifyVote(t, v)
    PROVE  IsVoteVerifiable(t, v) /\ VoteStep(t, v)
<1>1. IsVoteVerifiable(t, v)
  BY DEF VerifyVote
<1>2. seals' = [seals EXCEPT ![t] = Sealed(t, v)]
  BY DEF VerifyVote
<1>3. CASE t.kernel = openKernel /\ Sealed(t, v).totalVoteWeight
                >= RequiredWeight(TotalWeightAtHeight(openKernel.height))
  <2>1. CommitMetaBlock(t)
    BY <1>3 DEF VerifyVote
  <2>2. UNCHANGED <<isInitialized, stakes, startingHeights>>
    BY <2>1 DEF CommitMetaBlock
  <2> QED
    BY <1>1, <1>2, <1>3, <2>1, <2>2 DEF VoteStep
<1>4. CASE ~(t.kernel = openKernel /\ Sealed(t, v).totalVoteWeight
                >= RequiredWeight(TotalWeightAtHeight(openKernel.height)))
  <2>1. UNCHANGED <<openKernel, head, stakeVars>>
    BY <1>4 DEF VerifyVote
  <2> QED
    BY <1>1, <1>2, <2>1 DEF VoteStep, stakeVars
<1> QED
  BY <1>3, <1>4

\* The kernel that a commit opens.
LEMMA CommitSteps ==
    ASSUME NEW t \in Proposed, CommitMetaBlock(t)
    PROVE  /\ AboveMinimumWeight
           /\ head'.kernel = openKernel /\ head'.transition = t
           /\ openKernel'.height = openKernel.height + 1
           /\ openKernel'.updates = UpdatesAt(openKernel.height + 1)
           /\ stakeHeight' = stakeHeight + 1
BY DEF CommitMetaBlock, NextKernel

LEMMA KeepVerifyVote ==
    ASSUME OriginInv, NEW t \in Proposed, NEW v \in Validator, VerifyVote(t, v)
    PROVE  OriginInv'
<1>1. /\ IsVoteVerifiable(t, v) /\ VoteStep(t, v)
      /\ OriginTypes /\ SealInv /\ CommittedByMajority
  BY VoteSteps DEF OriginInv
<1>2. /\ stakes' = stakes /\ startingHeights' = startingHeights
      /\ isInitialized' = isInitialized
  BY <1>1 DEF VoteStep
<1>3. /\ Proposed' = Proposed /\ seals'[t] = Sealed(t, v)
      /\ \A u \in Proposed \ {t} : seals'[u] = seals[u]
      /\ seals' = [u \in DOMAIN seals' |-> seals'[u]]
  <2>1. seals' = [seals EXCEPT ![t] = Sealed(t, v)]
    BY <1>1 DEF VoteStep
  <2>2. seals = [u \in DOMAIN seals |-> seals[u]] /\ t \in DOMAIN seals
    BY <1>1 DEF OriginTypes, Proposed
  <2>3. /\ DOMAIN seals' = DOMAIN seals
        /\ seals' = [u \in DOMAIN seals |->
                        IF u = t THEN Sealed(t, v) ELSE seals[u]]
    BY <2>1, <2>2
  <2> QED
    BY <2>3 DEF Proposed
<1>4. OriginTypes'
  <2>1. CASE UNCHANGED <<openKernel, head, stakeHeight>>
    BY <2>1, <1>1, <1>2, <1>3 DEF OriginTypes, Proposed
  <2>2. CASE CommitMetaBlock(t)
    <3>1. /\ head'.kernel = openKernel /\ head'.transition = t
          /\ openKernel'.height = openKernel.height + 1
          /\ stakeHeight' = stakeHeight + 1
          /\ AboveMinimumWeight
      BY <2>2, CommitSteps
    <3>2. isInitialized
      BY <3>1, <1>1, Founded
    <3>3. /\ openKernel.height = stakeHeight /\ stakeHeight \in Nat
          /\ stakes \in [Validator -> Nat]
          /\ startingHeights \in [Validator -> Nat]
      BY <1>1 DEF OriginTypes
    <3>4. t \in Proposed' /\ seals' = [u \in Proposed' |-> seals'[u]]
      BY <1>3 DEF Proposed
    <3> QED
      BY <3>1, <3>2, <3>3, <3>4, <1>2 DEF OriginTypes
  <2> QED
    BY <2>1, <2>2, <1>1 DEF VoteStep
<1>5. stakeHeight' \in {stakeHeight, stakeHeight + 1}
  BY <1>1, CommitSteps DEF VoteStep
<1>6. \A w \in Validator : ValidatorWeightAtHeight(stakeHeight, w)
                             =< ValidatorWeightAtHeight(stakeHeight, w)'
  BY <1>1, <1>2, <1>5 DEF OriginTypes, ValidatorWeightAtHeight
<1>7. PICK D : D = Sealed(t, v).validators
  OBVIOUS
<1>8. PICK h : h = stakeHeight
  OBVIOUS
<1>9. PICK x : x = Sealed(t, v).totalVoteWeight
  OBVIOUS
<1>10. D \subseteq Validator /\ x \in Nat /\ x =< WeightOf(h, D) /\ h \in Nat
  <2>1. WeightOf(stakeHeight, Sealed(t, v).validators) = WeightOf(h, D)
    BY <1>7, <1>8 DEF WeightOf, ValidatorWeightAtHeight
  <2> QED
    BY <2>1, <1>1, <1>7, <1>8, <1>9, SealCounts DEF OriginTypes
<1>11. SealInv'
  <2>1. ASSUME NEW u \in Proposed'
        PROVE  /\ seals'[u].validators \subseteq Validator
               /\ seals'[u].totalVoteWeight \in Nat
               /\ seals'[u].totalVoteWeight
                     =< WeightOf(stakeHeight, seals[u].validators)'
    <3>1. CASE u = t
      <4>1. PICK k : k = stakeHeight'
        OBVIOUS
      <4>2. k \in Nat
        BY <4>1, <1>4 DEF OriginTypes
      <4>3. \A w \in D : ValidatorWeightAtHeight(h, w)
                            =< ValidatorWeightAtHeight(k, w)'
        BY <4>1, <1>6, <1>8, <1>10 DEF ValidatorWeightAtHeight
      <4>4. /\ WeightOf(h, D) =< WeightOf(k, D)'
            /\ WeightOf(h, D) \in Nat /\ WeightOf(k, D)' \in Nat
        BY <4>2, <4>3, <1>1, <1>4, <1>10, WeightsCompare
      <4>5. seals'[u].validators = D /\ seals'[u].totalVoteWeight = x
        BY <3>1, <1>3, <1>7, <1>9
      <4>6. WeightOf(stakeHeight, seals[u].validators)' = WeightOf(k, D)'
        BY <4>1, <4>5 DEF WeightOf, ValidatorWeightAtHeight
      <4> QED
        BY <4>4, <4>5, <4>6, <1>10
    <3>2. CASE u # t
      <4>1. u \in Proposed /\ seals'[u] = seals[u]
        BY <3>2, <1>3
      <4> QED
        BY <4>1, <1>1, <1>4, <1>6, KeepSeal
    <3> QED
      BY <3>1, <3>2
  <2> QED
    BY <2>1 DEF SealInv
<1>12. CommittedByMajority'
  <2>1. CASE UNCHANGED <<openKernel, head, stakeHeight>>
    <3>1. \A w \in Validator :
             ValidatorWeightAtHeight(head.kernel.height, w)'
               = ValidatorWeightAtHeight(head.kernel.height, w)
      BY <2>1, <1>2 DEF ValidatorWeightAtHeight
    <3>2. head.kernel.height > 0 =>
             /\ seals[head.transition].validators
                   \subseteq seals'[head.transition].validators
             /\ seals'[head.transition].validators \subseteq Validator
      <4> SUFFICES ASSUME head.kernel.height > 0
                   PROVE  /\ seals[head.transition].validators
                                \subseteq seals'[head.transition].validators
                          /\ seals'[head.transition].validators
                                \subseteq Validator
        OBVIOUS
      <4>1. head.transition \in Proposed
        BY <1>1 DEF OriginTypes
      <4>2. CASE head.transition = t
        BY <4>2, <1>3, <1>7, <1>10 DEF Sealed
      <4>3. CASE head.transition # t
        BY <4>1, <4>3, <1>1, <1>3 DEF SealInv
      <4> QED
        BY <4>2, <4>3
    <3> QED
      BY <3>1, <3>2, <2>1, <1>1, <1>4, KeepMajority
  <2>2. CASE /\ CommitMetaBlock(t)
             /\ Sealed(t, v).totalVoteWeight
                   >= RequiredWeight(TotalWeightAtHeight(openKernel.height))
    <3>1. head'.kernel.height = h /\ head'.transition = t
      BY <2>2, <1>1, <1>8, CommitSteps DEF OriginTypes
    <3>2. TotalWeightAtHeight(openKernel.height) = WeightOf(h, Validator)
      BY <1>1, <1>8 DEF OriginTypes, TotalWeightAtHeight, WeightOf
    <3>3. /\ WeightOf(h, D) \in Nat /\ WeightOf(h, Validator) \in Nat
      BY <1>1, <1>10, WeightsAreNat
    <3>4. PICK total : total = WeightOf(h, Validator)
      OBVIOUS
    <3>5. /\ RequiredWeight(total) \in Nat
          /\ 3 * RequiredWeight(total) >= 2 * total
          /\ total \in Nat
      BY <3>3, <3>4, SuperMajority
    <3>6. x >= RequiredWeight(total)
      BY <2>2, <3>2, <3>4, <1>9
    <3>7. 3 * WeightOf(h, D) >= 2 * WeightOf(h, Validator)
      BY <3>3, <3>4, <3>5, <3>6, <1>10
    <3>8. /\ WeightOf(h, D)' = WeightOf(h, D)
          /\ WeightOf(h, Validator)' = WeightOf(h, Validator)
      BY <1>2 DEF WeightOf, ValidatorWeightAtHeight
    <3>9. 3 * WeightOf(h, D)' >= 2 * WeightOf(h, Validator)'
      BY <3>7, <3>8
    <3>10. seals'[head'.transition].validators = D
      BY <3>1, <1>3, <1>7
    <3> QED
      BY <3>1, <3>9, <3>10
         DEF CommittedByMajority, WeightOf, TotalWeightAtHeight,
             ValidatorWeightAtHeight
  <2> QED
    BY <2>1, <2>2, <1>1 DEF VoteStep
<1> QED
  BY <1>4, <1>11, <1>12 DEF OriginInv

LEMMA OriginInitial == OriginInit => OriginInv
<1> SUFFICES ASSUME OriginInit PROVE OriginInv
  OBVIOUS
<1>1. OriginTypes
  BY DEF OriginInit, OriginTypes, Proposed
<1>2. SealInv
  BY DEF OriginInit, SealInv, Proposed
<1>3. CommittedByMajority
  BY DEF OriginInit, CommittedByMajority
<1> QED
  BY <1>1, <1>2, <1>3 DEF OriginInv

LEMMA OriginInductive == OriginInv /\ [OriginNext]_originVars => OriginInv'
<1> SUFFICES ASSUME OriginInv, [OriginNext]_originVars PROVE OriginInv'
  OBVIOUS
<1>1. CASE UNCHANGED originVars
  <2>1. UNCHANGED <<isInitialized, stakes, startingHeights, stakeHeight,
                    openKernel, head, seals>>
    BY <1>1 DEF originVars, stakeVars, coreVars
  <2>2. OriginTypes' /\ CommittedByMajority'
    BY <2>1 DEF OriginInv, OriginTypes, CommittedByMajority, Proposed,
                TotalWeightAtHeight, ValidatorWeightAtHeight
  <2>3. SealInv'
    BY <2>1 DEF OriginInv, SealInv, Proposed, WeightOf, ValidatorWeightAtHeight
  <2> QED
    BY <2>2, <2>3 DEF OriginInv
<1>2. CASE OriginNext
  BY <1>2, KeepStakeInitialize, KeepDeposit, KeepPropose, KeepVerifyVote
     DEF OriginNext
<1> QED
  BY <1>1, <1>2

LEMMA OriginInvariant == OriginSpec => []OriginInv
BY OriginInitial, OriginInductive, PTL DEF OriginSpec

\* A meta-block is committed with two thirds of the weight at its height, no
\* validator counted twice and no weight before its time: verifyVote keeps this
\* although it counts votes before the kernel they are for is open.
THEOREM CommitsHaveMajorities == OriginSpec => []CommittedByMajority
BY OriginInvariant, PTL DEF OriginInv

\* The weights that count while a meta-block is open, and a step that leaves
\* them alone.
OpenWeights == [v \in Validator |-> ValidatorWeightAtHeight(stakeHeight, v)]
OpenTotal == TotalWeightAtHeight(stakeHeight)

SameOpen == UNCHANGED <<stakeHeight, OpenWeights, OpenTotal, openKernel.updates>>

\* Opening a meta-block adds the validators that its kernel announces.
LEMMA CommitOpens ==
    ASSUME OriginTypes, NEW t \in Proposed, CommitMetaBlock(t)
    PROVE  OriginSet!Open
<1>1. PICK h : h = stakeHeight
  OBVIOUS
<1>2. PICK u : u = openKernel.updates'
  OBVIOUS
<1>3. PICK f : f = OpenWeights
  OBVIOUS
<1>4. PICK g : g = OpenWeights'
  OBVIOUS
<1>5. /\ stakes' = stakes /\ startingHeights' = startingHeights
      /\ stakeHeight' = h + 1 /\ h \in Nat
      /\ stakes \in [Validator -> Nat] /\ startingHeights \in [Validator -> Nat]
      /\ openKernel'.updates = UpdatesAt(h + 1)
  BY <1>1, CommitSteps DEF OriginTypes, CommitMetaBlock
<1> DEFINE D == {w \in Validator : stakes[w] > 0 /\ startingHeights[w] = h + 1}
<1>6. u = [w \in D |-> stakes[w]]
  BY <1>2, <1>5 DEF UpdatesAt
<1>7. ASSUME NEW w \in D PROVE u[w] > 0 /\ f[w] = 0 /\ u[w] \in Nat
  BY <1>1, <1>3, <1>5, <1>6 DEF OpenWeights, ValidatorWeightAtHeight
<1>8. ASSUME NEW w \in Validator
      PROVE  f[w] \in Nat /\ g[w] = (IF w \in D THEN u[w] ELSE f[w])
  <2>1. f[w] = IF startingHeights[w] > h THEN 0 ELSE stakes[w]
    BY <1>1, <1>3 DEF OpenWeights, ValidatorWeightAtHeight
  <2>2. g[w] = IF startingHeights[w] > h + 1 THEN 0 ELSE stakes[w]
    BY <1>4, <1>5 DEF OpenWeights, ValidatorWeightAtHeight
  <2> QED
    BY <2>1, <2>2, <1>5, <1>6
<1>9. /\ D \subseteq Validator /\ DOMAIN u = D
      /\ DOMAIN f = Validator /\ DOMAIN g = Validator
      /\ g = [w \in Validator |-> g[w]]
  BY <1>3, <1>4, <1>6 DEF OpenWeights
<1> HIDE DEF D
<1>10. g = OriginSet!Joined(f, u)
  BY <1>8, <1>9 DEF OriginSet!Joined
<1>11. SumOf(g) = SumOf(f) + SumOf(u)
  <2>1. /\ \A w \in Validator : f[w] \in Int
        /\ \A w \in D : f[w] = 0 /\ u[w] \in Int /\ g[w] = u[w]
        /\ \A w \in Validator \ D : g[w] = f[w]
    BY <1>7, <1>8, <1>9
  <2>2. SumFunctionOnSet(g, Validator)
          = SumFunctionOnSet(f, Validator) + SumFunctionOnSet(u, D)
    BY <2>1, <1>9, OriginAssumption, SumJoin
  <2> QED
    BY <2>2, <1>9 DEF SumOf
<1>12. OpenTotal = SumOf(f) /\ OpenTotal' = SumOf(g)
  BY <1>3, <1>4 DEF OpenTotal, OpenWeights, TotalWeightAtHeight
<1>13. OpenTotal' = OpenTotal + OriginSet!SumOf(openKernel.updates')
  BY <1>2, <1>11, <1>12, SameSums
<1>14. OpenWeights' = OriginSet!Joined(OpenWeights, openKernel.updates')
  BY <1>2, <1>3, <1>4, <1>10
<1>15. \A w \in DOMAIN openKernel.updates' :
          openKernel.updates'[w] > 0 /\ OpenWeights[w] = 0
  BY <1>2, <1>3, <1>7, <1>9
<1> QED
  BY <1>1, <1>5, <1>13, <1>14, <1>15 DEF OriginSet!Open, OpenWeights, OpenTotal

\* The founding stakes are given once, before there is any weight.
LEMMA InitializeFounds ==
    ASSUME OriginTypes, OriginTypes',
           NEW initial \in Founding, StakeInitialize(initial)
    PROVE  OriginSet!Found
<1>1. /\ ~isInitialized /\ stakes' = initial
      /\ UNCHANGED <<startingHeights, stakeHeight, openKernel>>
  BY DEF StakeInitialize, coreVars
<1>2. stakeHeight = 1 /\ \A v \in Validator : stakes[v] = 0
  BY <1>1 DEF OriginTypes
<1>3. PICK f : f = OpenWeights
  OBVIOUS
<1>4. DOMAIN f = Validator /\ \A v \in Validator : f[v] = 0
  BY <1>2, <1>3 DEF OpenWeights, ValidatorWeightAtHeight
<1>5. SumOf(f) = 0
  BY <1>4, OriginAssumption, SumZero DEF SumOf
<1>6. OpenTotal = 0
  BY <1>3, <1>5 DEF OpenTotal, OpenWeights, TotalWeightAtHeight
<1>7. OpenWeights' \in [Validator -> Nat]
  BY DEF OpenWeights, OriginTypes, ValidatorWeightAtHeight
<1>8. OpenTotal' = OriginSet!SumOf(OpenWeights')
  BY SameSums DEF OpenTotal, OpenWeights, TotalWeightAtHeight
<1> QED
  BY <1>1, <1>2, <1>6, <1>7, <1>8 DEF OriginSet!Found, OpenWeights, OpenTotal

LEMMA DepositKeepsOpen ==
    ASSUME OriginTypes, NEW v \in Validator, NEW amount \in Deposits,
           Deposit(v, amount)
    PROVE  SameOpen
<1>1. PICK h : h = stakeHeight
  OBVIOUS
<1>2. h \in Nat /\ h =< stakeHeight
  BY <1>1 DEF OriginTypes
<1>3. UNCHANGED <<stakeHeight, openKernel>>
  BY DEF Deposit, coreVars
<1>4. \A w \in Validator :
         ValidatorWeightAtHeight(h, w)' = ValidatorWeightAtHeight(h, w)
  BY <1>2, DepositLater
<1>5. \A w \in Validator :
         ValidatorWeightAtHeight(stakeHeight, w)'
           = ValidatorWeightAtHeight(stakeHeight, w)
  BY <1>1, <1>3, <1>4 DEF ValidatorWeightAtHeight
<1>6. OpenWeights' = OpenWeights
  BY <1>5 DEF OpenWeights
<1>7. OpenTotal = SumOf(OpenWeights) /\ OpenTotal' = SumOf(OpenWeights')
  BY DEF OpenTotal, OpenWeights, TotalWeightAtHeight
<1> QED
  BY <1>3, <1>6, <1>7 DEF SameOpen

\* Who keeps the stakes and the open meta-block keeps the weights.
LEMMA StakesKeepOpen ==
    ASSUME UNCHANGED <<stakes, startingHeights, stakeHeight, openKernel>>
    PROVE  SameOpen
BY DEF SameOpen, OpenWeights, OpenTotal, TotalWeightAtHeight,
       ValidatorWeightAtHeight

LEMMA OriginSetSteps ==
    ASSUME OriginInv, OriginInv', [OriginNext]_originVars
    PROVE  OriginSet!Next \/ SameOpen
<1>1. OriginTypes /\ OriginTypes'
  BY DEF OriginInv
<1>2. CASE UNCHANGED originVars
  BY <1>2, StakesKeepOpen DEF originVars, stakeVars, coreVars
<1>3. ASSUME NEW initial \in Founding, StakeInitialize(initial)
      PROVE  OriginSet!Next
  BY <1>1, <1>3, InitializeFounds DEF OriginSet!Next
<1>4. ASSUME NEW v \in Validator, NEW amount \in Deposits, Deposit(v, amount)
      PROVE  SameOpen
  BY <1>1, <1>4, DepositKeepsOpen
<1>5. ASSUME NEW kernel, NEW d, ProposeBlock(kernel, d)
      PROVE  SameOpen
  BY <1>5, StakesKeepOpen DEF ProposeBlock, stakeVars
<1>6. ASSUME NEW t \in Proposed, NEW v \in Validator, VerifyVote(t, v)
      PROVE  OriginSet!Next \/ SameOpen
  <2>1. VoteStep(t, v)
    BY <1>6, VoteSteps
  <2>2. CASE CommitMetaBlock(t)
    BY <2>2, <1>1, <1>6, CommitOpens DEF OriginSet!Next
  <2>3. CASE UNCHANGED <<openKernel, head, stakeHeight>>
    BY <2>1, <2>3, StakesKeepOpen DEF VoteStep
  <2> QED
    BY <2>1, <2>2, <2>3 DEF VoteStep
<1>7. CASE OriginNext
  BY <1>7, <1>3, <1>4, <1>5, <1>6 DEF OriginNext
<1> QED
  BY <1>2, <1>7

\* Stake and the kernels agree on the validators: whoever joins is announced by
\* the kernel that opens, for the height from which the deposit counts.
THEOREM OriginKeepsValidatorSet == OriginSpec => OriginImplementsValidatorSet
<1>1. ASSUME OriginInit, OriginInv PROVE OriginSet!Init
  <2>1. /\ stakeHeight = 1 /\ openKernel.updates = OriginSet!Empty
    BY <1>1 DEF OriginInit, OriginSet!Empty, NoUpdates
  <2>2. OpenWeights \in [Validator -> Nat]
    BY <1>1 DEF OpenWeights, OriginInv, OriginTypes, ValidatorWeightAtHeight
  <2>3. OpenTotal = OriginSet!SumOf(OpenWeights)
    BY SameSums DEF OpenTotal, OpenWeights, TotalWeightAtHeight
  <2> QED
    BY <2>1, <2>2, <2>3 DEF OriginSet!Init, OpenWeights, OpenTotal
<1>2. ASSUME OriginInv, OriginInv', [OriginNext]_originVars
      PROVE  [OriginSet!Next]_<<stakeHeight,
                [v \in Validator |-> ValidatorWeightAtHeight(stakeHeight, v)],
                TotalWeightAtHeight(stakeHeight), openKernel.updates>>
  BY <1>2, OriginSetSteps DEF SameOpen, OpenWeights, OpenTotal
<1> QED
  BY <1>1, <1>2, OriginInitial, OriginInvariant, PTL
     DEF OriginSpec, OriginImplementsValidatorSet, OriginSet!Spec
=============================================================================
