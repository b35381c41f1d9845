-------------------------- MODULE MessageBusProofs --------------------------
(***************************************************************************)
(* Theorems about MessageBus, for any messages, buffers and secrets.       *)
(*                                                                         *)
(* Atomicity is not inductive: what a step may do depends on an entry of   *)
(* the other chain that was read some blocks ago.  The invariant BusInv    *)
(* adds that every recorded block is a past of the present box, from which *)
(* a stale proof still tells something about the present, and how the two  *)
(* entries of a message constrain each other.                              *)
(***************************************************************************)
EXTENDS MessageBus, TLAPS

\* The two sides are each other's remote.
LEMMA Remotes ==
    /\ Remote("origin") = "auxiliary"
    /\ Remote("auxiliary") = "origin"
    /\ \A g \in Side : /\ Remote(g) \in Side
                       /\ Remote(g) # g
                       /\ Remote(Remote(g)) = g
<1>1. Remote("origin") = "auxiliary"
  BY DEF Remote, Side
<1>2. Remote("auxiliary") = "origin"
  BY DEF Remote, Side
<1>. QED
  BY <1>1, <1>2 DEF Side

\* Every message has its source and its target on different sides.
LEMMA Ends ==
    ASSUME NEW m \in Message
    PROVE  /\ Source[m] \in Side
           /\ Target(m) \in Side
           /\ Target(m) # Source[m]
           /\ Remote(Target(m)) = Source[m]
           /\ Remote(Source[m]) = Target(m)
BY Remotes, MessageAssumption DEF Target

\* The next slot of a buffer is a slot (nextIndex wraps around).
LEMMA NextIndexIsSlot ==
    ASSUME NEW n \in Nat \ {0}, NEW b \in Buffers(n)
    PROVE  NextIndex(b) \in Slots(n)
BY DEF Buffers, Slots, NextIndex

\* Storing a height keeps a buffer a buffer of the same size, and what it
\* overwrites is a height.
LEMMA StoreIsBuffer ==
    ASSUME NEW n \in Nat \ {0}, NEW b \in Buffers(n), NEW item \in Nat
    PROVE  Store(b, item) \in Buffers(n) /\ Overwritten(b) \in Nat
BY NextIndexIsSlot DEF Buffers, Slots, Store, Overwritten

\* The constructor's buffer, empty or with its first height.
LEMMA NewBufferIsBuffer ==
    ASSUME NEW n \in Nat \ {0}
    PROVE  /\ NewBuffer(n) \in Buffers(n)
           /\ \A item \in Nat : Store(NewBuffer(n), item) \in Buffers(n)
<1>1. NewBuffer(n) \in Buffers(n)
  BY DEF NewBuffer, Buffers, Slots
<1>. QED
  BY <1>1, StoreIsBuffer

-----------------------------------------------------------------------------
\* A gateway only holds roots of blocks the other chain has.
RootsKnown ==
    \A g \in Side :
        /\ stateRoots[g] \subseteq DOMAIN chain[Remote(g)]
        /\ storageRoots[g] \subseteq DOMAIN chain[Remote(g)]

\* Every recorded block shows entries the present ones were reached from.
ChainIsPast ==
    \A g \in Side : \A h \in DOMAIN chain[g] : \A m \in Message :
        Reaches(chain[g][h][m], messageBox[g][m])

\* The two entries of m, which no transaction ever reads together.
Agreement(m) ==
    /\ Inbox(m) # "Undeclared" => Outbox(m) # "Undeclared"
    /\ Inbox(m) = "Revoked" => Outbox(m) \in {"DeclaredRevocation", "Revoked"}
    /\ Outbox(m) = "Revoked" => Inbox(m) = "Revoked"
    /\ Outbox(m) = "Progressed" /\ Inbox(m) # "Progressed" =>
         \A h \in DOMAIN chain[Source[m]] :
            chain[Source[m]][h][m] # "DeclaredRevocation"

BusInv ==
    /\ StateRootsTypeOK
    /\ RootsKnown
    /\ ChainIsPast
    /\ \A m \in Message : Agreement(m)

-----------------------------------------------------------------------------
\* An entry that was reached from a past one has also been reached from it.
LEMMA ReachesTransitive ==
    ASSUME NEW r \in Status, NEW s \in Status, NEW t \in Status,
           Reaches(r, s), Reaches(s, t)
    PROVE  Reaches(r, t)
BY DEF Reaches, Status

\* What a merkle proof shows is a past of the present entry.
LEMMA ProofIsPast ==
    ASSUME BusInv, NEW g \in Side, NEW m \in Message, NEW s, Proves(g, m, s)
    PROVE  Reaches(s, messageBox[Remote(g)][m])
<1>1. PICK h \in storageRoots[g] : chain[Remote(g)][h][m] = s
  BY DEF Proves
<1>2. h \in DOMAIN chain[Remote(g)]
  BY DEF BusInv, RootsKnown
<1>. QED
  BY <1>1, <1>2, Remotes DEF BusInv, ChainIsPast

\* The part of the invariant that does not speak of pairs of entries.
PastInv == StateRootsTypeOK /\ RootsKnown /\ ChainIsPast

\* The initial state: one block, and nothing declared.
LEMMA InitInv == BusInit => BusInv
<1>. SUFFICES ASSUME BusInit PROVE BusInv
  OBVIOUS
<1>. USE DEF BusInit, StateRootsInit
<1>1. /\ EmptyBox \in [Message -> Status]
      /\ \A m \in Message : EmptyBox[m] = "Undeclared"
  BY DEF EmptyBox, Status
<1>2. StateRootsTypeOK
  <2>1. messageBox \in [Side -> [Message -> Status]]
    BY <1>1
  <2>2. /\ chain \in [Side -> Seq([Message -> Status])]
        /\ \A g \in Side : DOMAIN chain[g] = {1}
    BY <1>1
  <2>3. /\ anchorBuffer \in [Side -> Buffers(MaxStateRoots)]
        /\ gatewayBuffer \in [Side -> Buffers(MaxStorageRoots)]
    BY NewBufferIsBuffer, BufferAssumption DEF InitialHeight
  <2>4. /\ stateRoots \in [Side -> SUBSET Nat]
        /\ storageRoots \in [Side -> SUBSET Nat]
    BY DEF InitialHeight
  <2>. QED
    BY <2>1, <2>2, <2>3, <2>4 DEF StateRootsTypeOK, InitialHeight
<1>3. RootsKnown
  BY Remotes DEF RootsKnown, InitialHeight
<1>4. ChainIsPast
  BY <1>1 DEF ChainIsPast, Reaches
<1>5. \A m \in Message : Agreement(m)
  BY <1>1, Ends DEF Agreement, Inbox, Outbox
<1>. QED
  BY <1>2, <1>3, <1>4, <1>5 DEF BusInv

-----------------------------------------------------------------------------
\* A transaction of MessageBus moves one entry forward.
LEMMA EntryStep ==
    ASSUME BusInv, NEW g \in Side, NEW m \in Message, NEW s \in Status,
           messageBox' = [messageBox EXCEPT ![g][m] = s],
           Reaches(messageBox[g][m], s),
           UNCHANGED rootVars
    PROVE  /\ PastInv'
           /\ \A f \in Side, k \in Message :
                 messageBox'[f][k]
                   = IF f = g /\ k = m THEN s ELSE messageBox[f][k]
           /\ \A k \in Message \ {m} : Agreement(k)'
<1>. USE DEF BusInv, rootVars, anchorVars, provenVars
<1>1. \A f \in Side, k \in Message :
        messageBox'[f][k] = IF f = g /\ k = m THEN s ELSE messageBox[f][k]
  BY DEF StateRootsTypeOK
<1>2. StateRootsTypeOK'
  BY DEF StateRootsTypeOK
<1>3. RootsKnown'
  BY DEF RootsKnown
<1>4. ChainIsPast'
  <2>. SUFFICES ASSUME NEW f \in Side, NEW h \in DOMAIN chain[f],
                       NEW k \in Message
                PROVE  Reaches(chain[f][h][k], messageBox'[f][k])
    BY DEF ChainIsPast
  <2>1. Reaches(chain[f][h][k], messageBox[f][k])
    BY DEF ChainIsPast
  <2>2. chain[f][h][k] \in Status /\ messageBox[f][k] \in Status
    BY DEF StateRootsTypeOK
  <2>3. Reaches(messageBox[f][k], messageBox'[f][k])
    BY <1>1 DEF Reaches
  <2>4. messageBox'[f][k] \in Status
    BY <1>1, <2>2
  <2>. QED
    BY <2>1, <2>2, <2>3, <2>4, ReachesTransitive
<1>5. ASSUME NEW k \in Message \ {m} PROVE Agreement(k)'
  BY <1>1, Ends DEF Agreement, Inbox, Outbox, Target
<1>. QED
  BY <1>1, <1>2, <1>3, <1>4, <1>5 DEF PastInv

\* So it is enough to look at the two entries of that message.
LEMMA EntryStepInv ==
    ASSUME PastInv', NEW m \in Message, Agreement(m)',
           \A k \in Message \ {m} : Agreement(k)'
    PROVE  BusInv'
BY DEF BusInv, PastInv

-----------------------------------------------------------------------------
\* Blocks, anchors and proofs of the gateway: the boxes stay as they are.
LEMMA MineBlockInv ==
    ASSUME BusInv, NEW g \in Side, MineBlock(g)
    PROVE  BusInv'
<1>. USE DEF BusInv, MineBlock, anchorVars, provenVars
<1>1. /\ chain[g] \in Seq([Message -> Status])
      /\ messageBox[g] \in [Message -> Status]
      /\ chain' = [chain EXCEPT ![g] = Append(chain[g], messageBox[g])]
  BY DEF StateRootsTypeOK
<1>2. \A f \in Side : DOMAIN chain[f] \subseteq DOMAIN chain'[f]
  BY <1>1 DEF StateRootsTypeOK
<1>3. ASSUME NEW f \in Side, NEW h \in DOMAIN chain'[f]
      PROVE  chain'[f][h] = messageBox[f] \/ (h \in DOMAIN chain[f]
                                           /\ chain'[f][h] = chain[f][h])
  BY <1>1 DEF StateRootsTypeOK
<1>4. StateRootsTypeOK'
  <2>1. chain' \in [Side -> Seq([Message -> Status])]
    BY <1>1 DEF StateRootsTypeOK
  <2>2. \A f \in Side : InitialHeight \in DOMAIN chain'[f]
    BY <1>2 DEF StateRootsTypeOK
  <2>. QED
    BY <2>1, <2>2 DEF StateRootsTypeOK
<1>5. RootsKnown'
  BY <1>2, Remotes DEF RootsKnown
<1>6. ChainIsPast'
  BY <1>3 DEF ChainIsPast, Reaches
<1>7. \A m \in Message : Agreement(m)'
  BY <1>3, Ends DEF Agreement, Inbox, Outbox, Target
<1>. QED
  BY <1>4, <1>5, <1>6, <1>7

LEMMA AnchorStateRootInv ==
    ASSUME BusInv, NEW g \in Side, NEW h \in DOMAIN chain[Remote(g)],
           AnchorStateRoot(g, h)
    PROVE  BusInv'
<1>. USE DEF BusInv, AnchorStateRoot, provenVars
<1>1. h \in Nat
  BY Remotes DEF StateRootsTypeOK
<1>2. /\ anchorBuffer' = [anchorBuffer EXCEPT ![g] = Store(anchorBuffer[g], h)]
      /\ anchorBuffer[g] \in Buffers(MaxStateRoots)
      /\ Store(anchorBuffer[g], h) \in Buffers(MaxStateRoots)
  BY <1>1, StoreIsBuffer, BufferAssumption DEF StateRootsTypeOK
<1>3. stateRoots' \in [Side -> SUBSET Nat]
  BY <1>1 DEF StateRootsTypeOK
<1>4. StateRootsTypeOK'
  BY <1>2, <1>3 DEF StateRootsTypeOK
<1>5. RootsKnown'
  BY DEF RootsKnown, StateRootsTypeOK
<1>6. ChainIsPast'
  BY DEF ChainIsPast
<1>7. \A m \in Message : Agreement(m)'
  BY DEF Agreement, Inbox, Outbox
<1>. QED
  BY <1>4, <1>5, <1>6, <1>7

LEMMA ProveGatewayInv ==
    ASSUME BusInv, NEW g \in Side, NEW h \in DOMAIN chain[Remote(g)],
           ProveGateway(g, h)
    PROVE  BusInv'
<1>. USE DEF BusInv, ProveGateway, anchorVars
<1>1. h \in Nat
  BY Remotes DEF StateRootsTypeOK
<1>2. /\ gatewayBuffer' =
           [gatewayBuffer EXCEPT ![g] = Store(gatewayBuffer[g], h)]
      /\ gatewayBuffer[g] \in Buffers(MaxStorageRoots)
      /\ Store(gatewayBuffer[g], h) \in Buffers(MaxStorageRoots)
  BY <1>1, StoreIsBuffer, BufferAssumption DEF StateRootsTypeOK
<1>3. storageRoots' \in [Side -> SUBSET Nat]
  BY <1>1 DEF StateRootsTypeOK
<1>4. StateRootsTypeOK'
  BY <1>2, <1>3 DEF StateRootsTypeOK
<1>5. RootsKnown'
  BY DEF RootsKnown, StateRootsTypeOK
<1>6. ChainIsPast'
  BY DEF ChainIsPast
<1>7. \A m \in Message : Agreement(m)'
  BY DEF Agreement, Inbox, Outbox
<1>. QED
  BY <1>4, <1>5, <1>6, <1>7

-----------------------------------------------------------------------------
\* Every function of MessageBus keeps the invariant.  In each case the entry
\* moves forward, and what is left is the agreement of the two entries of m.
LEMMA MessageInv ==
    ASSUME BusInv, NEW m \in Message, MessageNext(m)
    PROVE  BusInv'
<1>. DEFINE src == Source[m]
            tgt == Target(m)
<1>1. /\ src \in Side /\ tgt \in Side /\ src # tgt
      /\ Remote(tgt) = src /\ Remote(src) = tgt
  BY Ends
<1>2. /\ messageBox[src][m] \in Status
      /\ messageBox[tgt][m] \in Status
      /\ Agreement(m)
  BY <1>1 DEF BusInv, StateRootsTypeOK
\* What setting one entry of m does to the invariant.
<1>3. ASSUME NEW s \in Status, SetOutbox(m, s), UNCHANGED rootVars,
             Reaches(Outbox(m), s)
      PROVE  /\ Agreement(m)' => BusInv'
             /\ Outbox(m)' = s /\ Inbox(m)' = Inbox(m)
             /\ chain' = chain
  <2>1. /\ messageBox' = [messageBox EXCEPT ![src][m] = s]
        /\ Reaches(messageBox[src][m], s)
    BY <1>3 DEF SetOutbox, Outbox
  <2>2. /\ PastInv'
        /\ \A f \in Side, k \in Message :
              messageBox'[f][k]
                = IF f = src /\ k = m THEN s ELSE messageBox[f][k]
        /\ \A k \in Message \ {m} : Agreement(k)'
    BY <1>1, <1>3, <2>1, EntryStep
  <2>. QED
    BY <1>1, <1>3, <2>2, EntryStepInv DEF Outbox, Inbox, Target, rootVars
<1>4. ASSUME NEW s \in Status, SetInbox(m, s), UNCHANGED rootVars,
             Reaches(Inbox(m), s)
      PROVE  /\ Agreement(m)' => BusInv'
             /\ Inbox(m)' = s /\ Outbox(m)' = Outbox(m)
             /\ chain' = chain
  <2>1. /\ messageBox' = [messageBox EXCEPT ![tgt][m] = s]
        /\ Reaches(messageBox[tgt][m], s)
    BY <1>4 DEF SetInbox, Inbox
  <2>2. /\ PastInv'
        /\ \A f \in Side, k \in Message :
              messageBox'[f][k]
                = IF f = tgt /\ k = m THEN s ELSE messageBox[f][k]
        /\ \A k \in Message \ {m} : Agreement(k)'
    BY <1>1, <1>4, <2>1, EntryStep
  <2>. QED
    BY <1>1, <1>4, <2>2, EntryStepInv DEF Outbox, Inbox, Target, rootVars
\* What a proof tells the target about the outbox, and the source about the
\* inbox.
<1>5. /\ \A s : Proves(tgt, m, s) => Reaches(s, Outbox(m))
      /\ \A s : Proves(src, m, s) => Reaches(s, Inbox(m))
  BY <1>1, ProofIsPast DEF Outbox, Inbox
<1>6. \A h \in DOMAIN chain[src] : Reaches(chain[src][h][m], Outbox(m))
  BY <1>1 DEF BusInv, ChainIsPast, Outbox
<1>. USE DEF Status, Reaches, Agreement
<1>a. CASE DeclareMessage(m)
  BY <1>a, <1>2, <1>3 DEF DeclareMessage, Outbox
<1>b. CASE ConfirmMessage(m)
  BY <1>b, <1>2, <1>4, <1>5 DEF ConfirmMessage
<1>c. CASE \E unlockSecret \in Secret : ProgressOutbox(m, unlockSecret)
  BY <1>c, <1>2, <1>3, <1>6 DEF ProgressOutbox
<1>d. CASE \E unlockSecret \in Secret : ProgressInbox(m, unlockSecret)
  BY <1>d, <1>2, <1>4, <1>6 DEF ProgressInbox
<1>e. CASE ProgressOutboxWithProof(m)
  <2>1. PICK s \in ProgressProofs(Outbox(m)) : Proves(src, m, s)
    BY <1>e DEF ProgressOutboxWithProof
  <2>2. CASE Outbox(m) = "Declared"
    BY <1>e, <1>2, <1>3, <1>6, <2>2 DEF ProgressOutboxWithProof
  <2>3. CASE Outbox(m) = "DeclaredRevocation"
    <3>1. Inbox(m) = "Progressed"
      BY <2>1, <2>3, <1>5 DEF ProgressProofs
    <3>. QED
      BY <1>e, <1>2, <1>3, <2>3, <3>1 DEF ProgressOutboxWithProof
  <2>. QED
    BY <2>1, <2>2, <2>3 DEF ProgressProofs
<1>f. CASE ProgressInboxWithProof(m)
  BY <1>f, <1>2, <1>4 DEF ProgressInboxWithProof
<1>g. CASE DeclareRevocationMessage(m)
  BY <1>g, <1>2, <1>3 DEF DeclareRevocationMessage
<1>h. CASE ConfirmRevocation(m)
  <2>1. \E h \in DOMAIN chain[src] : chain[src][h][m] = "DeclaredRevocation"
    BY <1>h, <1>1 DEF ConfirmRevocation, Proves, BusInv, RootsKnown
  <2>2. Outbox(m) \in {"DeclaredRevocation", "Revoked"}
    BY <1>h, <1>2, <1>5, <2>1 DEF ConfirmRevocation
  <2>. QED
    BY <1>h, <1>2, <1>4, <2>2 DEF ConfirmRevocation
<1>i. CASE ProgressOutboxRevocation(m)
  BY <1>i, <1>2, <1>3, <1>5 DEF ProgressOutboxRevocation
<1>. QED
  BY <1>a, <1>b, <1>c, <1>d, <1>e, <1>f, <1>g, <1>h, <1>i DEF MessageNext

-----------------------------------------------------------------------------
\* BusInv is an invariant of MessageBus: of every interleaving of blocks,
\* roots, proofs, secrets and revocations.
THEOREM BusInvariant == BusSpec => []BusInv
<1>1. BusInit => BusInv
  BY InitInv
<1>2. BusInv /\ [BusNext]_busVars => BusInv'
  <2>. SUFFICES ASSUME BusInv, [BusNext]_busVars PROVE BusInv'
    OBVIOUS
  <2>1. CASE StateRootsNext
    BY <2>1, MineBlockInv, AnchorStateRootInv, ProveGatewayInv
       DEF StateRootsNext
  <2>2. CASE \E m \in Message : MessageNext(m)
    BY <2>2, MessageInv
  <2>3. CASE UNCHANGED busVars
    BY <2>3 DEF busVars, rootVars, anchorVars, provenVars, BusInv,
       StateRootsTypeOK, RootsKnown, ChainIsPast, Agreement, Inbox, Outbox
  <2>. QED
    BY <2>1, <2>2, <2>3 DEF BusNext
<1>. QED
  BY <1>1, <1>2, PTL DEF BusSpec

\* Type correctness of the message boxes, blocks, roots and buffers.
THEOREM StateRootsTypes == BusSpec => []StateRootsTypeOK
<1>1. BusInv => StateRootsTypeOK
  BY DEF BusInv
<1>. QED
  BY <1>1, BusInvariant, PTL

\* No root a gateway can prove against shows anything but a past of the other
\* chain's message box.
THEOREM ProvenRootsArePast == BusSpec => []RootsArePast
<1>1. BusInv => RootsArePast
  BY Remotes DEF BusInv, RootsKnown, ChainIsPast, RootsArePast
<1>. QED
  BY <1>1, BusInvariant, PTL

\* The two chains never close a message in opposite ways.
THEOREM TransfersAreAtomic == BusSpec => []Atomicity
<1>1. BusInv => Atomicity
  BY DEF BusInv, Agreement, Atomicity
<1>. QED
  BY <1>1, BusInvariant, PTL

\* A revocation in a block is answered by the target alone.
THEOREM RevocationsAreAnswered == BusSpec => []RevocationIsAnswered
<1>1. BusInv => RevocationIsAnswered
  BY DEF BusInv, Agreement, RevocationIsAnswered
<1>. QED
  BY <1>1, BusInvariant, PTL

-----------------------------------------------------------------------------
\* RootsMatchBuffers says what the rings hold; that a store deletes the right
\* root also needs that no height sits in two slots.
NoTwice(b) ==
    \A s, t \in DOMAIN b.items :
        b.items[s] = b.items[t] /\ s # t => b.items[s] = 0

RingsInv ==
    /\ RootsMatchBuffers
    /\ \A g \in Side :
        /\ NoTwice(anchorBuffer[g])
        /\ NoTwice(gatewayBuffer[g])
        /\ \A h \in stateRoots[g] : h <= Newest(anchorBuffer[g])

\* The slots after a store.
LEMMA StoredSlots ==
    ASSUME NEW n \in Nat \ {0}, NEW b \in Buffers(n), NEW item \in Nat
    PROVE  /\ DOMAIN b.items = Slots(n)
           /\ DOMAIN Store(b, item).items = Slots(n)
           /\ \A s \in Slots(n) :
                 Store(b, item).items[s]
                   = IF s = NextIndex(b) THEN item ELSE b.items[s]
           /\ Newest(Store(b, item)) = item
<1>1. NextIndex(b) \in Slots(n)
  BY NextIndexIsSlot
<1>2. b.items \in [Slots(n) -> Nat]
  BY DEF Buffers
<1>. QED
  BY <1>1, <1>2 DEF Store, Newest

\* A constructor's ring holds its one height, if any, and nothing twice.
LEMMA NewRing ==
    ASSUME NEW n \in Nat \ {0}, NEW item \in Nat \ {0}
    PROVE  /\ Items(NewBuffer(n)) \ {0} = {}
           /\ NoTwice(NewBuffer(n))
           /\ Items(Store(NewBuffer(n), item)) \ {0} = {item}
           /\ NoTwice(Store(NewBuffer(n), item))
           /\ Newest(Store(NewBuffer(n), item)) = item
<1>. DEFINE b == NewBuffer(n)
<1>1. b \in Buffers(n)
  BY NewBufferIsBuffer
<1>2. \A s \in Slots(n) : b.items[s] = 0
  BY DEF NewBuffer
<1>3. NextIndex(b) \in Slots(n)
  BY <1>1, NextIndexIsSlot
<1>. HIDE DEF b
<1>. QED
  BY <1>1, <1>2, <1>3, StoredSlots DEF Items, NoTwice, b

\* A store of a height the ring does not hold deletes exactly the height that
\* loses its slot.
LEMMA RingStore ==
    ASSUME NEW n \in Nat \ {0}, NEW b \in Buffers(n), NEW h \in Nat \ {0},
           NEW kept, kept = Items(b) \ {0}, NoTwice(b), h \notin kept
    PROVE  /\ (kept \cup {h}) \ {Overwritten(b)} = Items(Store(b, h)) \ {0}
           /\ NoTwice(Store(b, h))
<1>. DEFINE next == NextIndex(b)
            c == Store(b, h)
<1>1. next \in Slots(n)
  BY NextIndexIsSlot
<1>2. /\ DOMAIN b.items = Slots(n)
      /\ DOMAIN c.items = Slots(n)
      /\ \A s \in Slots(n) : c.items[s] = IF s = next THEN h ELSE b.items[s]
  BY StoredSlots
<1>3. \A s \in Slots(n) : b.items[s] # h
  BY <1>2 DEF Items
<1>4. Overwritten(b) = b.items[next]
  BY DEF Overwritten
<1>5. b.items \in [Slots(n) -> Nat]
  BY DEF Buffers
<1>. HIDE DEF next, c
<1>6. ASSUME NEW x PROVE x \in (kept \cup {h}) \ {b.items[next]}
                         <=> x \in Items(c) \ {0}
  <2>1. x \in Items(c) <=> \E s \in Slots(n) : c.items[s] = x
    BY <1>2 DEF Items
  <2>2. x \in kept <=> x # 0 /\ \E s \in Slots(n) : b.items[s] = x
    BY <1>2 DEF Items
  <2>3. x \in Items(c) <=>
          x = h \/ \E s \in Slots(n) : s # next /\ b.items[s] = x
    BY <1>1, <1>2, <2>1
  <2>4. x # 0 /\ x = b.items[next] =>
          ~ \E s \in Slots(n) : s # next /\ b.items[s] = x
    BY <1>1, <1>2 DEF NoTwice
  <2>. QED
    BY <1>1, <1>3, <2>2, <2>3, <2>4
<1>7. NoTwice(c)
  BY <1>1, <1>2, <1>3 DEF NoTwice
<1>. QED
  BY <1>4, <1>6, <1>7 DEF c

\* No step loses track of a root.
LEMMA RingsStep ==
    ASSUME BusInv, RingsInv, StateRootsNext
    PROVE  RingsInv'
<1>1. PICK g \in Side :
        \/ MineBlock(g)
        \/ \E h \in DOMAIN chain[Remote(g)] :
              AnchorStateRoot(g, h) \/ ProveGateway(g, h)
  BY DEF StateRootsNext
<1>2. /\ anchorBuffer \in [Side -> Buffers(MaxStateRoots)]
      /\ gatewayBuffer \in [Side -> Buffers(MaxStorageRoots)]
      /\ stateRoots \in [Side -> SUBSET Nat]
      /\ storageRoots \in [Side -> SUBSET Nat]
      /\ DOMAIN chain[Remote(g)] \subseteq Nat \ {0}
      /\ MaxStateRoots \in Nat \ {0} /\ MaxStorageRoots \in Nat \ {0}
  BY Remotes, BufferAssumption DEF BusInv, StateRootsTypeOK
<1>3. /\ stateRoots[g] = Items(anchorBuffer[g]) \ {0}
      /\ storageRoots[g] = Items(gatewayBuffer[g]) \ {0}
      /\ NoTwice(anchorBuffer[g])
      /\ NoTwice(gatewayBuffer[g])
      /\ \A h \in stateRoots[g] : h <= Newest(anchorBuffer[g])
  BY DEF RingsInv, RootsMatchBuffers
<1>a. CASE MineBlock(g)
  BY <1>a DEF MineBlock, anchorVars, provenVars, RingsInv, RootsMatchBuffers
<1>b. CASE \E h \in DOMAIN chain[Remote(g)] : AnchorStateRoot(g, h)
  <2>1. PICK h \in DOMAIN chain[Remote(g)] : AnchorStateRoot(g, h)
    BY <1>b
  <2>. DEFINE old == anchorBuffer[g]
  <2>2. /\ h \in Nat \ {0}
        /\ old \in Buffers(MaxStateRoots)
        /\ Newest(old) \in Nat
        /\ stateRoots[g] \subseteq Nat
    BY <1>2 DEF Buffers, Newest
  <2>3. h \notin stateRoots[g]
    BY <1>3, <2>1, <2>2 DEF AnchorStateRoot
  <2>4. /\ (stateRoots[g] \cup {h}) \ {Overwritten(old)}
              = Items(Store(old, h)) \ {0}
        /\ NoTwice(Store(old, h))
        /\ Newest(Store(old, h)) = h
    BY <1>2, <1>3, <2>2, <2>3, RingStore, StoredSlots
  <2>5. /\ stateRoots'[g] = (stateRoots[g] \cup {h}) \ {Overwritten(old)}
        /\ anchorBuffer'[g] = Store(old, h)
        /\ \A f \in Side \ {g} : /\ stateRoots'[f] = stateRoots[f]
                                 /\ anchorBuffer'[f] = anchorBuffer[f]
        /\ gatewayBuffer' = gatewayBuffer
        /\ storageRoots' = storageRoots
    BY <1>2, <2>1 DEF AnchorStateRoot, provenVars
  <2>6. \A r \in stateRoots'[g] : r <= h
    BY <1>3, <2>1, <2>2, <2>5 DEF AnchorStateRoot
  <2>. QED
    BY <2>4, <2>5, <2>6 DEF RingsInv, RootsMatchBuffers
<1>c. CASE \E h \in DOMAIN chain[Remote(g)] : ProveGateway(g, h)
  <2>1. PICK h \in DOMAIN chain[Remote(g)] : ProveGateway(g, h)
    BY <1>c
  <2>. DEFINE old == gatewayBuffer[g]
  <2>2. h \in Nat \ {0} /\ old \in Buffers(MaxStorageRoots)
    BY <1>2
  <2>3. h \notin storageRoots[g]
    BY <2>1 DEF ProveGateway
  <2>4. /\ (storageRoots[g] \cup {h}) \ {Overwritten(old)}
              = Items(Store(old, h)) \ {0}
        /\ NoTwice(Store(old, h))
    BY <1>2, <1>3, <2>2, <2>3, RingStore
  <2>5. /\ storageRoots'[g] = (storageRoots[g] \cup {h}) \ {Overwritten(old)}
        /\ gatewayBuffer'[g] = Store(old, h)
        /\ \A f \in Side \ {g} : /\ storageRoots'[f] = storageRoots[f]
                                 /\ gatewayBuffer'[f] = gatewayBuffer[f]
        /\ anchorBuffer' = anchorBuffer
        /\ stateRoots' = stateRoots
    BY <1>2, <2>1 DEF ProveGateway, anchorVars
  <2>. QED
    BY <2>4, <2>5 DEF RingsInv, RootsMatchBuffers
<1>. QED
  BY <1>1, <1>a, <1>b, <1>c

\* The mapping of roots and the ring of its keys never part, whatever order
\* the heights are anchored and proven in, and however often they come back.
THEOREM RootsKeepTheirSlots == BusSpec => []RootsMatchBuffers
<1>1. BusInit => RingsInv
  <2>. SUFFICES ASSUME BusInit PROVE RingsInv
    OBVIOUS
  <2>1. \A g \in Side :
          /\ anchorBuffer[g] = Store(NewBuffer(MaxStateRoots), InitialHeight)
          /\ gatewayBuffer[g] = NewBuffer(MaxStorageRoots)
          /\ stateRoots[g] = {InitialHeight}
          /\ storageRoots[g] = {}
    BY DEF BusInit, StateRootsInit
  <2>2. InitialHeight \in Nat \ {0}
    BY DEF InitialHeight
  <2>. QED
    BY <2>1, <2>2, NewRing, BufferAssumption DEF RingsInv, RootsMatchBuffers
<1>2. BusInv /\ RingsInv /\ [BusNext]_busVars => RingsInv'
  <2>. SUFFICES ASSUME BusInv, RingsInv, [BusNext]_busVars PROVE RingsInv'
    OBVIOUS
  <2>1. CASE StateRootsNext
    BY <2>1, RingsStep
  <2>2. CASE UNCHANGED rootVars
    BY <2>2 DEF rootVars, anchorVars, provenVars, RingsInv, RootsMatchBuffers
  <2>3. CASE \E m \in Message : MessageNext(m)
    BY <2>2, <2>3
       DEF MessageNext, DeclareMessage, ConfirmMessage, ProgressOutbox,
           ProgressOutboxWithProof, ProgressInbox, ProgressInboxWithProof,
           DeclareRevocationMessage, ConfirmRevocation,
           ProgressOutboxRevocation
  <2>. QED
    BY <2>1, <2>2, <2>3 DEF BusNext, busVars
<1>3. RingsInv => RootsMatchBuffers
  BY DEF RingsInv
<1>. QED
  BY <1>1, <1>2, <1>3, BusInvariant, PTL DEF BusSpec

-----------------------------------------------------------------------------
\* MessageBus implements AtomicTransfer: each function is one step of the
\* abstract transfer or invisible to it.  The invariant supplies what the code
\* has no way to check: the state of the other chain at that moment.
LEMMA AbstractStep ==
    ASSUME BusInv, BusInv', NEW m \in Message, MessageNext(m)
    PROVE  Abstract!Next \/ UNCHANGED <<sourceBar, targetBar>>
<1>1. /\ Source[m] \in Side /\ Target(m) \in Side
      /\ \A k \in Message : Source[k] \in Side /\ Target(k) \in Side
                            /\ Target(k) # Source[k]
  BY Ends
<1>2. \A k \in Message : Outbox(k) \in Status /\ Inbox(k) \in Status
  BY <1>1 DEF BusInv, StateRootsTypeOK, Outbox, Inbox
<1>3. /\ Agreement(m)
      /\ Agreement(m)'
  BY DEF BusInv
<1>4. ASSUME NEW s \in Status, SetOutbox(m, s)
      PROVE  /\ targetBar' = targetBar
             /\ sourceBar' = [sourceBar EXCEPT ![m] = SourceState[s]]
             /\ Inbox(m)' = Inbox(m)
  <2>1. \A k \in Message :
           /\ Inbox(k)' = Inbox(k)
           /\ Outbox(k)' = IF k = m THEN s ELSE Outbox(k)
    BY <1>1, <1>4 DEF SetOutbox, Outbox, Inbox, Target, BusInv, StateRootsTypeOK
  <2>. QED
    BY <2>1 DEF sourceBar, targetBar
<1>5. ASSUME NEW s \in Status, SetInbox(m, s)
      PROVE  /\ sourceBar' = sourceBar
             /\ targetBar' = [targetBar EXCEPT ![m] = TargetState[s]]
             /\ Outbox(m)' = Outbox(m) /\ Inbox(m)' = s
  <2>1. \A k \in Message :
           /\ Outbox(k)' = Outbox(k)
           /\ Inbox(k)' = IF k = m THEN s ELSE Inbox(k)
    BY <1>1, <1>5 DEF SetInbox, Outbox, Inbox, Target, BusInv, StateRootsTypeOK
  <2>. QED
    BY <2>1 DEF sourceBar, targetBar
<1>6. /\ sourceBar[m] = SourceState[Outbox(m)]
      /\ targetBar[m] = TargetState[Inbox(m)]
  BY DEF sourceBar, targetBar
<1>7. /\ \A s : Proves(Target(m), m, s) => Reaches(s, Outbox(m))
      /\ \A s : Proves(Source[m], m, s) => Reaches(s, Inbox(m))
  BY Ends, ProofIsPast DEF Outbox, Inbox
<1>. USE DEF Status, SourceState, TargetState, Reaches
<1>a. CASE DeclareMessage(m)
  <2>1. Abstract!Hold(m)
    BY <1>a, <1>4, <1>6 DEF DeclareMessage, Abstract!Hold
  <2>. QED
    BY <2>1 DEF Abstract!Next
<1>b. CASE ConfirmMessage(m)
  <2>1. targetBar' = targetBar
    <3>1. targetBar' = [targetBar EXCEPT ![m] = "pending"]
      BY <1>b, <1>5 DEF ConfirmMessage
    <3>2. targetBar[m] = "pending"
      BY <1>b, <1>6 DEF ConfirmMessage
    <3>. QED
      BY <3>1, <3>2 DEF targetBar
  <2>. QED
    BY <1>b, <1>5, <2>1 DEF ConfirmMessage
<1>c. CASE \E unlockSecret \in Secret : ProgressOutbox(m, unlockSecret)
  <2>1. Inbox(m) # "Revoked"
    BY <1>c, <1>3 DEF ProgressOutbox, Agreement
  <2>2. Abstract!Settle(m)
    BY <1>c, <1>2, <1>4, <1>6, <2>1 DEF ProgressOutbox, Abstract!Settle
  <2>. QED
    BY <2>2 DEF Abstract!Next
<1>d. CASE \E unlockSecret \in Secret : ProgressInbox(m, unlockSecret)
  <2>1. Outbox(m) \in {"Declared", "DeclaredRevocation", "Progressed"}
    BY <1>d, <1>2, <1>3 DEF ProgressInbox, Agreement
  <2>2. Abstract!Credit(m)
    BY <1>d, <1>5, <1>6, <2>1 DEF ProgressInbox, Abstract!Credit
  <2>. QED
    BY <2>2 DEF Abstract!Next
<1>e. CASE ProgressOutboxWithProof(m)
  <2>1. PICK s \in ProgressProofs(Outbox(m)) : Proves(Source[m], m, s)
    BY <1>e DEF ProgressOutboxWithProof
  <2>2. Outbox(m) \in {"Declared", "DeclaredRevocation"}
    BY <2>1 DEF ProgressProofs
  <2>3. Inbox(m) # "Revoked"
    <3>1. CASE Outbox(m) = "Declared"
      BY <3>1, <1>3 DEF Agreement
    <3>2. CASE Outbox(m) = "DeclaredRevocation"
      <4>1. s = "Progressed"
        BY <2>1, <3>2 DEF ProgressProofs
      <4>. QED
        BY <2>1, <4>1, <1>7
    <3>. QED
      BY <2>2, <3>1, <3>2
  <2>4. Abstract!Settle(m)
    BY <1>e, <1>2, <1>4, <1>6, <2>2, <2>3
       DEF ProgressOutboxWithProof, Abstract!Settle
  <2>. QED
    BY <2>4 DEF Abstract!Next
<1>f. CASE ProgressInboxWithProof(m)
  <2>1. Outbox(m) \in {"Declared", "DeclaredRevocation", "Progressed"}
    BY <1>f, <1>2, <1>3 DEF ProgressInboxWithProof, Agreement
  <2>2. Abstract!Credit(m)
    BY <1>f, <1>5, <1>6, <2>1 DEF ProgressInboxWithProof, Abstract!Credit
  <2>. QED
    BY <2>2 DEF Abstract!Next
<1>g. CASE DeclareRevocationMessage(m)
  <2>1. sourceBar' = [sourceBar EXCEPT ![m] = "held"] /\ targetBar' = targetBar
    BY <1>g, <1>4 DEF DeclareRevocationMessage
  <2>2. sourceBar[m] = "held"
    BY <1>g, <1>6 DEF DeclareRevocationMessage
  <2>. QED
    BY <2>1, <2>2 DEF sourceBar
<1>h. CASE ConfirmRevocation(m)
  <2>1. Inbox(m)' = "Revoked" /\ Outbox(m)' = Outbox(m)
    BY <1>h, <1>5 DEF ConfirmRevocation
  <2>2. Outbox(m) = "DeclaredRevocation"
    BY <1>h, <1>3, <2>1 DEF ConfirmRevocation, Agreement
  <2>3. Abstract!Refuse(m)
    BY <1>h, <1>5, <1>6, <2>2 DEF ConfirmRevocation, Abstract!Refuse
  <2>. QED
    BY <2>3 DEF Abstract!Next
<1>i. CASE ProgressOutboxRevocation(m)
  <2>1. Inbox(m) = "Revoked"
    BY <1>i, <1>7 DEF ProgressOutboxRevocation
  <2>2. Abstract!Refund(m)
    BY <1>i, <1>4, <1>6, <2>1 DEF ProgressOutboxRevocation, Abstract!Refund
  <2>. QED
    BY <2>2 DEF Abstract!Next
<1>. QED
  BY <1>a, <1>b, <1>c, <1>d, <1>e, <1>f, <1>g, <1>h, <1>i DEF MessageNext

THEOREM BusImplementsAtomicTransfer == BusSpec => ImplementsAtomicTransfer
<1>1. BusInit => Abstract!Init
  <2>. SUFFICES ASSUME BusInit PROVE Abstract!Init
    OBVIOUS
  <2>1. \A m \in Message : Outbox(m) = "Undeclared" /\ Inbox(m) = "Undeclared"
    BY Ends DEF BusInit, StateRootsInit, EmptyBox, Outbox, Inbox
  <2>. QED
    BY <2>1 DEF Abstract!Init, sourceBar, targetBar, SourceState, TargetState
<1>2. BusInv /\ BusInv' /\ [BusNext]_busVars => [Abstract!Next]_(Abstract!vars)
  <2>. SUFFICES ASSUME BusInv, BusInv', [BusNext]_busVars
                PROVE  Abstract!Next \/ UNCHANGED <<sourceBar, targetBar>>
    BY DEF Abstract!vars
  <2>1. CASE messageBox' = messageBox
    BY <2>1 DEF sourceBar, targetBar, Outbox, Inbox
  <2>2. CASE \E m \in Message : MessageNext(m)
    BY <2>2, AbstractStep
  <2>3. CASE StateRootsNext
    BY <2>3, <2>1 DEF StateRootsNext, MineBlock, AnchorStateRoot, ProveGateway
  <2>4. CASE UNCHANGED busVars
    BY <2>4, <2>1 DEF busVars
  <2>. QED
    BY <2>2, <2>3, <2>4 DEF BusNext
<1>. QED
  BY <1>1, <1>2, BusInvariant, PTL
     DEF BusSpec, ImplementsAtomicTransfer, Abstract!Spec
=============================================================================
