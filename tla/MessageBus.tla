----------------------------- MODULE MessageBus -----------------------------
(***************************************************************************)
(* lib/MessageBus.sol: the two-phase message protocol between the message  *)
(* boxes of EIP20Gateway (origin) and EIP20CoGateway (auxiliary).          *)
(*                                                                         *)
(* The hash of a message covers its type hash and its gateway, so a hash   *)
(* is only ever in the outbox of its source and in the inbox of the other  *)
(* chain: messageBox[g][m] is the outbox entry where g = Source[m] and the *)
(* inbox entry where it is not.                                            *)
(***************************************************************************)
EXTENDS StateRoots

CONSTANTS
    Source,     \* Source[m]: the side that declares m
    Secret,     \* the secrets
    HashLock    \* HashLock[m]: the secret whose hash m carries

ASSUME MessageAssumption ==
    /\ Source \in [Message -> Side]
    /\ HashLock \in [Message -> Secret]

StakeMessage == {m \in Message : Source[m] = "origin"}
RedeemMessage == {m \in Message : Source[m] = "auxiliary"}

Target(m) == Remote(Source[m])

Outbox(m) == messageBox[Source[m]][m]
Inbox(m) == messageBox[Target(m)][m]

busVars == <<messageBox, rootVars>>

BusInit == StateRootsInit

-----------------------------------------------------------------------------
SetOutbox(m, s) ==
    messageBox' = [messageBox EXCEPT ![Source[m]][m] = s]

SetInbox(m, s) ==
    messageBox' = [messageBox EXCEPT ![Target(m)][m] = s]

DeclareMessage(m) ==
    /\ Outbox(m) = "Undeclared"
    /\ SetOutbox(m, "Declared")
    /\ UNCHANGED rootVars

ConfirmMessage(m) ==
    /\ Inbox(m) = "Undeclared"
    /\ Proves(Target(m), m, "Declared")
    /\ SetInbox(m, "Declared")
    /\ UNCHANGED rootVars

\* The source does not look at the target here: the secret is enough.
ProgressOutbox(m, unlockSecret) ==
    /\ HashLock[m] = unlockSecret
    /\ Outbox(m) = "Declared"
    /\ SetOutbox(m, "Progressed")
    /\ UNCHANGED rootVars

\* Mutant: a confirmed message may be progressed in spite of its revocation.
ProgressProofsIgnoringRevocation(outboxStatus) ==
    CASE outboxStatus \in {"Declared", "DeclaredRevocation"} ->
            {"Declared", "Progressed"}
      [] OTHER -> {}

\* Mutant: a revocation that came too late cannot be undone.
ProgressProofsOfDeclared(outboxStatus) ==
    IF outboxStatus = "Declared" THEN {"Declared", "Progressed"} ELSE {}

\* What the target's entry must be proven to be, given the source's entry.
ProgressProofs(outboxStatus) ==
    CASE outboxStatus = "Declared" -> {"Declared", "Progressed"}
      [] outboxStatus = "DeclaredRevocation" -> {"Progressed"}
      [] OTHER -> {}

ProgressOutboxWithProof(m) ==
    /\ \E s \in ProgressProofs(Outbox(m)) : Proves(Source[m], m, s)
    /\ SetOutbox(m, "Progressed")
    /\ UNCHANGED rootVars

ProgressInbox(m, unlockSecret) ==
    /\ HashLock[m] = unlockSecret
    /\ Inbox(m) = "Declared"
    /\ SetInbox(m, "Progressed")
    /\ UNCHANGED rootVars

ProgressInboxWithProof(m) ==
    /\ Inbox(m) = "Declared"
    /\ \E s \in {"Declared", "Progressed"} : Proves(Target(m), m, s)
    /\ SetInbox(m, "Progressed")
    /\ UNCHANGED rootVars

DeclareRevocationMessage(m) ==
    /\ Outbox(m) = "Declared"
    /\ SetOutbox(m, "DeclaredRevocation")
    /\ UNCHANGED rootVars

\* Mutant: the inbox may already be progressed.
ConfirmRevocationOfAny(m) ==
    /\ Inbox(m) \in {"Declared", "Progressed"}
    /\ Proves(Target(m), m, "DeclaredRevocation")
    /\ SetInbox(m, "Revoked")
    /\ UNCHANGED rootVars

ConfirmRevocation(m) ==
    /\ Inbox(m) = "Declared"
    /\ Proves(Target(m), m, "DeclaredRevocation")
    /\ SetInbox(m, "Revoked")
    /\ UNCHANGED rootVars

\* Mutant: a target that has confirmed the message counts as one that refused.
ProgressOutboxRevocationOfDeclared(m) ==
    /\ Outbox(m) = "DeclaredRevocation"
    /\ \E s \in {"Declared", "Revoked"} : Proves(Source[m], m, s)
    /\ SetOutbox(m, "Revoked")
    /\ UNCHANGED rootVars

ProgressOutboxRevocation(m) ==
    /\ Outbox(m) = "DeclaredRevocation"
    /\ Proves(Source[m], m, "Revoked")
    /\ SetOutbox(m, "Revoked")
    /\ UNCHANGED rootVars

MessageNext(m) ==
    \/ DeclareMessage(m)
    \/ ConfirmMessage(m)
    \/ \E unlockSecret \in Secret :
          ProgressOutbox(m, unlockSecret) \/ ProgressInbox(m, unlockSecret)
    \/ ProgressOutboxWithProof(m)
    \/ ProgressInboxWithProof(m)
    \/ DeclareRevocationMessage(m)
    \/ ConfirmRevocation(m)
    \/ ProgressOutboxRevocation(m)

\* Both boxes of every message are closed: nothing is left to do.
Closed(m) == {Outbox(m), Inbox(m)} \subseteq {"Progressed", "Revoked"}

BusNext == StateRootsNext \/ \E m \in Message : MessageNext(m)

BusSpec == BusInit /\ [][BusNext]_busVars

\* Roots are anchored and proven, and whoever can complete a transfer with a
\* proof does so.  Declaring, revoking and using a secret are choices.
BusFairness ==
    /\ \A g \in Side :
         /\ WF_busVars(MineBlock(g))
         /\ WF_busVars(AnchorStateRoot(g, Len(chain[Remote(g)])))
         /\ WF_busVars(\E h \in DOMAIN chain[Remote(g)] : ProveGateway(g, h))
    /\ \A m \in Message :
         /\ WF_busVars(ConfirmMessage(m))
         /\ WF_busVars(ProgressOutboxWithProof(m))
         /\ WF_busVars(ProgressInboxWithProof(m))
         /\ WF_busVars(ConfirmRevocation(m))
         /\ WF_busVars(ProgressOutboxRevocation(m))

FairBusSpec == BusSpec /\ BusFairness

-----------------------------------------------------------------------------
\* The order of statuses an entry can pass through, in either kind of box.
Reaches(s, t) ==
    \/ s = t
    \/ s = "Undeclared"
    \/ s = "Declared" /\ t # "Undeclared"
    \/ s = "DeclaredRevocation" /\ t \in {"Progressed", "Revoked"}

\* A proven root is a past of the other chain, never a future or a fork: every
\* entry it shows is one from which the present entry was reached
\* (MessageBus.sol compares with ==, so an old entry still proves).
RootsArePast ==
    \A g \in Side : \A h \in storageRoots[g] :
        /\ h \in DOMAIN chain[Remote(g)]
        /\ \A m \in Message :
              Reaches(chain[Remote(g)][h][m], messageBox[Remote(g)][m])

\* Both chains never close a message in opposite ways: no value is returned on
\* the source once the target has paid, and none is kept once it has refused
\* (progressInbox/confirmRevocation against progressOutbox/
\* progressOutboxRevocation, each acting on a stale view of the other chain).
Atomicity ==
    \A m \in Message :
        /\ ~(Outbox(m) = "Revoked" /\ Inbox(m) # "Revoked")
        /\ ~(Inbox(m) = "Revoked" /\ Outbox(m) = "Progressed")

\* Once a revocation is seen by a block, only the target's answer decides: the
\* source ends Progressed exactly if the target had progressed before.
RevocationIsAnswered ==
    \A m \in Message :
        (\E h \in DOMAIN chain[Source[m]] :
            chain[Source[m]][h][m] = "DeclaredRevocation")
        => /\ Outbox(m) = "Progressed" => Inbox(m) = "Progressed"
           /\ Outbox(m) = "Revoked" => Inbox(m) = "Revoked"

\* "Messages can also be reverted if they are not yet completed on the target
\* chain": a declared revocation is answered.
RevocationCompletes ==
    \A m \in Message : Outbox(m) = "DeclaredRevocation" ~> Closed(m)

\* MessageBus implements AtomicTransfer: the outbox entry says where the value
\* is, the inbox entry what the target has decided.
SourceState ==
    [Undeclared |-> "idle", Declared |-> "held", DeclaredRevocation |-> "held",
     Progressed |-> "settled", Revoked |-> "refunded"]

TargetState ==
    [Undeclared |-> "pending", Declared |-> "pending",
     DeclaredRevocation |-> "pending",
     Progressed |-> "credited", Revoked |-> "refused"]

sourceBar == [m \in Message |-> SourceState[Outbox(m)]]

targetBar == [m \in Message |-> TargetState[Inbox(m)]]

Abstract == INSTANCE AtomicTransfer WITH source <- sourceBar, target <- targetBar

ImplementsAtomicTransfer == Abstract!Spec
=============================================================================
