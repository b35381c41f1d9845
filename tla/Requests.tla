------------------------------ MODULE Requests ------------------------------
(***************************************************************************)
(* What the composer and the redeem pool promise to their users: a request *)
(* takes its amount into custody, at most one per user and gateway, and    *)
(* from there the amount goes to that gateway or back to that user, in     *)
(* full and once.                                                          *)
(***************************************************************************)
EXTENDS Naturals

CONSTANTS User, Gateway, Request, Token, By, At, Amount, TokenOf

VARIABLES open,     \* the requests in custody
          wallet,   \* [User -> [Token -> Nat]], what each user has
          placed    \* [Gateway -> Nat], what the requests brought to each

vars == <<open, wallet, placed>>

Init ==
    /\ open = {}
    /\ wallet \in [User -> [Token -> Nat]]
    /\ placed = [g \in Gateway |-> 0]

Make(r) ==
    /\ \A s \in open : By[s] # By[r] \/ At[s] # At[r]
    /\ wallet[By[r]][TokenOf[At[r]]] >= Amount[r]
    /\ wallet' = [wallet EXCEPT ![By[r]][TokenOf[At[r]]] = @ - Amount[r]]
    /\ open' = open \cup {r}
    /\ UNCHANGED placed

Accept(r) ==
    /\ r \in open
    /\ open' = open \ {r}
    /\ placed' = [placed EXCEPT ![At[r]] = @ + Amount[r]]
    /\ UNCHANGED wallet

Return(r) ==
    /\ r \in open
    /\ open' = open \ {r}
    /\ wallet' = [wallet EXCEPT ![By[r]][TokenOf[At[r]]] = @ + Amount[r]]
    /\ UNCHANGED placed

\* The users' own transfers, which are none of the pool's business.
Receive(u, t) ==
    /\ wallet' = [wallet EXCEPT ![u][t] = @ + 1]
    /\ UNCHANGED <<open, placed>>

Spend(u, t) ==
    /\ wallet[u][t] > 0
    /\ wallet' = [wallet EXCEPT ![u][t] = @ - 1]
    /\ UNCHANGED <<open, placed>>

Next ==
    \/ \E r \in Request : Make(r) \/ Accept(r) \/ Return(r)
    \/ \E u \in User, t \in Token : Receive(u, t) \/ Spend(u, t)

Spec == Init /\ [][Next]_vars
=============================================================================
