------------------------------ MODULE OSTPrime ------------------------------
(***************************************************************************)
(* OSTPrime, the utility token that is the base coin of its auxiliary      *)
(* chain at the same time.  The genesis holds TokensMax coins, which the   *)
(* contract has to be paid before anything is minted.  The ledger that it  *)
(* inherits from UtilityToken is external.                                 *)
(***************************************************************************)
EXTENDS Naturals, FiniteSets, Functions

CONSTANTS User, This, CoGateway, Genesis,
          TokensMax  \* also the supply of the value token on origin

\* Everybody but the contract itself.
Others == User \cup {CoGateway}
Account == Others \cup {This}

\* There are finitely many addresses, and those of contracts are their own.
ASSUME PrimeAssumption ==
    /\ IsFiniteSet(User)
    /\ This \notin Others /\ CoGateway \notin User
    /\ Genesis \in User
    /\ TokensMax \in Nat

VARIABLES initialized, balances, totalSupply,
          coins  \* [Account -> Nat], the base coin of each account

primeVars == <<initialized, balances, totalSupply, coins>>

PrimeTypeOK ==
    /\ initialized \in BOOLEAN
    /\ balances \in [Account -> Nat]
    /\ totalSupply \in Nat
    /\ coins \in [Account -> Nat]

PrimeInit ==
    /\ initialized = FALSE
    /\ balances = [a \in Account |-> 0]
    /\ totalSupply = 0
    /\ coins = [a \in Account |-> IF a = Genesis THEN TokensMax ELSE 0]

Backs(b, a, n) == b[a] >= n

Moved(b, from, to, n) ==
    LET paid == [b EXCEPT ![from] = @ - n]
    IN  [paid EXCEPT ![to] = @ + n]

\* The two assertions of the code: a call that fails one is lost.
UnwrapAssert(n) == coins[This] >= n
WrapAssert(n) == balances[This] >= n

\* All coins there are have to be paid in one call, once.
Initialize(a) ==
    /\ ~initialized
    /\ Backs(coins, a, TokensMax)
    /\ initialized' = TRUE
    /\ coins' = Moved(coins, a, This, TokensMax)
    /\ UNCHANGED <<balances, totalSupply>>

\* Mutant: the coins are paid and the tokens stay where they were.
UnwrapKeeping(a, n) ==
    /\ initialized
    /\ Backs(balances, a, n)
    /\ UnwrapAssert(n)
    /\ coins' = Moved(coins, This, a, n)
    /\ UNCHANGED <<initialized, balances, totalSupply>>

Unwrap(a, n) ==
    /\ initialized
    /\ Backs(balances, a, n)
    /\ UnwrapAssert(n)
    /\ balances' = Moved(balances, a, This, n)
    /\ coins' = Moved(coins, This, a, n)
    /\ UNCHANGED <<initialized, totalSupply>>

Wrap(a, n) ==
    /\ initialized
    /\ Backs(coins, a, n)
    /\ WrapAssert(n)
    /\ balances' = Moved(balances, This, a, n)
    /\ coins' = Moved(coins, a, This, n)
    /\ UNCHANGED <<initialized, totalSupply>>

\* Mutant: the tokens are minted for the account that is paid the coins.
IncreaseSupplyTwice(a, n) ==
    /\ initialized
    /\ totalSupply + n =< TokensMax
    /\ Backs(coins, This, n)
    /\ balances' = [balances EXCEPT ![a] = @ + n]
    /\ totalSupply' = totalSupply + n
    /\ coins' = Moved(coins, This, a, n)
    /\ UNCHANGED initialized

\* The co-gateway mints: only what was staked on origin, which is never more
\* than the value tokens there are.
IncreaseSupply(a, n) ==
    /\ initialized
    /\ totalSupply + n =< TokensMax
    /\ Backs(coins, This, n)
    /\ balances' = [balances EXCEPT ![This] = @ + n]
    /\ totalSupply' = totalSupply + n
    /\ coins' = Moved(coins, This, a, n)
    /\ UNCHANGED initialized

\* The co-gateway burns what was redeemed to it.
DecreaseSupply(n) ==
    /\ initialized
    /\ Backs(balances, CoGateway, n)
    /\ balances' = [balances EXCEPT ![CoGateway] = @ - n]
    /\ totalSupply' = totalSupply - n
    /\ UNCHANGED <<initialized, coins>>

\* External: transfers of tokens, to any account, and of coins, which the
\* contract takes by wrap and initialize alone.  The co-gateway takes part with
\* what is redeemed to it and the bounties and penalties it passes on.
Transfer(a, to, n) ==
    /\ Backs(balances, a, n)
    /\ balances' = Moved(balances, a, to, n)
    /\ UNCHANGED <<initialized, totalSupply, coins>>

TransferCoins(a, to, n) ==
    /\ Backs(coins, a, n)
    /\ coins' = Moved(coins, a, to, n)
    /\ UNCHANGED <<initialized, balances, totalSupply>>

PrimeNext ==
    \/ \E a \in User : Initialize(a)
    \/ \E n \in 1 .. TokensMax :
         \/ DecreaseSupply(n)
         \/ \E a \in User : Unwrap(a, n) \/ Wrap(a, n) \/ IncreaseSupply(a, n)
         \/ \E a \in Others :
              \/ \E to \in Account \ {a} : Transfer(a, to, n)
              \/ \E to \in Others \ {a} : TransferCoins(a, to, n)

PrimeSpec == PrimeInit /\ [][PrimeNext]_primeVars

-----------------------------------------------------------------------------
\* No account can make an assertion of unwrap or wrap fail, and nothing that
\* the gateway has confirmed fails to be minted for want of coins: whatever
\* tokens and coins the accounts hold, together they can be exchanged.
AssertsHold ==
    initialized =>
        /\ UnwrapAssert(SumFunctionOnSet(balances, Others))
        /\ WrapAssert(SumFunctionOnSet(coins, Others))
        /\ coins[This] >= TokensMax - totalSupply

\* The contract keeps the promise of CoinPool.
P == INSTANCE CoinPool WITH
        open <- initialized, coins <- coins[This],
        tokens <- balances[This], supply <- totalSupply
ImplementsCoinPool == P!Spec
=============================================================================
