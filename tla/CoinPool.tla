------------------------------ MODULE CoinPool ------------------------------
(***************************************************************************)
(* What OST prime promises on the whole: it holds either the base coin or  *)
(* the token of everything that was ever minted, and the tokens that       *)
(* others hold can always be unwrapped and the coins that they hold always *)
(* be wrapped.                                                             *)
(***************************************************************************)
EXTENDS Integers

CONSTANT TokensMax  \* TOKENS_MAX, the base coins there are; a natural number

VARIABLES open,    \* the contract was paid all base coins
          coins,   \* the base coins the contract holds
          tokens,  \* the tokens the contract holds
          supply   \* all tokens

vars == <<open, coins, tokens, supply>>

TypeOK ==
    /\ open \in BOOLEAN
    /\ coins \in Nat
    /\ tokens \in Nat
    /\ supply \in Nat

Init == open = FALSE /\ coins = 0 /\ tokens = 0 /\ supply = 0

Fill ==
    /\ ~open
    /\ open' = TRUE
    /\ coins' = TokensMax
    /\ UNCHANGED <<tokens, supply>>

\* Tokens become coins: others hold n tokens at least.
Unwrap(n) ==
    /\ open
    /\ n =< supply - tokens
    /\ coins' = coins - n
    /\ tokens' = tokens + n
    /\ UNCHANGED <<open, supply>>

\* Coins become tokens: others hold n coins at least.
Wrap(n) ==
    /\ open
    /\ n =< TokensMax - coins
    /\ coins' = coins + n
    /\ tokens' = tokens - n
    /\ UNCHANGED <<open, supply>>

\* Tokens are minted for the contract and their coins are paid out.
Mint(n) ==
    /\ open
    /\ supply + n =< TokensMax
    /\ coins' = coins - n
    /\ tokens' = tokens + n
    /\ supply' = supply + n
    /\ UNCHANGED open

\* Tokens that others hold are burnt.
Burn(n) ==
    /\ open
    /\ n =< supply - tokens
    /\ supply' = supply - n
    /\ UNCHANGED <<open, coins, tokens>>

\* Others give tokens away to the contract.
Receive(n) ==
    /\ n =< supply - tokens
    /\ tokens' = tokens + n
    /\ UNCHANGED <<open, coins, supply>>

Next ==
    \/ Fill
    \/ \E n \in 0 .. TokensMax : Unwrap(n) \/ Wrap(n) \/ Mint(n) \/ Burn(n) \/ Receive(n)

Spec == Init /\ [][Next]_vars

\* What is minted and not yet minted is covered: all tokens that others hold
\* can be unwrapped and the rest of TOKENS_MAX can still be minted, and the
\* contract has the tokens for all coins that others hold (unwrap, wrap).
Covered ==
    IF open
      THEN /\ supply - tokens + (TokensMax - supply) =< coins
           /\ TokensMax - coins =< tokens
           /\ tokens =< supply
           /\ supply =< TokensMax
           /\ coins =< TokensMax
      ELSE coins = 0 /\ tokens = 0 /\ supply = 0
=============================================================================
