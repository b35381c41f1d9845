----------------------------- MODULE MetaBlock -----------------------------
(***************************************************************************)
(* The arithmetic of MetaBlock.sol, which both cores use.                  *)
(***************************************************************************)
EXTENDS Naturals, FiniteSetsExt, Functions

\* requiredWeightForSuperMajority: two thirds, rounded up.
RequiredWeight(total) ==
    (total * 2) \div 3 + (IF (total * 2) % 3 > 0 THEN 1 ELSE 0)

\* The sum of a function from a finite set to the naturals.
SumOf(amounts) == SumFunctionOnSet(amounts, DOMAIN amounts)
=============================================================================
