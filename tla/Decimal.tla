------------------------------ MODULE Decimal ------------------------------
(***************************************************************************)
(* sdk.Dec and sdk.Int of cosmos-sdk, which is not part of the repository, *)
(* modelled from the way x/shield uses them.  A decimal is the integer     *)
(* number of its smallest units; the SDK has 10^18 of them in one.         *)
(* x/shield only computes with decimals that are not negative.             *)
(***************************************************************************)
EXTENDS Integers

CONSTANT Precision     \* units in one

ASSUME PrecisionAssumption == Precision \in Nat \ {0}

\* NewDecFromInt and TruncateInt.
Dec(n) == n * Precision

TruncateInt(d) == d \div Precision

\* chopPrecisionAndRound: to the nearest integer, halves to the even one.
ChopRound(x) ==
  LET quo == x \div Precision
      rem == x % Precision
  IN  CASE 2 * rem < Precision -> quo
        [] 2 * rem > Precision -> quo + 1
        [] OTHER -> quo + (quo % 2)

\* Dec.Mul and Dec.Quo round, Dec.QuoInt and Dec.MulInt do not.
MulDec(d, e) == ChopRound(d * e)

QuoDec(d, e) == ChopRound((d * Precision * Precision) \div e)

QuoInt(d, n) == d \div n

MulInt(d, n) == d * n

\* sdk.MinInt and sdk.MaxInt
MinInt(m, n) == IF m <= n THEN m ELSE n

MaxInt(m, n) == IF m >= n THEN m ELSE n
=============================================================================
