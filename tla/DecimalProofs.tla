--------------------------- MODULE DecimalProofs ---------------------------
(***************************************************************************)
(* What the proofs use of Decimal: how far rounding takes a quotient.      *)
(***************************************************************************)
EXTENDS Decimal, Sums

\* Multiplication keeps the order.
LEMMA TimesOrder ==
  \A a, b, c \in Nat : a <= b => a * c <= b * c
  OBVIOUS

\* chopPrecisionAndRound adds at most half a unit.
LEMMA ChopRoundHalf ==
  ASSUME NEW x \in Nat
  PROVE  ChopRound(x) \in Nat /\ 2 * (ChopRound(x) * Precision) <= 2 * x + Precision
  <1>1. PICK p \in Nat : p = Precision /\ p > 0
    BY PrecisionAssumption
  <1>2. PICK q \in Nat : q = x \div p
    <2>1. x \div p \in Nat
      BY <1>1
    <2>2. QED
      BY <2>1
  <1>3. PICK r \in Nat : r = x % p /\ r < p /\ x = p * q + r
    BY <1>1, <1>2
  <1>4. PICK b \in 0..1 : b = q % 2
    BY <1>2
  <1>5. ChopRound(x) = CASE 2 * r < p -> q [] 2 * r > p -> q + 1 [] OTHER -> q + b
    BY <1>1, <1>2, <1>3, <1>4 DEF ChopRound
  <1>6. PICK m \in Nat : m = p * q /\ q * p = m /\ (q + 1) * p = m + p
    BY <1>1
  <1>7. CASE 2 * r < p
    BY <1>1, <1>3, <1>5, <1>6, <1>7
  <1>8. CASE 2 * r > p
    BY <1>1, <1>3, <1>5, <1>6, <1>8
  <1>9. CASE 2 * r = p
    <2>1. ChopRound(x) = q \/ ChopRound(x) = q + 1
      BY <1>4, <1>5, <1>9
    <2>2. QED
      BY <1>1, <1>3, <1>6, <1>9, <2>1
  <1>10. QED
    BY <1>1, <1>7, <1>8, <1>9

\* A quotient of two integers is rounded by at most half a unit.
LEMMA QuoDecHalf ==
  ASSUME NEW n \in Nat, NEW t \in Nat, t > 0
  PROVE  LET share == QuoDec(Dec(n), Dec(t))
         IN  share \in Nat /\ 2 * (share * t) <= 2 * (n * Precision) + t
  <1>1. PICK p \in Nat : p = Precision /\ p > 0
    BY PrecisionAssumption
  <1>2. PICK b \in Nat : b = t * p /\ b > 0
    BY <1>1
  <1>3. PICK a \in Nat : a = n * p * p * p
    BY <1>1
  <1>4. PICK x \in Nat : x = a \div b /\ x * b <= a
    <2>1. (a \div b) \in Nat /\ (a \div b) * b <= a
      BY <1>2
    <2>2. QED
      BY <2>1
  <1>5. QuoDec(Dec(n), Dec(t)) = ChopRound(x)
    BY <1>1, <1>2, <1>3, <1>4 DEF QuoDec, Dec
  <1>6. PICK q \in Nat : q = ChopRound(x) /\ 2 * (q * p) <= 2 * x + p
    BY <1>1, ChopRoundHalf
  <1>7. (2 * (q * p)) * b <= (2 * x + p) * b
    <2>1. 2 * (q * p) \in Nat /\ 2 * x + p \in Nat
      BY <1>1
    <2>2. QED
      BY <1>2, <1>6, <2>1, TimesOrder
  <1>8. (2 * x + p) * b = 2 * (x * b) + p * b
    BY <1>1
  <1>9. (2 * (q * p)) * b <= 2 * a + p * b
    <2>1. PICK u \in Nat : u = x * b
      BY <1>2
    <2>2. PICK v \in Nat : v = p * b
      BY <1>1, <1>2
    <2>3. PICK w \in Nat : w = (2 * (q * p)) * b
      BY <1>1, <1>2
    <2>4. QED
      BY <1>4, <1>7, <1>8, <2>1, <2>2, <2>3
  <1>10. /\ (2 * (q * p)) * b = (2 * (q * t)) * (p * p)
         /\ 2 * a + p * b = (2 * (n * p) + t) * (p * p)
    BY <1>1, <1>2, <1>3
  <1>11. /\ 2 * (q * t) \in Nat /\ 2 * (n * p) + t \in Nat
         /\ p * p \in Nat /\ p * p > 0
    BY <1>1
  <1>12. (2 * (q * t)) * (p * p) <= (2 * (n * p) + t) * (p * p)
    BY <1>9, <1>10
  <1>13. 2 * (q * t) <= 2 * (n * p) + t
    BY <1>11, <1>12, CancelFactor
  <1>14. QED
    BY <1>1, <1>5, <1>6, <1>13

\* Decimals of integers, and the arithmetic on them, are not negative.
LEMMA DecNat ==
  /\ \A n \in Nat : Dec(n) \in Nat
  /\ \A m, n \in Int : Dec(m + n) = Dec(m) + Dec(n)
  /\ \A m, n \in Int : Dec(m - n) = Dec(m) - Dec(n)
  /\ \A n \in Int : Dec(n) \in Int
  BY PrecisionAssumption DEF Dec

\* A product is not negative.
LEMMA MulDecNat ==
  ASSUME NEW d \in Nat, NEW e \in Nat
  PROVE  MulDec(d, e) \in Nat
  <1>1. d * e \in Nat
    OBVIOUS
  <1>2. QED
    BY <1>1, ChopRoundHalf DEF MulDec

\* A quotient is not negative.
LEMMA QuoDecNat ==
  ASSUME NEW d \in Nat, NEW e \in Nat, e > 0
  PROVE  QuoDec(d, e) \in Nat
  <1>1. PICK n \in Nat : n = d * Precision * Precision
    BY PrecisionAssumption
  <1>2. n \div e \in Nat
    OBVIOUS
  <1>3. QED
    BY <1>1, <1>2, ChopRoundHalf DEF QuoDec

\* TruncateInt rounds down.
LEMMA TruncateBelow ==
  ASSUME NEW d \in Nat
  PROVE  TruncateInt(d) \in Nat /\ Dec(TruncateInt(d)) <= d
  <1>1. PICK p \in Nat : p = Precision /\ p > 0
    BY PrecisionAssumption
  <1>2. (d \div p) \in Nat /\ (d \div p) * p <= d
    BY <1>1
  <1>3. QED
    BY <1>1, <1>2 DEF TruncateInt, Dec

\* chopPrecisionAndRound takes away at most half a unit.
LEMMA ChopRoundBelow ==
  ASSUME NEW x \in Nat
  PROVE  2 * x <= 2 * (ChopRound(x) * Precision) + Precision
  <1>1. PICK p \in Nat : p = Precision /\ p > 0
    BY PrecisionAssumption
  <1>2. PICK q \in Nat : q = x \div p
    <2>1. x \div p \in Nat
      BY <1>1
    <2>2. QED
      BY <2>1
  <1>3. PICK r \in Nat : r = x % p /\ r < p /\ x = p * q + r
    BY <1>1, <1>2
  <1>4. PICK b \in 0..1 : b = q % 2
    BY <1>2
  <1>5. ChopRound(x) = CASE 2 * r < p -> q [] 2 * r > p -> q + 1 [] OTHER -> q + b
    BY <1>1, <1>2, <1>3, <1>4 DEF ChopRound
  <1>6. PICK m \in Nat : m = p * q /\ q * p = m /\ (q + 1) * p = m + p
    BY <1>1
  <1>7. CASE 2 * r < p
    BY <1>1, <1>3, <1>5, <1>6, <1>7
  <1>8. CASE 2 * r > p
    BY <1>1, <1>3, <1>5, <1>6, <1>8
  <1>9. CASE 2 * r = p
    <2>1. ChopRound(x) = q \/ ChopRound(x) = q + 1
      BY <1>4, <1>5, <1>9
    <2>2. QED
      BY <1>1, <1>3, <1>6, <1>9, <2>1
  <1>10. QED
    BY <1>1, <1>7, <1>8, <1>9

\* The product of an integer and a decimal is not rounded.
LEMMA MulDecExact ==
  ASSUME NEW c \in Nat, NEW e \in Nat
  PROVE  MulDec(Dec(c), e) = c * e
  <1>1. PICK p \in Nat : p = Precision /\ p > 0
    BY PrecisionAssumption
  <1>2. PICK k \in Nat : k = c * e
    OBVIOUS
  <1>3. Dec(c) * e = k * p /\ k * p \in Nat
    BY <1>1, <1>2 DEF Dec
  <1>4. PICK q \in Nat : /\ q = ChopRound(k * p)
                         /\ 2 * (q * p) <= 2 * (k * p) + p
                         /\ 2 * (k * p) <= 2 * (q * p) + p
    BY <1>1, <1>3, ChopRoundHalf, ChopRoundBelow
  <1>5. /\ 2 * (q * p) = (2 * q) * p /\ 2 * (k * p) + p = (2 * k + 1) * p
        /\ 2 * (k * p) = (2 * k) * p /\ 2 * (q * p) + p = (2 * q + 1) * p
    BY <1>1
  <1>6. (2 * q) * p <= (2 * k + 1) * p /\ (2 * k) * p <= (2 * q + 1) * p
    BY <1>4, <1>5
  <1>7. 2 * q \in Nat /\ 2 * k + 1 \in Nat /\ 2 * k \in Nat /\ 2 * q + 1 \in Nat
    OBVIOUS
  <1>8. 2 * q <= 2 * k + 1 /\ 2 * k <= 2 * q + 1
    BY <1>1, <1>6, <1>7, CancelFactor
  <1>9. q = k
    BY <1>8
  <1>10. QED
    BY <1>2, <1>3, <1>4, <1>9 DEF MulDec

\* TruncateInt takes away less than a unit.
LEMMA TruncateAbove ==
  ASSUME NEW d \in Nat
  PROVE  TruncateInt(d) \in Nat /\ d < (TruncateInt(d) + 1) * Precision
  <1>1. PICK p \in Nat : p = Precision /\ p > 0
    BY PrecisionAssumption
  <1>2. PICK q \in Nat : q = d \div p
    <2>1. d \div p \in Nat
      BY <1>1
    <2>2. QED
      BY <2>1
  <1>3. PICK r \in Nat : r = d % p /\ r < p /\ d = p * q + r
    BY <1>1, <1>2
  <1>4. (q + 1) * p = p * q + p
    BY <1>1
  <1>5. PICK m \in Nat : m = p * q
    BY <1>1
  <1>6. d < (q + 1) * p
    BY <1>1, <1>3, <1>4, <1>5
  <1>7. QED
    BY <1>1, <1>2, <1>6 DEF TruncateInt

\* The quotient of an integer by one that is not smaller is at most one.
LEMMA QuoDecAtMostOne ==
  ASSUME NEW n \in Nat, NEW t \in Nat, t > 0, n <= t
  PROVE  QuoDec(Dec(n), Dec(t)) \in Nat /\ QuoDec(Dec(n), Dec(t)) <= Precision
  <1>1. PICK p \in Nat : p = Precision /\ p > 0
    BY PrecisionAssumption
  <1>2. PICK q \in Nat : q = QuoDec(Dec(n), Dec(t)) /\ 2 * (q * t) <= 2 * (n * p) + t
    BY <1>1, QuoDecHalf
  <1>3. n * p <= t * p
    BY <1>1, TimesOrder
  <1>4. PICK u \in Nat, v \in Nat, w \in Nat : u = n * p /\ v = t * p /\ w = q * t
    BY <1>1
  <1>5. 2 * w <= 2 * v + t
    BY <1>2, <1>3, <1>4
  <1>6. 2 * w = (2 * q) * t /\ 2 * v + t = (2 * p + 1) * t
    BY <1>1, <1>4
  <1>7. 2 * q \in Nat /\ 2 * p + 1 \in Nat
    OBVIOUS
  <1>8. 2 * q <= 2 * p + 1
    BY <1>5, <1>6, <1>7, CancelFactor
  <1>9. QED
    BY <1>1, <1>2, <1>8

\* A quotient of two integers loses at most half a unit and one in the last digit.
LEMMA QuoDecBelow ==
  ASSUME NEW n \in Nat, NEW t \in Nat, t > 0
  PROVE  2 * ((n * Precision) * Precision)
           < 2 * ((QuoDec(Dec(n), Dec(t)) * t) * Precision) + Precision * t + 2 * t
  <1>1. PICK p \in Nat : p = Precision /\ p > 0
    BY PrecisionAssumption
  <1>2. PICK b \in Nat : b = t * p /\ b > 0
    BY <1>1
  <1>3. PICK a \in Nat : a = n * p * p * p
    BY <1>1
  <1>4. PICK x \in Nat : x = a \div b
    <2>1. (a \div b) \in Nat
      BY <1>2
    <2>2. QED
      BY <2>1
  <1>5. a < x * b + b
    <2>1. PICK r \in Nat : r = a % b /\ r < b /\ a = b * x + r
      BY <1>2, <1>4
    <2>2. PICK m \in Nat : m = b * x /\ m = x * b
      OBVIOUS
    <2>3. QED
      BY <2>1, <2>2
  <1>6. QuoDec(Dec(n), Dec(t)) = ChopRound(x)
    BY <1>1, <1>2, <1>3, <1>4 DEF QuoDec, Dec
  <1>7. PICK q \in Nat : q = ChopRound(x) /\ 2 * x <= 2 * (q * p) + p
    BY <1>1, ChopRoundHalf, ChopRoundBelow
  <1>8. /\ a = ((n * p) * p) * p /\ x * b + b = (x * t + t) * p
    BY <1>1, <1>2, <1>3
  <1>9. (n * p) * p < x * t + t
    <2>1. PICK u \in Nat, v \in Nat : u = (n * p) * p /\ v = x * t + t
      BY <1>1
    <2>2. ~ (v <= u)
      <3>1. SUFFICES ASSUME v <= u PROVE FALSE
        OBVIOUS
      <3>2. v * p <= u * p
        BY <3>1, TimesOrder
      <3>3. PICK y \in Nat, z \in Nat : y = u * p /\ z = v * p
        OBVIOUS
      <3>4. y < z
        BY <1>5, <1>8, <2>1, <3>3
      <3>5. QED
        BY <3>2, <3>3, <3>4
    <2>3. QED
      BY <2>1, <2>2
  <1>10. (2 * x) * t <= (2 * (q * p) + p) * t
    <2>1. 2 * x \in Nat /\ 2 * (q * p) + p \in Nat
      OBVIOUS
    <2>2. QED
      BY <1>7, <2>1, TimesOrder
  <1>11. (2 * x) * t = 2 * (x * t) /\ (2 * (q * p) + p) * t = 2 * ((q * t) * p) + p * t
    OBVIOUS
  <1>12. PICK u \in Nat, v \in Nat, w \in Nat, z \in Nat :
           u = (n * p) * p /\ v = x * t /\ w = (q * t) * p /\ z = p * t
    OBVIOUS
  <1>13. 2 * u < 2 * w + z + 2 * t
    BY <1>9, <1>10, <1>11, <1>12
  <1>14. QED
    BY <1>1, <1>6, <1>7, <1>12, <1>13
=============================================================================
