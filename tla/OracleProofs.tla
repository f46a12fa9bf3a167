---------------------------- MODULE OracleProofs ----------------------------
(***************************************************************************)
(* Proofs about Oracle, for any accounts, tasks, parameters and inputs.    *)
(***************************************************************************)
EXTENDS Oracle, Sums

-----------------------------------------------------------------------------
(* Coins: they stay coins, and sums of coins are coins.                    *)

\* Coins are closed under addition, and under the subtractions the code makes.
LEMMA CoinsClosed ==
  ASSUME NEW a \in Coins, NEW b \in Coins
  PROVE  /\ NoCoins \in Coins
         /\ Plus(a, b) \in Coins
         /\ Covers(a, b) => Minus(a, b) \in Coins
  BY DEF Coins, NoCoins, Plus, Minus, Covers

\* The laws of addition and subtraction the proofs use.
LEMMA PlusLaws ==
  ASSUME NEW a \in Coins, NEW b \in Coins, NEW c \in Coins
  PROVE  /\ Plus(a, b) = Plus(b, a)
         /\ Plus(Plus(a, b), c) = Plus(Plus(a, c), b)
         /\ Minus(Plus(a, b), a) = b
         /\ Covers(a, c) => Minus(Plus(a, b), c) = Plus(Minus(a, c), b)
  <1>1. Plus(a, b) = Plus(b, a)
    BY DEF Coins, Plus
  <1>2. Plus(Plus(a, b), c) = Plus(Plus(a, c), b)
    BY DEF Coins, Plus
  <1>3. Minus(Plus(a, b), a) = b
    BY DEF Coins, Plus, Minus
  <1>4. Minus(Plus(a, b), c) = Plus(Minus(a, c), b)
    BY DEF Coins, Plus, Minus
  <1>5. QED
    BY <1>1, <1>2, <1>3, <1>4

\* A finite sum of coins is coins.
LEMMA SumCoinsType ==
  ASSUME NEW S, IsFiniteSet(S), NEW f, \A x \in S : f[x] \in Coins
  PROVE  SumCoins(f, S) \in Coins
  <1>1. ASSUME NEW d \in Denoms
        PROVE  SumFunctionOnSet([x \in S |-> f[x][d]], S) \in Nat
    <2> DEFINE g == [x \in S |-> f[x][d]]
    <2>1. \A x \in S : g[x] \in Nat
      BY DEF Coins
    <2> HIDE DEF g
    <2>2. SumFunctionOnSet(g, S) \in Nat
      BY <2>1, SumNat
    <2>3. QED
      BY <2>2 DEF g
  <1>2. QED
    BY <1>1 DEF SumCoins, Coins

\* The first coin of a coin set that is not empty has a positive amount.
LEMMA FirstAmountType ==
  ASSUME NEW c \in Coins, NEW d \in Denoms, c[d] > 0
  PROVE  FirstAmount(c) \in Nat /\ FirstAmount(c) > 0
  <1> DEFINE P == {e \in Denoms : c[e] > 0}
  <1>1. P \subseteq Nat /\ P # {}
    BY DenomsAssumption
  <1>2. PICK e \in P : \A x \in P : e <= x
    BY <1>1, LeastNat
  <1>3. IsFirstDenom(c, e)
    BY <1>2 DEF IsFirstDenom
  <1> DEFINE first == CHOOSE x \in Denoms : IsFirstDenom(c, x)
  <1>4. first \in Denoms /\ IsFirstDenom(c, first)
    BY <1>3
  <1>5. QED
    BY <1>4 DEF FirstAmount, IsFirstDenom, Coins

\* Two functions that agree on S have the same sum.
LEMMA SumCoinsEqual ==
  ASSUME NEW S, IsFiniteSet(S), NEW f, NEW g, \A x \in S : f[x] = g[x]
  PROVE  SumCoins(f, S) = SumCoins(g, S)
  <1>1. ASSUME NEW d
        PROVE  [x \in S |-> f[x][d]] = [x \in S |-> g[x][d]]
    OBVIOUS
  <1>2. QED
    BY <1>1 DEF SumCoins

\* Nothing adds up to no coins.
LEMMA SumCoinsEmpty ==
  ASSUME NEW f
  PROVE  SumCoins(f, {}) = NoCoins
  BY SumEmpty DEF SumCoins, NoCoins

\* An element is taken out of the sum.
LEMMA SumCoinsRemove ==
  ASSUME NEW S, IsFiniteSet(S), NEW f, \A x \in S : f[x] \in Coins, NEW y \in S
  PROVE  SumCoins(f, S) = Plus(f[y], SumCoins(f, S \ {y}))
  <1>1. ASSUME NEW d \in Denoms
        PROVE  SumCoins(f, S)[d] = f[y][d] + SumCoins(f, S \ {y})[d]
    <2> DEFINE g == [x \in S |-> f[x][d]]
               h == [x \in S \ {y} |-> f[x][d]]
    <2>1. /\ \A x \in S : g[x] \in Nat
          /\ \A x \in S \ {y} : h[x] = g[x]
          /\ g[y] = f[y][d]
      BY DEF Coins
    <2>2. SumCoins(f, S)[d] = SumFunctionOnSet(g, S)
          /\ SumCoins(f, S \ {y})[d] = SumFunctionOnSet(h, S \ {y})
      BY DEF SumCoins
    <2> HIDE DEF g, h
    <2>3. IsFiniteSet(S \ {y})
      BY FS_RemoveElement
    <2>4. SumFunctionOnSet(h, S \ {y}) = SumFunctionOnSet(g, S \ {y})
      BY <2>1, <2>3, SumEqual
    <2>5. SumFunctionOnSet(g, S) = g[y] + SumFunctionOnSet(g, S \ {y})
      BY <2>1, SumRemove
    <2>6. QED
      BY <2>1, <2>2, <2>4, <2>5
  <1>2. DOMAIN SumCoins(f, S) = Denoms
        /\ SumCoins(f, S) = [d \in Denoms |-> SumCoins(f, S)[d]]
    BY DEF SumCoins
  <1>3. QED
    BY <1>1, <1>2 DEF Plus

\* Part of the set is taken out of the sum.
LEMMA SumCoinsPart ==
  ASSUME NEW S, IsFiniteSet(S), NEW f, \A x \in S : f[x] \in Coins, NEW R \in SUBSET S
  PROVE  /\ SumCoins(f, R) \in Coins /\ SumCoins(f, S \ R) \in Coins
         /\ SumCoins(f, S) = Plus(SumCoins(f, S \ R), SumCoins(f, R))
  <1>0. IsFiniteSet(R) /\ IsFiniteSet(S \ R)
    BY FS_Subset, FS_Difference
  <1>1. SumCoins(f, R) \in Coins /\ SumCoins(f, S \ R) \in Coins
    BY <1>0, SumCoinsType
  <1>2. ASSUME NEW d \in Denoms
        PROVE  SumCoins(f, S)[d] = SumCoins(f, S \ R)[d] + SumCoins(f, R)[d]
    <2> DEFINE g == [x \in S |-> f[x][d]]
               h == [x \in S \ R |-> f[x][d]]
               k == [x \in R |-> f[x][d]]
    <2>1. /\ \A x \in S : g[x] \in Nat
          /\ \A x \in S \ R : h[x] = g[x]
          /\ \A x \in R : k[x] = g[x]
      BY DEF Coins
    <2>2. /\ SumCoins(f, S)[d] = SumFunctionOnSet(g, S)
          /\ SumCoins(f, S \ R)[d] = SumFunctionOnSet(h, S \ R)
          /\ SumCoins(f, R)[d] = SumFunctionOnSet(k, R)
      BY DEF SumCoins
    <2> HIDE DEF g, h, k
    <2>3. /\ SumFunctionOnSet(h, S \ R) = SumFunctionOnSet(g, S \ R)
          /\ SumFunctionOnSet(k, R) = SumFunctionOnSet(g, R)
      BY <1>0, <2>1, SumEqual
    <2>4. SumFunctionOnSet(g, S) = SumFunctionOnSet(g, S \ R) + SumFunctionOnSet(g, R)
      BY <2>1, SumDifference
    <2>5. QED
      BY <2>2, <2>3, <2>4
  <1>3. SumCoins(f, S) = [d \in Denoms |-> SumCoins(f, S)[d]]
    BY DEF SumCoins
  <1>4. QED
    BY <1>1, <1>2, <1>3 DEF Plus

\* The coins change at one element, which may be new, or leave the sum.
LEMMA SumCoinsChange ==
  ASSUME NEW S, IsFiniteSet(S), NEW f, \A x \in S : f[x] \in Coins,
         NEW y, NEW g, g[y] \in Coins, \A x \in S \ {y} : g[x] = f[x]
  PROVE  /\ SumCoins(f, S) \in Coins
         /\ SumCoins(f, S \ {y}) \in Coins
         /\ Covers(SumCoins(f, S), SumCoins(f, S \ {y}))
         /\ y \in S => SumCoins(f, S) = Plus(f[y], SumCoins(f, S \ {y}))
         /\ SumCoins(g, S \cup {y}) = Plus(g[y], SumCoins(f, S \ {y}))
  <1> DEFINE rest == SumCoins(f, S \ {y})
             all == SumCoins(f, S)
  <1>0. IsFiniteSet(S \ {y}) /\ IsFiniteSet(S \cup {y})
    BY FS_Difference, FS_Singleton, FS_AddElement
  <1>1. all \in Coins /\ rest \in Coins
    BY <1>0, SumCoinsType
  <1>2. y \in S => all = Plus(f[y], rest)
    BY SumCoinsRemove
  <1>3. Covers(all, rest)
    <2>1. CASE y \in S
      <3>1. f[y] \in Coins
        BY <2>1
      <3> HIDE DEF all, rest
      <3>2. QED
        BY <1>1, <1>2, <2>1, <3>1 DEF Coins, Plus, Covers
    <2>2. CASE y \notin S
      <3>1. S \ {y} = S
        BY <2>2
      <3>2. rest = all
        BY <3>1
      <3> HIDE DEF all, rest
      <3>3. QED
        BY <1>1, <3>2 DEF Coins, Covers
    <2>3. QED
      BY <2>1, <2>2
  <1>4. SumCoins(g, S \cup {y}) = Plus(g[y], SumCoins(g, (S \cup {y}) \ {y}))
    <2>1. \A x \in S \cup {y} : g[x] \in Coins
      OBVIOUS
    <2>2. QED
      BY <1>0, <2>1, SumCoinsRemove
  <1>5. (S \cup {y}) \ {y} = S \ {y}
    OBVIOUS
  <1>6. SumCoins(g, S \ {y}) = rest
    BY <1>0, SumCoinsEqual
  <1>7. SumCoins(g, S \cup {y}) = Plus(g[y], rest)
    BY <1>4, <1>5, <1>6, Zenon
  <1>8. QED
    BY <1>1, <1>2, <1>3, <1>7

\* Coins added element by element.
LEMMA SumCoinsPlus ==
  ASSUME NEW S, IsFiniteSet(S), NEW f, NEW g, NEW h,
         \A x \in S : f[x] \in Coins /\ g[x] \in Coins /\ h[x] = Plus(f[x], g[x])
  PROVE  SumCoins(h, S) = Plus(SumCoins(f, S), SumCoins(g, S))
  <1>1. ASSUME NEW d \in Denoms
        PROVE  SumCoins(h, S)[d] = SumCoins(f, S)[d] + SumCoins(g, S)[d]
    <2> DEFINE F == [x \in S |-> f[x][d]]
               G == [x \in S |-> g[x][d]]
               H == [x \in S |-> h[x][d]]
    <2>1. \A x \in S : F[x] \in Nat /\ G[x] \in Nat /\ H[x] = F[x] + G[x]
      BY DEF Coins, Plus
    <2>2. /\ SumCoins(f, S)[d] = SumFunctionOnSet(F, S)
          /\ SumCoins(g, S)[d] = SumFunctionOnSet(G, S)
          /\ SumCoins(h, S)[d] = SumFunctionOnSet(H, S)
      BY DEF SumCoins
    <2> HIDE DEF F, G, H
    <2>3. QED
      BY <2>1, <2>2, SumPlus
  <1>2. SumCoins(h, S) = [d \in Denoms |-> SumCoins(h, S)[d]]
    BY DEF SumCoins
  <1>3. QED
    BY <1>1, <1>2 DEF Plus

-----------------------------------------------------------------------------
(* Type correctness.  It is inductive with two facts: an operator has      *)
(* collateral, so that Collateral[0] exists, and there are finitely many   *)
(* withdraws to add up.                                                    *)

TypeInv ==
  /\ TypeOK
  /\ OperatorsCollateralized
  /\ IsFiniteSet(DOMAIN withdraws)

\* A response weighs a natural number.
LEMMA CollateralAmountType ==
  ASSUME TypeInv, NEW r \in Response
  PROVE  GetCollateralAmount(r) \in Nat
  <1> USE ParamsAssumption
  <1>1. CASE IsOperator(r.operator)
    <2> DEFINE c == operators[r.operator].collateral
    <2>1. c \in Coins /\ c[BondDenom] > 0
      BY <1>1 DEF TypeInv, TypeOK, IsStore, Operator, OperatorsCollateralized,
                  IsOperator, Coins
    <2>2. QED
      BY <1>1, <2>1, FirstAmountType DEF GetCollateralAmount
  <1>2. CASE ~ IsOperator(r.operator)
    BY <1>2 DEF GetCollateralAmount
  <1>3. QED
    BY <1>1, <1>2

\* Natural numbers, one for each response of a task, add up to one.
LEMMA ResponsesSumType ==
  ASSUME NEW task \in Task, NEW f \in [DOMAIN task.responses -> Nat]
  PROVE  /\ IsFiniteSet(DOMAIN task.responses)
         /\ SumFunctionOnSet(f, DOMAIN task.responses) \in Nat
  <1>1. DOMAIN task.responses = 1..Len(task.responses) /\ Len(task.responses) \in Nat
    BY DEF Task
  <1>2. IsFiniteSet(DOMAIN task.responses)
    BY <1>1, FS_Interval
  <1>3. QED
    BY <1>2, SumNat

\* Aggregate returns a task.
LEMMA AggregateType ==
  ASSUME TypeInv, NEW task \in Task
  PROVE  Aggregate(task) \in Task
  <1> USE ParamsAssumption
  <1> DEFINE R == DOMAIN task.responses
             amount == [i \in R |-> GetCollateralAmount(task.responses[i])]
             minimum == [i \in R |-> IF task.responses[i].score = MinScore
                                     THEN GetCollateralAmount(task.responses[i]) ELSE 0]
             product == [i \in R |-> task.responses[i].score
                                       * GetCollateralAmount(task.responses[i])]
  <1>1. \A i \in R : task.responses[i] \in Response
    BY DEF Task
  <1>2. \A i \in R : task.responses[i].score \in Nat
                     /\ GetCollateralAmount(task.responses[i]) \in Nat
    BY <1>1, CollateralAmountType DEF Response, MinScore, MaxScore
  <1>3. amount \in [R -> Nat] /\ minimum \in [R -> Nat] /\ product \in [R -> Nat]
    BY <1>2
  <1>4. /\ SumFunctionOnSet(amount, R) \in Nat
        /\ SumFunctionOnSet(minimum, R) \in Nat
        /\ SumFunctionOnSet(product, R) \in Nat
    <2> HIDE DEF amount, minimum, product
    <2> QED BY <1>3, ResponsesSumType
  <1> DEFINE total == SumFunctionOnSet(amount, R)
             minScoreCollateral == SumFunctionOnSet(minimum, R)
             weighted == AggregationResult + SumFunctionOnSet(product, R)
             Set(st, r) == [task EXCEPT !.status = st, !.result = r]
  <1>5. Aggregate(task) =
          IF total = 0 THEN Set("failed", weighted)
          ELSE Set("succeeded", IF 3 * minScoreCollateral >= total
                                THEN minScoreCollateral ELSE weighted \div total)
    BY Zenon DEF Aggregate, SumResponses
  <1>6. total \in Nat /\ minScoreCollateral \in Nat /\ weighted \in Nat
    BY <1>4
  <1>7. \A st \in Statuses, r \in Nat : Set(st, r) \in Task
    BY DEF Task
  <1> HIDE DEF total, minScoreCollateral, weighted, Set
  <1>8. total # 0 => weighted \div total \in Nat
    BY <1>6
  <1>9. QED
    BY <1>5, <1>6, <1>7, <1>8 DEF Statuses

\* The weight of a response in the distribution is a natural number.
LEMMA BountyWeightType ==
  ASSUME TypeInv, NEW task \in Task, NEW r \in Response
  PROVE  BountyWeight(task, r) \in Nat
  <1> USE ParamsAssumption
  <1> DEFINE c == GetCollateralAmount(r)
  <1>1. c \in Nat /\ r.score \in Nat /\ r.score <= MaxScore
    BY CollateralAmountType DEF Response, MinScore, MaxScore
  <1>2. Amplifier * c \in Nat
    BY <1>1 DEF Amplifier
  <1>3. /\ r.score + Epsilon1 \in Nat \ {0}
        /\ MaxScore - r.score + Epsilon2 \in Nat \ {0}
    BY <1>1 DEF MaxScore
  <1>4. /\ (Amplifier * c) \div (r.score + Epsilon1) \in Nat
        /\ (Amplifier * c) \div (MaxScore - r.score + Epsilon2) \in Nat
    <2>1. \A x \in Nat, y \in Nat \ {0} : x \div y \in Nat
      OBVIOUS
    <2> HIDE DEF c
    <2>2. QED
      BY <1>2, <1>3, <2>1
  <1> HIDE DEF c
  <1>5. QED
    BY <1>1, <1>4 DEF BountyWeight, c

\* The weights add up to a natural number.
LEMMA TotalValidType ==
  ASSUME TypeInv, NEW task \in Task
  PROVE  TotalValidTaskCollateral(task) \in Nat
  <1> DEFINE w == [i \in DOMAIN task.responses |-> BountyWeight(task, task.responses[i])]
  <1>1. w \in [DOMAIN task.responses -> Nat]
    BY BountyWeightType DEF Task
  <1>2. TotalValidTaskCollateral(task) = SumFunctionOnSet(w, DOMAIN task.responses)
    BY Zenon DEF TotalValidTaskCollateral, SumResponses
  <1> HIDE DEF w
  <1>3. QED
    BY <1>1, <1>2, ResponsesSumType

\* The reward of a response is coins, when there is a total to divide by.
LEMMA BountyRewardType ==
  ASSUME TypeInv, NEW task \in Task, NEW r \in Response,
         TotalValidTaskCollateral(task) # 0
  PROVE  BountyReward(task, r) \in Coins
  <1> DEFINE W == TotalValidTaskCollateral(task)
             w == BountyWeight(task, r)
             share(d) == (task.bounty[d] * w) \div W
             shares == [e \in Denoms |-> share(e)]
  <1>1. W \in Nat \ {0} /\ w \in Nat
    BY TotalValidType, BountyWeightType
  <1>2. \A d \in Denoms : task.bounty[d] \in Nat
    BY DEF Task, Coins
  <1>3. \A d \in Denoms : share(d) \in Nat
    <2> HIDE DEF W, w
    <2>1. \A d \in Denoms : task.bounty[d] * w \in Nat
      BY <1>1, <1>2
    <2>2. \A x \in Nat, y \in Nat \ {0} : x \div y \in Nat
      OBVIOUS
    <2>3. QED
      BY <1>1, <2>1, <2>2
  <1>4. SumFunctionOnSet(shares, Denoms) \in Nat
    <2>1. \A d \in Denoms : shares[d] \in Nat
      BY <1>3
    <2> HIDE DEF shares
    <2>2. QED
      BY <2>1, SumNat, DenomsAssumption
  <1>5. BountyReward(task, r) =
          IF task.result # MinScore /\ task.result < ThresholdScore
          THEN [d \in Denoms |-> IF IsFirstDenom(task.bounty, d)
                                 THEN SumFunctionOnSet(shares, Denoms) ELSE 0]
          ELSE [d \in Denoms |-> share(d)]
    BY Zenon DEF BountyReward
  <1> HIDE DEF share, shares
  <1>6. QED
    BY <1>3, <1>4, <1>5 DEF Coins

\* What an operator earns by a task is coins.
LEMMA RewardOfType ==
  ASSUME TypeInv, NEW task \in Task, NEW a, TotalValidTaskCollateral(task) # 0
  PROVE  RewardOf(task, a) \in Coins
  <1> DEFINE S == {i \in DOMAIN task.responses : task.responses[i].operator = a}
             f == [i \in DOMAIN task.responses |->
                     BountyReward(task, task.responses[i])]
  <1>1. IsFiniteSet(S)
    <2>1. IsFiniteSet(DOMAIN task.responses)
      BY FS_Interval DEF Task
    <2>2. QED
      BY <2>1, FS_Subset
  <1>2. \A i \in S : f[i] \in Coins
    BY BountyRewardType DEF Task
  <1> HIDE DEF f, S
  <1>3. SumCoins(f, S) \in Coins
    BY <1>1, <1>2, SumCoinsType
  <1>4. QED
    BY <1>3 DEF RewardOf, f, S

\* Genesis is well-typed.
LEMMA TypeInit == Init => TypeInv
  <1> SUFFICES ASSUME Init PROVE TypeInv
    OBVIOUS
  <1> USE InputsAssumption DEF Init
  <1>1. NoCoins \in Coins
    BY DEF NoCoins, Coins
  <1>2. IsFiniteSet(DOMAIN withdraws)
    BY FS_EmptySet
  <1>3. TypeOK
    BY <1>1 DEF TypeOK, IsStore
  <1>4. OperatorsCollateralized
    BY DEF OperatorsCollateralized
  <1>5. QED
    BY <1>2, <1>3, <1>4 DEF TypeInv

\* Transfers keep the balances coins.
LEMMA SendType ==
  ASSUME TypeOK, NEW a \in Accounts, NEW c \in Coins,
         SendToModule(a, c) \/ SendFromModule(a, c)
  PROVE  balances' \in [Accounts -> Coins] /\ moduleBalance' \in Coins
  <1>1. balances[a] \in Coins /\ moduleBalance \in Coins
    BY DEF TypeOK
  <1>2. /\ Covers(balances[a], c) => Minus(balances[a], c) \in Coins
        /\ Covers(moduleBalance, c) => Minus(moduleBalance, c) \in Coins
        /\ Plus(balances[a], c) \in Coins /\ Plus(moduleBalance, c) \in Coins
    BY <1>1, CoinsClosed
  <1>3. QED
    BY <1>2 DEF TypeOK, SendToModule, SendFromModule

\* A new withdraw keeps the withdraws a finite store of coins.
LEMMA CreateWithdrawType ==
  ASSUME TypeInv, NEW a \in Accounts, NEW c \in Coins, CreateWithdraw(a, c)
  PROVE  IsStore(withdraws', Nat \X Accounts, Coins) /\ IsFiniteSet(DOMAIN withdraws')
  <1>1. <<height + LockedInBlocks, a>> \in Nat \X Accounts
    BY ParamsAssumption DEF TypeInv, TypeOK
  <1>2. IsStore(withdraws, Nat \X Accounts, Coins) /\ IsFiniteSet(DOMAIN withdraws)
    BY DEF TypeInv, TypeOK
  <1>3. IsStore(withdraws', Nat \X Accounts, Coins)
    BY <1>1, <1>2, StoreType, Zenon DEF CreateWithdraw
  <1>4. IsFiniteSet(DOMAIN withdraws')
    BY <1>2, StoreFinite, Zenon DEF CreateWithdraw
  <1>5. QED
    BY <1>3, <1>4

\* The messages of operators keep the types.
LEMMA OperatorMsgType ==
  ASSUME TypeInv, NEW a \in Accounts, OperatorMsg(a)
  PROVE  TypeInv'
  <1> USE ParamsAssumption, InputsAssumption
  <1>0. TypeOK /\ OperatorsCollateralized /\ IsFiniteSet(DOMAIN withdraws)
    BY DEF TypeInv
  <1>1. ASSUME NEW c \in CollateralInputs, CreateOperator(a, c) PROVE TypeInv'
    <2> USE <1>1 DEF CreateOperator
    <2>1. c \in Coins
      OBVIOUS
    <2>2. balances' \in [Accounts -> Coins] /\ moduleBalance' \in Coins
      BY <1>0, <2>1, SendType
    <2>3. totalCollateral' \in Coins
      BY <1>0, <2>1, CoinsClosed DEF AddTotalCollateral, TypeOK
    <2>4. NewOperator(c) \in Operator
      BY <2>1, CoinsClosed DEF NewOperator, Operator
    <2>5. IsStore(operators', Accounts, Operator)
      BY <1>0, <2>4, StoreType DEF TypeOK
    <2>6. OperatorsCollateralized'
      <3>1. /\ DOMAIN operators' = DOMAIN operators \cup {a} /\ operators'[a].collateral = c
            /\ \A b \in DOMAIN operators : b # a => operators'[b] = operators[b]
        BY DEF StoreSet, NewOperator
      <3>2. c[BondDenom] >= MinimumCollateral
        BY <2>1 DEF IsBelowMinCollateral, Coins
      <3>3. QED
        BY <1>0, <3>1, <3>2 DEF OperatorsCollateralized
    <2>7. QED
      BY <1>0, <2>2, <2>3, <2>5, <2>6 DEF TypeInv, TypeOK
  <1>2. ASSUME RemoveOperator(a) PROVE TypeInv'
    <2> USE <1>2 DEF RemoveOperator
    <2>1. operators[a] \in Operator
      BY <1>0 DEF TypeOK, IsStore, IsOperator
    <2>2. balances' \in [Accounts -> Coins] /\ moduleBalance' \in Coins
      BY <1>0, <2>1, SendType DEF Operator
    <2>3. totalCollateral' \in Coins
      BY <1>0, <2>1, CoinsClosed DEF ReduceTotalCollateral, TypeOK, Operator
    <2>4. IsStore(withdraws', Nat \X Accounts, Coins) /\ IsFiniteSet(DOMAIN withdraws')
      BY <2>1, CreateWithdrawType DEF Operator
    <2>5. IsStore(operators', Accounts, Operator)
      BY <1>0, StoreType DEF TypeOK
    <2>6. OperatorsCollateralized'
      BY <1>0 DEF OperatorsCollateralized, StoreDelete, Restrict
    <2>7. QED
      BY <1>0, <2>2, <2>3, <2>4, <2>5, <2>6 DEF TypeInv, TypeOK
  <1>3. ASSUME NEW c \in CollateralInputs, AddCollateral(a, c) PROVE TypeInv'
    <2> USE <1>3 DEF AddCollateral
    <2>1. c \in Coins /\ operators[a] \in Operator
      BY <1>0 DEF TypeOK, IsStore, IsOperator
    <2>2. balances' \in [Accounts -> Coins] /\ moduleBalance' \in Coins
      BY <1>0, <2>1, SendType
    <2>3. totalCollateral' \in Coins
      BY <1>0, <2>1, CoinsClosed DEF AddTotalCollateral, TypeOK
    <2>4. Plus(operators[a].collateral, c) \in Coins
      BY <2>1, CoinsClosed DEF Operator
    <2>5. IsStore(operators', Accounts, Operator)
      BY <1>0, <2>1, <2>4 DEF TypeOK, IsStore, IsOperator, Operator
    <2>6. OperatorsCollateralized'
      <3>1. Plus(operators[a].collateral, c)[BondDenom] >= MinimumCollateral
        BY <1>0, <2>1 DEF OperatorsCollateralized, Plus, IsOperator, Coins, Operator
      <3>2. QED
        BY <1>0, <3>1 DEF OperatorsCollateralized, TypeOK, IsStore, IsOperator, Operator
    <2>7. QED
      BY <1>0, <2>2, <2>3, <2>5, <2>6 DEF TypeInv, TypeOK
  <1>4. ASSUME NEW c \in CollateralInputs, ReduceCollateral(a, c) PROVE TypeInv'
    <2> USE <1>4 DEF ReduceCollateral
    <2>1. c \in Coins /\ operators[a] \in Operator
      BY <1>0 DEF TypeOK, IsStore, IsOperator
    <2>2. totalCollateral' \in Coins
      BY <1>0, <2>1, CoinsClosed DEF ReduceTotalCollateral, TypeOK
    <2>3. IsStore(withdraws', Nat \X Accounts, Coins) /\ IsFiniteSet(DOMAIN withdraws')
      BY <2>1, CreateWithdrawType
    <2>4. Minus(operators[a].collateral, c) \in Coins
      BY <2>1, CoinsClosed DEF Operator
    <2>5. IsStore(operators', Accounts, Operator)
      BY <1>0, <2>1, <2>4 DEF TypeOK, IsStore, IsOperator, Operator
    <2>6. OperatorsCollateralized'
      <3>1. Minus(operators[a].collateral, c)[BondDenom] >= MinimumCollateral
        BY <2>4 DEF IsBelowMinCollateral, Coins
      <3>2. QED
        BY <1>0, <3>1 DEF OperatorsCollateralized, TypeOK, IsStore, IsOperator, Operator
    <2>7. QED
      BY <1>0, <2>2, <2>3, <2>5, <2>6 DEF TypeInv, TypeOK
  <1>5. ASSUME WithdrawAllReward(a) PROVE TypeInv'
    <2> USE <1>5 DEF WithdrawAllReward
    <2>1. operators[a] \in Operator
      BY <1>0 DEF TypeOK, IsStore, IsOperator
    <2>2. balances' \in [Accounts -> Coins] /\ moduleBalance' \in Coins
      BY <1>0, <2>1, SendType DEF Operator
    <2>3. NoCoins \in Coins
      BY DEF NoCoins, Coins
    <2>4. IsStore(operators', Accounts, Operator)
      BY <1>0, <2>1, <2>3 DEF TypeOK, IsStore, IsOperator, Operator
    <2>5. OperatorsCollateralized'
      BY <1>0, <2>1 DEF OperatorsCollateralized, TypeOK, IsStore, IsOperator, Operator
    <2>6. QED
      BY <1>0, <2>2, <2>4, <2>5 DEF TypeInv, TypeOK
  <1>6. QED
    BY <1>1, <1>2, <1>3, <1>4, <1>5 DEF OperatorMsg

\* The closing lists are sequences of task ids.
LEMMA ClosingType ==
  ASSUME TypeOK, NEW b \in Int
  PROVE  /\ GetClosingTaskIDs(b) \in Seq(TaskIDs)
         /\ \A t \in TaskIDs : Append(GetClosingTaskIDs(b), t) \in Seq(TaskIDs)
  <1>1. GetClosingTaskIDs(b) \in Seq(TaskIDs)
    BY DEF TypeOK, IsStore, GetClosingTaskIDs
  <1>2. QED
    BY <1>1

\* The messages about tasks keep the types.
LEMMA TaskMsgType ==
  ASSUME TypeInv, NEW a \in Accounts, NEW t \in TaskIDs, TaskMsg(a, t)
  PROVE  TypeInv'
  <1> USE ParamsAssumption, InputsAssumption
  <1>0. TypeOK /\ OperatorsCollateralized /\ IsFiniteSet(DOMAIN withdraws)
    BY DEF TypeInv
  <1>1. ASSUME NEW b \in BountyInputs, NEW w \in WaitInputs, NEW v \in DurationInputs,
               CreateTask(t, a, b, w, v)
        PROVE  TypeInv'
    <2> DEFINE block == height + WindowSize(w)
               task == NewTask(b, Expiration(v), a, block)
    <2>1. b \in Coins /\ block \in Int /\ Expiration(v) \in Nat
      <3>1. height \in Nat
        BY <1>0 DEF TypeOK
      <3>2. b \in Coins /\ w \in Int /\ v \in Nat
        OBVIOUS
      <3>3. WindowSize(w) \in Int
        BY <3>2 DEF WindowSize
      <3>4. Expiration(v) \in Nat
        BY <3>1, <3>2 DEF Expiration
      <3>5. QED
        BY <3>1, <3>2, <3>3, <3>4
    <2>2. balances' \in [Accounts -> Coins] /\ moduleBalance' \in Coins
      BY <1>0, <1>1, <2>1, SendType DEF CreateTask
    <2>3. task \in Task
      BY <2>1 DEF NewTask, Task, Statuses
    <2>4. IsStore(tasks', TaskIDs, Task)
      <3>1. tasks' = StoreSet(tasks, t, task)
        BY <1>1 DEF CreateTask
      <3>2. IsStore(tasks, TaskIDs, Task)
        BY <1>0 DEF TypeOK
      <3> HIDE DEF task
      <3>3. QED
        BY <2>3, <3>1, <3>2, StoreType, Zenon
    <2>5. IsStore(closing', Int, Seq(TaskIDs))
      <3>1. closing' = StoreSet(closing, block, Append(GetClosingTaskIDs(block), t))
        BY <1>1 DEF CreateTask, SetClosingBlockStore
      <3>2. IsStore(closing, Int, Seq(TaskIDs))
        BY <1>0 DEF TypeOK
      <3>3. Append(GetClosingTaskIDs(block), t) \in Seq(TaskIDs)
        BY <1>0, <2>1, ClosingType
      <3> HIDE DEF block
      <3>4. QED
        BY <2>1, <3>1, <3>2, <3>3, StoreType, Zenon
    <2>6. QED
      BY <1>0, <1>1, <2>2, <2>4, <2>5
         DEF TypeInv, TypeOK, CreateTask, OperatorsCollateralized
  <1>2. ASSUME NEW s \in ScoreInputs, RespondToTask(t, a, s) PROVE TypeInv'
    <2> DEFINE r == [operator |-> a, score |-> s]
    <2>1. r \in Response
      <3>1. s \in Int /\ MinScore <= s /\ s <= MaxScore
        BY <1>2 DEF RespondToTask, IsValidResponse
      <3>2. s \in MinScore..MaxScore
        BY <3>1 DEF MinScore, MaxScore
      <3>3. QED
        BY <3>2 DEF Response
    <2>2. tasks[t] \in Task
      BY <1>0, <1>2 DEF TypeOK, IsStore, RespondToTask
    <2>3. Append(tasks[t].responses, r) \in Seq(Response)
      BY <2>1, <2>2 DEF Task
    <2>4. [tasks[t] EXCEPT !.responses = Append(@, r)] \in Task
      BY <2>2, <2>3 DEF Task
    <2>5. IsStore(tasks', TaskIDs, Task)
      BY <1>0, <1>2, <2>4 DEF TypeOK, IsStore, RespondToTask
    <2>6. QED
      BY <1>0, <1>2, <2>5 DEF TypeInv, TypeOK, RespondToTask, OperatorsCollateralized
  <1>3. ASSUME NEW force \in BOOLEAN, RemoveTask(t, force, a) PROVE TypeInv'
    <2>1. IsStore(tasks', TaskIDs, Task)
      BY <1>0, <1>3, StoreType DEF TypeOK, RemoveTask
    <2>2. QED
      BY <1>0, <1>3, <2>1 DEF TypeInv, TypeOK, RemoveTask, OperatorsCollateralized
  <1>4. QED
    BY <1>1, <1>2, <1>3 DEF TaskMsg

\* The steps of the block keep the types.
LEMMA BlockType ==
  ASSUME TypeInv, Block
  PROVE  TypeInv'
  <1>0. TypeOK /\ OperatorsCollateralized /\ IsFiniteSet(DOMAIN withdraws)
    BY DEF TypeInv
  <1>1. CASE BeginBlock
    <2>1. \A k \in DOMAIN withdraws : withdraws[k] \in Coins
      BY <1>0 DEF TypeOK, IsStore
    <2>2. \A S \in SUBSET DOMAIN withdraws : SumCoins(withdraws, S) \in Coins
      BY <1>0, <2>1, SumCoinsType, FS_Subset
    <2>3. /\ SumCoins(withdraws, MatureWithdraws) \in Coins
          /\ \A a \in Accounts : Matured(a) \in Coins
      <3>1. /\ MatureWithdraws \in SUBSET DOMAIN withdraws
            /\ \A a \in Accounts :
                 {k \in MatureWithdraws : k[2] = a} \in SUBSET DOMAIN withdraws
        BY DEF MatureWithdraws
      <3>2. QED
        BY <2>2, <3>1 DEF Matured
    <2>4. CASE Covers(moduleBalance, SumCoins(withdraws, MatureWithdraws))
      <3>1. balances' \in [Accounts -> Coins] /\ moduleBalance' \in Coins
        BY <1>0, <1>1, <2>3, <2>4, CoinsClosed DEF BeginBlock, TypeOK
      <3>2. IsStore(withdraws', Nat \X Accounts, Coins) /\ IsFiniteSet(DOMAIN withdraws')
        BY <1>0, <1>1, <2>4, StoreType, StoreFinite DEF BeginBlock, TypeOK
      <3>3. QED
        BY <1>0, <1>1, <2>4, <3>1, <3>2
           DEF BeginBlock, TypeInv, TypeOK, OperatorsCollateralized
    <2>5. CASE ~ Covers(moduleBalance, SumCoins(withdraws, MatureWithdraws))
      BY <1>0, <1>1, <2>5 DEF BeginBlock, TypeInv, TypeOK, OperatorsCollateralized
    <2>6. QED
      BY <2>4, <2>5
  <1>2. CASE EndBlockStart
    BY <1>0, <1>2 DEF EndBlockStart, TypeInv, TypeOK, OperatorsCollateralized
  <1>3. CASE EndBlockTask
    <2> DEFINE t == GetClosingTaskIDs(height)[cursor + 1]
               task == Aggregate(tasks[t])
    <2>1. CASE t \in DOMAIN tasks /\ tasks[t].status = "pending"
      <3>1. tasks' = [tasks EXCEPT ![t] = task] /\ DistributeBounty(task)
        BY <1>3, <2>1 DEF EndBlockTask
      <3>2. task \in Task
        BY <1>0, <2>1, AggregateType DEF TypeOK, IsStore
      <3> HIDE DEF task, t
      <3>3. IsStore(tasks', TaskIDs, Task)
        BY <1>0, <3>1, <3>2 DEF TypeOK, IsStore
      <3>4. IsStore(operators', Accounts, Operator) /\ OperatorsCollateralized'
        <4>1. CASE TotalValidTaskCollateral(task) = 0
          BY <1>0, <3>1, <4>1 DEF DistributeBounty, TypeOK, OperatorsCollateralized
        <4>2. CASE TotalValidTaskCollateral(task) # 0
          <5>1. operators' = [a \in DOMAIN operators |->
                               [operators[a] EXCEPT !.accumulatedRewards =
                                  Plus(@, RewardOf(task, a))]]
            BY <3>1, <4>2 DEF DistributeBounty
          <5>2. \A a \in DOMAIN operators :
                  /\ operators[a] \in Operator
                  /\ Plus(operators[a].accumulatedRewards, RewardOf(task, a)) \in Coins
            BY <1>0, <3>2, <4>2, RewardOfType, CoinsClosed DEF TypeOK, IsStore, Operator
          <5>3. QED
            BY <1>0, <5>1, <5>2 DEF TypeOK, IsStore, Operator, OperatorsCollateralized
        <4>3. QED
          BY <4>1, <4>2
      <3>5. QED
        BY <1>0, <1>3, <3>3, <3>4 DEF EndBlockTask, TypeInv, TypeOK
    <2>2. CASE ~ (t \in DOMAIN tasks /\ tasks[t].status = "pending")
      BY <1>0, <1>3, <2>2 DEF EndBlockTask, TypeInv, TypeOK, OperatorsCollateralized
    <2>3. QED
      BY <2>1, <2>2
  <1>4. CASE EndBlockCommit
    <2>1. IsStore(closing', Int, Seq(TaskIDs))
      BY <1>0, <1>4, StoreType DEF TypeOK, EndBlockCommit
    <2>2. QED
      BY <1>0, <1>4, <2>1 DEF EndBlockCommit, TypeInv, TypeOK, OperatorsCollateralized
  <1>5. QED
    BY <1>1, <1>2, <1>3, <1>4 DEF Block

\* The inductive form of type correctness.
LEMMA OracleTypeInv == Spec => []TypeInv
  <1>1. TypeInv /\ [Next]_vars => TypeInv'
    <2> SUFFICES ASSUME TypeInv, [Next]_vars PROVE TypeInv'
      OBVIOUS
    <2>1. CASE Next
      BY <2>1, OperatorMsgType, TaskMsgType, BlockType DEF Next
    <2>2. CASE UNCHANGED vars
      BY <2>2 DEF vars, TypeInv, TypeOK, OperatorsCollateralized
    <2>3. QED
      BY <2>1, <2>2
  <1>2. QED
    BY <1>1, TypeInit, PTL DEF Spec

\* Every state of every behaviour is well-typed: balances, collateral and
\* rewards never become negative, Collateral[0] is never taken of an empty
\* coin set, and the shares of a bounty are never divided by zero.
THEOREM OracleTypeOK == Spec => []TypeOK
  BY OracleTypeInv, PTL DEF TypeInv

-----------------------------------------------------------------------------
(* Safety, given the types.                                                *)

\* Aggregate decides the task and touches nothing but status and result.
LEMMA AggregateFields ==
  ASSUME NEW task \in Task
  PROVE  /\ Aggregate(task).status # "pending"
         /\ Aggregate(task).closingBlock = task.closingBlock
         /\ Aggregate(task).responses = task.responses
         /\ Aggregate(task).bounty = task.bounty
  <1>1. \E st \in {"failed", "succeeded"} : \E r :
          Aggregate(task) = [task EXCEPT !.status = st, !.result = r]
    BY Zenon DEF Aggregate
  <1>2. PICK st \in {"failed", "succeeded"} : \E r :
          Aggregate(task) = [task EXCEPT !.status = st, !.result = r]
    BY <1>1
  <1>3. PICK r : Aggregate(task) = [task EXCEPT !.status = st, !.result = r]
    BY <1>2
  <1>4. QED
    BY <1>3 DEF Task

\* The operators' messages leave tasks, closing lists and the block alone.
LEMMA OperatorMsgFrame ==
  ASSUME NEW a, OperatorMsg(a)
  PROVE  phase = "deliver" /\ UNCHANGED <<height, phase, cursor, tasks, closing>>
  BY DEF OperatorMsg, CreateOperator, RemoveOperator, AddCollateral, ReduceCollateral,
         WithdrawAllReward, DeliverTx

\* No operator ever has two responses on one task.
THEOREM OracleOneResponseEach == Spec => []OneResponseEach
  <1>1. Init => OneResponseEach
    BY DEF Init, OneResponseEach
  <1>2. TypeInv /\ OneResponseEach /\ [Next]_vars => OneResponseEach'
    <2> SUFFICES ASSUME TypeInv, OneResponseEach, [Next]_vars PROVE OneResponseEach'
      OBVIOUS
    <2> USE DEF OneResponseEach
    <2>0. IsStore(tasks, TaskIDs, Task)
      BY DEF TypeInv, TypeOK
    <2>1. ASSUME NEW a \in Accounts, OperatorMsg(a) PROVE OneResponseEach'
      BY <2>1, OperatorMsgFrame
    <2>2. ASSUME NEW t \in TaskIDs, NEW a, NEW b, NEW w, NEW v, CreateTask(t, a, b, w, v)
          PROVE  OneResponseEach'
      BY <2>2 DEF CreateTask, StoreSet, NewTask
    <2>3. ASSUME NEW t \in TaskIDs, NEW a, NEW s, RespondToTask(t, a, s)
          PROVE  OneResponseEach'
      <3> DEFINE old == tasks[t].responses
                 new == Append(old, [operator |-> a, score |-> s])
      <3>1. /\ old \in Seq(Response)
            /\ tasks[t] \in Task
        BY <2>0, <2>3 DEF RespondToTask, IsStore, Task
      <3>2. /\ DOMAIN tasks' = DOMAIN tasks
            /\ tasks'[t].responses = new
            /\ \A u \in DOMAIN tasks \ {t} : tasks'[u] = tasks[u]
        BY <2>0, <2>3, <3>1 DEF RespondToTask, IsStore, Task
      <3>3. /\ DOMAIN new = 1..(Len(old) + 1) /\ DOMAIN old = 1..Len(old)
            /\ \A i \in DOMAIN old : new[i] = old[i]
            /\ new[Len(old) + 1].operator = a
        BY <3>1
      <3>4. \A i \in DOMAIN old : old[i].operator # a
        BY <2>3 DEF RespondToTask, IsValidResponse
      <3>5. \A i, j \in DOMAIN new : new[i].operator = new[j].operator => i = j
        <4>1. Len(old) \in Nat /\ t \in DOMAIN tasks
          BY <2>3, <3>1 DEF RespondToTask
        <4>2. \A i, j \in DOMAIN old : old[i].operator = old[j].operator => i = j
          BY <4>1
        <4> HIDE DEF new, old
        <4>3. \A i \in DOMAIN new : i \in DOMAIN old \/ i = Len(old) + 1
          BY <3>3, <4>1
        <4>4. SUFFICES ASSUME NEW i \in DOMAIN new, NEW j \in DOMAIN new,
                              new[i].operator = new[j].operator
                       PROVE  i = j
          OBVIOUS
        <4>5. CASE i \in DOMAIN old /\ j \in DOMAIN old
          BY <3>3, <4>2, <4>4, <4>5
        <4>6. CASE i \in DOMAIN old /\ j = Len(old) + 1
          BY <3>3, <3>4, <4>4, <4>6
        <4>7. CASE i = Len(old) + 1 /\ j \in DOMAIN old
          BY <3>3, <3>4, <4>4, <4>7
        <4> QED
          BY <4>3, <4>5, <4>6, <4>7
      <3>6. QED
        BY <3>2, <3>5
    <2>4. ASSUME NEW t, NEW force, NEW a, RemoveTask(t, force, a) PROVE OneResponseEach'
      BY <2>4 DEF RemoveTask, StoreDelete, Restrict
    <2>5. CASE EndBlockTask
      <3> DEFINE t == GetClosingTaskIDs(height)[cursor + 1]
      <3>1. CASE UNCHANGED tasks
        BY <3>1
      <3>2. CASE t \in DOMAIN tasks /\ tasks' = [tasks EXCEPT ![t] = Aggregate(tasks[t])]
        <4>1. Aggregate(tasks[t]).responses = tasks[t].responses
          BY <2>0, <3>2, AggregateFields DEF IsStore
        <4>2. QED
          BY <3>2, <4>1
      <3>3. QED
        BY <2>5, <3>1, <3>2 DEF EndBlockTask
    <2>6. CASE BeginBlock \/ EndBlockStart \/ EndBlockCommit \/ UNCHANGED vars
      BY <2>6 DEF BeginBlock, EndBlockStart, EndBlockCommit, vars
    <2>7. QED
      BY <2>1, <2>2, <2>3, <2>4, <2>5, <2>6 DEF Next, TaskMsg, Block
  <1>3. QED
    BY <1>1, <1>2, OracleTypeInv, PTL DEF Spec

\* Task t, if it is pending, will be met by the loop of an EndBlocker to come.
Scheduled(t) ==
  tasks[t].status = "pending" =>
    /\ tasks[t].closingBlock >= height
    /\ \E i \in DOMAIN GetClosingTaskIDs(tasks[t].closingBlock) :
         /\ i > (IF tasks[t].closingBlock = height /\ phase = "end" THEN cursor ELSE 0)
         /\ closing[tasks[t].closingBlock][i] = t

\* A new task is put on the list of a block that is not over; the other
\* tasks keep their places in the lists.
LEMMA CreateTaskScheduled ==
  ASSUME WaitInputs \subseteq Nat, TypeOK, PendingScheduled,
         NEW t \in TaskIDs, NEW a, NEW b, NEW w \in WaitInputs, NEW v,
         CreateTask(t, a, b, w, v)
  PROVE  PendingScheduled'
  <1> USE ParamsAssumption
  <1>0. PICK block : block = height + WindowSize(w)
    OBVIOUS
  <1> DEFINE ids == GetClosingTaskIDs(block)
             new == Append(ids, t)
  <1>1. height \in Nat /\ block \in Int /\ block >= height
    <2>1. height \in Nat
      BY DEF TypeOK
    <2>2. w \in Nat /\ WindowSize(w) \in Nat
      BY DEF WindowSize
    <2> QED BY <1>0, <2>1, <2>2
  <1>2. ids \in Seq(TaskIDs)
    BY <1>1, ClosingType
  <1>3. /\ DOMAIN new = 1..(Len(ids) + 1) /\ DOMAIN ids = 1..Len(ids) /\ Len(ids) \in Nat
        /\ new[Len(ids) + 1] = t
        /\ \A i \in DOMAIN ids : new[i] = ids[i]
    BY <1>2
  <1>4. /\ closing' = StoreSet(closing, block, new)
        /\ tasks' = StoreSet(tasks, t, NewTask(b, Expiration(v), a, block))
        /\ phase = "deliver" /\ phase' = phase /\ height' = height
    BY <1>0 DEF CreateTask, SetClosingBlockStore, DeliverTx
  <1>5. /\ block \in DOMAIN closing' /\ closing'[block] = new
        /\ \A c : c # block => GetClosingTaskIDs(c)' = GetClosingTaskIDs(c)
        /\ \A c \in DOMAIN closing : c # block => closing'[c] = closing[c]
    <2> HIDE DEF new
    <2> QED BY <1>4 DEF StoreSet, GetClosingTaskIDs
  <1>6. GetClosingTaskIDs(block)' = new
    BY <1>5 DEF GetClosingTaskIDs
  <1> SUFFICES ASSUME NEW u \in DOMAIN tasks', tasks'[u].status = "pending"
               PROVE  Scheduled(u)'
    BY DEF PendingScheduled, Scheduled
  <1> HIDE DEF new, ids
  <1>7. CASE u = t
    <2>1. tasks'[u].closingBlock = block
      BY <1>4, <1>7 DEF StoreSet, NewTask
    <2>2. Len(ids) + 1 \in DOMAIN new /\ Len(ids) + 1 > 0
      BY <1>3
    <2>3. QED
      BY <1>1, <1>3, <1>4, <1>5, <1>6, <1>7, <2>1, <2>2 DEF Scheduled
  <1>8. CASE u # t
    <2>1. u \in DOMAIN tasks /\ tasks'[u] = tasks[u]
      BY <1>4, <1>8 DEF StoreSet
    <2>0. PICK c : c = tasks[u].closingBlock
      OBVIOUS
    <2>2. c >= height /\ \E i \in DOMAIN GetClosingTaskIDs(c) : i > 0 /\ closing[c][i] = u
      BY <1>4, <2>0, <2>1 DEF PendingScheduled
    <2>3. PICK i \in DOMAIN GetClosingTaskIDs(c) : i > 0 /\ closing[c][i] = u
      BY <2>2
    <2>4. c \in DOMAIN closing
      BY <2>3 DEF GetClosingTaskIDs
    <2>5. CASE c = block
      <3>1. i \in DOMAIN ids /\ ids[i] = u
        BY <2>3, <2>4, <2>5 DEF GetClosingTaskIDs, ids
      <3>2. i \in DOMAIN new /\ new[i] = u
        BY <1>3, <3>1
      <3>3. QED
        BY <1>4, <1>5, <1>6, <2>0, <2>1, <2>2, <2>3, <2>5, <3>2 DEF Scheduled
    <2>6. CASE c # block
      <3>1. GetClosingTaskIDs(c)' = GetClosingTaskIDs(c) /\ closing'[c] = closing[c]
        BY <1>5, <2>4, <2>6
      <3>2. QED
        BY <1>4, <2>0, <2>1, <2>2, <2>3, <3>1 DEF Scheduled
    <2>7. QED
      BY <2>5, <2>6
  <1>9. QED
    BY <1>7, <1>8

\* An iteration of the EndBlocker decides the task it meets and passes no
\* other pending task.
LEMMA EndBlockTaskScheduled ==
  ASSUME TypeOK, PendingScheduled, EndBlockTask
  PROVE  PendingScheduled'
  <1>0. PICK t : t = GetClosingTaskIDs(height)[cursor + 1]
    OBVIOUS
  <1>1. /\ phase = "end" /\ phase' = phase /\ height' = height
        /\ closing' = closing /\ cursor' = cursor + 1 /\ cursor \in Nat
        /\ cursor < Len(GetClosingTaskIDs(height))
    BY DEF EndBlockTask, TypeOK
  <1>2. \/ /\ t \in DOMAIN tasks
           /\ tasks' = [tasks EXCEPT ![t] = Aggregate(tasks[t])]
        \/ /\ ~ (t \in DOMAIN tasks /\ tasks[t].status = "pending")
           /\ tasks' = tasks
    BY <1>0 DEF EndBlockTask
  <1>3. t \in DOMAIN tasks => Aggregate(tasks[t]).status # "pending"
    BY AggregateFields DEF TypeOK, IsStore
  <1> SUFFICES ASSUME NEW u \in DOMAIN tasks', tasks'[u].status = "pending"
               PROVE  Scheduled(u)'
    BY DEF PendingScheduled, Scheduled
  <1>4. u # t /\ u \in DOMAIN tasks /\ tasks'[u] = tasks[u]
    BY <1>2, <1>3
  <1>5. PICK c : c = tasks[u].closingBlock
    OBVIOUS
  <1>6. c >= height /\ \E i \in DOMAIN GetClosingTaskIDs(c) :
                          /\ i > (IF c = height THEN cursor ELSE 0)
                          /\ closing[c][i] = u
    BY <1>1, <1>4, <1>5 DEF PendingScheduled
  <1>7. PICK i \in DOMAIN GetClosingTaskIDs(c) :
          i > (IF c = height THEN cursor ELSE 0) /\ closing[c][i] = u
    BY <1>6
  <1>8. GetClosingTaskIDs(c)' = GetClosingTaskIDs(c) /\ closing'[c] = closing[c]
    BY <1>1 DEF GetClosingTaskIDs
  <1>9. c = height => i > cursor + 1
    <2> SUFFICES ASSUME c = height PROVE i > cursor + 1
      OBVIOUS
    <2>1. GetClosingTaskIDs(height) \in Seq(TaskIDs)
      BY ClosingType DEF TypeOK
    <2>2. GetClosingTaskIDs(height) = closing[height]
      BY <1>1, <2>1, <1>7 DEF GetClosingTaskIDs
    <2>3. i # cursor + 1
      BY <1>0, <1>4, <1>7, <2>2
    <2>4. i \in Nat
      BY <1>7, <2>1
    <2>5. QED
      BY <1>1, <1>7, <2>3, <2>4
  <1>10. QED
    BY <1>1, <1>4, <1>5, <1>6, <1>7, <1>8, <1>9 DEF Scheduled

\* When the loop is over no task of the block is left, so the list can go.
LEMMA EndBlockCommitScheduled ==
  ASSUME TypeOK, PendingScheduled, EndBlockCommit
  PROVE  PendingScheduled'
  <1>1. /\ phase = "end" /\ phase' = "begin" /\ height' = height + 1 /\ height \in Nat
        /\ closing' = StoreDelete(closing, {height}) /\ tasks' = tasks
        /\ cursor = Len(GetClosingTaskIDs(height))
    BY DEF EndBlockCommit, TypeOK
  <1> SUFFICES ASSUME NEW u \in DOMAIN tasks', tasks'[u].status = "pending"
               PROVE  Scheduled(u)'
    BY DEF PendingScheduled, Scheduled
  <1>2. PICK c : c = tasks[u].closingBlock
    OBVIOUS
  <1>3. c \in Int /\ c >= height
        /\ \E i \in DOMAIN GetClosingTaskIDs(c) :
             /\ i > (IF c = height THEN cursor ELSE 0)
             /\ closing[c][i] = u
    BY <1>1, <1>2 DEF PendingScheduled, TypeOK, IsStore, Task
  <1>4. PICK i \in DOMAIN GetClosingTaskIDs(c) :
          i > (IF c = height THEN cursor ELSE 0) /\ closing[c][i] = u
    BY <1>3
  <1>5. c # height
    <2> SUFFICES ASSUME c = height PROVE FALSE
      OBVIOUS
    <2>1. GetClosingTaskIDs(height) \in Seq(TaskIDs)
      BY ClosingType DEF TypeOK
    <2>2. i <= Len(GetClosingTaskIDs(height)) /\ i \in Nat
      BY <1>4, <2>1
    <2>3. Len(GetClosingTaskIDs(height)) \in Nat
      BY <2>1
    <2>4. QED
      BY <1>1, <1>4, <2>2, <2>3
  <1>6. GetClosingTaskIDs(c)' = GetClosingTaskIDs(c) /\ closing'[c] = closing[c] /\ i > 0
    BY <1>1, <1>4, <1>5 DEF GetClosingTaskIDs, StoreDelete, Restrict
  <1>7. c >= height + 1
    BY <1>1, <1>3, <1>5
  <1>8. QED
    BY <1>1, <1>2, <1>4, <1>6, <1>7 DEF Scheduled

\* When nobody asks for a negative wait, every pending task is in the list of
\* a block that is still to end, ahead of the EndBlocker's loop: no
\* interleaving of creations, replacements, responses and deletions leaves a
\* task that is never aggregated.
THEOREM OraclePendingScheduled ==
  ASSUME WaitInputs \subseteq Nat
  PROVE  Spec => []PendingScheduled
  <1>1. Init => PendingScheduled
    BY DEF Init, PendingScheduled
  <1>2. TypeInv /\ PendingScheduled /\ [Next]_vars => PendingScheduled'
    <2> SUFFICES ASSUME TypeInv, PendingScheduled, [Next]_vars PROVE PendingScheduled'
      OBVIOUS
    <2>0. TypeOK
      BY DEF TypeInv
    <2>1. ASSUME NEW a \in Accounts, OperatorMsg(a) PROVE PendingScheduled'
      BY <2>1, OperatorMsgFrame DEF PendingScheduled, GetClosingTaskIDs
    <2>2. ASSUME NEW t \in TaskIDs, NEW a, NEW b, NEW w \in WaitInputs, NEW v,
                 CreateTask(t, a, b, w, v)
          PROVE  PendingScheduled'
      BY <2>0, <2>2, CreateTaskScheduled
    <2>3. ASSUME NEW t \in TaskIDs, NEW a, NEW s, RespondToTask(t, a, s)
          PROVE  PendingScheduled'
      <3>1. /\ DOMAIN tasks' = DOMAIN tasks
            /\ \A u \in DOMAIN tasks : /\ tasks'[u].status = tasks[u].status
                                       /\ tasks'[u].closingBlock = tasks[u].closingBlock
        BY <2>0, <2>3 DEF RespondToTask, TypeOK, IsStore, Task
      <3>2. UNCHANGED <<height, phase, cursor, closing>>
        BY <2>3 DEF RespondToTask
      <3>3. QED
        BY <3>1, <3>2 DEF PendingScheduled, GetClosingTaskIDs
    <2>4. ASSUME NEW t, NEW force, NEW a, RemoveTask(t, force, a) PROVE PendingScheduled'
      BY <2>4 DEF RemoveTask, StoreDelete, Restrict, PendingScheduled, GetClosingTaskIDs
    <2>5. CASE EndBlockTask
      BY <2>0, <2>5, EndBlockTaskScheduled
    <2>6. CASE EndBlockCommit
      BY <2>0, <2>6, EndBlockCommitScheduled
    <2>7. CASE BeginBlock
      BY <2>7 DEF BeginBlock, PendingScheduled, GetClosingTaskIDs
    <2>8. CASE EndBlockStart
      BY <2>8 DEF EndBlockStart, DeliverTx, PendingScheduled, GetClosingTaskIDs
    <2>9. CASE UNCHANGED vars
      BY <2>9 DEF vars, PendingScheduled, GetClosingTaskIDs
    <2>10. QED
      BY <2>1, <2>2, <2>3, <2>4, <2>5, <2>6, <2>7, <2>8, <2>9 DEF Next, TaskMsg, Block
  <1>3. QED
    BY <1>1, <1>2, OracleTypeInv, PTL DEF Spec
-----------------------------------------------------------------------------
(* The total collateral.  It is a sum over the operators, of whom there    *)
(* are finitely many although there may be any number of accounts.         *)

CollateralOf(ops) == [a \in DOMAIN ops |-> ops[a].collateral]

TotalInv == TotalCollateralIsSum /\ IsFiniteSet(DOMAIN operators)

\* Operators that keep their collateral, whatever they earn, keep the total.
LEMMA TotalUnchanged ==
  ASSUME TotalInv, UNCHANGED totalCollateral, DOMAIN operators' = DOMAIN operators,
         \A a \in DOMAIN operators : operators'[a].collateral = operators[a].collateral
  PROVE  TotalInv'
  BY DEF TotalInv, TotalCollateralIsSum

\* The collateral of one operator is replaced by c; the others keep theirs.
LEMMA TotalSplit ==
  ASSUME TypeOK, TotalInv, NEW a \in DOMAIN operators
  PROVE  /\ operators[a].collateral \in Coins
         /\ IsFiniteSet(DOMAIN operators \ {a})
         /\ SumCoins(CollateralOf(operators), DOMAIN operators \ {a}) \in Coins
         /\ totalCollateral =
              Plus(operators[a].collateral,
                   SumCoins(CollateralOf(operators), DOMAIN operators \ {a}))
  <1> DEFINE f == CollateralOf(operators)
             S == DOMAIN operators
  <1>1. /\ \A x \in S : f[x] \in Coins
        /\ f[a] = operators[a].collateral
    BY DEF TypeOK, IsStore, Operator, CollateralOf
  <1>2. IsFiniteSet(S) /\ totalCollateral = SumCoins(f, S)
    BY DEF TotalInv, TotalCollateralIsSum, CollateralOf
  <1> HIDE DEF f
  <1>3. IsFiniteSet(S \ {a})
    BY <1>2, FS_RemoveElement
  <1>4. SumCoins(f, S \ {a}) \in Coins
    BY <1>1, <1>3, SumCoinsType
  <1>5. SumCoins(f, S) = Plus(f[a], SumCoins(f, S \ {a}))
    BY <1>1, <1>2, SumCoinsRemove
  <1>6. QED
    BY <1>1, <1>2, <1>3, <1>4, <1>5 DEF f

\* The same after the step, when a is the one operator whose collateral the
\* step has set.
LEMMA TotalJoin ==
  ASSUME TotalInv, NEW a, NEW c \in Coins,
         IsStore(operators, Accounts, Operator), IsStore(operators', Accounts, Operator),
         DOMAIN operators' = DOMAIN operators \cup {a},
         operators'[a].collateral = c,
         \A b \in DOMAIN operators \ {a} :
           operators'[b].collateral = operators[b].collateral
  PROVE  /\ IsFiniteSet(DOMAIN operators')
         /\ SumCoins(CollateralOf(operators'), DOMAIN operators') =
              Plus(c, SumCoins(CollateralOf(operators), DOMAIN operators \ {a}))
  <1> DEFINE f == CollateralOf(operators)
             g == CollateralOf(operators')
             S == DOMAIN operators
             R == S \ {a}
             N == DOMAIN operators'
  <1>1. /\ \A x \in N : g[x] \in Coins
        /\ g[a] = c
        /\ \A x \in R : g[x] = f[x]
    BY DEF IsStore, Operator, CollateralOf
  <1>2. IsFiniteSet(S) /\ IsFiniteSet(N)
    BY FS_AddElement DEF TotalInv
  <1>3. IsFiniteSet(R) /\ N \ {a} = R /\ a \in N
    BY <1>2, FS_Difference
  <1> HIDE DEF f, g, R, S, N
  <1>4. SumCoins(g, N) = Plus(g[a], SumCoins(g, R))
    BY <1>1, <1>2, <1>3, SumCoinsRemove
  <1>5. SumCoins(g, R) = SumCoins(f, R)
    BY <1>1, <1>3, SumCoinsEqual
  <1>6. QED
    BY <1>1, <1>2, <1>4, <1>5 DEF f, g, R, S, N

\* The messages of operators keep the total in step with the collateral.
LEMMA OperatorMsgTotal ==
  ASSUME TypeInv, TypeInv', TotalInv, NEW a \in Accounts, OperatorMsg(a)
  PROVE  TotalInv'
  <1> USE InputsAssumption
  <1>0. /\ TypeOK
        /\ IsStore(operators, Accounts, Operator)
        /\ IsStore(operators', Accounts, Operator)
    BY DEF TypeInv, TypeOK
  <1> DEFINE Rest == SumCoins(CollateralOf(operators), DOMAIN operators \ {a})
  <1>1. ASSUME NEW c \in CollateralInputs, CreateOperator(a, c) PROVE TotalInv'
    <2>1. /\ DOMAIN operators' = DOMAIN operators \cup {a}
          /\ operators'[a].collateral = c
          /\ \A b \in DOMAIN operators \ {a} : operators'[b] = operators[b]
          /\ DOMAIN operators \ {a} = DOMAIN operators
          /\ totalCollateral' = Plus(totalCollateral, c)
      BY <1>1 DEF CreateOperator, StoreSet, NewOperator, IsOperator, AddTotalCollateral
    <2>2. c \in Coins
      OBVIOUS
    <2>3. /\ IsFiniteSet(DOMAIN operators')
          /\ SumCoins(CollateralOf(operators'), DOMAIN operators') = Plus(c, Rest)
      BY <1>0, <2>1, <2>2, TotalJoin
    <2>4. Rest = totalCollateral /\ totalCollateral \in Coins
      BY <1>0, <2>1 DEF TotalInv, TotalCollateralIsSum, CollateralOf, TypeOK
    <2>5. totalCollateral' = Plus(c, Rest)
      BY <2>1, <2>2, <2>4, PlusLaws
    <2>6. QED
      BY <2>3, <2>5 DEF TotalInv, TotalCollateralIsSum, CollateralOf
  <1>2. ASSUME RemoveOperator(a) PROVE TotalInv'
    <2>1. /\ a \in DOMAIN operators
          /\ DOMAIN operators' = DOMAIN operators \ {a}
          /\ \A b \in DOMAIN operators' : operators'[b] = operators[b]
          /\ totalCollateral' = Minus(totalCollateral, operators[a].collateral)
      BY <1>2 DEF RemoveOperator, StoreDelete, Restrict, IsOperator, ReduceTotalCollateral
    <2>2. /\ operators[a].collateral \in Coins /\ Rest \in Coins
          /\ IsFiniteSet(DOMAIN operators')
          /\ totalCollateral = Plus(operators[a].collateral, Rest)
      BY <1>0, <2>1, TotalSplit
    <2>3. totalCollateral' = Rest
      BY <2>1, <2>2, PlusLaws
    <2>4. SumCoins(CollateralOf(operators'), DOMAIN operators') = Rest
      <3>1. \A b \in DOMAIN operators' :
              CollateralOf(operators')[b] = CollateralOf(operators)[b]
        BY <2>1 DEF CollateralOf
      <3>2. QED
        BY <2>1, <2>2, <3>1, SumCoinsEqual
    <2>5. QED
      BY <2>2, <2>3, <2>4 DEF TotalInv, TotalCollateralIsSum, CollateralOf
  <1>3. ASSUME NEW c \in CollateralInputs, AddCollateral(a, c) PROVE TotalInv'
    <2> DEFINE old == operators[a].collateral
    <2>1. /\ a \in DOMAIN operators
          /\ DOMAIN operators' = DOMAIN operators \cup {a}
          /\ operators'[a].collateral = Plus(old, c)
          /\ \A b \in DOMAIN operators \ {a} : operators'[b] = operators[b]
          /\ totalCollateral' = Plus(totalCollateral, c)
      BY <1>0, <1>3 DEF AddCollateral, IsOperator, AddTotalCollateral, IsStore, Operator
    <2>2. /\ old \in Coins /\ Rest \in Coins /\ c \in Coins
          /\ totalCollateral = Plus(old, Rest)
      BY <1>0, <2>1, TotalSplit
    <2>3. Plus(old, c) \in Coins
      BY <2>2, CoinsClosed
    <2>4. /\ IsFiniteSet(DOMAIN operators')
          /\ SumCoins(CollateralOf(operators'), DOMAIN operators') = Plus(Plus(old, c), Rest)
      BY <1>0, <2>1, <2>3, TotalJoin
    <2>5. totalCollateral' = Plus(Plus(old, c), Rest)
      BY <2>1, <2>2, PlusLaws
    <2>6. QED
      BY <2>4, <2>5 DEF TotalInv, TotalCollateralIsSum, CollateralOf
  <1>4. ASSUME NEW c \in CollateralInputs, ReduceCollateral(a, c) PROVE TotalInv'
    <2> DEFINE old == operators[a].collateral
    <2>1. /\ a \in DOMAIN operators
          /\ Covers(old, c)
          /\ DOMAIN operators' = DOMAIN operators \cup {a}
          /\ operators'[a].collateral = Minus(old, c)
          /\ \A b \in DOMAIN operators \ {a} : operators'[b] = operators[b]
          /\ totalCollateral' = Minus(totalCollateral, c)
      BY <1>0, <1>4 DEF ReduceCollateral, IsOperator, ReduceTotalCollateral, IsStore,
                        Operator
    <2>2. /\ old \in Coins /\ Rest \in Coins /\ c \in Coins
          /\ totalCollateral = Plus(old, Rest)
      BY <1>0, <2>1, TotalSplit
    <2>3. Minus(old, c) \in Coins
      BY <2>1, <2>2, CoinsClosed
    <2>4. /\ IsFiniteSet(DOMAIN operators')
          /\ SumCoins(CollateralOf(operators'), DOMAIN operators') = Plus(Minus(old, c), Rest)
      BY <1>0, <2>1, <2>3, TotalJoin
    <2>5. totalCollateral' = Plus(Minus(old, c), Rest)
      BY <2>1, <2>2, PlusLaws
    <2>6. QED
      BY <2>4, <2>5 DEF TotalInv, TotalCollateralIsSum, CollateralOf
  <1>5. ASSUME WithdrawAllReward(a) PROVE TotalInv'
    <2>1. /\ UNCHANGED totalCollateral
          /\ DOMAIN operators' = DOMAIN operators
          /\ \A b \in DOMAIN operators : operators'[b].collateral = operators[b].collateral
      BY <1>0, <1>5 DEF WithdrawAllReward, IsStore, Operator
    <2>2. QED
      BY <2>1, TotalUnchanged
  <1>6. QED
    BY <1>1, <1>2, <1>3, <1>4, <1>5 DEF OperatorMsg

\* Every step keeps the total in step with the collateral.
LEMMA TotalStep == TypeInv /\ TypeInv' /\ TotalInv /\ [Next]_vars => TotalInv'
  <1> SUFFICES ASSUME TypeInv, TypeInv', TotalInv, [Next]_vars PROVE TotalInv'
    OBVIOUS
  <1>1. ASSUME NEW a \in Accounts, OperatorMsg(a) PROVE TotalInv'
    BY <1>1, OperatorMsgTotal
  <1>2. ASSUME NEW a \in Accounts, NEW t \in TaskIDs, TaskMsg(a, t) PROVE TotalInv'
    <2>1. UNCHANGED <<operators, totalCollateral>>
      BY <1>2 DEF TaskMsg, CreateTask, RespondToTask, RemoveTask
    <2>2. QED
      BY <2>1, TotalUnchanged
  <1>3. CASE EndBlockTask
    <2>1. /\ UNCHANGED totalCollateral
          /\ DOMAIN operators' = DOMAIN operators
          /\ \A b \in DOMAIN operators :
               operators'[b].collateral = operators[b].collateral
      <3>1. CASE UNCHANGED operators
        BY <1>3, <3>1 DEF EndBlockTask
      <3>2. ASSUME NEW task, DistributeBounty(task)
            PROVE  /\ DOMAIN operators' = DOMAIN operators
                   /\ \A b \in DOMAIN operators :
                        operators'[b].collateral = operators[b].collateral
        BY <3>2 DEF DistributeBounty, TypeInv, TypeOK, IsStore, Operator
      <3>3. UNCHANGED totalCollateral
        BY <1>3 DEF EndBlockTask
      <3>4. \/ UNCHANGED operators
            \/ \E task : DistributeBounty(task)
        BY <1>3, Zenon DEF EndBlockTask
      <3>5. QED
        BY <3>1, <3>2, <3>3, <3>4
    <2>2. QED
      BY <2>1, TotalUnchanged
  <1>4. CASE BeginBlock \/ EndBlockStart \/ EndBlockCommit \/ UNCHANGED vars
    <2>1. UNCHANGED <<operators, totalCollateral>>
      BY <1>4 DEF BeginBlock, EndBlockStart, EndBlockCommit, vars
    <2>2. QED
      BY <2>1, TotalUnchanged
  <1>5. QED
    BY <1>1, <1>2, <1>3, <1>4 DEF Next, Block

\* The total and the collateral start at nothing and never drift apart.
LEMMA OracleTotalInv == Spec => []TotalInv
  <1>1. Init => TotalInv
    <2> SUFFICES ASSUME Init PROVE TotalInv
      OBVIOUS
    <2>1. DOMAIN operators = {} /\ totalCollateral = NoCoins
      BY DEF Init
    <2>2. QED
      BY <2>1, SumCoinsEmpty, FS_EmptySet DEF TotalInv, TotalCollateralIsSum
  <1>2. QED
    BY <1>1, TotalStep, OracleTypeInv, PTL DEF Spec

\* The stored total collateral is the sum over the operators in every
\* reachable state: no sequence of joins, exits, additions, reductions and
\* rewards lets the two drift apart.
THEOREM OracleTotalCollateral == Spec => []TotalCollateralIsSum
  BY OracleTotalInv, PTL DEF TotalInv

-----------------------------------------------------------------------------
(* Results and withdraws.                                                  *)

\* A task whose result is known keeps it, whatever the step: RespondToTask
\* writes only responses, the EndBlocker aggregates only pending tasks, and
\* CreateTask replaces only a task that has reached its closing block.
THEOREM OracleResultIsFinal == Spec => ResultIsFinal
  <1> DEFINE Final == \A t \in DOMAIN tasks \cap DOMAIN tasks' :
                tasks[t].status # "pending" =>
                  \/ tasks'[t].status = tasks[t].status /\ tasks'[t].result = tasks[t].result
                  \/ tasks[t].closingBlock <= height /\ tasks'[t].status = "pending"
  <1>1. TypeInv /\ [Next]_vars => Final
    <2> SUFFICES ASSUME TypeInv, [Next]_vars PROVE Final
      OBVIOUS
    <2>0. IsStore(tasks, TaskIDs, Task)
      BY DEF TypeInv, TypeOK
    <2>1. ASSUME NEW a \in Accounts, OperatorMsg(a) PROVE Final
      BY <2>1, OperatorMsgFrame
    <2>2. ASSUME NEW t \in TaskIDs, NEW a, NEW b, NEW w, NEW v, CreateTask(t, a, b, w, v)
          PROVE  Final
      BY <2>2 DEF CreateTask, StoreSet, NewTask
    <2>3. ASSUME NEW t \in TaskIDs, NEW a, NEW s, RespondToTask(t, a, s)
          PROVE  Final
      <3>1. /\ t \in DOMAIN tasks /\ tasks[t] \in Task
            /\ tasks' = [tasks EXCEPT ![t].responses =
                           Append(@, [operator |-> a, score |-> s])]
        BY <2>0, <2>3 DEF RespondToTask, IsStore
      <3>2. QED
        BY <3>1 DEF Task
    <2>4. ASSUME NEW t, NEW force, NEW a, RemoveTask(t, force, a) PROVE Final
      BY <2>4 DEF RemoveTask, StoreDelete, Restrict
    <2>5. CASE EndBlockTask
      <3> DEFINE t == GetClosingTaskIDs(height)[cursor + 1]
      <3>1. \/ UNCHANGED tasks
            \/ /\ t \in DOMAIN tasks /\ tasks[t].status = "pending"
               /\ tasks' = [tasks EXCEPT ![t] = Aggregate(@)]
        BY <2>5 DEF EndBlockTask
      <3> HIDE DEF t
      <3>2. QED
        BY <3>1
    <2>6. CASE BeginBlock \/ EndBlockStart \/ EndBlockCommit \/ UNCHANGED vars
      BY <2>6 DEF BeginBlock, EndBlockStart, EndBlockCommit, vars
    <2>7. QED
      BY <2>1, <2>2, <2>3, <2>4, <2>5, <2>6 DEF Next, TaskMsg, Block
  <1>2. QED
    BY <1>1, OracleTypeInv, PTL DEF Spec, ResultIsFinal

\* The messages of operators leave the withdraws alone or add one that is
\* due LockedInBlocks blocks later.
LEMMA OperatorMsgWithdraws ==
  ASSUME NEW a, OperatorMsg(a)
  PROVE  \/ UNCHANGED withdraws
         \/ \E c : CreateWithdraw(a, c)
  <1>1. ASSUME NEW c, CreateOperator(a, c) \/ AddCollateral(a, c)
        PROVE  UNCHANGED withdraws
    BY <1>1 DEF CreateOperator, AddCollateral
  <1>2. ASSUME NEW c, ReduceCollateral(a, c)
        PROVE  CreateWithdraw(a, c)
    BY <1>2 DEF ReduceCollateral
  <1>3. ASSUME WithdrawAllReward(a) PROVE UNCHANGED withdraws
    BY <1>3 DEF WithdrawAllReward
  <1>4. ASSUME RemoveOperator(a) PROVE CreateWithdraw(a, operators[a].collateral)
    BY <1>4 DEF RemoveOperator
  <1>5. QED
    BY <1>1, <1>2, <1>3, <1>4, Zenon DEF OperatorMsg

\* When collateral is locked for at least a block, no withdraw outlives its
\* due block, for any heights and any lock period: the little-endian key
\* order may pay withdraws too early, but the key of the height itself is
\* always within the bound of the iteration, so none is passed over.
\* (validatePoolParams also accepts a lock of zero blocks: then a withdraw is
\* due in the block that creates it, after that block's BeginBlocker.)
THEOREM OracleNoOverdueWithdraw ==
  ASSUME LockedInBlocks > 0
  PROVE  Spec => []NoOverdueWithdraw
  <1>1. Init => NoOverdueWithdraw
    BY DEF Init, NoOverdueWithdraw
  <1>2. TypeInv /\ NoOverdueWithdraw /\ [Next]_vars => NoOverdueWithdraw'
    <2> SUFFICES ASSUME TypeInv, NoOverdueWithdraw, [Next]_vars PROVE NoOverdueWithdraw'
      OBVIOUS
    <2> USE ParamsAssumption DEF NoOverdueWithdraw
    <2>0. height \in Nat /\ \A k \in DOMAIN withdraws : k[1] \in Nat
      BY DEF TypeInv, TypeOK, IsStore
    <2>1. ASSUME NEW a \in Accounts, OperatorMsg(a) PROVE NoOverdueWithdraw'
      <3>1. phase = "deliver" /\ UNCHANGED <<height, phase>>
        BY <2>1, OperatorMsgFrame
      <3>2. CASE UNCHANGED withdraws
        BY <3>1, <3>2
      <3>3. ASSUME NEW c, CreateWithdraw(a, c) PROVE NoOverdueWithdraw'
        <4>1. DOMAIN withdraws' = DOMAIN withdraws \cup {<<height + LockedInBlocks, a>>}
          BY <3>3 DEF CreateWithdraw, StoreSet
        <4>2. height + LockedInBlocks > height
          BY <2>0
        <4>3. QED
          BY <3>1, <4>1, <4>2
      <3>4. QED
        BY <2>1, <3>2, <3>3, OperatorMsgWithdraws
    <2>2. ASSUME NEW a \in Accounts, NEW t \in TaskIDs, TaskMsg(a, t)
          PROVE  NoOverdueWithdraw'
      BY <2>2 DEF TaskMsg, CreateTask, RespondToTask, RemoveTask, DeliverTx
    <2>3. CASE BeginBlock
      <3>1. CASE phase' = "halted"
        BY <2>3, <3>1 DEF BeginBlock
      <3>2. CASE phase' = "deliver"
        <4>1. /\ phase = "begin" /\ UNCHANGED height
              /\ DOMAIN withdraws' = DOMAIN withdraws \ MatureWithdraws
          BY <2>3, <3>2 DEF BeginBlock, StoreDelete, Restrict
        <4>2. KeyLeq(height, height)
          BY <2>0 DEF KeyLeq, ByteBase
        <4>3. \A k \in DOMAIN withdraws' : k[1] # height /\ k[1] >= height
          BY <4>1, <4>2 DEF MatureWithdraws
        <4>4. QED
          BY <2>0, <3>2, <4>1, <4>3
      <3>3. QED
        BY <2>3, <3>1, <3>2 DEF BeginBlock
    <2>4. CASE EndBlockCommit
      BY <2>0, <2>4 DEF EndBlockCommit
    <2>5. CASE EndBlockStart \/ EndBlockTask
      BY <2>5 DEF EndBlockStart, EndBlockTask, DeliverTx
    <2>6. CASE UNCHANGED vars
      BY <2>6 DEF vars
    <2>7. QED
      BY <2>1, <2>2, <2>3, <2>4, <2>5, <2>6 DEF Next, Block
  <1>3. QED
    BY <1>1, <1>2, OracleTypeInv, PTL DEF Spec

-----------------------------------------------------------------------------
(* Solvency.  The code divides a bounty of several denominations only when *)
(* the result is MinScore or at least the threshold; below the threshold   *)
(* it credits the shares of all of them in the first one.  The books add   *)
(* up when each bounty is of one denomination.                             *)

OneDenom(coins) == \A d, e \in Denoms : coins[d] > 0 /\ coins[e] > 0 => d = e

\* Then a response earns its share of every denomination.
LEMMA RewardIsShare ==
  ASSUME TypeInv, NEW task \in Task, OneDenom(task.bounty), NEW r \in Response,
         TotalValidTaskCollateral(task) # 0, NEW d \in Denoms
  PROVE  BountyReward(task, r)[d] =
           (task.bounty[d] * BountyWeight(task, r)) \div TotalValidTaskCollateral(task)
  <1> DEFINE W == TotalValidTaskCollateral(task)
             w == BountyWeight(task, r)
             share(x) == (task.bounty[x] * w) \div W
             shares == [x \in Denoms |-> share(x)]
  <1>1. W \in Nat \ {0} /\ w \in Nat
    BY TotalValidType, BountyWeightType
  <1>2. \A x \in Denoms : task.bounty[x] \in Nat
    BY DEF Task, Coins
  <1>3. \A x \in Denoms : share(x) \in Nat /\ (task.bounty[x] = 0 => share(x) = 0)
    <2> HIDE DEF W, w
    <2>1. \A x \in Denoms : task.bounty[x] * w \in Nat
      BY <1>1, <1>2
    <2>2. \A x \in Nat, y \in Nat \ {0} : x \div y \in Nat
      OBVIOUS
    <2>3. \A y \in Nat \ {0} : 0 \div y = 0
      OBVIOUS
    <2>4. \A x \in Denoms : task.bounty[x] = 0 => task.bounty[x] * w = 0
      BY <1>1
    <2>5. QED
      BY <1>1, <2>1, <2>2, <2>3, <2>4
  <1>4. BountyReward(task, r) =
          IF task.result # MinScore /\ task.result < ThresholdScore
          THEN [x \in Denoms |-> IF IsFirstDenom(task.bounty, x)
                                 THEN SumFunctionOnSet(shares, Denoms) ELSE 0]
          ELSE [x \in Denoms |-> share(x)]
    BY Zenon DEF BountyReward
  <1> SUFFICES BountyReward(task, r)[d] = share(d)
    OBVIOUS
  <1>5. CASE ~ (task.result # MinScore /\ task.result < ThresholdScore)
    <2> HIDE DEF share, shares
    <2> QED BY <1>4, <1>5
  <1>6. CASE task.result # MinScore /\ task.result < ThresholdScore
    <2>1. CASE IsFirstDenom(task.bounty, d)
      <3>1. \A x \in Denoms \ {d} : task.bounty[x] = 0
        BY <1>2, <2>1 DEF OneDenom, IsFirstDenom
      <3>2. /\ \A x \in Denoms : shares[x] \in Nat
            /\ \A x \in Denoms \ {d} : shares[x] = 0
            /\ shares[d] = share(d)
        BY <1>3, <3>1
      <3> HIDE DEF share, shares
      <3>3. SumFunctionOnSet(shares, Denoms)
              = shares[d] + SumFunctionOnSet(shares, Denoms \ {d})
        BY <3>2, DenomsAssumption, SumRemove
      <3>4. SumFunctionOnSet(shares, Denoms \ {d}) = 0
        <4> DEFINE none == [x \in Denoms \ {d} |-> 0]
        <4>1. IsFiniteSet(Denoms \ {d})
          BY DenomsAssumption, FS_RemoveElement
        <4>2. \A x \in Denoms \ {d} :
                none[x] \in Nat /\ shares[x] \in Nat /\ shares[x] <= 0 * none[x] + 0
          BY <3>2
        <4> HIDE DEF none
        <4>3. /\ SumFunctionOnSet(shares, Denoms \ {d})
                   <= 0 * SumFunctionOnSet(none, Denoms \ {d}) + Cardinality(Denoms \ {d}) * 0
          BY <4>1, <4>2, SumBounded
        <4>4. /\ SumFunctionOnSet(shares, Denoms \ {d}) \in Nat
              /\ SumFunctionOnSet(none, Denoms \ {d}) \in Nat
              /\ Cardinality(Denoms \ {d}) \in Nat
          BY <4>1, <4>2, SumNat, FS_CardinalityType
        <4>5. QED
          BY <4>3, <4>4
      <3>5. QED
        BY <1>3, <1>4, <1>6, <2>1, <3>2, <3>3, <3>4
    <2>2. CASE ~ IsFirstDenom(task.bounty, d)
      <3>1. task.bounty[d] = 0
        BY <1>2, <2>2, DenomsAssumption DEF OneDenom, IsFirstDenom
      <3> HIDE DEF share, shares
      <3>2. QED
        BY <1>3, <1>4, <1>6, <2>2, <3>1
    <2>3. QED
      BY <2>1, <2>2
  <1>7. QED
    BY <1>5, <1>6

\* DistributeBounty hands out at most the bounty.
LEMMA RewardsWithinBounty ==
  ASSUME TypeInv, IsFiniteSet(DOMAIN operators), NEW task \in Task, OneDenom(task.bounty),
         TotalValidTaskCollateral(task) # 0
  PROVE  Covers(task.bounty,
                SumCoins([a \in DOMAIN operators |-> RewardOf(task, a)], DOMAIN operators))
  <1> SUFFICES ASSUME NEW d \in Denoms
               PROVE  SumCoins([a \in DOMAIN operators |-> RewardOf(task, a)],
                               DOMAIN operators)[d] <= task.bounty[d]
    BY DEF Covers
  <1> DEFINE I == DOMAIN task.responses
             K == DOMAIN operators
             W == TotalValidTaskCollateral(task)
             w == [i \in I |-> BountyWeight(task, task.responses[i])]
             reward == [i \in I |-> BountyReward(task, task.responses[i])]
             amount == [i \in I |-> BountyReward(task, task.responses[i])[d]]
             key == [i \in I |-> task.responses[i].operator]
             g == [a \in K |-> RewardOf(task, a)[d]]
             b == task.bounty[d]
  <1>1. IsFiniteSet(I) /\ \A i \in I : task.responses[i] \in Response
    BY FS_Interval DEF Task
  <1>2. b \in Nat /\ W \in Nat \ {0}
    BY TotalValidType DEF Task, Coins
  <1>3. \A i \in I : w[i] \in Nat
    BY <1>1, BountyWeightType
  <1>4. W = SumFunctionOnSet(w, I)
    BY Zenon DEF TotalValidTaskCollateral, SumResponses
  <1>5. \A i \in I : amount[i] = (b * w[i]) \div W
    BY <1>1, RewardIsShare
  <1>6. \A i \in I : amount[i] \in Nat /\ amount[i] * W <= b * w[i]
    <2>1. \A x \in Nat, y \in Nat \ {0} : x \div y \in Nat /\ (x \div y) * y <= x
      OBVIOUS
    <2> HIDE DEF W, w, amount, b, I
    <2>2. \A i \in I : b * w[i] \in Nat
      BY <1>2, <1>3
    <2>3. QED
      BY <1>2, <1>5, <2>1, <2>2
  <1>7. SumFunctionOnSet(amount, I) <= b
    <2> HIDE DEF W, w, amount, b, I
    <2> QED BY <1>1, <1>2, <1>3, <1>4, <1>6, SumShares
  <1>8. \A a \in K : g[a] = SumFunctionOnSet(amount, {i \in I : key[i] = a})
    <2> SUFFICES ASSUME NEW a \in K
                 PROVE  g[a] = SumFunctionOnSet(amount, {i \in I : key[i] = a})
      OBVIOUS
    <2> DEFINE S == {i \in I : key[i] = a}
               h == [x \in S |-> reward[x][d]]
    <2>1. S = {i \in I : task.responses[i].operator = a}
      OBVIOUS
    <2>2. RewardOf(task, a) = SumCoins(reward, S)
      BY <2>1, Zenon DEF RewardOf
    <2>3. g[a] = SumFunctionOnSet(h, S)
      <3>1. SumCoins(reward, S)[d] = SumFunctionOnSet(h, S)
        BY DEF SumCoins
      <3>2. g[a] = RewardOf(task, a)[d]
        OBVIOUS
      <3> HIDE DEF g, h, reward, S
      <3> QED BY <2>2, <3>1, <3>2
    <2>4. IsFiniteSet(S)
      BY <1>1, FS_Subset
    <2>5. \A x \in S : h[x] = amount[x]
      OBVIOUS
    <2> HIDE DEF h, S, amount, g
    <2>6. SumFunctionOnSet(h, S) = SumFunctionOnSet(amount, S)
      BY <2>4, <2>5, SumEqual
    <2>7. QED
      BY <2>3, <2>6 DEF S
  <1>9. SumFunctionOnSet(g, K) <= SumFunctionOnSet(amount, I)
        /\ SumFunctionOnSet(g, K) \in Nat
    <2> DEFINE part == [a \in K |-> {i \in I : key[i] = a}]
    <2>1. IsFiniteSet(K) /\ IsFiniteSet(I)
      BY <1>1
    <2>2. /\ \A a \in K : part[a] \in SUBSET I
          /\ \A a, c \in K : a # c => part[a] \cap part[c] = {}
      OBVIOUS
    <2>3. \A a \in K : g[a] = SumFunctionOnSet(amount, part[a])
      <3> HIDE DEF g, amount, I, key, K
      <3> QED BY <1>8, Zenon
    <2> HIDE DEF g, K, amount, I, key, part
    <2>4. \A i \in I : amount[i] \in Nat
      BY <1>6
    <2>5. Parted(K, I, part, amount, g)
      BY <2>2, <2>3, <2>4 DEF Parted
    <2>6. QED
      BY <2>1, <2>5, SumParts
  <1>10. SumFunctionOnSet(g, K) <= b
    <2>1. SumFunctionOnSet(amount, I) \in Nat
      <3> HIDE DEF amount, I
      <3> QED BY <1>1, <1>6, SumNat
    <2> HIDE DEF g, K, amount, I, b
    <2>2. QED
      BY <1>2, <1>7, <1>9, <2>1
  <1>11. SumCoins([a \in K |-> RewardOf(task, a)], K)[d] = SumFunctionOnSet(g, K)
    <2>1. [x \in K |-> [a \in K |-> RewardOf(task, a)][x][d]] = g
      OBVIOUS
    <2>2. QED
      BY <2>1 DEF SumCoins
  <1>12. QED
    BY <1>10, <1>11

RewardsOf(ops) == [a \in DOMAIN ops |-> ops[a].accumulatedRewards]
Rewards == SumCoins(RewardsOf(operators), DOMAIN operators)

Withdrawing == SumCoins(withdraws, DOMAIN withdraws)

BountyOf(ts) == [t \in DOMAIN ts |-> ts[t].bounty]
PendingTasks(ts) == {t \in DOMAIN ts : ts[t].status = "pending"}
Bounties == SumCoins(BountyOf(tasks), PendingTasks(tasks))

\* What is owed, with the stored total for the collateral of the operators.
Owed == Plus(Plus(totalCollateral, Rewards), Plus(Withdrawing, Bounties))

\* The inductive form of Solvent.
SolvencyInv ==
  /\ IsFiniteSet(DOMAIN tasks)
  /\ \A t \in DOMAIN tasks : OneDenom(tasks[t].bounty)
  /\ Covers(moduleBalance, Owed)

\* The four parts of what is owed are coins.
LEMMA OwedType ==
  ASSUME TypeInv, TotalInv, IsFiniteSet(DOMAIN tasks)
  PROVE  /\ totalCollateral \in Coins /\ Rewards \in Coins
         /\ Withdrawing \in Coins /\ Bounties \in Coins
  <1>1. /\ \A a \in DOMAIN operators : RewardsOf(operators)[a] \in Coins
        /\ \A k \in DOMAIN withdraws : withdraws[k] \in Coins
        /\ \A t \in DOMAIN tasks : BountyOf(tasks)[t] \in Coins
        /\ totalCollateral \in Coins
    BY DEF TypeInv, TypeOK, IsStore, Operator, Task, RewardsOf, BountyOf
  <1>2. /\ IsFiniteSet(DOMAIN operators) /\ IsFiniteSet(DOMAIN withdraws)
        /\ IsFiniteSet(PendingTasks(tasks)) /\ PendingTasks(tasks) \subseteq DOMAIN tasks
    BY FS_Subset DEF TypeInv, TotalInv, PendingTasks
  <1>3. Rewards \in Coins /\ Withdrawing \in Coins
    BY <1>1, <1>2, SumCoinsType DEF Rewards, Withdrawing
  <1>4. Bounties \in Coins
    <2>1. \A t \in PendingTasks(tasks) : BountyOf(tasks)[t] \in Coins
      BY <1>1, <1>2
    <2>2. QED
      BY <1>2, <2>1, SumCoinsType DEF Bounties
  <1>5. QED
    BY <1>1, <1>3, <1>4

\* Solvent says that the module account covers what is owed.
LEMMA SolventIsOwed ==
  ASSUME TotalInv
  PROVE  Solvent <=> Covers(moduleBalance, Owed)
  <1>1. {t \in DOMAIN tasks : Pending(t)} = PendingTasks(tasks)
    BY DEF Pending, PendingTasks
  <1>2. Liabilities = Owed
    <2>1. totalCollateral = SumCoins([a \in DOMAIN operators |-> operators[a].collateral],
                                     DOMAIN operators)
      BY DEF TotalInv, TotalCollateralIsSum
    <2>2. QED
      BY <1>1, <2>1, Zenon
         DEF Liabilities, Owed, Rewards, RewardsOf, Withdrawing, Bounties, BountyOf
  <1>3. QED
    BY <1>2 DEF Solvent

\* The rewards when one operator joins, changes or leaves.
LEMMA RewardsChange ==
  ASSUME TypeInv, TotalInv, NEW a
  PROVE  \E rest \in Coins :
           /\ a \in DOMAIN operators =>
                Rewards = Plus(operators[a].accumulatedRewards, rest)
           /\ a \notin DOMAIN operators => Rewards = rest
           /\ /\ operators' \in [DOMAIN operators \cup {a} -> Operator]
              /\ \A b \in DOMAIN operators \ {a} :
                   operators'[b].accumulatedRewards = operators[b].accumulatedRewards
              => Rewards' = Plus(operators'[a].accumulatedRewards, rest)
           /\ operators' = StoreDelete(operators, {a}) => Rewards' = rest
  <1> DEFINE S == DOMAIN operators
             f == RewardsOf(operators)
             rest == SumCoins(f, S \ {a})
  <1>1. IsFiniteSet(S) /\ IsFiniteSet(S \ {a}) /\ \A x \in S : f[x] \in Coins
    BY FS_Difference, FS_Singleton
       DEF TypeInv, TypeOK, IsStore, Operator, TotalInv, RewardsOf
  <1>2. rest \in Coins
    <2> HIDE DEF S, f
    <2> QED BY <1>1, SumCoinsType
  <1>3. a \in S => Rewards = Plus(operators[a].accumulatedRewards, rest)
    <2>1. a \in S => SumCoins(f, S) = Plus(f[a], SumCoins(f, S \ {a}))
      BY <1>1, SumCoinsRemove
    <2>2. a \in S => f[a] = operators[a].accumulatedRewards
      BY DEF RewardsOf
    <2>3. QED
      BY <2>1, <2>2 DEF Rewards
  <1>4. a \notin S => Rewards = rest
    <2>1. a \notin S => S \ {a} = S
      OBVIOUS
    <2>2. QED
      BY <2>1, Zenon DEF Rewards
  <1>5. ASSUME operators' \in [S \cup {a} -> Operator],
               \A b \in S \ {a} :
                 operators'[b].accumulatedRewards = operators[b].accumulatedRewards
        PROVE  Rewards' = Plus(operators'[a].accumulatedRewards, rest)
    <2> DEFINE g == RewardsOf(operators')
    <2>1. /\ DOMAIN operators' = S \cup {a}
          /\ g[a] \in Coins /\ g[a] = operators'[a].accumulatedRewards
          /\ \A x \in S \ {a} : g[x] = f[x]
      BY <1>5 DEF RewardsOf, Operator
    <2>2. Rewards' = SumCoins(g, S \cup {a})
      BY <2>1 DEF Rewards, RewardsOf
    <2>3. SumCoins(g, S \cup {a}) = Plus(g[a], SumCoins(f, S \ {a}))
      <3>1. g[a] \in Coins
        BY <2>1
      <3>2. \A x \in S \ {a} : g[x] = f[x]
        BY <2>1
      <3>3. IsFiniteSet(S) /\ \A x \in S : f[x] \in Coins
        BY <1>1
      <3> HIDE DEF S, f, g
      <3>4. QED
        BY <3>1, <3>2, <3>3, SumCoinsChange
    <2> HIDE DEF S, f, g
    <2>4. QED
      BY <2>1, <2>2, <2>3
  <1>6. ASSUME operators' = StoreDelete(operators, {a}) PROVE Rewards' = rest
    <2> DEFINE g == RewardsOf(operators')
    <2>1. DOMAIN operators' = S \ {a} /\ \A x \in S \ {a} : g[x] = f[x]
      BY <1>6 DEF RewardsOf, StoreDelete, Restrict
    <2>2. Rewards' = SumCoins(g, S \ {a})
      BY <2>1 DEF Rewards, RewardsOf
    <2> HIDE DEF S, f, g
    <2>3. SumCoins(g, S \ {a}) = SumCoins(f, S \ {a})
      BY <1>1, <2>1, SumCoinsEqual
    <2>4. QED
      BY <2>2, <2>3
  <1> HIDE DEF rest
  <1>7. QED
    BY <1>2, <1>3, <1>4, <1>5, <1>6

\* A new withdraw adds at most its coins to the withdraws on their way: one
\* of the same address in the same block is replaced.
LEMMA WithdrawingChange ==
  ASSUME TypeInv, NEW a, NEW c \in Coins, CreateWithdraw(a, c)
  PROVE  \E rest \in Coins : /\ Withdrawing' = Plus(c, rest)
                             /\ Withdrawing \in Coins /\ Covers(Withdrawing, rest)
  <1> DEFINE S == DOMAIN withdraws
  <1>0. PICK y : y = <<height + LockedInBlocks, a>>
    OBVIOUS
  <1>1. IsFiniteSet(S) /\ \A x \in S : withdraws[x] \in Coins
    BY DEF TypeInv, TypeOK, IsStore
  <1>2. /\ DOMAIN withdraws' = S \cup {y} /\ withdraws'[y] = c
        /\ \A x \in S \ {y} : withdraws'[x] = withdraws[x]
    BY <1>0 DEF CreateWithdraw, StoreSet
  <1>3. Withdrawing' = SumCoins(withdraws', S \cup {y}) /\ Withdrawing = SumCoins(withdraws, S)
    BY <1>2 DEF Withdrawing
  <1> HIDE DEF S
  <1>4. /\ SumCoins(withdraws, S) \in Coins
        /\ SumCoins(withdraws, S \ {y}) \in Coins
        /\ Covers(SumCoins(withdraws, S), SumCoins(withdraws, S \ {y}))
        /\ SumCoins(withdraws', S \cup {y}) = Plus(withdraws'[y], SumCoins(withdraws, S \ {y}))
    BY <1>1, <1>2, SumCoinsChange
  <1>5. QED
    BY <1>2, <1>3, <1>4

\* The messages of operators keep the module account able to pay.
LEMMA OperatorMsgSolvent ==
  ASSUME TypeInv, TypeInv', TotalInv, TotalInv', SolvencyInv, NEW a \in Accounts,
         OperatorMsg(a)
  PROVE  SolvencyInv'
  <1> USE InputsAssumption
  <1>0. UNCHANGED <<tasks, Bounties>>
    BY OperatorMsgFrame DEF Bounties
  <1>1. /\ totalCollateral \in Coins /\ Rewards \in Coins /\ moduleBalance \in Coins
        /\ Withdrawing \in Coins /\ Bounties \in Coins
    BY OwedType DEF SolvencyInv, TypeInv, TypeOK
  <1>2. Covers(moduleBalance, Owed)
    BY DEF SolvencyInv
  <1>3. IsStore(operators, Accounts, Operator) /\ IsStore(operators', Accounts, Operator)
    BY DEF TypeInv, TypeOK
  <1> SUFFICES Covers(moduleBalance', Owed')
    BY <1>0 DEF SolvencyInv
  <1>4. PICK rest \in Coins :
           /\ a \in DOMAIN operators =>
                Rewards = Plus(operators[a].accumulatedRewards, rest)
           /\ a \notin DOMAIN operators => Rewards = rest
           /\ /\ operators' \in [DOMAIN operators \cup {a} -> Operator]
              /\ \A b \in DOMAIN operators \ {a} :
                   operators'[b].accumulatedRewards = operators[b].accumulatedRewards
              => Rewards' = Plus(operators'[a].accumulatedRewards, rest)
           /\ operators' = StoreDelete(operators, {a}) => Rewards' = rest
    BY RewardsChange
  <1>5. ASSUME NEW c \in CollateralInputs, CreateOperator(a, c)
        PROVE  Covers(moduleBalance', Owed')
    <2>1. /\ a \notin DOMAIN operators
          /\ operators' \in [DOMAIN operators \cup {a} -> Operator]
          /\ operators'[a].accumulatedRewards = NoCoins
          /\ \A b \in DOMAIN operators \ {a} : operators'[b] = operators[b]
      BY <1>3, <1>5 DEF CreateOperator, StoreSet, NewOperator, IsOperator, IsStore
    <2>2. Rewards = rest /\ Rewards' = Plus(NoCoins, rest)
      BY <1>4, <2>1
    <2>3. /\ totalCollateral' = Plus(totalCollateral, c)
          /\ moduleBalance' = Plus(moduleBalance, c)
          /\ Withdrawing' = Withdrawing
      BY <1>5 DEF CreateOperator, AddTotalCollateral, SendToModule, Withdrawing
    <2>4. c \in Coins
      OBVIOUS
    <2>5. QED
      BY <1>0, <1>1, <1>2, <2>2, <2>3, <2>4 DEF Coins, Covers, Plus, Minus, Owed, NoCoins
  <1>6. ASSUME RemoveOperator(a) PROVE Covers(moduleBalance', Owed')
    <2> DEFINE c == operators[a].collateral
               r == operators[a].accumulatedRewards
    <2>1. /\ a \in DOMAIN operators
          /\ operators' = StoreDelete(operators, {a})
          /\ totalCollateral' = Minus(totalCollateral, c)
          /\ Covers(totalCollateral, c)
          /\ moduleBalance' = Minus(moduleBalance, r)
          /\ CreateWithdraw(a, c)
      BY <1>6 DEF RemoveOperator, IsOperator, ReduceTotalCollateral, SendFromModule
    <2>2. c \in Coins /\ r \in Coins
      BY <1>3, <2>1 DEF IsStore, Operator
    <2> HIDE DEF c, r
    <2>3. Rewards = Plus(r, rest) /\ Rewards' = rest
      BY <1>4, <2>1 DEF r
    <2>4. PICK w \in Coins : Withdrawing' = Plus(c, w) /\ Covers(Withdrawing, w)
      BY <2>1, <2>2, WithdrawingChange
    <2>5. QED
      BY <1>0, <1>1, <1>2, <2>1, <2>2, <2>3, <2>4 DEF Coins, Covers, Plus, Minus, Owed
  <1>7. ASSUME NEW c \in CollateralInputs, AddCollateral(a, c)
        PROVE  Covers(moduleBalance', Owed')
    <2>1. /\ a \in DOMAIN operators
          /\ operators' \in [DOMAIN operators \cup {a} -> Operator]
          /\ \A b \in DOMAIN operators :
               operators'[b].accumulatedRewards = operators[b].accumulatedRewards
      <3>1. a \in DOMAIN operators
        BY <1>7 DEF AddCollateral, IsOperator
      <3>2. PICK v : operators' = [operators EXCEPT ![a].collateral = v]
        BY <1>7 DEF AddCollateral
      <3>3. \A b \in DOMAIN operators : operators[b] \in Operator
        BY <1>3 DEF IsStore
      <3>4. \A b \in DOMAIN operators :
              operators'[b].accumulatedRewards = operators[b].accumulatedRewards
        BY <3>1, <3>2, <3>3 DEF Operator
      <3>5. DOMAIN operators' = DOMAIN operators \cup {a}
        BY <3>1, <3>2
      <3>6. QED
        BY <1>3, <3>1, <3>4, <3>5 DEF IsStore
    <2>2. Rewards' = Rewards
      BY <1>4, <2>1
    <2>3. /\ totalCollateral' = Plus(totalCollateral, c)
          /\ moduleBalance' = Plus(moduleBalance, c)
          /\ Withdrawing' = Withdrawing
      BY <1>7 DEF AddCollateral, AddTotalCollateral, SendToModule, Withdrawing
    <2>4. c \in Coins
      OBVIOUS
    <2>5. QED
      BY <1>0, <1>1, <1>2, <2>2, <2>3, <2>4 DEF Coins, Covers, Plus, Minus, Owed
  <1>8. ASSUME NEW c \in CollateralInputs, ReduceCollateral(a, c)
        PROVE  Covers(moduleBalance', Owed')
    <2>1. /\ a \in DOMAIN operators
          /\ operators' \in [DOMAIN operators \cup {a} -> Operator]
          /\ \A b \in DOMAIN operators :
               operators'[b].accumulatedRewards = operators[b].accumulatedRewards
      <3>1. /\ a \in DOMAIN operators
            /\ operators' = [operators EXCEPT ![a].collateral = Minus(@, c)]
        BY <1>8 DEF ReduceCollateral, IsOperator
      <3>2. DOMAIN operators' = DOMAIN operators \cup {a}
        BY <3>1
      <3>3. operators' \in [DOMAIN operators \cup {a} -> Operator]
        BY <1>3, <3>2 DEF IsStore
      <3>4. QED
        BY <1>3, <3>1, <3>3 DEF IsStore, Operator
    <2>2. Rewards' = Rewards
      BY <1>4, <2>1
    <2>3. /\ totalCollateral' = Minus(totalCollateral, c)
          /\ Covers(totalCollateral, c)
          /\ moduleBalance' = moduleBalance
          /\ CreateWithdraw(a, c)
      BY <1>8 DEF ReduceCollateral, ReduceTotalCollateral
    <2>4. c \in Coins
      OBVIOUS
    <2>5. PICK w \in Coins : Withdrawing' = Plus(c, w) /\ Covers(Withdrawing, w)
      BY <2>3, <2>4, WithdrawingChange
    <2>6. QED
      BY <1>0, <1>1, <1>2, <2>2, <2>3, <2>4, <2>5 DEF Coins, Covers, Plus, Minus, Owed
  <1>9. ASSUME WithdrawAllReward(a) PROVE Covers(moduleBalance', Owed')
    <2> DEFINE r == operators[a].accumulatedRewards
    <2>1. /\ a \in DOMAIN operators
          /\ operators' \in [DOMAIN operators \cup {a} -> Operator]
          /\ operators'[a].accumulatedRewards = NoCoins
          /\ \A b \in DOMAIN operators \ {a} : operators'[b] = operators[b]
          /\ r \in Coins
      BY <1>3, <1>9 DEF WithdrawAllReward, IsOperator, IsStore, Operator
    <2>2. /\ totalCollateral' = totalCollateral
          /\ moduleBalance' = Minus(moduleBalance, r)
          /\ Withdrawing' = Withdrawing
      BY <1>9 DEF WithdrawAllReward, SendFromModule, Withdrawing
    <2> HIDE DEF r
    <2>3. Rewards = Plus(r, rest) /\ Rewards' = Plus(NoCoins, rest)
      BY <1>4, <2>1 DEF r
    <2>4. QED
      BY <1>0, <1>1, <1>2, <2>1, <2>2, <2>3 DEF Coins, Covers, Plus, Minus, Owed, NoCoins
  <1>10. QED
    BY <1>5, <1>6, <1>7, <1>8, <1>9 DEF OperatorMsg

\* The pending bounties when one task is created, replaced, decided or removed.
LEMMA BountiesChange ==
  ASSUME TypeInv, IsFiniteSet(DOMAIN tasks), NEW t
  PROVE  \E rest \in Coins :
           /\ Covers(Bounties, rest)
           /\ t \in PendingTasks(tasks) => Bounties = Plus(tasks[t].bounty, rest)
           /\ /\ PendingTasks(tasks') = PendingTasks(tasks) \cup {t}
              /\ tasks'[t].bounty \in Coins
              /\ \A u \in PendingTasks(tasks) \ {t} : tasks'[u].bounty = tasks[u].bounty
              => Bounties' = Plus(tasks'[t].bounty, rest)
           /\ /\ PendingTasks(tasks') = PendingTasks(tasks) \ {t}
              /\ \A u \in PendingTasks(tasks) \ {t} : tasks'[u].bounty = tasks[u].bounty
              => Bounties' = rest
  <1> DEFINE S == PendingTasks(tasks)
             f == BountyOf(tasks)
             g == BountyOf(tasks')
             rest == SumCoins(f, S \ {t})
             all == SumCoins(f, S)
  <1>1. IsFiniteSet(S) /\ IsFiniteSet(S \ {t}) /\ \A x \in S : f[x] \in Coins
    <2>1. IsFiniteSet(S) /\ S \subseteq DOMAIN tasks
      BY FS_Subset DEF PendingTasks
    <2>2. IsFiniteSet(S \ {t})
      BY <2>1, FS_Difference
    <2>3. \A x \in DOMAIN tasks : f[x] \in Coins
      BY DEF TypeInv, TypeOK, IsStore, Task, BountyOf
    <2>4. QED
      BY <2>1, <2>2, <2>3
  <1>2. rest \in Coins /\ all \in Coins
    <2> HIDE DEF S, f
    <2> QED BY <1>1, SumCoinsType
  <1>3. t \in S => f[t] = tasks[t].bounty
    BY DEF PendingTasks, BountyOf
  <1>4. t \in S => all = Plus(f[t], rest)
    <2> HIDE DEF S, f
    <2> QED BY <1>1, SumCoinsRemove
  <1>5. Covers(all, rest)
    <2>1. CASE t \in S
      <3>1. f[t] \in Coins
        BY <1>1, <2>1
      <3> HIDE DEF S, f, all, rest
      <3>2. QED
        BY <1>2, <1>4, <2>1, <3>1 DEF Coins, Plus, Covers
    <2>2. CASE t \notin S
      <3>1. S \ {t} = S
        BY <2>2
      <3>2. all = rest
        BY <3>1
      <3> HIDE DEF S, f, all, rest
      <3>3. QED
        BY <1>2, <3>2 DEF Coins, Covers
    <2>3. QED
      BY <2>1, <2>2
  <1>6. ASSUME PendingTasks(tasks') = S \cup {t}, tasks'[t].bounty \in Coins,
               \A u \in S \ {t} : tasks'[u].bounty = tasks[u].bounty
        PROVE  Bounties' = Plus(tasks'[t].bounty, rest)
    <2>1. g[t] = tasks'[t].bounty /\ \A u \in S \ {t} : g[u] = f[u]
      BY <1>6 DEF PendingTasks, BountyOf
    <2>2. g[t] \in Coins
      BY <1>6, <2>1
    <2>3. Bounties' = SumCoins(g, S \cup {t})
      BY <1>6 DEF Bounties
    <2> HIDE DEF S, f, g
    <2>4. SumCoins(g, S \cup {t}) = Plus(g[t], SumCoins(f, S \ {t}))
      BY <1>1, <2>1, <2>2, SumCoinsChange
    <2>5. QED
      BY <2>1, <2>3, <2>4
  <1>7. ASSUME PendingTasks(tasks') = S \ {t},
               \A u \in S \ {t} : tasks'[u].bounty = tasks[u].bounty
        PROVE  Bounties' = rest
    <2>1. \A u \in S \ {t} : g[u] = f[u]
      BY <1>7 DEF PendingTasks, BountyOf
    <2>2. Bounties' = SumCoins(g, S \ {t})
      BY <1>7 DEF Bounties
    <2> HIDE DEF S, f, g
    <2>3. SumCoins(g, S \ {t}) = SumCoins(f, S \ {t})
      BY <1>1, <2>1, SumCoinsEqual
    <2>4. QED
      BY <2>2, <2>3
  <1>8. Bounties = all
    BY DEF Bounties
  <1> HIDE DEF rest, all, f, g
  <1>9. QED
    BY <1>2, <1>3, <1>4, <1>5, <1>6, <1>7, <1>8

\* The messages about tasks keep the module account able to pay: a bounty is
\* paid in before it is owed, and a task that goes is owed nothing.
LEMMA TaskMsgSolvent ==
  ASSUME \A b \in BountyInputs : OneDenom(b),
         TypeInv, TypeInv', TotalInv, SolvencyInv, NEW a \in Accounts, NEW t \in TaskIDs,
         TaskMsg(a, t)
  PROVE  SolvencyInv'
  <1> USE InputsAssumption
  <1>0. UNCHANGED <<operators, totalCollateral, withdraws>>
    BY DEF TaskMsg, CreateTask, RespondToTask, RemoveTask
  <1>1. UNCHANGED <<totalCollateral, Rewards, Withdrawing>>
    BY <1>0 DEF Rewards, Withdrawing
  <1>2. /\ totalCollateral \in Coins /\ Rewards \in Coins /\ moduleBalance \in Coins
        /\ Withdrawing \in Coins /\ Bounties \in Coins
        /\ Covers(moduleBalance, Owed)
    BY OwedType DEF SolvencyInv, TypeInv, TypeOK
  <1>3. /\ IsStore(tasks, TaskIDs, Task) /\ IsStore(tasks', TaskIDs, Task)
        /\ IsFiniteSet(DOMAIN tasks)
        /\ \A u \in DOMAIN tasks : OneDenom(tasks[u].bounty)
    BY DEF TypeInv, TypeOK, SolvencyInv
  <1>4. PICK rest \in Coins :
           /\ Covers(Bounties, rest)
           /\ t \in PendingTasks(tasks) => Bounties = Plus(tasks[t].bounty, rest)
           /\ /\ PendingTasks(tasks') = PendingTasks(tasks) \cup {t}
              /\ tasks'[t].bounty \in Coins
              /\ \A u \in PendingTasks(tasks) \ {t} : tasks'[u].bounty = tasks[u].bounty
              => Bounties' = Plus(tasks'[t].bounty, rest)
           /\ /\ PendingTasks(tasks') = PendingTasks(tasks) \ {t}
              /\ \A u \in PendingTasks(tasks) \ {t} : tasks'[u].bounty = tasks[u].bounty
              => Bounties' = rest
    BY <1>3, BountiesChange
  <1>5. ASSUME NEW b \in BountyInputs, NEW w, NEW v, CreateTask(t, a, b, w, v)
        PROVE  SolvencyInv'
    <2>1. /\ DOMAIN tasks' = DOMAIN tasks \cup {t}
          /\ \A u \in DOMAIN tasks \ {t} : tasks'[u] = tasks[u]
          /\ tasks'[t].bounty = b /\ tasks'[t].status = "pending"
          /\ moduleBalance' = Plus(moduleBalance, b)
          /\ b \in Coins
      BY <1>5 DEF CreateTask, StoreSet, NewTask, SendToModule
    <2>2. /\ PendingTasks(tasks') = PendingTasks(tasks) \cup {t}
          /\ \A u \in PendingTasks(tasks) \ {t} : tasks'[u].bounty = tasks[u].bounty
      BY <2>1 DEF PendingTasks
    <2>3. Bounties' = Plus(b, rest)
      BY <1>4, <2>1, <2>2
    <2>4. Covers(moduleBalance', Owed')
      BY <1>1, <1>2, <1>4, <2>1, <2>3 DEF Covers, Coins, Plus, Owed
    <2>5. IsFiniteSet(DOMAIN tasks')
      BY <1>3, <2>1, FS_AddElement
    <2>6. \A u \in DOMAIN tasks' : OneDenom(tasks'[u].bounty)
      BY <1>3, <2>1
    <2>7. QED
      BY <2>4, <2>5, <2>6 DEF SolvencyInv
  <1>6. ASSUME NEW s, RespondToTask(t, a, s) PROVE SolvencyInv'
    <2>1. /\ DOMAIN tasks' = DOMAIN tasks
          /\ \A u \in DOMAIN tasks : /\ tasks'[u].bounty = tasks[u].bounty
                                     /\ tasks'[u].status = tasks[u].status
          /\ moduleBalance' = moduleBalance
      BY <1>3, <1>6 DEF RespondToTask, IsStore, Task
    <2>2. PendingTasks(tasks') = PendingTasks(tasks) /\ BountyOf(tasks') = BountyOf(tasks)
      BY <2>1 DEF PendingTasks, BountyOf
    <2>3. Bounties' = Bounties
      BY <2>2 DEF Bounties
    <2>4. Covers(moduleBalance', Owed')
      BY <1>1, <1>2, <2>1, <2>3 DEF Owed
    <2>5. QED
      BY <1>3, <2>1, <2>4 DEF SolvencyInv
  <1>7. ASSUME NEW force, RemoveTask(t, force, a) PROVE SolvencyInv'
    <2>1. /\ DOMAIN tasks' = DOMAIN tasks \ {t}
          /\ \A u \in DOMAIN tasks \ {t} : tasks'[u] = tasks[u]
          /\ moduleBalance' = moduleBalance
      BY <1>7 DEF RemoveTask, StoreDelete, Restrict
    <2>2. /\ PendingTasks(tasks') = PendingTasks(tasks) \ {t}
          /\ \A u \in PendingTasks(tasks) \ {t} : tasks'[u].bounty = tasks[u].bounty
      BY <2>1 DEF PendingTasks
    <2>3. Bounties' = rest
      BY <1>4, <2>2
    <2>4. Covers(moduleBalance', Owed')
      BY <1>1, <1>2, <1>4, <2>1, <2>3 DEF Covers, Coins, Plus, Owed
    <2>5. IsFiniteSet(DOMAIN tasks')
      <3>1. DOMAIN tasks' \in SUBSET DOMAIN tasks
        BY <2>1
      <3>2. QED
        BY <1>3, <3>1, FS_Subset
    <2>6. QED
      BY <1>3, <2>1, <2>4, <2>5 DEF SolvencyInv
  <1>8. QED
    BY <1>5, <1>6, <1>7 DEF TaskMsg

\* The EndBlocker turns the bounty of the task it decides into rewards of at
\* most that amount.
LEMMA EndBlockTaskSolvent ==
  ASSUME TypeInv, TypeInv', TotalInv, SolvencyInv, EndBlockTask
  PROVE  SolvencyInv'
  <1>0. UNCHANGED <<totalCollateral, withdraws, moduleBalance>>
    BY DEF EndBlockTask
  <1>1. UNCHANGED <<totalCollateral, Withdrawing, moduleBalance>>
    BY <1>0 DEF Withdrawing
  <1>2. /\ totalCollateral \in Coins /\ Rewards \in Coins /\ moduleBalance \in Coins
        /\ Withdrawing \in Coins /\ Bounties \in Coins
        /\ Covers(moduleBalance, Owed)
    BY OwedType DEF SolvencyInv, TypeInv, TypeOK
  <1>3. /\ IsStore(tasks, TaskIDs, Task) /\ IsStore(operators, Accounts, Operator)
        /\ IsFiniteSet(DOMAIN tasks) /\ IsFiniteSet(DOMAIN operators)
        /\ \A u \in DOMAIN tasks : OneDenom(tasks[u].bounty)
    BY DEF TypeInv, TypeOK, SolvencyInv, TotalInv
  <1>4. PICK t : t = GetClosingTaskIDs(height)[cursor + 1]
    OBVIOUS
  <1>5. CASE UNCHANGED <<tasks, operators>>
    BY <1>0, <1>5 DEF SolvencyInv, Owed, Rewards, Withdrawing, Bounties
  <1>6. CASE /\ t \in DOMAIN tasks /\ tasks[t].status = "pending"
             /\ tasks' = [tasks EXCEPT ![t] = Aggregate(tasks[t])]
             /\ DistributeBounty(Aggregate(tasks[t]))
    <2>1. PICK task : task = Aggregate(tasks[t])
      OBVIOUS
    <2>2. /\ tasks[t] \in Task /\ task \in Task /\ task.status # "pending"
          /\ task.bounty = tasks[t].bounty
      BY <1>3, <1>6, <2>1, AggregateType, AggregateFields DEF IsStore
    <2>3. OneDenom(task.bounty) /\ task.bounty \in Coins
      BY <1>3, <1>6, <2>2 DEF Task
    <2>4. /\ DOMAIN tasks' = DOMAIN tasks /\ tasks'[t] = task
          /\ \A u \in DOMAIN tasks \ {t} : tasks'[u] = tasks[u]
      BY <1>6, <2>1
    <2>5. /\ PendingTasks(tasks') = PendingTasks(tasks) \ {t}
          /\ t \in PendingTasks(tasks)
          /\ \A u \in PendingTasks(tasks) \ {t} : tasks'[u].bounty = tasks[u].bounty
      BY <1>6, <2>2, <2>4 DEF PendingTasks
    <2>6. Bounties = Plus(task.bounty, Bounties') /\ Bounties' \in Coins
      BY <1>3, <2>2, <2>5, BountiesChange
    <2>7. \E paid \in Coins : Covers(task.bounty, paid) /\ Rewards' = Plus(Rewards, paid)
      <3>1. CASE TotalValidTaskCollateral(task) = 0
        <4>1. operators' = operators
          BY <1>6, <2>1, <3>1 DEF DistributeBounty
        <4>2. Rewards' = Plus(Rewards, NoCoins)
          BY <1>2, <4>1 DEF Rewards, Plus, NoCoins, Coins
        <4>3. NoCoins \in Coins /\ Covers(task.bounty, NoCoins)
          BY <2>3 DEF NoCoins, Coins, Covers
        <4>4. QED
          BY <4>2, <4>3
      <3>2. CASE TotalValidTaskCollateral(task) # 0
        <4> DEFINE S == DOMAIN operators
                   f == RewardsOf(operators)
                   g == [a \in S |-> RewardOf(task, a)]
                   h == RewardsOf(operators')
        <4>1. operators' = [a \in DOMAIN operators |->
                              [operators[a] EXCEPT !.accumulatedRewards =
                                 Plus(@, RewardOf(task, a))]]
          BY <1>6, <2>1, <3>2 DEF DistributeBounty
        <4>2. /\ DOMAIN operators' = S
              /\ \A x \in S : operators[x] \in Operator
          BY <1>3, <4>1 DEF IsStore
        <4>3. \A x \in S : /\ f[x] \in Coins /\ g[x] \in Coins
                           /\ h[x] = Plus(f[x], g[x])
          <5>1. \A x \in S : g[x] \in Coins
            BY <2>2, <3>2, RewardOfType
          <5>2. \A x \in S : f[x] \in Coins /\ h[x] = Plus(f[x], g[x])
            BY <4>1, <4>2 DEF RewardsOf, Operator
          <5>3. QED
            BY <5>1, <5>2
        <4>4. Rewards = SumCoins(f, S) /\ Rewards' = SumCoins(h, S)
          BY <4>2 DEF Rewards
        <4>5. Covers(task.bounty, SumCoins(g, S))
          BY <1>3, <2>2, <2>3, <3>2, RewardsWithinBounty
        <4>6. IsFiniteSet(S)
          BY <1>3
        <4> HIDE DEF S, f, g, h
        <4>7. SumCoins(h, S) = Plus(SumCoins(f, S), SumCoins(g, S)) /\ SumCoins(g, S) \in Coins
          BY <4>3, <4>6, SumCoinsPlus, SumCoinsType
        <4>8. QED
          BY <4>4, <4>5, <4>7
      <3>3. QED
        BY <3>1, <3>2
    <2>8. PICK paid \in Coins : Covers(task.bounty, paid) /\ Rewards' = Plus(Rewards, paid)
      BY <2>7
    <2>9. Covers(moduleBalance', Owed')
      BY <1>1, <1>2, <2>3, <2>6, <2>8 DEF Covers, Coins, Plus, Owed
    <2>10. \A u \in DOMAIN tasks' : OneDenom(tasks'[u].bounty)
      BY <1>3, <2>3, <2>4
    <2>11. QED
      BY <1>3, <2>4, <2>9, <2>10 DEF SolvencyInv
  <1>7. QED
    BY <1>4, <1>5, <1>6 DEF EndBlockTask

\* FinalizeMatureWithdraws can pay, since what is mature is part of what is
\* owed, and afterwards owes that much less.
LEMMA BeginBlockSolvent ==
  ASSUME TypeInv, TotalInv, SolvencyInv, BeginBlock
  PROVE  SolvencyInv' /\ phase' = "deliver"
  <1> DEFINE S == DOMAIN withdraws
             M == MatureWithdraws
             paid == SumCoins(withdraws, M)
             left == SumCoins(withdraws, S \ M)
  <1>1. /\ totalCollateral \in Coins /\ Rewards \in Coins /\ moduleBalance \in Coins
        /\ Withdrawing \in Coins /\ Bounties \in Coins
        /\ Covers(moduleBalance, Owed)
    BY OwedType DEF SolvencyInv, TypeInv, TypeOK
  <1>2. /\ IsFiniteSet(S) /\ IsFiniteSet(S \ M) /\ M \in SUBSET S
        /\ \A k \in S : withdraws[k] \in Coins
    BY FS_Difference DEF TypeInv, TypeOK, IsStore, MatureWithdraws
  <1>3. paid \in Coins /\ left \in Coins /\ Withdrawing = Plus(left, paid)
    <2>1. Withdrawing = SumCoins(withdraws, S)
      BY DEF Withdrawing
    <2> HIDE DEF S, M
    <2>2. QED
      BY <1>2, <2>1, SumCoinsPart
  <1>4. Covers(moduleBalance, paid)
    <2> HIDE DEF paid, left
    <2> QED BY <1>1, <1>3 DEF Covers, Coins, Plus, Owed
  <1>5. /\ phase' = "deliver" /\ withdraws' = StoreDelete(withdraws, M)
        /\ moduleBalance' = Minus(moduleBalance, paid)
        /\ UNCHANGED <<operators, totalCollateral, tasks>>
    BY <1>4 DEF BeginBlock
  <1>6. UNCHANGED <<totalCollateral, Rewards, Bounties>>
    BY <1>5 DEF Rewards, Bounties
  <1>7. Withdrawing' = left
    <2>1. DOMAIN withdraws' = S \ M /\ \A k \in S \ M : withdraws'[k] = withdraws[k]
      BY <1>5 DEF StoreDelete, Restrict
    <2>2. Withdrawing' = SumCoins(withdraws', S \ M)
      BY <2>1 DEF Withdrawing
    <2> HIDE DEF S, M
    <2>3. SumCoins(withdraws', S \ M) = SumCoins(withdraws, S \ M)
      BY <1>2, <2>1, SumCoinsEqual
    <2>4. QED
      BY <2>2, <2>3
  <1>8. Covers(moduleBalance', Owed')
    <2> HIDE DEF paid, left
    <2> QED BY <1>1, <1>3, <1>4, <1>5, <1>6, <1>7 DEF Covers, Coins, Plus, Minus, Owed
  <1>9. QED
    BY <1>5, <1>8 DEF SolvencyInv

\* Solvency and a running chain, as one inductive invariant.
LEMMA OracleSolvencyInv ==
  ASSUME \A b \in BountyInputs : OneDenom(b)
  PROVE  Spec => [](SolvencyInv /\ NeverHalted)
  <1>1. Init => SolvencyInv /\ NeverHalted
    <2> SUFFICES ASSUME Init PROVE SolvencyInv /\ NeverHalted
      OBVIOUS
    <2>1. /\ DOMAIN tasks = {} /\ DOMAIN operators = {} /\ DOMAIN withdraws = {}
          /\ totalCollateral = NoCoins /\ moduleBalance = NoCoins /\ phase = "begin"
      BY DEF Init
    <2>2. PendingTasks(tasks) = {}
      BY <2>1 DEF PendingTasks
    <2>3. Rewards = NoCoins /\ Withdrawing = NoCoins /\ Bounties = NoCoins
      BY <2>1, <2>2, SumCoinsEmpty DEF Rewards, Withdrawing, Bounties
    <2>4. Covers(moduleBalance, Owed)
      BY <2>1, <2>3 DEF Owed, Covers, Plus, NoCoins
    <2>5. QED
      BY <2>1, <2>4, FS_EmptySet DEF SolvencyInv, NeverHalted
  <1>2. ASSUME TypeInv, TypeInv', TotalInv, TotalInv', SolvencyInv, NeverHalted,
               [Next]_vars
        PROVE  SolvencyInv' /\ NeverHalted'
    <2>1. ASSUME NEW a \in Accounts, OperatorMsg(a) PROVE SolvencyInv' /\ NeverHalted'
      <3>1. SolvencyInv'
        BY <1>2, <2>1, OperatorMsgSolvent
      <3>2. NeverHalted'
        BY <1>2, <2>1, OperatorMsgFrame DEF NeverHalted
      <3>3. QED
        BY <3>1, <3>2
    <2>2. ASSUME NEW a \in Accounts, NEW t \in TaskIDs, TaskMsg(a, t)
          PROVE  SolvencyInv' /\ NeverHalted'
      <3>1. SolvencyInv'
        BY <1>2, <2>2, TaskMsgSolvent
      <3>2. UNCHANGED phase
        BY <2>2 DEF TaskMsg, CreateTask, RespondToTask, RemoveTask
      <3>3. QED
        BY <1>2, <3>1, <3>2 DEF NeverHalted
    <2>3. CASE BeginBlock
      BY <1>2, <2>3, BeginBlockSolvent DEF NeverHalted
    <2>4. CASE EndBlockTask
      <3>1. SolvencyInv'
        BY <1>2, <2>4, EndBlockTaskSolvent
      <3>2. QED
        BY <1>2, <2>4, <3>1 DEF NeverHalted, EndBlockTask
    <2>5. CASE EndBlockStart \/ EndBlockCommit \/ UNCHANGED vars
      <3>1. /\ UNCHANGED <<operators, totalCollateral, withdraws, tasks, moduleBalance>>
            /\ UNCHANGED phase \/ phase' \in {"begin", "end"}
        BY <2>5 DEF EndBlockStart, EndBlockCommit, vars
      <3>2. UNCHANGED <<Rewards, Withdrawing, Bounties, Owed>>
        BY <3>1 DEF Rewards, Withdrawing, Bounties, Owed
      <3>3. QED
        BY <1>2, <3>1, <3>2 DEF SolvencyInv, NeverHalted
    <2>6. QED
      BY <1>2, <2>1, <2>2, <2>3, <2>4, <2>5 DEF Next, Block
  <1>3. QED
    BY <1>1, <1>2, OracleTypeInv, OracleTotalInv, PTL DEF Spec

\* When every bounty is of one denomination, the oracle module account can
\* pay all it owes in every reachable state, for any number of operators,
\* tasks and denominations: joins, exits, shared withdraw keys, replaced and
\* removed tasks, rounded shares and early withdraws lose no coin of others.
THEOREM OracleSolvent ==
  ASSUME \A b \in BountyInputs : OneDenom(b)
  PROVE  Spec => []Solvent
  <1>1. TotalInv /\ SolvencyInv => Solvent
    BY SolventIsOwed DEF SolvencyInv
  <1>2. QED
    BY <1>1, OracleTotalInv, OracleSolvencyInv, PTL

\* Then FinalizeMatureWithdraws never panics: the chain does not halt in the
\* oracle's BeginBlocker.
THEOREM OracleNeverHalted ==
  ASSUME \A b \in BountyInputs : OneDenom(b)
  PROVE  Spec => []NeverHalted
  BY OracleSolvencyInv, PTL
=============================================================================
