------------------------------- MODULE Oracle -------------------------------
(***************************************************************************)
(* The security oracle, x/oracle.  Operators lock collateral; creators pay *)
(* a bounty for a task (a contract to be scored); operators respond with a *)
(* score until the task's closing block; the EndBlocker of that block      *)
(* aggregates the scores, weighted by collateral, and credits the bounty   *)
(* to the operators who agree with the result.  Collateral that is taken   *)
(* out waits LockedInBlocks blocks as a withdraw, and the BeginBlocker     *)
(* pays the withdraws that are mature.                                     *)
(*                                                                         *)
(* A block is BeginBlock, any number of transactions, one step per         *)
(* iteration of the EndBlocker's loop, and EndBlockCommit.  While the      *)
(* EndBlocker runs (phase "end") nothing else is enabled: the loop is cut  *)
(* into steps, not interleaved.  A transaction that fails or panics is     *)
(* rolled back by baseapp, so a transaction is an action whose guard is    *)
(* that the handler returns no error.                                      *)
(***************************************************************************)
EXTENDS Ledger, Integers, Sequences

CONSTANTS
  Accounts,           \* account addresses
  TaskIDs,            \* store keys of tasks: contract and function
  BondDenom,          \* stakingKeeper.BondDenom
  LockedInBlocks, MinimumCollateral,               \* LockedPoolParams
  AggregationWindow, ExpirationDuration,           \* TaskParams
  AggregationResult, ThresholdScore, Epsilon1, Epsilon2,
  InitBalance,        \* what every account owns at genesis
  CollateralInputs,   \* the coins users put in their messages
  BountyInputs,
  ScoreInputs, WaitInputs, DurationInputs,
  StartHeight, MaxHeight     \* the blocks of a behaviour

ASSUME ParamsAssumption ==
  /\ BondDenom \in Denoms
  /\ LockedInBlocks \in Nat
  /\ MinimumCollateral \in Nat \ {0}
  /\ AggregationWindow \in Nat /\ ExpirationDuration \in Nat
  /\ AggregationResult \in Nat
  /\ ThresholdScore \in Nat
  /\ Epsilon1 \in Nat \ {0} /\ Epsilon2 \in Nat \ {0}

ASSUME InputsAssumption ==
  /\ InitBalance \in Coins
  /\ CollateralInputs \subseteq Coins /\ BountyInputs \subseteq Coins
  /\ ScoreInputs \subseteq Int /\ WaitInputs \subseteq Int
  /\ DurationInputs \subseteq Nat
  /\ StartHeight \in Nat \ {0} /\ MaxHeight \in Nat

VARIABLES
  height,           \* ctx.BlockHeight(); block time advances with it
  phase,            \* where the block is: "begin", "deliver", "end"; a panic
                    \* outside a transaction leaves the node "halted"
  cursor,           \* iterations of the EndBlocker's loop done in this block
  operators,        \* address -> operator
  totalCollateral,
  withdraws,        \* <<dueBlock, address>> -> coins
  tasks,            \* task id -> task
  closing,          \* closing block -> sequence of task ids
  balances,         \* bank balances of the accounts
  moduleBalance     \* bank balance of the oracle module account

vars == <<height, phase, cursor, operators, totalCollateral, withdraws, tasks,
          closing, balances, moduleBalance>>

-----------------------------------------------------------------------------
(* Constants of the code.                                                  *)

MinScore == 0
MaxScore == 100
Amplifier == 1000000

Statuses == {"pending", "succeeded", "failed"}

NewOperator(collateral) ==
  [collateral |-> collateral, accumulatedRewards |-> NoCoins]

NewTask(bounty, expiration, creator, closingBlock) ==
  [bounty |-> bounty, expiration |-> expiration, creator |-> creator,
   closingBlock |-> closingBlock, responses |-> <<>>, result |-> 0,
   status |-> "pending"]

Operator == [collateral : Coins, accumulatedRewards : Coins]

Response == [operator : Accounts, score : MinScore..MaxScore]

Task == [bounty : Coins, expiration : Nat, creator : Accounts,
         closingBlock : Int, responses : Seq(Response), result : Nat,
         status : Statuses]

-----------------------------------------------------------------------------
(* Shared by the handlers.                                                 *)

IsOperator(a) == a \in DOMAIN operators

IsBelowMinCollateral(collateral) == collateral[BondDenom] < MinimumCollateral

\* Mutant: a send that does not check the balance.
SendToModuleUnchecked(a, coins) ==
  /\ balances' = [balances EXCEPT ![a] = Minus(@, coins)]
  /\ moduleBalance' = Plus(moduleBalance, coins)

\* SendCoinsFromAccountToModule and SendCoinsFromModuleToAccount, when they
\* return no error.
SendToModule(a, coins) ==
  /\ Covers(balances[a], coins)
  /\ balances' = [balances EXCEPT ![a] = Minus(@, coins)]
  /\ moduleBalance' = Plus(moduleBalance, coins)

SendFromModule(a, coins) ==
  /\ Covers(moduleBalance, coins)
  /\ balances' = [balances EXCEPT ![a] = Plus(@, coins)]
  /\ moduleBalance' = Minus(moduleBalance, coins)

AddTotalCollateral(coins) == totalCollateral' = Plus(totalCollateral, coins)

\* Mutant: the total is left as it is.
ReduceTotalCollateralForgotten(coins) == UNCHANGED totalCollateral

ReduceTotalCollateral(coins) ==
  /\ Covers(totalCollateral, coins)
  /\ totalCollateral' = Minus(totalCollateral, coins)

\* A second withdraw of the same address in the same block has the same key:
\* SetWithdraw replaces the first one.
CreateWithdraw(a, coins) ==
  withdraws' = StoreSet(withdraws, <<height + LockedInBlocks, a>>, coins)

DeliverTx == phase = "deliver"

-----------------------------------------------------------------------------
(* Operators.                                                              *)

CreateOperator(a, collateral) ==
  /\ DeliverTx
  /\ ~ IsOperator(a)
  /\ ~ IsBelowMinCollateral(collateral)
  /\ operators' = StoreSet(operators, a, NewOperator(collateral))
  /\ AddTotalCollateral(collateral)
  /\ SendToModule(a, collateral)
  /\ UNCHANGED <<height, phase, cursor, withdraws, tasks, closing>>

RemoveOperator(a) ==
  /\ DeliverTx
  /\ IsOperator(a)
  /\ ReduceTotalCollateral(operators[a].collateral)
  /\ CreateWithdraw(a, operators[a].collateral)
  /\ SendFromModule(a, operators[a].accumulatedRewards)
  /\ operators' = StoreDelete(operators, {a})
  /\ UNCHANGED <<height, phase, cursor, tasks, closing>>

\* Mutant: the increment is credited before, and without, the transfer.
AddCollateralUnpaid(a, increment) ==
  /\ DeliverTx
  /\ IsOperator(a)
  /\ operators' = [operators EXCEPT ![a].collateral = Plus(@, increment)]
  /\ AddTotalCollateral(increment)
  /\ UNCHANGED <<height, phase, cursor, withdraws, tasks, closing, balances,
                 moduleBalance>>

AddCollateral(a, increment) ==
  /\ DeliverTx
  /\ IsOperator(a)
  /\ operators' = [operators EXCEPT ![a].collateral = Plus(@, increment)]
  /\ AddTotalCollateral(increment)
  /\ SendToModule(a, increment)
  /\ UNCHANGED <<height, phase, cursor, withdraws, tasks, closing>>

ReduceCollateral(a, decrement) ==
  /\ DeliverTx
  /\ IsOperator(a)
  /\ Covers(operators[a].collateral, decrement)
  /\ ~ IsBelowMinCollateral(Minus(operators[a].collateral, decrement))
  /\ operators' = [operators EXCEPT ![a].collateral = Minus(@, decrement)]
  /\ ReduceTotalCollateral(decrement)
  /\ CreateWithdraw(a, decrement)
  /\ UNCHANGED <<height, phase, cursor, tasks, closing, balances, moduleBalance>>

\* Mutant: the rewards are paid and stay on the books.
WithdrawAllRewardNoReset(a) ==
  /\ DeliverTx
  /\ IsOperator(a)
  /\ SendFromModule(a, operators[a].accumulatedRewards)
  /\ UNCHANGED <<height, phase, cursor, operators, totalCollateral, withdraws,
                 tasks, closing>>

WithdrawAllReward(a) ==
  /\ DeliverTx
  /\ IsOperator(a)
  /\ SendFromModule(a, operators[a].accumulatedRewards)
  /\ operators' = [operators EXCEPT ![a].accumulatedRewards = NoCoins]
  /\ UNCHANGED <<height, phase, cursor, totalCollateral, withdraws, tasks, closing>>

-----------------------------------------------------------------------------
(* Tasks.                                                                  *)

GetClosingTaskIDs(block) ==
  IF block \in DOMAIN closing THEN closing[block] ELSE <<>>

\* Mutant: the list of a block is overwritten.
SetClosingBlockStoreOverwrites(block, t) == closing' = StoreSet(closing, block, <<t>>)

SetClosingBlockStore(block, t) ==
  closing' = StoreSet(closing, block, Append(GetClosingTaskIDs(block), t))

WindowSize(wait) == IF wait = 0 THEN AggregationWindow ELSE wait

Expiration(validDuration) ==
  height + (IF validDuration = 0 THEN ExpirationDuration ELSE validDuration)

\* An existing task is replaced once its closing block is reached, whether
\* or not it has been aggregated.  The last guard bounds the model: a task
\* closes before MaxHeight.
CreateTask(t, creator, bounty, wait, validDuration) ==
  LET closingBlock == height + WindowSize(wait)
  IN  /\ DeliverTx
      /\ t \in DOMAIN tasks => tasks[t].closingBlock <= height
      /\ tasks' = StoreSet(tasks, t, NewTask(bounty, Expiration(validDuration),
                                             creator, closingBlock))
      /\ SetClosingBlockStore(closingBlock, t)
      /\ SendToModule(creator, bounty)
      /\ closingBlock < MaxHeight
      /\ UNCHANGED <<height, phase, cursor, operators, totalCollateral, withdraws>>

\* Mutant: the loop over the responses is missing.
IsValidResponseTwice(task, a, score) ==
  /\ height <= task.closingBlock
  /\ MinScore <= score /\ score <= MaxScore

IsValidResponse(task, a, score) ==
  /\ height <= task.closingBlock
  /\ \A i \in DOMAIN task.responses : task.responses[i].operator # a
  /\ MinScore <= score /\ score <= MaxScore

RespondToTask(t, a, score) ==
  /\ DeliverTx
  /\ IsOperator(a)
  /\ t \in DOMAIN tasks
  /\ IsValidResponse(tasks[t], a, score)
  /\ tasks' = [tasks EXCEPT ![t].responses =
                 Append(@, [operator |-> a, score |-> score])]
  /\ UNCHANGED <<height, phase, cursor, operators, totalCollateral, withdraws,
                 closing, balances, moduleBalance>>

RemoveTask(t, force, deleter) ==
  /\ DeliverTx
  /\ t \in DOMAIN tasks
  /\ force \/ tasks[t].expiration < height
  /\ height > tasks[t].closingBlock
  /\ tasks[t].creator = deleter
  /\ tasks' = StoreDelete(tasks, {t})
  /\ UNCHANGED <<height, phase, cursor, operators, totalCollateral, withdraws,
                 closing, balances, moduleBalance>>

-----------------------------------------------------------------------------
(* Aggregation.  An operator that has been removed since it responded      *)
(* counts for nothing.                                                     *)

GetCollateralAmount(response) ==
  IF IsOperator(response.operator)
  THEN FirstAmount(operators[response.operator].collateral)
  ELSE 0

\* The values v(response) of the responses added up.
SumResponses(task, v(_)) ==
  SumFunctionOnSet([i \in DOMAIN task.responses |-> v(task.responses[i])],
                   DOMAIN task.responses)

\* Mutant: a task without valid responses keeps its status.
AggregateOnlySuccess(task) ==
  IF SumResponses(task, GetCollateralAmount) = 0 THEN task
  ELSE [task EXCEPT !.status = "succeeded"]

\* When the operators who answered MinScore hold a third of the collateral,
\* the code takes their collateral itself for the result.
Aggregate(task) ==
  LET total == SumResponses(task, GetCollateralAmount)
      minScoreCollateral ==
        SumResponses(task, LAMBDA r : IF r.score = MinScore
                                      THEN GetCollateralAmount(r) ELSE 0)
      weighted ==
        AggregationResult
          + SumResponses(task, LAMBDA r : r.score * GetCollateralAmount(r))
  IN  IF total = 0
      THEN [task EXCEPT !.status = "failed", !.result = weighted]
      ELSE [task EXCEPT !.status = "succeeded",
                        !.result = IF 3 * minScoreCollateral >= total
                                   THEN minScoreCollateral
                                   ELSE weighted \div total]

\* What a response weighs in the distribution of the bounty: 0 when it is
\* on the other side of the result.
BountyWeight(task, r) ==
  LET collateral == GetCollateralAmount(r)
  IN  CASE task.result = MinScore ->
             IF r.score = MinScore THEN collateral ELSE 0
        [] task.result # MinScore /\ task.result < ThresholdScore ->
             IF r.score < ThresholdScore
             THEN (Amplifier * collateral) \div (r.score + Epsilon1) ELSE 0
        [] OTHER ->
             IF r.score >= ThresholdScore
             THEN (Amplifier * collateral) \div (MaxScore - r.score + Epsilon2)
             ELSE 0

TotalValidTaskCollateral(task) ==
  SumResponses(task, LAMBDA r : BountyWeight(task, r))

\* The share of the bounty a response earns.  Below the threshold the code
\* credits every share in the denomination of task.Bounty[0].
BountyReward(task, r) ==
  LET share(d) == (task.bounty[d] * BountyWeight(task, r))
                    \div TotalValidTaskCollateral(task)
  IN  IF task.result # MinScore /\ task.result < ThresholdScore
      THEN [d \in Denoms |->
              IF IsFirstDenom(task.bounty, d)
              THEN SumFunctionOnSet([e \in Denoms |-> share(e)], Denoms) ELSE 0]
      ELSE [d \in Denoms |-> share(d)]

\* AddReward for every response of a.
RewardOf(task, a) ==
  SumCoins([i \in DOMAIN task.responses |-> BountyReward(task, task.responses[i])],
           {i \in DOMAIN task.responses : task.responses[i].operator = a})

DistributeBounty(task) ==
  operators' = IF TotalValidTaskCollateral(task) = 0 THEN operators
               ELSE [a \in DOMAIN operators |->
                      [operators[a] EXCEPT !.accumulatedRewards =
                         Plus(@, RewardOf(task, a))]]

-----------------------------------------------------------------------------
(* The block.                                                              *)

\* The withdraw store is sorted by the little-endian bytes of the due block,
\* lowest byte first, and IterateMatureWithdraws stops after the bytes of
\* the height.  Two bytes are enough for the heights of a model; ByteBase is
\* the base of a byte.
ByteBase == 256

\* Mutant: the end of the iteration is the key of the height, exclusive.
KeyLess(m, n) ==
  \/ m % ByteBase < n % ByteBase
  \/ m % ByteBase = n % ByteBase /\ m \div ByteBase < n \div ByteBase

KeyLeq(m, n) ==
  \/ m % ByteBase < n % ByteBase
  \/ m % ByteBase = n % ByteBase /\ m \div ByteBase <= n \div ByteBase

MatureWithdraws == {k \in DOMAIN withdraws : KeyLeq(k[1], height)}

\* What FinalizeMatureWithdraws pays to a.
Matured(a) == SumCoins(withdraws, {k \in MatureWithdraws : k[2] = a})

\* FinalizeMatureWithdraws panics when the module account cannot pay; a
\* panic in BeginBlocker stops the node.
BeginBlock ==
  /\ phase = "begin"
  /\ IF Covers(moduleBalance, SumCoins(withdraws, MatureWithdraws))
     THEN /\ phase' = "deliver"
          /\ withdraws' = StoreDelete(withdraws, MatureWithdraws)
          /\ balances' = [a \in Accounts |-> Plus(balances[a], Matured(a))]
          /\ moduleBalance' = Minus(moduleBalance,
                                    SumCoins(withdraws, MatureWithdraws))
     ELSE /\ phase' = "halted"
          /\ UNCHANGED <<withdraws, balances, moduleBalance>>
  /\ UNCHANGED <<height, cursor, operators, totalCollateral, tasks, closing>>

\* The EndBlocker starts when the transactions of the block are done.
EndBlockStart ==
  /\ DeliverTx
  /\ height < MaxHeight
  /\ phase' = "end"
  /\ cursor' = 0
  /\ UNCHANGED <<height, operators, totalCollateral, withdraws, tasks, closing,
                 balances, moduleBalance>>

\* Mutant: no check of the task's status.
EndBlockTaskAgain ==
  LET ids == GetClosingTaskIDs(height)
      t == ids[cursor + 1]
  IN  /\ phase = "end"
      /\ cursor < Len(ids)
      /\ cursor' = cursor + 1
      /\ IF t \in DOMAIN tasks
         THEN /\ tasks' = [tasks EXCEPT ![t] = Aggregate(@)]
              /\ DistributeBounty(Aggregate(tasks[t]))
         ELSE UNCHANGED <<tasks, operators>>
      /\ UNCHANGED <<height, phase, totalCollateral, withdraws, closing,
                     balances, moduleBalance>>

\* One iteration of the EndBlocker's loop: Aggregate and DistributeBounty for
\* the next closing task.  Aggregate returns an error for a task that is gone
\* or already aggregated, and the loop goes on.
EndBlockTask ==
  LET ids == GetClosingTaskIDs(height)
      t == ids[cursor + 1]
  IN  /\ phase = "end"
      /\ cursor < Len(ids)
      /\ cursor' = cursor + 1
      /\ IF t \in DOMAIN tasks /\ tasks[t].status = "pending"
         THEN /\ tasks' = [tasks EXCEPT ![t] = Aggregate(@)]
              /\ DistributeBounty(Aggregate(tasks[t]))
         ELSE UNCHANGED <<tasks, operators>>
      /\ UNCHANGED <<height, phase, totalCollateral, withdraws, closing,
                     balances, moduleBalance>>

\* DeleteClosingTaskIDs, and the next block begins.
EndBlockCommit ==
  /\ phase = "end"
  /\ cursor = Len(GetClosingTaskIDs(height))
  /\ closing' = StoreDelete(closing, {height})
  /\ height' = height + 1
  /\ phase' = "begin"
  /\ UNCHANGED <<cursor, operators, totalCollateral, withdraws, tasks,
                 balances, moduleBalance>>

-----------------------------------------------------------------------------
\* The default genesis at the first modelled block.
Init ==
  /\ height = StartHeight
  /\ phase = "begin"
  /\ cursor = 0
  /\ operators = <<>>
  /\ totalCollateral = NoCoins
  /\ withdraws = <<>>
  /\ tasks = <<>>
  /\ closing = <<>>
  /\ balances = [a \in Accounts |-> InitBalance]
  /\ moduleBalance = NoCoins

OperatorMsg(a) ==
  \/ \E c \in CollateralInputs :
       CreateOperator(a, c) \/ AddCollateral(a, c) \/ ReduceCollateral(a, c)
  \/ RemoveOperator(a)
  \/ WithdrawAllReward(a)

TaskMsg(a, t) ==
  \/ \E b \in BountyInputs, w \in WaitInputs, v \in DurationInputs :
       CreateTask(t, a, b, w, v)
  \/ \E s \in ScoreInputs : RespondToTask(t, a, s)
  \/ \E force \in BOOLEAN : RemoveTask(t, force, a)

Block == BeginBlock \/ EndBlockStart \/ EndBlockTask \/ EndBlockCommit

Next ==
  \/ \E a \in Accounts : OperatorMsg(a)
  \/ \E a \in Accounts, t \in TaskIDs : TaskMsg(a, t)
  \/ Block

Spec == Init /\ [][Next]_vars

\* Consensus keeps producing blocks; users owe the chain nothing.
FairSpec == Spec /\ WF_vars(Block)

-----------------------------------------------------------------------------
(* Properties.                                                             *)

\* The types of the stores, with every operator address, task id and amount
\* where the keepers expect it.
TypeOK ==
  /\ height \in Nat
  /\ phase \in {"begin", "deliver", "end", "halted"}
  /\ cursor \in Nat
  /\ IsStore(operators, Accounts, Operator)
  /\ totalCollateral \in Coins
  /\ IsStore(withdraws, Nat \X Accounts, Coins)
  /\ IsStore(tasks, TaskIDs, Task)
  /\ IsStore(closing, Int, Seq(TaskIDs))
  /\ balances \in [Accounts -> Coins]
  /\ moduleBalance \in Coins

Pending(t) == t \in DOMAIN tasks /\ tasks[t].status = "pending"

\* What the module account holds for others: the collateral of operators,
\* their unpaid rewards, withdraws on their way, bounties still to be shared.
Liabilities ==
  LET collateral == [a \in DOMAIN operators |-> operators[a].collateral]
      rewards == [a \in DOMAIN operators |-> operators[a].accumulatedRewards]
      bounties == [t \in DOMAIN tasks |-> tasks[t].bounty]
  IN  Plus(Plus(SumCoins(collateral, DOMAIN operators),
                SumCoins(rewards, DOMAIN operators)),
           Plus(SumCoins(withdraws, DOMAIN withdraws),
                SumCoins(bounties, {t \in DOMAIN tasks : Pending(t)})))

\* The oracle module account can always pay everyone it owes, whatever the
\* interleaving of joins, exits, responses, distributions and withdraws:
\* DistributeBounty never hands out more than the bounty, and no coin is
\* both collateral and withdraw.
Solvent == Covers(moduleBalance, Liabilities)

\* The stored total collateral, which CreateOperator, AddCollateral,
\* ReduceCollateral and RemoveOperator update on their own, is the sum over
\* the operators.
TotalCollateralIsSum ==
  totalCollateral =
    SumCoins([a \in DOMAIN operators |-> operators[a].collateral], DOMAIN operators)

\* FinalizeMatureWithdraws never panics in the BeginBlocker.
NeverHalted == phase # "halted"

\* Every task that waits for its result is in the list of its closing block,
\* that block is not over, and the EndBlocker's loop has not passed it: no
\* task is left without an aggregation.
PendingScheduled ==
  \A t \in DOMAIN tasks : tasks[t].status = "pending" =>
    LET block == tasks[t].closingBlock
        done == IF block = height /\ phase = "end" THEN cursor ELSE 0
    IN  /\ block >= height
        /\ \E i \in DOMAIN GetClosingTaskIDs(block) :
             i > done /\ closing[block][i] = t

\* No operator counts twice in a task: RespondToTask accepts one response
\* each, also of an operator who has left and joined again since.
OneResponseEach ==
  \A t \in DOMAIN tasks : \A i, j \in DOMAIN tasks[t].responses :
    tasks[t].responses[i].operator = tasks[t].responses[j].operator => i = j

\* A withdraw is never overdue: transactions of a block only see withdraws
\* of later blocks, although BeginBlocker finds the mature ones by comparing
\* little-endian keys.
NoOverdueWithdraw ==
  \A k \in DOMAIN withdraws :
    IF phase \in {"begin", "halted"} THEN k[1] >= height ELSE k[1] > height

\* An operator who stays has the minimum collateral, so it weighs something
\* in every aggregation.
OperatorsCollateralized ==
  \A a \in DOMAIN operators :
    operators[a].collateral[BondDenom] >= MinimumCollateral

\* A result is final: once a task is aggregated, no later response, exit or
\* EndBlocker changes its status or its result; only a new task under the
\* same key takes its place.
ResultIsFinal ==
  [][\A t \in DOMAIN tasks \cap DOMAIN tasks' :
       tasks[t].status # "pending" =>
         \/ tasks'[t].status = tasks[t].status /\ tasks'[t].result = tasks[t].result
         \/ tasks[t].closingBlock <= height /\ tasks'[t].status = "pending"]_vars

\* Every task is aggregated, removed or replaced in the end.
EveryTaskCloses == \A t \in TaskIDs : Pending(t) ~> ~ Pending(t)

-----------------------------------------------------------------------------
(* What the documentation says of the module and the code does not keep.   *)

\* specs.md: LockedInBlocks is the "number of blocks operators need to wait
\* before getting their collateral back".
LockPeriodKept ==
  [][\A k \in DOMAIN withdraws \ DOMAIN withdraws' : k[1] <= height]_vars

\* All that belongs to a: in its account, as collateral, rewards or withdraws.
OwnedBy(a) ==
  LET deposit == IF IsOperator(a)
                 THEN Plus(operators[a].collateral, operators[a].accumulatedRewards)
                 ELSE NoCoins
  IN  Plus(Plus(balances[a], deposit),
           SumCoins(withdraws, {k \in DOMAIN withdraws : k[2] = a}))

\* specs.md: "A withdraw is scheduled when ReduceCollateral or RemoveOperator
\* is called".  Unless a step creates a task, and takes its bounty, no account
\* is poorer after it: all collateral taken out is on its way to its owner.
WithdrawKept ==
  [][tasks' = tasks => \A a \in Accounts : Covers(OwnedBy(a)', OwnedBy(a))]_vars
=============================================================================
