------------------------------- MODULE Ledger -------------------------------
(***************************************************************************)
(* sdk.Coins, the amounts the modules of the chain compute with.  They     *)
(* belong to cosmos-sdk, which is not part of the repository, and are      *)
(* modelled from the way x/ uses them.                                     *)
(*                                                                         *)
(* A denomination is a number, and the order of the numbers is the         *)
(* alphabetical order in which sdk.Coins keeps its denominations.  A coin  *)
(* set gives every denomination an amount; the ones with amount 0 are the  *)
(* ones sdk.Coins does not list.                                           *)
(***************************************************************************)
EXTENDS Store

CONSTANT Denoms    \* the denominations of the chain

ASSUME DenomsAssumption == Denoms \subseteq Nat /\ IsFiniteSet(Denoms)

Coins == [Denoms -> Nat]
NoCoins == [d \in Denoms |-> 0]

\* Coins.Add
Plus(a, b) == [d \in Denoms |-> a[d] + b[d]]

\* Coins.Sub; meaningful when Covers(a, b), otherwise the SDK panics.
Minus(a, b) == [d \in Denoms |-> a[d] - b[d]]

\* Coins.IsAllGTE: every amount of b can be taken out of a.
Covers(a, b) == \A d \in Denoms : b[d] <= a[d]

\* d is the denomination of element 0 of the (sorted, zero-free) coin set c.
IsFirstDenom(c, d) ==
  /\ c[d] > 0
  /\ \A e \in Denoms : c[e] > 0 => d <= e

\* c[0].Amount; Go panics when c is empty.
FirstAmount(c) == c[CHOOSE d \in Denoms : IsFirstDenom(c, d)]

\* The coins f[x] of all x in S added up.
SumCoins(f, S) ==
  [d \in Denoms |-> SumFunctionOnSet([x \in S |-> f[x][d]], S)]
=============================================================================
