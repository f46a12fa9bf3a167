------------------------------ MODULE MCOracle ------------------------------
(***************************************************************************)
(* Instances of Oracle for TLC.                                            *)
(***************************************************************************)
EXTENDS Oracle, TLC

\* One denomination.
Uctk(amount) == [d \in Denoms |-> amount]

MCBalance == Uctk(220)
MCCollateral == {Uctk(100)}
MCBounty == {Uctk(7)}

\* Accounts are interchangeable.
Symmetry == Permutations(Accounts)
=============================================================================
