----------------------------- MODULE MCAccounts -----------------------------
(* Instances of Accounts: a user with all the coins, one with none and one *)
(* who has no account at genesis.                                          *)
EXTENDS Accounts

MCGenesisCoins == [a \in {1, 2} |-> IF a = 1 THEN 2 ELSE 0]
=============================================================================
