------------------------------- MODULE MCGov -------------------------------
(***************************************************************************)
(* Instances of Gov for TLC.                                               *)
(***************************************************************************)
EXTENDS Gov

\* In the runs about proposals account 1 is the only certifier and the only
\* validator, with a delegation of its own and one of account 2.
MCDelegation == [k \in Accounts \X Validators |-> 2]

MCCertifiers == [a \in {1} |-> NoAlias]

MCDefaultTally == [quorum |-> 33, threshold |-> 50, veto |-> 33]

MCStakeTally == [quorum |-> 33, threshold |-> 90, veto |-> 33]

MCSecurityTally == [quorum |-> 33, threshold |-> 67, veto |-> 33]

MCContent(kind) == [kind |-> kind, add |-> TRUE, certifier |-> 2, alias |-> NoAlias]

MCAdd(a, alias) == [kind |-> "update", add |-> TRUE, certifier |-> a, alias |-> alias]

MCRemove(a) == [kind |-> "update", add |-> FALSE, certifier |-> a, alias |-> NoAlias]

MCContents == {MCContent("text"), MCContent("claim"), MCAdd(2, "y")}

\* In the run about certifiers account 1 is the only one at first, two others
\* ask for the same alias, and it may be removed.
MCOneCertifier == [a \in {1} |-> "x"]

MCUpdates == {MCAdd(2, "y"), MCAdd(3, "y"), MCRemove(1), MCContent("upgrade")}

MCClaims == {MCContent("claim")}
=============================================================================
