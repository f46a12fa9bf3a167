---------------------------- MODULE ProposalLife ----------------------------
(***************************************************************************)
(* What x/gov promises about the life of a proposal, whatever is           *)
(* deposited, voted and timed: which body decides it, in which order, and  *)
(* that it is decided at last.                                             *)
(*                                                                         *)
(*   text                 validators                                       *)
(*   upgrade, claim       certifiers, and then validators: both must agree *)
(*   update               certifiers, or else validators: one must agree   *)
(*                                                                         *)
(* A proposal that fails to collect its deposit is dropped.                *)
(***************************************************************************)
EXTENDS Naturals

CONSTANTS Proposals,    \* the ids of proposals
          Kinds         \* the kinds of proposals that are made

VARIABLES stage,        \* id -> stage of the proposal, "none" before it is made
          kind          \* id -> its kind

life == <<stage, kind>>

Pending == {"DepositPeriod", "CertifierVotingPeriod", "ValidatorVotingPeriod"}

Ended == {"Passed", "Rejected", "Failed", "Dropped"}

TypeOK ==
  /\ stage \in [Proposals -> Pending \cup Ended \cup {"none"}]
  /\ kind \in [Proposals -> Kinds \cup {"none"}]

FirstRound(k) ==
  IF k = "text" THEN "ValidatorVotingPeriod" ELSE "CertifierVotingPeriod"

Init ==
  /\ stage = [id \in Proposals |-> "none"]
  /\ kind = [id \in Proposals |-> "none"]

Move(id, to) ==
  /\ stage' = [stage EXCEPT ![id] = to]
  /\ UNCHANGED kind

Submit(id, k) ==
  /\ stage[id] = "none"
  /\ \E first \in {"DepositPeriod", FirstRound(k)} : stage' = [stage EXCEPT ![id] = first]
  /\ kind' = [kind EXCEPT ![id] = k]

\* What is dropped is forgotten.
Collect(id) ==
  /\ stage[id] = "DepositPeriod"
  /\ \/ Move(id, FirstRound(kind[id]))
     \/ /\ stage' = [stage EXCEPT ![id] = "Dropped"]
        /\ kind' = [kind EXCEPT ![id] = "none"]

\* An approval executes the proposal, and that may fail.
CertifiersDecide(id) ==
  /\ stage[id] = "CertifierVotingPeriod"
  /\ \E to \in IF kind[id] = "update" THEN {"Passed", "Failed", "ValidatorVotingPeriod"}
                                      ELSE {"Rejected", "ValidatorVotingPeriod"} :
       Move(id, to)

ValidatorsDecide(id) ==
  /\ stage[id] = "ValidatorVotingPeriod"
  /\ \E to \in {"Passed", "Failed", "Rejected"} : Move(id, to)

Next ==
  \E id \in Proposals :
    \/ \E k \in Kinds : Submit(id, k)
    \/ Collect(id)
    \/ CertifiersDecide(id)
    \/ ValidatorsDecide(id)

\* No proposal stays in a period for ever.
Fairness ==
  \A id \in Proposals :
    /\ WF_life(Collect(id))
    /\ WF_life(CertifiersDecide(id))
    /\ WF_life(ValidatorsDecide(id))

Spec == Init /\ [][Next]_life /\ Fairness
=============================================================================
