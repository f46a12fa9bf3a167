----------------------------- MODULE GovProofs -----------------------------
(***************************************************************************)
(* Proofs about Gov and Cert, for any accounts, parameters and inputs.     *)
(***************************************************************************)
EXTENDS Gov, DecimalProofs

-----------------------------------------------------------------------------
(* Certifiers and certificates.  The last certifier is never removed.      *)

CertInv ==
  /\ CertTypeOK
  /\ AliasesAreUnique
  /\ DOMAIN certifiers # {}

\* The genesis of x/cert.
LEMMA CertInvInit == CertInit => CertInv
  <1> SUFFICES ASSUME CertInit PROVE CertInv
    OBVIOUS
  <1> USE CertAssumption
  <1> DEFINE Named == {InitCertifiers[a] : a \in DOMAIN InitCertifiers} \ {NoAlias}
             Holder(alias) == CHOOSE a \in DOMAIN InitCertifiers : InitCertifiers[a] = alias
  <1>1. \A alias \in Named :
          Holder(alias) \in DOMAIN InitCertifiers /\ InitCertifiers[Holder(alias)] = alias
    OBVIOUS
  <1>2. Named \subseteq Aliases
    BY DEF IsStore
  <1>3. aliases = [alias \in Named |-> Holder(alias)] /\ certifiers = InitCertifiers
    BY DEF CertInit
  <1> HIDE DEF Holder
  <1>4. IsStore(aliases, Aliases, Accounts)
    BY <1>1, <1>2, <1>3 DEF IsStore
  <1>5. CertTypeOK
    BY <1>4 DEF CertTypeOK, CertInit, IsStore
  <1>6. AliasesAreUnique
    <2> SUFFICES ASSUME NEW a \in Accounts, NEW alias \in Aliases
                 PROVE  (a \in DOMAIN certifiers /\ certifiers[a] = alias)
                          <=> (alias \in DOMAIN aliases /\ aliases[alias] = a)
      BY DEF AliasesAreUnique
    <2>1. alias # NoAlias
      OBVIOUS
    <2>2. ASSUME a \in DOMAIN certifiers, certifiers[a] = alias
          PROVE  alias \in DOMAIN aliases /\ aliases[alias] = a
      <3>1. alias \in Named
        BY <1>3, <2>1, <2>2
      <3>2. Holder(alias) = a
        BY <1>1, <1>3, <2>1, <2>2, <3>1
      <3>3. QED
        BY <1>3, <3>1, <3>2
    <2>3. ASSUME alias \in DOMAIN aliases, aliases[alias] = a
          PROVE  a \in DOMAIN certifiers /\ certifiers[a] = alias
      BY <1>1, <1>3, <2>3
    <2>4. QED
      BY <2>2, <2>3
  <1>7. QED
    BY <1>3, <1>5, <1>6 DEF CertInv

\* A certifier update that succeeds.
LEMMA CertifierUpdateInv ==
  ASSUME CertInv, NEW c \in Content, CertifierUpdateSucceeds(c),
         HandleCertifierUpdateProposal(c)
  PROVE  CertInv'
  <1> USE CertAssumption
  <1>1. c.certifier \in Accounts /\ c.alias \in Aliases \cup {NoAlias}
    BY DEF Content
  <1>2. CASE c.add
    <2>1. /\ c.certifier \notin DOMAIN certifiers
          /\ c.alias \notin DOMAIN aliases
          /\ certifiers' = StoreSet(certifiers, c.certifier, c.alias)
          /\ aliases' = IF c.alias = NoAlias THEN aliases
                        ELSE StoreSet(aliases, c.alias, c.certifier)
          /\ UNCHANGED <<certificates, certified, platforms, jailed, tombstoned, bonded>>
      BY <1>2 DEF CertifierUpdateSucceeds, HandleCertifierUpdateProposal, SetCertifier,
                  IsCertifier, HasCertifierAlias, CertInv, CertTypeOK, IsStore
    <2>2. IsStore(certifiers', Accounts, Aliases \cup {NoAlias})
      BY <1>1, <2>1, StoreType DEF CertInv, CertTypeOK
    <2>3. IsStore(aliases', Aliases, Accounts)
      BY <1>1, <2>1, StoreType DEF CertInv, CertTypeOK
    <2>4. CertTypeOK'
      BY <2>1, <2>2, <2>3 DEF CertInv, CertTypeOK
    <2>5. AliasesAreUnique'
      BY <1>1, <2>1 DEF CertInv, AliasesAreUnique, StoreSet, CertTypeOK, IsStore
    <2>6. DOMAIN certifiers' # {}
      BY <2>1 DEF StoreSet
    <2>7. QED
      BY <2>4, <2>5, <2>6 DEF CertInv
  <1>3. CASE ~ c.add
    <2>1. /\ c.certifier \in DOMAIN certifiers
          /\ Cardinality(DOMAIN certifiers) # 1
          /\ certifiers' = StoreDelete(certifiers, {c.certifier})
          /\ aliases' = StoreDelete(aliases, {certifiers[c.certifier]})
          /\ UNCHANGED <<certificates, certified, platforms, jailed, tombstoned, bonded>>
      BY <1>3 DEF CertifierUpdateSucceeds, HandleCertifierUpdateProposal, DeleteCertifier,
                  IsCertifier
    <2>2. IsStore(certifiers', Accounts, Aliases \cup {NoAlias})
      BY <2>1, StoreType DEF CertInv, CertTypeOK
    <2>3. IsStore(aliases', Aliases, Accounts)
      BY <2>1, StoreType DEF CertInv, CertTypeOK
    <2>4. CertTypeOK'
      BY <2>1, <2>2, <2>3 DEF CertInv, CertTypeOK
    <2>5. AliasesAreUnique'
      BY <1>1, <2>1 DEF CertInv, AliasesAreUnique, StoreDelete, Restrict, CertTypeOK, IsStore
    <2>6. DOMAIN certifiers' # {}
      <3> SUFFICES ASSUME DOMAIN certifiers' = {} PROVE FALSE
        OBVIOUS
      <3>1. DOMAIN certifiers = {c.certifier}
        BY <2>1 DEF StoreDelete, Restrict
      <3>2. Cardinality(DOMAIN certifiers) = 1
        BY <3>1, FS_Singleton
      <3>3. QED
        BY <2>1, <3>2
    <2>7. QED
      BY <2>4, <2>5, <2>6 DEF CertInv
  <1>4. QED
    BY <1>2, <1>3

\* The index of a new certificate is free and in range.
LEMMA NewIndexIsFree ==
  ASSUME NEW type, NEW content, NEW i \in NewCertificateIndex(type, content)
  PROVE  i \in 0..MaxIndex /\ <<type, content, i>> \notin DOMAIN certificates
  <1> USE CertAssumption
  <1> DEFINE free == {j \in 0..MaxIndex : <<type, content, j>> \notin DOMAIN certificates}
  <1>1. free # {} /\ i = Min(free)
    BY DEF NewCertificateIndex
  <1>2. free \subseteq Nat
    OBVIOUS
  <1>3. \E x \in free : \A y \in free : x <= y
    <2> HIDE DEF free
    <2> QED BY <1>1, <1>2, LeastNat
  <1>4. Min(free) \in free
    <2> HIDE DEF free
    <2> QED BY <1>3 DEF Min
  <1>5. QED
    BY <1>1, <1>4

\* A message of x/cert.
LEMMA CertMsgInv ==
  ASSUME CertInv, NEW a \in Accounts, CertMsg(a)
  PROVE  CertInv'
  <1> USE CertAssumption
  <1>1. ASSUME NEW type \in CertificateTypes, NEW content \in CertificateContents,
               IssueCertificate(a, type, content)
        PROVE  CertInv'
    <2>1. PICK i \in NewCertificateIndex(type, content) :
            certificates' = StoreSet(certificates, <<type, content, i>>, a)
      BY <1>1 DEF IssueCertificate
    <2>2. <<type, content, i>> \in CertificateTypes \X CertificateContents \X (0..MaxIndex)
      BY NewIndexIsFree
    <2>3. IsStore(certificates', CertificateTypes \X CertificateContents \X (0..MaxIndex),
                  Accounts)
      BY <2>1, <2>2, StoreType DEF CertInv, CertTypeOK
    <2>4. QED
      BY <1>1, <2>3 DEF IssueCertificate, CertInv, CertTypeOK, AliasesAreUnique
  <1>2. ASSUME NEW id \in DOMAIN certificates, RevokeCertificate(a, id)
        PROVE  CertInv'
    <2>1. IsStore(certificates', CertificateTypes \X CertificateContents \X (0..MaxIndex),
                  Accounts)
      BY <1>2, StoreType DEF RevokeCertificate, CertInv, CertTypeOK
    <2>2. QED
      BY <1>2, <2>1 DEF RevokeCertificate, CertInv, CertTypeOK, AliasesAreUnique
  <1>3. ASSUME NEW v \in CertifyInputs, CertifyValidator(a, v)
        PROVE  CertInv'
    <2>1. IsStore(certified', Accounts, Accounts)
      BY <1>3, StoreType DEF CertifyValidator, CertInv, CertTypeOK
    <2>2. QED
      BY <1>3, <2>1 DEF CertifyValidator, CertInv, CertTypeOK, AliasesAreUnique
  <1>4. ASSUME NEW v \in CertifyInputs, DecertifyValidator(a, v)
        PROVE  CertInv'
    <2>1. IsStore(certified', Accounts, Accounts)
      BY <1>4, StoreType DEF DecertifyValidator, CertInv, CertTypeOK
    <2>2. /\ jailed' \subseteq Validators /\ tombstoned' \subseteq jailed'
          /\ bonded' \subseteq Validators \ jailed'
      BY <1>4 DEF DecertifyValidator, CertInv, CertTypeOK
    <2>3. UNCHANGED <<certifiers, aliases, certificates, platforms>>
      BY <1>4 DEF DecertifyValidator
    <2>4. QED
      BY <2>1, <2>2, <2>3 DEF CertInv, CertTypeOK, AliasesAreUnique
  <1>5. ASSUME NEW v \in CertifyInputs, CertifyPlatform(a, v)
        PROVE  CertInv'
    BY <1>5 DEF CertifyPlatform, CertInv, CertTypeOK, AliasesAreUnique
  <1>6. QED
    BY <1>1, <1>2, <1>3, <1>4, <1>5 DEF CertMsg

\* What a message, or x/slashing, does to x/cert.
LEMMA OtherMsgCert ==
  ASSUME CertInv, OtherMsg
  PROVE  CertInv'
  <1> USE CertAssumption
  <1>1. ASSUME NEW v \in JailInputs, Jail(v) \/ Unjail(v) PROVE CertInv'
    <2>1. /\ jailed' \subseteq Validators /\ tombstoned' \subseteq jailed'
          /\ bonded' \subseteq Validators \ jailed'
      BY <1>1 DEF Jail, Unjail, CertInv, CertTypeOK
    <2>2. UNCHANGED <<certifiers, aliases, certificates, certified, platforms>>
      BY <1>1 DEF Jail, Unjail
    <2>3. QED
      BY <2>1, <2>2 DEF CertInv, CertTypeOK, AliasesAreUnique
  <1>2. QED
    BY <1>1, CertMsgInv DEF OtherMsg

-----------------------------------------------------------------------------
(* Proposals and queues.  What the EndBlocker has still to visit is in the *)
(* queue it walks, and ids are used once.                                  *)

Ids == 1..MaxProposals

Voting == {"CertifierVotingPeriod", "ValidatorVotingPeriod"}

\* QueuesMatchProposals, entry by entry.
QueuesByEntry ==
  /\ inactiveQueue \subseteq Nat \X Ids
  /\ activeQueue \subseteq Nat \X Ids
  /\ \A t \in Nat, id \in Ids :
       /\ <<t, id>> \in inactiveQueue <=>
            /\ id \in DOMAIN proposals
            /\ proposals[id].status = "DepositPeriod" /\ t = proposals[id].depositEnd
       /\ <<t, id>> \in activeQueue <=>
            /\ id \in DOMAIN proposals
            /\ proposals[id].status \in Voting /\ t = proposals[id].votingEnd

ProposalInv ==
  /\ now \in Nat
  /\ phase \in {"deliver", "inactive", "active", "security"}
  /\ IsStore(proposals, Ids, Proposal)
  /\ nextProposalID \in 1..(MaxProposals + 1)
  /\ \A id \in DOMAIN proposals : id < nextProposalID
  /\ QueuesByEntry
  /\ phase = "deliver" => todo = {}
  /\ phase = "inactive" => todo \subseteq inactiveQueue
  /\ phase \in {"active", "security"} => todo \subseteq activeQueue

\* The two ways to say it agree.
LEMMA QueuesMatch ==
  ASSUME IsStore(proposals, Ids, Proposal), QueuesByEntry
  PROVE  QueuesMatchProposals
  <1> DEFINE D == {id \in DOMAIN proposals : proposals[id].status = "DepositPeriod"}
             V == {id \in DOMAIN proposals : proposals[id].status \in Voting}
  <1>1. \A id \in DOMAIN proposals :
          id \in Ids /\ proposals[id].depositEnd \in Nat /\ proposals[id].votingEnd \in Nat
    BY DEF IsStore, Proposal
  <1>2. inactiveQueue = {<<proposals[id].depositEnd, id>> : id \in D}
    BY <1>1 DEF QueuesByEntry
  <1>3. activeQueue = {<<proposals[id].votingEnd, id>> : id \in V}
    BY <1>1 DEF QueuesByEntry
  <1>4. QED
    BY <1>2, <1>3, Zenon DEF QueuesMatchProposals, Voting

\* The proposal the EndBlocker visits is pending, in the queue of its period.
LEMMA VisitedIsPending ==
  ASSUME ProposalInv, NEW e, NEW loop, Visit(loop, e)
  PROVE  /\ e[2] \in DOMAIN proposals /\ e[2] \in Ids /\ e[1] \in Nat /\ e = <<e[1], e[2]>>
         /\ proposals[e[2]] \in Proposal
         /\ loop = "inactive" => proposals[e[2]].status = "DepositPeriod"
                                   /\ e[1] = proposals[e[2]].depositEnd
         /\ loop \in {"active", "security"} => proposals[e[2]].status \in Voting
                                                 /\ e[1] = proposals[e[2]].votingEnd
         /\ todo' \subseteq todo /\ e \notin todo'
         /\ \A f \in todo' : f[2] # e[2]
  <1>1. e \in todo /\ phase = loop /\ todo' = todo \ {e}
    BY DEF Visit, IsFirst
  <1>2. phase # "deliver"
    BY <1>1 DEF ProposalInv
  <1>3. CASE phase = "inactive"
    BY <1>1, <1>3 DEF ProposalInv, QueuesByEntry, IsStore
  <1>4. CASE phase \in {"active", "security"}
    BY <1>1, <1>4 DEF ProposalInv, QueuesByEntry, IsStore
  <1>5. QED
    BY <1>2, <1>3, <1>4 DEF ProposalInv

\* What ActivateVotingPeriod makes of a proposal.
LEMMA ActivatedType ==
  ASSUME now \in Nat, NEW p \in Proposal
  PROVE  /\ Activated(p) \in Proposal
         /\ Activated(p).status \in Voting
         /\ Activated(p).votingEnd = now + VotingPeriod
         /\ Activated(p).content = p.content
         /\ Activated(p).totalDeposit = p.totalDeposit
         /\ Activated(p).council = p.council
         /\ Activated(p).status = IF HasSecurityVoting(p) /\ ~ InSecurityRound(p)
                                  THEN "CertifierVotingPeriod" ELSE "ValidatorVotingPeriod"
  <1>1. now + VotingPeriod \in Nat
    BY GovAssumption
  <1>2. QED
    BY <1>1 DEF Activated, Proposal, Voting

\* p is the proposal id as it is stored, but for what it has collected, or a new one.
Agrees(id, p) ==
  IF id \in DOMAIN proposals
  THEN /\ p.status = proposals[id].status /\ p.content = proposals[id].content
       /\ p.depositEnd = proposals[id].depositEnd
       /\ p.votingEnd = proposals[id].votingEnd
  ELSE p.status = "DepositPeriod"

\* A proposal enters its next voting period.
LEMMA ActivateQueues ==
  ASSUME ProposalInv, NEW id \in Ids, NEW p \in Proposal, Agrees(id, p),
         p.status \in {"DepositPeriod", "CertifierVotingPeriod"},
         ActivateVotingPeriod(id, p)
  PROVE  /\ IsStore(proposals', Ids, Proposal)
         /\ QueuesByEntry'
         /\ DOMAIN proposals' = DOMAIN proposals \cup {id}
         /\ proposals'[id] = Activated(p)
         /\ \A i \in DOMAIN proposals \ {id} : proposals'[i] = proposals[i]
         /\ \A e \in activeQueue : e[2] # id => e \in activeQueue'
         /\ \A e \in inactiveQueue : e[2] # id => e \in inactiveQueue'
  <1> DEFINE q == Activated(p)
  <1>1. now \in Nat /\ IsStore(proposals, Ids, Proposal) /\ QueuesByEntry
    BY DEF ProposalInv
  <1>2. /\ q \in Proposal /\ q.status \in Voting /\ q.votingEnd = now + VotingPeriod
        /\ now + VotingPeriod \in Nat
    BY <1>1, ActivatedType, GovAssumption
  <1>3. proposals' = StoreSet(proposals, id, q)
    BY DEF ActivateVotingPeriod
  <1> HIDE DEF q
  <1>4. IsStore(proposals', Ids, Proposal)
    BY <1>1, <1>2, <1>3, StoreType
  <1>5. /\ DOMAIN proposals' = DOMAIN proposals \cup {id}
        /\ proposals'[id] = q
        /\ \A i \in DOMAIN proposals \ {id} : proposals'[i] = proposals[i]
    BY <1>3 DEF StoreSet
  <1>6. /\ inactiveQueue' = inactiveQueue \ {<<p.depositEnd, id>>}
        /\ activeQueue' = (IF p.status = "CertifierVotingPeriod"
                           THEN activeQueue \ {<<p.votingEnd, id>>} ELSE activeQueue)
                            \cup {<<now + VotingPeriod, id>>}
    BY DEF ActivateVotingPeriod, InSecurityRound
  <1>7. inactiveQueue' \subseteq Nat \X Ids /\ activeQueue' \subseteq Nat \X Ids
    BY <1>1, <1>2, <1>6 DEF QueuesByEntry
  <1>8. ASSUME NEW t \in Nat, NEW i \in Ids
        PROVE  <<t, i>> \in inactiveQueue' <=>
                 /\ i \in DOMAIN proposals'
                 /\ proposals'[i].status = "DepositPeriod" /\ t = proposals'[i].depositEnd
    BY <1>1, <1>2, <1>5, <1>6 DEF QueuesByEntry, Voting, Agrees
  <1>9. ASSUME NEW t \in Nat, NEW i \in Ids
        PROVE  <<t, i>> \in activeQueue' <=>
                 /\ i \in DOMAIN proposals'
                 /\ proposals'[i].status \in Voting /\ t = proposals'[i].votingEnd
    BY <1>1, <1>2, <1>5, <1>6 DEF QueuesByEntry, Voting, Agrees
  <1>10. QueuesByEntry'
    BY <1>7, <1>8, <1>9 DEF QueuesByEntry
  <1>11. /\ \A e \in activeQueue : e[2] # id => e \in activeQueue'
         /\ \A e \in inactiveQueue : e[2] # id => e \in inactiveQueue'
    BY <1>6
  <1>12. QED
    BY <1>4, <1>5, <1>10, <1>11 DEF q

\* The proposal p is saved with the amount added, and activated if that is enough.
DepositSaved(id, p, amount) ==
  \/ proposals'[id] = Activated([p EXCEPT !.totalDeposit = p.totalDeposit + amount])
  \/ proposals'[id] = [p EXCEPT !.totalDeposit = p.totalDeposit + amount]

\* A deposit is added to a proposal in its deposit period.
LEMMA AddDepositQueues ==
  ASSUME ProposalInv, NEW id \in Ids, NEW p \in Proposal, Agrees(id, p),
         p.status = "DepositPeriod", NEW a, NEW amount \in Nat,
         AddDeposit(a, id, p, amount)
  PROVE  /\ IsStore(proposals', Ids, Proposal)
         /\ QueuesByEntry'
         /\ DOMAIN proposals' = DOMAIN proposals \cup {id}
         /\ DepositSaved(id, p, amount)
         /\ \A i \in DOMAIN proposals \ {id} : proposals'[i] = proposals[i]
  <1> USE DEF DepositSaved
  <1> DEFINE q == [p EXCEPT !.totalDeposit = @ + amount]
  <1>1. /\ q \in Proposal /\ q.status = "DepositPeriod" /\ q.depositEnd = p.depositEnd
        /\ Agrees(id, q)
    BY DEF Proposal, Agrees
  <1>2. \/ ActivateVotingPeriod(id, q)
        \/ /\ proposals' = StoreSet(proposals, id, q)
           /\ inactiveQueue' = inactiveQueue \cup {<<q.depositEnd, id>>}
           /\ UNCHANGED activeQueue
    BY DEF AddDeposit
  <1> HIDE DEF q
  <1>3. CASE ActivateVotingPeriod(id, q)
    BY <1>1, <1>3, ActivateQueues DEF q
  <1>4. CASE /\ proposals' = StoreSet(proposals, id, q)
             /\ inactiveQueue' = inactiveQueue \cup {<<q.depositEnd, id>>}
             /\ UNCHANGED activeQueue
    <2>1. IsStore(proposals, Ids, Proposal) /\ QueuesByEntry
      BY DEF ProposalInv
    <2>2. IsStore(proposals', Ids, Proposal)
      BY <1>1, <1>4, <2>1, StoreType
    <2>3. /\ DOMAIN proposals' = DOMAIN proposals \cup {id}
          /\ proposals'[id] = q
          /\ \A i \in DOMAIN proposals \ {id} : proposals'[i] = proposals[i]
      BY <1>4 DEF StoreSet
    <2>4. q.depositEnd \in Nat
      BY <1>1 DEF Proposal
    <2>5. QueuesByEntry'
      BY <1>1, <1>4, <2>1, <2>3, <2>4 DEF QueuesByEntry, Voting, Agrees
    <2>6. QED
      BY <2>2, <2>3, <2>5 DEF q
  <1>5. QED
    BY <1>2, <1>3, <1>4

Final == {"Passed", "Failed", "Rejected"}

\* A proposal gets its final status and leaves the active queue.
LEMMA FinishQueues ==
  ASSUME ProposalInv, NEW id \in DOMAIN proposals, NEW pass \in BOOLEAN,
         proposals[id].status \in Voting, Finish(id, pass)
  PROVE  /\ IsStore(proposals', Ids, Proposal)
         /\ QueuesByEntry'
         /\ \E status \in IF pass THEN {"Passed", "Failed"} ELSE {"Rejected"} :
              proposals' = [proposals EXCEPT ![id].status = status]
         /\ \A e \in activeQueue : e[2] # id => e \in activeQueue'
         /\ UNCHANGED inactiveQueue
  <1>1. /\ IsStore(proposals, Ids, Proposal) /\ QueuesByEntry
        /\ id \in Ids /\ proposals[id] \in Proposal
    BY DEF ProposalInv, IsStore
  <1>2. PICK status \in IF pass THEN {"Passed", "Failed"} ELSE {"Rejected"} :
          /\ proposals' = [proposals EXCEPT ![id].status = status]
          /\ activeQueue' = activeQueue \ {<<proposals[id].votingEnd, id>>}
          /\ UNCHANGED inactiveQueue
    BY DEF Finish
  <1>3. status \in Final
    BY DEF Final
  <1>4. [proposals[id] EXCEPT !.status = status] \in Proposal
    BY <1>1, <1>3 DEF Proposal, Final
  <1>5. /\ DOMAIN proposals' = DOMAIN proposals
        /\ \A i \in DOMAIN proposals \ {id} : proposals'[i] = proposals[i]
        /\ proposals'[id] = [proposals[id] EXCEPT !.status = status]
    BY <1>2
  <1>6. IsStore(proposals', Ids, Proposal)
    BY <1>1, <1>2, <1>4, <1>5 DEF IsStore
  <1>7. proposals'[id].status = status
    BY <1>1, <1>5 DEF Proposal
  <1>8. QueuesByEntry'
    BY <1>1, <1>2, <1>3, <1>5, <1>7 DEF QueuesByEntry, Voting, Final
  <1>9. \E s \in IF pass THEN {"Passed", "Failed"} ELSE {"Rejected"} :
          proposals' = [proposals EXCEPT ![id].status = s]
    BY <1>2, Zenon
  <1>10. /\ \A e \in activeQueue : e[2] # id => e \in activeQueue'
         /\ UNCHANGED inactiveQueue
    BY <1>2
  <1>11. QED
    BY <1>6, <1>8, <1>9, <1>10, Zenon

\* The next round of a proposal.
LEMMA NextRoundQueues ==
  ASSUME ProposalInv, NEW id \in DOMAIN proposals,
         proposals[id].status = "CertifierVotingPeriod", NextRound(id)
  PROVE  /\ IsStore(proposals', Ids, Proposal)
         /\ QueuesByEntry'
         /\ DOMAIN proposals' = DOMAIN proposals
         /\ proposals'[id] = Activated(proposals[id])
         /\ \A i \in DOMAIN proposals \ {id} : proposals'[i] = proposals[i]
         /\ \A e \in activeQueue : e[2] # id => e \in activeQueue'
         /\ \A e \in inactiveQueue : e[2] # id => e \in inactiveQueue'
  <1>1. id \in Ids /\ proposals[id] \in Proposal /\ Agrees(id, proposals[id])
    BY DEF ProposalInv, IsStore, Agrees
  <1>2. ActivateVotingPeriod(id, proposals[id])
    BY DEF NextRound
  <1>3. QED
    BY <1>1, <1>2, ActivateQueues

\* The genesis of x/gov.
LEMMA ProposalInvInit == Init => ProposalInv
  BY GovAssumption DEF Init, ProposalInv, QueuesByEntry, IsStore, Ids

\* A message.
LEMMA GovMsgProposals ==
  ASSUME ProposalInv, NEW a \in Accounts, GovMsg(a)
  PROVE  ProposalInv'
  <1> USE GovAssumption
  <1>1. ASSUME NEW c \in ProposalContents, NEW deposit \in DepositInputs \cup {0},
               SubmitProposal(a, c, deposit)
        PROVE  ProposalInv'
    <2> DEFINE id == nextProposalID
               p == NewProposal(c, IsCouncilMember(a))
    <2>1. /\ id \in Ids /\ id \notin DOMAIN proposals /\ now \in Nat
      BY <1>1 DEF SubmitProposal, ProposalInv, Ids
    <2>2. p \in Proposal /\ p.status = "DepositPeriod" /\ Agrees(id, p)
      <3>1. IsCouncilMember(a) \in BOOLEAN
        BY DEF IsCouncilMember, IsCertifier
      <3>2. now + MaxDepositPeriod \in Nat /\ c \in Content
        BY <2>1
      <3>3. QED
        BY <2>1, <3>1, <3>2 DEF NewProposal, Proposal, Agrees
    <2>3. /\ nextProposalID' = id + 1
          /\ \/ ActivateVotingPeriod(id, p)
             \/ AddDeposit(a, id, p, deposit)
          /\ UNCHANGED <<now, phase, todo>> /\ phase = "deliver"
      BY <1>1 DEF SubmitProposal, DeliverTx
    <2> HIDE DEF p
    <2>4. /\ IsStore(proposals', Ids, Proposal) /\ QueuesByEntry'
          /\ DOMAIN proposals' = DOMAIN proposals \cup {id}
      <3>1. CASE ActivateVotingPeriod(id, p)
        BY <2>1, <2>2, <3>1, ActivateQueues
      <3>2. CASE AddDeposit(a, id, p, deposit)
        BY <2>1, <2>2, <3>2, AddDepositQueues
      <3>3. QED
        BY <2>3, <3>1, <3>2
    <2>5. /\ nextProposalID' \in 1..(MaxProposals + 1)
          /\ \A i \in DOMAIN proposals' : i < nextProposalID'
      <3>1. /\ nextProposalID \in 1..MaxProposals
            /\ \A i \in DOMAIN proposals : i \in Nat /\ i < nextProposalID
        BY <2>1 DEF ProposalInv, IsStore, Ids
      <3>2. QED
        BY <2>3, <2>4, <3>1
    <2>6. QED
      BY <2>3, <2>4, <2>5 DEF ProposalInv
  <1>2. ASSUME NEW id \in DOMAIN proposals, NEW amount \in DepositInputs,
               Deposit(a, id, amount)
        PROVE  ProposalInv'
    <2>1. id \in Ids /\ proposals[id] \in Proposal /\ Agrees(id, proposals[id])
      BY DEF ProposalInv, IsStore, Agrees
    <2>2. /\ proposals[id].status = "DepositPeriod"
          /\ AddDeposit(a, id, proposals[id], amount)
          /\ UNCHANGED <<now, phase, todo, nextProposalID>> /\ phase = "deliver"
      BY <1>2 DEF Deposit, DeliverTx
    <2>3. /\ IsStore(proposals', Ids, Proposal) /\ QueuesByEntry'
          /\ DOMAIN proposals' = DOMAIN proposals \cup {id}
      BY <2>1, <2>2, AddDepositQueues
    <2>4. QED
      BY <2>2, <2>3 DEF ProposalInv
  <1>3. ASSUME NEW id \in DOMAIN proposals, NEW option \in VoteOptions,
               AddVote(a, id, option)
        PROVE  ProposalInv'
    BY <1>3 DEF AddVote, proposalVars, ProposalInv, QueuesByEntry
  <1>4. QED
    BY <1>1, <1>2, <1>3 DEF GovMsg

\* A step of the EndBlocker's loops.
LEMMA EndBlockerProposals ==
  ASSUME ProposalInv, EndBlocker
  PROVE  ProposalInv'
  <1>1. PICK e \in todo : \/ RemoveInactiveProposal(e) \/ EndSecurityRound(e)
                          \/ EndStakeRound(e) \/ ProcessSecurityVote(e)
                          \/ SkipSecurityVote(e)
    BY DEF EndBlocker
  <1> DEFINE id == e[2]
  <1>2. CASE RemoveInactiveProposal(e)
    <2>1. Visit("inactive", e)
      BY <1>2 DEF RemoveInactiveProposal
    <2>2. /\ id \in DOMAIN proposals /\ id \in Ids /\ proposals[id] \in Proposal
          /\ proposals[id].status = "DepositPeriod"
          /\ todo' \subseteq todo /\ \A f \in todo' : f[2] # id
      BY <2>1, VisitedIsPending
    <2>3. /\ proposals' = StoreDelete(proposals, {id})
          /\ inactiveQueue' = inactiveQueue \ {<<proposals[id].depositEnd, id>>}
          /\ activeQueue' = activeQueue \ {<<proposals[id].votingEnd, id>>}
          /\ UNCHANGED <<now, phase, nextProposalID>> /\ phase = "inactive"
      BY <1>2 DEF RemoveInactiveProposal, Visit
    <2>4. /\ DOMAIN proposals' = DOMAIN proposals \ {id}
          /\ \A i \in DOMAIN proposals \ {id} : proposals'[i] = proposals[i]
          /\ IsStore(proposals', Ids, Proposal)
      BY <2>3, StoreType DEF StoreDelete, Restrict, ProposalInv
    <2>5. QueuesByEntry'
      <3>1. QueuesByEntry
        BY DEF ProposalInv
      <3>2. inactiveQueue' \subseteq Nat \X Ids /\ activeQueue' \subseteq Nat \X Ids
        BY <2>3, <3>1 DEF QueuesByEntry
      <3> HIDE DEF id
      <3>3. ASSUME NEW t \in Nat, NEW i \in Ids
            PROVE  <<t, i>> \in inactiveQueue' <=>
                     /\ i \in DOMAIN proposals'
                     /\ proposals'[i].status = "DepositPeriod" /\ t = proposals'[i].depositEnd
        <4>1. CASE i = id
          BY <2>3, <2>4, <3>1, <4>1 DEF QueuesByEntry
        <4>2. CASE i # id
          <5>1. <<t, i>> \in inactiveQueue' <=> <<t, i>> \in inactiveQueue
            BY <2>3, <4>2
          <5>2. QED
            BY <2>4, <3>1, <4>2, <5>1 DEF QueuesByEntry
        <4>3. QED
          BY <4>1, <4>2
      <3>4. ASSUME NEW t \in Nat, NEW i \in Ids
            PROVE  <<t, i>> \in activeQueue' <=>
                     /\ i \in DOMAIN proposals'
                     /\ proposals'[i].status \in Voting /\ t = proposals'[i].votingEnd
        <4>1. CASE i = id
          <5>1. <<t, id>> \notin activeQueue
            BY <2>2, <3>1 DEF QueuesByEntry, Voting
          <5>2. QED
            BY <2>3, <2>4, <4>1, <5>1
        <4>2. CASE i # id
          <5>1. <<t, i>> \in activeQueue' <=> <<t, i>> \in activeQueue
            BY <2>3, <4>2
          <5>2. QED
            BY <2>4, <3>1, <4>2, <5>1 DEF QueuesByEntry
        <4>3. QED
          BY <4>1, <4>2
      <3>5. QED
        BY <3>2, <3>3, <3>4 DEF QueuesByEntry
    <2>6. todo' \subseteq inactiveQueue'
      BY <2>2, <2>3 DEF ProposalInv
    <2>7. QED
      BY <2>3, <2>4, <2>5, <2>6 DEF ProposalInv
  <1>3. ASSUME NEW loop \in {"active", "security"}, Visit(loop, e),
               \/ proposals[id].status = "CertifierVotingPeriod" /\ NextRound(id)
               \/ \E pass \in BOOLEAN : Finish(id, pass)
        PROVE  ProposalInv'
    <2>1. /\ id \in DOMAIN proposals /\ id \in Ids /\ proposals[id] \in Proposal
          /\ proposals[id].status \in Voting
          /\ todo' \subseteq todo /\ \A f \in todo' : f[2] # id
      BY <1>3, VisitedIsPending
    <2>2. /\ UNCHANGED <<now, phase, nextProposalID>> /\ phase = loop
      BY <1>3 DEF Visit
    <2>3. /\ IsStore(proposals', Ids, Proposal) /\ QueuesByEntry'
          /\ DOMAIN proposals' = DOMAIN proposals
          /\ \A f \in activeQueue : f[2] # id => f \in activeQueue'
      <3>1. CASE proposals[id].status = "CertifierVotingPeriod" /\ NextRound(id)
        BY <2>1, <3>1, NextRoundQueues
      <3>2. CASE \E pass \in BOOLEAN : Finish(id, pass)
        BY <2>1, <3>2, FinishQueues
      <3>3. QED
        BY <1>3, <3>1, <3>2
    <2>4. todo' \subseteq activeQueue'
      BY <1>3, <2>1, <2>2, <2>3 DEF ProposalInv
    <2>5. QED
      BY <1>3, <2>2, <2>3, <2>4 DEF ProposalInv
  <1>4. CASE EndSecurityRound(e)
    <2>1. SecurityPass(id) \in BOOLEAN
      BY DEF SecurityPass
    <2>2. QED
      BY <1>3, <1>4, <2>1 DEF EndSecurityRound, InSecurityRound
  <1>5. CASE EndStakeRound(e)
    <2>1. StakePass(id) \in BOOLEAN
      BY DEF StakePass
    <2>2. QED
      BY <1>3, <1>5, <2>1 DEF EndStakeRound
  <1>6. CASE ProcessSecurityVote(e)
    BY <1>3, <1>6 DEF ProcessSecurityVote, InSecurityRound
  <1>7. CASE SkipSecurityVote(e)
    <2>1. /\ todo' \subseteq todo
          /\ UNCHANGED <<now, phase, nextProposalID, proposals, inactiveQueue, activeQueue>>
      BY <1>7 DEF SkipSecurityVote, Visit
    <2>2. QED
      BY <2>1 DEF ProposalInv, QueuesByEntry
  <1>8. QED
    BY <1>1, <1>2, <1>4, <1>5, <1>6, <1>7

\* The other steps of a block.
LEMMA BlockProposals ==
  ASSUME ProposalInv, Block
  PROVE  ProposalInv'
  <1>1. CASE StartEndBlocker
    BY <1>1 DEF StartEndBlocker, proposalVars, ProposalInv, QueuesByEntry, Due
  <1>2. CASE NextLoop
    BY <1>2 DEF NextLoop, proposalVars, ProposalInv, QueuesByEntry, Due
  <1>3. ASSUME NEW elapsed \in BlockTimes, NextBlock(elapsed) PROVE ProposalInv'
    <2>1. now + elapsed \in Nat
      BY GovAssumption DEF ProposalInv
    <2>2. QED
      BY <1>3, <2>1 DEF NextBlock, proposalVars, ProposalInv, QueuesByEntry
  <1>4. QED
    BY <1>1, <1>2, <1>3, EndBlockerProposals DEF Block

\* Types and queues of proposals are kept by every step.
LEMMA GovProposalInv == Spec => []ProposalInv
  <1>1. ProposalInv /\ [Next]_vars => ProposalInv'
    <2> SUFFICES ASSUME ProposalInv, [Next]_vars PROVE ProposalInv'
      OBVIOUS
    <2>1. CASE OtherMsg
      BY <2>1 DEF OtherMsg, proposalVars, ProposalInv, QueuesByEntry
    <2>2. CASE UNCHANGED vars
      BY <2>2 DEF vars, proposalVars, ProposalInv, QueuesByEntry
    <2>3. QED
      BY <2>1, <2>2, GovMsgProposals, BlockProposals DEF Next
  <1>2. QED
    BY <1>1, ProposalInvInit, PTL DEF Spec

\* Every proposal is in the queue of its period, at its end and once, although the
\* EndBlocker moves entries between the queues it iterates over.
THEOREM GovQueuesMatchProposals == Spec => []QueuesMatchProposals
  <1>1. ProposalInv => QueuesMatchProposals
    BY QueuesMatch DEF ProposalInv
  <1>2. QED
    BY <1>1, GovProposalInv, PTL

-----------------------------------------------------------------------------
(* Certifiers and certificates, through all the steps of x/gov.            *)

\* What the end of a proposal does to x/cert.
LEMMA FinishCert ==
  ASSUME ProposalInv, CertInv, NEW id \in DOMAIN proposals, NEW pass, Finish(id, pass)
  PROVE  CertInv' /\ UNCHANGED certificates
  <1> DEFINE c == proposals[id].content
  <1>1. c \in Content
    BY DEF ProposalInv, IsStore, Proposal
  <1>2. \/ UNCHANGED certVars
        \/ \E success \in HandlerOutcomes(c) : Execute(c, success)
    BY DEF Finish
  <1> HIDE DEF c
  <1>3. CASE UNCHANGED certVars
    BY <1>3 DEF certVars, CertInv, CertTypeOK, AliasesAreUnique
  <1>4. ASSUME NEW success \in HandlerOutcomes(c), Execute(c, success)
        PROVE  CertInv' /\ UNCHANGED certificates
    <2>1. CASE success /\ c.kind = "update"
      <3>1. CertifierUpdateSucceeds(c)
        BY <1>4, <2>1 DEF HandlerOutcomes
      <3>2. HandleCertifierUpdateProposal(c)
        BY <1>4, <2>1 DEF Execute
      <3>3. UNCHANGED certificates
        BY <3>2 DEF HandleCertifierUpdateProposal
      <3>4. QED
        BY <1>1, <3>1, <3>2, <3>3, CertifierUpdateInv
    <2>2. CASE ~ (success /\ c.kind = "update")
      BY <1>3, <1>4, <2>2 DEF Execute
    <2>3. QED
      BY <2>1, <2>2
  <1>5. QED
    BY <1>2, <1>3, <1>4

\* A step of the EndBlocker: only the end of a proposal is about x/cert.
LEMMA EndBlockerCert ==
  ASSUME ProposalInv, EndBlocker
  PROVE  \/ UNCHANGED certVars
         \/ \E id \in DOMAIN proposals, pass \in BOOLEAN : Finish(id, pass)
  <1>1. PICK e \in todo : \/ RemoveInactiveProposal(e) \/ EndSecurityRound(e)
                          \/ EndStakeRound(e) \/ ProcessSecurityVote(e)
                          \/ SkipSecurityVote(e)
    BY DEF EndBlocker
  <1>2. e[2] \in DOMAIN proposals
    <2>1. \E loop : Visit(loop, e)
      BY <1>1 DEF RemoveInactiveProposal, EndSecurityRound, EndStakeRound,
                  ProcessSecurityVote, SkipSecurityVote
    <2>2. QED
      BY <2>1, VisitedIsPending
  <1>3. CASE RemoveInactiveProposal(e) \/ SkipSecurityVote(e)
    BY <1>3 DEF RemoveInactiveProposal, SkipSecurityVote
  <1>4. CASE EndSecurityRound(e)
    <2>1. SecurityPass(e[2]) \in BOOLEAN
      BY DEF SecurityPass
    <2>2. QED
      BY <1>2, <1>4, <2>1 DEF EndSecurityRound, NextRound
  <1>5. CASE EndStakeRound(e)
    <2>1. StakePass(e[2]) \in BOOLEAN
      BY DEF StakePass
    <2>2. QED
      BY <1>2, <1>5, <2>1 DEF EndStakeRound
  <1>6. CASE ProcessSecurityVote(e)
    BY <1>2, <1>6 DEF ProcessSecurityVote, NextRound
  <1>7. QED
    BY <1>1, <1>3, <1>4, <1>5, <1>6

\* What a step may do to certificates: issue one under a free index, or revoke one.
LEMMA OtherMsgCertificates ==
  ASSUME OtherMsg
  PROVE  \A id \in DOMAIN certificates \cap DOMAIN certificates' :
           certificates'[id] = certificates[id]
  <1>1. CASE UNCHANGED certificates
    BY <1>1
  <1>2. ASSUME NEW a, NEW type, NEW content, IssueCertificate(a, type, content)
        PROVE  \A id \in DOMAIN certificates \cap DOMAIN certificates' :
                 certificates'[id] = certificates[id]
    <2>1. PICK i \in NewCertificateIndex(type, content) :
            certificates' = StoreSet(certificates, <<type, content, i>>, a)
      BY <1>2 DEF IssueCertificate
    <2>2. <<type, content, i>> \notin DOMAIN certificates
      BY NewIndexIsFree
    <2>3. QED
      BY <2>1, <2>2 DEF StoreSet
  <1>3. ASSUME NEW a, NEW id, RevokeCertificate(a, id)
        PROVE  \A i \in DOMAIN certificates \cap DOMAIN certificates' :
                 certificates'[i] = certificates[i]
    BY <1>3 DEF RevokeCertificate, StoreDelete, Restrict
  <1>4. \/ UNCHANGED certificates
        \/ \E a, type, content : IssueCertificate(a, type, content)
        \/ \E a, id : RevokeCertificate(a, id)
    BY DEF OtherMsg, CertMsg, CertifyValidator, DecertifyValidator, CertifyPlatform, Jail, Unjail
  <1>5. QED
    BY <1>1, <1>2, <1>3, <1>4

\* Every step keeps CertInv, and no step replaces a certificate.
LEMMA CertStep ==
  ASSUME ProposalInv, CertInv, [Next]_vars
  PROVE  /\ CertInv'
         /\ \A id \in DOMAIN certificates \cap DOMAIN certificates' :
              certificates'[id] = certificates[id]
  <1>1. CASE UNCHANGED certVars
    BY <1>1 DEF certVars, CertInv, CertTypeOK, AliasesAreUnique
  <1>2. CASE OtherMsg
    BY <1>2, OtherMsgCert, OtherMsgCertificates
  <1>3. CASE StartEndBlocker
    <2>1. bonded' \subseteq Validators \ jailed
      BY <1>3 DEF StartEndBlocker
    <2>2. UNCHANGED <<certifiers, aliases, certificates, certified, platforms,
                      jailed, tombstoned>>
      BY <1>3 DEF StartEndBlocker
    <2>3. QED
      BY <2>1, <2>2 DEF CertInv, CertTypeOK, AliasesAreUnique
  <1>4. CASE \E id \in DOMAIN proposals, pass \in BOOLEAN : Finish(id, pass)
    BY <1>4, FinishCert
  <1>5. ASSUME NEW a \in Accounts, GovMsg(a) PROVE UNCHANGED certVars
    BY <1>5 DEF GovMsg, SubmitProposal, Deposit, AddVote
  <1>6. CASE NextLoop \/ (\E elapsed \in BlockTimes : NextBlock(elapsed))
    BY <1>1, <1>6 DEF NextLoop, NextBlock
  <1>7. CASE EndBlocker
    BY <1>1, <1>4, <1>7, EndBlockerCert
  <1>8. CASE UNCHANGED vars
    BY <1>1, <1>8 DEF vars
  <1>9. QED
    BY <1>1, <1>2, <1>3, <1>5, <1>6, <1>7, <1>8 DEF Next, Block

\* CertInv holds in every state.
LEMMA GovCertInv == Spec => []CertInv
  <1>1. ProposalInv /\ CertInv /\ [Next]_vars => CertInv'
    BY CertStep
  <1>2. Init => CertInv
    BY CertInvInit DEF Init
  <1>3. QED
    BY <1>1, <1>2, GovProposalInv, PTL DEF Spec

\* No two certifiers ever have the same alias, although proposals for one alias may
\* be voted on at the same time and each was checked when it was submitted.
THEOREM GovAliasesAreUnique == Spec => []AliasesAreUnique
  <1>1. CertInv => AliasesAreUnique
    BY DEF CertInv
  <1>2. QED
    BY <1>1, GovCertInv, PTL

\* Some certifier can take back the certification of a validator, whoever has been
\* voted out: there is always a certifier left.
THEOREM GovSomeoneMayDecertify == Spec => []SomeoneMayDecertify
  <1>1. ASSUME CertInv, NEW v \in DOMAIN certified
        PROVE  \E a \in Accounts : MayDecertify(a, v)
    <2>1. certified[v] \in Accounts /\ DOMAIN certifiers \subseteq Accounts
      BY <1>1 DEF CertInv, CertTypeOK, IsStore
    <2>2. PICK b \in DOMAIN certifiers : TRUE
      BY <1>1 DEF CertInv
    <2>3. QED
      BY <2>1, <2>2 DEF MayDecertify, IsCertifier
  <1>2. CertInv => SomeoneMayDecertify
    BY <1>1 DEF SomeoneMayDecertify
  <1>3. QED
    BY <1>2, GovCertInv, PTL

\* A certificate stays as it is until it is revoked, however many are issued for the
\* same content.
THEOREM GovCertificatesNotReplaced == Spec => CertificatesNotReplaced
  <1>1. ProposalInv /\ CertInv /\ [Next]_vars =>
          [\A id \in DOMAIN certificates \cap DOMAIN certificates' :
             certificates'[id] = certificates[id]]_vars
    BY CertStep
  <1>2. QED
    BY <1>1, GovProposalInv, GovCertInv, PTL DEF Spec, CertificatesNotReplaced

-----------------------------------------------------------------------------
(* The life of a proposal: what a step does to proposals and votes.        *)

FirstRound(p) == IF HasSecurityVoting(p) THEN "CertifierVotingPeriod" ELSE "ValidatorVotingPeriod"

\* No proposal but id changes.
OnlyChanges(id) == \A i \in DOMAIN proposals \ {id} : proposals'[i] = proposals[i]

Submitted(id) ==
  /\ id \in Ids /\ id = nextProposalID /\ id \notin DOMAIN proposals
  /\ nextProposalID' = nextProposalID + 1
  /\ DOMAIN proposals' = DOMAIN proposals \cup {id} /\ OnlyChanges(id)
  /\ proposals'[id].status \in {"DepositPeriod", FirstRound(proposals'[id])}
  /\ UNCHANGED votes

Dropped(id) ==
  /\ id \in DOMAIN proposals /\ proposals[id].status = "DepositPeriod"
  /\ UNCHANGED nextProposalID
  /\ DOMAIN proposals' = DOMAIN proposals \ {id} /\ OnlyChanges(id)
  /\ UNCHANGED votes

Moved(id, from, to) ==
  /\ id \in DOMAIN proposals
  /\ UNCHANGED nextProposalID
  /\ DOMAIN proposals' = DOMAIN proposals /\ OnlyChanges(id)
  /\ proposals'[id].content = proposals[id].content
  /\ proposals[id].status = from /\ proposals'[id].status = to

ClearsVotes(id) == votes' = StoreDelete(votes, VotesOf(id))

Voted ==
  \E id \in DOMAIN proposals, a \in Accounts, option \in Options :
    /\ proposals[id].status \in Voting
    /\ votes' = StoreSet(votes, <<id, a>>, option)

\* What a step does to a proposal, and to its votes.
Moves(id) ==
  \/ Submitted(id)
  \/ Dropped(id)
  \/ UNCHANGED votes /\ \E to \in {"DepositPeriod", FirstRound(proposals[id])} :
                           Moved(id, "DepositPeriod", to)
  \/ ClearsVotes(id) /\ Moved(id, "CertifierVotingPeriod", "ValidatorVotingPeriod")
  \/ UNCHANGED votes /\ \E to \in IF proposals[id].content.kind = "update"
                                  THEN {"Passed", "Failed"} ELSE {"Rejected"} :
                           Moved(id, "CertifierVotingPeriod", to)
  \/ ClearsVotes(id) /\ \E to \in Final : Moved(id, "ValidatorVotingPeriod", to)

\* A deposit moves a proposal on, or not.
LEMMA AddDepositMoves ==
  ASSUME ProposalInv, NEW id \in Ids, NEW p \in Proposal, Agrees(id, p),
         p.status = "DepositPeriod", NEW a, NEW amount \in Nat,
         AddDeposit(a, id, p, amount)
  PROVE  /\ DOMAIN proposals' = DOMAIN proposals \cup {id} /\ OnlyChanges(id)
         /\ proposals'[id].content = p.content
         /\ proposals'[id].status \in {"DepositPeriod", FirstRound(p)}
  <1> DEFINE q == [p EXCEPT !.totalDeposit = @ + amount]
  <1>1. q \in Proposal /\ q.status = "DepositPeriod" /\ q.content = p.content
    BY DEF Proposal
  <1>2. /\ DOMAIN proposals' = DOMAIN proposals \cup {id} /\ OnlyChanges(id)
        /\ proposals'[id] = Activated(q) \/ proposals'[id] = q
    <2>1. /\ DOMAIN proposals' = DOMAIN proposals \cup {id}
          /\ \A i \in DOMAIN proposals \ {id} : proposals'[i] = proposals[i]
      BY AddDepositQueues
    <2>2. DepositSaved(id, p, amount)
      BY AddDepositQueues
    <2>3. QED
      BY <2>1, <2>2 DEF OnlyChanges, DepositSaved
  <1>3. now \in Nat
    BY DEF ProposalInv
  <1> HIDE DEF q
  <1>4. Activated(q).content = p.content /\ Activated(q).status = FirstRound(p)
    BY <1>1, <1>3, ActivatedType DEF FirstRound, HasSecurityVoting, InSecurityRound
  <1>5. QED
    BY <1>1, <1>2, <1>4

\* A message.
LEMMA GovMsgMoves ==
  ASSUME ProposalInv, NEW a \in Accounts, GovMsg(a)
  PROVE  \/ UNCHANGED <<proposals, nextProposalID>> /\ Voted
         \/ \E id \in Ids : Moves(id)
  <1> USE GovAssumption
  <1>1. ASSUME NEW c \in ProposalContents, NEW deposit \in DepositInputs \cup {0},
               SubmitProposal(a, c, deposit)
        PROVE  \E id \in Ids : Moves(id)
    <2> DEFINE id == nextProposalID
               p == NewProposal(c, IsCouncilMember(a))
    <2>1. /\ id \in Ids /\ id \notin DOMAIN proposals /\ now \in Nat
      BY <1>1 DEF SubmitProposal, ProposalInv, Ids
    <2>2. p \in Proposal /\ p.status = "DepositPeriod" /\ Agrees(id, p)
      <3>1. IsCouncilMember(a) \in BOOLEAN
        BY DEF IsCouncilMember, IsCertifier
      <3>2. now + MaxDepositPeriod \in Nat /\ c \in Content
        BY <2>1
      <3>3. QED
        BY <2>1, <3>1, <3>2 DEF NewProposal, Proposal, Agrees
    <2>3. /\ nextProposalID' = id + 1
          /\ \/ ActivateVotingPeriod(id, p)
             \/ AddDeposit(a, id, p, deposit)
          /\ UNCHANGED votes
      BY <1>1 DEF SubmitProposal
    <2> HIDE DEF p
    <2>4. /\ DOMAIN proposals' = DOMAIN proposals \cup {id} /\ OnlyChanges(id)
          /\ proposals'[id].content = p.content
          /\ proposals'[id].status \in {"DepositPeriod", FirstRound(p)}
      <3>1. CASE ActivateVotingPeriod(id, p)
        <4>1. /\ DOMAIN proposals' = DOMAIN proposals \cup {id} /\ OnlyChanges(id)
              /\ proposals'[id] = Activated(p)
          BY <2>1, <2>2, <3>1, ActivateQueues DEF OnlyChanges
        <4>2. Activated(p).content = p.content /\ Activated(p).status = FirstRound(p)
          BY <2>1, <2>2, ActivatedType DEF FirstRound, InSecurityRound
        <4>3. QED
          BY <4>1, <4>2
      <3>2. CASE AddDeposit(a, id, p, deposit)
        BY <2>1, <2>2, <3>2, AddDepositMoves
      <3>3. QED
        BY <2>3, <3>1, <3>2
    <2>5. Submitted(id)
      BY <2>1, <2>3, <2>4 DEF Submitted, FirstRound, HasSecurityVoting
    <2>6. QED
      BY <2>1, <2>5 DEF Moves
  <1>2. ASSUME NEW id \in DOMAIN proposals, NEW amount \in DepositInputs,
               Deposit(a, id, amount)
        PROVE  Moves(id) /\ id \in Ids
    <2>1. id \in Ids /\ proposals[id] \in Proposal /\ Agrees(id, proposals[id])
      BY DEF ProposalInv, IsStore, Agrees
    <2>2. /\ proposals[id].status = "DepositPeriod"
          /\ AddDeposit(a, id, proposals[id], amount)
          /\ UNCHANGED <<nextProposalID, votes>>
      BY <1>2 DEF Deposit
    <2>3. /\ DOMAIN proposals' = DOMAIN proposals \cup {id} /\ OnlyChanges(id)
          /\ proposals'[id].content = proposals[id].content
          /\ proposals'[id].status \in {"DepositPeriod", FirstRound(proposals[id])}
      BY <2>1, <2>2, AddDepositMoves
    <2>4. \E to \in {"DepositPeriod", FirstRound(proposals[id])} :
            Moved(id, "DepositPeriod", to)
      BY <2>2, <2>3 DEF Moved
    <2>5. QED
      BY <2>1, <2>2, <2>4 DEF Moves
  <1>3. ASSUME NEW id \in DOMAIN proposals, NEW option \in VoteOptions,
               AddVote(a, id, option)
        PROVE  UNCHANGED <<proposals, nextProposalID>> /\ Voted
    BY <1>3 DEF AddVote, proposalVars, Voted, MayVote, InSecurityRound, Voting
  <1>4. QED
    BY <1>1, <1>2, <1>3 DEF GovMsg

\* The end of a proposal in the round it is in.
LEMMA FinishMoves ==
  ASSUME ProposalInv, NEW id \in DOMAIN proposals, NEW pass \in BOOLEAN,
         proposals[id].status \in Voting, Finish(id, pass), UNCHANGED nextProposalID
  PROVE  \E to \in IF pass THEN {"Passed", "Failed"} ELSE {"Rejected"} :
           Moved(id, proposals[id].status, to)
  <1>1. PICK to \in IF pass THEN {"Passed", "Failed"} ELSE {"Rejected"} :
          proposals' = [proposals EXCEPT ![id].status = to]
    BY FinishQueues
  <1>2. proposals[id] \in Proposal
    BY DEF ProposalInv, IsStore
  <1>3. Moved(id, proposals[id].status, to)
    BY <1>1, <1>2 DEF Moved, OnlyChanges, Proposal
  <1>4. QED
    BY <1>3

\* The next round of a proposal.
LEMMA NextRoundMoves ==
  ASSUME ProposalInv, NEW id \in DOMAIN proposals,
         proposals[id].status = "CertifierVotingPeriod", NextRound(id),
         UNCHANGED nextProposalID
  PROVE  ClearsVotes(id) /\ Moved(id, "CertifierVotingPeriod", "ValidatorVotingPeriod")
  <1>1. proposals[id] \in Proposal /\ now \in Nat
    BY DEF ProposalInv, IsStore
  <1>2. /\ DOMAIN proposals' = DOMAIN proposals /\ OnlyChanges(id)
        /\ proposals'[id] = Activated(proposals[id])
    BY NextRoundQueues DEF OnlyChanges
  <1>3. QED
    BY <1>1, <1>2, ActivatedType DEF Moved, ClearsVotes, NextRound, InSecurityRound

\* A step of the EndBlocker.
LEMMA EndBlockerMoves ==
  ASSUME ProposalInv, EndBlocker
  PROVE  \/ UNCHANGED <<proposals, nextProposalID, votes>>
         \/ \E id \in Ids : Moves(id)
  <1>1. PICK e \in todo : \/ RemoveInactiveProposal(e) \/ EndSecurityRound(e)
                          \/ EndStakeRound(e) \/ ProcessSecurityVote(e)
                          \/ SkipSecurityVote(e)
    BY DEF EndBlocker
  <1> DEFINE id == e[2]
  <1>2. CASE RemoveInactiveProposal(e)
    <2>1. Visit("inactive", e) /\ UNCHANGED <<votes, nextProposalID>>
      BY <1>2 DEF RemoveInactiveProposal, Visit
    <2>2. /\ id \in DOMAIN proposals /\ id \in Ids /\ proposals[id].status = "DepositPeriod"
      BY <2>1, VisitedIsPending
    <2>3. Dropped(id)
      BY <1>2, <2>1, <2>2
         DEF RemoveInactiveProposal, StoreDelete, Restrict, Dropped, OnlyChanges
    <2>4. QED
      BY <2>2, <2>3 DEF Moves
  <1>3. CASE EndSecurityRound(e)
    <2>1. SecurityPass(id) \in BOOLEAN
      BY DEF SecurityPass
    <2>2. Visit("active", e) /\ UNCHANGED nextProposalID
      BY <1>3 DEF EndSecurityRound, Visit
    <2>3. id \in DOMAIN proposals /\ id \in Ids
      BY <2>2, VisitedIsPending
    <2>4. proposals[id].status = "CertifierVotingPeriod"
      BY <1>3 DEF EndSecurityRound, InSecurityRound
    <2>5. CASE NextRound(id)
      BY <2>2, <2>3, <2>4, <2>5, NextRoundMoves DEF Moves
    <2>6. CASE EndsVoting(proposals[id], SecurityPass(id)) /\ Finish(id, SecurityPass(id))
                 /\ UNCHANGED votes
      <3>1. \E to \in IF SecurityPass(id) THEN {"Passed", "Failed"} ELSE {"Rejected"} :
              Moved(id, "CertifierVotingPeriod", to)
        BY <2>1, <2>2, <2>3, <2>4, <2>6, FinishMoves DEF Voting
      <3>2. SecurityPass(id) <=> proposals[id].content.kind = "update"
        BY <2>6 DEF EndsVoting
      <3>3. QED
        BY <2>3, <2>6, <3>1, <3>2 DEF Moves
    <2>7. QED
      BY <1>3, <2>5, <2>6 DEF EndSecurityRound
  <1>4. CASE EndStakeRound(e)
    <2>1. StakePass(id) \in BOOLEAN
      BY DEF StakePass
    <2>2. Visit("active", e) /\ UNCHANGED nextProposalID /\ ClearsVotes(id)
      BY <1>4 DEF EndStakeRound, Visit, ClearsVotes
    <2>3. id \in DOMAIN proposals /\ id \in Ids /\ proposals[id].status \in Voting
      BY <2>2, VisitedIsPending
    <2>4. proposals[id].status = "ValidatorVotingPeriod" /\ Finish(id, StakePass(id))
      BY <1>4, <2>3 DEF EndStakeRound, InSecurityRound, Voting
    <2>5. \E to \in Final : Moved(id, "ValidatorVotingPeriod", to)
      BY <2>1, <2>2, <2>3, <2>4, FinishMoves DEF Final
    <2>6. QED
      BY <2>2, <2>3, <2>5 DEF Moves
  <1>5. CASE ProcessSecurityVote(e)
    <2>1. Visit("security", e) /\ UNCHANGED nextProposalID
      BY <1>5 DEF ProcessSecurityVote, Visit
    <2>2. id \in DOMAIN proposals /\ id \in Ids
      BY <2>1, VisitedIsPending
    <2>3. proposals[id].status = "CertifierVotingPeriod"
      BY <1>5 DEF ProcessSecurityVote, InSecurityRound
    <2>4. CASE NextRound(id)
      BY <2>1, <2>2, <2>3, <2>4, NextRoundMoves DEF Moves
    <2>5. CASE EndsVoting(proposals[id], TRUE) /\ Finish(id, TRUE) /\ UNCHANGED votes
      <3>1. \E to \in {"Passed", "Failed"} : Moved(id, "CertifierVotingPeriod", to)
        BY <2>1, <2>2, <2>3, <2>5, FinishMoves DEF Voting
      <3>2. proposals[id].content.kind = "update"
        BY <2>5 DEF EndsVoting
      <3>3. QED
        BY <2>2, <2>5, <3>1, <3>2 DEF Moves
    <2>6. QED
      BY <1>5, <2>4, <2>5 DEF ProcessSecurityVote
  <1>6. CASE SkipSecurityVote(e)
    BY <1>6 DEF SkipSecurityVote, Visit
  <1>7. QED
    BY <1>1, <1>2, <1>3, <1>4, <1>5, <1>6

\* A step moves at most one proposal, from one stage to the next.
LEMMA StepMoves ==
  ASSUME ProposalInv, [Next]_vars
  PROVE  \/ UNCHANGED <<proposals, nextProposalID>> /\ (UNCHANGED votes \/ Voted)
         \/ \E id \in Ids : Moves(id)
  <1>1. CASE \E a \in Accounts : GovMsg(a)
    BY <1>1, GovMsgMoves
  <1>2. CASE EndBlocker
    BY <1>2, EndBlockerMoves
  <1>3. CASE StartEndBlocker \/ NextLoop \/ (\E elapsed \in BlockTimes : NextBlock(elapsed))
    BY <1>3 DEF StartEndBlocker, NextLoop, NextBlock, proposalVars
  <1>4. CASE OtherMsg \/ UNCHANGED vars
    BY <1>4 DEF OtherMsg, vars, proposalVars
  <1>5. QED
    BY <1>1, <1>2, <1>3, <1>4 DEF Next, Block

-----------------------------------------------------------------------------
(* Votes.  They are on proposals that are voted on, or have been.          *)

VotesInv ==
  /\ IsStore(votes, Ids \X Accounts, Options)
  /\ \A k \in DOMAIN votes :
       k[1] \in DOMAIN proposals /\ proposals[k[1]].status # "DepositPeriod"

\* A step keeps VotesInv, and no round of the validators starts with votes.
LEMMA VotesStep ==
  ASSUME ProposalInv, VotesInv, [Next]_vars
  PROVE  /\ VotesInv'
         /\ \A id \in DOMAIN proposals \cap DOMAIN proposals' :
              (proposals[id].status # "ValidatorVotingPeriod"
                 /\ proposals'[id].status = "ValidatorVotingPeriod")
                => \A k \in DOMAIN votes' : k[1] # id
  <1> DEFINE Started(id) == proposals[id].status # "ValidatorVotingPeriod"
                              /\ proposals'[id].status = "ValidatorVotingPeriod"
             NoVotes(id) == \A k \in DOMAIN votes' : k[1] # id
  <1>1. DOMAIN proposals \subseteq Ids
    BY DEF ProposalInv, IsStore
  <1>2. CASE Voted /\ UNCHANGED proposals
    <2>1. PICK id \in DOMAIN proposals, a \in Accounts, option \in Options :
            /\ proposals[id].status \in Voting
            /\ votes' = StoreSet(votes, <<id, a>>, option)
      BY <1>2 DEF Voted
    <2>2. <<id, a>> \in Ids \X Accounts
      BY <1>1
    <2>3. IsStore(votes', Ids \X Accounts, Options)
      BY <2>1, <2>2, StoreType DEF VotesInv
    <2>4. DOMAIN votes' = DOMAIN votes \cup {<<id, a>>}
      BY <2>1 DEF StoreSet
    <2>5. VotesInv'
      BY <1>2, <2>1, <2>3, <2>4 DEF VotesInv, Voting
    <2>6. QED
      BY <1>2, <2>5
  <1>3. CASE UNCHANGED <<proposals, votes>>
    BY <1>3 DEF VotesInv
  <1>4. ASSUME NEW id \in Ids, Moves(id) PROVE VotesInv' /\ (Started(id) => NoVotes(id))
    <2>1. UNCHANGED votes \/ ClearsVotes(id)
      BY <1>4 DEF Moves, Submitted, Dropped
    <2>2. IsStore(votes', Ids \X Accounts, Options)
      BY <2>1, StoreType DEF VotesInv, ClearsVotes
    <2>3. DOMAIN votes' \subseteq DOMAIN votes
      BY <2>1 DEF ClearsVotes, StoreDelete, Restrict
    <2>4. ClearsVotes(id) => NoVotes(id)
      BY DEF ClearsVotes, StoreDelete, Restrict, VotesOf
    <2>5. \A k \in DOMAIN votes' : k[1] # id =>
            k[1] \in DOMAIN proposals' /\ proposals'[k[1]].status # "DepositPeriod"
      BY <1>4, <2>3 DEF Moves, Submitted, Dropped, Moved, OnlyChanges, VotesInv
    <2>6. \A k \in DOMAIN votes' : k[1] = id =>
            k[1] \in DOMAIN proposals' /\ proposals'[k[1]].status # "DepositPeriod"
      BY <1>4, <2>3, <2>4 DEF Moves, Submitted, Dropped, Moved, VotesInv, Final
    <2>7. Started(id) => NoVotes(id)
      BY <1>4, <2>3, <2>4 DEF Moves, Submitted, Dropped, Moved, VotesInv, Final
    <2>8. QED
      BY <2>2, <2>5, <2>6, <2>7 DEF VotesInv
  <1>5. ASSUME NEW id \in Ids, Moves(id), NEW i \in DOMAIN proposals \cap DOMAIN proposals',
               i # id
        PROVE  proposals'[i] = proposals[i]
    BY <1>5 DEF Moves, Submitted, Dropped, Moved, OnlyChanges
  <1>6. CASE \E id \in Ids : Moves(id)
    <2>1. PICK id \in Ids : Moves(id)
      BY <1>6
    <2>2. ASSUME NEW i \in DOMAIN proposals \cap DOMAIN proposals', Started(i)
          PROVE  NoVotes(i)
      BY <1>4, <1>5, <2>1, <2>2
    <2>3. QED
      BY <1>4, <2>1, <2>2
  <1>7. QED
    BY <1>2, <1>3, <1>6, StepMoves

\* VotesInv holds in every state.
LEMMA GovVotesInv == Spec => []VotesInv
  <1>1. ProposalInv /\ VotesInv /\ [Next]_vars => VotesInv'
    BY VotesStep
  <1>2. Init => VotesInv
    BY DEF Init, VotesInv, IsStore
  <1>3. QED
    BY <1>1, <1>2, GovProposalInv, PTL DEF Spec

\* The validators' round of a proposal starts without votes: the one head of a
\* certifier is never counted again with its stake.
THEOREM GovRoundsStartWithoutVotes == Spec => RoundsStartWithoutVotes
  <1>1. ProposalInv /\ VotesInv /\ [Next]_vars =>
          [\A id \in DOMAIN proposals \cap DOMAIN proposals' :
             (proposals[id].status # "ValidatorVotingPeriod"
                /\ proposals'[id].status = "ValidatorVotingPeriod")
               => \A k \in DOMAIN votes' : k[1] # id]_vars
    BY VotesStep
  <1>2. QED
    BY <1>1, GovProposalInv, GovVotesInv, PTL DEF Spec, RoundsStartWithoutVotes

-----------------------------------------------------------------------------
(* x/gov implements the safety part of ProposalLife.                       *)

Stage == [id \in Ids |->
            IF id \in DOMAIN proposals THEN proposals[id].status
            ELSE IF id < nextProposalID THEN "Dropped" ELSE "none"]

Kind == [id \in Ids |->
           IF id \in DOMAIN proposals THEN proposals[id].content.kind ELSE "none"]

\* A move of one proposal, seen from outside.
LEMMA MovesImplement ==
  ASSUME ProposalInv, ProposalInv', NEW id \in Ids, Moves(id)
  PROVE  Life!Next \/ UNCHANGED <<Stage, Kind>>
  <1>1. \A i \in Ids : i # id => Stage'[i] = Stage[i] /\ Kind'[i] = Kind[i]
    BY DEF Moves, Submitted, Dropped, Moved, OnlyChanges, Stage, Kind, Ids, ProposalInv
  <1>2. /\ DOMAIN Stage = Ids /\ DOMAIN Stage' = Ids /\ DOMAIN Kind = Ids /\ DOMAIN Kind' = Ids
        /\ Stage = [i \in Ids |-> Stage[i]] /\ Stage' = [i \in Ids |-> Stage'[i]]
        /\ Kind = [i \in Ids |-> Kind[i]] /\ Kind' = [i \in Ids |-> Kind'[i]]
    BY DEF Stage, Kind
  <1>3. /\ Stage' = [Stage EXCEPT ![id] = Stage'[id]]
        /\ Kind' = [Kind EXCEPT ![id] = Kind'[id]]
    BY <1>1, <1>2
  <1>4. \A i \in DOMAIN proposals : proposals[i].content.kind \in Kinds
    BY DEF ProposalInv, IsStore, Proposal, Content
  <1>5. \A i \in DOMAIN proposals' : proposals'[i].content.kind \in Kinds
    BY DEF ProposalInv, IsStore, Proposal, Content
  <1>6. CASE Submitted(id)
    <2>0. PICK k \in Kinds : k = proposals'[id].content.kind
      BY <1>5, <1>6 DEF Submitted
    <2>1. /\ Stage[id] = "none" /\ Kind'[id] = k
          /\ Stage'[id] \in {"DepositPeriod", Life!FirstRound(k)}
      <3>1. Stage[id] = "none"
        BY <1>6 DEF Submitted, Stage, Ids
      <3>2. Kind'[id] = k /\ Stage'[id] = proposals'[id].status
        BY <1>6, <2>0 DEF Submitted, Stage, Kind
      <3>3. Life!FirstRound(k) = FirstRound(proposals'[id])
        BY <2>0 DEF Life!FirstRound, FirstRound, HasSecurityVoting
      <3>4. QED
        BY <1>6, <3>1, <3>2, <3>3 DEF Submitted
    <2>2. Life!Submit(id, k)
      BY <1>3, <2>1 DEF Life!Submit, Stage, Kind, Ids
    <2>3. QED
      BY <2>2 DEF Life!Next, Ids
  <1>7. CASE Dropped(id)
    <2>1. /\ Stage[id] = "DepositPeriod" /\ Stage'[id] = "Dropped" /\ Kind'[id] = "none"
      BY <1>7 DEF Dropped, Stage, Kind, ProposalInv
    <2>2. Life!Collect(id)
      BY <1>3, <2>1 DEF Life!Collect, Stage, Kind, Ids
    <2>3. QED
      BY <2>2 DEF Life!Next, Ids
  <1>8. ASSUME NEW from, NEW to, Moved(id, from, to)
        PROVE  /\ Stage[id] = from /\ Stage'[id] = to /\ Kind'[id] = Kind[id]
               /\ UNCHANGED Kind /\ Stage' = [Stage EXCEPT ![id] = to]
               /\ Kind[id] = proposals[id].content.kind
    <2>1. Stage[id] = from /\ Stage'[id] = to /\ Kind'[id] = Kind[id]
            /\ Kind[id] = proposals[id].content.kind
      BY <1>8 DEF Moved, Stage, Kind
    <2>2. Kind' = Kind
      BY <1>1, <1>2, <2>1
    <2>3. QED
      BY <1>3, <2>1, <2>2
  <1>9. CASE \E to \in {"DepositPeriod", FirstRound(proposals[id])} :
               Moved(id, "DepositPeriod", to)
    <2>1. PICK to \in {"DepositPeriod", FirstRound(proposals[id])} :
            Moved(id, "DepositPeriod", to)
      BY <1>9
    <2>2. CASE to = "DepositPeriod"
      BY <1>2, <1>8, <2>1, <2>2
    <2>3. CASE to # "DepositPeriod"
      <3>1. to = Life!FirstRound(Kind[id])
        BY <1>8, <2>1, <2>3 DEF FirstRound, HasSecurityVoting, Life!FirstRound
      <3>2. Life!Collect(id)
        BY <1>8, <2>1, <3>1 DEF Life!Collect, Life!Move, Stage, Kind, Ids
      <3>3. QED
        BY <3>2 DEF Life!Next, Ids
    <2>4. QED
      BY <2>2, <2>3
  <1>10. ASSUME NEW to, Moved(id, "CertifierVotingPeriod", to),
                to \in IF proposals[id].content.kind = "update"
                       THEN {"Passed", "Failed", "ValidatorVotingPeriod"}
                       ELSE {"Rejected", "ValidatorVotingPeriod"}
         PROVE  Life!Next
    <2>1. Life!CertifiersDecide(id)
      BY <1>8, <1>10 DEF Life!CertifiersDecide, Life!Move, Stage, Kind, Ids
    <2>2. QED
      BY <2>1 DEF Life!Next, Ids
  <1>11. ASSUME NEW to \in Final, Moved(id, "ValidatorVotingPeriod", to)
         PROVE  Life!Next
    <2>1. Life!ValidatorsDecide(id)
      BY <1>8, <1>11 DEF Life!ValidatorsDecide, Life!Move, Stage, Kind, Ids, Final
    <2>2. QED
      BY <2>1 DEF Life!Next, Ids
  <1>12. QED
    BY <1>6, <1>7, <1>9, <1>10, <1>11 DEF Moves

\* Every proposal goes through the rounds of its kind and passes only with the bodies
\* that must agree, whatever is deposited and voted: every step of x/gov is a step of
\* ProposalLife or changes nothing of it.
THEOREM GovImplementsProposalLife == Spec => Life!Init /\ [][Life!Next]_(Life!life)
  <1>1. Init => Life!Init
    BY GovAssumption DEF Init, Life!Init
  <1>2. ASSUME ProposalInv, ProposalInv', [Next]_vars
        PROVE  [Life!Next]_(Life!life)
    <2>1. CASE UNCHANGED <<proposals, nextProposalID>>
      BY <2>1 DEF Life!life
    <2>2. CASE \E id \in Ids : Moves(id)
      BY <1>2, <2>2, MovesImplement DEF Life!life, Stage, Kind, Ids
    <2>3. QED
      BY <1>2, <2>1, <2>2, StepMoves
  <1>3. QED
    BY <1>1, <1>2, GovProposalInv, PTL DEF Spec

-----------------------------------------------------------------------------
(* Deposits.  A pending proposal has collected what is on record for it,   *)
(* also when that is nothing.                                              *)

DepositInv ==
  /\ IsStore(deposits, Ids \X Accounts, Nat)
  /\ balances \in [Accounts -> Nat]
  /\ DepositsHeld
  /\ \A id \in DOMAIN proposals : proposals[id].status \notin Final =>
       proposals[id].totalDeposit = Deposited(DepositsOf(id))
  /\ DepositsLeftByUpdates

\* The records are finitely many, and natural numbers.
LEMMA DepositsFinite ==
  ASSUME DepositInv
  PROVE  /\ IsFiniteSet(DOMAIN deposits)
         /\ \A k \in DOMAIN deposits :
              /\ deposits[k] \in Nat /\ k = <<k[1], k[2]>>
              /\ k[1] \in Ids /\ k[2] \in Accounts
         /\ govBalance \in Nat
  <1>1. IsFiniteSet(Ids) /\ IsFiniteSet(Accounts)
    BY GovAssumption, CertAssumption, FS_Interval DEF Ids
  <1>2. IsFiniteSet(Ids \X Accounts)
    BY <1>1, FS_Product
  <1>3. IsFiniteSet(DOMAIN deposits)
    BY <1>2, FS_Subset DEF DepositInv, IsStore
  <1>4. \A k \in DOMAIN deposits :
          deposits[k] \in Nat /\ k = <<k[1], k[2]>> /\ k[1] \in Ids /\ k[2] \in Accounts
    BY DEF DepositInv, IsStore
  <1>5. govBalance \in Nat
    BY <1>3, <1>4, SumNat DEF DepositInv, DepositsHeld, Deposited, SumOver
  <1>6. QED
    BY <1>3, <1>4, <1>5

\* A deposit is paid in.
LEMMA PaidDeposits ==
  ASSUME DepositInv, NEW id \in Ids, NEW a \in Accounts, NEW amount \in Nat,
         CanPay(a, amount),
         balances' = [balances EXCEPT ![a] = @ - amount],
         govBalance' = govBalance + amount,
         deposits' = UpsertDeposit(a, id, amount),
         DOMAIN proposals' = DOMAIN proposals \cup {id}, OnlyChanges(id),
         id \in DOMAIN proposals => proposals[id].status = "DepositPeriod",
         proposals'[id].status \notin Final,
         proposals'[id].totalDeposit
           = (IF id \in DOMAIN proposals THEN proposals[id].totalDeposit ELSE 0) + amount
  PROVE  DepositInv'
  <1> DEFINE key == <<id, a>>
             D == DOMAIN deposits
  <1>1. /\ IsFiniteSet(D) /\ \A k \in D : deposits[k] \in Nat
        /\ govBalance \in Nat
    BY DepositsFinite
  <1>2. deposits' = StoreSet(deposits, key, amount + (IF key \in D THEN deposits[key] ELSE 0))
    BY DEF UpsertDeposit
  <1>3. /\ DOMAIN deposits' = D \cup {key}
        /\ \A k \in D \ {key} : deposits'[k] = deposits[k]
    BY <1>2 DEF StoreSet
  <1>4. IsStore(deposits', Ids \X Accounts, Nat)
    <2>1. amount + (IF key \in D THEN deposits[key] ELSE 0) \in Nat
      BY <1>1
    <2>2. key \in Ids \X Accounts
      OBVIOUS
    <2>3. QED
      BY <1>2, <2>1, <2>2, StoreType DEF DepositInv
  <1>5. balances' \in [Accounts -> Nat]
    BY DEF DepositInv, CanPay
  <1>6. ASSUME NEW S \in SUBSET D, key \in D => key \in S
        PROVE  SumFunctionOnSet(deposits', S \cup {key}) = SumFunctionOnSet(deposits, S) + amount
    <2> HIDE DEF key
    <2>1. SumFunctionOnSet(StoreSet(deposits, key, amount + (IF key \in DOMAIN deposits
                                                             THEN deposits[key] ELSE 0)),
                           S \cup {key})
            = SumFunctionOnSet(deposits, S) + amount
      BY <1>1, <1>6, StoreAddSum, Zenon
    <2>2. QED
      BY <1>2, <2>1, Zenon
  <1>7. govBalance' = Deposited(DOMAIN deposits)'
    <2>1. SumFunctionOnSet(deposits', D \cup {key}) = SumFunctionOnSet(deposits, D) + amount
      BY <1>6
    <2>2. SumFunctionOnSet(deposits', DOMAIN deposits') = SumFunctionOnSet(deposits', D \cup {key})
      BY <1>3, Zenon
    <2>3. QED
      BY <2>1, <2>2 DEF DepositInv, DepositsHeld, Deposited, SumOver
  <1>8. proposals'[id].totalDeposit = Deposited(DepositsOf(id))'
    <2>1. DepositsOf(id)' = DepositsOf(id) \cup {key}
      BY <1>3 DEF DepositsOf
    <2>2. SumFunctionOnSet(deposits', DepositsOf(id) \cup {key})
            = SumFunctionOnSet(deposits, DepositsOf(id)) + amount
      BY <1>6 DEF DepositsOf
    <2>3. SumFunctionOnSet(deposits, DepositsOf(id))
            = IF id \in DOMAIN proposals THEN proposals[id].totalDeposit ELSE 0
      <3>1. CASE id \in DOMAIN proposals
        BY <3>1 DEF DepositInv, Deposited, SumOver, Final
      <3>2. CASE id \notin DOMAIN proposals
        <4>1. DepositsOf(id) = {}
          BY <3>2 DEF DepositInv, DepositsLeftByUpdates, DepositsOf
        <4>2. QED
          BY <3>2, <4>1, SumEmpty
      <3>3. QED
        BY <3>1, <3>2
    <2>4. Deposited(DepositsOf(id))' = SumFunctionOnSet(deposits', DepositsOf(id) \cup {key})
      BY <2>1, Zenon DEF Deposited, SumOver
    <2>5. QED
      BY <2>2, <2>3, <2>4
  <1>9. ASSUME NEW i \in DOMAIN proposals', i # id
        PROVE  /\ DepositsOf(i)' = DepositsOf(i)
               /\ Deposited(DepositsOf(i))' = Deposited(DepositsOf(i))
               /\ i \in DOMAIN proposals /\ proposals'[i] = proposals[i]
    <2>1. DepositsOf(i)' = DepositsOf(i) /\ key \notin DepositsOf(i)
      BY <1>3, <1>9 DEF DepositsOf
    <2>2. DepositsOf(i) \subseteq D /\ IsFiniteSet(DepositsOf(i))
      BY <1>1, FS_Subset DEF DepositsOf
    <2>3. \A k \in DepositsOf(i) : deposits'[k] = deposits[k]
      BY <1>3, <2>1, <2>2
    <2>4. SumFunctionOnSet(deposits', DepositsOf(i)) = SumFunctionOnSet(deposits, DepositsOf(i))
      BY <2>2, <2>3, SumEqual
    <2>5. Deposited(DepositsOf(i))' = Deposited(DepositsOf(i))
      BY <2>1, <2>4, Zenon DEF Deposited, SumOver
    <2>6. QED
      BY <1>9, <2>1, <2>5 DEF OnlyChanges
  <1>10. DepositsHeld'
    BY <1>7, <1>8, <1>9 DEF DepositInv, DepositsHeld
  <1>11. \A i \in DOMAIN proposals' : proposals'[i].status \notin Final =>
           proposals'[i].totalDeposit = Deposited(DepositsOf(i))'
    BY <1>8, <1>9 DEF DepositInv
  <1>12. DepositsLeftByUpdates'
    <2>1. ASSUME NEW k \in DOMAIN deposits', k[1] = id
          PROVE  k[1] \in DOMAIN proposals' /\ proposals'[k[1]].status \notin Final
      BY <2>1
    <2>2. ASSUME NEW k \in DOMAIN deposits', k[1] # id
          PROVE  k \in D /\ k[1] \in DOMAIN proposals /\ proposals'[k[1]] = proposals[k[1]]
      BY <1>3, <2>2 DEF DepositInv, DepositsLeftByUpdates, OnlyChanges
    <2>3. QED
      BY <2>1, <2>2 DEF DepositInv, DepositsLeftByUpdates, Final
  <1>13. QED
    BY <1>4, <1>5, <1>10, <1>11, <1>12 DEF DepositInv

\* The deposits of a proposal are refunded or burned, and the proposal has ended.
LEMMA ClearedDeposits ==
  ASSUME DepositInv, NEW id,
         balances' \in [Accounts -> Nat],
         govBalance' = govBalance - Deposited(DepositsOf(id)),
         deposits' = StoreDelete(deposits, DepositsOf(id)),
         DOMAIN proposals \ {id} \subseteq DOMAIN proposals',
         DOMAIN proposals' \subseteq DOMAIN proposals, OnlyChanges(id),
         id \in DOMAIN proposals' => proposals'[id].status \in Final
  PROVE  DepositInv'
  <1> DEFINE D == DOMAIN deposits
  <1>1. /\ IsFiniteSet(D) /\ \A k \in D : deposits[k] \in Nat
        /\ DepositsOf(id) \in SUBSET D
    BY DepositsFinite DEF DepositsOf
  <1>2. /\ DOMAIN deposits' = D \ DepositsOf(id)
        /\ \A R \in SUBSET (D \ DepositsOf(id)) :
             SumFunctionOnSet(deposits', R) = SumFunctionOnSet(deposits, R)
        /\ SumFunctionOnSet(deposits, D)
             = SumFunctionOnSet(deposits', DOMAIN deposits')
                 + SumFunctionOnSet(deposits, DepositsOf(id))
        /\ SumFunctionOnSet(deposits', DOMAIN deposits') \in Nat
        /\ SumFunctionOnSet(deposits, DepositsOf(id)) \in Nat
    <2> HIDE DEF D
    <2> QED BY <1>1, StoreDeleteSum, Zenon DEF D
  <1>3. IsStore(deposits', Ids \X Accounts, Nat)
    BY StoreType DEF DepositInv
  <1>4. govBalance' = Deposited(DOMAIN deposits)'
    BY <1>2 DEF DepositInv, DepositsHeld, Deposited, SumOver
  <1>5. DepositsOf(id)' = {}
    BY <1>2 DEF DepositsOf
  <1>6. ASSUME NEW i \in DOMAIN proposals', i # id
        PROVE  /\ DepositsOf(i)' = DepositsOf(i)
               /\ Deposited(DepositsOf(i))' = Deposited(DepositsOf(i))
               /\ i \in DOMAIN proposals /\ proposals'[i] = proposals[i]
    <2>1. DepositsOf(i)' = DepositsOf(i) /\ DepositsOf(i) \in SUBSET (D \ DepositsOf(id))
      BY <1>2, <1>6 DEF DepositsOf
    <2>2. SumFunctionOnSet(deposits', DepositsOf(i)) = SumFunctionOnSet(deposits, DepositsOf(i))
      BY <1>2, <2>1
    <2>3. Deposited(DepositsOf(i))' = Deposited(DepositsOf(i))
      BY <2>1, <2>2, Zenon DEF Deposited, SumOver
    <2>4. QED
      BY <1>6, <2>1, <2>3 DEF OnlyChanges
  <1>7. DepositsHeld'
    BY <1>4, <1>5, <1>6 DEF DepositInv, DepositsHeld
  <1>8. \A i \in DOMAIN proposals' : proposals'[i].status \notin Final =>
           proposals'[i].totalDeposit = Deposited(DepositsOf(i))'
    BY <1>6 DEF DepositInv
  <1>9. DepositsLeftByUpdates'
    <2>1. ASSUME NEW k \in DOMAIN deposits'
          PROVE  /\ k \in D /\ k[1] # id /\ k[1] \in DOMAIN proposals
                 /\ k[1] \in DOMAIN proposals' /\ proposals'[k[1]] = proposals[k[1]]
      BY <1>2 DEF DepositsOf, DepositInv, DepositsLeftByUpdates, OnlyChanges
    <2>2. QED
      BY <2>1 DEF DepositInv, DepositsLeftByUpdates
  <1>10. QED
    BY <1>3, <1>7, <1>8, <1>9 DEF DepositInv

\* No deposit changes: a council proposal starts, a proposal enters its next round, or
\* the certifiers decide a certifier update early.
LEMMA KeptDeposits ==
  ASSUME DepositInv, UNCHANGED <<deposits, balances, govBalance>>,
         DOMAIN proposals \subseteq DOMAIN proposals',
         \A i \in DOMAIN proposals :
           /\ proposals'[i].totalDeposit = proposals[i].totalDeposit
           /\ proposals'[i].content = proposals[i].content
           /\ \/ proposals'[i].status \notin Final /\ proposals[i].status \notin Final
              \/ proposals'[i].status = proposals[i].status
              \/ /\ proposals[i].status \notin Final
                 /\ proposals[i].content.kind = "update"
                 /\ proposals'[i].status \in {"Passed", "Failed"},
         \A i \in DOMAIN proposals' \ DOMAIN proposals : proposals'[i].totalDeposit = 0
  PROVE  DepositInv'
  <1>1. \A i \in DOMAIN proposals : DepositsOf(i)' = DepositsOf(i)
          /\ Deposited(DepositsOf(i))' = Deposited(DepositsOf(i))
    BY DEF DepositsOf, Deposited, SumOver
  <1>2. ASSUME NEW i \in DOMAIN proposals' \ DOMAIN proposals
        PROVE  DepositsOf(i)' = {} /\ Deposited(DepositsOf(i))' = 0
    <2>1. DepositsOf(i)' = {}
      BY DEF DepositInv, DepositsLeftByUpdates, DepositsOf
    <2>2. QED
      BY <2>1, SumEmpty DEF Deposited, SumOver
  <1>3. DepositsHeld'
    <2>1. govBalance' = Deposited(DOMAIN deposits)'
      BY DEF DepositInv, DepositsHeld, Deposited, SumOver
    <2>2. QED
      BY <1>1, <1>2, <2>1 DEF DepositInv, DepositsHeld
  <1>4. \A i \in DOMAIN proposals' : proposals'[i].status \notin Final =>
          proposals'[i].totalDeposit = Deposited(DepositsOf(i))'
    BY <1>1, <1>2 DEF DepositInv, Final
  <1>5. DepositsLeftByUpdates'
    BY DEF DepositInv, DepositsLeftByUpdates, Final
  <1>6. QED
    BY <1>3, <1>4, <1>5 DEF DepositInv

\* A message.
LEMMA GovMsgDeposits ==
  ASSUME ProposalInv, DepositInv, NEW a \in Accounts, GovMsg(a)
  PROVE  DepositInv'
  <1> USE GovAssumption
  <1>0. now \in Nat
    BY DEF ProposalInv
  <1>1. ASSUME NEW id \in Ids, NEW p \in Proposal, Agrees(id, p), p.status = "DepositPeriod",
               p.totalDeposit
                 = (IF id \in DOMAIN proposals THEN proposals[id].totalDeposit ELSE 0),
               NEW amount \in Nat, AddDeposit(a, id, p, amount)
        PROVE  DepositInv'
    <2> DEFINE q == [p EXCEPT !.totalDeposit = p.totalDeposit + amount]
    <2>1. /\ CanPay(a, amount)
          /\ balances' = [balances EXCEPT ![a] = @ - amount]
          /\ govBalance' = govBalance + amount
          /\ deposits' = UpsertDeposit(a, id, amount)
      BY <1>1 DEF AddDeposit
    <2>2. /\ DOMAIN proposals' = DOMAIN proposals \cup {id} /\ OnlyChanges(id)
          /\ proposals'[id] = Activated(q) \/ proposals'[id] = q
      <3>1. /\ DOMAIN proposals' = DOMAIN proposals \cup {id}
            /\ \A i \in DOMAIN proposals \ {id} : proposals'[i] = proposals[i]
        BY <1>1, AddDepositQueues
      <3>2. DepositSaved(id, p, amount)
        BY <1>1, AddDepositQueues
      <3>3. OnlyChanges(id)
        BY <3>1 DEF OnlyChanges
      <3>4. proposals'[id] = Activated(q) \/ proposals'[id] = q
        BY <3>2 DEF DepositSaved
      <3>5. QED
        BY <3>1, <3>3, <3>4
    <2>3. /\ q \in Proposal /\ q.totalDeposit = p.totalDeposit + amount
          /\ q.status = "DepositPeriod"
      BY <1>1 DEF Proposal
    <2> HIDE DEF q
    <2>4. /\ Activated(q).totalDeposit = p.totalDeposit + amount
          /\ Activated(q).status \in Voting
      BY <1>0, <2>3, ActivatedType
    <2>5. /\ proposals'[id].totalDeposit = p.totalDeposit + amount
          /\ proposals'[id].status \notin Final
      BY <2>2, <2>3, <2>4 DEF Voting, Final
    <2>6. id \in DOMAIN proposals => proposals[id].status = "DepositPeriod"
      BY <1>1 DEF Agrees
    <2>7. QED
      BY <1>1, <2>1, <2>2, <2>5, <2>6, PaidDeposits
  <1>2. ASSUME NEW c \in ProposalContents, NEW deposit \in DepositInputs \cup {0},
               SubmitProposal(a, c, deposit)
        PROVE  DepositInv'
    <2> DEFINE id == nextProposalID
               p == NewProposal(c, IsCouncilMember(a))
    <2>1. /\ id \in Ids /\ id \notin DOMAIN proposals
      BY <1>2 DEF SubmitProposal, ProposalInv, Ids
    <2>2. p \in Proposal /\ p.status = "DepositPeriod" /\ Agrees(id, p) /\ p.totalDeposit = 0
      <3>1. IsCouncilMember(a) \in BOOLEAN
        BY DEF IsCouncilMember, IsCertifier
      <3>2. now + MaxDepositPeriod \in Nat /\ c \in Content
        BY <1>0
      <3>3. QED
        BY <2>1, <3>1, <3>2 DEF NewProposal, Proposal, Agrees
    <2>3. \/ ActivateVotingPeriod(id, p) /\ UNCHANGED <<deposits, balances, govBalance>>
          \/ AddDeposit(a, id, p, deposit)
      BY <1>2 DEF SubmitProposal, bankVars
    <2> HIDE DEF p
    <2>4. CASE AddDeposit(a, id, p, deposit)
      BY <1>1, <2>1, <2>2, <2>4
    <2>5. CASE ActivateVotingPeriod(id, p) /\ UNCHANGED <<deposits, balances, govBalance>>
      <3>1. /\ DOMAIN proposals' = DOMAIN proposals \cup {id} /\ proposals'[id] = Activated(p)
            /\ \A i \in DOMAIN proposals : proposals'[i] = proposals[i]
        BY <2>1, <2>2, <2>5, ActivateQueues
      <3>2. Activated(p).totalDeposit = 0
        BY <1>0, <2>2, ActivatedType
      <3>3. \A i \in DOMAIN proposals' \ DOMAIN proposals : proposals'[i].totalDeposit = 0
        BY <3>1, <3>2
      <3>4. QED
        BY <2>5, <3>1, <3>3, KeptDeposits
    <2>6. QED
      BY <2>3, <2>4, <2>5
  <1>3. ASSUME NEW id \in DOMAIN proposals, NEW amount \in DepositInputs,
               Deposit(a, id, amount)
        PROVE  DepositInv'
    <2>1. id \in Ids /\ proposals[id] \in Proposal /\ Agrees(id, proposals[id])
      BY DEF ProposalInv, IsStore, Agrees
    <2>2. proposals[id].status = "DepositPeriod" /\ AddDeposit(a, id, proposals[id], amount)
      BY <1>3 DEF Deposit
    <2>3. QED
      BY <1>1, <2>1, <2>2
  <1>4. ASSUME NEW id \in DOMAIN proposals, NEW option \in VoteOptions,
               AddVote(a, id, option)
        PROVE  DepositInv'
    <2>1. UNCHANGED <<proposals, deposits, balances, govBalance>>
      BY <1>4 DEF AddVote, proposalVars, bankVars
    <2>2. QED
      BY <2>1, KeptDeposits
  <1>5. QED
    BY <1>2, <1>3, <1>4 DEF GovMsg

\* A refund leaves natural balances.
LEMMA RefundBalances ==
  ASSUME DepositInv, NEW id, RefundDeposits(id)
  PROVE  balances' \in [Accounts -> Nat]
  <1>1. ASSUME NEW a \in Accounts
        PROVE  balances[a] + Deposited({k \in DepositsOf(id) : k[2] = a}) \in Nat
    <2> DEFINE S == {k \in DepositsOf(id) : k[2] = a}
    <2>1. S \subseteq DOMAIN deposits
      BY DEF DepositsOf
    <2>2. IsFiniteSet(S) /\ \A k \in S : deposits[k] \in Nat
      BY <2>1, DepositsFinite, FS_Subset
    <2> HIDE DEF S
    <2>3. SumFunctionOnSet(deposits, S) \in Nat /\ balances[a] \in Nat
      BY <2>2, SumNat DEF DepositInv
    <2>4. QED
      BY <2>3 DEF S, Deposited, SumOver
  <1>2. QED
    BY <1>1 DEF RefundDeposits

\* The end of a proposal: its status is final, and nothing else of it changes.
LEMMA FinishDeposits ==
  ASSUME ProposalInv, NEW id \in DOMAIN proposals, NEW pass \in BOOLEAN,
         proposals[id].status \in Voting, Finish(id, pass)
  PROVE  /\ DOMAIN proposals' = DOMAIN proposals /\ OnlyChanges(id)
         /\ proposals'[id].status \in IF pass THEN {"Passed", "Failed"} ELSE {"Rejected"}
         /\ proposals'[id].totalDeposit = proposals[id].totalDeposit
         /\ proposals'[id].content = proposals[id].content
  <1>1. PICK to \in IF pass THEN {"Passed", "Failed"} ELSE {"Rejected"} :
          proposals' = [proposals EXCEPT ![id].status = to]
    BY FinishQueues
  <1>2. proposals[id] \in Proposal
    BY DEF ProposalInv, IsStore
  <1>3. QED
    BY <1>1, <1>2 DEF OnlyChanges, Proposal

\* A step of the EndBlocker.
LEMMA EndBlockerDeposits ==
  ASSUME ProposalInv, DepositInv, EndBlocker
  PROVE  DepositInv'
  <1>1. PICK e \in todo : \/ RemoveInactiveProposal(e) \/ EndSecurityRound(e)
                          \/ EndStakeRound(e) \/ ProcessSecurityVote(e)
                          \/ SkipSecurityVote(e)
    BY DEF EndBlocker
  <1> DEFINE id == e[2]
             Cleared == RefundDeposits(id) \/ DeleteDeposits(id)
  <1>2. ASSUME Cleared
        PROVE  /\ balances' \in [Accounts -> Nat]
               /\ govBalance' = govBalance - Deposited(DepositsOf(id))
               /\ deposits' = StoreDelete(deposits, DepositsOf(id))
    BY <1>2, RefundBalances DEF RefundDeposits, DeleteDeposits, DepositInv
  <1>3. CASE RemoveInactiveProposal(e)
    <2>1. /\ DOMAIN proposals' = DOMAIN proposals \ {id} /\ OnlyChanges(id) /\ Cleared
      BY <1>3 DEF RemoveInactiveProposal, StoreDelete, Restrict, OnlyChanges
    <2>2. QED
      BY <1>2, <2>1, ClearedDeposits
  <1>4. ASSUME NEW loop \in {"active", "security"}, Visit(loop, e)
        PROVE  id \in DOMAIN proposals /\ proposals[id].status \in Voting
    BY <1>4, VisitedIsPending
  <1>5. ASSUME NEW loop \in {"active", "security"}, Visit(loop, e), NEW pass \in BOOLEAN,
               Finish(id, pass), Cleared
        PROVE  DepositInv'
    <2>1. /\ DOMAIN proposals' = DOMAIN proposals /\ OnlyChanges(id)
          /\ proposals'[id].status \in Final
      BY <1>4, <1>5, FinishDeposits DEF Final
    <2>2. QED
      BY <1>2, <1>5, <2>1, ClearedDeposits
  <1>6. ASSUME NEW loop \in {"active", "security"}, Visit(loop, e), NextRound(id),
               InSecurityRound(proposals[id])
        PROVE  DepositInv'
    <2>1. /\ DOMAIN proposals' = DOMAIN proposals /\ OnlyChanges(id)
          /\ proposals'[id] = Activated(proposals[id])
      BY <1>4, <1>6, NextRoundQueues DEF OnlyChanges, InSecurityRound
    <2>2. /\ Activated(proposals[id]).totalDeposit = proposals[id].totalDeposit
          /\ Activated(proposals[id]).content = proposals[id].content
          /\ Activated(proposals[id]).status \in Voting
      BY <1>4, <1>6, ActivatedType DEF ProposalInv, IsStore
    <2>3. UNCHANGED <<deposits, balances, govBalance>>
      BY <1>6 DEF NextRound, bankVars
    <2>4. proposals[id].status \notin Final /\ proposals'[id].status \notin Final
      BY <1>6, <2>1, <2>2 DEF InSecurityRound, Voting, Final
    <2>5. QED
      BY <2>1, <2>2, <2>3, <2>4, KeptDeposits DEF OnlyChanges
  <1>7. CASE EndSecurityRound(e)
    <2>1. SecurityPass(id) \in BOOLEAN
      BY DEF SecurityPass
    <2>2. QED
      BY <1>5, <1>6, <1>7, <2>1 DEF EndSecurityRound
  <1>8. CASE EndStakeRound(e)
    <2>1. StakePass(id) \in BOOLEAN
      BY DEF StakePass
    <2>2. QED
      BY <1>5, <1>8, <2>1 DEF EndStakeRound
  <1>9. CASE ProcessSecurityVote(e)
    <2>1. CASE NextRound(id)
      BY <1>6, <1>9, <2>1 DEF ProcessSecurityVote
    <2>2. CASE /\ EndsVoting(proposals[id], TRUE) /\ Finish(id, TRUE)
               /\ UNCHANGED <<deposits, votes, bankVars>>
      <3>1. id \in DOMAIN proposals /\ proposals[id].status \in Voting
        BY <1>4, <1>9 DEF ProcessSecurityVote
      <3>2. /\ DOMAIN proposals' = DOMAIN proposals /\ OnlyChanges(id)
            /\ proposals'[id].status \in {"Passed", "Failed"}
            /\ proposals'[id].totalDeposit = proposals[id].totalDeposit
            /\ proposals'[id].content = proposals[id].content
        BY <2>2, <3>1, FinishDeposits
      <3>3. proposals[id].content.kind = "update" /\ proposals[id].status \notin Final
        BY <2>2, <3>1 DEF EndsVoting, Voting, Final
      <3>4. UNCHANGED <<deposits, balances, govBalance>>
        BY <2>2 DEF bankVars
      <3>5. QED
        BY <3>2, <3>3, <3>4, KeptDeposits DEF OnlyChanges
    <2>3. QED
      BY <1>9, <2>1, <2>2 DEF ProcessSecurityVote
  <1>10. CASE SkipSecurityVote(e)
    <2>1. UNCHANGED <<proposals, deposits, balances, govBalance>>
      BY <1>10 DEF SkipSecurityVote, bankVars
    <2>2. QED
      BY <2>1, KeptDeposits
  <1>11. QED
    BY <1>1, <1>3, <1>7, <1>8, <1>9, <1>10

\* DepositInv holds in every state.
LEMMA GovDepositInv == Spec => []DepositInv
  <1>1. Init => DepositInv
    <2> SUFFICES ASSUME Init PROVE DepositInv
      OBVIOUS
    <2>1. deposits = <<>> /\ DOMAIN deposits = {} /\ DOMAIN proposals = {} /\ govBalance = 0
          /\ balances = [a \in Accounts |-> InitBalance]
      BY DEF Init
    <2>2. Deposited(DOMAIN deposits) = 0
      BY <2>1, SumEmpty DEF Deposited, SumOver
    <2>3. QED
      BY <2>1, <2>2, GovAssumption DEF DepositInv, DepositsHeld, DepositsLeftByUpdates, IsStore
  <1>2. ASSUME ProposalInv, DepositInv, [Next]_vars PROVE DepositInv'
    <2>1. CASE UNCHANGED <<proposals, deposits, balances, govBalance>>
      BY <1>2, <2>1, KeptDeposits
    <2>2. CASE OtherMsg \/ UNCHANGED vars
      BY <2>1, <2>2 DEF OtherMsg, vars, proposalVars, bankVars
    <2>3. CASE StartEndBlocker \/ NextLoop \/ (\E elapsed \in BlockTimes : NextBlock(elapsed))
      BY <2>1, <2>3 DEF StartEndBlocker, NextLoop, NextBlock, proposalVars, bankVars
    <2>4. QED
      BY <1>2, <2>2, <2>3, GovMsgDeposits, EndBlockerDeposits DEF Next, Block
  <1>3. QED
    BY <1>1, <1>2, GovProposalInv, PTL DEF Spec

\* The coins of the module account are the deposits on record, and a proposal's total
\* is what its depositors would get back.
THEOREM GovDepositsHeld == Spec => []DepositsHeld
  <1>1. DepositInv => DepositsHeld
    BY DEF DepositInv
  <1>2. QED
    BY <1>1, GovDepositInv, PTL

\* Deposits outlive their proposal only when the certifiers decide a certifier update
\* before the end of their round.
THEOREM GovDepositsLeftByUpdates == Spec => []DepositsLeftByUpdates
  <1>1. DepositInv => DepositsLeftByUpdates
    BY DEF DepositInv
  <1>2. QED
    BY <1>1, GovDepositInv, PTL

\* The stores of x/gov and x/cert hold records of their types.
THEOREM GovTypeOK == Spec => []TypeOK
  <1>1. ASSUME ProposalInv, CertInv, VotesInv, DepositInv PROVE TypeOK
    <2>1. govBalance \in Nat
      BY <1>1, DepositsFinite
    <2>2. inactiveQueue \cup activeQueue \cup todo \subseteq Nat \X Ids
      BY <1>1 DEF ProposalInv, QueuesByEntry
    <2>3. QED
      BY <1>1, <2>1, <2>2 DEF TypeOK, ProposalInv, CertInv, VotesInv, DepositInv, Ids
  <1>2. QED
    BY <1>1, GovProposalInv, GovCertInv, GovVotesInv, GovDepositInv, PTL

-----------------------------------------------------------------------------
(* Voting power.  A vote is counted with shares of validators, which are   *)
(* rounded decimals.                                                       *)

\* Rounding a share up adds less than one unit for every token.
LEMMA ShareRounding ==
  ASSUME NEW n \in Nat, NEW t \in Nat, t > 0
  PROVE  LET share == QuoDec(Dec(n), Dec(t))
         IN  share \in Nat /\ share * t <= Precision * n + t
  <1>1. PICK share : share = QuoDec(Dec(n), Dec(t))
    OBVIOUS
  <1>2. share \in Nat /\ 2 * (share * t) <= 2 * (n * Precision) + t
    BY <1>1, QuoDecHalf
  <1>3. PICK u \in Nat, v \in Nat : u = share * t /\ v = n * Precision /\ v = Precision * n
    BY <1>2, PrecisionAssumption
  <1>4. QED
    BY <1>1, <1>2, <1>3

\* What a validator's delegators have delegated to it.
LEMMA TokensOf ==
  ASSUME NEW v \in Validators, NEW S \in SUBSET Accounts
  PROVE  LET part == SumFunctionOnSet([a \in S |-> Delegation[<<a, v>>]], S)
         IN  /\ Tokens(v) \in Nat /\ Tokens(v) > 0
             /\ part \in Nat /\ part <= Tokens(v)
  <1> DEFINE f == [a \in Accounts |-> Delegation[<<a, v>>]]
             g == [a \in S |-> Delegation[<<a, v>>]]
  <1>1. IsFiniteSet(Accounts) /\ IsFiniteSet(S)
    BY CertAssumption, FS_Subset
  <1>2. /\ \A a \in Accounts : f[a] \in Nat /\ f[a] = Delegation[<<a, v>>]
        /\ \A a \in S : g[a] = f[a]
    BY GovAssumption
  <1>3. PICK b \in Accounts : Delegation[<<b, v>>] > 0
    BY GovAssumption
  <1>4. Tokens(v) = SumFunctionOnSet(f, Accounts)
    BY DEF Tokens, SumOver
  <1> HIDE DEF f, g
  <1>5. /\ SumFunctionOnSet(f, Accounts) = f[b] + SumFunctionOnSet(f, Accounts \ {b})
        /\ SumFunctionOnSet(f, Accounts \ {b}) \in Nat
    <2>1. IsFiniteSet(Accounts \ {b})
      BY <1>1, FS_Difference
    <2>2. QED
      BY <1>1, <1>2, <2>1, SumRemove, SumNat
  <1>6. /\ SumFunctionOnSet(f, Accounts)
             = SumFunctionOnSet(f, Accounts \ S) + SumFunctionOnSet(f, S)
        /\ SumFunctionOnSet(f, Accounts \ S) \in Nat /\ SumFunctionOnSet(f, S) \in Nat
    BY <1>1, <1>2, SumDifference
  <1>7. SumFunctionOnSet(g, S) = SumFunctionOnSet(f, S)
    BY <1>1, <1>2, SumEqual
  <1>8. f[b] > 0 /\ f[b] \in Nat
    BY <1>2, <1>3
  <1>9. /\ Tokens(v) \in Nat /\ Tokens(v) > 0
        /\ SumFunctionOnSet(g, S) \in Nat /\ SumFunctionOnSet(g, S) <= Tokens(v)
    BY <1>4, <1>5, <1>6, <1>7, <1>8
  <1>10. QED
    BY <1>9 DEF g

\* The power of an amount of a validator's tokens.
LEMMA PowerBound ==
  ASSUME NEW v \in Validators, NEW amount \in Nat
  PROVE  Power(amount, v) \in Nat /\ Power(amount, v) <= Precision * amount + Tokens(v)
  <1>1. Tokens(v) \in Nat /\ Tokens(v) > 0
    BY TokensOf
  <1> DEFINE t == Tokens(v)
             share == QuoDec(Dec(amount), Dec(t))
  <1> HIDE DEF t
  <1>2. share \in Nat /\ share * t <= Precision * amount + t
    BY <1>1, ShareRounding DEF t
  <1>3. Power(amount, v) = share * t
    BY DEF Power, MulInt, t
  <1> HIDE DEF share
  <1>4. share * t \in Nat
    BY <1>1, <1>2 DEF t
  <1>5. QED
    BY <1>2, <1>3, <1>4 DEF t

\* The bound on the power of all voters, in a state the invariants describe.
LEMMA VotingPowerBound ==
  ASSUME CertInv, VotesInv, NEW id
  PROVE  TotalVotingPower(id) <= Dec(TotalBondedTokens)
                                   + (1 + Cardinality(Delegators(id))) * TotalBondedTokens
  <1> DEFINE V == Voters(id)
             D == Delegators(id)
             B == bonded
             n == Cardinality(D)
             T(v) == Tokens(v)
             ded(v) == SumFunctionOnSet([a \in D |-> Delegation[<<a, v>>]], D)
             VP == [a \in V |-> VotingPower(id, a)]
             F == [a \in D |-> [v \in B |-> Power(Delegation[<<a, v>>], v)]]
             C == [v \in B |-> SumFunctionOnSet([a \in D |-> F[a][v]], D)]
             Q == [v \in B |-> ValidatorPower(id, v)]
             W == [v \in B |-> C[v] + Q[v]]
             TB == [v \in B |-> Tokens(v)]
  <1>1. /\ V \subseteq Accounts /\ D \subseteq V /\ B \subseteq Validators
        /\ Validators \subseteq Accounts
        /\ \A a \in V : a \in D <=> a \notin B
    BY CertAssumption DEF CertInv, CertTypeOK, VotesInv, IsStore, Voters, VotesOf, Delegators
  <1>2. IsFiniteSet(V) /\ IsFiniteSet(D) /\ IsFiniteSet(B) /\ n \in Nat
    <2>1. IsFiniteSet(Accounts)
      BY CertAssumption
    <2>2. V \in SUBSET Accounts /\ D \in SUBSET Accounts /\ B \in SUBSET Accounts
      BY <1>1
    <2>3. IsFiniteSet(V) /\ IsFiniteSet(D) /\ IsFiniteSet(B)
      BY <2>1, <2>2, FS_Subset
    <2>4. QED
      BY <2>3, FS_CardinalityType
  <1>3. \A v \in B : T(v) \in Nat /\ ded(v) \in Nat /\ ded(v) <= T(v)
    BY <1>1, TokensOf
  <1>4. \A v \in B, a \in Accounts : Delegation[<<a, v>>] \in Nat
    BY <1>1, GovAssumption
  <1>5. \A v \in B, a \in D :
          /\ F[a][v] = Power(Delegation[<<a, v>>], v) /\ F[a][v] \in Nat
          /\ F[a][v] <= Precision * Delegation[<<a, v>>] + T(v)
    BY <1>1, <1>4, PowerBound
  <1>6. F \in [D -> [B -> Nat]]
    BY <1>5
  <1>7. \A v \in B : Q[v] = Power(T(v) - ded(v), v) /\ Q[v] \in Nat
                       /\ Q[v] <= Precision * (T(v) - ded(v)) + T(v)
    <2>1. ASSUME NEW v \in B PROVE T(v) - ded(v) \in Nat /\ v \in Validators
      BY <1>1, <1>3
    <2>2. \A v \in B : Q[v] = Power(T(v) - ded(v), v)
      BY DEF ValidatorPower, SumOver
    <2> HIDE DEF T, ded, Q
    <2>3. QED
      BY <2>1, <2>2, PowerBound DEF T
  <1>8. \A v \in B : C[v] \in Nat /\ C[v] <= Precision * ded(v) + n * T(v)
    <2> SUFFICES ASSUME NEW v \in B
                 PROVE  C[v] \in Nat /\ C[v] <= Precision * ded(v) + n * T(v)
      OBVIOUS
    <2> DEFINE f == [a \in D |-> F[a][v]]
               g == [a \in D |-> Delegation[<<a, v>>]]
    <2>1. \A a \in D : f[a] \in Nat /\ g[a] \in Nat /\ f[a] <= Precision * g[a] + T(v)
      BY <1>1, <1>4, <1>5
    <2>2. C[v] = SumFunctionOnSet(f, D) /\ ded(v) = SumFunctionOnSet(g, D)
      OBVIOUS
    <2> HIDE DEF f, g, T, C, ded, D
    <2>3. SumFunctionOnSet(f, D) <= Precision * SumFunctionOnSet(g, D) + n * T(v)
      BY <1>2, <1>3, <2>1, SumBounded, PrecisionAssumption
    <2>4. SumFunctionOnSet(f, D) \in Nat
      BY <1>2, <2>1, SumNat
    <2>5. QED
      BY <2>2, <2>3, <2>4
  <1>9. \A v \in B : VP[v] = Q[v] \/ v \notin V
    BY DEF VotingPower
  <1>10. \A a \in D : VP[a] = SumFunctionOnSet(F[a], B)
    BY <1>1 DEF VotingPower, DelegatorPower, SumOver
  <1>11. \A a \in V : VP[a] \in Nat
    <2>1. \A a \in D : VP[a] \in Nat
      BY <1>2, <1>6, <1>10, SumNat
    <2>2. \A a \in V : a \notin D => VP[a] \in Nat
      BY <1>1, <1>7, <1>9
    <2>3. QED
      BY <2>1, <2>2
  <1>12. \A v \in B : W[v] = C[v] + Q[v] /\ TB[v] = T(v)
    OBVIOUS
  <1>13. TotalBondedTokens = SumFunctionOnSet(TB, B)
    BY DEF TotalBondedTokens, SumOver
  <1>14. TotalVotingPower(id) = SumFunctionOnSet(VP, V)
    BY DEF TotalVotingPower, PowerOf, SumOver
  <1>15. SumFunctionOnSet([a \in D |-> SumFunctionOnSet(F[a], B)], D) = SumFunctionOnSet(C, B)
    <2> HIDE DEF F, D
    <2> QED BY <1>2, <1>6, SumInterchange DEF C
  <1> HIDE DEF VP, F, C, Q, W, TB, V, D, ded, T
  <1>16. /\ SumFunctionOnSet(VP, V) = SumFunctionOnSet(VP, V \ D) + SumFunctionOnSet(VP, D)
         /\ SumFunctionOnSet(VP, V \ D) \in Nat /\ SumFunctionOnSet(VP, D) \in Nat
    BY <1>1, <1>2, <1>11, SumDifference
  <1>17. SumFunctionOnSet(VP, D) = SumFunctionOnSet(C, B)
    <2>1. SumFunctionOnSet(VP, D)
            = SumFunctionOnSet([a \in D |-> SumFunctionOnSet(F[a], B)], D)
      BY <1>2, <1>10, SumEqual
    <2>2. QED
      BY <1>15, <2>1
  <1>18. SumFunctionOnSet(VP, V \ D) <= SumFunctionOnSet(Q, B)
    <2>1. V \ D \in SUBSET B
      BY <1>1
    <2>2. /\ SumFunctionOnSet(Q, B)
               = SumFunctionOnSet(Q, B \ (V \ D)) + SumFunctionOnSet(Q, V \ D)
          /\ SumFunctionOnSet(Q, B \ (V \ D)) \in Nat /\ SumFunctionOnSet(Q, V \ D) \in Nat
      BY <1>2, <1>7, <2>1, SumDifference
    <2>3. SumFunctionOnSet(VP, V \ D) = SumFunctionOnSet(Q, V \ D)
      <3>1. IsFiniteSet(V \ D)
        BY <1>2, FS_Difference
      <3>2. \A v \in V \ D : VP[v] = Q[v]
        BY <1>9, <2>1
      <3>3. QED
        BY <3>1, <3>2, SumEqual
    <2>4. QED
      BY <2>2, <2>3
  <1>19. SumFunctionOnSet(W, B) = SumFunctionOnSet(C, B) + SumFunctionOnSet(Q, B)
    BY <1>2, <1>7, <1>8, <1>12, SumPlus
  <1>20. \A v \in B : W[v] \in Nat /\ TB[v] \in Nat /\ W[v] <= (Precision + n + 1) * TB[v] + 0
    <2> SUFFICES ASSUME NEW v \in B
                 PROVE  /\ W[v] \in Nat /\ TB[v] \in Nat
                        /\ W[v] <= (Precision + n + 1) * TB[v] + 0
      OBVIOUS
    <2> DEFINE t == T(v)
               d == ded(v)
    <2> HIDE DEF t, d, n
    <2>1. t \in Nat /\ d \in Nat /\ d <= t /\ Precision \in Nat /\ n \in Nat
      BY <1>2, <1>3, PrecisionAssumption DEF t, d
    <2>2. /\ C[v] \in Nat /\ C[v] <= Precision * d + n * t
          /\ Q[v] \in Nat /\ Q[v] <= Precision * (t - d) + t
      BY <1>7, <1>8 DEF t, d
    <2>3. /\ Precision * d + n * t + (Precision * (t - d) + t) = (Precision + n + 1) * t
          /\ Precision * d \in Nat /\ n * t \in Nat /\ Precision * (t - d) \in Nat
      BY <2>1
    <2>4. W[v] = C[v] + Q[v] /\ TB[v] = t
      BY <1>12 DEF t
    <2>5. C[v] + Q[v] <= (Precision + n + 1) * t
      BY <2>1, <2>2, <2>3
    <2>6. (Precision + n + 1) * t \in Nat
      BY <2>1
    <2>7. QED
      BY <2>1, <2>2, <2>4, <2>5, <2>6
  <1>21. SumFunctionOnSet(TB, B) \in Nat /\ Cardinality(B) \in Nat
    BY <1>2, <1>20, SumNat, FS_CardinalityType
  <1>22. SumFunctionOnSet(W, B) <= (Precision + n + 1) * SumFunctionOnSet(TB, B)
                                     + Cardinality(B) * 0
    <2>1. Precision + n + 1 \in Nat /\ 0 \in Nat
      BY <1>2, PrecisionAssumption
    <2> DEFINE c == Precision + n + 1
    <2> HIDE DEF c, B
    <2>2. c \in Nat /\ \A v \in B : W[v] \in Nat /\ TB[v] \in Nat /\ W[v] <= c * TB[v] + 0
      BY <1>20, <2>1 DEF c
    <2>3. SumFunctionOnSet(W, B) <= c * SumFunctionOnSet(TB, B) + Cardinality(B) * 0
      BY <1>2, <2>1, <2>2, SumBounded
    <2>4. QED
      BY <2>3 DEF c
  <1>23. SumFunctionOnSet(C, B) \in Nat /\ SumFunctionOnSet(Q, B) \in Nat
    BY <1>2, <1>7, <1>8, SumNat
  <1>24. TotalVotingPower(id) <= (Precision + n + 1) * TotalBondedTokens
    <2> DEFINE total == TotalBondedTokens
    <2>1. TotalVotingPower(id) <= SumFunctionOnSet(W, B)
      BY <1>14, <1>16, <1>17, <1>18, <1>19, <1>23
    <2>2. SumFunctionOnSet(W, B) <= (Precision + n + 1) * total
      <3> DEFINE x == (Precision + n + 1) * SumFunctionOnSet(TB, B)
      <3>1. Cardinality(B) * 0 = 0
        BY <1>21
      <3>2. x \in Nat
        <4> DEFINE c == Precision + n + 1
                   s == SumFunctionOnSet(TB, B)
        <4>1. c \in Nat /\ s \in Nat
          BY <1>2, <1>21, PrecisionAssumption
        <4> HIDE DEF c, s
        <4>2. c * s \in Nat
          BY <4>1
        <4>3. QED
          BY <4>2 DEF c, s
      <3> HIDE DEF x
      <3>3. SumFunctionOnSet(W, B) <= x
        BY <1>22, <3>1, <3>2 DEF x
      <3>4. QED
        BY <1>13, <3>3 DEF x
    <2>3. /\ TotalVotingPower(id) \in Nat /\ SumFunctionOnSet(W, B) \in Nat
          /\ (Precision + n + 1) * total \in Nat
      <3>1. total \in Nat /\ Precision + n + 1 \in Nat
        BY <1>2, <1>13, <1>21, PrecisionAssumption
      <3>2. (Precision + n + 1) * total \in Nat
        <4> DEFINE c == Precision + n + 1
        <4> HIDE DEF c, total
        <4> QED BY <3>1 DEF c
      <3>3. QED
        BY <1>14, <1>16, <1>19, <1>23, <3>2
    <2>4. QED
      BY <2>1, <2>2, <2>3
  <1>25. (Precision + n + 1) * TotalBondedTokens
           = Dec(TotalBondedTokens) + (1 + n) * TotalBondedTokens
    <2> DEFINE total == TotalBondedTokens
    <2>1. total \in Nat /\ n \in Nat /\ Precision \in Nat
      BY <1>2, <1>13, <1>21, PrecisionAssumption
    <2> HIDE DEF total, n
    <2>2. (Precision + n + 1) * total = total * Precision + (1 + n) * total
      BY <2>1
    <2>3. QED
      BY <2>2 DEF total, Dec
  <1>26. QED
    BY <1>24, <1>25 DEF D

\* No stake votes twice, for itself and through its validator.
THEOREM GovNoStakeVotesTwice == Spec => []NoStakeVotesTwice
  <1>1. CertInv /\ VotesInv => NoStakeVotesTwice
    BY VotingPowerBound DEF NoStakeVotesTwice
  <1>2. QED
    BY <1>1, GovCertInv, GovVotesInv, PTL
=============================================================================
