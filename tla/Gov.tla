--------------------------------- MODULE Gov ---------------------------------
(***************************************************************************)
(* x/gov, together with the certifiers and validators of x/cert.           *)
(* A proposal collects a deposit, unless a member of the council (a        *)
(* certifier or a bonded validator) makes it; a software upgrade, a        *)
(* certifier update and a shield claim are then voted on by the            *)
(* certifiers, one head one vote; other proposals, and the second round of *)
(* these, are voted on by stake.  The EndBlocker goes through the inactive *)
(* queue, the active queue and the proposals in their certifier round, in  *)
(* this order and each by end time and id; here it handles one proposal    *)
(* per step.                                                               *)
(*                                                                         *)
(* What x/shield and x/upgrade do with a proposal is outside of this       *)
(* module: their handlers may fail or not.  Shares are tokens: a validator *)
(* is jailed, but no delegation changes.                                   *)
(***************************************************************************)
EXTENDS Cert, Decimal

CONSTANTS
  Delegation,             \* <<account, validator>> -> tokens delegated
  ProposalContents,       \* the contents of proposals
  VoteOptions,            \* options in messages
  DepositInputs,          \* deposits in messages
  MinInitialDeposit, MinDeposit, MinClaimDeposit,
  MaxDepositPeriod, VotingPeriod,
  DefaultTally, StakeTally, SecurityTallyParams,    \* TallyParams
  InitBalance,            \* of every account at genesis
  BlockTimes,             \* times between two blocks
  MaxTime, MaxProposals   \* bounds of a behaviour

Kinds == {"text", "upgrade", "update", "claim"}

Content == [kind : Kinds, add : BOOLEAN, certifier : Accounts, alias : Aliases \cup {NoAlias}]

Options == {"Yes", "Abstain", "No", "NoWithVeto"}

TallyParams == [quorum : 0..Precision, threshold : 1..Precision, veto : 1..Precision]

ASSUME GovAssumption ==
  /\ Delegation \in [Accounts \X Validators -> Nat]
  /\ \A v \in Validators : \E a \in Accounts : Delegation[<<a, v>>] > 0   \* else x/staking unbonds it
  /\ ProposalContents \subseteq Content
  /\ VoteOptions \subseteq Options
  /\ DepositInputs \subseteq Nat
  /\ MinInitialDeposit \in Nat /\ MinDeposit \in Nat /\ MinClaimDeposit \in Nat
  /\ MaxDepositPeriod \in Nat \ {0} /\ VotingPeriod \in Nat \ {0}
  /\ {DefaultTally, StakeTally, SecurityTallyParams} \subseteq TallyParams
  /\ InitBalance \in Nat /\ BlockTimes \subseteq Nat \ {0}
  /\ MaxTime \in Nat /\ MaxProposals \in Nat

VARIABLES
  now,                        \* ctx.BlockTime()
  phase,                      \* "deliver", or where the EndBlocker is
  todo,                       \* what its iterator has not visited yet
  proposals, nextProposalID,
  inactiveQueue, activeQueue, \* sets of <<end time, id>>
  deposits,                   \* <<id, depositor>> -> amount
  votes,                      \* <<id, voter>> -> option
  balances, govBalance

proposalVars == <<proposals, nextProposalID, inactiveQueue, activeQueue>>
bankVars == <<balances, govBalance>>

vars == <<now, phase, todo, proposalVars, deposits, votes, bankVars, certVars>>

Proposal ==
  [content : Content, status : {"DepositPeriod", "CertifierVotingPeriod",
     "ValidatorVotingPeriod", "Passed", "Rejected", "Failed"},
   council : BOOLEAN, totalDeposit : Nat, depositEnd : Nat, votingEnd : Nat]

NewProposal(content, council) ==
  [content |-> content, status |-> "DepositPeriod", council |-> council,
   totalDeposit |-> 0, depositEnd |-> now + MaxDepositPeriod, votingEnd |-> 0]

SumOver(f, S) == SumFunctionOnSet(f, S)

DeliverTx == phase = "deliver"

-----------------------------------------------------------------------------
(* Proposals and deposits.                                                 *)

IsCouncilMember(a) == a \in bonded \/ IsCertifier(a)

\* Mutant: only certifier updates are voted on by the certifiers.
HasSecurityVotingUpdates(p) == p.content.kind = "update"

HasSecurityVoting(p) == p.content.kind # "text"

InSecurityRound(p) == p.status = "CertifierVotingPeriod"

\* The proposal after ActivateVotingPeriod.
Activated(p) ==
  IF HasSecurityVoting(p) /\ ~ InSecurityRound(p)
  THEN [p EXCEPT !.status = "CertifierVotingPeriod", !.votingEnd = now + VotingPeriod]
  ELSE [p EXCEPT !.status = "ValidatorVotingPeriod", !.votingEnd = now + VotingPeriod,
                 !.depositEnd = IF InSecurityRound(p) THEN @ ELSE now]

\* Mutant: the entry of the first round stays in the active queue.
ActivateVotingPeriodTwice(id, p) ==
  /\ proposals' = StoreSet(proposals, id, Activated(p))
  /\ inactiveQueue' = inactiveQueue \ {<<p.depositEnd, id>>}
  /\ activeQueue' = activeQueue \cup {<<now + VotingPeriod, id>>}

ActivateVotingPeriod(id, p) ==
  /\ proposals' = StoreSet(proposals, id, Activated(p))
  /\ inactiveQueue' = inactiveQueue \ {<<p.depositEnd, id>>}
  /\ activeQueue' = (IF InSecurityRound(p) THEN activeQueue \ {<<p.votingEnd, id>>} ELSE activeQueue)
                      \cup {<<now + VotingPeriod, id>>}

\* Mutant: the record of an earlier deposit of the depositor is replaced.
UpsertDepositReplaces(a, id, amount) == StoreSet(deposits, <<id, a>>, amount)

\* upsertDeposit
UpsertDeposit(a, id, amount) ==
  StoreSet(deposits, <<id, a>>,
           amount + (IF <<id, a>> \in DOMAIN deposits THEN deposits[<<id, a>>] ELSE 0))

\* SendCoinsFromAccountToModule returns no error.
CanPay(a, amount) == balances[a] >= amount

\* AddDeposit to the proposal p, which is in its deposit period.
AddDeposit(a, id, p, amount) ==
  LET q == [p EXCEPT !.totalDeposit = @ + amount]
  IN  /\ CanPay(a, amount)
      /\ balances' = [balances EXCEPT ![a] = @ - amount]
      /\ govBalance' = govBalance + amount
      /\ deposits' = UpsertDeposit(a, id, amount)
      /\ IF q.totalDeposit >= MinDeposit \/ q.content.kind = "claim"
         THEN ActivateVotingPeriod(id, q)
         ELSE /\ proposals' = StoreSet(proposals, id, q)
              /\ inactiveQueue' = inactiveQueue \cup {<<q.depositEnd, id>>}
              /\ UNCHANGED activeQueue

\* validateProposalByType, as far as it is about x/cert and deposits.
ValidContent(c, deposit) ==
  CASE c.kind = "update" -> c.alias # NoAlias => ~ HasCertifierAlias(c.alias)
    [] c.kind = "claim"  -> deposit >= MinClaimDeposit
    [] OTHER             -> TRUE

\* The bound on time: the proposal ends before the run does.
EndsInRun ==
  now + MaxDepositPeriod + 2 * VotingPeriod + 3 * (Max(BlockTimes) - 1) <= MaxTime

SubmitProposal(a, c, deposit) ==
  LET id == nextProposalID
      p == NewProposal(c, IsCouncilMember(a))
  IN  /\ DeliverTx
      /\ id <= MaxProposals /\ EndsInRun
      /\ deposit >= MinInitialDeposit \/ IsCouncilMember(a)
      /\ ValidContent(c, deposit)
      /\ nextProposalID' = id + 1
      /\ IF p.council
         THEN ActivateVotingPeriod(id, p) /\ UNCHANGED <<deposits, bankVars>>
         ELSE AddDeposit(a, id, p, deposit)
      /\ UNCHANGED <<now, phase, todo, votes, certVars>>

Deposit(a, id, amount) ==
  /\ DeliverTx
  /\ id \in DOMAIN proposals
  /\ proposals[id].status = "DepositPeriod" /\ ~ proposals[id].council
  /\ AddDeposit(a, id, proposals[id], amount)
  /\ UNCHANGED <<now, phase, todo, nextProposalID, votes, certVars>>

DepositsOf(id) == {k \in DOMAIN deposits : k[1] = id}

Deposited(keys) == SumOver(deposits, keys)

\* RefundDepositsByProposalID
RefundDeposits(id) ==
  /\ balances' = [a \in Accounts |->
       balances[a] + Deposited({k \in DepositsOf(id) : k[2] = a})]
  /\ govBalance' = govBalance - Deposited(DepositsOf(id))
  /\ deposits' = StoreDelete(deposits, DepositsOf(id))

\* DeleteDepositsByProposalID
DeleteDeposits(id) ==
  /\ govBalance' = govBalance - Deposited(DepositsOf(id))
  /\ deposits' = StoreDelete(deposits, DepositsOf(id))
  /\ UNCHANGED balances

-----------------------------------------------------------------------------
(* Votes and tallies.                                                      *)

MayVote(a, p, option) ==
  \/ InSecurityRound(p) /\ IsCertifier(a) /\ option \in {"Yes", "No"}
  \/ /\ p.status = "ValidatorVotingPeriod"
     /\ p.content.kind = "claim" => IsCertifiedIdentity(a)

AddVote(a, id, option) ==
  /\ DeliverTx
  /\ id \in DOMAIN proposals
  /\ MayVote(a, proposals[id], option)
  /\ votes' = StoreSet(votes, <<id, a>>, option)
  /\ UNCHANGED <<now, phase, todo, proposalVars, deposits, bankVars, certVars>>

VotesOf(id) == {k \in DOMAIN votes : k[1] = id}

Voters(id) == {k[2] : k \in VotesOf(id)}

VotersFor(id, option) == {a \in Voters(id) : votes[<<id, a>>] = option}

\* passAndVetoSecurityResult: heads, also those of voters that are certifiers
\* no more, against the number of certifiers.
SecurityPass(id) ==
  LET heads == Cardinality(Voters(id))
      yes == Cardinality(VotersFor(id, "Yes"))
      n == Cardinality(DOMAIN certifiers)
  IN  /\ n # 0 /\ heads # 0
      /\ QuoDec(Dec(heads), Dec(n)) >= SecurityTallyParams.quorum
      /\ QuoDec(Dec(yes), Dec(heads)) > SecurityTallyParams.threshold

\* Mutant: the certifiers' approval is enough for every proposal.
EndsVotingOnPass(p, pass) == pass \/ p.content.kind # "update"

\* SecurityTally: one round is enough for a certifier update.
EndsVoting(p, pass) == pass <=> (p.content.kind = "update")

Tokens(v) == SumOver([a \in Accounts |-> Delegation[<<a, v>>]], Accounts)

TotalBondedTokens == SumOver([v \in bonded |-> Tokens(v)], bonded)

\* The part amount of the tokens of v, as a share and back.
Power(amount, v) == MulInt(QuoDec(Dec(amount), Dec(Tokens(v))), Tokens(v))

\* Those who vote with their own delegations.
Delegators(id) == Voters(id) \ bonded

DelegatorPower(a) == SumOver([v \in bonded |-> Power(Delegation[<<a, v>>], v)], bonded)

\* Mutant: the validator also votes with what its delegators vote with.
ValidatorPowerWhole(id, v) == Power(Tokens(v), v)

\* What v votes with: all its delegations but those of delegators who vote.
ValidatorPower(id, v) ==
  Power(Tokens(v) - SumOver([a \in Delegators(id) |-> Delegation[<<a, v>>]], Delegators(id)), v)

VotingPower(id, a) == IF a \in bonded THEN ValidatorPower(id, a) ELSE DelegatorPower(a)

\* results[option] of Tally, and the total voting power.
PowerOf(id, voters) == SumOver([a \in voters |-> VotingPower(id, a)], voters)

Result(id, option) == PowerOf(id, VotersFor(id, option))

TotalVotingPower(id) == PowerOf(id, Voters(id))

\* What an account has bonded; tokens of a validator that is not bonded do
\* not count.
BondedBy(a) == SumOver([v \in bonded |-> TruncateInt(Power(Delegation[<<a, v>>], v))], bonded)

\* One term for every identity certificate.
TotalBondedByCertifiedIdentities ==
  SumOver([id \in IdentityCertificates |-> BondedBy(id[2])], IdentityCertificates)

Electorate(p) ==
  IF p.content.kind = "claim" THEN TotalBondedByCertifiedIdentities ELSE TotalBondedTokens

TallyParamsOf(p) == IF p.content.kind = "update" THEN StakeTally ELSE DefaultTally

\* passAndVetoStakeResult and its variant for claims, up to the veto.
Decided(id) ==
  LET p == proposals[id]
      total == TotalVotingPower(id)
  IN  /\ Electorate(p) # 0
      /\ QuoDec(total, Dec(Electorate(p))) >= TallyParamsOf(p).quorum
      /\ total # Result(id, "Abstain")

Veto(id) ==
  /\ Decided(id)
  /\ QuoDec(Result(id, "NoWithVeto"), TotalVotingPower(id)) > TallyParamsOf(proposals[id]).veto

StakePass(id) ==
  /\ Decided(id) /\ ~ Veto(id)
  /\ QuoDec(Result(id, "Yes"), TotalVotingPower(id) - Result(id, "Abstain"))
       > TallyParamsOf(proposals[id]).threshold

-----------------------------------------------------------------------------
(* The EndBlocker.                                                         *)

IsFirst(e, entries) ==
  /\ e \in entries
  /\ \A f \in entries : e[1] < f[1] \/ (e[1] = f[1] /\ e[2] <= f[2])

\* The iterator of the loop that the EndBlocker is in moves on to entry e.
Visit(loop, e) ==
  /\ phase = loop
  /\ IsFirst(e, todo)
  /\ todo' = todo \ {e}
  /\ UNCHANGED <<now, phase, nextProposalID>>

\* removeInactiveProposals
RemoveInactiveProposal(e) ==
  LET id == e[2]
  IN  /\ Visit("inactive", e)
      /\ proposals' = StoreDelete(proposals, {id})
      /\ inactiveQueue' = inactiveQueue \ {<<proposals[id].depositEnd, id>>}
      /\ activeQueue' = activeQueue \ {<<proposals[id].votingEnd, id>>}
      /\ RefundDeposits(id)
      /\ UNCHANGED <<votes, certVars>>

\* Mutant: the votes of the certifiers stay.
NextRoundWithVotes(id) ==
  /\ ActivateVotingPeriod(id, proposals[id])
  /\ UNCHANGED <<votes, deposits, bankVars, certVars>>

\* The validators vote next.
NextRound(id) ==
  /\ votes' = StoreDelete(votes, VotesOf(id))
  /\ ActivateVotingPeriod(id, proposals[id])
  /\ UNCHANGED <<deposits, bankVars, certVars>>

\* Whether the handler of a proposal may return an error.
HandlerOutcomes(c) ==
  CASE c.kind = "text"   -> {TRUE}
    [] c.kind = "update" -> {CertifierUpdateSucceeds(c)}
    [] OTHER             -> BOOLEAN

Execute(c, success) ==
  IF success /\ c.kind = "update" THEN HandleCertifierUpdateProposal(c)
  ELSE UNCHANGED certVars

\* The proposal is executed if it passed, and gets its final status.
Finish(id, pass) ==
  LET p == proposals[id]
      Close(status) ==
        /\ proposals' = [proposals EXCEPT ![id].status = status]
        /\ activeQueue' = activeQueue \ {<<p.votingEnd, id>>}
        /\ UNCHANGED inactiveQueue
  IN  \/ /\ pass
         /\ \E success \in HandlerOutcomes(p.content) :
              /\ Execute(p.content, success)
              /\ Close(IF success THEN "Passed" ELSE "Failed")
      \/ /\ ~ pass
         /\ Close("Rejected")
         /\ UNCHANGED certVars

\* processActiveProposal at the end of the certifier round.
EndSecurityRound(e) ==
  LET id == e[2]
      pass == SecurityPass(id)
  IN  /\ Visit("active", e)
      /\ InSecurityRound(proposals[id])
      /\ \/ ~ EndsVoting(proposals[id], pass) /\ NextRound(id)
         \/ /\ EndsVoting(proposals[id], pass)
            /\ RefundDeposits(id)
            /\ Finish(id, pass)
            /\ UNCHANGED votes

\* processActiveProposal at the end of the validator round.
EndStakeRound(e) ==
  LET id == e[2]
  IN  /\ Visit("active", e)
      /\ ~ InSecurityRound(proposals[id])
      /\ votes' = StoreDelete(votes, VotesOf(id))
      /\ IF Veto(id) THEN DeleteDeposits(id) ELSE RefundDeposits(id)
      /\ Finish(id, StakePass(id))

\* processSecurityVote: the certifiers have agreed before the end.  Deposits
\* and votes stay when that decides the proposal.
ProcessSecurityVote(e) ==
  LET id == e[2]
  IN  /\ Visit("security", e)
      /\ InSecurityRound(proposals[id]) /\ SecurityPass(id)
      /\ \/ ~ EndsVoting(proposals[id], TRUE) /\ NextRound(id)
         \/ /\ EndsVoting(proposals[id], TRUE)
            /\ Finish(id, TRUE)
            /\ UNCHANGED <<deposits, votes, bankVars>>

\* It does nothing to the other active proposals.
SkipSecurityVote(e) ==
  /\ Visit("security", e)
  /\ ~ (InSecurityRound(proposals[e[2]]) /\ SecurityPass(e[2]))
  /\ UNCHANGED <<proposals, inactiveQueue, activeQueue, deposits, votes, bankVars, certVars>>

\* The entries up to the block time.
Due(queue) == {e \in queue : e[1] <= now}

\* After the last transaction x/staking settles the validator set; then the
\* three loops of the EndBlocker follow each other.
StartEndBlocker ==
  /\ DeliverTx
  /\ bonded' = Validators \ jailed
  /\ phase' = "inactive"
  /\ todo' = Due(inactiveQueue)
  /\ UNCHANGED <<now, proposalVars, deposits, votes, bankVars, certifiers, aliases,
                 certificates, certified, platforms, jailed, tombstoned>>

NextLoop ==
  /\ todo = {}
  /\ \/ phase = "inactive" /\ phase' = "active" /\ todo' = Due(activeQueue)
     \/ phase = "active" /\ phase' = "security" /\ todo' = activeQueue
  /\ UNCHANGED <<now, proposalVars, deposits, votes, bankVars, certVars>>

NextBlock(elapsed) ==
  /\ phase = "security" /\ todo = {}
  /\ now + elapsed <= MaxTime
  /\ now' = now + elapsed
  /\ phase' = "deliver"
  /\ UNCHANGED <<todo, proposalVars, deposits, votes, bankVars, certVars>>

-----------------------------------------------------------------------------

Init ==
  /\ now = 1 /\ phase = "deliver" /\ todo = {}
  /\ proposals = <<>> /\ nextProposalID = 1
  /\ inactiveQueue = {} /\ activeQueue = {}
  /\ deposits = <<>> /\ votes = <<>>
  /\ balances = [a \in Accounts |-> InitBalance] /\ govBalance = 0
  /\ CertInit

GovMsg(a) ==
  \/ \E c \in ProposalContents, deposit \in DepositInputs \cup {0} : SubmitProposal(a, c, deposit)
  \/ \E id \in DOMAIN proposals, amount \in DepositInputs : Deposit(a, id, amount)
  \/ \E id \in DOMAIN proposals, option \in VoteOptions : AddVote(a, id, option)

OtherMsg ==
  /\ DeliverTx
  /\ \/ \E a \in Accounts : CertMsg(a)
     \/ \E v \in JailInputs : Jail(v) \/ Unjail(v)
  /\ UNCHANGED <<now, phase, todo, proposalVars, deposits, votes, bankVars>>

EndBlocker ==
  \E e \in todo :
    \/ RemoveInactiveProposal(e)
    \/ EndSecurityRound(e)
    \/ EndStakeRound(e)
    \/ ProcessSecurityVote(e)
    \/ SkipSecurityVote(e)

Block ==
  \/ StartEndBlocker
  \/ EndBlocker
  \/ NextLoop
  \/ \E elapsed \in BlockTimes : NextBlock(elapsed)

Next ==
  \/ \E a \in Accounts : GovMsg(a)
  \/ OtherMsg
  \/ Block

\* Blocks keep coming; nobody has to vote or to deposit.
Spec == Init /\ [][Next]_vars /\ WF_vars(Block)

-----------------------------------------------------------------------------
(* Properties.                                                             *)

\* The stores hold records of their types.
TypeOK ==
  /\ now \in Nat /\ phase \in {"deliver", "inactive", "active", "security"}
  /\ IsStore(proposals, 1..MaxProposals, Proposal)
  /\ nextProposalID \in 1..(MaxProposals + 1)
  /\ inactiveQueue \cup activeQueue \cup todo \subseteq Nat \X (1..MaxProposals)
  /\ IsStore(deposits, (1..MaxProposals) \X Accounts, Nat)
  /\ IsStore(votes, (1..MaxProposals) \X Accounts, Options)
  /\ balances \in [Accounts -> Nat] /\ govBalance \in Nat
  /\ CertTypeOK

\* A proposal is in the queue of its period, once and at the end of the
\* period, and in no queue when it has ended: the EndBlocker, which moves
\* entries between the queues while it iterates over them, neither loses a
\* proposal nor meets one twice.
QueuesMatchProposals ==
  /\ inactiveQueue = {<<proposals[id].depositEnd, id>> : id \in
       {id \in DOMAIN proposals : proposals[id].status = "DepositPeriod"}}
  /\ activeQueue = {<<proposals[id].votingEnd, id>> : id \in
       {id \in DOMAIN proposals :
          proposals[id].status \in {"CertifierVotingPeriod", "ValidatorVotingPeriod"}}}

\* The coins of the module account are the deposits on record, through all
\* deposits, refunds and burns; and while a proposal is pending its total is
\* what its depositors would get back.
DepositsHeld ==
  /\ govBalance = Deposited(DOMAIN deposits)
  /\ \A id \in DOMAIN proposals : DepositsOf(id) # {} =>
       proposals[id].totalDeposit = Deposited(DepositsOf(id))

\* No deposit is left when its proposal has ended, or is gone.
NoDepositLeft ==
  \A k \in DOMAIN deposits :
    k[1] \in DOMAIN proposals /\ proposals[k[1]].status \in
      {"DepositPeriod", "CertifierVotingPeriod", "ValidatorVotingPeriod"}

\* The only deposits that are left over are those of certifier updates that
\* the certifiers decided before the end of their round.
DepositsLeftByUpdates ==
  \A k \in DOMAIN deposits :
    /\ k[1] \in DOMAIN proposals
    /\ proposals[k[1]].status \in {"Passed", "Failed", "Rejected"} =>
         /\ proposals[k[1]].content.kind = "update"
         /\ proposals[k[1]].status # "Rejected"

\* No stake votes twice, for itself and through its validator, whoever votes
\* and whichever validator is jailed between a vote and the tally.  Shares are
\* rounded: by less than a unit for every token, once for the validators and
\* once for every delegator who votes.
NoStakeVotesTwice ==
  \A id \in DOMAIN proposals :
    TotalVotingPower(id) <= Dec(TotalBondedTokens)
                              + (1 + Cardinality(Delegators(id))) * TotalBondedTokens

\* The validators start with no votes: a vote of the certifier round, with
\* its one head, never counts again with the stake of the certifier.
RoundsStartWithoutVotes ==
  [][\A id \in DOMAIN proposals \cap DOMAIN proposals' :
       (proposals[id].status # "ValidatorVotingPeriod"
          /\ proposals'[id].status = "ValidatorVotingPeriod")
         => \A k \in DOMAIN votes' : k[1] # id]_vars

\* A certificate is never replaced by another one: it stays as it is until it
\* is revoked, however many are issued for the same content.
CertificatesNotReplaced ==
  [][\A id \in DOMAIN certificates \cap DOMAIN certificates' :
       certificates'[id] = certificates[id]]_vars

Identities == {a \in Accounts : IsCertifiedIdentity(a)}

\* A claim that all certified identities vote for, and nobody against, passes.
UnanimousClaimPasses ==
  \A id \in DOMAIN proposals :
    (/\ proposals[id].status = "ValidatorVotingPeriod"
     /\ proposals[id].content.kind = "claim"
     /\ Identities \subseteq Voters(id)
     /\ Voters(id) = VotersFor(id, "Yes")
     /\ \E a \in Identities : BondedBy(a) > 0) => StakePass(id)

\* The life of a proposal, seen from outside.
Life == INSTANCE ProposalLife WITH
  Proposals <- 1..MaxProposals,
  stage <- [id \in 1..MaxProposals |->
              IF id \in DOMAIN proposals THEN proposals[id].status
              ELSE IF id < nextProposalID THEN "Dropped" ELSE "none"],
  kind <- [id \in 1..MaxProposals |->
              IF id \in DOMAIN proposals THEN proposals[id].content.kind ELSE "none"]

\* Every proposal goes through the rounds of its kind, passes only with the
\* bodies that must agree, and ends: x/gov implements ProposalLife.
LifeSpec == Life!Spec
=============================================================================
