-------------------------------- MODULE Cert --------------------------------
(***************************************************************************)
(* x/cert: the certifiers, the certificates they issue and revoke, and the *)
(* validators they certify.  Certifiers are added and removed by proposals *)
(* that x/gov decides (module Gov); the other operations are messages.     *)
(* De-certifying a validator jails it, which takes it out of the bonded    *)
(* validators that vote in x/gov.                                          *)
(*                                                                         *)
(* A message that fails is rolled back, so an action's guard is that its   *)
(* message succeeds.  The libraries of the keeper are left out: no message *)
(* publishes or invalidates one.                                           *)
(***************************************************************************)
EXTENDS Store, Integers, FiniteSetsExt

CONSTANTS
  Accounts,            \* addresses, numbered in the order of the store's keys
  Validators,          \* the operators of the validators
  Aliases,             \* aliases a certifier may have, besides none
  InitCertifiers,      \* the certifiers at genesis: address -> alias
  CertificateTypes,    \* types and contents of the certificates of messages;
  CertificateContents, \* a content is an address
  CertifyInputs,       \* the keys messages of x/cert are about: those outside
                       \* Validators have no validator in x/staking
  JailInputs,          \* the validators that may be jailed for downtime
  MaxIndex             \* 255 in the code: the largest index of a certificate

NoAlias == "none"

ASSUME CertAssumption ==
  /\ Accounts \subseteq Nat /\ IsFiniteSet(Accounts)
  /\ Validators \subseteq Accounts
  /\ NoAlias \notin Aliases
  /\ IsStore(InitCertifiers, Accounts, Aliases \cup {NoAlias})
  /\ DOMAIN InitCertifiers # {}
  /\ \A a, b \in DOMAIN InitCertifiers :
       a # b /\ InitCertifiers[a] # NoAlias => InitCertifiers[a] # InitCertifiers[b]
  /\ CertifyInputs \subseteq Accounts /\ JailInputs \subseteq Validators
  /\ CertificateContents \subseteq Accounts /\ MaxIndex \in Nat

VARIABLES
  certifiers,          \* address -> alias
  aliases,             \* alias -> address of its certifier
  certificates,        \* <<type, content, index>> -> certifier
  certified,           \* key of a validator -> certifier
  platforms,           \* keys with a certified host platform
  jailed, tombstoned,  \* x/slashing
  bonded               \* x/staking: the bonded validators

certVars == <<certifiers, aliases, certificates, certified, platforms,
              jailed, tombstoned, bonded>>

-----------------------------------------------------------------------------
(* Certifiers.                                                             *)

IsCertifier(a) == a \in DOMAIN certifiers

\* An empty alias always exists.
HasCertifierAlias(alias) == alias = NoAlias \/ alias \in DOMAIN aliases

SetCertifier(a, alias) ==
  /\ certifiers' = StoreSet(certifiers, a, alias)
  /\ aliases' = IF alias = NoAlias THEN aliases ELSE StoreSet(aliases, alias, a)

DeleteCertifier(a) ==
  /\ certifiers' = StoreDelete(certifiers, {a})
  /\ aliases' = StoreDelete(aliases, {certifiers[a]})

\* Mutant: the handler relies on the check of the alias that was made when the
\* proposal was submitted.
UpdateSucceedsIfSubmitted(c) ==
  IF c.add THEN ~ IsCertifier(c.certifier)
  ELSE Cardinality(DOMAIN certifiers) # 1 /\ IsCertifier(c.certifier)

\* HandleCertifierUpdateProposal returns no error.
CertifierUpdateSucceeds(c) ==
  IF c.add
  THEN ~ IsCertifier(c.certifier) /\ (c.alias = NoAlias \/ ~ HasCertifierAlias(c.alias))
  ELSE Cardinality(DOMAIN certifiers) # 1 /\ IsCertifier(c.certifier)

\* What it does then.
HandleCertifierUpdateProposal(c) ==
  /\ IF c.add THEN SetCertifier(c.certifier, c.alias) ELSE DeleteCertifier(c.certifier)
  /\ UNCHANGED <<certificates, certified, platforms, jailed, tombstoned, bonded>>

-----------------------------------------------------------------------------
(* Certificates.                                                           *)

\* Mutant: the 8-bit index wraps around.
NewCertificateIndexWraps(type, content) ==
  LET free == {i \in 0..MaxIndex : <<type, content, i>> \notin DOMAIN certificates}
  IN  {IF free = {} THEN 0 ELSE Min(free)}

\* GetNewCertificateID: the first index that is not in use, if there is one.
NewCertificateIndex(type, content) ==
  LET free == {i \in 0..MaxIndex : <<type, content, i>> \notin DOMAIN certificates}
  IN  IF free = {} THEN {} ELSE {Min(free)}

IssueCertificate(a, type, content) ==
  /\ IsCertifier(a)
  /\ \E i \in NewCertificateIndex(type, content) :
       certificates' = StoreSet(certificates, <<type, content, i>>, a)
  /\ UNCHANGED <<certifiers, aliases, certified, platforms, jailed, tombstoned, bonded>>

\* Any certifier revokes any certificate.
RevokeCertificate(a, id) ==
  /\ IsCertifier(a)
  /\ id \in DOMAIN certificates
  /\ certificates' = StoreDelete(certificates, {id})
  /\ UNCHANGED <<certifiers, aliases, certified, platforms, jailed, tombstoned, bonded>>

IdentityCertificates == {id \in DOMAIN certificates : id[1] = "identity"}

\* IsCertified(ctx, "address", a, "identity")
IsCertifiedIdentity(a) == \E id \in IdentityCertificates : id[2] = a

-----------------------------------------------------------------------------
(* Validators.                                                             *)

CertifyValidator(a, v) ==
  /\ IsCertifier(a)
  /\ v \notin DOMAIN certified
  /\ certified' = StoreSet(certified, v, a)
  /\ UNCHANGED <<certifiers, aliases, certificates, platforms, jailed, tombstoned, bonded>>

\* Mutant: only the original certifier may take the certification back.
MayDecertifyOwn(a, v) == IsCertifier(a) /\ a = certified[v]

\* The original certifier, and any certifier once that one is none any more.
MayDecertify(a, v) ==
  IsCertifier(a) /\ (a = certified[v] \/ ~ IsCertifier(certified[v]))

\* The validator, which must be there, is jailed until year 9999 and tombstoned.
DecertifyValidator(a, v) ==
  /\ v \in DOMAIN certified
  /\ MayDecertify(a, v)
  /\ v \in Validators
  /\ v \notin tombstoned
  /\ certified' = StoreDelete(certified, {v})
  /\ jailed' = jailed \cup {v}
  /\ bonded' = bonded \ {v}
  /\ tombstoned' = tombstoned \cup {v}
  /\ UNCHANGED <<certifiers, aliases, certificates, platforms>>

CertifyPlatform(a, v) ==
  /\ IsCertifier(a)
  /\ platforms' = platforms \cup {v}
  /\ UNCHANGED <<certifiers, aliases, certificates, certified, jailed, tombstoned, bonded>>

\* x/slashing jails a validator that misses blocks, and it comes back.
Jail(v) ==
  /\ v \notin jailed
  /\ jailed' = jailed \cup {v}
  /\ bonded' = bonded \ {v}
  /\ UNCHANGED <<certifiers, aliases, certificates, certified, platforms, tombstoned>>

Unjail(v) ==
  /\ v \in jailed \ tombstoned
  /\ jailed' = jailed \ {v}
  /\ UNCHANGED <<certifiers, aliases, certificates, certified, platforms, tombstoned, bonded>>

-----------------------------------------------------------------------------

CertInit ==
  /\ certifiers = InitCertifiers
  /\ aliases = [alias \in {InitCertifiers[a] : a \in DOMAIN InitCertifiers} \ {NoAlias} |->
                  CHOOSE a \in DOMAIN InitCertifiers : InitCertifiers[a] = alias]
  /\ certificates = <<>> /\ certified = <<>> /\ platforms = {}
  /\ jailed = {} /\ tombstoned = {} /\ bonded = Validators

CertMsg(a) ==
  \/ \E type \in CertificateTypes, content \in CertificateContents : IssueCertificate(a, type, content)
  \/ \E id \in DOMAIN certificates : RevokeCertificate(a, id)
  \/ \E v \in CertifyInputs :
       CertifyValidator(a, v) \/ DecertifyValidator(a, v) \/ CertifyPlatform(a, v)

-----------------------------------------------------------------------------
(* Properties.                                                             *)

\* The stores hold records of their types.
CertTypeOK ==
  /\ IsStore(certifiers, Accounts, Aliases \cup {NoAlias})
  /\ IsStore(aliases, Aliases, Accounts)
  /\ IsStore(certificates, CertificateTypes \X CertificateContents \X (0..MaxIndex), Accounts)
  /\ IsStore(certified, Accounts, Accounts)
  /\ platforms \subseteq Accounts /\ jailed \subseteq Validators
  /\ tombstoned \subseteq jailed /\ bonded \subseteq Validators \ jailed

\* The store by alias and the store by address agree, so that no two
\* certifiers have the same alias, although proposals with one alias may be
\* voted on at the same time and the alias was free when each was submitted.
AliasesAreUnique ==
  \A a \in Accounts, alias \in Aliases :
    (a \in DOMAIN certifiers /\ certifiers[a] = alias)
      <=> (alias \in DOMAIN aliases /\ aliases[alias] = a)

\* The certification of a validator can be taken back by a certifier, also
\* when the one who gave it has been voted out.  It is about the permission: for
\* a validator that is tombstoned or missing DecertifyValidator fails for all.
SomeoneMayDecertify ==
  \A v \in DOMAIN certified : \E a \in Accounts : MayDecertify(a, v)
=============================================================================
