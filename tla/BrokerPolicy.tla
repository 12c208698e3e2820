---------------------------- MODULE BrokerPolicy ----------------------------
(***************************************************************************)
(* The broker's authorization configuration (internal/broker/policy.go)    *)
(* and the set of verifiers built from it (verifier_set.go): which policy  *)
(* files are accepted, which tokens are verified as whom, and which        *)
(* verified claims may resolve which capability.                           *)
(*                                                                         *)
(* A configured or claimed text is a name with or without surrounding      *)
(* space, because some comparisons in the code trim and others do not.     *)
(***************************************************************************)
EXTENDS Integers, Sequences, FiniteSets

CONSTANTS
    Names,   \* non-empty trimmed texts: aliases, URLs, subjects, capabilities
    Hosts,   \* repository hosts, lower case
    Paths    \* repository paths, without suffix

Text == [name : Names \cup {""}, padded : BOOLEAN]
Trim(t) == t.name
IsBlank(t) == Trim(t) = ""
Exactly(t, name) == t = [name |-> name, padded |-> FALSE]

(* A repository as written: a URL, a host/path form, or something that     *)
(* does not parse or is blank; "bare" is a form of which nothing is left   *)
(* once its suffixes are cut.                                              *)
Repo == [form : {"url", "opaque", "bare", "malformed"},
         host : Hosts, upper : BOOLEAN, path : Paths,
         suffix : {"none", ".git", "/", ".git/", "/.git"}]

(* PolicyRule.  "unset" is the nil pointer of an omitted requireRepoURLs.  *)
Rule == [issuer : Text, subject : Text,
         requireRepoURLs : {"unset", "true", "false"},
         repositories : SUBSET Repo, capabilities : SUBSET Text]

(* OIDCIssuerConfig, and the legacy fields of OIDCConfig.                  *)
IssuerConfig == [issuer : Text, audience : Text, jwksURL : Text]

(* What the claims of a token say, and whose key signed it.                *)
Token == [iss : Text, aud : Text, sub : Text, repos : SUBSET Repo,
          signedBy : Names]

-----------------------------------------------------------------------------
(* A PolicyFile p has p.version, p.legacy (an IssuerConfig), p.issuers (a  *)
(* function from alias texts to IssuerConfigs) and p.policies (a sequence  *)
(* of rules).                                                              *)
MultiIssuer(p) == DOMAIN p.issuers # {}

CompleteConfig(cfg) ==
    ~IsBlank(cfg.issuer) /\ ~IsBlank(cfg.audience) /\ ~IsBlank(cfg.jwksURL)

ValidOIDC(p) ==
    \/ /\ ~MultiIssuer(p)
       /\ ~IsBlank(p.legacy.issuer) /\ ~IsBlank(p.legacy.audience)
    \/ /\ MultiIssuer(p)
       /\ IsBlank(p.legacy.issuer) /\ IsBlank(p.legacy.audience)
       /\ IsBlank(p.legacy.jwksURL)
       /\ \A a \in DOMAIN p.issuers : ~IsBlank(a) /\ CompleteConfig(p.issuers[a])
       /\ \A a, b \in DOMAIN p.issuers :
            Trim(p.issuers[a].issuer) = Trim(p.issuers[b].issuer) => a = b

ValidRule(p, rule) ==
    /\ ~IsBlank(rule.subject)
    /\ IF MultiIssuer(p)
         THEN /\ ~IsBlank(rule.issuer)
              /\ \E a \in DOMAIN p.issuers : Exactly(a, Trim(rule.issuer))
         ELSE IsBlank(rule.issuer)
    /\ rule.capabilities # {}
    /\ rule.requireRepoURLs # "unset"
    /\ rule.requireRepoURLs = "true" => rule.repositories # {}

(* Mutant: duplicates are looked for among the texts as written.           *)
SameIdentityUntrimmed(r1, r2) == r1.issuer = r2.issuer /\ r1.subject = r2.subject

(* Two rules for the same workload.                                        *)
SameIdentity(r1, r2) ==
    Trim(r1.issuer) = Trim(r2.issuer) /\ Trim(r1.subject) = Trim(r2.subject)

DuplicateFree(p) == \A i, j \in 1 .. Len(p.policies) :
    SameIdentity(p.policies[i], p.policies[j]) => i = j

Validate(p) ==
    /\ p.version \in {"", "0.1"}
    /\ ValidOIDC(p)
    /\ Len(p.policies) # 0
    /\ \A i \in 1 .. Len(p.policies) : ValidRule(p, p.policies[i])
    /\ DuplicateFree(p)

-----------------------------------------------------------------------------
(* normalizeRepoIdentity: host in lower case, one ".git" cut from the end  *)
(* of the path and then one "/".  A URL and a host/path form never have    *)
(* the same identity, the scheme being part of the first.                  *)
Identity(r) ==
    [form |-> r.form, host |-> r.host, path |-> r.path, git |-> r.suffix = ".git/"]

(* normalizeRepoSet: one repository that does not parse spoils the set,    *)
(* and so does a set of which nothing is left.                             *)
Normalizable(repos) ==
    /\ \A r \in repos : r.form # "malformed"
    /\ \E r \in repos : r.form # "bare"
Identities(repos) == {Identity(r) : r \in {q \in repos : q.form # "bare"}}

RepositoriesMatch(rule, repos) ==
    /\ repos # {}
    /\ Normalizable(rule.repositories) /\ Normalizable(repos)
    /\ Identities(rule.repositories) = Identities(repos)

(* containsExact, on trimmed texts.                                        *)
Lists(capabilities, capability) ==
    \E c \in capabilities : Trim(c) = Trim(capability)

(* Mutant: the rule's issuer is not compared.                              *)
MatchesAnyIssuer(p, claims, i) ==
    Exactly(claims.subject, Trim(p.policies[i].subject))

(* The rules for the workload that the claims name.                        *)
Matches(p, claims, i) ==
    /\ Exactly(claims.subject, Trim(p.policies[i].subject))
    /\ MultiIssuer(p) => Trim(p.policies[i].issuer) = claims.alias

(* Authorize looks at the first rule that matches, and at no other.        *)
Authorize(p, claims, capability) ==
    LET matching == {i \in 1 .. Len(p.policies) : Matches(p, claims, i)} IN
    /\ ~IsBlank(capability)
    /\ claims.subject # [name |-> "", padded |-> FALSE]
    /\ MultiIssuer(p) => claims.alias # ""
    /\ \E i \in matching :
        /\ \A j \in matching : i <= j
        /\ Lists(p.policies[i].capabilities, capability)
        /\ p.policies[i].requireRepoURLs = "true" =>
            RepositoriesMatch(p.policies[i], claims.repos)

-----------------------------------------------------------------------------
(* Mutant: the issuers are collected by trimmed alias, and one replaces    *)
(* another without a word.                                                 *)
TrustedIssuersByAlias(p, defaultJWKS) ==
    LET Of(a) == [alias |-> Trim(a), issuer |-> Trim(p.issuers[a].issuer),
                  audience |-> Trim(p.issuers[a].audience),
                  jwksURL |-> Trim(p.issuers[a].jwksURL), key |-> a]
        Legacy == [alias |-> "", issuer |-> Trim(p.legacy.issuer),
                   audience |-> Trim(p.legacy.audience),
                   jwksURL |-> IF IsBlank(p.legacy.jwksURL) THEN defaultJWKS
                               ELSE Trim(p.legacy.jwksURL),
                   key |-> [name |-> "", padded |-> FALSE]]
    IN  IF MultiIssuer(p)
          THEN {Of(CHOOSE a \in DOMAIN p.issuers : Trim(a) = name) :
                    name \in {Trim(a) : a \in DOMAIN p.issuers}}
          ELSE {Legacy}

(* TrustedIssuers, with the default JWKS URL that main fills in for the    *)
(* legacy form.  A trusted issuer is [alias, issuer, audience, jwksURL];   *)
(* the multi-issuer form yields them in the order of a Go map, so what is  *)
(* built from them may only depend on the set.                             *)
TrustedIssuers(p, defaultJWKS) ==
    IF MultiIssuer(p)
      THEN {[alias |-> Trim(a), issuer |-> Trim(p.issuers[a].issuer),
             audience |-> Trim(p.issuers[a].audience),
             jwksURL |-> Trim(p.issuers[a].jwksURL), key |-> a] :
                a \in DOMAIN p.issuers}
      ELSE {[alias |-> "", issuer |-> Trim(p.legacy.issuer),
             audience |-> Trim(p.legacy.audience),
             jwksURL |-> IF IsBlank(p.legacy.jwksURL) THEN defaultJWKS
                         ELSE Trim(p.legacy.jwksURL),
             key |-> [name |-> "", padded |-> FALSE]]}

(* NewVerifierSet succeeds.                                                *)
Startable(trusted) ==
    /\ trusted # {}
    /\ \A ti \in trusted : ti.issuer # "" /\ ti.audience # "" /\ ti.jwksURL # ""
    /\ \A t1, t2 \in trusted :
        t1.issuer = t2.issuer \/ t1.alias = t2.alias => t1 = t2

(* VerifierSet.Verify selects the verifier by the trimmed iss of the       *)
(* token; that verifier wants its issuer and audience exactly, a signature *)
(* under its own keys, and a subject.                                      *)
VerifiedBy(ti, token) ==
    /\ Trim(token.iss) = ti.issuer
    /\ Exactly(token.iss, ti.issuer)
    /\ Exactly(token.aud, ti.audience)
    /\ token.signedBy = ti.jwksURL
    /\ token.sub # [name |-> "", padded |-> FALSE]

ClaimsOf(ti, token) ==
    [subject |-> token.sub, alias |-> ti.alias, repos |-> token.repos]
=============================================================================
