------------------------- MODULE BrokerAuthzProofs -------------------------
(***************************************************************************)
(* Proofs about BrokerAuthz for every set of policy files, of tokens and   *)
(* of capabilities.                                                        *)
(***************************************************************************)
EXTENDS BrokerAuthz, TLAPS

\* A text that is exactly a name, as Validate demands, trims to the name.
LEMMA ExactTrim ==
  ASSUME NEW text, NEW name, Exactly(text, name) PROVE Trim(text) = name
  BY DEF Exactly, Trim

\* A text that is exactly a name other than "" is not the empty text.
LEMMA ExactNotEmpty ==
  ASSUME NEW text, NEW name, Exactly(text, name), name # ""
  PROVE  text # [name |-> "", padded |-> FALSE]
<1>1. Trim([name |-> "", padded |-> FALSE]) = ""
  BY DEF Trim
<1> QED
  BY <1>1, ExactTrim

(* In a file without duplicate rules, whose rules name an issuer only in   *)
(* the multi-issuer form, at most one rule matches a workload: the first   *)
(* match that Authorize takes is the only one.                             *)
THEOREM OnlyMatch ==
  ASSUME NEW p, NEW claims, Validate(p),
         NEW i \in 1 .. Len(p.policies), NEW j \in 1 .. Len(p.policies),
         Matches(p, claims, i), Matches(p, claims, j)
  PROVE  i = j
<1>1. Trim(p.policies[i].subject) = Trim(p.policies[j].subject)
  BY DEF Matches, Exactly
<1>2. Trim(p.policies[i].issuer) = Trim(p.policies[j].issuer)
  <2>1. CASE MultiIssuer(p)
    BY <2>1 DEF Matches
  <2>2. CASE ~MultiIssuer(p)
    BY <2>2 DEF Validate, ValidRule, IsBlank
  <2> QED
    BY <2>1, <2>2
<1> QED
  BY <1>1, <1>2 DEF Validate, DuplicateFree, SameIdentity

(* Authorize in one sentence: a rule matches, lists the capability, and    *)
(* agrees on the repositories.  The place of the rule does not matter.     *)
THEOREM AuthorizeExact ==
  ASSUME NEW p, NEW claims, NEW capability, Validate(p)
  PROVE  Authorize(p, claims, capability) <=>
           /\ ~IsBlank(capability)
           /\ claims.subject # [name |-> "", padded |-> FALSE]
           /\ MultiIssuer(p) => claims.alias # ""
           /\ \E i \in 1 .. Len(p.policies) :
                /\ Matches(p, claims, i)
                /\ Lists(p.policies[i].capabilities, capability)
                /\ p.policies[i].requireRepoURLs = "true" =>
                    RepositoriesMatch(p.policies[i], claims.repos)
<1>1. \A i, j \in 1 .. Len(p.policies) :
        Matches(p, claims, i) /\ Matches(p, claims, j) => i = j /\ i <= j
  BY OnlyMatch
<1> QED
  BY <1>1 DEF Authorize

(* The repositories agree exactly when both sets normalise to the same     *)
(* set of identities.                                                      *)
LEMMA RepositoriesAgree ==
  ASSUME NEW rule, NEW repos
  PROVE  RepositoriesMatch(rule, repos) <=>
           /\ \A r \in rule.repositories \cup repos : r.form # "malformed"
           /\ Identities(rule.repositories) = Identities(repos)
           /\ Identities(repos) # {}
  BY DEF RepositoriesMatch, Normalizable, Identities

(* The trusted issuer that an alias text of the multi-issuer form yields,  *)
(* and the one of the legacy form.                                         *)
Entry(a) ==
    [alias |-> Trim(a), issuer |-> Trim(policy.issuers[a].issuer),
     audience |-> Trim(policy.issuers[a].audience),
     jwksURL |-> Trim(policy.issuers[a].jwksURL), key |-> a]
LegacyEntry ==
    [alias |-> "", issuer |-> Trim(policy.legacy.issuer),
     audience |-> Trim(policy.legacy.audience),
     jwksURL |-> IF IsBlank(policy.legacy.jwksURL) THEN DefaultJWKS
                 ELSE Trim(policy.legacy.jwksURL),
     key |-> [name |-> "", padded |-> FALSE]]

\* TrustedIssuers makes one entry per alias of a multi-issuer policy, and the
\* legacy entry otherwise.
LEMMA TrustedEntries ==
  /\ MultiIssuer(policy) =>
       TrustedIssuers(policy, DefaultJWKS) = {Entry(a) : a \in DOMAIN policy.issuers}
  /\ ~MultiIssuer(policy) => TrustedIssuers(policy, DefaultJWKS) = {LegacyEntry}
  BY DEF TrustedIssuers, Entry, LegacyEntry

(* The token is one of an issuer that the rule speaks of.                  *)
OfIssuer(rule, token) == \E cfg \in ConfigsOf(rule) :
    /\ Exactly(token.iss, Trim(cfg.issuer))
    /\ Exactly(token.aud, Trim(cfg.audience))
    /\ token.signedBy = IF ~MultiIssuer(policy) /\ IsBlank(cfg.jwksURL)
                        THEN DefaultJWKS ELSE Trim(cfg.jwksURL)

(* A verified token that matches a rule is one of the rule's issuer.       *)
LEMMA VerifiedOfIssuer ==
  ASSUME NEW rule, NEW token, NEW ti \in TrustedIssuers(policy, DefaultJWKS),
         VerifiedBy(ti, token), MultiIssuer(policy) => ti.alias = Trim(rule.issuer)
  PROVE  OfIssuer(rule, token)
<1>1. CASE MultiIssuer(policy)
  <2>1. PICK a \in DOMAIN policy.issuers : ti = Entry(a)
    BY <1>1, TrustedEntries
  <2>2. Trim(a) = Trim(rule.issuer)
    BY <1>1, <2>1 DEF Entry
  <2>3. policy.issuers[a] \in ConfigsOf(rule)
    BY <1>1, <2>2 DEF ConfigsOf
  <2> QED
    BY <1>1, <2>1, <2>3 DEF OfIssuer, VerifiedBy, Entry
<1>2. CASE ~MultiIssuer(policy)
  <2>1. ti = LegacyEntry
    BY <1>2, TrustedEntries
  <2>2. policy.legacy \in ConfigsOf(rule)
    BY <1>2 DEF ConfigsOf
  <2> QED
    BY <1>2, <2>1, <2>2 DEF OfIssuer, VerifiedBy, LegacyEntry
<1> QED
  BY <1>1, <1>2

(* A token with a subject that is one of the rule's issuer is verified, as *)
(* a token under the rule's alias.                                         *)
LEMMA OfIssuerVerified ==
  ASSUME NEW rule, NEW token, OfIssuer(rule, token),
         token.sub # [name |-> "", padded |-> FALSE]
  PROVE  \E ti \in TrustedIssuers(policy, DefaultJWKS) :
            VerifiedBy(ti, token) /\ (MultiIssuer(policy) => ti.alias = Trim(rule.issuer))
<1>1. CASE MultiIssuer(policy)
  <2>1. PICK a \in DOMAIN policy.issuers :
          /\ Trim(a) = Trim(rule.issuer)
          /\ Exactly(token.iss, Trim(policy.issuers[a].issuer))
          /\ Exactly(token.aud, Trim(policy.issuers[a].audience))
          /\ token.signedBy = Trim(policy.issuers[a].jwksURL)
    BY <1>1 DEF OfIssuer, ConfigsOf
  <2>2. VerifiedBy(Entry(a), token) /\ Entry(a).alias = Trim(rule.issuer)
    BY <2>1, ExactTrim DEF Entry, VerifiedBy
  <2> QED
    BY <1>1, <2>2, TrustedEntries
<1>2. CASE ~MultiIssuer(policy)
  <2>1. VerifiedBy(LegacyEntry, token)
    BY <1>2, ExactTrim DEF OfIssuer, ConfigsOf, LegacyEntry, VerifiedBy
  <2> QED
    BY <1>2, <2>1, TrustedEntries
<1> QED
  BY <1>1, <1>2

(* What a rule grants, in terms of the lemmas.                             *)
LEMMA GrantsExact ==
  ASSUME NEW rule, NEW token, NEW capability
  PROVE  Grants(rule, token, capability) <=>
           /\ OfIssuer(rule, token)
           /\ Exactly(token.sub, Trim(rule.subject))
           /\ ~IsBlank(capability)
           /\ Lists(rule.capabilities, capability)
           /\ rule.requireRepoURLs = "true" => RepositoriesMatch(rule, token.repos)
  BY RepositoriesAgree DEF Grants, OfIssuer, Lists

-----------------------------------------------------------------------------
(* The broker serves only under an accepted configuration.                 *)
THEOREM ConfiguredWhenServing == Spec => []ServingConfigured
<1>1. Init => ServingConfigured
  BY DEF Init, ServingConfigured
<1>2. ServingConfigured /\ [Next]_vars => ServingConfigured'
  BY DEF Next, Refuse, Serve, Decide, Resolve, vars, setup, ServingConfigured,
         Acceptable, ListenAddr, BindingsLoad
<1> QED
  BY <1>1, <1>2, PTL DEF Spec

(* The type invariant, for any inputs.                                     *)
THEOREM TypeCorrect == Spec => []TypeOK
<1>1. Init => TypeOK
  BY InputsAssumption DEF Init, TypeOK, NoRequest
<1>2. TypeOK /\ [Next]_vars => TypeOK'
  BY DEF Next, Refuse, Serve, Decide, Resolve, vars, setup, TypeOK, TransportOf
<1> QED
  BY <1>1, <1>2, PTL DEF Spec

(* Without a configuration there is no verifier, no transport, no decision.*)
IssuersWhenServing ==
    /\ phase # "serving" => trusted = {} /\ transport = "none"
    /\ decision # "none" => phase = "serving"

\* Nothing is set up, and nothing decided, before the broker serves.
LEMMA NothingBeforeServing == Spec => []IssuersWhenServing
<1>1. Init => IssuersWhenServing
  BY DEF Init, IssuersWhenServing
<1>2. IssuersWhenServing /\ [Next]_vars => IssuersWhenServing'
  BY DEF Next, Refuse, Serve, Decide, Resolve, vars, setup, IssuersWhenServing
<1> QED
  BY <1>1, <1>2, PTL DEF Spec

(* A decision to authorize is justified by a rule, as it is taken.         *)
LEMMA DecideJustified ==
  ASSUME ServingConfigured, NEW token \in BearerTokens,
         NEW capability \in Capabilities, Decide(token, capability)
  PROVE  GrantJustified' /\ NoDeadRule'
<1> USE DEF Decide
<1>1. /\ Validate(policy) /\ trusted = TrustedIssuers(policy, DefaultJWKS)
      /\ Startable(trusted)
      /\ policy' = policy /\ request' = [token |-> token, capability |-> capability]
  BY DEF ServingConfigured, Acceptable, setup
<1>2. RulesGranting' = {i \in 1 .. Len(policy.policies) :
                          Grants(policy.policies[i], token, capability)}
  BY <1>1 DEF RulesGranting, Grants, ConfigsOf
<1>3. ASSUME NEW ti \in trusted, VerifiedBy(ti, token),
             Authorize(policy, ClaimsOf(ti, token), capability)
      PROVE  \E i \in 1 .. Len(policy.policies) :
                Grants(policy.policies[i], token, capability)
  <2>1. PICK i \in 1 .. Len(policy.policies) :
          /\ Matches(policy, ClaimsOf(ti, token), i)
          /\ Lists(policy.policies[i].capabilities, capability)
          /\ policy.policies[i].requireRepoURLs = "true" =>
                RepositoriesMatch(policy.policies[i], token.repos)
    <3>1. ClaimsOf(ti, token).repos = token.repos
      BY DEF ClaimsOf
    <3> QED
      BY <1>1, <1>3, <3>1, AuthorizeExact
  <2>2. /\ Exactly(token.sub, Trim(policy.policies[i].subject))
        /\ MultiIssuer(policy) => ti.alias = Trim(policy.policies[i].issuer)
    BY <2>1 DEF Matches, ClaimsOf
  <2>3. OfIssuer(policy.policies[i], token)
    BY <1>1, <1>3, <2>2, VerifiedOfIssuer
  <2>4. ~IsBlank(capability)
    BY <1>3 DEF Authorize
  <2> QED
    BY <2>1, <2>2, <2>3, <2>4, GrantsExact
<1>4. ASSUME NEW i \in 1 .. Len(policy.policies),
             Grants(policy.policies[i], token, capability)
      PROVE  /\ \E ti \in trusted : VerifiedBy(ti, token)
             /\ \A ti \in trusted : VerifiedBy(ti, token) =>
                    Authorize(policy, ClaimsOf(ti, token), capability)
  <2>1. /\ OfIssuer(policy.policies[i], token)
        /\ Exactly(token.sub, Trim(policy.policies[i].subject))
        /\ ~IsBlank(capability)
        /\ Lists(policy.policies[i].capabilities, capability)
        /\ policy.policies[i].requireRepoURLs = "true" =>
              RepositoriesMatch(policy.policies[i], token.repos)
    BY <1>4, GrantsExact
  <2>2. ValidRule(policy, policy.policies[i])
    BY <1>1 DEF Validate
  <2>3. token.sub # [name |-> "", padded |-> FALSE]
    BY <2>1, <2>2, ExactNotEmpty DEF ValidRule, IsBlank
  <2>4. PICK ti \in trusted :
          VerifiedBy(ti, token)
          /\ (MultiIssuer(policy) => ti.alias = Trim(policy.policies[i].issuer))
    BY <1>1, <2>1, <2>3, OfIssuerVerified
  <2>5. \A t2 \in trusted : VerifiedBy(t2, token) => t2 = ti
    BY <1>1, <2>4 DEF Startable, VerifiedBy
  <2>6. Matches(policy, ClaimsOf(ti, token), i)
    BY <2>1, <2>4 DEF Matches, ClaimsOf
  <2>7. MultiIssuer(policy) => ti.alias # ""
    BY <2>2, <2>4 DEF ValidRule, IsBlank
  <2>8. Authorize(policy, ClaimsOf(ti, token), capability)
    BY <1>1, <2>1, <2>3, <2>6, <2>7, AuthorizeExact DEF ClaimsOf
  <2> QED
    BY <2>4, <2>5, <2>8
<1>5. GrantJustified'
  BY <1>2, <1>3 DEF GrantJustified
<1>6. NoDeadRule'
  BY <1>2, <1>4 DEF NoDeadRule
<1> QED
  BY <1>5, <1>6

(* Both directions of the decision, for every input.                       *)
LEMMA Decisions == Spec => [](GrantJustified /\ NoDeadRule)
<1>1. Init => GrantJustified /\ NoDeadRule
  BY DEF Init, GrantJustified, NoDeadRule
<1>2. ServingConfigured /\ GrantJustified /\ NoDeadRule /\ [Next]_vars
        => (GrantJustified /\ NoDeadRule)'
  <2> SUFFICES ASSUME ServingConfigured, GrantJustified, NoDeadRule, [Next]_vars
               PROVE  (GrantJustified /\ NoDeadRule)'
    OBVIOUS
  <2>1. ASSUME UNCHANGED <<policy, request, decision>>
        PROVE  (GrantJustified /\ NoDeadRule)'
    <3>1. RulesGranting' = RulesGranting
      BY <2>1 DEF RulesGranting, Grants, ConfigsOf
    <3> QED
      BY <2>1, <3>1 DEF GrantJustified, NoDeadRule
  <2>2. CASE Refuse \/ Serve \/ Resolve
    BY <2>1, <2>2 DEF Refuse, Serve, Resolve, setup
  <2>3. CASE \E token \in BearerTokens, capability \in Capabilities :
                Decide(token, capability)
    BY <2>3, DecideJustified
  <2>4. CASE UNCHANGED vars
    BY <2>1, <2>4 DEF vars, setup
  <2> QED
    BY <2>2, <2>3, <2>4 DEF Next
<1> QED
  BY <1>1, <1>2, ConfiguredWhenServing, PTL DEF Spec

(* THEOREM: a request is authorized only on the strength of a rule whose   *)
(* own issuer signed the token.                                            *)
THEOREM GrantsJustified == Spec => []GrantJustified
  BY Decisions, PTL

(* THEOREM: what some rule grants is never refused while the broker serves.*)
THEOREM RulesAlive == Spec => []NoDeadRule
  BY Decisions, PTL

(* A transport that was admitted keeps plaintext where the operator wants  *)
(* it: the table of ListenConfig.Validate, in the words of the property.   *)
LEMMA TransportConfined ==
  ASSUME Admissible(flags, ListenAddr)
  PROVE  /\ \/ TransportOf(flags) = "tls"
            \/ flags.termination.word = "proxy"
            \/ ListenAddr.host \in OnThisHost
         /\ "path" \in {flags.cert, flags.key} => TransportOf(flags) = "tls"
  BY DEF Admissible, TransportOf, Given, Proxied, IsLoopbackHost, OnThisHost

(* THEOREM: for every deployment, nothing is answered before a transport   *)
(* was admitted, and no plaintext crosses a network without the assertion. *)
THEOREM PlaintextIsConfined == Spec => []PlaintextConfined
<1>1. ServingConfigured /\ IssuersWhenServing => PlaintextConfined
  BY TransportConfined DEF ServingConfigured, IssuersWhenServing, Acceptable,
     PlaintextConfined, TransportOf
<1> QED
  BY <1>1, ConfiguredWhenServing, NothingBeforeServing, PTL

(* Material is answered only once, after the authorization.                *)
LEMMA AnsweredWhenAuthorized ==
  Spec => [](answer = "material" => decision = "authorized" /\ Bound)
<1>1. Init => (answer = "material" => decision = "authorized" /\ Bound)
  BY DEF Init
<1>2. /\ answer = "material" => decision = "authorized" /\ Bound
      /\ [Next]_vars
      => (answer = "material" => decision = "authorized" /\ Bound)'
  BY DEF Next, Refuse, Serve, Decide, Resolve, vars, setup, Bound, Key
<1> QED
  BY <1>1, <1>2, PTL DEF Spec

(* THEOREM: material comes from the binding of a capability that a rule    *)
(* granting the request lists, and from a sound one.                       *)
THEOREM ReleasesGranted == Spec => []ReleaseGranted
<1>1. ServingConfigured /\ IssuersWhenServing /\ GrantJustified
        /\ (answer = "material" => decision = "authorized" /\ Bound)
        => ReleaseGranted
  <2> SUFFICES ASSUME ServingConfigured, IssuersWhenServing, GrantJustified,
                      answer = "material", decision = "authorized", Bound
               PROVE  ReleaseGranted
    BY DEF ReleaseGranted
  <2>1. PICK i \in RulesGranting : TRUE
    BY DEF GrantJustified
  <2>2. \E c \in policy.policies[i].capabilities : Trim(c) = Key.name
    BY <2>1 DEF RulesGranting, Grants, Key
  <2>3. ValidEntry(bindings.capabilities[Key])
    BY DEF IssuersWhenServing, ServingConfigured, Acceptable, BindingsLoad, Bound
  <2> QED
    BY <2>1, <2>2, <2>3 DEF ReleaseGranted, Bound, Broker, ValidEntry
<1> QED
  BY <1>1, AnsweredWhenAuthorized, Decisions, ConfiguredWhenServing, NothingBeforeServing, PTL

(* The invariant that the run checks.                                      *)
THEOREM Invariance == Spec => []Inv
  BY TypeCorrect, PlaintextIsConfined, ReleasesGranted, PTL DEF Inv
=============================================================================
