----------------------------- MODULE BrokerAuthz -----------------------------
(***************************************************************************)
(* The path of a decision through cmd/pade-broker: the listener's flags    *)
(* are judged, the policy file and the bindings are loaded and validated,  *)
(* the verifier set is built, and a request is verified, authorized and    *)
(* answered from the bindings.                                             *)
(***************************************************************************)
EXTENDS BrokerPolicy, BrokerListen, ProviderSet

CONSTANTS
    Deployments,   \* what an operator may set up: [policy, flags, bindings]
    BearerTokens,  \* tokens that arrive
    Capabilities,  \* capabilities that are requested
    DefaultJWKS    \* the JWKS URL main fills in for a legacy policy

ASSUME InputsAssumption ==
    /\ BearerTokens # {} /\ BearerTokens \subseteq Token
    /\ Capabilities # {} /\ Capabilities \subseteq Text
    /\ \A d \in Deployments :
        d.flags \in ListenFlags /\ DOMAIN d.bindings.capabilities \subseteq Text

VARIABLES
    phase,     \* "loading", "refused" (the process exits) or "serving"
    flags,     \* the flags and PORT that ListenConfig is made of
    policy,    \* the policy file
    bindings,  \* the bindings file: its version, and its capabilities, a
               \* function from key texts to [provider, sound]
    transport, \* "none", or the TransportMode served
    trusted,   \* the trusted issuers the verifiers were built from
    request,   \* the last request decided, [token, capability]
    decision,  \* "none", "token_invalid", "not_authorized" or "authorized"
    answer     \* "none", "resolve_failed" or "material"

setup == <<flags, policy, bindings>>
vars == <<phase, setup, transport, trusted, request, decision, answer>>

NoRequest == [token |-> CHOOSE t \in BearerTokens : TRUE,
              capability |-> CHOOSE c \in Capabilities : TRUE]

Init ==
    /\ phase = "loading"
    /\ \E d \in Deployments :
        flags = d.flags /\ policy = d.policy /\ bindings = d.bindings
    /\ transport = "none"
    /\ trusted = {}
    /\ request = NoRequest
    /\ decision = "none" /\ answer = "none"

(* The listen address, and what binding.Load admits of a server's file.    *)
ListenAddr == ResolveListenAddr(flags.listen, flags.port)
BindingsLoad ==
    /\ bindings.version \in {"", "0.1"}
    /\ \A key \in DOMAIN bindings.capabilities :
        ~IsBlank(key) /\ ValidEntry(bindings.capabilities[key])

(* main: ResolveListenAddr, ListenConfig.Validate, LoadPolicy,             *)
(* binding.Load, TrustedIssuers and NewVerifierSet, each fatal on error,   *)
(* before the listener is started.                                         *)
Acceptable ==
    /\ Admissible(flags, ListenAddr)
    /\ Validate(policy)
    /\ BindingsLoad
    /\ Startable(TrustedIssuers(policy, DefaultJWKS))

Refuse ==
    /\ phase = "loading"
    /\ ~Acceptable
    /\ phase' = "refused"
    /\ UNCHANGED <<setup, transport, trusted, request, decision, answer>>

Serve ==
    /\ phase = "loading"
    /\ Acceptable
    /\ phase' = "serving"
    /\ transport' = TransportOf(flags)
    /\ trusted' = TrustedIssuers(policy, DefaultJWKS)
    /\ UNCHANGED <<setup, request, decision, answer>>

(* handleResolve, from the bearer token to the authorization decision.     *)
Decide(token, capability) ==
    /\ phase = "serving"
    /\ decision = "none"
    /\ request' = [token |-> token, capability |-> capability]
    /\ \/ /\ \A ti \in trusted : ~VerifiedBy(ti, token)
          /\ decision' = "token_invalid"
       \/ \E ti \in trusted :
          /\ VerifiedBy(ti, token)
          /\ decision' = IF Authorize(policy, ClaimsOf(ti, token), capability)
                         THEN "authorized" ELSE "not_authorized"
    /\ UNCHANGED <<phase, setup, transport, trusted, answer>>

(* The key under which ResolveMaterials looks the capability up: trimmed,  *)
(* and compared with the keys of the file as they are written.             *)
Key == [name |-> Trim(request.capability), padded |-> FALSE]
Bound ==
    /\ Key \in DOMAIN bindings.capabilities
    /\ bindings.capabilities[Key].provider \in Broker

(* Mutant: an answer does not wait for the authorization.                  *)
ResolveAny ==
    /\ phase = "serving" /\ decision # "none" /\ answer = "none"
    /\ \/ Bound /\ answer' = "material"
       \/ answer' = "resolve_failed"
    /\ UNCHANGED <<phase, setup, transport, trusted, request, decision>>

(* handleResolve from there on: the provider that the registry has for the *)
(* capability's binding returns material or fails.                         *)
Resolve ==
    /\ decision = "authorized" /\ answer = "none"
    /\ \/ Bound /\ answer' = "material"
       \/ answer' = "resolve_failed"
    /\ UNCHANGED <<phase, setup, transport, trusted, request, decision>>

Next ==
    \/ Refuse \/ Serve \/ Resolve
    \/ \E token \in BearerTokens, capability \in Capabilities : Decide(token, capability)

Spec == Init /\ [][Next]_vars

-----------------------------------------------------------------------------
(* Every variable holds a value of its kind.                               *)
TypeOK ==
    /\ phase \in {"loading", "refused", "serving"}
    /\ flags \in ListenFlags /\ DOMAIN bindings.capabilities \subseteq Text
    /\ transport \in {"none", "tls", "tls-proxy", "local"}
    /\ decision \in {"none", "token_invalid", "not_authorized", "authorized"}
    /\ answer \in {"none", "resolve_failed", "material"}
    /\ request.token \in BearerTokens /\ request.capability \in Capabilities

(* Where a host can be reached from, apart from how the code tells it.     *)
OnThisHost == {"localhost", "mixed", "loopback4", "loopback6"}

(* Nothing is decided before a transport was admitted, and a bearer token  *)
(* or a credential never crosses a network in the clear unless the         *)
(* operator wrote -tls-termination=proxy: PORT alone, which binds every    *)
(* interface, does not do it, and certificates that were given are used.   *)
PlaintextConfined ==
    /\ decision # "none" => transport # "none"
    /\ transport # "none" <=> phase = "serving"
    /\ transport # "none" =>
        \/ transport = "tls"
        \/ flags.termination.word = "proxy"
        \/ ListenAddr.host \in OnThisHost
    /\ (transport # "none" /\ "path" \in {flags.cert, flags.key}) => transport = "tls"

(* The issuers a rule speaks of: in the multi-issuer form those configured *)
(* under the rule's alias, in the legacy form the only one.                *)
ConfigsOf(rule) ==
    IF MultiIssuer(policy)
      THEN {policy.issuers[a] : a \in {b \in DOMAIN policy.issuers :
                                        Trim(b) = Trim(rule.issuer)}}
      ELSE {policy.legacy}

(* What the operator meant by the rule: this token, signed by the keys of  *)
(* the issuer the rule names, for this subject, from exactly these         *)
(* repositories if the rule wants them, may resolve this capability.       *)
Grants(rule, token, capability) ==
    /\ \E cfg \in ConfigsOf(rule) :
        /\ Exactly(token.iss, Trim(cfg.issuer))
        /\ Exactly(token.aud, Trim(cfg.audience))
        /\ token.signedBy = IF ~MultiIssuer(policy) /\ IsBlank(cfg.jwksURL)
                            THEN DefaultJWKS ELSE Trim(cfg.jwksURL)
    /\ Exactly(token.sub, Trim(rule.subject))
    /\ ~IsBlank(capability)
    /\ \E c \in rule.capabilities : Trim(c) = Trim(capability)
    /\ rule.requireRepoURLs = "true" =>
        /\ \A r \in rule.repositories \cup token.repos : r.form # "malformed"
        /\ Identities(rule.repositories) = Identities(token.repos)
        /\ Identities(token.repos) # {}

RulesGranting == {i \in 1 .. Len(policy.policies) :
    Grants(policy.policies[i], request.token, request.capability)}

(* A request is authorized only on the strength of a rule whose own issuer *)
(* signed the token: the subject of one issuer never passes for the same   *)
(* subject of another, and an issuer that is only claimed counts nothing.  *)
GrantJustified == decision = "authorized" => RulesGranting # {}

(* No rule of a policy the broker serves under is dead: what some rule     *)
(* grants is authorized, wherever the rule stands in the file, because     *)
(* Validate and NewVerifierSet have refused the files in which an earlier  *)
(* rule or another alias would shadow it.  With GrantJustified, a decision *)
(* is determined by the files and the request, not by the order in which   *)
(* a Go map of issuers was read.                                           *)
NoDeadRule == decision \in {"token_invalid", "not_authorized"} => RulesGranting = {}

(* Material is answered only for an authorized request, from the binding   *)
(* of the capability that some rule of the policy lists, one that is sound *)
(* (Config.Validate has refused any other file), and never from another    *)
(* broker, which a server's bindings may name all the same.                *)
ReleaseGranted == answer = "material" =>
    /\ decision = "authorized"
    /\ bindings.capabilities[Key].sound
    /\ bindings.capabilities[Key].provider # "broker"
    /\ \E i \in RulesGranting : \E c \in policy.policies[i].capabilities :
        Trim(c) = Key.name

Inv == TypeOK /\ PlaintextConfined /\ ReleaseGranted

(* What serving says of the configuration; what the proofs rest on.        *)
ServingConfigured ==
    phase = "serving" =>
        /\ Acceptable
        /\ transport = TransportOf(flags)
        /\ trusted = TrustedIssuers(policy, DefaultJWKS)
=============================================================================
