----------------------------- MODULE BrokerCall -----------------------------
(***************************************************************************)
(* The broker provider of pade (internal/binding/broker/provider.go): it   *)
(* obtains a workload identity token, from Cursor's identity socket with   *)
(* retries (internal/identity/cursor/source.go), from the GCE metadata     *)
(* server (internal/identity/gce/source.go) or fixed by the environment,   *)
(* and sends it with one POST /v1/resolve, whose redirects securehttp      *)
(* checks (internal/securehttp).                                           *)
(*                                                                         *)
(* Requests and answers are lost whenever they like: a material the broker *)
(* has issued may never arrive.  TimedCall adds the timers of both sides.  *)
(* The token cache of the Cursor source is left out: Resolve makes a new   *)
(* source for each call, so the cache is always empty.                     *)
(***************************************************************************)
EXTENDS Naturals

CONSTANTS
    Endpoints,     \* URLs: [tls, loopback, host]
    MaxRetries,    \* maxRetries of the Cursor source
    MaxRedirects   \* the redirects securehttp.Client follows

Endpoint == [tls : BOOLEAN, loopback : BOOLEAN, host : STRING]
Sources == {"cursor", "gce", "fixed", "unsupported"}

ASSUME EndpointsAssumption == Endpoints \subseteq Endpoint
ASSUME LimitsAssumption == MaxRetries \in Nat /\ MaxRedirects \in Nat

VARIABLES
    phase,     \* "start", "mint", "backoff", "post", "answer", "done"
    source,    \* the identity source of the binding
    endpoint,  \* where the resolve request goes, or went last
    via,       \* the endpoints it came through, redirected
    hops,      \* how often it was redirected
    bearing,   \* the request still carries the token
    attempt,   \* of mintWithRetry
    ctxOver,   \* the context of the call is done
    outcome,   \* "none", "error" or "material"
    mints,     \* history: requests made to the identity service
    settled,   \* history: the identity service has given a final answer
    issued,    \* history: resolve requests the broker has fulfilled
    sent       \* history: where the token went, and through which endpoints

call == <<source, ctxOver>>
request == <<endpoint, via, hops, bearing>>
history == <<mints, settled, issued, sent>>
vars == <<phase, call, request, attempt, outcome, history>>

-----------------------------------------------------------------------------
(* securehttp.ValidateURL                                                  *)
Allowed(e) == e.tls \/ e.loopback

(* A mutant of RedirectAllowed: the target is looked at alone.             *)
RedirectAllowedAnywhere(from, to) == hops + 1 < MaxRedirects /\ Allowed(to)

(* The CheckRedirect of securehttp.Client: the requests made so far are    *)
(* one more than the redirects followed.                                   *)
RedirectAllowed(from, to) ==
    /\ hops + 1 < MaxRedirects
    /\ ~(from.tls /\ ~to.tls)
    /\ Allowed(to)

Init ==
    /\ phase = "start"
    /\ source \in Sources
    /\ endpoint \in Endpoints
    /\ via = {}
    /\ hops = 0
    /\ bearing = TRUE
    /\ attempt = 0
    /\ ctxOver = FALSE
    /\ outcome = "none"
    /\ mints = 0 /\ settled = FALSE /\ issued = 0 /\ sent = {}

Fail ==
    /\ phase' = "done"
    /\ outcome' = "error"

(* The request is sent to an endpoint.                                     *)
Send(e, through, withToken) ==
    /\ phase' = "post"
    /\ sent' = IF withToken THEN sent \cup {<<e, through>>} ELSE sent

-----------------------------------------------------------------------------
(* requireConfig and tokenSourceForIdentity.                               *)
RefuseBinding ==
    /\ phase = "start"
    /\ ~Allowed(endpoint) \/ source = "unsupported"
    /\ Fail
    /\ UNCHANGED <<call, request, attempt, history>>

(* A token fixed by PADE_BROKER_FAKE_JWT needs no identity service.        *)
UseFixedToken ==
    /\ phase = "start" /\ source = "fixed" /\ Allowed(endpoint)
    /\ Send(endpoint, via, TRUE)
    /\ UNCHANGED <<call, request, attempt, outcome, mints, settled, issued>>

(* Token: the first request to the identity service; Cursor's socket may   *)
(* not be there.                                                           *)
BeginMint ==
    /\ phase = "start" /\ source \in {"cursor", "gce"} /\ Allowed(endpoint)
    /\ \/ /\ phase' = "mint"
          /\ mints' = mints + 1
          /\ UNCHANGED outcome
       \/ source = "cursor" /\ Fail /\ UNCHANGED mints
    /\ UNCHANGED <<call, request, attempt, settled, issued, sent>>

(* The identity service answers with a token.                              *)
MintSucceeds ==
    /\ phase = "mint" /\ ~ctxOver
    /\ settled' = TRUE
    /\ Send(endpoint, via, TRUE)
    /\ UNCHANGED <<call, request, attempt, outcome, mints, issued>>

(* A mutant of MintRefused: a refusal is retried.                          *)
MintRefusedRetried ==
    /\ phase = "mint" /\ ~ctxOver
    /\ settled' = TRUE
    /\ IF attempt < MaxRetries THEN phase' = "backoff" /\ UNCHANGED outcome ELSE Fail
    /\ UNCHANGED <<call, request, attempt, mints, issued, sent>>

(* It refuses, or its answer makes no sense: final.                        *)
MintRefused ==
    /\ phase = "mint" /\ ~ctxOver
    /\ settled' = TRUE
    /\ Fail
    /\ UNCHANGED <<call, request, attempt, mints, issued, sent>>

(* A mutant of MintFails: one retry too many.                              *)
MintFailsOnceMore ==
    /\ phase = "mint"
    /\ \/ /\ source = "cursor" /\ attempt <= MaxRetries
          /\ phase' = "backoff"
          /\ UNCHANGED outcome
       \/ /\ source = "gce" \/ attempt > MaxRetries
          /\ Fail
    /\ UNCHANGED <<call, request, attempt, history>>

(* No answer, or one of the errors that may pass: Cursor's source tries    *)
(* again, that of GCE does not.                                            *)
MintFails ==
    /\ phase = "mint"
    /\ \/ /\ source = "cursor" /\ attempt < MaxRetries
          /\ phase' = "backoff"
          /\ UNCHANGED outcome
       \/ /\ source = "gce" \/ attempt >= MaxRetries
          /\ Fail
    /\ UNCHANGED <<call, request, attempt, history>>

(* A mutant of BackoffEnds: retries are not counted.                       *)
BackoffEndsUncounted ==
    /\ phase = "backoff"
    /\ \/ /\ phase' = "mint"
          /\ mints' = mints
          /\ UNCHANGED outcome
       \/ ctxOver /\ Fail /\ UNCHANGED mints
    /\ UNCHANGED <<call, request, attempt, settled, issued, sent>>

(* The pause before a retry is over, or the context is.                    *)
BackoffEnds ==
    /\ phase = "backoff"
    /\ \/ /\ attempt' = attempt + 1
          /\ phase' = "mint"
          /\ mints' = mints + 1
          /\ UNCHANGED outcome
       \/ ctxOver /\ Fail /\ UNCHANGED <<attempt, mints>>
    /\ UNCHANGED <<call, request, settled, issued, sent>>

(* The broker fulfils the request, if it has its token; the answer is on   *)
(* its way.                                                                *)
BrokerResolves ==
    /\ phase = "post" /\ bearing
    /\ issued' = issued + 1
    /\ phase' = "answer"
    /\ UNCHANGED <<call, request, attempt, outcome, mints, settled, sent>>

(* The answer arrives, and its environment is usable, or is not.           *)
AnswerArrives ==
    /\ phase = "answer" /\ ~ctxOver
    /\ \/ phase' = "done" /\ outcome' = "material"
       \/ Fail
    /\ UNCHANGED <<call, request, attempt, history>>

(* A mutant of CallFails: a request without an answer is sent again.       *)
CallFailsResending ==
    /\ phase \in {"post", "answer"}
    /\ \/ Fail /\ UNCHANGED history
       \/ phase = "answer" /\ Send(endpoint, via, bearing)
          /\ UNCHANGED <<outcome, mints, settled, issued>>
    /\ UNCHANGED <<call, request, attempt>>

(* The request is denied, fails or times out, before or after the broker   *)
(* has fulfilled it.                                                       *)
CallFails ==
    /\ phase \in {"post", "answer"}
    /\ Fail
    /\ UNCHANGED <<call, request, attempt, history>>

(* The endpoint redirects the request.  The HTTP client keeps method and   *)
(* body or turns the request into a GET, which no broker fulfils; it keeps *)
(* the Authorization header while the host is the same.                    *)
Redirect(to, keep) ==
    /\ phase = "post"
    /\ \/ /\ RedirectAllowed(endpoint, to) /\ keep
          /\ endpoint' = to
          /\ via' = via \cup {endpoint}
          /\ hops' = hops + 1
          /\ bearing' = (bearing /\ to.host = endpoint.host)
          /\ Send(to, via', bearing')
          /\ UNCHANGED outcome
       \/ /\ ~RedirectAllowed(endpoint, to)
          /\ Fail
          /\ UNCHANGED <<request, sent>>
       \/ /\ RedirectAllowed(endpoint, to) /\ ~keep
          /\ Fail
          /\ sent' = IF bearing /\ to.host = endpoint.host
                     THEN sent \cup {<<to, via \cup {endpoint}>>} ELSE sent
          /\ UNCHANGED request
    /\ UNCHANGED <<call, attempt, mints, settled, issued>>

(* The caller gives up.                                                    *)
Cancel ==
    /\ ~ctxOver /\ phase # "done"
    /\ ctxOver' = TRUE
    /\ UNCHANGED <<phase, source, request, attempt, outcome, history>>

Resolve == RefuseBinding \/ UseFixedToken \/ BeginMint \/ BackoffEnds
MintEnds == MintSucceeds \/ MintRefused \/ MintFails
Redirected == \E to \in Endpoints, keep \in BOOLEAN : Redirect(to, keep)

-----------------------------------------------------------------------------
(* Every variable holds a value of its kind; the identity service is asked *)
(* a bounded number of times.                                              *)
CallTypeOK ==
    /\ phase \in {"start", "mint", "backoff", "post", "answer", "done"}
    /\ source \in Sources
    /\ endpoint \in Endpoints /\ via \subseteq Endpoints
    /\ hops \in 0 .. MaxRedirects
    /\ bearing \in BOOLEAN /\ ctxOver \in BOOLEAN /\ settled \in BOOLEAN
    /\ attempt \in 0 .. MaxRetries
    /\ outcome \in {"none", "error", "material"}
    /\ mints \in 0 .. MaxRetries + 1 /\ issued \in Nat
    /\ sent \subseteq Endpoints \X SUBSET Endpoints

(* The token crosses no network in the clear: it goes over TLS, or to this *)
(* host when no endpoint that redirected it used TLS (securehttp).         *)
TokenConfined == \A s \in sent :
    s[1].tls \/ (s[1].loopback /\ \A e \in s[2] : ~e.tls)

(* One call makes the broker issue at most one material: an answer that is *)
(* lost is not asked for again, and an error of the identity service never *)
(* follows a request that was fulfilled.  A material comes from the broker.*)
IssuedOnce ==
    /\ issued <= 1
    /\ outcome = "material" => issued = 1
    /\ phase \in {"start", "mint", "backoff"} => issued = 0

(* The identity service is not asked again once its answer was final: a refusal is not       *)
(* retried, and a token is used.                                           *)
NoMintAfterAnswer == [][settled => mints' = mints]_vars
=============================================================================
