----------------------------- MODULE JwksCache -----------------------------
(***************************************************************************)
(* The signing-key cache of broker.Verifier (internal/broker/verify.go).   *)
(*                                                                         *)
(* Concurrent Verify calls share two mutexes.  mu guards the cached keys   *)
(* and their time of receipt, and is only held for a read or a write, so a *)
(* critical section of mu is part of one action here.  refreshMu is held   *)
(* for the whole HTTP exchange with the JWKS endpoint: it is a variable,   *)
(* and acquiring it, the endpoint's answer and the publication of the      *)
(* answer are separate actions.                                            *)
(*                                                                         *)
(* Time is an integer clock.  Computation takes no time; waiting for a     *)
(* mutex or for the endpoint may.  The issuer's endpoint rotates keys at   *)
(* any moment, and every exchange may fail.                                *)
(***************************************************************************)
EXTENDS JwksDocument

CONSTANTS
    Threads,       \* concurrent callers of Verify (request handlers)
    Served,        \* documents the endpoint may serve
    Tokens,        \* bearer tokens callers present, see TokenShape
    NoThread,      \* "refreshMu is not held"
    NoToken,       \* what a thread that is not in Verify holds
    TTL,           \* jwksCacheTTL
    MinInterval,   \* jwksUnknownKidMinInterval
    FetchTimeout,  \* jwksTimeout
    Skew,          \* defaultSkew
    MaxLifetime,   \* maxTokenLifetime
    MaxClock,      \* bound: the last instant of a behaviour
    MaxVersion     \* bound: the number of key sets the issuer publishes

(* What of a token the verifier's decision depends on: the kid header,     *)
(* whether alg is RS256, whether the signature verifies under the key      *)
(* named kid, whether iss, aud, nbf and sub are acceptable, and exp.       *)
TokenShape == [kid : Kids, rs256 : BOOLEAN, signed : BOOLEAN,
               claims : BOOLEAN, exp : Nat]

ASSUME NoThreadAssumption == NoThread \notin Threads
ASSUME ServedAssumption == Served # {} /\ Served \subseteq Seq(Entry)
ASSUME TokensAssumption == Tokens \subseteq TokenShape /\ NoToken \notin Tokens
ASSUME TimesAssumption ==
    /\ TTL \in Nat \ {0} /\ MinInterval \in Nat /\ FetchTimeout \in Nat
    /\ Skew \in Nat /\ MaxLifetime \in Nat
    /\ MaxClock \in Nat /\ MaxVersion \in Nat

VARIABLES
    clock,      \* the time every nowFn() call reads
    origin,     \* what the endpoint publishes: [ver, kids]
    since,      \* history: when each kid was last added to origin
    until,      \* history: when each kid was last withdrawn from origin
    keys,       \* Verifier.keys, with the version it was parsed from
    fetchedAt,  \* Verifier.fetchedAt
    lastForced, \* Verifier.lastForcedRefresh
    attempt,    \* history: the last forced fetch, when sent and whether it failed
    refreshMu,  \* the holder of Verifier.refreshMu
    pc,         \* where each Verify call is
    tok,        \* the token of each call
    started,    \* the time ensureKeys read when the call began
    sent,       \* when the call's HTTP request in flight was sent
    doc,        \* the endpoint's answer to it, NoDoc before there is one
    result      \* the outcome of each thread's last call

environment == <<clock, origin, since, until>>
cache == <<keys, fetchedAt, lastForced>>
calls == <<pc, tok, started, sent, doc, result>>
vars == <<environment, cache, attempt, refreshMu, calls>>

(* Earlier than every time the specification compares it with: the zero    *)
(* time.Time of an unset field, and "not yet" for a history variable.      *)
Never == -(TTL + FetchTimeout + MinInterval + 1)

Documents == [ver : Nat, kids : SUBSET Kids]
NoDoc == [ver |-> 0, kids |-> {}]

(* What the verifier makes of the documents: a document that is refused    *)
(* counts as one without keys.                                             *)
KeySets == {ParseJWKS(d) : d \in Served}

Locations == {"idle", "ensure", "waitTTL", "fetchTTL", "lookup",
              "waitKid", "fetchKid", "relookup", "check"}
Fetching == {"fetchTTL", "fetchKid"}
Results == {"none", "unavailable", "unknown_key", "rejected", "accepted"}

-----------------------------------------------------------------------------
(* Mutants: a cache that never expires, and no cap on the lifetime.        *)
CacheValidForever(now) == keys.kids # {}
TokenAcceptableUncapped(token, now) ==
    token.signed /\ token.claims /\ now < token.exp + Skew

(* cacheValid: there are keys and they are younger than the TTL.           *)
CacheValid(now) == keys.kids # {} /\ now - fetchedAt < TTL

(* The throttle of refreshForKid.                                          *)
Suppressed(now) == lastForced # Never /\ now - lastForced < MinInterval

(* Everything Verify and the JWT library check once the key is known: the  *)
(* signature, the registered claims, exp with leeway, and the cap on the   *)
(* remaining lifetime.                                                     *)
TokenAcceptable(token, now) ==
    /\ token.signed
    /\ token.claims
    /\ now < token.exp + Skew
    /\ token.exp <= now + MaxLifetime + Skew

-----------------------------------------------------------------------------
Init ==
    /\ clock = 0
    /\ \E kids \in KeySets : origin = [ver |-> 1, kids |-> kids]
    /\ since = [k \in Kids |-> Never]
    /\ until = [k \in Kids |-> Never]
    /\ keys = NoDoc
    /\ fetchedAt = Never
    /\ lastForced = Never
    /\ attempt = [at |-> Never, failed |-> FALSE]
    /\ refreshMu = NoThread
    /\ pc = [t \in Threads |-> "idle"]
    /\ tok = [t \in Threads |-> NoToken]
    /\ started = [t \in Threads |-> 0]
    /\ sent = [t \in Threads |-> 0]
    /\ doc = [t \in Threads |-> NoDoc]
    /\ result = [t \in Threads |-> "none"]

(* A deadline of the HTTP client is never overrun: time passes only while  *)
(* every exchange in flight is younger than its timeout.                   *)
Tick ==
    /\ clock < MaxClock
    /\ \A t \in Threads : pc[t] \in Fetching => clock - sent[t] < FetchTimeout
    /\ clock' = clock + 1
    /\ UNCHANGED <<origin, since, until, cache, attempt, refreshMu, calls>>

(* The issuer publishes another document: it adds new signing keys,        *)
(* withdraws old ones, does both at once, or publishes one that is         *)
(* refused, which withdraws all of them.                                   *)
Rotate ==
    /\ origin.ver < MaxVersion
    /\ \E kids \in KeySets :
        /\ kids # origin.kids
        /\ origin' = [ver |-> origin.ver + 1, kids |-> kids]
        /\ since' = [k \in Kids |->
                        IF k \in kids \ origin.kids THEN clock ELSE since[k]]
        /\ until' = [k \in Kids |->
                        IF k \in origin.kids \ kids THEN clock ELSE until[k]]
    /\ UNCHANGED <<clock, cache, attempt, refreshMu, calls>>

Goto(t, loc) == pc' = [pc EXCEPT ![t] = loc]

(* Verify returns: its locals are gone, only the outcome remains.          *)
Return(t, res) ==
    /\ Goto(t, "idle")
    /\ result' = [result EXCEPT ![t] = res]
    /\ tok' = [tok EXCEPT ![t] = NoToken]
    /\ started' = [started EXCEPT ![t] = 0]
    /\ sent' = [sent EXCEPT ![t] = 0]
    /\ doc' = [doc EXCEPT ![t] = NoDoc]

(* Verify goes on without returning.                                       *)
Continue(t, loc) == Goto(t, loc) /\ UNCHANGED <<tok, started, sent, doc, result>>

(* Send the HTTP request, holding refreshMu.                               *)
BeginFetch(t, loc) ==
    /\ refreshMu' = t
    /\ sent' = [sent EXCEPT ![t] = clock]
    /\ Goto(t, loc)
    /\ UNCHANGED <<tok, started, doc, result>>

-----------------------------------------------------------------------------
(* Mutants: plausible bugs in the handlers below.  No specification uses   *)
(* them; each breaks a property when it takes the place of the original.   *)

(* Every verification goes through refreshMu.                              *)
EnsureKeysAlwaysRefreshing(t) ==
    /\ pc[t] = "ensure"
    /\ Continue(t, "waitTTL")
    /\ UNCHANGED <<environment, cache, attempt, refreshMu>>

(* No second look at the cache under refreshMu.                            *)
RefreshKeysUnchecked(t) ==
    /\ pc[t] = "waitTTL"
    /\ refreshMu = NoThread
    /\ BeginFetch(t, "fetchTTL")
    /\ UNCHANGED <<environment, cache, attempt>>

(* The forced refresh does not take refreshMu.                             *)
RefreshForKidUnlocked(t) ==
    /\ pc[t] = "waitKid"
    /\ \/ /\ tok[t].kid \in keys.kids \/ Suppressed(clock)
          /\ Continue(t, "relookup")
          /\ UNCHANGED <<attempt, refreshMu>>
       \/ /\ tok[t].kid \notin keys.kids
          /\ ~Suppressed(clock)
          /\ BeginFetch(t, "fetchKid")
          /\ attempt' = [at |-> clock, failed |-> FALSE]
    /\ UNCHANGED <<environment, cache>>

(* A forced refresh is not stamped.                                        *)
PublishKeysUnstamped(t) ==
    /\ pc[t] \in Fetching
    /\ doc[t].kids # {}
    /\ keys' = doc[t]
    /\ fetchedAt' = clock
    /\ refreshMu' = NoThread
    /\ doc' = [doc EXCEPT ![t] = NoDoc]
    /\ sent' = [sent EXCEPT ![t] = 0]
    /\ Goto(t, IF pc[t] = "fetchKid" THEN "relookup" ELSE "lookup")
    /\ UNCHANGED <<environment, lastForced, attempt, tok, started, result>>

(* A failed forced refresh is stamped as well.                             *)
FetchFailsStamped(t) ==
    /\ pc[t] \in Fetching
    /\ refreshMu' = NoThread
    /\ lastForced' = IF pc[t] = "fetchKid" THEN clock ELSE lastForced
    /\ attempt' = [attempt EXCEPT !.failed = @ \/ pc[t] = "fetchKid"]
    /\ Return(t, "unavailable")
    /\ UNCHANGED <<environment, keys, fetchedAt>>

(* The error path of fetchKeys leaves refreshMu locked.                    *)
FetchFailsLocked(t) ==
    /\ pc[t] \in Fetching
    /\ attempt' = [attempt EXCEPT !.failed = @ \/ pc[t] = "fetchKid"]
    /\ Return(t, "unavailable")
    /\ UNCHANGED <<environment, cache, refreshMu>>

(* A call tries again until a fetch succeeds.                              *)
FetchFailsRetrying(t) ==
    /\ pc[t] \in Fetching
    /\ refreshMu' = NoThread
    /\ attempt' = [attempt EXCEPT !.failed = @ \/ pc[t] = "fetchKid"]
    /\ Goto(t, IF pc[t] = "fetchKid" THEN "waitKid" ELSE "waitTTL")
    /\ doc' = [doc EXCEPT ![t] = NoDoc]
    /\ sent' = [sent EXCEPT ![t] = 0]
    /\ UNCHANGED <<environment, cache, tok, started, result>>

-----------------------------------------------------------------------------
(* Verify is called without a token: it fails before any key is needed.    *)
VerifyEmpty(t) ==
    /\ pc[t] = "idle"
    /\ Return(t, "rejected")
    /\ UNCHANGED <<environment, cache, attempt, refreshMu>>

(* Verify is called with a token; ensureKeys reads the time before it      *)
(* takes mu.                                                               *)
Verify(t) ==
    /\ pc[t] = "idle"
    /\ \E token \in Tokens : tok' = [tok EXCEPT ![t] = token]
    /\ started' = [started EXCEPT ![t] = clock]
    /\ result' = [result EXCEPT ![t] = "none"]
    /\ Goto(t, "ensure")
    /\ UNCHANGED <<environment, cache, attempt, refreshMu, sent, doc>>

(* ensureKeys, under mu, with the time read above.                         *)
EnsureKeys(t) ==
    /\ pc[t] = "ensure"
    /\ Continue(t, IF CacheValid(started[t]) THEN "lookup" ELSE "waitTTL")
    /\ UNCHANGED <<environment, cache, attempt, refreshMu>>

(* refreshKeys: having taken refreshMu, look at the cache again, since     *)
(* another call may have filled it meanwhile.                              *)
RefreshKeys(t) ==
    /\ pc[t] = "waitTTL"
    /\ refreshMu = NoThread
    /\ \/ /\ CacheValid(clock)
          /\ Continue(t, "lookup")
          /\ UNCHANGED refreshMu
       \/ /\ ~CacheValid(clock)
          /\ BeginFetch(t, "fetchTTL")
    /\ UNCHANGED <<environment, cache, attempt>>

(* The key function's first lookup of the token's kid.  A token with       *)
(* another algorithm is refused before the lookup.                         *)
LookupKey(t) ==
    /\ pc[t] = "lookup"
    /\ \/ /\ ~tok[t].rs256
          /\ Return(t, "rejected")
       \/ /\ tok[t].rs256
          /\ Continue(t, IF tok[t].kid \in keys.kids THEN "check" ELSE "waitKid")
    /\ UNCHANGED <<environment, cache, attempt, refreshMu>>

(* refreshForKid: having taken refreshMu, skip the fetch when the kid has  *)
(* appeared meanwhile or the last forced refresh is too recent.            *)
RefreshForKid(t) ==
    /\ pc[t] = "waitKid"
    /\ refreshMu = NoThread
    /\ \/ /\ tok[t].kid \in keys.kids \/ Suppressed(clock)
          /\ Continue(t, "relookup")
          /\ UNCHANGED <<attempt, refreshMu>>
       \/ /\ tok[t].kid \notin keys.kids
          /\ ~Suppressed(clock)
          /\ BeginFetch(t, "fetchKid")
          /\ attempt' = [at |-> clock, failed |-> FALSE]
    /\ UNCHANGED <<environment, cache>>

(* The endpoint answers with the key set it publishes at that moment.      *)
EndpointAnswers(t) ==
    /\ pc[t] \in Fetching
    /\ doc[t] = NoDoc
    /\ doc' = [doc EXCEPT ![t] = origin]
    /\ UNCHANGED <<environment, cache, attempt, refreshMu, pc, tok, started, sent, result>>

(* fetchKeys succeeds: the answer becomes the cache, stamped with the time *)
(* of receipt; a forced refresh is stamped too; refreshMu is released.     *)
(* Other calls can only look keys up between the publication and the       *)
(* stamp, and the stamp is not read by a lookup: one action is enough.     *)
PublishKeys(t) ==
    /\ pc[t] \in Fetching
    /\ doc[t].kids # {}
    /\ keys' = doc[t]
    /\ fetchedAt' = clock
    /\ lastForced' = IF pc[t] = "fetchKid" THEN clock ELSE lastForced
    /\ refreshMu' = NoThread
    /\ doc' = [doc EXCEPT ![t] = NoDoc]
    /\ sent' = [sent EXCEPT ![t] = 0]
    /\ Goto(t, IF pc[t] = "fetchKid" THEN "relookup" ELSE "lookup")
    /\ UNCHANGED <<environment, attempt, tok, started, result>>

(* fetchKeys fails: a transport error, a status other than 200, a body     *)
(* that cannot be read or is too large, a document without a usable key,   *)
(* or the timeout or the caller's context ending the exchange.  The cache  *)
(* and the throttle keep their values, and the call fails.                 *)
FetchFails(t) ==
    /\ pc[t] \in Fetching
    /\ refreshMu' = NoThread
    /\ attempt' = [attempt EXCEPT !.failed = @ \/ pc[t] = "fetchKid"]
    /\ Return(t, "unavailable")
    /\ UNCHANGED <<environment, cache>>

(* The second and last lookup, after refreshForKid.                        *)
RelookupKey(t) ==
    /\ pc[t] = "relookup"
    /\ \/ /\ tok[t].kid \in keys.kids
          /\ Continue(t, "check")
       \/ /\ tok[t].kid \notin keys.kids
          /\ Return(t, "unknown_key")
    /\ UNCHANGED <<environment, cache, attempt, refreshMu>>

(* The key was found: verify the signature and the claims, and return.     *)
CheckToken(t) ==
    /\ pc[t] = "check"
    /\ Return(t, IF TokenAcceptable(tok[t], clock) THEN "accepted" ELSE "rejected")
    /\ UNCHANGED <<environment, cache, attempt, refreshMu>>

Step(t) ==
    \/ VerifyEmpty(t) \/ Verify(t) \/ EnsureKeys(t) \/ RefreshKeys(t)
    \/ LookupKey(t) \/ RefreshForKid(t) \/ EndpointAnswers(t)
    \/ PublishKeys(t) \/ FetchFails(t) \/ RelookupKey(t) \/ CheckToken(t)

Next == Tick \/ Rotate \/ \E t \in Threads : Step(t)

Spec == Init /\ [][Next]_vars

(* Fairness.  A call computes on.                                         *)
Compute(t) == EnsureKeys(t) \/ LookupKey(t) \/ RelookupKey(t) \/ CheckToken(t)

FairSpec == Spec /\ \A t \in Threads : WF_vars(Compute(t))

(* An HTTP exchange ends within the timeout of its client whatever the     *)
(* endpoint does, and sync.Mutex hands itself to a waiter that has waited  *)
(* too long: strong fairness of the acquisition of refreshMu, in whichever *)
(* of the two functions.  Nothing makes a caller call or an endpoint       *)
(* answer.                                                                 *)
EndExchange == \E t \in Threads : PublishKeys(t) \/ FetchFails(t)
Acquire(t) == RefreshKeys(t) \/ RefreshForKid(t)

ExchangesEnd ==
    /\ WF_vars(EndExchange)
    /\ \A t \in Threads : SF_vars(Acquire(t))

-----------------------------------------------------------------------------
(* A kid under which a key is looked up names one key for signing in the   *)
(* document that was served, whatever else its issuer put there.           *)
KidsUnambiguous == \A d \in Served : NamesOneKey(d)

(* Every variable holds a value of the kind the code gives it.             *)
TypeOK ==
    /\ KidsUnambiguous
    /\ clock \in 0 .. MaxClock
    /\ origin \in Documents
    /\ since \in [Kids -> Int] /\ until \in [Kids -> Int]
    /\ keys \in Documents /\ fetchedAt \in Int /\ lastForced \in Int
    /\ attempt \in [at : Int, failed : BOOLEAN]
    /\ refreshMu \in Threads \cup {NoThread}
    /\ pc \in [Threads -> Locations]
    /\ tok \in [Threads -> Tokens \cup {NoToken}]
    /\ started \in [Threads -> Nat] /\ sent \in [Threads -> Nat]
    /\ doc \in [Threads -> Documents]
    /\ result \in [Threads -> Results]

(* The issuer has published k at some moment from the given time on.       *)
PublishedSince(k, time) == k \in origin.kids \/ until[k] >= time

(* The issuer has published k at every moment since before the given time. *)
PublishedThroughout(k, time) == k \in origin.kids /\ since[k] < time

Returns(t, res) == pc[t] # "idle" /\ pc'[t] = "idle" /\ result'[t] = res

(* refreshMu is held exactly by the call whose exchange is in flight.      *)
HolderFetches == \A t \in Threads : pc[t] \in Fetching <=> refreshMu = t

(* A call holds a token, a thread outside a call holds none, and outside   *)
(* an exchange there is no answer.                                         *)
LocalsInUse == \A t \in Threads :
    /\ pc[t] # "idle" => tok[t] \in Tokens
    /\ pc[t] = "idle" => tok[t] = NoToken /\ started[t] = 0
    /\ pc[t] \notin Fetching => doc[t] = NoDoc

(* Recorded times are in the past; an exchange is no older than its        *)
(* timeout, and younger than the last fetch and its own call.              *)
TimesOrdered ==
    /\ fetchedAt <= clock /\ Never <= lastForced /\ lastForced <= clock
    /\ \A k \in Kids : Never <= since[k] /\ since[k] <= clock /\ until[k] <= clock
    /\ \A t \in Threads :
        /\ started[t] <= clock
        /\ pc[t] \in Fetching =>
            /\ sent[t] <= clock /\ clock - sent[t] <= FetchTimeout
            /\ started[t] <= sent[t] /\ lastForced <= sent[t]

(* An answer lies between the cache and the issuer in age, lists only keys *)
(* published since it was asked for, and all those published throughout.   *)
AnswersCurrent ==
    /\ keys.ver <= origin.ver
    /\ \A t \in Threads : doc[t] # NoDoc =>
        /\ keys.ver <= doc[t].ver /\ doc[t].ver <= origin.ver
        /\ \A k \in doc[t].kids : PublishedSince(k, sent[t])
        /\ \A k \in Kids : PublishedThroughout(k, sent[t]) => k \in doc[t].kids

(* The same of the cache, within the duration of an exchange.              *)
CacheCurrent ==
    /\ \A k \in keys.kids : PublishedSince(k, fetchedAt - FetchTimeout)
    /\ \A k \in Kids :
        PublishedThroughout(k, lastForced - FetchTimeout) => k \in keys.kids

(* A call past ensureKeys relies on keys that were valid when it began; a  *)
(* refresh of the TTL path replaces keys that were no longer valid; a key  *)
(* a call has found was published within the staleness bound; and when it  *)
(* looks a kid up for the last time, a kid published for long is there.    *)
CallCurrent(t) ==
    /\ pc[t] \in {"lookup", "waitKid", "fetchKid", "relookup"} =>
        keys.kids # {} /\ started[t] - fetchedAt < TTL
    /\ pc[t] \in {"waitKid", "fetchKid", "relookup", "check"} => tok[t].rs256
    /\ pc[t] = "fetchTTL" => ~CacheValid(sent[t])
    /\ pc[t] = "check" =>
        PublishedSince(tok[t].kid, started[t] - (TTL + FetchTimeout))
    /\ pc[t] = "relookup" =>
        /\ PublishedThroughout(tok[t].kid, started[t] - (MinInterval + FetchTimeout))
              => tok[t].kid \in keys.kids
        /\ \A u \in Threads : pc[u] \in Fetching => started[t] <= sent[u]
CallsCurrent == \A t \in Threads : CallCurrent(t)

(* The last forced fetch failed, is in flight, or is covered by the stamp. *)
AttemptRecorded ==
    /\ attempt.failed \/ attempt.at <= lastForced
        \/ \E t \in Threads : pc[t] = "fetchKid"
    /\ attempt.at <= clock

(* The inductive invariant the proofs rest on.                             *)
Inv == /\ TypeOK /\ HolderFetches /\ LocalsInUse /\ TimesOrdered
       /\ AnswersCurrent /\ CacheCurrent /\ CallsCurrent /\ AttemptRecorded

(* A signing key the issuer has withdrawn stops being accepted: the key    *)
(* that verified an accepted token was published no earlier than one TTL   *)
(* and one exchange before the call began, however long the call waited    *)
(* for refreshMu and whatever the other calls fetched.  In particular an   *)
(* expired cache is never used because the endpoint is down.               *)
AcceptedKeyFresh == [][\A t \in Threads :
    Returns(t, "accepted") =>
        PublishedSince(tok[t].kid, started[t] - (TTL + FetchTimeout))]_vars

(* The cache never goes back to an older key set: concurrent fetches may   *)
(* not publish their answers in another order than the endpoint gave them. *)
KeySetsInOrder == [][keys'.ver >= keys.ver]_vars

(* A rotated key is observed: a call whose kid has been published for      *)
(* longer than the throttle interval and one exchange never misses it in   *)
(* the last lookup, though the forced refresh may be suppressed.  (A       *)
(* forced refresh that fails ends the call as "unavailable" here.)         *)
RotationObserved == [][\A t \in Threads :
    Returns(t, "unknown_key") =>
        ~PublishedThroughout(tok[t].kid,
                             started[t] - (MinInterval + FetchTimeout))]_vars

(* The throttle: a forced fetch is sent at least the minimum interval      *)
(* after the previous one was sent, unless that one failed.                *)
ForcedFetchSpacing == [][\A t \in Threads :
    (pc[t] # "fetchKid" /\ pc'[t] = "fetchKid") =>
        attempt.failed \/ clock - attempt.at >= MinInterval]_vars

(* The throttle as the comment of refreshForKid and the security document  *)
(* state it, for failed fetches as well.                                   *)
ForcedFetchThrottled == [][\A t \in Threads :
    (pc[t] # "fetchKid" /\ pc'[t] = "fetchKid") =>
        clock - attempt.at >= MinInterval]_vars

(* Calls that find the cache expired together cause one fetch: a refresh   *)
(* of the TTL path never replaces keys that are still valid.               *)
ExpiryCoalesced == [][\A t \in Threads :
    (pc[t] = "fetchTTL" /\ keys' # keys /\ refreshMu = t) =>
        keys.kids = {} \/ clock - fetchedAt >= TTL]_vars

(* The cache implements what KeyTrust promises of it.                      *)
Trust == INSTANCE KeyTrust WITH
    Staleness <- TTL + FetchTimeout,
    ObservationDelay <- MinInterval + FetchTimeout,
    Unset <- Never

(* Every verdict of a call is one that the issuer's published keys justify *)
(* within the delays of the cache and the throttle: the cache, its mutexes *)
(* and its fetches implement the abstract verifier.                        *)
VerdictsJustified == Trust!Spec

(* Every call of Verify returns, though calls queue on refreshMu behind    *)
(* exchanges that may all fail.                                            *)
CallsReturn == ExchangesEnd => \A t \in Threads : pc[t] # "idle" ~> pc[t] = "idle"

(* A call that finds valid keys with its kid among them does not wait for  *)
(* refreshMu: it returns even while another call's exchange hangs.         *)
KnownKidNotBlocked == \A t \in Threads :
    (pc[t] = "ensure" /\ CacheValid(started[t]) /\ tok[t].kid \in keys.kids)
        ~> (pc[t] = "idle" \/ tok[t].kid \notin keys.kids)
=============================================================================
