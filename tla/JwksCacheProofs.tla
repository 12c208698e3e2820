-------------------------- MODULE JwksCacheProofs --------------------------
(***************************************************************************)
(* Proofs about JwksCache for every set of threads, kids and tokens and    *)
(* every choice of the times.                                              *)
(***************************************************************************)
EXTENDS JwksCache, TLAPS

\* What parseJWKS returns are kids.
LEMMA KeySetsTyped == KeySets \subseteq SUBSET Kids
<1> SUFFICES ASSUME NEW d \in Served PROVE ParseJWKS(d) \subseteq Kids
  BY DEF KeySets
<1>1. \A i \in DOMAIN d : d[i] \in Entry
  BY ServedAssumption
<1>2. \A i \in Usable(d) : d[i].kid \in Kids
  BY <1>1 DEF Usable, Considered, Entry
<1> QED
  BY <1>2 DEF ParseJWKS

(* Whatever an endpoint serves, an accepted document has one key for a kid *)
(* and none that is for something else: an entry that repeats a kid, or is *)
(* for encryption, refuses the document wherever it stands.                *)
THEOREM DocumentsUnambiguous == KidsUnambiguous
<1> SUFFICES ASSUME NEW d \in Served, ParseJWKS(d) # {}
             PROVE  /\ \A i, j \in Usable(d) : d[i].kid = d[j].kid => i = j
                    /\ \A i \in Considered(d) : ForSigning(d[i])
  BY Zenon DEF KidsUnambiguous, NamesOneKey
<1>1. ~Refused(d)
  BY DEF ParseJWKS
<1>2. Usable(d) \subseteq Considered(d) /\ Usable(d) \subseteq Int
  <2>1. DOMAIN d \subseteq Int
    BY ServedAssumption
  <2>2. Usable(d) \subseteq Considered(d) /\ Considered(d) \subseteq DOMAIN d
    BY DEF Usable, Considered
  <2> QED
    BY <2>1, <2>2
<1>3. ASSUME NEW i \in Usable(d), NEW j \in Usable(d), d[i].kid = d[j].kid PROVE i = j
  BY <1>1, <1>2, <1>3 DEF Refused
<1> QED
  BY <1>1, <1>3 DEF Refused

\* The cache starts with values of the right kind: no keys, every call idle.
LEMMA TypeInit == Init => TypeOK
  BY NoThreadAssumption, TimesAssumption, KeySetsTyped, DocumentsUnambiguous
  DEF Init, TypeOK, Documents, NoDoc, Never, Locations, Results

(* Every step keeps the variables in their types.                          *)
LEMMA TypeStep == TypeOK /\ [Next]_vars => TypeOK'
<1> SUFFICES ASSUME TypeOK, [Next]_vars PROVE TypeOK'
  OBVIOUS
<1> USE NoThreadAssumption, TokensAssumption, TimesAssumption
    DEF TypeOK, Documents, NoDoc, Never, Locations, Results, Fetching,
        environment, cache, calls
<1>1. CASE Tick
  BY <1>1 DEF Tick
<1>2. CASE Rotate
  BY <1>2, KeySetsTyped DEF Rotate
<1>3. ASSUME NEW t \in Threads, Step(t) PROVE TypeOK'
  <2>1. CASE VerifyEmpty(t)
    BY <2>1 DEF VerifyEmpty, Return, Goto
  <2>2. CASE Verify(t)
    BY <2>2 DEF Verify, Goto
  <2>3. CASE EnsureKeys(t)
    BY <2>3 DEF EnsureKeys, Continue, Goto
  <2>4. CASE RefreshKeys(t)
    <3>1. CASE Continue(t, "lookup") /\ UNCHANGED refreshMu
      BY <2>4, <3>1 DEF RefreshKeys, Continue, Goto
    <3>2. CASE BeginFetch(t, "fetchTTL")
      BY <2>4, <3>2 DEF RefreshKeys, BeginFetch, Goto
    <3> QED
      BY <2>4, <3>1, <3>2 DEF RefreshKeys
  <2>5. CASE LookupKey(t)
    <3>1. CASE Return(t, "rejected")
      BY <2>5, <3>1 DEF LookupKey, Return, Goto
    <3>2. CASE \E loc \in {"check", "waitKid"} : Continue(t, loc)
      BY <2>5, <3>2 DEF LookupKey, Continue, Goto
    <3> QED
      BY <2>5, <3>1, <3>2 DEF LookupKey
  <2>6. CASE RefreshForKid(t)
    <3>1. CASE Continue(t, "relookup") /\ UNCHANGED <<attempt, refreshMu>>
      BY <2>6, <3>1 DEF RefreshForKid, Continue, Goto
    <3>2. CASE BeginFetch(t, "fetchKid") /\ attempt' = [at |-> clock, failed |-> FALSE]
      BY <2>6, <3>2 DEF RefreshForKid, BeginFetch, Goto
    <3> QED
      BY <2>6, <3>1, <3>2 DEF RefreshForKid
  <2>7. CASE EndpointAnswers(t)
    BY <2>7 DEF EndpointAnswers
  <2>8. CASE PublishKeys(t)
    BY <2>8 DEF PublishKeys, Goto
  <2>9. CASE FetchFails(t)
    BY <2>9 DEF FetchFails, Return, Goto
  <2>10. CASE RelookupKey(t)
    <3>1. CASE Continue(t, "check")
      BY <2>10, <3>1 DEF RelookupKey, Continue, Goto
    <3>2. CASE Return(t, "unknown_key")
      BY <2>10, <3>2 DEF RelookupKey, Return, Goto
    <3> QED
      BY <2>10, <3>1, <3>2 DEF RelookupKey
  <2>11. CASE CheckToken(t)
    BY <2>11 DEF CheckToken, Return, Goto
  <2> QED
    BY <1>3, <2>1, <2>2, <2>3, <2>4, <2>5, <2>6, <2>7, <2>8, <2>9, <2>10, <2>11 DEF Step
<1>4. CASE UNCHANGED vars
  BY <1>4 DEF vars
<1> QED
  BY <1>1, <1>2, <1>3, <1>4 DEF Next

(* THEOREM: the variables always have their types.                         *)
THEOREM TypeCorrect == Spec => []TypeOK
<1>1. Init => TypeOK
  BY TypeInit
<1>2. TypeOK /\ [Next]_vars => TypeOK'
  BY TypeStep
<1> QED
  BY <1>1, <1>2, PTL DEF Spec

-----------------------------------------------------------------------------
(* The inductive invariant: one lemma for each kind of step.               *)

\* The invariant holds of the empty cache NewVerifier makes.
LEMMA InvInit == Init => Inv
<1> SUFFICES ASSUME Init PROVE Inv
  OBVIOUS
<1>1. TypeOK
  BY TypeInit
<1>2. HolderFetches /\ LocalsInUse
  BY NoThreadAssumption DEF Init, HolderFetches, LocalsInUse, Fetching
<1>3. TimesOrdered
  BY TimesAssumption DEF Init, TimesOrdered, Never, Fetching
<1>4. AnswersCurrent
  BY DEF Init, AnswersCurrent, NoDoc
<1>5. CacheCurrent
  BY TimesAssumption
  DEF Init, CacheCurrent, PublishedThroughout, Never, NoDoc
<1>6. CallsCurrent /\ AttemptRecorded
  BY TimesAssumption DEF Init, CallsCurrent, CallCurrent, AttemptRecorded, Never
<1> QED
  BY <1>1, <1>2, <1>3, <1>4, <1>5, <1>6 DEF Inv

(* A step of one call that touches neither the cache, nor refreshMu, nor   *)
(* an exchange: only the call's own place and locals can break Inv.        *)
LEMMA LocalMove ==
  ASSUME Inv, TypeOK', NEW t \in Threads,
         pc[t] \notin Fetching, pc'[t] \notin Fetching,
         \A u \in Threads \ {t} :
            /\ pc'[u] = pc[u] /\ tok'[u] = tok[u]
            /\ started'[u] = started[u] /\ sent'[u] = sent[u],
         doc' = doc,
         UNCHANGED <<environment, cache, attempt, refreshMu>>,
         started'[t] <= clock,
         pc'[t] # "idle" => tok'[t] \in Tokens,
         pc'[t] = "idle" => tok'[t] = NoToken /\ started'[t] = 0,
         CallCurrent(t)'
  PROVE  Inv'
<1> USE DEF environment, cache
<1>1. HolderFetches'
  BY DEF Inv, HolderFetches
<1>2. LocalsInUse'
  BY DEF Inv, LocalsInUse
<1>3. TimesOrdered'
  BY DEF Inv, TimesOrdered, Never
<1>4. AnswersCurrent'
  <2>1. ASSUME NEW u \in Threads, doc[u] # NoDoc PROVE sent'[u] = sent[u]
    BY <2>1 DEF Inv, LocalsInUse
  <2> QED
    BY <2>1 DEF Inv, AnswersCurrent, PublishedSince, PublishedThroughout
<1>5. CacheCurrent'
  BY DEF Inv, CacheCurrent, PublishedSince, PublishedThroughout
<1>6. CallsCurrent'
  <2>1. ASSUME NEW u \in Threads, u # t PROVE CallCurrent(u)'
    BY <2>1 DEF Inv, CallsCurrent, CallCurrent, CacheValid, PublishedSince, PublishedThroughout
  <2> QED
    BY <2>1 DEF CallsCurrent
<1>7. AttemptRecorded'
  BY DEF Inv, AttemptRecorded, Fetching
<1> QED
  BY <1>1, <1>2, <1>3, <1>4, <1>5, <1>6, <1>7 DEF Inv

\* A call without a token returns at once and disturbs nothing.
LEMMA VerifyEmptyStep ==
  ASSUME Inv, TypeOK', NEW t \in Threads, VerifyEmpty(t) PROVE Inv'
<1> USE DEF VerifyEmpty, Return, Goto, Inv, TypeOK, Fetching
<1>1. pc'[t] = "idle" /\ tok'[t] = NoToken /\ started'[t] = 0 /\ doc' = doc
  BY DEF LocalsInUse
<1>2. CallCurrent(t)'
  BY <1>1 DEF CallCurrent
<1>3. started'[t] <= clock
  BY DEF TimesOrdered
<1> QED
  BY <1>1, <1>2, <1>3, LocalMove

\* The start of a call records its token and its time, and no other call.
LEMMA VerifyStep ==
  ASSUME Inv, TypeOK', NEW t \in Threads, Verify(t) PROVE Inv'
<1> USE DEF Verify, Goto, Inv, TypeOK, Fetching
<1>1. pc'[t] = "ensure" /\ started'[t] = clock /\ tok'[t] \in Tokens
  OBVIOUS
<1>2. CallCurrent(t)'
  BY <1>1 DEF CallCurrent
<1> QED
  BY <1>1, <1>2, LocalMove

(* A call moves on without returning.                                      *)
LEMMA ContinueStep ==
  ASSUME Inv, TypeOK', NEW t \in Threads, NEW loc \in Locations \ Fetching,
         loc # "idle", pc[t] \notin Fetching, pc[t] # "idle", Continue(t, loc),
         UNCHANGED <<environment, cache, attempt, refreshMu>>,
         CallCurrent(t)'
  PROVE  Inv'
<1>1. pc'[t] = loc /\ \A u \in Threads \ {t} : pc'[u] = pc[u]
  BY DEF Continue, Goto, Inv, TypeOK
<1>2. started'[t] <= clock
  BY DEF Continue, Inv, TimesOrdered
<1>3. tok'[t] \in Tokens
  BY DEF Continue, Inv, LocalsInUse
<1> QED
  BY <1>1, <1>2, <1>3, LocalMove DEF Continue

(* A call returns, without an exchange of its own in flight.               *)
LEMMA ReturnStep ==
  ASSUME Inv, TypeOK', NEW t \in Threads, NEW res \in Results,
         pc[t] \notin Fetching, Return(t, res),
         UNCHANGED <<environment, cache, attempt, refreshMu>>
  PROVE  Inv'
<1> USE DEF Return, Goto, Inv, TypeOK
<1>1. /\ pc'[t] = "idle" /\ "idle" \notin Fetching
      /\ tok'[t] = NoToken /\ started'[t] = 0
  BY DEF Fetching
<1>2. \A u \in Threads \ {t} :
        /\ pc'[u] = pc[u] /\ tok'[u] = tok[u]
        /\ started'[u] = started[u] /\ sent'[u] = sent[u]
  OBVIOUS
<1>3. doc' = doc
  BY DEF LocalsInUse
<1>4. CallCurrent(t)'
  BY <1>1 DEF CallCurrent
<1>5. started'[t] <= clock
  OBVIOUS
<1> QED
  BY <1>1, <1>2, <1>3, <1>4, <1>5, LocalMove

\* The fast path of ensureKeys moves the call on and touches no key.
LEMMA EnsureKeysStep ==
  ASSUME Inv, TypeOK', NEW t \in Threads, EnsureKeys(t) PROVE Inv'
<1> USE DEF EnsureKeys
<1>1. PICK loc \in {"lookup", "waitTTL"} :
        Continue(t, loc) /\ (loc = "lookup" => CacheValid(started[t]))
  OBVIOUS
<1>2. loc \in Locations \ Fetching
  BY DEF Locations, Fetching
<1>3. CallCurrent(t)'
  BY <1>1 DEF CallCurrent, CacheValid, Continue, Goto, cache, Inv, TypeOK
<1> QED
  BY <1>1, <1>2, <1>3, ContinueStep DEF Fetching

\* The first lookup returns a verdict or moves on to the throttle.
LEMMA LookupKeyStep ==
  ASSUME Inv, TypeOK', NEW t \in Threads, LookupKey(t) PROVE Inv'
<1> USE DEF LookupKey
<1>1. CASE Return(t, "rejected")
  BY <1>1, ReturnStep DEF Results, Fetching
<1>2. CASE tok[t].rs256 /\ \E loc \in {"check", "waitKid"} :
              Continue(t, loc) /\ (loc = "check" => tok[t].kid \in keys.kids)
  <2>1. PICK loc \in {"check", "waitKid"} :
          Continue(t, loc) /\ (loc = "check" => tok[t].kid \in keys.kids)
    BY <1>2
  <2>2. loc \in Locations \ Fetching
    BY DEF Locations, Fetching
  <2>3. keys.kids # {} /\ started[t] - fetchedAt < TTL
    BY DEF Inv, CallsCurrent, CallCurrent
  <2>4. tok[t].kid \in keys.kids =>
          PublishedSince(tok[t].kid, started[t] - (TTL + FetchTimeout))
    BY <2>3, TimesAssumption DEF Inv, TypeOK, CacheCurrent, PublishedSince, Documents
  <2>5. CallCurrent(t)'
    BY <1>2, <2>1, <2>3, <2>4
    DEF CallCurrent, Continue, Goto, Inv, TypeOK, cache, environment, PublishedSince
  <2> QED
    BY <2>1, <2>2, <2>5, ContinueStep DEF Fetching
<1> QED
  BY <1>1, <1>2

\* The lookup after a forced refresh returns a verdict or goes on to the check.
LEMMA RelookupKeyStep ==
  ASSUME Inv, TypeOK', NEW t \in Threads, RelookupKey(t) PROVE Inv'
<1> USE DEF RelookupKey
<1>1. CASE Return(t, "unknown_key")
  BY <1>1, ReturnStep DEF Results, Fetching
<1>2. CASE tok[t].kid \in keys.kids /\ Continue(t, "check")
  <2>1. "check" \in Locations \ Fetching
    BY DEF Locations, Fetching
  <2>2. keys.kids # {} /\ started[t] - fetchedAt < TTL
    BY DEF Inv, CallsCurrent, CallCurrent
  <2>3. PublishedSince(tok[t].kid, started[t] - (TTL + FetchTimeout))
    BY <1>2, <2>2, TimesAssumption
    DEF Inv, TypeOK, CacheCurrent, PublishedSince, Documents
  <2>4. tok[t].rs256
    BY DEF Inv, CallsCurrent, CallCurrent
  <2>5. CallCurrent(t)'
    BY <1>2, <2>3, <2>4
    DEF CallCurrent, Continue, Goto, Inv, TypeOK, cache, environment, PublishedSince
  <2> QED
    BY <1>2, <2>1, <2>5, ContinueStep DEF Fetching
<1> QED
  BY <1>1, <1>2

\* The check of signature and claims returns a verdict.
LEMMA CheckTokenStep ==
  ASSUME Inv, TypeOK', NEW t \in Threads, CheckToken(t) PROVE Inv'
<1>1. PICK res \in {"accepted", "rejected"} : Return(t, res)
  BY DEF CheckToken
<1> QED
  BY <1>1, ReturnStep DEF CheckToken, Results, Fetching

(* A call that holds refreshMu sends its request.                          *)
LEMMA BeginFetchStep ==
  ASSUME Inv, TypeOK', NEW t \in Threads, NEW loc \in Fetching,
         pc[t] \notin Fetching, pc[t] # "idle", refreshMu = NoThread,
         BeginFetch(t, loc), UNCHANGED <<environment, cache>>,
         loc = "fetchKid" =>
            /\ attempt'.at = clock
            /\ keys.kids # {} /\ started[t] - fetchedAt < TTL /\ tok[t].rs256,
         loc = "fetchTTL" => attempt' = attempt /\ ~CacheValid(clock)
  PROVE  Inv'
<1> USE DEF BeginFetch, Goto, environment, cache
<1>1. \A u \in Threads : pc[u] \notin Fetching
  BY NoThreadAssumption DEF Inv, HolderFetches
<1>2. /\ pc'[t] = loc /\ sent'[t] = clock
      /\ \A u \in Threads \ {t} : pc'[u] = pc[u] /\ sent'[u] = sent[u]
  BY DEF Inv, TypeOK
<1>3. HolderFetches'
  BY <1>1, <1>2 DEF HolderFetches
<1>4. LocalsInUse'
  BY <1>2 DEF Inv, LocalsInUse, Fetching
<1>5. TimesOrdered'
  BY <1>1, <1>2, TimesAssumption DEF Inv, TypeOK, TimesOrdered, Never
<1>6. AnswersCurrent'
  BY <1>1 DEF Inv, LocalsInUse, AnswersCurrent
<1>7. CacheCurrent'
  BY DEF Inv, CacheCurrent, PublishedSince, PublishedThroughout
<1>8. CallsCurrent'
  <2>1. CallCurrent(t)'
    BY <1>2 DEF CallCurrent, Fetching, CacheValid
  <2>2. ASSUME NEW u \in Threads, u # t PROVE CallCurrent(u)'
    <3>1. CallCurrent(u) /\ started[u] <= clock
      BY DEF Inv, CallsCurrent, TimesOrdered
    <3> QED
      BY <1>1, <1>2, <2>2, <3>1
      DEF CallCurrent, CacheValid, PublishedSince, PublishedThroughout, Fetching
  <2> QED
    BY <2>1, <2>2 DEF CallsCurrent
<1>9. AttemptRecorded'
  <2>1. CASE loc = "fetchKid"
    BY <1>2, <2>1 DEF AttemptRecorded, Inv, TypeOK
  <2>2. CASE loc = "fetchTTL"
    BY <1>1, <2>2 DEF AttemptRecorded, Inv, Fetching
  <2> QED
    BY <2>1, <2>2 DEF Fetching
<1> QED
  BY <1>3, <1>4, <1>5, <1>6, <1>7, <1>8, <1>9 DEF Inv

\* The TTL path under refreshMu: keys another caller refreshed are used, or a
\* fetch begins.
LEMMA RefreshKeysStep ==
  ASSUME Inv, TypeOK', NEW t \in Threads, RefreshKeys(t) PROVE Inv'
<1> USE DEF RefreshKeys
<1>1. CASE CacheValid(clock) /\ Continue(t, "lookup") /\ UNCHANGED refreshMu
  <2>1. started[t] - fetchedAt < TTL
    BY <1>1, TimesAssumption DEF CacheValid, Inv, TimesOrdered, TypeOK
  <2>2. CallCurrent(t)'
    BY <1>1, <2>1 DEF CallCurrent, CacheValid, Continue, Goto, cache, Inv, TypeOK
  <2> QED
    BY <1>1, <2>2, ContinueStep DEF Locations, Fetching
<1>2. CASE ~CacheValid(clock) /\ BeginFetch(t, "fetchTTL")
  BY <1>2, BeginFetchStep DEF Fetching, cache
<1> QED
  BY <1>1, <1>2

\* The forced path under refreshMu: throttled, served by another caller's
\* refresh, or a fetch begins.
LEMMA RefreshForKidStep ==
  ASSUME Inv, TypeOK', NEW t \in Threads, RefreshForKid(t) PROVE Inv'
<1> USE DEF RefreshForKid
<1>1. keys.kids # {} /\ started[t] - fetchedAt < TTL /\ tok[t].rs256
  BY DEF Inv, CallsCurrent, CallCurrent
<1>2. CASE /\ tok[t].kid \in keys.kids \/ Suppressed(clock)
           /\ Continue(t, "relookup") /\ UNCHANGED <<attempt, refreshMu>>
  <2>1. PublishedThroughout(tok[t].kid, started[t] - (MinInterval + FetchTimeout))
          => tok[t].kid \in keys.kids
    <3>1. CASE tok[t].kid \in keys.kids
      BY <3>1
    <3>2. CASE Suppressed(clock)
      <4>1. tok[t].kid \in Kids
        BY TokensAssumption DEF Inv, LocalsInUse, TokenShape
      <4>2. lastForced - FetchTimeout > started[t] - (MinInterval + FetchTimeout)
        BY <3>2, TimesAssumption DEF Suppressed, Inv, TimesOrdered, TypeOK
      <4>3. PublishedThroughout(tok[t].kid, started[t] - (MinInterval + FetchTimeout))
              => PublishedThroughout(tok[t].kid, lastForced - FetchTimeout)
        BY <4>1, <4>2, TimesAssumption DEF PublishedThroughout, Inv, TypeOK
      <4> QED
        BY <4>1, <4>3 DEF Inv, CacheCurrent
    <3> QED
      BY <1>2, <3>1, <3>2
  <2>2. \A u \in Threads : pc[u] \notin Fetching
    BY NoThreadAssumption DEF Inv, HolderFetches
  <2>3. CallCurrent(t)'
    <3>1. pc'[t] = "relookup" /\ \A u \in Threads : pc'[u] \notin Fetching
      BY <1>2, <2>2 DEF Continue, Goto, Inv, TypeOK, Fetching
    <3> QED
      BY <1>1, <1>2, <2>1, <3>1
      DEF CallCurrent, Continue, cache, environment, PublishedThroughout
  <2> QED
    BY <1>2, <2>3, ContinueStep DEF Locations, Fetching
<1>3. CASE /\ BeginFetch(t, "fetchKid")
           /\ attempt' = [at |-> clock, failed |-> FALSE]
  BY <1>1, <1>3, BeginFetchStep DEF Fetching
<1> QED
  BY <1>2, <1>3

\* The document of an exchange is one the endpoint published during it.
LEMMA EndpointAnswersStep ==
  ASSUME Inv, TypeOK', NEW t \in Threads, EndpointAnswers(t) PROVE Inv'
<1> USE DEF EndpointAnswers, environment, cache
<1>1. doc'[t] = origin /\ \A u \in Threads \ {t} : doc'[u] = doc[u]
  BY DEF Inv, TypeOK
<1>2. HolderFetches' /\ TimesOrdered' /\ AttemptRecorded'
  BY DEF Inv, HolderFetches, TimesOrdered, AttemptRecorded, Never
<1>3. LocalsInUse'
  BY <1>1 DEF Inv, LocalsInUse
<1>4. AnswersCurrent'
  BY <1>1
  DEF Inv, TypeOK, Documents, AnswersCurrent, PublishedSince, PublishedThroughout
<1>5. CacheCurrent' /\ CallsCurrent'
  BY DEF Inv, CacheCurrent, CallsCurrent, CallCurrent, CacheValid, PublishedSince,
         PublishedThroughout
<1> QED
  BY <1>2, <1>3, <1>4, <1>5 DEF Inv

(* What the answer of an exchange in flight says, in terms of the clock.   *)
LEMMA AnswerFacts ==
  ASSUME Inv, NEW t \in Threads, pc[t] \in Fetching, doc[t].kids # {}
  PROVE  /\ \A u \in Threads \ {t} : pc[u] \notin Fetching
         /\ doc[t] # NoDoc
         /\ \A k \in doc[t].kids : PublishedSince(k, clock - FetchTimeout)
         /\ \A k \in Kids, time \in Int :
              time <= sent[t] /\ PublishedThroughout(k, time) => k \in doc[t].kids
<1>1. \A u \in Threads \ {t} : pc[u] \notin Fetching
  BY NoThreadAssumption DEF Inv, HolderFetches
<1>2. doc[t] # NoDoc
  BY DEF NoDoc
<1>3. sent[t] <= clock /\ clock - sent[t] <= FetchTimeout
  BY DEF Inv, TimesOrdered
<1>4. ASSUME NEW k \in doc[t].kids PROVE PublishedSince(k, clock - FetchTimeout)
  <2>1. PublishedSince(k, sent[t]) /\ k \in Kids
    BY <1>2 DEF Inv, AnswersCurrent, TypeOK, Documents
  <2> QED
    BY <1>3, <2>1, TimesAssumption DEF PublishedSince, Inv, TypeOK
<1>5. ASSUME NEW k \in Kids, NEW time \in Int, time <= sent[t],
             PublishedThroughout(k, time)
      PROVE  k \in doc[t].kids
  <2>1. PublishedThroughout(k, sent[t])
    BY <1>5 DEF PublishedThroughout, Inv, TypeOK
  <2> QED
    BY <1>2, <2>1 DEF Inv, AnswersCurrent
<1> QED
  BY <1>1, <1>2, <1>4, <1>5

\* Storing a fetched document: the key set, its time, and the time of a forced
\* fetch change together, and the mutex is given back.
LEMMA PublishKeysStep ==
  ASSUME Inv, TypeOK', NEW t \in Threads, PublishKeys(t) PROVE Inv'
<1> USE DEF PublishKeys, Goto, environment
<1>1. /\ \A u \in Threads \ {t} : pc[u] \notin Fetching
      /\ doc[t] # NoDoc
      /\ \A k \in doc[t].kids : PublishedSince(k, clock - FetchTimeout)
      /\ \A k \in Kids, time \in Int :
           time <= sent[t] /\ PublishedThroughout(k, time) => k \in doc[t].kids
  BY AnswerFacts
<1>2. /\ pc'[t] = IF pc[t] = "fetchKid" THEN "relookup" ELSE "lookup"
      /\ \A u \in Threads \ {t} : pc'[u] = pc[u]
      /\ pc'[t] \notin Fetching
  BY DEF Inv, TypeOK, Fetching
<1>3. /\ doc'[t] = NoDoc
      /\ \A u \in Threads \ {t} : doc'[u] = doc[u] /\ sent'[u] = sent[u]
  BY DEF Inv, TypeOK
<1>4. HolderFetches'
  BY <1>1, <1>2, NoThreadAssumption DEF HolderFetches
<1>5. LocalsInUse'
  BY <1>2, <1>3 DEF Inv, LocalsInUse, Fetching
<1>6. TimesOrdered'
  BY <1>1, <1>2, <1>3, TimesAssumption DEF Inv, TypeOK, TimesOrdered, Never
<1>7. AnswersCurrent'
  <2>1. \A u \in Threads : doc'[u] = NoDoc
    BY <1>1, <1>3 DEF Inv, LocalsInUse
  <2>2. doc[t].ver <= origin.ver
    BY <1>1 DEF Inv, AnswersCurrent
  <2> QED
    BY <2>1, <2>2 DEF AnswersCurrent
<1>8. CacheCurrent'
  <2>1. \A k \in keys'.kids : PublishedSince(k, fetchedAt' - FetchTimeout)
    BY <1>1
  <2>2. lastForced' - FetchTimeout <= sent[t] /\ lastForced' - FetchTimeout \in Int
    BY TimesAssumption DEF Inv, TimesOrdered, TypeOK
  <2>3. \A k \in Kids :
          PublishedThroughout(k, lastForced' - FetchTimeout) => k \in keys'.kids
    BY <1>1, <2>2
  <2> QED
    BY <2>1, <2>3 DEF CacheCurrent, PublishedSince, PublishedThroughout
<1>9. CallsCurrent'
  <2>1. ASSUME NEW u \in Threads,
               pc'[u] \in {"lookup", "waitKid", "fetchKid", "relookup"}
        PROVE  keys'.kids # {} /\ started'[u] - fetchedAt' < TTL
    BY TimesAssumption DEF Inv, TimesOrdered, TypeOK
  <2>2. ASSUME NEW u \in Threads, pc'[u] = "check"
        PROVE  PublishedSince(tok[u].kid, started[u] - (TTL + FetchTimeout))
    BY <1>2, <2>2 DEF Inv, CallsCurrent, CallCurrent
  <2>3. ASSUME NEW u \in Threads, pc'[u] = "relookup",
               PublishedThroughout(tok[u].kid, started[u] - (MinInterval + FetchTimeout))
        PROVE  tok[u].kid \in keys'.kids
    <3>1. tok[u].kid \in Kids
      BY <1>2, <2>3, TokensAssumption DEF Inv, LocalsInUse, TokenShape, Fetching
    <3>2. started[u] <= sent[t]
      BY <1>2, <2>3 DEF Inv, TimesOrdered, CallsCurrent, CallCurrent
    <3>3. /\ started[u] - (MinInterval + FetchTimeout) <= sent[t]
          /\ started[u] - (MinInterval + FetchTimeout) \in Int
      BY <3>2, TimesAssumption DEF Inv, TypeOK
    <3> QED
      BY <1>1, <2>3, <3>1, <3>3
  <2>4. \A u \in Threads : pc'[u] \notin Fetching
    BY <1>1, <1>2
  <2>5. ASSUME NEW u \in Threads, pc'[u] \in {"waitKid", "relookup", "check"}
        PROVE  tok[u].rs256
    BY <1>2, <2>5 DEF Inv, CallsCurrent, CallCurrent
  <2> QED
    BY <2>1, <2>2, <2>3, <2>4, <2>5 DEF Fetching,
        CallsCurrent, CallCurrent, CacheValid, PublishedSince, PublishedThroughout
<1>10. AttemptRecorded'
  <2>1. CASE pc[t] = "fetchKid"
    BY <2>1 DEF Inv, AttemptRecorded
  <2>2. CASE pc[t] = "fetchTTL"
    BY <1>1, <2>2 DEF Inv, AttemptRecorded, Fetching
  <2> QED
    BY <2>1, <2>2 DEF Fetching
<1> QED
  BY <1>4, <1>5, <1>6, <1>7, <1>8, <1>9, <1>10 DEF Inv

\* A failed exchange leaves the key set alone and gives the mutex back.
LEMMA FetchFailsStep ==
  ASSUME Inv, TypeOK', NEW t \in Threads, FetchFails(t) PROVE Inv'
<1> USE DEF FetchFails, Return, Goto, environment, cache
<1>1. \A u \in Threads \ {t} : pc[u] \notin Fetching
  BY NoThreadAssumption DEF Inv, HolderFetches
<1>2. /\ pc'[t] = "idle" /\ doc'[t] = NoDoc /\ pc'[t] \notin Fetching
      /\ started'[t] = 0 /\ tok'[t] = NoToken
      /\ \A u \in Threads \ {t} :
          /\ pc'[u] = pc[u] /\ tok'[u] = tok[u] /\ doc'[u] = doc[u]
          /\ started'[u] = started[u] /\ sent'[u] = sent[u]
  BY DEF Inv, TypeOK, Fetching
<1>3. HolderFetches'
  BY <1>1, <1>2, NoThreadAssumption DEF HolderFetches
<1>4. LocalsInUse'
  BY <1>2 DEF Inv, LocalsInUse, Fetching
<1>5. TimesOrdered'
  BY <1>1, <1>2, TimesAssumption DEF Inv, TypeOK, TimesOrdered, Never
<1>6. AnswersCurrent'
  BY <1>1, <1>2 DEF Inv, LocalsInUse, AnswersCurrent
<1>7. CacheCurrent'
  BY DEF Inv, CacheCurrent, PublishedSince, PublishedThroughout
<1>8. CallsCurrent'
  <2>1. CallCurrent(t)'
    BY <1>2 DEF CallCurrent
  <2>2. ASSUME NEW u \in Threads, u # t PROVE CallCurrent(u)'
    BY <1>1, <1>2, <2>2
    DEF Inv, CallsCurrent, CallCurrent, CacheValid, PublishedSince, PublishedThroughout
  <2> QED
    BY <2>1, <2>2 DEF CallsCurrent
<1>9. AttemptRecorded'
  <2>1. CASE pc[t] = "fetchKid"
    BY <2>1 DEF Inv, TypeOK, AttemptRecorded
  <2>2. CASE pc[t] = "fetchTTL"
    <3>1. \A u \in Threads : pc[u] # "fetchKid"
      BY <1>1, <2>2 DEF Fetching
    <3> QED
      BY <2>2, <3>1 DEF Inv, TypeOK, AttemptRecorded
  <2> QED
    BY <2>1, <2>2 DEF Fetching
<1> QED
  BY <1>3, <1>4, <1>5, <1>6, <1>7, <1>8, <1>9 DEF Inv

\* Time passes: no bound on an exchange or on the age of the keys is broken.
LEMMA TickStep ==
  ASSUME Inv, TypeOK', Tick PROVE Inv'
<1> USE DEF Tick, cache, calls
<1>1. HolderFetches' /\ LocalsInUse'
  BY DEF Inv, HolderFetches, LocalsInUse
<1>2. TimesOrdered'
  BY TimesAssumption DEF Inv, TypeOK, TimesOrdered, Never
<1>3. AnswersCurrent' /\ CacheCurrent' /\ CallsCurrent'
  BY DEF Inv, AnswersCurrent, CacheCurrent, CallsCurrent, CallCurrent, CacheValid,
         PublishedSince, PublishedThroughout
<1>4. AttemptRecorded'
  BY DEF Inv, TypeOK, AttemptRecorded
<1> QED
  BY <1>1, <1>2, <1>3, <1>4 DEF Inv

(* A rotation does not take back what was true of the past.                *)
LEMMA RotateKeeps ==
  ASSUME Inv, Rotate, NEW k \in Kids, NEW time \in Int, time <= clock
  PROVE  /\ PublishedSince(k, time) => PublishedSince(k, time)'
         /\ PublishedThroughout(k, time)' => PublishedThroughout(k, time)
<1>1. /\ PublishedSince(k, time)' <=> k \in origin'.kids \/ until'[k] >= time
      /\ PublishedThroughout(k, time)' <=> k \in origin'.kids /\ since'[k] < time
  BY DEF PublishedSince, PublishedThroughout
<1>2. /\ until'[k] = IF k \in origin.kids \ origin'.kids THEN clock ELSE until[k]
      /\ since'[k] = IF k \in origin'.kids \ origin.kids THEN clock ELSE since[k]
  BY DEF Rotate
<1> QED
  BY <1>1, <1>2 DEF PublishedSince, PublishedThroughout, Inv, TypeOK

\* The issuer publishes another set: the history grows, the cache does not move.
LEMMA RotateStep ==
  ASSUME Inv, TypeOK', Rotate PROVE Inv'
<1> USE DEF Rotate, cache, calls
<1>1. HolderFetches' /\ LocalsInUse' /\ AttemptRecorded'
  BY DEF Inv, HolderFetches, LocalsInUse, AttemptRecorded
<1>2. TimesOrdered'
  BY TimesAssumption DEF Inv, TypeOK, TimesOrdered, Never
<1>3. AnswersCurrent'
  <2>1. origin.ver <= origin'.ver
    BY DEF Inv, TypeOK, Documents
  <2>2. ASSUME NEW t \in Threads, doc[t] # NoDoc
        PROVE  /\ keys.ver <= doc[t].ver /\ doc[t].ver <= origin'.ver
               /\ \A k \in doc[t].kids : PublishedSince(k, sent[t])'
               /\ \A k \in Kids : PublishedThroughout(k, sent[t])' => k \in doc[t].kids
    <3>1. sent[t] \in Int /\ sent[t] <= clock
      BY <2>2 DEF Inv, LocalsInUse, TimesOrdered, TypeOK
    <3>2. doc[t].kids \subseteq Kids
      BY DEF Inv, TypeOK, Documents
    <3>3. keys.ver <= doc[t].ver /\ doc[t].ver <= origin'.ver
      BY <2>1, <2>2 DEF Inv, AnswersCurrent, TypeOK, Documents
    <3>4. ASSUME NEW k \in Kids
          PROVE  /\ PublishedSince(k, sent[t]) => PublishedSince(k, sent[t])'
                 /\ PublishedThroughout(k, sent[t])' => PublishedThroughout(k, sent[t])
      BY <3>1, RotateKeeps
    <3> QED
      BY <2>2, <3>2, <3>3, <3>4 DEF Inv, AnswersCurrent
  <2>3. keys.ver <= origin'.ver
    BY <2>1 DEF Inv, AnswersCurrent, TypeOK, Documents
  <2> QED
    BY <2>2, <2>3 DEF AnswersCurrent, PublishedSince, PublishedThroughout
<1>4. CacheCurrent'
  <2>1. /\ fetchedAt - FetchTimeout \in Int /\ fetchedAt - FetchTimeout <= clock
        /\ lastForced - FetchTimeout \in Int /\ lastForced - FetchTimeout <= clock
    BY TimesAssumption DEF Inv, TimesOrdered, TypeOK
  <2>2. \A k \in keys.kids : PublishedSince(k, fetchedAt - FetchTimeout)'
    BY <2>1, RotateKeeps DEF Inv, CacheCurrent, TypeOK, Documents
  <2>3. \A k \in Kids :
          PublishedThroughout(k, lastForced - FetchTimeout)' => k \in keys.kids
    BY <2>1, RotateKeeps DEF Inv, CacheCurrent
  <2> QED
    BY <2>2, <2>3 DEF CacheCurrent, PublishedSince, PublishedThroughout
<1>5. CallsCurrent'
  <2>1. ASSUME NEW t \in Threads, pc[t] = "check"
        PROVE  PublishedSince(tok[t].kid, started[t] - (TTL + FetchTimeout))'
    <3>1. tok[t].kid \in Kids
      BY <2>1, TokensAssumption DEF Inv, LocalsInUse, TokenShape
    <3>2. /\ started[t] - (TTL + FetchTimeout) \in Int
          /\ started[t] - (TTL + FetchTimeout) <= clock
      BY TimesAssumption DEF Inv, TimesOrdered, TypeOK
    <3>3. PublishedSince(tok[t].kid, started[t] - (TTL + FetchTimeout))
      BY <2>1 DEF Inv, CallsCurrent, CallCurrent
    <3> QED
      BY <3>1, <3>2, <3>3, RotateKeeps DEF PublishedSince
  <2>2. ASSUME NEW t \in Threads, pc[t] = "relookup",
               PublishedThroughout(tok[t].kid,
                                   started[t] - (MinInterval + FetchTimeout))'
        PROVE  tok[t].kid \in keys.kids
    <3>1. tok[t].kid \in Kids
      BY <2>2, TokensAssumption DEF Inv, LocalsInUse, TokenShape
    <3>2. /\ started[t] - (MinInterval + FetchTimeout) \in Int
          /\ started[t] - (MinInterval + FetchTimeout) <= clock
      BY TimesAssumption DEF Inv, TimesOrdered, TypeOK
    <3>3. PublishedThroughout(tok[t].kid, started[t] - (MinInterval + FetchTimeout))
      BY <2>2, <3>1, <3>2, RotateKeeps DEF PublishedThroughout
    <3> QED
      BY <2>2, <3>3 DEF Inv, CallsCurrent, CallCurrent
  <2> QED
    BY <2>1, <2>2
    DEF Inv, CallsCurrent, CallCurrent, CacheValid, PublishedSince, PublishedThroughout
<1> QED
  BY <1>1, <1>2, <1>3, <1>4, <1>5 DEF Inv

(* Inv is inductive.                                                       *)
LEMMA InvStep == Inv /\ [Next]_vars => Inv'
<1> SUFFICES ASSUME Inv, [Next]_vars PROVE Inv'
  OBVIOUS
<1>1. TypeOK'
  BY TypeStep DEF Inv
<1>2. CASE Tick
  BY <1>1, <1>2, TickStep
<1>3. CASE Rotate
  BY <1>1, <1>3, RotateStep
<1>4. ASSUME NEW t \in Threads, Step(t) PROVE Inv'
  BY <1>1, <1>4, VerifyEmptyStep, VerifyStep, EnsureKeysStep, RefreshKeysStep,
     LookupKeyStep, RefreshForKidStep, EndpointAnswersStep, PublishKeysStep,
     FetchFailsStep, RelookupKeyStep, CheckTokenStep
  DEF Step
<1>5. CASE UNCHANGED vars
  BY <1>1, <1>5
  DEF vars, environment, cache, calls, Inv, HolderFetches, LocalsInUse,
      TimesOrdered, AnswersCurrent, CacheCurrent, CallsCurrent, CallCurrent, CacheValid,
      AttemptRecorded, PublishedSince, PublishedThroughout
<1> QED
  BY <1>2, <1>3, <1>4, <1>5 DEF Next

(* THEOREM: the inductive invariant holds in every reachable state; in     *)
(* particular refreshMu is held exactly by the call with an exchange in    *)
(* flight, so at most one exchange is in flight.                           *)
THEOREM Invariance == Spec => []Inv
<1>1. Init => Inv
  BY InvInit
<1>2. Inv /\ [Next]_vars => Inv'
  BY InvStep
<1> QED
  BY <1>1, <1>2, PTL DEF Spec

-----------------------------------------------------------------------------
(* The action properties follow from Inv.                                  *)

(* Which steps move a call, and how.                                       *)
LEMMA StepOf ==
  ASSUME TypeOK, [Next]_vars, NEW t \in Threads, pc'[t] # pc[t]
  PROVE  Step(t)
<1>1. ASSUME NEW u \in Threads, Step(u), u # t PROVE FALSE
  <2> USE DEF Goto, Continue, Return, BeginFetch, TypeOK
  <2>1. pc'[t] = pc[t]
    BY <1>1
    DEF Step, VerifyEmpty, Verify, EnsureKeys, RefreshKeys, LookupKey,
        RefreshForKid, EndpointAnswers, PublishKeys, FetchFails, RelookupKey,
        CheckToken
  <2> QED
    BY <2>1
<1> QED
  BY <1>1 DEF Next, Tick, Rotate, vars, calls

\* Only the last steps of a call return a verdict, and each under its condition.
LEMMA VerdictStep ==
  ASSUME TypeOK, [Next]_vars, NEW t \in Threads
  PROVE  /\ Returns(t, "accepted") => CheckToken(t)
         /\ Returns(t, "unknown_key") => RelookupKey(t) /\ tok[t].kid \notin keys.kids
<1> SUFFICES ASSUME \/ Returns(t, "accepted") \/ Returns(t, "unknown_key")
             PROVE  /\ result'[t] = "accepted" => CheckToken(t)
                    /\ result'[t] = "unknown_key" =>
                         RelookupKey(t) /\ tok[t].kid \notin keys.kids
  BY DEF Returns
<1>1. pc[t] # "idle" /\ pc'[t] = "idle" /\ Step(t)
  BY StepOf DEF Returns
<1> USE DEF TypeOK, Goto, Continue, Return, BeginFetch
<1>2. CASE VerifyEmpty(t) \/ Verify(t) \/ EnsureKeys(t)
  BY <1>1, <1>2 DEF VerifyEmpty, Verify, EnsureKeys
<1>3. CASE RefreshKeys(t) \/ RefreshForKid(t)
  BY <1>1, <1>3 DEF RefreshKeys, RefreshForKid
<1>4. CASE EndpointAnswers(t) \/ PublishKeys(t)
  BY <1>1, <1>4 DEF EndpointAnswers, PublishKeys, Fetching
<1>5. CASE LookupKey(t)
  BY <1>1, <1>5 DEF LookupKey
<1>6. CASE FetchFails(t)
  BY <1>1, <1>6 DEF FetchFails
<1>7. CASE RelookupKey(t)
  BY <1>1, <1>7 DEF RelookupKey
<1>8. CASE CheckToken(t)
  BY <1>1, <1>8 DEF CheckToken
<1> QED
  BY <1>1, <1>2, <1>3, <1>4, <1>5, <1>6, <1>7, <1>8 DEF Step

(* THEOREM: the key that verified an accepted token was published no       *)
(* earlier than one TTL and one exchange before the call began.            *)
THEOREM AcceptedFresh == Spec => AcceptedKeyFresh
<1>1. ASSUME Inv, [Next]_vars, NEW t \in Threads, Returns(t, "accepted")
      PROVE  PublishedSince(tok[t].kid, started[t] - (TTL + FetchTimeout))
  BY <1>1, VerdictStep DEF Inv, CallsCurrent, CallCurrent, CheckToken
<1>2. Inv /\ [Next]_vars => [\A t \in Threads :
        Returns(t, "accepted") =>
            PublishedSince(tok[t].kid, started[t] - (TTL + FetchTimeout))]_vars
  BY <1>1
<1> QED
  BY <1>2, Invariance, PTL DEF Spec, AcceptedKeyFresh

(* THEOREM: a kid published for longer than the throttle interval and one  *)
(* exchange is never unknown to a call whose own fetch did not fail.       *)
THEOREM RotationSeen == Spec => RotationObserved
<1>1. ASSUME Inv, [Next]_vars, NEW t \in Threads, Returns(t, "unknown_key")
      PROVE  ~PublishedThroughout(tok[t].kid,
                                  started[t] - (MinInterval + FetchTimeout))
  BY <1>1, VerdictStep DEF Inv, CallsCurrent, CallCurrent, RelookupKey
<1>2. Inv /\ [Next]_vars => [\A t \in Threads :
        Returns(t, "unknown_key") =>
            ~PublishedThroughout(tok[t].kid,
                                 started[t] - (MinInterval + FetchTimeout))]_vars
  BY <1>1
<1> QED
  BY <1>2, Invariance, PTL DEF Spec, RotationObserved

(* THEOREM: the cached key set is never replaced by an older one.          *)
THEOREM InOrder == Spec => KeySetsInOrder
<1>1. ASSUME Inv, [Next]_vars PROVE keys'.ver >= keys.ver
  <2>1. ASSUME NEW t \in Threads, PublishKeys(t) PROVE keys'.ver >= keys.ver
    BY <1>1, <2>1, AnswerFacts
    DEF PublishKeys, Inv, AnswersCurrent, TypeOK, Documents
  <2>2. keys' = keys \/ \E t \in Threads : PublishKeys(t)
    BY <1>1
    DEF Next, Step, Tick, Rotate, VerifyEmpty, Verify, EnsureKeys, RefreshKeys,
        LookupKey, RefreshForKid, EndpointAnswers, FetchFails, RelookupKey,
        CheckToken, vars, cache
  <2> QED
    BY <1>1, <2>1, <2>2 DEF Inv, TypeOK, Documents
<1> QED
  BY <1>1, Invariance, PTL DEF Spec, KeySetsInOrder

(* THEOREM: a forced fetch is sent at least the throttle interval after    *)
(* the previous one, unless that one failed.                               *)
THEOREM ForcedSpaced == Spec => ForcedFetchSpacing
<1>1. ASSUME Inv, [Next]_vars, NEW t \in Threads,
             pc[t] # "fetchKid", pc'[t] = "fetchKid"
      PROVE  attempt.failed \/ clock - attempt.at >= MinInterval
  <2>1. Step(t)
    BY <1>1, StepOf DEF Inv
  <2>2. RefreshForKid(t) /\ refreshMu = NoThread /\ ~Suppressed(clock)
    BY <1>1, <2>1
    DEF Step, VerifyEmpty, Verify, EnsureKeys, RefreshKeys, LookupKey,
        RefreshForKid, EndpointAnswers, PublishKeys, FetchFails, RelookupKey,
        CheckToken, Goto, Continue, Return, BeginFetch, Inv, TypeOK
  <2>3. \A u \in Threads : pc[u] # "fetchKid"
    BY <1>1, <2>2, NoThreadAssumption DEF Inv, HolderFetches, Fetching
  <2>4. attempt.failed \/ attempt.at <= lastForced
    BY <1>1, <2>3 DEF Inv, AttemptRecorded
  <2>5. CASE lastForced = Never
    BY <1>1, <2>4, <2>5, TimesAssumption DEF Never, Inv, TypeOK
  <2>6. CASE clock - lastForced >= MinInterval
    BY <1>1, <2>4, <2>6, TimesAssumption DEF Inv, TypeOK
  <2> QED
    BY <1>1, <2>2, <2>5, <2>6, TimesAssumption DEF Suppressed, Inv, TypeOK
<1>2. Inv /\ [Next]_vars => [\A t \in Threads :
        (pc[t] # "fetchKid" /\ pc'[t] = "fetchKid") =>
            attempt.failed \/ clock - attempt.at >= MinInterval]_vars
  BY <1>1
<1> QED
  BY <1>2, Invariance, PTL DEF Spec, ForcedFetchSpacing

(* THEOREM: a refresh of the TTL path replaces only keys that have expired *)
(* or none at all, so calls that find the cache expired share one fetch.   *)
THEOREM Coalesced == Spec => ExpiryCoalesced
<1>1. ASSUME Inv, [Next]_vars, NEW t \in Threads,
             pc[t] = "fetchTTL", keys' # keys, refreshMu = t
      PROVE  keys.kids = {} \/ clock - fetchedAt >= TTL
  <2>1. ~CacheValid(sent[t]) /\ sent[t] <= clock
    BY <1>1 DEF Inv, CallsCurrent, CallCurrent, TimesOrdered, Fetching
  <2> QED
    BY <1>1, <2>1, TimesAssumption DEF CacheValid, Inv, TypeOK
<1>2. Inv /\ [Next]_vars => [\A t \in Threads :
        (pc[t] = "fetchTTL" /\ keys' # keys /\ refreshMu = t) =>
            keys.kids = {} \/ clock - fetchedAt >= TTL]_vars
  BY <1>1
<1> QED
  BY <1>2, Invariance, PTL DEF Spec, ExpiryCoalesced

-----------------------------------------------------------------------------
(* The cache implements KeyTrust.                                          *)

\* The empty cache is an initial state of KeyTrust.
LEMMA RefinesInit == Init => Trust!Init
  BY KeySetsTyped DEF Init, Trust!Init

(* A call that returns does so with a verdict KeyTrust allows.             *)
LEMMA RefinesEnd ==
  ASSUME Inv, NEW t \in Threads, pc[t] # "idle",
         NEW res \in {"accepted", "unknown_key", "rejected", "unavailable"},
         Return(t, res), UNCHANGED environment,
         Trust!Justified(tok[t], started[t], clock, res)
  PROVE  Trust!End(t)
  BY TokensAssumption
  DEF Return, environment, Trust!End, Inv, LocalsInUse

(* A call that goes on without returning is a stuttering step.             *)
LEMMA RefinesStutter ==
  ASSUME UNCHANGED <<environment, tok, started, result>>
  PROVE  UNCHANGED Trust!vars
  BY DEF environment, Trust!vars

\* A token that is not acceptable, or of another algorithm, may be rejected.
LEMMA RefinesRejected ==
  ASSUME Inv, NEW t \in Threads, ~TokenAcceptable(tok[t], clock) \/ ~tok[t].rs256,
         pc[t] # "idle"
  PROVE  Trust!Justified(tok[t], started[t], clock, "rejected")
  BY TokensAssumption, TimesAssumption
  DEF TokenAcceptable, Trust!Justified, Trust!Good, TokenShape, Inv, LocalsInUse,
      TypeOK

\* The verdict on signature and claims is one KeyTrust allows.
LEMMA RefinesCheck ==
  ASSUME Inv, NEW t \in Threads, CheckToken(t) PROVE Trust!End(t)
<1> USE DEF CheckToken
<1>1. CASE TokenAcceptable(tok[t], clock)
  <2>1. PublishedSince(tok[t].kid, started[t] - (TTL + FetchTimeout))
    BY DEF Inv, CallsCurrent, CallCurrent
  <2>2. tok[t].rs256
    BY DEF Inv, CallsCurrent, CallCurrent
  <2>3. Trust!Justified(tok[t], started[t], clock, "accepted")
    BY <1>1, <2>1, <2>2, TokensAssumption, TimesAssumption
    DEF TokenAcceptable, Trust!Justified, Trust!Good, TokenShape, Inv,
        LocalsInUse, TypeOK, PublishedSince
  <2> QED
    BY <1>1, <2>3, RefinesEnd
<1>2. CASE ~TokenAcceptable(tok[t], clock)
  BY <1>2, RefinesRejected, RefinesEnd
<1> QED
  BY <1>1, <1>2

\* So is the verdict that the kid is unknown.
LEMMA RefinesRelookup ==
  ASSUME Inv, NEW t \in Threads, RelookupKey(t)
  PROVE  Trust!End(t) \/ UNCHANGED Trust!vars
<1> USE DEF RelookupKey
<1>1. CASE Continue(t, "check")
  BY <1>1, RefinesStutter DEF Continue
<1>2. CASE tok[t].kid \notin keys.kids /\ Return(t, "unknown_key")
  <2>1. ~PublishedThroughout(tok[t].kid, started[t] - (MinInterval + FetchTimeout))
    BY <1>2 DEF Inv, CallsCurrent, CallCurrent
  <2>2. tok[t].kid \in Kids
    BY TokensAssumption DEF Inv, LocalsInUse, TokenShape
  <2>3. Trust!Justified(tok[t], started[t], clock, "unknown_key")
    BY <2>1, <2>2, TimesAssumption
    DEF PublishedThroughout, Trust!Justified, Inv, TypeOK
  <2> QED
    BY <1>2, <2>3, RefinesEnd
<1> QED
  BY <1>1, <1>2

\* Every step of the cache is a step of KeyTrust or none.
LEMMA RefinesStep == Inv /\ [Next]_vars => [Trust!Next]_(Trust!vars)
<1> SUFFICES ASSUME Inv, [Next]_vars PROVE [Trust!Next]_(Trust!vars)
  OBVIOUS
<1>1. CASE Tick
  BY <1>1 DEF Tick, calls, Trust!Next, Trust!Tick
<1>2. CASE Rotate
  BY <1>2, KeySetsTyped DEF Rotate, calls, Trust!Next, Trust!Rotate
<1>3. ASSUME NEW t \in Threads, Step(t) PROVE [Trust!Next]_(Trust!vars)
  <2>1. CASE VerifyEmpty(t)
    <3>1. tok[t] = NoToken /\ tok' = tok /\ started' = started
      BY <2>1 DEF VerifyEmpty, Return, Inv, LocalsInUse, TypeOK
    <3> QED
      BY <2>1, <3>1 DEF VerifyEmpty, Return, environment, Trust!Next, Trust!Refuse
  <2>2. CASE Verify(t)
    BY <2>2 DEF Verify, Inv, LocalsInUse, environment, Trust!Next, Trust!Begin
  <2>3. CASE LookupKey(t)
    <3>1. CASE ~tok[t].rs256 /\ Return(t, "rejected")
      BY <2>3, <3>1, RefinesRejected, RefinesEnd DEF LookupKey, Trust!Next
    <3>2. CASE UNCHANGED <<tok, started, result>>
      BY <2>3, <3>2, RefinesStutter DEF LookupKey
    <3> QED
      BY <2>3, <3>1, <3>2 DEF LookupKey, Continue
  <2>4. CASE FetchFails(t)
    <3>1. Trust!Justified(tok[t], started[t], clock, "unavailable")
      BY DEF Trust!Justified
    <3> QED
      BY <2>4, <3>1, RefinesEnd DEF FetchFails, Fetching, Trust!Next
  <2>5. CASE RelookupKey(t)
    BY <2>5, RefinesRelookup DEF Trust!Next
  <2>6. CASE CheckToken(t)
    BY <2>6, RefinesCheck DEF Trust!Next
  <2>7. CASE \/ EnsureKeys(t) \/ RefreshKeys(t) \/ RefreshForKid(t)
             \/ EndpointAnswers(t) \/ PublishKeys(t)
    <3>1. UNCHANGED <<environment, tok, started, result>>
      BY <2>7 DEF EnsureKeys, RefreshKeys, RefreshForKid, EndpointAnswers,
                  PublishKeys, Continue, BeginFetch
    <3> QED
      BY <3>1, RefinesStutter
  <2> QED
    BY <1>3, <2>1, <2>2, <2>3, <2>4, <2>5, <2>6, <2>7 DEF Step
<1>4. CASE UNCHANGED vars
  BY <1>4, RefinesStutter DEF vars, calls
<1> QED
  BY <1>1, <1>2, <1>3, <1>4 DEF Next

(* THEOREM: the cache with its mutexes and fetches implements the abstract *)
(* verifier: every verdict is justified by the keys the issuer published.  *)
THEOREM ImplementsKeyTrust == Spec => VerdictsJustified
<1>1. Init => Trust!Init
  BY RefinesInit
<1>2. Inv /\ [Next]_vars => [Trust!Next]_(Trust!vars)
  BY RefinesStep
<1> QED
  BY <1>1, <1>2, Invariance, PTL DEF Spec, VerdictsJustified, Trust!Spec
=============================================================================
