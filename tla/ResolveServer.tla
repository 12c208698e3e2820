--------------------------- MODULE ResolveServer ---------------------------
(***************************************************************************)
(* The broker's HTTP server (internal/broker/server.go): the handler of    *)
(* POST /v1/resolve, run concurrently by net/http for every request, the   *)
(* semaphore that limits it, the context that bounds it, the ownership of  *)
(* the material a provider returns (binding.ResolveMaterials and           *)
(* ClearMaterials), and the shutdown of ListenAndServe.                    *)
(*                                                                         *)
(* Timers are events that may fire whenever they run: the resolve timeout  *)
(* ends a request's context, the read and write timeouts of the server     *)
(* make reading a body and writing an answer end, the shutdown timeout     *)
(* ends the drain.  Verify and Authorize are the subject of JwksCache and  *)
(* BrokerAuthz; here each of them succeeds or fails.                       *)
(***************************************************************************)
EXTENDS Naturals, FiniteSets

CONSTANTS
    Requests,       \* the requests clients send
    MaxConcurrent,  \* Server.MaxConcurrent
    Providers,      \* the providers capabilities are bound to
    Heeding,        \* those that return when their context is over
    NoProvider,     \* "no provider has been called"
    Wired           \* Server.Registry and Server.Bindings are set

ASSUME RequestsAssumption == IsFiniteSet(Requests)
ASSUME LimitAssumption == MaxConcurrent \in Nat \ {0}
ASSUME ProvidersAssumption ==
    Heeding \subseteq Providers /\ NoProvider \notin Providers
ASSUME WiredAssumption == Wired \in BOOLEAN

VARIABLES
    server,    \* ListenAndServe: serving, draining, or the process is gone
    graceOver, \* shutdownCtx is over
    sem,       \* the number of elements in the channel resolveSem
    pc,        \* where the handler of each request is
    expired,   \* the handler's context passed its deadline
    gone,      \* the client went away: r.Context() is cancelled
    provider,  \* the provider the handler has called
    failed,    \* the provider, or what precedes it, returned an error
    material,  \* what ResolveMaterials, then the handler, owns
    status     \* the status of the answer, 0 before there is one

listener == <<server, graceOver>>
request == <<expired, gone, provider, failed, material>>
vars == <<listener, sem, pc, request, status>>

Holding == {"verify", "authorize", "bind", "resolve", "check", "write", "clear", "release"}
Active == {"read", "admit"} \cup Holding
Ended == {"done", "abandoned"}
Locations == {"new"} \cup Active \cup Ended

Holders == {r \in Requests : pc[r] \in Holding}
Refused == {r \in Requests : status[r] = 503}

Kinds == {"none", "invalid", "valid"}
Statuses == {0, 200, 400, 401, 403, 405, 413, 500, 502, 503, 504}

-----------------------------------------------------------------------------
(* Mutant: the handler hands r.Context() on instead of its own context.    *)
ContextOverRequestOnly(r) == gone[r]

(* ctx.Err() # nil, for the context of the handler.                        *)
ContextOver(r) == expired[r] \/ gone[r]

Init ==
    /\ server = "serving" /\ graceOver = FALSE
    /\ sem = 0
    /\ pc = [r \in Requests |-> "new"]
    /\ expired = [r \in Requests |-> FALSE]
    /\ gone = [r \in Requests |-> FALSE]
    /\ provider = [r \in Requests |-> NoProvider]
    /\ failed = [r \in Requests |-> FALSE]
    /\ material = [r \in Requests |-> "none"]
    /\ status = [r \in Requests |-> 0]

Goto(r, loc) == pc' = [pc EXCEPT ![r] = loc]

(* Write the answer (an error is small and buffered) and go on to the      *)
(* deferred calls of the handler, if any.                                  *)
Answer(r, code, loc) == status' = [status EXCEPT ![r] = code] /\ Goto(r, loc)

-----------------------------------------------------------------------------
(* Mutants: plausible bugs in the handler below.                           *)

(* The deferred release is installed before the slot is acquired.          *)
AcquireSlotDeferred(r) ==
    /\ pc[r] = "admit"
    /\ \/ /\ sem < MaxConcurrent
          /\ sem' = sem + 1
          /\ Goto(r, "verify")
          /\ UNCHANGED status
       \/ /\ sem = MaxConcurrent
          /\ sem' = sem - 1
          /\ Answer(r, 503, "done")
    /\ UNCHANGED <<listener, request>>

(* The slot is only released by the handlers that pass verification.       *)
VerifyTokenKeepingSlot(r) ==
    /\ pc[r] = "verify"
    /\ \/ /\ Goto(r, "authorize")
          /\ UNCHANGED status
       \/ Answer(r, 401, "done")
    /\ UNCHANGED <<listener, sem, request>>

(* A material that comes with an error is not owned, so never cleared.     *)
FinishResolveUnowned(r) ==
    /\ pc[r] = "check"
    /\ \/ /\ ~failed[r] /\ material[r] = "valid"
          /\ Goto(r, "write")
          /\ UNCHANGED <<material, failed, status>>
       \/ /\ failed[r] \/ material[r] # "valid"
          /\ Answer(r, IF ContextOver(r) THEN 504 ELSE 502, "release")
          /\ material' = [material EXCEPT
                            ![r] = IF failed[r] THEN @ ELSE "none"]
          /\ failed' = [failed EXCEPT ![r] = FALSE]
    /\ UNCHANGED <<listener, sem, expired, gone, provider>>

(* Shutdown is given a context without a timeout.                          *)
ExitWhenIdle ==
    /\ server = "draining"
    /\ \A r \in Requests : pc[r] \notin Active
    /\ server' = "exited"
    /\ sem' = 0
    /\ UNCHANGED <<graceOver, pc, request, status>>

-----------------------------------------------------------------------------
(* net/http has read the headers of a request and calls the handler.       *)
(* Shutdown closes the listener, but a connection that was accepted before *)
(* may still deliver its request.                                          *)
Arrive(r) ==
    /\ server # "exited"
    /\ pc[r] = "new"
    /\ Goto(r, "read")
    /\ UNCHANGED <<listener, sem, request, status>>

(* What fails before a slot is asked for: another method, a body that is   *)
(* too large, a body that is not one JSON object or does not arrive within *)
(* the read timeout, and a request without a bearer token.                 *)
Reject(r) ==
    /\ pc[r] = "read"
    /\ \E code \in {405, 413, 400, 401} : Answer(r, code, "done")
    /\ UNCHANGED <<listener, sem, request>>

ReadRequest(r) ==
    /\ pc[r] = "read"
    /\ Goto(r, "admit")
    /\ UNCHANGED <<listener, sem, request, status>>

(* acquireResolveSlot does not wait: a full channel is an answer.          *)
AcquireSlot(r) ==
    /\ pc[r] = "admit"
    /\ \/ /\ sem < MaxConcurrent
          /\ sem' = sem + 1
          /\ Goto(r, "verify")
          /\ UNCHANGED status
       \/ /\ sem = MaxConcurrent
          /\ Answer(r, 503, "done")
          /\ UNCHANGED sem
    /\ UNCHANGED <<listener, request>>

(* Verify, whose key fetches are bounded by the context too, fails or not. *)
VerifyToken(r) ==
    /\ pc[r] = "verify"
    /\ \/ /\ Goto(r, "authorize")
          /\ UNCHANGED status
       \/ Answer(r, 401, "release")
    /\ UNCHANGED <<listener, sem, request>>

(* Authorize denies, or allows; a server without bindings then gives up.   *)
Authorize(r) ==
    /\ pc[r] = "authorize"
    /\ \/ Answer(r, 403, "release")
       \/ IF Wired THEN Goto(r, "bind") /\ UNCHANGED status
                   ELSE Answer(r, 500, "release")
    /\ UNCHANGED <<listener, sem, request>>

(* ResolveMaterials with the one requested capability: it has no binding   *)
(* or an unknown provider, or its provider is called.                      *)
CallProvider(r) ==
    /\ pc[r] = "bind"
    /\ \/ /\ failed' = [failed EXCEPT ![r] = TRUE]
          /\ Goto(r, "check")
          /\ UNCHANGED provider
       \/ /\ \E p \in Providers : provider' = [provider EXCEPT ![r] = p]
          /\ Goto(r, "resolve")
          /\ UNCHANGED failed
    /\ UNCHANGED <<listener, sem, expired, gone, material, status>>

(* The provider returns a material, an error, both, or neither.  Whatever  *)
(* it is, ResolveMaterials owns it before it looks at the error.           *)
ProviderReturns(r) ==
    /\ pc[r] = "resolve"
    /\ \E kind \in Kinds, err \in BOOLEAN :
        /\ material' = [material EXCEPT ![r] = kind]
        /\ failed' = [failed EXCEPT ![r] = err]
    /\ provider' = [provider EXCEPT ![r] = NoProvider]
    /\ Goto(r, "check")
    /\ UNCHANGED <<listener, sem, expired, gone, status>>

(* The rest of ResolveMaterials, with its deferred clean-up, and what the  *)
(* handler makes of its error.  A material that is nil, malformed, too     *)
(* large or expired is an error too.                                       *)
FinishResolve(r) ==
    /\ pc[r] = "check"
    /\ \/ /\ ~failed[r] /\ material[r] = "valid"
          /\ Goto(r, "write")
          /\ UNCHANGED <<material, failed, status>>
       \/ /\ failed[r] \/ material[r] # "valid"
          /\ Answer(r, IF ContextOver(r) THEN 504 ELSE 502, "release")
          /\ material' = [material EXCEPT ![r] = "none"]
          /\ failed' = [failed EXCEPT ![r] = FALSE]
    /\ UNCHANGED <<listener, sem, expired, gone, provider>>

(* The answer is encoded onto the connection.  That blocks while the       *)
(* client does not read, and fails after the write timeout; the handler    *)
(* does not look at the outcome.                                           *)
WriteAnswer(r) ==
    /\ pc[r] = "write"
    /\ Answer(r, 200, "clear")
    /\ UNCHANGED <<listener, sem, request>>

(* The deferred calls, last first: ClearMaterials, cancel, and the release *)
(* of the slot, which takes one element from the channel if there is one.  *)
(* With the handler its contexts are gone.                                 *)
ClearMaterials(r) ==
    /\ pc[r] = "clear"
    /\ material' = [material EXCEPT ![r] = "none"]
    /\ Goto(r, "release")
    /\ UNCHANGED <<listener, sem, expired, gone, provider, failed, status>>

ReleaseSlot(r) ==
    /\ pc[r] = "release"
    /\ sem' = IF sem > 0 THEN sem - 1 ELSE sem
    /\ expired' = [expired EXCEPT ![r] = FALSE]
    /\ gone' = [gone EXCEPT ![r] = FALSE]
    /\ Goto(r, "done")
    /\ UNCHANGED <<listener, provider, failed, material, status>>

Handle(r) ==
    \/ Reject(r) \/ ReadRequest(r) \/ AcquireSlot(r) \/ VerifyToken(r)
    \/ Authorize(r) \/ CallProvider(r) \/ FinishResolve(r) \/ WriteAnswer(r)
    \/ ClearMaterials(r) \/ ReleaseSlot(r)

-----------------------------------------------------------------------------
(* The resolve timeout, counted from the acquisition of the slot.          *)
Deadline(r) ==
    /\ pc[r] \in Holding /\ ~expired[r]
    /\ expired' = [expired EXCEPT ![r] = TRUE]
    /\ UNCHANGED <<listener, sem, pc, gone, provider, failed, material, status>>

(* The client goes away; the server notices once the body has been read.   *)
Disconnect(r) ==
    /\ pc[r] \in {"admit"} \cup Holding /\ ~gone[r]
    /\ gone' = [gone EXCEPT ![r] = TRUE]
    /\ UNCHANGED <<listener, sem, pc, expired, provider, failed, material, status>>

(* SIGTERM or an interrupt: Shutdown begins, with a timeout of its own.    *)
(* It does not touch the contexts of the requests in flight.               *)
Terminate ==
    /\ server = "serving"
    /\ server' = "draining"
    /\ UNCHANGED <<graceOver, sem, pc, request, status>>

GraceEnds ==
    /\ server = "draining" /\ ~graceOver
    /\ graceOver' = TRUE
    /\ UNCHANGED <<server, sem, pc, request, status>>

(* The process ends with everything it holds in memory.                    *)
Die ==
    /\ server' = "exited"
    /\ pc' = [r \in Requests |-> IF pc[r] \in Active THEN "abandoned" ELSE pc[r]]
    /\ material' = [r \in Requests |-> "none"]
    /\ sem' = 0
    /\ UNCHANGED <<graceOver, expired, gone, provider, failed, status>>

(* Shutdown returns when no request is in flight or its timeout is over;   *)
(* ListenAndServe and main return with it.                                 *)
Exit ==
    /\ server = "draining"
    /\ graceOver \/ \A r \in Requests : pc[r] \notin Active
    /\ Die

(* The listener fails: main ends the process without a drain.              *)
ListenerFails == server = "serving" /\ Die

Next ==
    \/ Terminate \/ GraceEnds \/ Exit \/ ListenerFails
    \/ \E r \in Requests :
        Arrive(r) \/ Handle(r) \/ ProviderReturns(r) \/ Deadline(r) \/ Disconnect(r)

Spec == Init /\ [][Next]_vars

(* Fairness.  The handler computes on: reading a body and writing an       *)
(* answer end with the timeouts of the server, Verify ends (CallsReturn of *)
(* JwksCache).  Timers that run fire.  A provider that heeds its context   *)
(* returns when that is over; nothing makes another provider return.       *)
HeedingReturns(r) ==
    provider[r] \in Heeding /\ ContextOver(r) /\ ProviderReturns(r)

Fairness ==
    /\ WF_vars(GraceEnds) /\ WF_vars(Exit)
    /\ \A r \in Requests :
        WF_vars(Handle(r)) /\ WF_vars(Deadline(r)) /\ WF_vars(HeedingReturns(r))

FairSpec == Spec /\ Fairness

-----------------------------------------------------------------------------
(* Every variable holds a value of the kind the code gives it.             *)
TypeOK ==
    /\ server \in {"serving", "draining", "exited"}
    /\ graceOver \in BOOLEAN
    /\ sem \in 0 .. MaxConcurrent
    /\ pc \in [Requests -> Locations]
    /\ expired \in [Requests -> BOOLEAN] /\ gone \in [Requests -> BOOLEAN]
    /\ provider \in [Requests -> Providers \cup {NoProvider}]
    /\ failed \in [Requests -> BOOLEAN]
    /\ material \in [Requests -> Kinds]
    /\ status \in [Requests -> Statuses]

(* A slot is taken for exactly the handlers between acquisition and the    *)
(* deferred release, on every path out of the handler.                     *)
SlotsAccounted == sem = Cardinality(Holders)

(* Material is owned only by a handler that still has to clear it.         *)
MaterialOwned == \A r \in Requests :
    material[r] # "none" => pc[r] \in {"check", "write", "clear"}

(* An answer is given once: before its answer a handler does not reach its *)
(* deferred calls or its end, and the code 503 is the answer of a handler  *)
(* that holds no slot.                                                     *)
Answered == {"clear", "release", "done"}
AnsweredOnce == \A r \in Requests :
    /\ pc[r] \in Answered => status[r] # 0
    /\ pc[r] \in ({"new"} \cup Active) \ Answered => status[r] = 0
    /\ pc[r] \in Holding => status[r] # 503

(* The inductive invariant the proofs rest on.                             *)
Inv == TypeOK /\ SlotsAccounted /\ MaterialOwned /\ AnsweredOnce

(* Nothing a provider returned outlives the handling of its request, the   *)
(* partial material that accompanies an error included; and since material *)
(* is cleared before the slot is released, no more materials are in memory *)
(* at any time than there are slots.                                       *)
MaterialBounded ==
    /\ \A r \in Requests : pc[r] \in Ended => material[r] = "none"
    /\ Cardinality({r \in Requests : material[r] # "none"}) <= MaxConcurrent

(* The limit on in-flight resolves is a set of slots: the broker answers   *)
(* busy only when all are taken, and every handler gives its slot back.    *)
Slots == INSTANCE ResolveSlots WITH holders <- Holders, busy <- Refused

SlotsImplemented == Slots!Spec

(* Every request is answered, or the broker ends: no path through the      *)
(* handler and no client keeps a handler for ever, only a provider that    *)
(* does not heed its context while it works.                               *)
RequestsEnd == \A r \in Requests :
    pc[r] \in Active ~>
        \/ pc[r] \in Ended
        \/ pc[r] = "resolve" /\ provider[r] \in Providers \ Heeding

(* The resolve timeout bounds a resolve, as SECURITY.md and spec/broker.md *)
(* state it without an exception: a slot that is taken is given back.      *)
ResolveBounded == \A r \in Requests : pc[r] \in Holding ~> pc[r] \notin Holding

(* A signal ends the broker, whatever the requests in flight do.           *)
ShutdownCompletes == server = "draining" ~> server = "exited"
=============================================================================
