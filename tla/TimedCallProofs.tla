--------------------------- MODULE TimedCallProofs ---------------------------
(***************************************************************************)
(* Theorems about TimedCall, the call of the consumer against the timers   *)
(* of both programs, for every set of endpoints, every number of retries   *)
(* and of redirects: the types and the confinement of the token, what one  *)
(* call makes the broker issue, that a final answer of the identity        *)
(* service ends the asking, and that the timers fit.                       *)
(*                                                                         *)
(* CallProgress relates what the call has done to its phase, ServerProgress*)
(* the stage of the broker, and Resolving the clocks of both sides.        *)
(***************************************************************************)
EXTENDS TimedCall, TLAPS

(* The identity service is still being asked.                              *)
Minting == phase \in {"mint", "backoff"}

(* What was done so far, by phase.                                         *)
CallProgress ==
    /\ phase = "start" => attempt = 0 /\ mints = 0
    /\ Minting => mints = attempt + 1
    /\ phase = "backoff" => attempt < MaxRetries
    /\ phase = "start" \/ Minting => ~settled /\ via = {} /\ outcome = "none"
    /\ InFlight => outcome = "none"
    /\ phase \in {"start", "mint", "backoff", "post"} => issued = 0
    /\ phase = "answer" => issued = 1
    /\ issued <= 1
    /\ outcome = "material" => issued = 1

(* Where the request may go: a network in the clear was reached over       *)
(* nothing else.                                                           *)
Confinement ==
    /\ Minting \/ InFlight => Allowed(endpoint)
    /\ ~endpoint.tls => \A e \in via : ~e.tls

(* The broker takes up a request that is under way, and answers it once.   *)
ServerProgress ==
    /\ phase = "start" \/ Minting => stage = "none" /\ age = 0
    /\ phase = "post" => stage \notin {"writing", "written"}

IInv == Inv /\ CallProgress /\ Confinement /\ ServerProgress

(* While the network takes no time, what has passed is time of the handler.*)
Resolving ==
    heeds /\ transit = 0 =>
        /\ timer \in {"none", "resolve"}
        /\ age <= ResolveTimeout
        /\ stage \in {"none", "reading"} => age = 0
        /\ stage = "resolving" => slot = age

-----------------------------------------------------------------------------
(* The inductive invariant.                                                *)

LEMMA InitInv == TimedInit => IInv
<1> SUFFICES ASSUME TimedInit PROVE IInv
  OBVIOUS
<1>1. CallTypeOK
  <2>1. hops \in 0 .. MaxRedirects /\ attempt \in 0 .. MaxRetries
        /\ mints \in 0 .. MaxRetries + 1 /\ issued \in Nat
    BY LimitsAssumption DEF TimedInit, Init
  <2> QED
    BY <2>1 DEF TimedInit, Init, CallTypeOK
<1>2. Inv
  BY <1>1 DEF TimedInit, Init, Inv, TokenConfined, ClientTimeout
<1> QED
  BY <1>2 DEF TimedInit, Init, IInv, CallProgress, Confinement, ServerProgress, Minting, InFlight

(* A request that is sent where it may go confines the token, if what it   *)
(* carries is added to what was sent.                                      *)
LEMMA SentConfined ==
    ASSUME TokenConfined, NEW e, NEW through, Allowed(e),
           ~e.tls => \A f \in through : ~f.tls,
           sent' \in {sent, sent \cup {<<e, through>>}}
    PROVE  TokenConfined'
BY DEF TokenConfined, Allowed

(* The steps of Resolve, up to the request.                                *)
LEMMA ResolveStep ==
    ASSUME IInv, Resolve, UNCHANGED <<timers, server>>
    PROVE  IInv'
<1> USE DEF call, request, history, timers, server
<1> USE DEF IInv, Inv, CallTypeOK, CallProgress, Confinement, ServerProgress, Minting, InFlight
<1>1. CASE RefuseBinding
  BY <1>1 DEF RefuseBinding, Fail, TokenConfined
<1>2. CASE UseFixedToken
  <2>1. TokenConfined'
    BY <1>2, SentConfined DEF UseFixedToken, Send
  <2> QED
    BY <1>2, <2>1 DEF UseFixedToken, Send
<1>3. CASE BeginMint
  BY <1>3, LimitsAssumption DEF BeginMint, Fail, TokenConfined
<1>4. CASE BackoffEnds
  BY <1>4, LimitsAssumption DEF BackoffEnds, Fail, TokenConfined
<1> QED
  BY <1>1, <1>2, <1>3, <1>4 DEF Resolve

(* The answers of the identity service.                                    *)
LEMMA MintStep ==
    ASSUME IInv, MintEnds, UNCHANGED <<timers, server>>
    PROVE  IInv'
<1> USE DEF call, request, history, timers, server
<1> USE DEF IInv, Inv, CallTypeOK, CallProgress, Confinement, ServerProgress, Minting, InFlight
<1>1. CASE MintSucceeds
  <2>1. TokenConfined'
    BY <1>1, SentConfined DEF MintSucceeds, Send
  <2> QED
    BY <1>1, <2>1 DEF MintSucceeds, Send
<1>2. CASE MintRefused
  BY <1>2 DEF MintRefused, Fail, TokenConfined
<1>3. CASE MintFails
  BY <1>3, LimitsAssumption DEF MintFails, Fail, TokenConfined
<1> QED
  BY <1>1, <1>2, <1>3 DEF MintEnds

(* Redirects: what is refused is not sent, what is followed is confined.   *)
LEMMA RedirectStep ==
    ASSUME IInv, NEW to \in Endpoints, NEW keep \in BOOLEAN, Redirect(to, keep),
           UNCHANGED <<timers, server>>
    PROVE  IInv'
<1> USE DEF call, request, history, timers, server
<1>1. CASE ~RedirectAllowed(endpoint, to)
  BY <1>1 DEF Redirect, Fail, TokenConfined, IInv, Inv, CallTypeOK, CallProgress, Confinement,
              ServerProgress, Minting, InFlight
<1>2. CASE RedirectAllowed(endpoint, to)
  <2>1. /\ Allowed(to) /\ hops + 1 < MaxRedirects /\ phase = "post"
        /\ ~to.tls => \A f \in via \cup {endpoint} : ~f.tls
    BY <1>2 DEF RedirectAllowed, Redirect, IInv, Confinement
  <2>2. TokenConfined'
    BY <1>2, <2>1, SentConfined DEF Redirect, Send, Fail, IInv, Inv
  <2>3. CallTypeOK'
    <3>1. sent' \subseteq Endpoints \X SUBSET Endpoints
      BY <1>2, <2>1 DEF Redirect, Send, Fail, IInv, Inv, CallTypeOK
    <3>2. hops' \in 0 .. MaxRedirects
      BY <1>2, <2>1, LimitsAssumption DEF Redirect, Send, Fail, IInv, Inv, CallTypeOK
    <3>3. bearing' \in BOOLEAN /\ endpoint' \in Endpoints /\ via' \subseteq Endpoints
          /\ phase' \in {"post", "done"} /\ outcome' \in {"none", "error"}
      BY <1>2, <2>1 DEF Redirect, Send, Fail, IInv, Inv, CallTypeOK, CallProgress, InFlight
    <3> QED
      BY <1>2, <3>1, <3>2, <3>3 DEF Redirect, IInv, Inv, CallTypeOK
  <2>4. Inv'
    BY <2>2, <2>3 DEF IInv, Inv
  <2>5. CallProgress' /\ Confinement' /\ ServerProgress'
    BY <1>2, <2>1 DEF Redirect, Send, Fail, IInv, CallProgress, Confinement, ServerProgress,
                      Minting, InFlight
  <2> QED
    BY <2>4, <2>5 DEF IInv
<1> QED
  BY <1>1, <1>2

(* What ends a request, or the patience of the caller.                     *)
LEMMA RequestStep ==
    ASSUME IInv, CallFails \/ AnswerArrives \/ Cancel \/ BrokerResolves
    PROVE  (CallTypeOK /\ TokenConfined /\ CallProgress /\ Confinement)'
<1> USE DEF CallFails, AnswerArrives, Cancel, BrokerResolves, Fail, call, request, history,
            IInv, Inv
<1>1. CallTypeOK'
  <2>1. CASE CallFails \/ AnswerArrives
    BY <2>1 DEF CallTypeOK
  <2>2. CASE Cancel
    BY <2>2 DEF CallTypeOK
  <2>3. CASE BrokerResolves
    BY <2>3 DEF CallTypeOK
  <2> QED
    BY <2>1, <2>2, <2>3
<1>2. TokenConfined' /\ Confinement'
  BY DEF TokenConfined, Confinement, Minting, InFlight
<1>3. CallProgress'
  <2>1. CASE CallFails \/ AnswerArrives
    BY <2>1 DEF CallProgress, Minting, InFlight
  <2>2. CASE Cancel \/ BrokerResolves
    BY <2>2 DEF CallProgress, Minting, InFlight
  <2> QED
    BY <2>1, <2>2
<1> QED
  BY <1>1, <1>2, <1>3

LEMMA UntimedStep == IInv /\ Untimed => IInv'
<1> SUFFICES ASSUME IInv, Untimed PROVE IInv'
  OBVIOUS
<1>1. CASE CallFails \/ Receive \/ Cancel
  <2>1. (CallTypeOK /\ TokenConfined /\ CallProgress /\ Confinement)'
    BY <1>1, RequestStep DEF Receive
  <2>2. ServerProgress'
    BY <1>1 DEF CallFails, Receive, AnswerArrives, Cancel, Fail, Untimed, timers, server,
                IInv, ServerProgress, Minting
  <2> QED
    BY <2>1, <2>2 DEF IInv, Inv, Untimed, timers, server
<1>2. CASE stage = "none" /\ Redirected
  BY <1>2, RedirectStep DEF Redirected, Untimed
<1> QED
  BY <1>1, <1>2, ResolveStep, MintStep DEF Untimed

LEMMA BrokerStep == IInv /\ (Broker \/ ClientTimesOut) => IInv'
<1> SUFFICES ASSUME IInv, Broker \/ ClientTimesOut PROVE IInv'
  OBVIOUS
<1> USE DEF IInv, Inv, timers
<1>1. CASE Accept \/ BodyArrives \/ BodyLate \/ ResolveTimesOut \/ WriteAnswer
  <2>1. UNCHANGED vars /\ UNCHANGED <<heeds, age, transit>>
    BY <1>1 DEF Accept, BodyArrives, BodyLate, ResolveTimesOut, WriteAnswer
  <2>2. (CallTypeOK /\ TokenConfined /\ CallProgress /\ Confinement)'
    BY <2>1 DEF vars, call, request, history, CallTypeOK, TokenConfined, CallProgress,
                Confinement, Minting, InFlight
  <2>3. ServerProgress'
    BY <1>1, <2>1 DEF Accept, BodyArrives, BodyLate, ResolveTimesOut, WriteAnswer,
                      ServerProgress, Minting, vars
  <2> QED
    BY <1>1, <2>1, <2>2, <2>3
      DEF Accept, BodyArrives, BodyLate, ResolveTimesOut, WriteAnswer
<1>2. CASE Issue
  BY <1>2, RequestStep DEF Issue, BrokerResolves, ServerProgress, Minting
<1>3. CASE ClientTimesOut
  BY <1>3, RequestStep DEF ClientTimesOut, CallFails, Fail, ServerProgress, Minting
<1> QED
  BY <1>1, <1>2, <1>3 DEF Broker

LEMMA TickStep == IInv /\ Tick => IInv'
<1> SUFFICES ASSUME IInv, Tick PROVE IInv'
  OBVIOUS
<1>1. /\ UNCHANGED <<vars, server>> /\ MayPass /\ age' = age + 1
      /\ head' \in {0, head + 1} /\ slot' \in {0, slot + 1} /\ slot' <= head'
      /\ transit' \in {transit, transit + 1}
  BY DEF Tick, IInv, Inv
<1>2. (CallTypeOK /\ TokenConfined /\ CallProgress /\ Confinement /\ ServerProgress)'
  BY <1>1 DEF vars, server, call, request, history, CallTypeOK, TokenConfined, CallProgress,
              Confinement, ServerProgress, Minting, InFlight, MayPass, IInv, Inv
<1> QED
  BY <1>1, <1>2 DEF IInv, Inv, MayPass, ClientTimeout, server

LEMMA Stutter == IInv /\ UNCHANGED timedVars => IInv'
BY DEF timedVars, vars, timers, server, call, request, history, IInv, Inv, CallTypeOK,
       TokenConfined, CallProgress, Confinement, ServerProgress, Minting, InFlight

LEMMA Inductive == Spec => []IInv
<1>1. IInv /\ [Next]_timedVars => IInv'
  BY UntimedStep, BrokerStep, TickStep, Stutter DEF Next
<1> QED
  BY <1>1, InitInv, PTL DEF Spec

-----------------------------------------------------------------------------
(* What follows from it.                                                   *)

(* THEOREM: the token crosses no network in the clear: it goes over TLS, or*)
(* to this host when no endpoint that redirected it used TLS; the identity *)
(* service is asked at most MaxRetries + 1 times, and the clocks of both   *)
(* sides agree.                                                            *)
THEOREM Invariance == Spec => []Inv
<1>1. IInv => Inv
  BY DEF IInv
<1> QED
  BY <1>1, Inductive, PTL

(* THEOREM: one call makes the broker issue at most one material, a        *)
(* material of the caller comes from the broker, and no request has been   *)
(* fulfilled while the identity service is still asked.                    *)
THEOREM OneIssue == Spec => []IssuedOnce
<1>1. IInv => IssuedOnce
  BY DEF IInv, CallProgress, IssuedOnce
<1> QED
  BY <1>1, Inductive, PTL

(* THEOREM: after its final answer, a refusal or a token, the identity     *)
(* service is not asked again.                                             *)
THEOREM AnswerEndsAsking == Spec => NoMintAfterAnswer
<1>1. IInv /\ [Next]_timedVars => [settled => mints' = mints]_vars
  <2> SUFFICES ASSUME IInv, [Next]_timedVars, settled PROVE mints' = mints
    OBVIOUS
  <2>1. phase \notin {"start", "mint", "backoff"}
    BY DEF IInv, CallProgress, Minting
  <2>2. CASE Untimed
    BY <2>1, <2>2 DEF Untimed, Resolve, RefuseBinding, UseFixedToken, BeginMint, BackoffEnds,
                MintEnds, MintSucceeds, MintRefused, MintFails, CallFails, Receive,
                AnswerArrives, Cancel, Redirected, Redirect, history
  <2>3. CASE Broker \/ ClientTimesOut \/ Tick
    BY <2>3 DEF Broker, Accept, BodyArrives, BodyLate, Issue, BrokerResolves, ResolveTimesOut,
                WriteAnswer, ClientTimesOut, CallFails, Tick, history, vars
  <2>4. CASE UNCHANGED timedVars
    BY <2>4 DEF timedVars, vars, history
  <2> QED
    BY <2>2, <2>3, <2>4 DEF Next
<1> QED
  BY <1>1, Inductive, PTL DEF Spec, NoMintAfterAnswer

(* THEOREM: if the provider of the broker heeds its context and the network*)
(* takes less than one unit of time, no timer of either side but that of   *)
(* the resolve ends the exchange before the broker has answered.           *)
THEOREM TimersFit == Spec => []AnsweredInTime
<1>1. TimedInit => Resolving
  BY DEF TimedInit, Init, Resolving, ResolveTimeout
<1>2. IInv /\ Resolving /\ [Next]_timedVars => Resolving'
  <2> SUFFICES ASSUME IInv, Resolving, [Next]_timedVars, heeds', transit' = 0
               PROVE  /\ timer' \in {"none", "resolve"}
                      /\ age' <= ResolveTimeout
                      /\ stage' \in {"none", "reading"} => age' = 0
                      /\ stage' = "resolving" => slot' = age'
    BY DEF Resolving
  <2> USE DEF IInv, Inv, Resolving, ResolveTimeout, ClientTimeout, ReadTimeout, WriteTimeout
  <2>1. CASE Accept
    BY <2>1 DEF Accept, ServerProgress
  <2>2. CASE Tick
    BY <2>2 DEF Tick, MayPass, server
  <2>3. CASE UNCHANGED <<heeds, timers>>
    <3>1. heeds /\ transit = 0
      BY <2>3 DEF timers
    <3>2. /\ timer \in {"none", "resolve"}
          /\ age <= ResolveTimeout
          /\ stage \in {"none", "reading"} => age = 0
          /\ stage = "resolving" => slot = age
          /\ age \in Nat /\ head \in 0 .. age /\ slot \in 0 .. head
      BY <3>1
    <3> HIDE DEF IInv, Inv, Resolving
    <3>3. CASE Untimed
      BY <3>2, <3>3 DEF Untimed, timers, server
    <3>4. CASE BodyArrives
      <4>1. age = 0 /\ slot = 0
        BY <3>2, <3>4 DEF BodyArrives
      <4> QED
        BY <3>2, <3>4, <4>1 DEF BodyArrives, timers
    <3>5. CASE Issue
      BY <2>3, <3>2, <3>5 DEF Issue, timers
    <3>6. CASE BodyLate
      BY <2>3, <3>2, <3>6 DEF BodyLate, timers
    <3>7. CASE ResolveTimesOut
      BY <2>3, <3>2, <3>7 DEF ResolveTimesOut, timers
    <3>8. CASE WriteAnswer
      BY <2>3, <3>2, <3>8 DEF WriteAnswer, timers
    <3>9. CASE ClientTimesOut
      BY <2>3, <3>2, <3>9 DEF ClientTimesOut, timers
    <3>10. CASE UNCHANGED timedVars
      BY <3>2, <3>10 DEF timedVars, timers, server
    <3> QED
      BY <3>3, <3>4, <3>5, <3>6, <3>7, <3>8, <3>9, <3>10, <2>1, <2>2 DEF Next, Broker
  <2>4. Accept \/ Tick \/ UNCHANGED <<heeds, timers>>
    BY DEF Next, Untimed, Broker, BodyArrives, BodyLate, Issue, ResolveTimesOut, WriteAnswer,
           ClientTimesOut, timedVars, server
  <2> QED
    BY <2>1, <2>2, <2>3, <2>4
<1>3. Resolving => AnsweredInTime
  BY DEF Resolving, AnsweredInTime
<1> QED
  BY <1>1, <1>2, <1>3, Inductive, PTL DEF Spec

=============================================================================
