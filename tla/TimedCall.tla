------------------------------ MODULE TimedCall ------------------------------
(***************************************************************************)
(* A BrokerCall against the timers of both programs: the HTTP client of    *)
(* the consumer (securehttp.DefaultClient) gives the request half a        *)
(* minute; the server of the broker (internal/broker/server.go) gives the  *)
(* body of a request 15 s and its answer 30 s from the end of the header,  *)
(* and handleResolve gives itself 25 s from the slot on.                   *)
(*                                                                         *)
(* Time passes in units of five seconds.  A timer fires when it is due,    *)
(* not later; computing takes no time, the network and the provider of the *)
(* broker take as much as they like.  ResolveServer is the broker without  *)
(* time, for many requests.                                                *)
(***************************************************************************)
EXTENDS BrokerCall

ClientTimeout == 6
ReadTimeout == 3
WriteTimeout == 6

\* As if the broker gave the resolve what the client gives the request.
ResolveTimeoutOfClient == 6

ResolveTimeout == 5

VARIABLES
    stage,    \* "none", "reading", "resolving", "writing", "written", "closed"
    heeds,    \* the provider of the broker returns when its context is over
    age,      \* since the request was sent
    head,     \* since the broker has read its header
    slot,     \* since the handler has its slot
    transit,  \* history: of age, what the network took
    timer     \* history: the timer that ended the exchange

timers == <<age, head, slot, transit>>
server == <<stage, heeds, timer>>
timedVars == <<vars, timers, server>>

InFlight == phase \in {"post", "answer"}

TimedInit ==
    /\ Init
    /\ stage = "none" /\ heeds \in BOOLEAN
    /\ age = 0 /\ head = 0 /\ slot = 0 /\ transit = 0
    /\ timer = "none"

-----------------------------------------------------------------------------
(* The broker.                                                             *)

\* net/http has read the header of the request, or of one that follows an
\* answer, if the client sent any.
Accept ==
    /\ phase = "post" /\ bearing /\ stage \in {"none", "writing", "written"}
    /\ stage' = "reading"
    /\ head' = 0 /\ slot' = 0
    /\ UNCHANGED <<vars, age, transit, heeds, timer>>

\* The body is there, and there is a slot for it.
BodyArrives ==
    /\ phase = "post" /\ stage = "reading"
    /\ stage' = "resolving"
    /\ UNCHANGED <<vars, timers, heeds, timer>>

BodyLate ==
    /\ phase = "post" /\ stage = "reading" /\ head = ReadTimeout
    /\ stage' = "closed" /\ timer' = "read"
    /\ UNCHANGED <<vars, timers, heeds>>

\* The provider returns a material, within the time of the resolve unless it
\* does not look at it.
Issue ==
    /\ stage = "resolving" /\ BrokerResolves
    /\ stage' = "writing"
    /\ UNCHANGED <<timers, heeds, timer>>

ResolveTimesOut ==
    /\ phase = "post" /\ stage = "resolving" /\ heeds /\ slot = ResolveTimeout
    /\ stage' = "closed" /\ timer' = "resolve"
    /\ UNCHANGED <<vars, timers, heeds>>

\* A connection whose write deadline has passed takes no answer.
WriteAnswer ==
    /\ phase = "answer" /\ stage = "writing"
    /\ IF head < WriteTimeout THEN stage' = "written" /\ UNCHANGED timer
       ELSE stage' = "closed" /\ timer' = "write"
    /\ UNCHANGED <<vars, timers, heeds>>

-----------------------------------------------------------------------------
(* The client.                                                             *)

ClientTimesOut ==
    /\ age = ClientTimeout
    /\ CallFails
    /\ timer' = IF timer = "none" THEN "client" ELSE timer
    /\ UNCHANGED <<timers, stage, heeds>>

Receive == stage = "written" /\ AnswerArrives

\* No timer that is due is left behind, and nobody computes.
MayPass ==
    /\ InFlight /\ age < ClientTimeout
    /\ stage = "reading" => head < ReadTimeout
    /\ stage = "resolving" /\ heeds => slot < ResolveTimeout
    /\ stage # "writing"

Tick ==
    /\ MayPass
    /\ age' = age + 1
    /\ head' = IF stage = "none" THEN 0 ELSE head + 1
    /\ slot' = IF stage \in {"none", "reading"} THEN 0 ELSE slot + 1
    /\ transit' = IF stage = "resolving" THEN transit ELSE transit + 1
    /\ UNCHANGED <<vars, server>>

Untimed ==
    /\ \/ Resolve \/ MintEnds \/ CallFails \/ Receive \/ Cancel
       \/ stage = "none" /\ Redirected
    /\ UNCHANGED <<timers, server>>

Broker == Accept \/ BodyArrives \/ BodyLate \/ Issue \/ ResolveTimesOut \/ WriteAnswer

Next == Untimed \/ Broker \/ ClientTimesOut \/ Tick

Spec == TimedInit /\ [][Next]_timedVars

\* The steps of Resolve are taken and the timers of both sides fire; the
\* clients of the identity services have timeouts of their own (15 s and 5 s).
FairSpec ==
    /\ Spec
    /\ WF_timedVars(Resolve /\ UNCHANGED <<timers, server>>)
    /\ WF_timedVars(MintEnds /\ UNCHANGED <<timers, server>>)
    /\ WF_timedVars(Tick) /\ WF_timedVars(ClientTimesOut)
    /\ WF_timedVars(BodyLate) /\ WF_timedVars(ResolveTimesOut) /\ WF_timedVars(WriteAnswer)

-----------------------------------------------------------------------------
(* Properties.                                                             *)

\* The types, of the call and of its timers, and what securehttp is for: the
\* token crosses no network in the clear.  It goes over TLS, or to this host
\* when no endpoint that redirected it used TLS.
Inv ==
    /\ CallTypeOK
    /\ stage \in {"none", "reading", "resolving", "writing", "written", "closed"}
    /\ age \in 0 .. ClientTimeout /\ transit \in 0 .. age
    /\ head \in 0 .. age /\ slot \in 0 .. head /\ heeds \in BOOLEAN
    /\ timer \in {"none", "read", "resolve", "write", "client"}
    /\ TokenConfined

\* The timers of consumer and broker fit: if the provider of the broker heeds
\* its context and the network takes less than one unit of five seconds, no
\* timer of either side but that of the resolve ends the exchange before the
\* broker has answered: no credential is issued in vain.  (With a body that
\* takes longer, or a provider that goes on, it may be.)
AnsweredInTime ==
    heeds /\ transit = 0 => timer \in {"none", "resolve"}

\* Every call ends, however the services behave: the timeout of its client
\* ends a request that the broker does not answer.
CallEnds == <>(phase = "done")
=============================================================================
