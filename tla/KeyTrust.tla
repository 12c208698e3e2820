------------------------------ MODULE KeyTrust ------------------------------
(***************************************************************************)
(* What broker.Verifier promises its callers about signing keys, without   *)
(* a cache, mutexes or an endpoint: each call ends with a verdict that the *)
(* issuer's published keys justify up to a bounded delay.                  *)
(***************************************************************************)
EXTENDS Integers

CONSTANTS
    Threads, Kids, Tokens, NoToken,
    Staleness,         \* how long a withdrawn key may still be accepted
    ObservationDelay,  \* how long a newly published key may be unknown
    Skew, MaxLifetime,
    Unset,             \* "not yet", earlier than every time compared with
    MaxClock, MaxVersion

VARIABLES
    clock,    \* the time
    origin,   \* what the issuer publishes: [ver, kids]
    since,    \* when each kid was last added
    until,    \* when each kid was last withdrawn
    tok,      \* the token of each call in progress, NoToken outside a call
    started,  \* when the call began
    result    \* the verdict of each thread's last call

vars == <<clock, origin, since, until, tok, started, result>>

Init ==
    /\ clock = 0
    /\ \E kids \in SUBSET Kids : origin = [ver |-> 1, kids |-> kids]
    /\ since = [k \in Kids |-> Unset]
    /\ until = [k \in Kids |-> Unset]
    /\ tok = [t \in Threads |-> NoToken]
    /\ started = [t \in Threads |-> 0]
    /\ result = [t \in Threads |-> "none"]

Tick ==
    /\ clock < MaxClock
    /\ clock' = clock + 1
    /\ UNCHANGED <<origin, since, until, tok, started, result>>

Rotate ==
    /\ origin.ver < MaxVersion
    /\ \E kids \in SUBSET Kids :
        /\ origin' = [ver |-> origin.ver + 1, kids |-> kids]
        /\ since' = [k \in Kids |->
                        IF k \in kids \ origin.kids THEN clock ELSE since[k]]
        /\ until' = [k \in Kids |->
                        IF k \in origin.kids \ kids THEN clock ELSE until[k]]
    /\ UNCHANGED <<clock, tok, started, result>>

(* A call without a token is refused at once.                              *)
Refuse(t) ==
    /\ tok[t] = NoToken
    /\ result' = [result EXCEPT ![t] = "rejected"]
    /\ UNCHANGED <<clock, origin, since, until, tok, started>>

Begin(t) ==
    /\ tok[t] = NoToken
    /\ \E token \in Tokens : tok' = [tok EXCEPT ![t] = token]
    /\ started' = [started EXCEPT ![t] = clock]
    /\ result' = [result EXCEPT ![t] = "none"]
    /\ UNCHANGED <<clock, origin, since, until>>

Good(token, now) ==
    /\ token.rs256 /\ token.signed /\ token.claims
    /\ now - Skew < token.exp
    /\ token.exp - now <= MaxLifetime + Skew

(* The verdicts that may end a call: a good token under a key that is, or  *)
(* recently was, published is accepted; a key is unknown only if it is not *)
(* published or was published recently; a token is rejected only if it is  *)
(* not good; and the keys may be unavailable at any time.                  *)
Justified(token, began, now, verdict) ==
    \/ /\ verdict = "accepted"
       /\ Good(token, now)
       /\ \/ token.kid \in origin.kids
          \/ until[token.kid] >= began - Staleness
    \/ /\ verdict = "unknown_key"
       /\ \/ token.kid \notin origin.kids
          \/ since[token.kid] >= began - ObservationDelay
    \/ verdict = "rejected" /\ ~Good(token, now)
    \/ verdict = "unavailable"

End(t) ==
    /\ tok[t] # NoToken
    /\ \E verdict \in {"accepted", "unknown_key", "rejected", "unavailable"} :
        /\ Justified(tok[t], started[t], clock, verdict)
        /\ result' = [result EXCEPT ![t] = verdict]
    /\ tok' = [tok EXCEPT ![t] = NoToken]
    /\ started' = [started EXCEPT ![t] = 0]
    /\ UNCHANGED <<clock, origin, since, until>>

Next == Tick \/ Rotate \/ \E t \in Threads : Refuse(t) \/ Begin(t) \/ End(t)

Spec == Init /\ [][Next]_vars
=============================================================================
