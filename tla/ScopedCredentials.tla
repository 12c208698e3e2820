-------------------------- MODULE ScopedCredentials --------------------------
(***************************************************************************)
(* What "process-scoped" promises of the credentials of a run (README.md,  *)
(* spec/consumer.md, the comments of internal/execution/scoped.go): each   *)
(* is acquired once; they are lent to one child, all that are held         *)
(* together and none past its expiry; and they are discarded together,     *)
(* before or after that, and nothing is held from then on.                 *)
(***************************************************************************)
EXTENDS Naturals

CONSTANT Capabilities

VARIABLES
    now,
    held,  \* the capabilities whose credential is held, with its expiry
    lent,  \* those whose credential a child has
    over   \* the run has ended

credentials == <<now, held, lent, over>>

Init ==
    /\ now = 0
    /\ held = [c \in {} |-> 0]
    /\ lent = {}
    /\ over = FALSE

Tick ==
    /\ now' = now + 1
    /\ UNCHANGED <<held, lent, over>>

(* A credential that is not held, and not after a child has started.       *)
Acquire(c) ==
    /\ ~over /\ lent = {}
    /\ c \notin DOMAIN held
    /\ DOMAIN held' = DOMAIN held \cup {c}
    /\ held'[c] > now
    /\ \A d \in DOMAIN held : held'[d] = held[d]
    /\ UNCHANGED <<now, lent, over>>

Lend ==
    /\ ~over /\ lent = {}
    /\ \A c \in DOMAIN held : held[c] > now
    /\ lent' = DOMAIN held
    /\ UNCHANGED <<now, held, over>>

Discard ==
    /\ ~over
    /\ held' = [c \in {} |-> 0] /\ lent' = {} /\ over' = TRUE
    /\ UNCHANGED now

Next == Tick \/ Lend \/ Discard \/ \E c \in Capabilities : Acquire(c)

Spec == Init /\ [][Next]_credentials
=============================================================================
