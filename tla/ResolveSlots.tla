---------------------------- MODULE ResolveSlots ----------------------------
(***************************************************************************)
(* What the concurrency limit of the broker promises (spec/broker.md: a    *)
(* limit on in-flight resolves, excess requests get 503 busy): a set of    *)
(* requests holding one of a fixed number of slots.  A request is refused  *)
(* only when every slot is taken, and gives back the slot it holds once.   *)
(***************************************************************************)
EXTENDS Naturals, FiniteSets

CONSTANTS
    Requests,      \* everything that may ask for a slot
    MaxConcurrent  \* how many slots there are

VARIABLES
    holders,  \* the requests holding a slot
    busy      \* the requests refused so far

slots == <<holders, busy>>

Init == holders = {} /\ busy = {}

Take(r) ==
    /\ r \notin holders
    /\ Cardinality(holders) < MaxConcurrent
    /\ holders' = holders \cup {r}
    /\ UNCHANGED busy

Refuse(r) ==
    /\ r \notin holders
    /\ Cardinality(holders) = MaxConcurrent
    /\ busy' = busy \cup {r}
    /\ UNCHANGED holders

Give(r) ==
    /\ r \in holders
    /\ holders' = holders \ {r}
    /\ UNCHANGED busy

(* The process is gone, and with it every slot.                            *)
Vanish == holders' = {} /\ UNCHANGED busy

Next == Vanish \/ \E r \in Requests : Take(r) \/ Refuse(r) \/ Give(r)

Spec == Init /\ [][Next]_slots
=============================================================================
