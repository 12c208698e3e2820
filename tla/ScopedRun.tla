----------------------------- MODULE ScopedRun -----------------------------
(***************************************************************************)
(* pade exec: execution.Runner.Run (internal/execution/scoped.go) with     *)
(* binding.ResolveMaterials, MergeEnv and ClearMaterials (internal/        *)
(* binding/resolve.go).  The requested capabilities are resolved one after *)
(* the other, each by the provider it is bound to; their environments are  *)
(* merged over the caller's; a child runs with the result; and what was    *)
(* resolved is discarded on every way out.                                 *)
(*                                                                         *)
(* Time passes whenever it likes, in particular while a provider works, so *)
(* that what was resolved first may expire before the child is started.    *)
(* The child's output goes through pipes that whatever it leaves behind    *)
(* may hold open; Redactor is what happens to the bytes.                   *)
(***************************************************************************)
EXTENDS Naturals, Sequences

CONSTANTS
    Capabilities,  \* capability names
    Providers,     \* provider names a binding may mention
    Registered,    \* those the registry of the consumer knows
    Keys,          \* names of environment variables
    Values,        \* their values
    Blank,         \* the empty value, which is no secret
    BaseEnv,       \* the environment pade runs in
    Omit,          \* ChildEnvOmit of each provider
    Requests,      \* sequences of capability names a user may ask for
    Bindings,      \* bindings: functions from capability names to providers
    Materials,     \* what a provider may return, see MaterialShape
    Nothing,       \* the nil material
    MaxClock       \* bound: the last instant of a behaviour

Envs == UNION {[K -> Values] : K \in SUBSET Keys}
EmptyEnv == [k \in {} |-> Blank]

(* Material: its environment, when it expires (after the last instant if   *)
(* it does not say), and whether Validate accepts its keys and sizes.      *)
MaterialShape == [env : Envs, expires : Nat, sound : BOOLEAN]

ASSUME ValuesAssumption == Blank \in Values
ASSUME ProvidersAssumption ==
    Registered \subseteq Providers /\ Omit \in [Providers -> SUBSET Keys]
ASSUME EnvAssumption == BaseEnv \in Envs
ASSUME MaterialsAssumption ==
    Materials \subseteq MaterialShape /\ Nothing \notin MaterialShape
ASSUME RequestsAssumption == Requests \subseteq Seq(Capabilities)
ASSUME BindingsAssumption ==
    Bindings \subseteq UNION {[C -> Providers] : C \in SUBSET Capabilities}
ASSUME ClockAssumption == MaxClock \in Nat

VARIABLES
    clock,
    cfg,       \* binding.Config.Capabilities
    names,     \* the requested capabilities, in the order given
    next,      \* the position of the loop of ResolveMaterials
    phase,     \* "resolve", "call" (in a provider), "merge", "start", "run",
               \* "drain" (the child is gone), "returned"
    material,  \* what the provider of each capability has returned
    results,   \* the capabilities in the results of ResolveMaterials
    calls,     \* history: how often a provider was asked for each capability
    childEnv,  \* the environment of the child
    known,     \* the secrets the redactors of its output look for
    holder,    \* a process the child left behind holds its output open
    outcome,   \* "none", "error", "success" or "failure" of the child
    resolvedAt \* history: when the last provider returned

request == <<cfg, names>>
child == <<childEnv, known, holder>>
vars == <<clock, request, next, phase, material, results, calls, child,
          outcome, resolvedAt>>

-----------------------------------------------------------------------------
(* ValidateExpiration: an expiry that is present lies in the future.       *)
Expired(m) == m.expires <= clock

(* Material.Validate, of a material that may be nil.                       *)
Valid(m) == m # Nothing /\ m.sound /\ ~Expired(m)

(* ClearMaterials empties the maps of the results it is given, and only    *)
(* theirs.                                                                 *)
Cleared(mats, caps) == [c \in Capabilities |->
    IF c \in caps /\ mats[c] # Nothing THEN [mats[c] EXCEPT !.env = EmptyEnv]
    ELSE mats[c]]

Assigns(c, k) == k \in DOMAIN material[c].env

(* Two of the results assign different values to one key.                  *)
Conflict == \E c, d \in results, k \in Keys :
    Assigns(c, k) /\ Assigns(d, k) /\ material[c].env[k] # material[d].env[k]

(* MergeEnv: what the results assign overlays the base.                    *)
Merged ==
    LET assigned == {k \in Keys : \E c \in results : Assigns(c, k)} IN
    [k \in DOMAIN BaseEnv \cup assigned |->
        IF k \in assigned
        THEN material[CHOOSE c \in results : Assigns(c, k)].env[k]
        ELSE BaseEnv[k]]

(* childEnvOmitKeys and stripEnvKeys.                                      *)
Omitted == UNION {Omit[cfg[c]] : c \in results}

(* A mutant of Stripped: the keys to omit are stripped from the base only, *)
(* before the merge.                                                       *)
StrippedBeforeMerge(env) ==
    [k \in DOMAIN env \ (Omitted \ {k \in Keys : \E c \in results : Assigns(c, k)})
        |-> env[k]]

Stripped(env) == [k \in DOMAIN env \ Omitted |-> env[k]]

(* A mutant of Secrets: what is kept from the child is not looked for.     *)
SecretsOfChild ==
    (UNION {{material[c].env[k] : k \in DOMAIN material[c].env \ Omitted} : c \in results}) \ {Blank}

(* collectSecretsFromResults: all values, but for the empty one.           *)
Secrets ==
    (UNION {{material[c].env[k] : k \in DOMAIN material[c].env} : c \in results}) \ {Blank}

(* The capability has a binding, to a provider of this registry.           *)
Callable(c) == IF c \in DOMAIN cfg THEN cfg[c] \in Registered ELSE FALSE

-----------------------------------------------------------------------------
Init ==
    /\ clock = 0
    /\ cfg \in Bindings
    /\ names \in Requests
    /\ next = 1
    /\ phase = "resolve"
    /\ material = [c \in Capabilities |-> Nothing]
    /\ results = {}
    /\ calls = [c \in Capabilities |-> 0]
    /\ childEnv = EmptyEnv /\ known = {} /\ holder = FALSE
    /\ outcome = "none"
    /\ resolvedAt = 0

Tick ==
    /\ clock < MaxClock
    /\ clock' = clock + 1
    /\ UNCHANGED <<request, next, phase, material, results, calls, child,
                   outcome, resolvedAt>>

(* Run returns; the deferred calls discard what it owns.                   *)
Return(mats, caps, result) ==
    /\ phase' = "returned"
    /\ outcome' = result
    /\ material' = Cleared(mats, caps)
    /\ results' = {}

Seen(c) == \E i \in 1 .. next - 1 : names[i] = c

-----------------------------------------------------------------------------
(* Mutants: plausible bugs in the steps below.                             *)

(* A material that comes with an error is not among the results.           *)
ProviderReturnsUnowned ==
    /\ phase = "call"
    /\ LET c == names[next] IN \E m \in Materials \cup {Nothing}, err \in BOOLEAN :
        /\ LET mats == [material EXCEPT ![c] = m] IN
            \/ /\ err \/ ~Valid(m)
               /\ Return(mats, IF err THEN results ELSE results \cup {c}, "error")
               /\ UNCHANGED next
            \/ /\ ~err /\ Valid(m)
               /\ phase' = "resolve"
               /\ next' = next + 1
               /\ material' = mats
               /\ results' = results \cup {c}
               /\ UNCHANGED outcome
    /\ resolvedAt' = clock
    /\ UNCHANGED <<clock, request, calls, child>>

(* MergeEnv does not check the expiry again.                               *)
MergeStale ==
    /\ phase = "merge"
    /\ \/ /\ Conflict
          /\ Return(material, results, "error")
          /\ UNCHANGED child
       \/ /\ ~Conflict
          /\ childEnv' = Stripped(Merged)
          /\ known' = Secrets
          /\ UNCHANGED holder
          /\ phase' = "start"
          /\ UNCHANGED <<material, results, outcome>>
    /\ UNCHANGED <<clock, request, next, calls, resolvedAt>>

(* ResolveMaterials finishes without the loop having reached the last      *)
(* capability.                                                             *)
FinishResolveEarly ==
    /\ phase = "resolve" /\ names # <<>> /\ next >= Len(names)
    /\ phase' = "merge"
    /\ UNCHANGED <<clock, request, next, material, results, calls, child,
                   outcome, resolvedAt>>

-----------------------------------------------------------------------------
(* A mutant of SkipDuplicate: the loop does not move on.                   *)
SkipDuplicateStaying == phase = "resolve" /\ next <= Len(names) /\ Seen(names[next])
                        /\ UNCHANGED vars

(* A capability that was resolved already is skipped.                      *)
SkipDuplicate ==
    /\ phase = "resolve" /\ next <= Len(names)
    /\ Seen(names[next])
    /\ next' = next + 1
    /\ UNCHANGED <<clock, request, phase, material, results, calls, child,
                   outcome, resolvedAt>>

(* Nothing was asked for, or a capability has no binding (an empty name    *)
(* has none) or a provider this registry does not know.                    *)
RefuseRequest ==
    /\ phase = "resolve"
    /\ \/ names = <<>>
       \/ /\ next <= Len(names)
          /\ ~Seen(names[next])
          /\ ~Callable(names[next])
    /\ Return(material, results, "error")
    /\ UNCHANGED <<clock, request, next, calls, child, resolvedAt>>

CallProvider ==
    /\ phase = "resolve" /\ next <= Len(names)
    /\ LET c == names[next] IN
        /\ ~Seen(c)
        /\ Callable(c)
        /\ calls' = [calls EXCEPT ![c] = @ + 1]
    /\ phase' = "call"
    /\ UNCHANGED <<clock, request, next, material, results, child, outcome,
                   resolvedAt>>

(* The provider returns: its material is among the results before its      *)
(* error is looked at, so that a failure discards it with the others.      *)
ProviderReturns ==
    /\ phase = "call"
    /\ LET c == names[next] IN \E m \in Materials \cup {Nothing}, err \in BOOLEAN :
        /\ LET mats == [material EXCEPT ![c] = m] IN
            \/ /\ err \/ ~Valid(m)
               /\ Return(mats, results \cup {c}, "error")
               /\ UNCHANGED next
            \/ /\ ~err /\ Valid(m)
               /\ phase' = "resolve"
               /\ next' = next + 1
               /\ material' = mats
               /\ results' = results \cup {c}
               /\ UNCHANGED outcome
    /\ resolvedAt' = clock
    /\ UNCHANGED <<clock, request, calls, child>>

FinishResolve ==
    /\ phase = "resolve" /\ names # <<>> /\ next > Len(names)
    /\ phase' = "merge"
    /\ UNCHANGED <<clock, request, next, material, results, calls, child,
                   outcome, resolvedAt>>

(* MergeEnv, which looks at the expiry again, and stripEnvKeys.            *)
Merge ==
    /\ phase = "merge"
    /\ \/ /\ Conflict \/ \E c \in results : Expired(material[c])
          /\ Return(material, results, "error")
          /\ UNCHANGED child
       \/ /\ ~Conflict /\ \A c \in results : ~Expired(material[c])
          /\ childEnv' = Stripped(Merged)
          /\ known' = Secrets
          /\ UNCHANGED holder
          /\ phase' = "start"
          /\ UNCHANGED <<material, results, outcome>>
    /\ UNCHANGED <<clock, request, next, calls, resolvedAt>>

(* cmd.Run starts the child, or cannot.                                    *)
Start ==
    /\ phase = "start"
    /\ \/ /\ phase' = "run"
          /\ UNCHANGED <<material, results, outcome>>
       \/ Return(material, results, "error")
    /\ UNCHANGED <<clock, request, next, calls, child, resolvedAt>>

(* The child ends, and what it started may live on with its output.        *)
ChildExits ==
    /\ phase = "run"
    /\ phase' = "drain"
    /\ holder' \in BOOLEAN
    /\ UNCHANGED <<clock, request, next, material, results, calls, childEnv, known,
                   outcome, resolvedAt>>

HolderCloses ==
    /\ phase = "drain" /\ holder
    /\ holder' = FALSE
    /\ UNCHANGED <<clock, request, next, phase, material, results, calls, childEnv,
                   known, outcome, resolvedAt>>

(* Copying the output fails, and nobody waits for the rest: an error of    *)
(* its own if the child ended well.                                        *)
CopyFails ==
    /\ phase = "drain"
    /\ \E result \in {"error", "failure"} : Return(material, results, result)
    /\ UNCHANGED <<clock, request, next, calls, child, resolvedAt>>

(* cmd.Run returns at the end of the output; Run closes the redactors,     *)
(* clears the materials and returns.                                       *)
ChildEnds ==
    /\ phase = "drain" /\ ~holder
    /\ \E result \in {"success", "failure"} : Return(material, results, result)
    /\ UNCHANGED <<clock, request, next, calls, child, resolvedAt>>

Proceeds == SkipDuplicate \/ RefuseRequest \/ CallProvider \/ FinishResolve
            \/ Merge \/ Start \/ ChildEnds

Next == Tick \/ ProviderReturns \/ Proceeds \/ ChildExits \/ HolderCloses \/ CopyFails

Spec == Init /\ [][Next]_vars

(* Run goes on.  Nothing is assumed of the providers, of the child, or of  *)
(* what it leaves behind.                                                  *)
FairSpec == Spec /\ WF_vars(Proceeds)

-----------------------------------------------------------------------------
(* Every variable holds a value of its kind.                               *)
TypeOK ==
    /\ clock \in 0 .. MaxClock
    /\ cfg \in Bindings /\ names \in Requests
    /\ next \in 1 .. Len(names) + 1
    /\ phase \in {"resolve", "call", "merge", "start", "run", "drain", "returned"}
    /\ material \in [Capabilities -> MaterialShape \cup {Nothing}]
    /\ results \subseteq Capabilities
    /\ calls \in [Capabilities -> Nat]
    /\ childEnv \in Envs /\ known \subseteq Values /\ holder \in BOOLEAN
    /\ outcome \in {"none", "error", "success", "failure"}
    /\ resolvedAt \in 0 .. clock

(* The results are the capabilities the loop has passed; each has a bound  *)
(* provider that was asked once, however often the capability was asked    *)
(* for (a second resolution could issue another credential), and a         *)
(* material; the others have none.                                         *)
LoopInv ==
    /\ phase # "returned" =>
        /\ results = {names[i] : i \in 1 .. next - 1}
        /\ \A c \in results : Callable(c) /\ calls[c] = 1 /\ material[c] # Nothing
        /\ \A c \in Capabilities \ results : material[c] = Nothing
    /\ phase = "resolve" => \A c \in Capabilities \ results : calls[c] = 0
    /\ phase = "call" =>
        /\ next <= Len(names) /\ names[next] \notin results
        /\ Callable(names[next])
        /\ \A c \in Capabilities \ results :
            calls[c] = IF c = names[next] THEN 1 ELSE 0
    /\ phase \in {"merge", "start", "run", "drain"} => next = Len(names) + 1

(* The type invariant and the invariant of the loop.                       *)
Inv == TypeOK /\ LoopInv

Prepared == phase \in {"start", "run", "drain"}

(* A child is started with the credentials of all the requested            *)
(* capabilities (ResolveMaterials), none of which hides another: each      *)
(* variable a material assigns has the value of every material that        *)
(* assigns it, the others are the caller's (MergeEnv), and what the        *)
(* providers want kept from the child is not there, wherever it came from  *)
(* (stripEnvKeys).  Every credential has outlived the resolution of the    *)
(* last one (it may still expire between MergeEnv and the start), and the  *)
(* redactors look for it, even if the child was not given it by its name.  *)
ChildEnvironment == Prepared =>
    /\ results = {names[i] : i \in 1 .. Len(names)}
    /\ \A k \in Keys :
        /\ k \in DOMAIN childEnv <=>
            /\ k \in DOMAIN BaseEnv \/ \E c \in results : Assigns(c, k)
            /\ \A c \in results : k \notin Omit[cfg[c]]
        /\ k \in DOMAIN childEnv =>
            /\ \A c \in results : Assigns(c, k) => childEnv[k] = material[c].env[k]
            /\ (\A c \in results : ~Assigns(c, k)) => childEnv[k] = BaseEnv[k]
        /\ \A c \in results :
            Assigns(c, k) => material[c].env[k] = Blank \/ material[c].env[k] \in known
    /\ \A c \in results : material[c].expires > resolvedAt

(* The credentials that the maps of the materials still hold.              *)
Held == {c \in Capabilities : material[c] # Nothing /\ material[c].env # EmptyEnv}

Scoped == INSTANCE ScopedCredentials WITH
    now <- clock,
    held <- [c \in Held |-> material[c].expires],
    lent <- IF Prepared THEN Held ELSE {},
    over <- phase = "returned"

(* Run implements a scope of credentials: each is acquired once, none is   *)
(* lent to the child past its expiry (MergeEnv), and on every way out all  *)
(* are discarded at once and nothing is held from then on, not what came   *)
(* with an error, not what was resolved before a later capability failed   *)
(* (the deferred ClearMaterials of Run and of ResolveMaterials).           *)
CredentialsScoped == Scoped!Spec

(* Run returns, unless a provider, the child, or what the child has left   *)
(* behind goes on for ever: cmd.Run sets no WaitDelay, and the context of  *)
(* pade exec is never over.                                                *)
RunEnds ==
    \/ <>(phase = "returned")
    \/ <>[](phase = "call") \/ <>[](phase = "run") \/ <>[](phase = "drain" /\ holder)
=============================================================================
