-------------------------- MODULE ScopedRunProofs --------------------------
(***************************************************************************)
(* Proofs about ScopedRun: the invariant of the loop of ResolveMaterials,  *)
(* what the child's environment holds, and that a run implements the scope *)
(* of credentials of ScopedCredentials.                                    *)
(***************************************************************************)
EXTENDS ScopedRun, SequenceTheorems, TLAPS

-----------------------------------------------------------------------------
(* Environments and materials.                                             *)

LEMMA EnvsByDomain ==
    ASSUME NEW e
    PROVE  e \in Envs <=> DOMAIN e \subseteq Keys /\ e \in [DOMAIN e -> Values]
BY DEF Envs

LEMMA EmptyEnvTyped == EmptyEnv \in Envs
BY DEF EmptyEnv, Envs

(* Clearing leaves everything of its kind.                                 *)
LEMMA ClearedTyped ==
    ASSUME NEW mats \in [Capabilities -> MaterialShape \cup {Nothing}],
           NEW caps \in SUBSET Capabilities
    PROVE  Cleared(mats, caps) \in [Capabilities -> MaterialShape \cup {Nothing}]
<1> SUFFICES ASSUME NEW c \in Capabilities, c \in caps, mats[c] # Nothing
             PROVE  [mats[c] EXCEPT !.env = EmptyEnv] \in MaterialShape
  BY DEF Cleared
<1>1. mats[c] \in MaterialShape
  OBVIOUS
<1> QED
  BY <1>1, EmptyEnvTyped DEF MaterialShape

(* What the results assign is a value, and so is every secret.             *)
LEMMA AssignedValue ==
    ASSUME TypeOK, LoopInv, phase # "returned", NEW c \in results, NEW k, Assigns(c, k)
    PROVE  k \in Keys /\ material[c].env[k] \in Values
<1>1. material[c] \in MaterialShape
  BY DEF TypeOK, LoopInv
<1> QED
  BY <1>1, EnvsByDomain DEF MaterialShape, Assigns

LEMMA MergedTyped ==
    ASSUME TypeOK, LoopInv, phase # "returned"
    PROVE  Stripped(Merged) \in Envs /\ Secrets \subseteq Values
<1>1. ASSUME NEW k \in Keys, \E c \in results : Assigns(c, k)
      PROVE  material[CHOOSE c \in results : Assigns(c, k)].env[k] \in Values
  BY <1>1, AssignedValue
<1>2. \A k \in DOMAIN BaseEnv : k \in Keys /\ BaseEnv[k] \in Values
  BY EnvAssumption, EnvsByDomain
<1>3. DOMAIN Merged \subseteq Keys /\ \A k \in DOMAIN Merged : Merged[k] \in Values
  BY <1>1, <1>2 DEF Merged
<1>4. Stripped(Merged) \in Envs
  BY <1>3, EnvsByDomain DEF Stripped
<1>5. Secrets \subseteq Values
  BY AssignedValue DEF Secrets, Assigns
<1> QED
  BY <1>4, <1>5

(* The names of a request are capabilities.                                *)
LEMMA NamesTyped ==
    ASSUME names \in Requests
    PROVE  /\ Len(names) \in Nat
           /\ \A i \in 1 .. Len(names) : names[i] \in Capabilities
           /\ names = <<>> => Len(names) = 0
BY RequestsAssumption, ElementOfSeq, LenProperties, EmptySeq

-----------------------------------------------------------------------------
(* The invariant of the loop.                                              *)

LEMMA InitInv == Init => Inv
<1> SUFFICES ASSUME Init PROVE Inv
  OBVIOUS
<1>1. EmptyEnv \in Envs /\ Len(names) \in Nat
  BY EmptyEnvTyped, NamesTyped DEF Init
<1>2. TypeOK
  <2>1. clock \in 0 .. MaxClock /\ resolvedAt \in 0 .. clock /\ next \in 1 .. Len(names) + 1
    BY <1>1, ClockAssumption DEF Init
  <2>2. /\ material \in [Capabilities -> MaterialShape \cup {Nothing}]
        /\ calls \in [Capabilities -> Nat]
    BY DEF Init
  <2>3. holder \in BOOLEAN /\ childEnv \in Envs /\ known \subseteq Values
    BY <1>1 DEF Init
  <2> QED
    BY <2>1, <2>2, <2>3 DEF Init, TypeOK
<1>3. LoopInv
  BY <1>1 DEF Init, LoopInv
<1> QED
  BY <1>2, <1>3 DEF Inv

LEMMA TypeStep ==
    ASSUME Inv, Next
    PROVE  TypeOK'
<1> USE DEF Inv, TypeOK, request, child
<1>0. Len(names) \in Nat /\ \A i \in 1 .. Len(names) : names[i] \in Capabilities
  BY NamesTyped
<1>1. CASE Tick
  BY <1>1, ClockAssumption DEF Tick
<1>2. ASSUME NEW mats \in [Capabilities -> MaterialShape \cup {Nothing}],
             NEW caps \in SUBSET Capabilities, NEW result \in {"error", "success", "failure"},
             Return(mats, caps, result)
      PROVE  /\ phase' = "returned" /\ results' = {}
             /\ outcome' \in {"none", "error", "success", "failure"}
             /\ material' \in [Capabilities -> MaterialShape \cup {Nothing}]
  BY <1>2, ClearedTyped DEF Return
<1>3. CASE SkipDuplicate \/ FinishResolve \/ CallProvider
  BY <1>0, <1>3 DEF SkipDuplicate, FinishResolve, CallProvider
<1>4. CASE RefuseRequest \/ Start \/ CopyFails \/ ChildEnds
  BY <1>2, <1>4 DEF RefuseRequest, Start, CopyFails, ChildEnds
<1>5. CASE ProviderReturns
  <2> DEFINE c == names[next]
  <2>1. next \in 1 .. Len(names) /\ c \in Capabilities
    BY <1>0, <1>5 DEF ProviderReturns, LoopInv
  <2>2. PICK m \in Materials \cup {Nothing}, err \in BOOLEAN :
           LET mats == [material EXCEPT ![c] = m] IN
            \/ /\ err \/ ~Valid(m)
               /\ Return(mats, results \cup {c}, "error")
               /\ UNCHANGED next
            \/ /\ ~err /\ Valid(m)
               /\ phase' = "resolve"
               /\ next' = next + 1
               /\ material' = mats
               /\ results' = results \cup {c}
               /\ UNCHANGED outcome
    BY <1>5 DEF ProviderReturns
  <2>3. [material EXCEPT ![c] = m] \in [Capabilities -> MaterialShape \cup {Nothing}]
    BY MaterialsAssumption
  <2>4. /\ phase' \in {"resolve", "returned"} /\ results' \subseteq Capabilities
        /\ outcome' \in {"none", "error", "success", "failure"}
        /\ material' \in [Capabilities -> MaterialShape \cup {Nothing}]
        /\ next' \in 1 .. Len(names) + 1
    <3>1. CASE Return([material EXCEPT ![c] = m], results \cup {c}, "error") /\ UNCHANGED next
      BY <1>2, <2>1, <2>3, <3>1
    <3> QED
      BY <1>0, <2>1, <2>2, <2>3, <3>1
  <2> QED
    BY <1>5, <2>4 DEF ProviderReturns
<1>6. CASE Merge
  <2>1. Stripped(Merged) \in Envs /\ Secrets \subseteq Values
    BY <1>6, MergedTyped DEF Merge
  <2>2. CASE Return(material, results, "error") /\ UNCHANGED <<childEnv, known, holder>>
    BY <1>2, <1>6, <2>2 DEF Merge
  <2> QED
    BY <1>6, <2>1, <2>2 DEF Merge
<1>7. CASE ChildExits \/ HolderCloses
  BY <1>7 DEF ChildExits, HolderCloses
<1> QED
  BY <1>1, <1>3, <1>4, <1>5, <1>6, <1>7 DEF Next, Proceeds

(* The passed positions of a request, when one more has been passed.       *)
LEMMA PassedOneMore ==
    ASSUME TypeOK, next <= Len(names)
    PROVE  {names[i] : i \in 1 .. (next + 1) - 1} =
               {names[i] : i \in 1 .. next - 1} \cup {names[next]}
<1>1. next \in Nat /\ next >= 1 /\ Len(names) \in Nat
  BY NamesTyped DEF TypeOK
<1>2. 1 .. (next + 1) - 1 = (1 .. next - 1) \cup {next}
  BY <1>1
<1> QED
  BY <1>2

LEMMA LoopStep ==
    ASSUME Inv, Next
    PROVE  LoopInv'
<1> USE DEF Inv, request, child
<1>0. Len(names) \in Nat /\ next \in Nat /\ next >= 1 /\ next <= Len(names) + 1
  BY NamesTyped DEF TypeOK
<1>1. CASE Tick
  BY <1>1 DEF Tick, LoopInv, Callable
<1>2. ASSUME phase' = "returned" PROVE LoopInv'
  BY <1>2 DEF LoopInv
<1>3. CASE RefuseRequest \/ CopyFails \/ ChildEnds
  BY <1>2, <1>3 DEF RefuseRequest, CopyFails, ChildEnds, Return
<1>4. CASE SkipDuplicate
  <2>1. names[next] \in results /\ next <= Len(names)
    BY <1>4 DEF SkipDuplicate, Seen, LoopInv
  <2>2. results' = {names[i] : i \in 1 .. next' - 1}
    BY <1>4, <2>1, PassedOneMore DEF SkipDuplicate, LoopInv
  <2> QED
    BY <1>4, <2>2 DEF SkipDuplicate, LoopInv, Callable
<1>5. CASE CallProvider
  <2> DEFINE c == names[next]
  <2>1. /\ next <= Len(names) /\ Callable(c) /\ c \notin results /\ c \in Capabilities
        /\ calls[c] = 0
    BY <1>0, <1>5, NamesTyped DEF CallProvider, Seen, LoopInv, TypeOK
  <2>2. \A d \in Capabilities : calls'[d] = IF d = c THEN 1 ELSE calls[d]
    BY <1>5, <2>1 DEF CallProvider, TypeOK
  <2>3. results \subseteq Capabilities
    BY DEF TypeOK
  <2> QED
    BY <1>5, <2>1, <2>2, <2>3 DEF CallProvider, LoopInv, Callable
<1>6. CASE ProviderReturns
  <2> DEFINE c == names[next]
  <2> SUFFICES ASSUME phase' # "returned" PROVE LoopInv'
    BY <1>2
  <2>1. /\ phase = "call" /\ next <= Len(names) /\ c \in Capabilities /\ Callable(c)
        /\ c \notin results /\ calls[c] = 1
    BY <1>0, <1>6, NamesTyped DEF ProviderReturns, LoopInv, TypeOK
  <2>2. PICK m \in Materials : /\ Valid(m)
                               /\ phase' = "resolve" /\ next' = next + 1
                               /\ material' = [material EXCEPT ![c] = m]
                               /\ results' = results \cup {c}
    BY <1>6 DEF ProviderReturns, Return, Valid
  <2>3. /\ material'[c] # Nothing
        /\ \A d \in Capabilities \ {c} : material'[d] = material[d]
    BY <2>1, <2>2 DEF Valid, TypeOK
  <2>4. results' = {names[i] : i \in 1 .. next' - 1}
    BY <2>1, <2>2, PassedOneMore DEF LoopInv
  <2>5. UNCHANGED <<cfg, names, calls>>
    BY <1>6 DEF ProviderReturns
  <2>6. \A d \in results' : Callable(d) /\ calls[d] = 1 /\ material'[d] # Nothing
    BY <2>1, <2>2, <2>3 DEF LoopInv, TypeOK
  <2>7. \A d \in Capabilities \ results' : material'[d] = Nothing /\ calls[d] = 0
    BY <2>1, <2>2, <2>3 DEF LoopInv
  <2> QED
    BY <2>2, <2>4, <2>5, <2>6, <2>7 DEF LoopInv, Callable
<1>7. CASE FinishResolve \/ Merge \/ Start \/ ChildExits \/ HolderCloses
  <2>1. \/ phase' = "returned"
        \/ /\ UNCHANGED <<cfg, names, next, material, results, calls>>
           /\ phase' \in {"merge", "start", "run", "drain"}
           /\ phase # "returned" /\ next = Len(names) + 1
    BY <1>0, <1>7 DEF FinishResolve, Merge, Start, ChildExits, HolderCloses, Return, LoopInv
  <2> QED
    BY <1>2, <2>1 DEF LoopInv, Callable
<1> QED
  BY <1>1, <1>3, <1>4, <1>5, <1>6, <1>7 DEF Next, Proceeds

LEMMA Stutter == Inv /\ UNCHANGED vars => Inv'
BY DEF Inv, TypeOK, LoopInv, Callable, vars, request, child

(* THEOREM: a provider is asked at most once for a capability, however     *)
(* often it was requested, and the results are what the loop has passed.   *)
THEOREM Invariance == Spec => []Inv
<1>1. Init => Inv
  BY InitInv
<1>2. Inv /\ [Next]_vars => Inv'
  BY TypeStep, LoopStep, Stutter DEF Inv
<1> QED
  BY <1>1, <1>2, PTL DEF Spec

-----------------------------------------------------------------------------
(* The child's environment.                                                *)

(* What MergeEnv and stripEnvKeys make of results that agree.              *)
LEMMA MergedAgrees ==
    ASSUME TypeOK, LoopInv, phase # "returned", ~Conflict, NEW k \in Keys
    PROVE  LET env == Stripped(Merged) IN
        /\ k \in DOMAIN env <=>
            /\ k \in DOMAIN BaseEnv \/ \E c \in results : Assigns(c, k)
            /\ \A c \in results : k \notin Omit[cfg[c]]
        /\ k \in DOMAIN env =>
            /\ \A c \in results : Assigns(c, k) => env[k] = material[c].env[k]
            /\ (\A c \in results : ~Assigns(c, k)) => env[k] = BaseEnv[k]
        /\ \A c \in results :
            Assigns(c, k) => material[c].env[k] = Blank \/ material[c].env[k] \in Secrets
<1> DEFINE env == Stripped(Merged)
<1>1. DOMAIN env = DOMAIN Merged \ Omitted /\ \A j \in DOMAIN env : env[j] = Merged[j]
  BY DEF Stripped
<1>2. k \in DOMAIN Merged <=> k \in DOMAIN BaseEnv \/ \E c \in results : Assigns(c, k)
  BY DEF Merged
<1>3. k \in Omitted <=> \E c \in results : k \in Omit[cfg[c]]
  BY DEF Omitted
<1>4. ASSUME NEW c \in results, Assigns(c, k)
      PROVE  Merged[k] = material[c].env[k]
  <2> DEFINE d == CHOOSE e \in results : Assigns(e, k)
  <2>1. d \in results /\ Assigns(d, k)
    BY <1>4
  <2>2. Merged[k] = material[d].env[k]
    BY <1>4 DEF Merged
  <2> QED
    BY <1>4, <2>1, <2>2 DEF Conflict
<1>5. ASSUME \A c \in results : ~Assigns(c, k), k \in DOMAIN Merged
      PROVE  Merged[k] = BaseEnv[k]
  BY <1>5 DEF Merged
<1>6. ASSUME NEW c \in results, Assigns(c, k), material[c].env[k] # Blank
      PROVE  material[c].env[k] \in Secrets
  BY <1>6 DEF Secrets, Assigns
<1> QED
  BY <1>1, <1>2, <1>3, <1>4, <1>5, <1>6

LEMMA EnvironmentStep ==
    ASSUME Inv, ChildEnvironment, [Next]_vars
    PROVE  ChildEnvironment'
<1> USE DEF Inv, request, child
<1> SUFFICES ASSUME Prepared' PROVE ChildEnvironment'
  BY DEF ChildEnvironment
<1>1. ASSUME Prepared, UNCHANGED <<request, results, material, childEnv, known, resolvedAt>>
      PROVE  ChildEnvironment'
  BY <1>1 DEF ChildEnvironment, Assigns
<1>2. CASE Merge
  <2>1. /\ phase = "merge" /\ ~Conflict /\ \A c \in results : ~Expired(material[c])
        /\ childEnv' = Stripped(Merged) /\ known' = Secrets
        /\ UNCHANGED <<cfg, names, results, material, resolvedAt>>
    BY <1>2 DEF Merge, Return, Prepared
  <2>2. results = {names[i] : i \in 1 .. Len(names)}
    BY <2>1, NamesTyped DEF LoopInv, TypeOK
  <2>3. \A c \in results : material[c].expires > resolvedAt
    <3> SUFFICES ASSUME NEW c \in results PROVE material[c].expires > resolvedAt
      OBVIOUS
    <3>1. material[c] \in MaterialShape
      BY <2>1 DEF TypeOK, LoopInv
    <3> QED
      BY <2>1, <3>1, ClockAssumption DEF Expired, MaterialShape, TypeOK
  <2> QED
    BY <2>1, <2>2, <2>3, MergedAgrees DEF ChildEnvironment, Assigns
<1>3. CASE Tick \/ Start \/ ChildExits \/ HolderCloses
  BY <1>1, <1>3 DEF Tick, Start, ChildExits, HolderCloses, Return, Prepared
<1>4. CASE SkipDuplicate \/ RefuseRequest \/ CallProvider \/ FinishResolve
           \/ ProviderReturns \/ ChildEnds \/ CopyFails
  BY <1>4 DEF SkipDuplicate, RefuseRequest, CallProvider, FinishResolve, ProviderReturns,
              ChildEnds, CopyFails, Return, Prepared
<1>5. CASE UNCHANGED vars
  BY <1>1, <1>5 DEF vars, Prepared
<1> QED
  BY <1>2, <1>3, <1>4, <1>5 DEF Next, Proceeds

(* THEOREM: the child is started with exactly the credentials of all the   *)
(* capabilities that were asked for, over the caller's environment, less   *)
(* what the providers keep from it, none of them past its expiry when the  *)
(* last was resolved; and the redactors know all of them.                  *)
THEOREM EnvironmentRight == Spec => []ChildEnvironment
<1>1. Init => ChildEnvironment
  BY DEF Init, ChildEnvironment, Prepared
<1>2. Inv /\ ChildEnvironment /\ [Next]_vars => ChildEnvironment'
  BY EnvironmentStep
<1> QED
  BY <1>1, <1>2, Invariance, PTL DEF Spec

-----------------------------------------------------------------------------
(* The scope of the credentials.                                           *)

(* Only results hold credentials, and each of them lives for some time.    *)
LEMMA HeldTyped ==
    ASSUME Inv, phase # "returned"
    PROVE  Held \subseteq results /\ \A c \in Held : material[c].expires \in Nat
BY DEF Inv, TypeOK, LoopInv, Held, MaterialShape

(* Whoever returns discards what the run has, and the run has all there is.*)
LEMMA ReturnDiscards ==
    ASSUME Inv, phase # "returned", UNCHANGED clock,
           NEW mats \in [Capabilities -> MaterialShape \cup {Nothing}],
           NEW caps \in SUBSET Capabilities, NEW result, Return(mats, caps, result),
           \A c \in Capabilities \ caps : mats[c] = Nothing
    PROVE  Scoped!Discard
<1>1. \A c \in Capabilities : material'[c] # Nothing => material'[c].env = EmptyEnv
  <2> SUFFICES ASSUME NEW c \in Capabilities, material'[c] # Nothing
               PROVE  material'[c].env = EmptyEnv
    OBVIOUS
  <2>1. c \in caps /\ mats[c] # Nothing /\ material'[c] = [mats[c] EXCEPT !.env = EmptyEnv]
    BY DEF Return, Cleared
  <2>2. mats[c] \in MaterialShape
    BY <2>1
  <2> QED
    BY <2>1, <2>2 DEF MaterialShape
<1>2. Held' = {}
  BY <1>1 DEF Held
<1>3. [c \in Held' |-> material'[c].expires] = [c \in {} |-> 0]
  BY <1>2
<1> QED
  BY <1>2, <1>3 DEF Return, Prepared, Scoped!Discard

(* What stays out of the way of the credentials.                           *)
LEMMA ScopeKept ==
    UNCHANGED <<clock, material>> /\ Prepared' = Prepared
        /\ (phase' = "returned") = (phase = "returned")
    => UNCHANGED Scoped!credentials
BY DEF Held, Scoped!credentials

LEMMA ScopeStep ==
    ASSUME Inv, [Next]_vars
    PROVE  [Scoped!Next]_(Scoped!credentials)
<1> USE DEF request, child
<1>1. CASE Tick
  BY <1>1 DEF Tick, Held, Prepared, Scoped!Tick, Scoped!Next
<1>2. ASSUME phase # "returned", UNCHANGED clock, NEW result, Return(material, results, result)
      PROVE  Scoped!Next
  BY <1>2, ReturnDiscards DEF Scoped!Next, Inv, TypeOK, LoopInv
<1>3. CASE RefuseRequest \/ CopyFails \/ ChildEnds
  BY <1>2, <1>3 DEF RefuseRequest, CopyFails, ChildEnds
<1>4. CASE SkipDuplicate \/ CallProvider \/ FinishResolve \/ ChildExits \/ HolderCloses
  BY <1>4, ScopeKept DEF SkipDuplicate, CallProvider, FinishResolve, ChildExits,
                         HolderCloses, Prepared
<1>5. CASE Start
  <2>1. CASE phase' = "run" /\ UNCHANGED material
    BY <1>5, <2>1, ScopeKept DEF Start, Prepared
  <2> QED
    BY <1>2, <1>5, <2>1 DEF Start
<1>6. CASE Merge
  <2>1. CASE Return(material, results, "error")
    BY <1>2, <1>6, <2>1 DEF Merge
  <2>2. CASE /\ \A c \in results : ~Expired(material[c])
             /\ phase' = "start" /\ UNCHANGED <<material, results, outcome>>
    <3>1. phase = "merge" /\ UNCHANGED clock /\ Held' = Held
      BY <1>6, <2>2 DEF Merge, Held
    <3>2. \A c \in Held : material[c].expires > clock
      BY <2>2, <3>1, HeldTyped, ClockAssumption DEF Expired, Inv, TypeOK
    <3>3. [c \in Held' |-> material'[c].expires] = [c \in Held |-> material[c].expires]
      BY <2>2, <3>1
    <3> QED
      BY <2>2, <3>1, <3>2, <3>3 DEF Prepared, Scoped!Lend, Scoped!Next
  <2> QED
    BY <1>6, <2>1, <2>2 DEF Merge
<1>7. CASE ProviderReturns
  <2> DEFINE c == names[next]
             mats(m) == [material EXCEPT ![c] = m]
  <2>1. /\ phase = "call" /\ c \in Capabilities /\ c \notin results
        /\ material[c] = Nothing /\ UNCHANGED clock
    <3>1. next \in 1 .. Len(names)
      BY <1>7, NamesTyped DEF ProviderReturns, Inv, LoopInv, TypeOK
    <3> QED
      BY <1>7, <3>1, NamesTyped DEF ProviderReturns, Inv, LoopInv, TypeOK
  <2>2. PICK m \in Materials \cup {Nothing} :
           \/ Return(mats(m), results \cup {c}, "error")
           \/ /\ Valid(m) /\ phase' = "resolve"
              /\ material' = mats(m) /\ results' = results \cup {c}
    BY <1>7 DEF ProviderReturns
  <2>3. mats(m) \in [Capabilities -> MaterialShape \cup {Nothing}]
    BY MaterialsAssumption DEF Inv, TypeOK
  <2>4. CASE Return(mats(m), results \cup {c}, "error")
    <3>1. \A d \in Capabilities \ (results \cup {c}) : mats(m)[d] = Nothing
      BY <2>1 DEF Inv, TypeOK, LoopInv
    <3>2. results \cup {c} \in SUBSET Capabilities
      BY <2>1 DEF Inv, TypeOK
    <3>3. Scoped!Discard
      BY <2>1, <2>3, <2>4, <3>1, <3>2, ReturnDiscards
    <3> QED
      BY <3>3 DEF Scoped!Next
  <2>5. CASE Valid(m) /\ phase' = "resolve" /\ material' = mats(m)
    <3>1. /\ material'[c] = m /\ m \in MaterialShape /\ m # Nothing
          /\ \A d \in Capabilities \ {c} : material'[d] = material[d]
      BY <2>1, <2>5, MaterialsAssumption DEF Valid, Inv, TypeOK
    <3>2. m.expires \in Nat /\ m.expires > clock /\ clock \in Nat
      BY <2>5, <3>1, ClockAssumption DEF Valid, Expired, MaterialShape, Inv, TypeOK
    <3>3. CASE m.env = EmptyEnv
      <4>1. Held' = Held /\ \A d \in Held : material'[d] = material[d]
        BY <2>1, <3>1, <3>3 DEF Held
      <4>2. [d \in Held' |-> material'[d].expires] = [d \in Held |-> material[d].expires]
        BY <4>1
      <4> QED
        BY <2>1, <2>5, <4>1, <4>2 DEF Prepared, Scoped!credentials
    <3>4. CASE m.env # EmptyEnv
      <4>1. /\ Held' = Held \cup {c} /\ c \notin Held
            /\ \A d \in Held : material'[d] = material[d]
        BY <2>1, <3>1, <3>4 DEF Held
      <4>2. PICK d \in Capabilities : d = c
        BY <2>1
      <4>3. Scoped!Acquire(d)
        BY <2>1, <2>5, <3>1, <3>2, <4>1, <4>2 DEF Prepared, Scoped!Acquire
      <4> QED
        BY <4>3 DEF Scoped!Next
    <3> QED
      BY <3>3, <3>4
  <2> QED
    BY <2>2, <2>4, <2>5
<1>8. CASE UNCHANGED vars
  BY <1>8, ScopeKept DEF vars, Prepared
<1> QED
  BY <1>1, <1>3, <1>4, <1>5, <1>6, <1>7, <1>8 DEF Next, Proceeds

(* THEOREM: a run implements the scope of credentials: each is acquired    *)
(* once, none is lent to the child past its expiry, and on every way out   *)
(* all are discarded, also those that came with an error.                  *)
THEOREM ImplementsScope == Spec => CredentialsScoped
<1>1. Init => Scoped!Init
  <2> SUFFICES ASSUME Init PROVE Scoped!Init
    OBVIOUS
  <2>1. Held = {}
    BY DEF Init, Held
  <2>2. [c \in Held |-> material[c].expires] = [c \in {} |-> 0]
    BY <2>1
  <2> QED
    BY <2>1, <2>2 DEF Init, Prepared, Scoped!Init
<1>2. Inv /\ [Next]_vars => [Scoped!Next]_(Scoped!credentials)
  BY ScopeStep
<1> QED
  BY <1>1, <1>2, Invariance, PTL DEF Spec, CredentialsScoped, Scoped!Spec

=============================================================================
