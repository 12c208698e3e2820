------------------------ MODULE ResolveServerProofs ------------------------
(***************************************************************************)
(* Proofs about ResolveServer: the inductive invariant Inv, the bound on   *)
(* the material in memory, and that the semaphore of the handler           *)
(* implements the set of slots of ResolveSlots.                            *)
(***************************************************************************)
EXTENDS ResolveServer, FiniteSetTheorems, TLAPS

USE DEF Holding, Active, Ended, Locations, Answered

-----------------------------------------------------------------------------
(* There are finitely many holders of a slot.                              *)
LEMMA HoldersFinite ==
    IsFiniteSet(Holders) /\ Cardinality(Holders) \in Nat
BY RequestsAssumption, FS_Subset, FS_CardinalityType DEF Holders

(* A handler that stays on its side of the acquisition and the release     *)
(* leaves the set of holders alone; one that crosses enters or leaves it.  *)
LEMMA HoldersMove ==
    ASSUME pc \in [Requests -> Locations],
           NEW r \in Requests, NEW loc \in Locations, Goto(r, loc)
    PROVE  /\ (pc[r] \in Holding <=> loc \in Holding) => Holders' = Holders
           /\ pc[r] \notin Holding /\ loc \in Holding => Holders' = Holders \cup {r}
           /\ pc[r] \in Holding /\ loc \notin Holding => Holders' = Holders \ {r}
BY DEF Goto, Holders

(* An unchanged program counter leaves the holders alone.                  *)
LEMMA HoldersStay == UNCHANGED pc => Holders' = Holders
BY DEF Holders

(* Taking and giving back one slot changes the count by one.               *)
LEMMA HoldersCount ==
    ASSUME NEW r
    PROVE  /\ r \notin Holders =>
                Cardinality(Holders \cup {r}) = Cardinality(Holders) + 1
           /\ r \in Holders =>
                /\ Cardinality(Holders \ {r}) = Cardinality(Holders) - 1
                /\ Cardinality(Holders) > 0
<1>1. IsFiniteSet(Holders) /\ Cardinality(Holders) \in Nat
  BY HoldersFinite
<1>2. r \in Holders => Cardinality(Holders) # 0
  BY <1>1, FS_EmptySet
<1> QED
  BY <1>1, <1>2, FS_AddElement, FS_RemoveElement

(* When the process ends no handler holds a slot.                          *)
LEMMA DieReleasesAll ==
    ASSUME pc \in [Requests -> Locations], Die
    PROVE  Holders' = {} /\ Cardinality(Holders') = 0
<1>1. Holders' = {}
  BY DEF Holders, Die
<1>2. IsFiniteSet({}) /\ Cardinality({}) = 0
  BY FS_EmptySet
<1> QED
  BY <1>1, <1>2

-----------------------------------------------------------------------------
(* Flags stay Boolean when one of them is set.                             *)
LEMMA FlagSet ==
    ASSUME NEW f \in [Requests -> BOOLEAN], NEW g, NEW r \in Requests,
           g = f \/ \E b \in BOOLEAN : g = [f EXCEPT ![r] = b]
    PROVE  g \in [Requests -> BOOLEAN]
BY Zenon

(* The initial state satisfies the invariant.                              *)
LEMMA InitInv == Init => Inv
<1> SUFFICES ASSUME Init PROVE Inv
  OBVIOUS
<1>1. TypeOK
  <2>1. /\ expired \in [Requests -> BOOLEAN] /\ gone \in [Requests -> BOOLEAN]
        /\ failed \in [Requests -> BOOLEAN]
    BY Zenon DEF Init
  <2>2. server \in {"serving", "draining", "exited"} /\ graceOver \in BOOLEAN
    BY DEF Init
  <2>3. sem \in 0 .. MaxConcurrent
    BY LimitAssumption DEF Init
  <2>4. /\ pc \in [Requests -> Locations]
        /\ provider \in [Requests -> Providers \cup {NoProvider}]
        /\ material \in [Requests -> Kinds] /\ status \in [Requests -> Statuses]
    BY DEF Init, Kinds, Statuses
  <2> QED
    BY <2>1, <2>2, <2>3, <2>4 DEF TypeOK
<1>2. Holders = {}
  BY DEF Init, Holders
<1>3. SlotsAccounted
  BY <1>2, FS_EmptySet DEF SlotsAccounted, Init
<1>4. MaterialOwned /\ AnsweredOnce
  BY DEF Init, MaterialOwned, AnsweredOnce
<1> QED
  BY <1>1, <1>3, <1>4 DEF Inv

(* The type of every variable is preserved; that sem stays in its range    *)
(* needs the account of the slots.                                         *)
LEMMA TypeStep ==
    ASSUME TypeOK, SlotsAccounted, Next
    PROVE  TypeOK'
<1> USE DEF TypeOK, Kinds, Statuses
<1>1. CASE Terminate
  BY <1>1 DEF Terminate, request
<1>2. CASE GraceEnds
  BY <1>2 DEF GraceEnds, request
<1>3. CASE Exit \/ ListenerFails
  BY <1>3, LimitAssumption DEF Exit, ListenerFails, Die
<1>4. CASE \E r \in Requests : Arrive(r) \/ Handle(r) \/ ProviderReturns(r)
                                \/ Deadline(r) \/ Disconnect(r)
  <2> PICK r \in Requests : Arrive(r) \/ Handle(r) \/ ProviderReturns(r)
                                \/ Deadline(r) \/ Disconnect(r)
    BY <1>4
  <2> USE DEF Goto, Answer, listener, request
  <2>1. CASE Arrive(r) \/ Reject(r) \/ ReadRequest(r)
    BY <2>1 DEF Arrive, Reject, ReadRequest
  <2>2. CASE AcquireSlot(r)
    <3>1. sem' \in 0 .. MaxConcurrent
      BY <2>2, LimitAssumption DEF AcquireSlot
    <3>2. pc' \in [Requests -> Locations] /\ status' \in [Requests -> Statuses]
      BY <2>2 DEF AcquireSlot
    <3> QED
      BY <2>2, <3>1, <3>2 DEF AcquireSlot
  <2>3. CASE VerifyToken(r) \/ Authorize(r) \/ WriteAnswer(r)
    BY <2>3 DEF VerifyToken, Authorize, WriteAnswer
  <2>4. CASE CallProvider(r)
    <3>1. failed' \in [Requests -> BOOLEAN]
      <4>1. failed' = failed \/ \E b \in BOOLEAN : failed' = [failed EXCEPT ![r] = b]
        BY <2>4 DEF CallProvider
      <4> QED
        BY <4>1, FlagSet
    <3>2. /\ pc' \in [Requests -> Locations]
          /\ provider' \in [Requests -> Providers \cup {NoProvider}]
      BY <2>4 DEF CallProvider
    <3> QED
      BY <2>4, <3>1, <3>2 DEF CallProvider
  <2>5. CASE ProviderReturns(r)
    <3>1. failed' \in [Requests -> BOOLEAN]
      <4>0. PICK kind \in Kinds, err \in BOOLEAN : failed' = [failed EXCEPT ![r] = err]
        BY <2>5, Zenon DEF ProviderReturns
      <4>1. \E b \in BOOLEAN : failed' = [failed EXCEPT ![r] = b]
        BY <4>0, Zenon
      <4> QED
        BY <4>1, FlagSet
    <3>2. /\ pc' \in [Requests -> Locations] /\ material' \in [Requests -> Kinds]
          /\ provider' \in [Requests -> Providers \cup {NoProvider}]
      BY <2>5 DEF ProviderReturns
    <3> QED
      BY <2>5, <3>1, <3>2 DEF ProviderReturns
  <2>6. CASE FinishResolve(r)
    <3>1. failed' \in [Requests -> BOOLEAN]
      <4>1. failed' = failed \/ \E b \in BOOLEAN : failed' = [failed EXCEPT ![r] = b]
        BY <2>6 DEF FinishResolve
      <4> QED
        BY <4>1, FlagSet
    <3>2. /\ pc' \in [Requests -> Locations] /\ material' \in [Requests -> Kinds]
          /\ status' \in [Requests -> Statuses]
      BY <2>6 DEF FinishResolve
    <3> QED
      BY <2>6, <3>1, <3>2 DEF FinishResolve
  <2>7. CASE ClearMaterials(r)
    BY <2>7 DEF ClearMaterials
  <2>8. CASE ReleaseSlot(r)
    <3>1. expired' \in [Requests -> BOOLEAN] /\ gone' \in [Requests -> BOOLEAN]
      <4>1. /\ expired' = expired
                \/ \E b \in BOOLEAN : expired' = [expired EXCEPT ![r] = b]
            /\ gone' = gone \/ \E b \in BOOLEAN : gone' = [gone EXCEPT ![r] = b]
        BY <2>8 DEF ReleaseSlot
      <4> QED
        BY <4>1, FlagSet
    <3>2. pc' \in [Requests -> Locations] /\ sem' \in 0 .. MaxConcurrent
      BY <2>8, LimitAssumption DEF ReleaseSlot
    <3> QED
      BY <2>8, <3>1, <3>2 DEF ReleaseSlot
  <2>9. CASE Deadline(r) \/ Disconnect(r)
    <3>1. expired' \in [Requests -> BOOLEAN] /\ gone' \in [Requests -> BOOLEAN]
      <4>1. /\ expired' = expired
                \/ \E b \in BOOLEAN : expired' = [expired EXCEPT ![r] = b]
            /\ gone' = gone \/ \E b \in BOOLEAN : gone' = [gone EXCEPT ![r] = b]
        BY <2>9 DEF Deadline, Disconnect
      <4> QED
        BY <4>1, FlagSet
    <3> QED
      BY <2>9, <3>1 DEF Deadline, Disconnect
  <2> QED
    BY <2>1, <2>2, <2>3, <2>4, <2>5, <2>6, <2>7, <2>8, <2>9 DEF Handle
<1> QED
  BY <1>1, <1>2, <1>3, <1>4 DEF Next

(* The semaphore counts the holders after every step.                      *)
LEMMA SlotsStep ==
    ASSUME TypeOK, SlotsAccounted, Next
    PROVE  SlotsAccounted'
<1> USE DEF SlotsAccounted
<1>0. pc \in [Requests -> Locations] /\ sem \in Nat
  BY DEF TypeOK
<1>1. CASE Terminate \/ GraceEnds
  BY <1>1, HoldersStay DEF Terminate, GraceEnds
<1>2. CASE Exit \/ ListenerFails
  BY <1>0, <1>2, DieReleasesAll DEF Exit, ListenerFails, Die
<1>3. ASSUME NEW r \in Requests,
             Arrive(r) \/ Reject(r) \/ ReadRequest(r) \/ VerifyToken(r)
              \/ Authorize(r) \/ CallProvider(r) \/ ProviderReturns(r)
              \/ FinishResolve(r) \/ WriteAnswer(r) \/ ClearMaterials(r)
      PROVE  SlotsAccounted'
  <2>1. PICK loc \in Locations :
            Goto(r, loc) /\ (pc[r] \in Holding <=> loc \in Holding)
    BY <1>3 DEF Arrive, Reject, ReadRequest, VerifyToken, Authorize, CallProvider,
                ProviderReturns, FinishResolve, WriteAnswer, ClearMaterials, Answer
  <2>2. sem' = sem
    BY <1>3 DEF Arrive, Reject, ReadRequest, VerifyToken, Authorize, CallProvider,
                ProviderReturns, FinishResolve, WriteAnswer, ClearMaterials
  <2> QED
    BY <1>0, <2>1, <2>2, HoldersMove
<1>4. ASSUME NEW r \in Requests, AcquireSlot(r)
      PROVE  SlotsAccounted'
  <2>1. r \notin Holders
    BY <1>4 DEF AcquireSlot, Holders
  <2>2. CASE sem' = sem + 1 /\ Goto(r, "verify")
    BY <1>0, <1>4, <2>1, <2>2, HoldersMove, HoldersCount DEF AcquireSlot
  <2>3. CASE sem' = sem /\ Goto(r, "done")
    BY <1>0, <1>4, <2>3, HoldersMove DEF AcquireSlot
  <2> QED
    BY <1>4, <2>2, <2>3 DEF AcquireSlot, Answer
<1>5. ASSUME NEW r \in Requests, ReleaseSlot(r)
      PROVE  SlotsAccounted'
  <2>1. r \in Holders
    BY <1>5 DEF ReleaseSlot, Holders
  <2>2. sem > 0 /\ sem' = sem - 1
    BY <1>5, <2>1, HoldersCount DEF ReleaseSlot
  <2>3. Holders' = Holders \ {r}
    BY <1>0, <1>5, HoldersMove DEF ReleaseSlot
  <2> QED
    BY <2>1, <2>2, <2>3, HoldersCount
<1>6. ASSUME NEW r \in Requests, Deadline(r) \/ Disconnect(r)
      PROVE  SlotsAccounted'
  BY <1>6, HoldersStay DEF Deadline, Disconnect
<1> QED
  BY <1>1, <1>2, <1>3, <1>4, <1>5, <1>6 DEF Next, Handle

(* Ownership of material and the single answer are preserved.              *)
LEMMA OwnershipStep ==
    ASSUME TypeOK, MaterialOwned, AnsweredOnce, Next
    PROVE  MaterialOwned' /\ AnsweredOnce'
<1> USE DEF TypeOK, MaterialOwned, AnsweredOnce
<1>1. CASE Terminate \/ GraceEnds
  BY <1>1 DEF Terminate, GraceEnds, request
<1>2. CASE Exit \/ ListenerFails
  BY <1>2 DEF Exit, ListenerFails, Die
<1>3. ASSUME NEW r \in Requests, Arrive(r) \/ Reject(r) \/ ReadRequest(r)
      PROVE  MaterialOwned' /\ AnsweredOnce'
  BY <1>3 DEF Arrive, Reject, ReadRequest, request, Goto, Answer
<1>4. ASSUME NEW r \in Requests, AcquireSlot(r)
      PROVE  MaterialOwned' /\ AnsweredOnce'
  BY <1>4 DEF AcquireSlot, request, Goto, Answer
<1>5. ASSUME NEW r \in Requests,
             VerifyToken(r) \/ Authorize(r) \/ WriteAnswer(r)
      PROVE  MaterialOwned' /\ AnsweredOnce'
  BY <1>5 DEF VerifyToken, Authorize, WriteAnswer, request, Goto, Answer
<1>6. ASSUME NEW r \in Requests, CallProvider(r) \/ ProviderReturns(r)
      PROVE  MaterialOwned' /\ AnsweredOnce'
  BY <1>6 DEF CallProvider, ProviderReturns, Goto
<1>7. ASSUME NEW r \in Requests, FinishResolve(r)
      PROVE  MaterialOwned' /\ AnsweredOnce'
  BY <1>7 DEF FinishResolve, Goto, Answer
<1>8. ASSUME NEW r \in Requests, ClearMaterials(r)
      PROVE  MaterialOwned' /\ AnsweredOnce'
  BY <1>8 DEF ClearMaterials, Goto
<1>9. ASSUME NEW r \in Requests, ReleaseSlot(r)
      PROVE  MaterialOwned' /\ AnsweredOnce'
  BY <1>9 DEF ReleaseSlot, Goto
<1>10. ASSUME NEW r \in Requests, Deadline(r) \/ Disconnect(r)
       PROVE  MaterialOwned' /\ AnsweredOnce'
  BY <1>10 DEF Deadline, Disconnect
<1> QED
  BY <1>1, <1>2, <1>3, <1>4, <1>5, <1>6, <1>7, <1>8, <1>9, <1>10 DEF Next, Handle

-----------------------------------------------------------------------------
(* The invariant is preserved by every step of the specification.          *)
LEMMA InvStep == Inv /\ [Next]_vars => Inv'
<1>1. Inv /\ Next => Inv'
  BY TypeStep, SlotsStep, OwnershipStep DEF Inv
<1>2. Inv /\ UNCHANGED vars => Inv'
  BY DEF Inv, vars, listener, request, TypeOK, SlotsAccounted, MaterialOwned,
         AnsweredOnce, Holders
<1> QED
  BY <1>1, <1>2

(* The slots are accounted for, material is owned, and answers are given   *)
(* once, in every reachable state.                                         *)
THEOREM Invariance == Spec => []Inv
BY InitInv, InvStep, PTL DEF Spec

(* Every variable keeps its type; in particular the channel never holds    *)
(* more than its capacity.                                                 *)
THEOREM TypeCorrect == Spec => []TypeOK
<1>1. Inv => TypeOK
  BY DEF Inv
<1> QED
  BY <1>1, Invariance, PTL

(* No material outlives the handling of its request, and there are never   *)
(* more materials in memory than slots.                                    *)
THEOREM MaterialIsBounded == Spec => []MaterialBounded
<1>1. Inv => MaterialBounded
  <2> SUFFICES ASSUME Inv PROVE MaterialBounded
    OBVIOUS
  <2> DEFINE Owning == {r \in Requests : material[r] # "none"}
  <2>1. Owning \subseteq Holders
    BY DEF Inv, MaterialOwned, Holders
  <2>2. Cardinality(Owning) <= Cardinality(Holders) /\ Cardinality(Owning) \in Nat
    BY <2>1, HoldersFinite, FS_Subset, FS_CardinalityType
  <2>3. Cardinality(Holders) <= MaxConcurrent
    BY LimitAssumption DEF Inv, SlotsAccounted, TypeOK
  <2>4. Cardinality(Owning) <= MaxConcurrent
    BY <2>2, <2>3, HoldersFinite, LimitAssumption
  <2>5. \A r \in Requests : pc[r] \in Ended => material[r] = "none"
    BY DEF Inv, MaterialOwned
  <2> QED
    BY <2>4, <2>5 DEF MaterialBounded
<1> QED
  BY <1>1, Invariance, PTL

-----------------------------------------------------------------------------
(* An answer other than busy, given to a request without an answer, leaves *)
(* the set of refused requests alone.                                      *)
LEMMA RefusedStay ==
    ASSUME status \in [Requests -> Statuses], NEW r \in Requests, NEW code,
           status' = [status EXCEPT ![r] = code], status[r] # 503, code # 503
    PROVE  Refused' = Refused
BY DEF Refused

(* The abstract specification counts as this one does.                     *)
LEMMA SameCardinality == \A S : Slots!Cardinality(S) = Cardinality(S)
BY Zenon DEF Slots!Cardinality, Cardinality

(* Every step of a handler is a step of the slots, or leaves them alone.   *)
LEMMA HandlerRefines ==
    ASSUME Inv, NEW r \in Requests,
           Arrive(r) \/ Handle(r) \/ ProviderReturns(r) \/ Deadline(r) \/ Disconnect(r)
    PROVE  \/ Slots!Take(r) \/ Slots!Refuse(r) \/ Slots!Give(r)
           \/ UNCHANGED <<Holders, Refused>>
<1>0. /\ pc \in [Requests -> Locations] /\ status \in [Requests -> Statuses]
      /\ sem \in 0 .. MaxConcurrent /\ sem = Cardinality(Holders)
      /\ AnsweredOnce
  BY DEF Inv, TypeOK, SlotsAccounted
<1>1. CASE \/ Arrive(r) \/ ReadRequest(r) \/ CallProvider(r)
           \/ ProviderReturns(r) \/ ClearMaterials(r)
  <2>1. PICK loc \in Locations :
            Goto(r, loc) /\ (pc[r] \in Holding <=> loc \in Holding)
    BY <1>1 DEF Arrive, ReadRequest, CallProvider, ProviderReturns, ClearMaterials
  <2>2. UNCHANGED status
    BY <1>1 DEF Arrive, ReadRequest, CallProvider, ProviderReturns, ClearMaterials
  <2> QED
    BY <1>0, <2>1, <2>2, HoldersMove DEF Refused
<1>2. CASE \/ Reject(r) \/ VerifyToken(r) \/ Authorize(r)
           \/ FinishResolve(r) \/ WriteAnswer(r)
  <2>1. PICK loc \in Locations :
            Goto(r, loc) /\ (pc[r] \in Holding <=> loc \in Holding)
    BY <1>2 DEF Reject, VerifyToken, Authorize, FinishResolve, WriteAnswer, Answer
  <2>2. UNCHANGED status \/ \E code \in Statuses \ {503} :
            status' = [status EXCEPT ![r] = code]
    BY <1>2 DEF Reject, VerifyToken, Authorize, FinishResolve, WriteAnswer, Answer,
                Statuses
  <2>3. status[r] # 503
    BY <1>0, <1>2 DEF Reject, VerifyToken, Authorize, FinishResolve, WriteAnswer,
                      AnsweredOnce
  <2>4. Refused' = Refused
    BY <1>0, <2>2, <2>3, RefusedStay DEF Refused
  <2> QED
    BY <1>0, <2>1, <2>4, HoldersMove
<1>3. CASE AcquireSlot(r)
  <2>1. r \notin Holders
    BY <1>3 DEF AcquireSlot, Holders
  <2>2. CASE sem < MaxConcurrent /\ Goto(r, "verify") /\ UNCHANGED status
    <3>1. Holders' = Holders \cup {r} /\ Refused' = Refused
      BY <1>0, <1>3, <2>2, HoldersMove DEF AcquireSlot, Refused
    <3> QED
      BY <1>0, <2>1, <2>2, <3>1, SameCardinality DEF Slots!Take
  <2>3. CASE sem = MaxConcurrent /\ Answer(r, 503, "done")
    <3>1. Holders' = Holders
      BY <1>0, <1>3, <2>3, HoldersMove DEF AcquireSlot, Answer
    <3>2. Refused' = Refused \cup {r}
      BY <1>0, <2>3 DEF Refused, Answer
    <3> QED
      BY <1>0, <2>1, <2>3, <3>1, <3>2, SameCardinality DEF Slots!Refuse
  <2> QED
    BY <1>3, <2>2, <2>3 DEF AcquireSlot
<1>4. CASE ReleaseSlot(r)
  <2>1. r \in Holders /\ Holders' = Holders \ {r} /\ Refused' = Refused
    BY <1>0, <1>4, HoldersMove DEF ReleaseSlot, Holders, Refused
  <2> QED
    BY <2>1 DEF Slots!Give
<1>5. CASE Deadline(r) \/ Disconnect(r)
  BY <1>5, HoldersStay DEF Deadline, Disconnect, Refused
<1> QED
  BY <1>1, <1>2, <1>3, <1>4, <1>5 DEF Handle

(* The semaphore of the handler implements the slots that the broker       *)
(* promises: busy only when every slot is taken, and each is given back.   *)
THEOREM ImplementsSlots == Spec => SlotsImplemented
<1>1. Init => Slots!Init
  BY DEF Init, Slots!Init, Holders, Refused
<1>2. Inv /\ [Next]_vars => [Slots!Next]_(Slots!slots)
  <2> SUFFICES ASSUME Inv, [Next]_vars
               PROVE  Slots!Next \/ UNCHANGED <<Holders, Refused>>
    BY DEF Slots!slots
  <2>1. CASE UNCHANGED vars
    BY <2>1, HoldersStay DEF vars, Refused
  <2>2. CASE Terminate \/ GraceEnds
    BY <2>2, HoldersStay DEF Terminate, GraceEnds, Refused
  <2>3. CASE Exit \/ ListenerFails
    <3>1. Die
      BY <2>3 DEF Exit, ListenerFails
    <3>2. Holders' = {} /\ Refused' = Refused
      BY <3>1, DieReleasesAll DEF Die, Inv, TypeOK, Refused
    <3> QED
      BY <3>2 DEF Slots!Next, Slots!Vanish
  <2>4. ASSUME NEW r \in Requests,
               \/ Arrive(r) \/ Handle(r) \/ ProviderReturns(r)
               \/ Deadline(r) \/ Disconnect(r)
        PROVE  Slots!Next \/ UNCHANGED <<Holders, Refused>>
    BY <2>4, HandlerRefines DEF Slots!Next
  <2> QED
    BY <2>1, <2>2, <2>3, <2>4 DEF Next
<1> QED
  BY <1>1, <1>2, Invariance, PTL DEF Spec, SlotsImplemented, Slots!Spec
=============================================================================
