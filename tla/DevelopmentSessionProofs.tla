---------------------- MODULE DevelopmentSessionProofs ----------------------
(***************************************************************************)
(* Theorems about DevelopmentSession, for all bindings files, manifests,   *)
(* requests and settings, however often the files change: what Runner.Run  *)
(* is given is declared, sound and not an executable, and plan foretells   *)
(* what exec does, whatever an ignored workspace offers in between.        *)
(*                                                                         *)
(* The last of these compares a report with a later command: Foretold says *)
(* what the report has to agree with at any time in between, as long as    *)
(* nothing that counts changes, also while another command is under way.   *)
(***************************************************************************)
EXTENDS DevelopmentSession, TLAPS

Usable(config) == ValidConfig(config) /\ Developable(config)

(* A command that has gone on to the bindings has read a valid manifest.   *)
SessionInv ==
    /\ phase # "idle" =>
        /\ command # "validate" /\ Valid(read, Blank)
        /\ command = "exec" => requested # {} /\ requested \subseteq DOMAIN read.capabilities
    /\ phase = "resolve" => command = "exec" /\ Usable(cfg)

(* What a command that looks for bindings now would find.                  *)
Refused ==
    \/ Found = "missing"
    \/ Found # "none" /\ ~(Parses(files[Found]) /\ Usable(files[Found]))
InUse == IF Found \in Slots THEN files[Found] ELSE Empty

(* A line of the report agrees with the bindings about a capability.       *)
Shows(line, c, config) ==
    /\ line.bound <=> c \in DOMAIN config
    /\ line.status = "configured" <=> line.bound
    /\ line.bound => line.provider = config[c].provider

Foretold ==
    /\ foresight = (IF Refused THEN "bindings_error" ELSE "reported")
    /\ ~Refused => \A c \in DOMAIN manifest.capabilities : Shows(report[c], c, InUse)

(* Nothing that counts has changed since the last report was asked for.    *)
ReportInv == current =>
    /\ phase # "idle" => read = manifest
    /\ phase = "load" => path = Found
    /\ phase = "resolve" => cfg = InUse /\ ~Refused
    /\ phase = "idle" \/ command = "exec" => Foretold
    /\ command = "exec" /\ phase = "idle" /\ outcome = "bindings_error" => Refused
    /\ command = "exec" /\ phase = "idle" /\ outcome = "no_bindings" =>
        Found = "none" /\ requested \subseteq DOMAIN manifest.capabilities

IInv == TypeOK /\ SessionInv /\ ReportInv

-----------------------------------------------------------------------------
(* The operators.                                                          *)

(* FindWithNotice names a slot that is not empty, or none.                 *)
LEMMA FoundTyped ==
    ASSUME TypeOK
    PROVE  /\ Found \in Slots \cup {"none", "missing"}
           /\ Found = "workspace" => ~Ignored("workspace")
BY DEF TypeOK, Found, Slots, Ignored

(* What may be used names providers the consumer has.                      *)
LEMMA UsableProviders ==
    ASSUME NEW config, Usable(config), NEW c \in DOMAIN config
    PROVE  config[c].provider \in Consumer /\ config[c].provider # "" /\ config[c].sound
BY DEF Usable, ValidConfig, ValidEntry, Developable, Consumer, Validated

(* plan and capabilities show usable bindings as they are, whatever the    *)
(* manifest hints at.                                                      *)
LEMMA ReportShows ==
    ASSUME NEW config, Usable(config), NEW c \in DOMAIN read.capabilities,
           NEW lines \in {Inspect(config), Build(Inspect(config))}
    PROVE  Shows(lines[c], c, config)
<1> DEFINE line == Inspect(config)[c]
<1>1. line = IF c \notin DOMAIN config
             THEN [bound |-> FALSE, provider |-> "", status |-> "unbound"]
             ELSE [bound |-> TRUE, provider |-> config[c].provider, status |-> "configured"]
  BY UsableProviders DEF Inspect
<1>2. Build(Inspect(config))[c] =
        IF line.provider # "" THEN line
        ELSE [line EXCEPT !.provider = read.capabilities[c].provider]
  BY DEF Build, Inspect
<1>3. lines[c] \in {line, Build(Inspect(config))[c]}
  OBVIOUS
<1> HIDE DEF line
<1>4. CASE c \notin DOMAIN config
  <2>1. line = [bound |-> FALSE, provider |-> "", status |-> "unbound"]
    BY <1>1, <1>4
  <2>2. lines[c].bound = FALSE /\ lines[c].status = "unbound"
    BY <1>3, <1>2, <2>1
  <2> QED
    BY <1>4, <2>2 DEF Shows
<1>5. CASE c \in DOMAIN config
  <2>1. line = [bound |-> TRUE, provider |-> config[c].provider, status |-> "configured"]
    BY <1>1, <1>5
  <2>2. lines[c] = line
    BY <1>3, <1>2, <1>5, <2>1, UsableProviders
  <2> QED
    BY <1>5, <2>1, <2>2 DEF Shows
<1> QED
  BY <1>4, <1>5

-----------------------------------------------------------------------------
(* The inductive invariant.                                                *)

LEMMA InitInv == Init => IInv
<1> SUFFICES ASSUME Init PROVE IInv
  OBVIOUS
<1>1. changes \in 0 .. MaxChanges
  BY ChangesAssumption DEF Init
<1>2. read \in Manifests
  BY FilesAssumption DEF Init, NoManifest
<1>3. TypeOK
  BY <1>1, <1>2 DEF Init, TypeOK, Outcomes
<1>4. SessionInv /\ ReportInv
  BY DEF Init, SessionInv, ReportInv
<1> QED
  BY <1>3, <1>4 DEF IInv

(* What is done to a workspace's file that is ignored has no effect on     *)
(* what a command finds, reads or refuses.                                 *)
LEMMA IgnoredUnseen ==
    ASSUME TypeOK, Ignored("workspace"), NEW content,
           files' = [files EXCEPT !["workspace"] = content], UNCHANGED setting
    PROVE  Found' = Found /\ InUse' = InUse /\ Refused' = Refused
<1>1. \A s \in Slots \ {"workspace"} : files'[s] = files[s]
  BY DEF TypeOK
<1>2. given' = given /\ trust' = trust
  BY DEF setting
<1>3. Found' = Found
  BY <1>1, <1>2 DEF Found, Ignored, Slots, TypeOK
<1>4. Found \in {"none", "missing"} \/ Found \in Slots \ {"workspace"}
  BY FoundTyped
<1>5. Found \in Slots => files'[Found] = files[Found]
  BY <1>1, <1>4 DEF Slots
<1>6. InUse' = InUse
  BY <1>3, <1>5 DEF InUse
<1> QED
  BY <1>3, <1>4, <1>5, <1>6 DEF Refused

LEMMA ChangeStep == IInv /\ FilesChange => IInv'
<1> SUFFICES ASSUME IInv, FilesChange PROVE IInv'
  OBVIOUS
<1>1. TypeOK'
  <2>1. files' \in [Slots -> Configs \cup {Malformed, Absent}]
    BY DEF FilesChange, IInv, TypeOK
  <2>2. changes' \in 0 .. MaxChanges
    BY ChangesAssumption DEF FilesChange, IInv, TypeOK
  <2> QED
    BY <2>1, <2>2 DEF FilesChange, IInv, TypeOK, setting
<1>2. SessionInv'
  BY DEF FilesChange, IInv, SessionInv
<1>3. CASE current' = FALSE
  BY <1>1, <1>2, <1>3 DEF IInv, ReportInv
<1>4. CASE current' = (current /\ Ignored("workspace"))
           /\ \E content : files' = [files EXCEPT !["workspace"] = content]
           /\ UNCHANGED manifest
  <2>1. UNCHANGED <<setting, read, command, requested, phase, path, cfg,
                    outcome, report, foresight, manifest>>
    BY <1>4 DEF FilesChange
  <2>2. current' = TRUE => Found' = Found /\ InUse' = InUse /\ Refused' = Refused
    BY <1>4, <2>1, IgnoredUnseen DEF IInv
  <2>3. current' = TRUE => current = TRUE
    BY <1>4 DEF IInv, TypeOK
  <2>4. ReportInv'
    BY <2>1, <2>2, <2>3 DEF IInv, ReportInv, Foretold
  <2> QED
    BY <1>1, <1>2, <2>4 DEF IInv
<1> QED
  BY <1>3, <1>4 DEF FilesChange, Ignored

(* What loadAndValidate accepts is a manifest, and a valid one.            *)
LEMMA LoadedValid ==
    ASSUME TypeOK, Loaded = "ok"
    PROVE  manifest \in Manifests /\ Valid(manifest, Blank)
BY DEF TypeOK, Loaded

(* The files and what depends on them stay.                                *)
LEMMA FilesStay ==
    ASSUME FilesKept
    PROVE  Found' = Found /\ InUse' = InUse /\ Refused' = Refused
BY DEF FilesKept, setting, Found, InUse, Refused

LEMMA BeginStep ==
    ASSUME IInv, NEW name \in Reports \cup {"validate", "exec"}, NEW caps, Begin(name, caps)
    PROVE  IInv'
<1> USE DEF IInv
<1>1. /\ phase = "idle" /\ command' = name /\ requested' = caps
      /\ UNCHANGED <<path, cfg, report, foresight, files, setting, manifest, changes>>
  BY DEF Begin, FilesKept
<1>2. Found' = Found /\ InUse' = InUse /\ Refused' = Refused
  BY FilesStay DEF Begin
<1>3. CASE /\ phase' = "find" /\ read' = manifest /\ UNCHANGED outcome
           /\ current' = (name \in Reports \/ current)
           /\ name # "validate" /\ Loaded = "ok"
           /\ name = "exec" => caps # {} /\ caps \subseteq DOMAIN manifest.capabilities
  <2>1. TypeOK'
    BY <1>1, <1>3, LoadedValid DEF TypeOK, setting
  <2>2. SessionInv'
    BY <1>1, <1>3, LoadedValid DEF SessionInv
  <2>3. ReportInv'
    BY <1>1, <1>2, <1>3 DEF ReportInv, Foretold, Reports
  <2> QED
    BY <2>1, <2>2, <2>3
<1>4. CASE /\ phase' = "idle" /\ UNCHANGED <<read, current>>
           /\ outcome' \in {"usage", "valid", "undeclared", "manifest_error", "manifest_invalid"}
  <2>1. TypeOK'
    BY <1>1, <1>4 DEF TypeOK, setting, Outcomes
  <2>2. SessionInv'
    BY <1>4 DEF SessionInv
  <2>3. ReportInv'
    BY <1>1, <1>2, <1>4 DEF ReportInv, Foretold
  <2> QED
    BY <2>1, <2>2, <2>3
<1>5. Loaded \in {"ok", "manifest_error", "manifest_invalid"}
  BY DEF Loaded
<1> QED
  BY <1>3, <1>4, <1>5 DEF Begin, Stop

LEMMA FindStep == IInv /\ FindBindings => IInv'
<1> SUFFICES ASSUME IInv, FindBindings PROVE IInv'
  OBVIOUS
<1> USE DEF IInv
<1>1. /\ phase = "find"
      /\ UNCHANGED <<command, requested, cfg, report, current, files, setting, manifest, changes>>
  BY DEF FindBindings, FilesKept
<1>2. Found' = Found /\ InUse' = InUse /\ Refused' = Refused
  BY FilesStay DEF FindBindings
<1>3. CASE Found = "missing"
  <2>1. /\ End("bindings_error") /\ UNCHANGED path
        /\ Refused
    BY <1>3 DEF FindBindings, Refused
  <2>2. TypeOK'
    BY <1>1, <2>1, FilesAssumption DEF TypeOK, End, setting, Outcomes, NoManifest
  <2>3. SessionInv' /\ ReportInv'
    BY <1>1, <1>2, <2>1 DEF SessionInv, ReportInv, Foretold, End, TypeOK
  <2> QED
    BY <2>2, <2>3
<1>4. CASE Found # "missing"
  <2>1. phase' = "load" /\ path' = Found /\ UNCHANGED <<read, outcome, foresight>>
    BY <1>4 DEF FindBindings
  <2>2. TypeOK'
    BY <1>1, <1>4, <2>1, FoundTyped DEF TypeOK, setting
  <2>3. SessionInv' /\ ReportInv'
    BY <1>1, <1>2, <2>1 DEF SessionInv, ReportInv, Foretold
  <2> QED
    BY <2>2, <2>3
<1> QED
  BY <1>3, <1>4

LEMMA LoadStep == IInv /\ LoadBindings => IInv'
<1> SUFFICES ASSUME IInv, LoadBindings PROVE IInv'
  OBVIOUS
<1> USE DEF IInv
<1> DEFINE accepted == Parses(files[path]) /\ Usable(files[path])
           config == IF path = "none" THEN Empty ELSE files[path]
<1>1. /\ phase = "load" /\ command \in Reports \cup {"exec"}
      /\ UNCHANGED <<command, requested, path, current, files, setting, manifest, changes>>
  BY DEF LoadBindings, FilesKept, SessionInv, TypeOK
<1>2. Found' = Found /\ InUse' = InUse /\ Refused' = Refused
  BY FilesStay DEF LoadBindings
<1>3. current => read = manifest /\ (Refused <=> path # "none" /\ ~accepted) /\ InUse = config
  BY <1>1 DEF ReportInv, Refused, InUse, TypeOK, Slots
<1>4. CASE command \in Reports /\ Use(config) /\ Usable(config)
           /\ (path # "none" => accepted)
  <2>1. /\ report' \in {Inspect(config), Build(Inspect(config))} /\ End("reported")
        /\ UNCHANGED cfg
    BY <1>4 DEF Use
  <2>2. \A c \in DOMAIN read.capabilities : Shows(report'[c], c, config)
    BY <1>4, <2>1, ReportShows
  <2>3. foresight' = "reported"
    BY <1>4, <2>1 DEF End
  <2>4. TypeOK'
    BY <1>1, <2>1, <2>3, FilesAssumption DEF TypeOK, End, setting, Outcomes, NoManifest
  <2>5. SessionInv'
    BY <2>1 DEF SessionInv, End
  <2>6. current => Foretold'
    BY <1>1, <1>2, <1>3, <1>4, <2>2, <2>3 DEF Foretold, Shows
  <2>7. ReportInv'
    BY <1>1, <1>4, <2>1, <2>6 DEF ReportInv, End, Reports
  <2> QED
    BY <2>4, <2>5, <2>7
<1>5. CASE command = "exec" /\ path # "none" /\ accepted /\ Use(files[path])
  <2>1. phase' = "resolve" /\ cfg' = files[path] /\ UNCHANGED <<read, outcome, report, foresight>>
    BY <1>5 DEF Use, Reports
  <2>2. files[path] \in Configs
    BY <1>5 DEF TypeOK, Parses
  <2>3. TypeOK'
    BY <1>1, <2>1, <2>2 DEF TypeOK, setting
  <2>4. SessionInv'
    BY <1>1, <1>5, <2>1 DEF SessionInv
  <2>5. ReportInv'
    BY <1>1, <1>2, <1>3, <1>5, <2>1 DEF ReportInv, Foretold
  <2> QED
    BY <2>3, <2>4, <2>5
<1>6. CASE /\ End("no_bindings") /\ command = "exec" /\ path = "none" /\ UNCHANGED <<cfg, report>>
  <2>1. TypeOK'
    BY <1>1, <1>6, FilesAssumption DEF TypeOK, End, Reports, setting, Outcomes, NoManifest
  <2>2. SessionInv'
    BY <1>6 DEF SessionInv, End
  <2>3. current => Found = "none" /\ requested \subseteq DOMAIN manifest.capabilities /\ Foretold
    BY <1>1, <1>6 DEF ReportInv, SessionInv
  <2>4. /\ phase' = "idle" /\ outcome' = "no_bindings" /\ foresight' = foresight
        /\ command' = "exec" /\ current' = current /\ requested' = requested
        /\ report' = report /\ manifest' = manifest
    BY <1>1, <1>6 DEF End, Reports
  <2>5. current => Foretold'
    BY <1>2, <2>3, <2>4 DEF Foretold
  <2>6. ReportInv'
    BY <1>2, <2>3, <2>4, <2>5 DEF ReportInv
  <2> QED
    BY <2>1, <2>2, <2>6
<1>7. CASE /\ End("bindings_error") /\ path # "none" /\ ~accepted /\ UNCHANGED <<cfg, report>>
  <2>1. TypeOK'
    BY <1>1, <1>7, FilesAssumption DEF TypeOK, End, setting, Outcomes, NoManifest
  <2>2. SessionInv'
    BY <1>7 DEF SessionInv, End
  <2>3. ReportInv'
    BY <1>1, <1>2, <1>3, <1>7 DEF ReportInv, Foretold, End
  <2> QED
    BY <2>1, <2>2, <2>3
<1>8. Usable(Empty)
  BY DEF Usable, ValidConfig, Developable, Empty
<1> QED
  BY <1>1, <1>4, <1>5, <1>6, <1>7, <1>8 DEF LoadBindings, Usable

LEMMA ReturnStep == IInv /\ RunReturns => IInv'
<1> SUFFICES ASSUME IInv, RunReturns PROVE IInv'
  OBVIOUS
<1> USE DEF IInv
<1>1. Found' = Found /\ InUse' = InUse /\ Refused' = Refused
  BY FilesStay DEF RunReturns
<1>2. command = "exec" /\ foresight' = foresight
  BY DEF RunReturns, SessionInv, End, Reports
<1>3. TypeOK'
  BY FilesAssumption DEF RunReturns, FilesKept, TypeOK, End, setting, Outcomes, NoManifest
<1>4. SessionInv'
  BY DEF RunReturns, SessionInv, End
<1>5. ReportInv'
  BY <1>1, <1>2 DEF RunReturns, FilesKept, ReportInv, Foretold, End
<1> QED
  BY <1>3, <1>4, <1>5

LEMMA Stutter == IInv /\ UNCHANGED vars => IInv'
BY DEF vars, setting, history, IInv, TypeOK, SessionInv, ReportInv, Foretold, Found, Refused, InUse

LEMMA Inductive == Spec => []IInv
<1>1. IInv /\ Next => IInv'
  BY ChangeStep, BeginStep, FindStep, LoadStep, ReturnStep DEF Next, Dry, Exec
<1>2. IInv /\ [Next]_vars => IInv'
  BY <1>1, Stutter
<1> QED
  BY <1>2, InitInv, PTL DEF Spec

-----------------------------------------------------------------------------
(* What follows from it.                                                   *)

(* THEOREM: only exec asks a provider for a credential, and only for       *)
(* capabilities that the manifest it has read declares, no entry of which  *)
(* could carry a value.                                                    *)
THEOREM Invariance == Spec => []Inv
<1>1. IInv => Inv
  BY DEF IInv, Inv, SessionInv, NothingUndeclared, Resolving, Valid, CapabilityValid
<1> QED
  BY <1>1, Inductive, PTL

(* THEOREM: Runner.Run is never given bindings it could not use, whatever  *)
(* file they come from, and even if it was replaced after it was found.    *)
THEOREM BindingsUsable == Spec => []LoadedUsable
<1>1. IInv => LoadedUsable
  BY UsableProviders DEF IInv, SessionInv, LoadedUsable, Resolving
<1> QED
  BY <1>1, Inductive, PTL

(* THEOREM: as long as nothing that counts changes, exec finds a           *)
(* capability bound if and only if the report has shown it so, to the      *)
(* provider it has named, refuses the bindings only when the report has,   *)
(* and misses them only when it has shown each one unbound; what an        *)
(* ignored workspace offers does not count.                                *)
THEOREM PlanHolds == Spec => []PlanForetells
<1>1. IInv => PlanForetells
  <2> SUFFICES ASSUME IInv, current, command = "exec" PROVE PlanForetells
    BY DEF PlanForetells
  <2>1. Foretold
    BY DEF IInv, ReportInv
  <2>2. ASSUME Resolving
        PROVE  foresight = "reported" /\ \A c \in requested : Shows(report[c], c, cfg)
    BY <2>1, <2>2 DEF IInv, SessionInv, ReportInv, Foretold, Resolving
  <2>3. ASSUME phase = "idle", outcome = "bindings_error"
        PROVE  foresight = "bindings_error"
    BY <2>1, <2>3 DEF IInv, ReportInv, Foretold
  <2>4. ASSUME phase = "idle", outcome = "no_bindings"
        PROVE  foresight = "reported" /\ \A c \in requested : ~report[c].bound
    <3>1. Found = "none" /\ requested \subseteq DOMAIN manifest.capabilities
      BY <2>4 DEF IInv, ReportInv
    <3>2. ~Refused /\ InUse = Empty
      BY <3>1 DEF Refused, InUse, Slots
    <3>3. foresight = "reported" /\ \A c \in requested : Shows(report[c], c, Empty)
      BY <2>1, <3>1, <3>2 DEF Foretold
    <3> QED
      BY <3>3 DEF Shows, Empty
  <2> QED
    BY <2>2, <2>3, <2>4 DEF PlanForetells, Shows
<1> QED
  BY <1>1, Inductive, PTL

=============================================================================
