------------------------- MODULE DevelopmentSession -------------------------
(***************************************************************************)
(* The commands pade validate, plan, capabilities and exec, up to the call *)
(* of Runner.Run: the manifest is loaded and validated, a bindings file is *)
(* found, loaded and refused if it selects an executable provider, and     *)
(* plan and capabilities report for each declared capability what exec     *)
(* would do with it (cmd/pade/main.go, internal/manifest, internal/        *)
(* binding, internal/planner).                                             *)
(*                                                                         *)
(* A session is any sequence of commands; the files may change at any      *)
(* time, also between finding one and reading it.                          *)
(***************************************************************************)
EXTENDS Naturals, ProviderSet, Manifest

CONSTANTS
    Capabilities,  \* capability names
    Configs,       \* bindings: functions from names to [provider, sound]
    Blank,         \* a capability name that is only space
    Manifests,     \* the documents pade.yaml may be (Manifest)
    Requests,      \* sets of names given to exec
    Malformed,     \* a bindings file that does not parse
    Absent,        \* no file
    MaxChanges     \* bound: how often the files change

Slots == {"flag", "variable", "user", "workspace"}
(* The files that matter: one that is not named is not there.              *)
Named(g) == {"user", "workspace"} \cup g
Empty == [c \in {} |-> [provider |-> "", sound |-> FALSE]]

NoManifest == CHOOSE d \in Manifests : TRUE

ASSUME ConfigsAssumption == \A config \in Configs :
    /\ DOMAIN config \subseteq Capabilities
    /\ \A c \in DOMAIN config :
        config[c].provider \in STRING /\ config[c].sound \in BOOLEAN
ASSUME FilesAssumption ==
    /\ Malformed \notin Configs /\ Absent \notin Configs /\ Malformed # Absent
    /\ Absent \notin Manifests /\ Manifests # {}
ASSUME ChangesAssumption == MaxChanges \in Nat

VARIABLES
    files,     \* what each bindings file holds
    given,     \* whether --bindings and PADE_BINDINGS are set
    trust,     \* PADE_TRUST_WORKSPACE_BINDINGS
    manifest,  \* pade.yaml, or Absent
    read,      \* the manifest of the last command that came to the bindings
    command,   \* "validate", "plan", "capabilities" or "exec"
    requested, \* the capabilities of exec
    phase,     \* "idle", "find", "load", "resolve" (Runner.Run)
    path,      \* the slot of the bindings file found, or "none"
    cfg,       \* binding.Config, when phase is "resolve"
    outcome,   \* of the last command: "none", "reported" or what it refused
    report,    \* what the last plan or capabilities has shown of each capability
    current,   \* history: nothing that counts has changed since then
    foresight, \* history: the outcome of that command
    changes    \* how often the files have changed

setting == <<given, trust>>
history == <<current, foresight>>
vars == <<files, setting, manifest, read, command, requested, phase, path, cfg,
          outcome, report, history, changes>>

-----------------------------------------------------------------------------
(* Config.Validate, and the decoder before it; a file of a version that is *)
(* not supported, or with a blank name, counts as Malformed.               *)
Parses(content) == content # Malformed /\ content # Absent
ValidConfig(config) ==
    \A c \in DOMAIN config : ValidEntry(config[c])

(* A mutant of Developable: only workspace bindings are refused.           *)
DevelopableElsewhere(config) == path = "workspace" =>
    \A c \in DOMAIN config : config[c].provider # "exec"

(* RejectDevelopmentSideExec                                               *)
Developable(config) == \A c \in DOMAIN config : config[c].provider # "exec"

(* A mutant of Found: workspace bindings need no trust.                    *)
FoundTrusting ==
    CASE "flag" \in given -> IF files["flag"] = Absent THEN "missing" ELSE "flag"
      [] "flag" \notin given /\ "variable" \in given ->
            IF files["variable"] = Absent THEN "missing" ELSE "variable"
      [] given = {} -> IF files["user"] # Absent THEN "user"
            ELSE IF files["workspace"] # Absent THEN "workspace" ELSE "none"

(* A mutant of Found: a trusted workspace comes before the user's file.    *)
FoundWorkspaceFirst ==
    CASE "flag" \in given -> IF files["flag"] = Absent THEN "missing" ELSE "flag"
      [] "flag" \notin given /\ "variable" \in given ->
            IF files["variable"] = Absent THEN "missing" ELSE "variable"
      [] given = {} -> IF files["workspace"] # Absent /\ trust THEN "workspace"
            ELSE IF files["user"] # Absent THEN "user" ELSE "none"

(* FindWithNotice: the slot found, "none", or "missing".                   *)
Found ==
    CASE "flag" \in given -> IF files["flag"] = Absent THEN "missing" ELSE "flag"
      [] "flag" \notin given /\ "variable" \in given ->
            IF files["variable"] = Absent THEN "missing" ELSE "variable"
      [] given = {} /\ files["user"] # Absent -> "user"
      [] given = {} /\ files["user"] = Absent ->
            IF files["workspace"] # Absent /\ trust THEN "workspace" ELSE "none"

(* InspectBindings, of the declared capabilities.                          *)
Inspect(config) == [c \in DOMAIN read.capabilities |->
    IF c \notin DOMAIN config
    THEN [bound |-> FALSE, provider |-> "", status |-> "unbound"]
    ELSE [bound |-> TRUE, provider |-> config[c].provider,
          status |-> IF config[c].provider \in Consumer THEN "configured" ELSE "error"]]

(* A mutant of Build: the manifest's hint wins over the binding.           *)
BuildHinted(statuses) == [c \in DOMAIN statuses |->
    IF read.capabilities[c].provider = "" THEN statuses[c]
    ELSE [statuses[c] EXCEPT !.provider = read.capabilities[c].provider]]

(* planner.Build: where nothing is bound, the manifest's hint is shown.    *)
Build(statuses) == [c \in DOMAIN statuses |->
    IF statuses[c].provider # "" THEN statuses[c]
    ELSE [statuses[c] EXCEPT !.provider = read.capabilities[c].provider]]

-----------------------------------------------------------------------------
Init ==
    /\ files \in [Slots -> Configs \cup {Malformed, Absent}]
    /\ given \in SUBSET {"flag", "variable"}
    /\ \A s \in Slots \ Named(given) : files[s] = Absent
    /\ trust \in BOOLEAN /\ (given # {} => trust)  \* untrusted adds nothing then
    /\ manifest \in Manifests \cup {Absent} /\ read = NoManifest
    /\ command = "validate" /\ requested = {}
    /\ phase = "idle"
    /\ path = "none"
    /\ cfg = Empty
    /\ outcome = "none"
    /\ report = Empty
    /\ current = FALSE /\ foresight = "none"
    /\ changes = 0

FilesKept == UNCHANGED <<files, setting, manifest, changes>>

(* What a workspace offers does not count unless it is trusted and the     *)
(* operator has no bindings of their own, named or the user's.             *)
Ignored(s) == s = "workspace" /\ (~trust \/ given # {} \/ files["user"] # Absent)

(* Someone edits, adds or removes a bindings file or the manifest.         *)
FilesChange ==
    /\ changes < MaxChanges
    /\ changes' = changes + 1
    /\ \/ \E s \in Named(given), content \in Configs \cup {Malformed, Absent} :
             /\ files' = [files EXCEPT ![s] = content]
             /\ current' = (current /\ Ignored(s))
             /\ UNCHANGED manifest
       \/ /\ manifest' \in Manifests \cup {Absent} /\ current' = FALSE
          /\ UNCHANGED files
    /\ UNCHANGED <<setting, read, command, requested, phase, path, cfg,
                   outcome, report, foresight>>

Reports == {"plan", "capabilities"}

(* The command ends; a report is what the next exec is compared with.      *)
End(result) ==
    /\ phase' = "idle" /\ read' = NoManifest
    /\ outcome' = result
    /\ IF command \in Reports
       THEN foresight' = result ELSE UNCHANGED foresight

(* loadAndValidate: "ok", or why not.                                      *)
Loaded ==
    IF manifest = Absent THEN "manifest_error"
    ELSE IF ~Loads(manifest) \/ ~Judged(manifest) THEN "manifest_error"
    ELSE IF ~Valid(manifest, Blank) THEN "manifest_invalid" ELSE "ok"

(* A command that ends before it looks for bindings; exec refuses to run   *)
(* for nothing before it has read the manifest, and for a capability that  *)
(* is not declared after it.                                               *)
Stop(result) == phase' = "idle" /\ outcome' = result /\ UNCHANGED <<read, current>>

Begin(name, caps) ==
    /\ phase = "idle"
    /\ command' = name /\ requested' = caps
    /\ \/ name = "exec" /\ caps = {} /\ Stop("usage")
       \/ (name = "exec" => caps # {}) /\ Loaded # "ok" /\ Stop(Loaded)
       \/ name = "validate" /\ Loaded = "ok" /\ Stop("valid")
       \/ /\ name = "exec" /\ caps # {} /\ Loaded = "ok"
          /\ ~(caps \subseteq DOMAIN manifest.capabilities)
          /\ Stop("undeclared")
       \/ /\ name # "validate" /\ Loaded = "ok"
          /\ name = "exec" => caps # {} /\ caps \subseteq DOMAIN manifest.capabilities
          /\ phase' = "find" /\ read' = manifest
          /\ current' = (name \in Reports \/ current)
          /\ UNCHANGED outcome
    /\ UNCHANGED <<path, cfg, report, foresight>> /\ FilesKept

Dry == \E name \in Reports \cup {"validate"} : Begin(name, {})
Exec == \E caps \in Requests : Begin("exec", caps)

(* A file that was named and is not there is an error.                     *)
FindBindings ==
    /\ phase = "find"
    /\ IF Found = "missing"
       THEN End("bindings_error") /\ UNCHANGED path
       ELSE phase' = "load" /\ path' = Found /\ UNCHANGED <<read, outcome, foresight>>
    /\ UNCHANGED <<command, requested, cfg, report, current>> /\ FilesKept

(* The bindings are usable: plan and capabilities report on them, exec     *)
(* calls Runner.Run.                                                       *)
Use(config) ==
    IF command \in Reports
    THEN /\ report' = (IF command = "plan" THEN Build(Inspect(config))
                       ELSE Inspect(config))
         /\ End("reported")
         /\ UNCHANGED cfg
    ELSE /\ phase' = "resolve"
         /\ cfg' = config
         /\ UNCHANGED <<read, outcome, report, foresight>>

(* Load and RejectDevelopmentSideExec, or the empty configuration when no  *)
(* file was found, with which exec refuses to run.                         *)
LoadBindings ==
    /\ phase = "load"
    /\ LET content == files[path] IN
        \/ /\ path = "none" /\ command \in Reports
           /\ Use(Empty)
        \/ /\ path = "none" /\ command = "exec"
           /\ End("no_bindings") /\ UNCHANGED <<cfg, report>>
        \/ /\ path # "none"
           /\ IF Parses(content) /\ ValidConfig(content) /\ Developable(content)
              THEN Use(content)
              ELSE End("bindings_error") /\ UNCHANGED <<cfg, report>>
    /\ UNCHANGED <<command, requested, path, current>> /\ FilesKept

(* Runner.Run returns: the subject of ScopedRun.                           *)
RunReturns ==
    /\ phase = "resolve"
    /\ End("ran")
    /\ cfg' = Empty
    /\ UNCHANGED <<command, requested, path, report, current>> /\ FilesKept

Next == FilesChange \/ Dry \/ Exec \/ FindBindings \/ LoadBindings \/ RunReturns

Spec == Init /\ [][Next]_vars

-----------------------------------------------------------------------------
Outcomes == {"none", "usage", "manifest_error", "manifest_invalid", "valid",
             "undeclared", "bindings_error", "no_bindings", "reported", "ran"}

(* Every variable holds a value of its kind.                               *)
TypeOK ==
    /\ files \in [Slots -> Configs \cup {Malformed, Absent}]
    /\ given \subseteq {"flag", "variable"} /\ trust \in BOOLEAN
    /\ manifest \in Manifests \cup {Absent} /\ read \in Manifests
    /\ command \in Reports \cup {"validate", "exec"}
    /\ phase \in {"idle", "find", "load", "resolve"}
    /\ path \in Slots \cup {"none"}
    /\ cfg \in Configs \cup {Empty}
    /\ outcome \in Outcomes /\ foresight \in Outcomes
    /\ current \in BOOLEAN
    /\ changes \in 0 .. MaxChanges

Resolving == phase = "resolve"

(* What asks a provider for a credential is exec, never a dry command, for *)
(* capabilities that the manifest it has read declares; and no entry of    *)
(* that manifest could carry a value, whatever provider it hints at        *)
(* (validateCapability: "declare names only").                             *)
NothingUndeclared == Resolving =>
    /\ command = "exec" /\ requested # {}
    /\ requested \subseteq DOMAIN read.capabilities \ {Blank}
    /\ \A c \in DOMAIN read.capabilities : "assignment" \notin read.capabilities[c].env

Inv == TypeOK /\ NothingUndeclared

(* Runner.Run is never given bindings it could not use: whatever file they *)
(* come from, and even if it was replaced after it was found, they name    *)
(* providers that the consumer has, with sound sections, and never an      *)
(* executable (RejectDevelopmentSideExec, providerset.Consumer).           *)
LoadedUsable == Resolving =>
    \A c \in DOMAIN cfg : cfg[c].provider \in Consumer /\ cfg[c].sound

(* plan and capabilities tell what exec will do, as long as nothing that   *)
(* counts changes: exec finds a capability bound if and only if they have  *)
(* shown it as configured, then to the provider they have named; it        *)
(* refuses the bindings only when they have, and it says that there are    *)
(* none only when they have shown each capability unbound. Whatever is     *)
(* done in between to the file of a workspace that is not trusted, or that *)
(* stands behind bindings of the operator's own, changes nothing of this.  *)
PlanForetells == (current /\ command = "exec") =>
    /\ Resolving => foresight = "reported" /\ \A c \in requested :
        /\ report[c].bound <=> (c \in DOMAIN cfg)
        /\ report[c].status = "configured" <=> report[c].bound
        /\ report[c].bound => report[c].provider = cfg[c].provider
    /\ (phase = "idle" /\ outcome = "bindings_error") => foresight = "bindings_error"
    /\ (phase = "idle" /\ outcome = "no_bindings") =>
        foresight = "reported" /\ \A c \in requested : ~report[c].bound
=============================================================================
