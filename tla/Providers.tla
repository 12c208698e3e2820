------------------------------ MODULE Providers ------------------------------
(***************************************************************************)
(* A Resolve of one binding by any provider but broker: those of           *)
(* ProviderProcess, which run a program, and those that ask an API or the  *)
(* environment: env (one look at every variable), vault (one HTTP request  *)
(* for all fields of a secret) and keeper-secrets-manager (one call of the *)
(* SDK per reference).  While such a call runs, the values it reads may be *)
(* replaced by newer ones.                                                 *)
(***************************************************************************)
EXTENDS ProviderProcess

Ksm == "keeper-secrets-manager"
Kinds == CliKinds \cup {"env", "vault", Ksm}

\* What a store may hold where a reference points: a string, a blank one, and
\* in Vault a number or null.
Holdings == {"secret", "", "number", "null", "absent"}

VARIABLES
    stored,  \* what the store holds for each reference
    shared,  \* two fields of the Vault binding name one variable
    rotated, \* the store has newer values than at the start
    readNew  \* the references whose newer value was read

storeVars == <<stored, shared, rotated, readNew>>
allVars == <<vars, storeVars>>

\* Material that keeper made of texts, and env and vault of what they found.
Texts == Lines \cup Values \cup {"<nil>"}

TypeOK ==
    /\ kind \in Kinds
    /\ todo \subseteq Refs /\ ref \in Refs
    /\ attempt \in 1 .. (IF kind = "keeper" THEN 2 ELSE 1)
    /\ phase \in {"next", "running", "asking", "done"}
    /\ proc \in {"alive", "ok", "bad"}
    /\ holder \in BOOLEAN /\ delay \in BOOLEAN /\ ctxOver \in BOOLEAN
    /\ prints \in [Streams -> Lengths \cup {0}]
    /\ \A s \in Streams :
          /\ written[s] \in 0 .. prints[s]
          /\ copied[s] \in 0 .. written[s]
          /\ captured[s] \in 0 .. Limit /\ captured[s] <= copied[s]
          /\ exceed[s] = (copied[s] > Limit)
    /\ material \in [Refs -> [value : 0 .. Limit, whole : Nat, text : Texts, clear : BOOLEAN]]
    /\ outcome \in {"none", "error", "material"}
    /\ (outcome # "none") = (phase = "done")
    /\ overrun \in BOOLEAN
    /\ \A r \in Refs : runs[r] <= (IF kind = "keeper" THEN 2 ELSE 1)
    /\ stored \in [Refs -> Holdings]
    /\ shared \in BOOLEAN /\ rotated \in BOOLEAN /\ readNew \subseteq Refs

Init ==
    /\ InitOf(Kinds)
    /\ IF kind \in CliKinds THEN stored = [r \in Refs |-> "secret"]
       ELSE IF kind = "vault" THEN stored \in [Refs -> Holdings]
       ELSE stored \in [Refs -> {"secret", "", "absent"}]
    /\ shared \in (IF kind = "vault" THEN BOOLEAN ELSE {FALSE})
    /\ rotated = FALSE /\ readNew = {}

-----------------------------------------------------------------------------
\* Somebody replaces the values, all at once, by newer ones.
Rotate ==
    /\ kind \notin CliKinds /\ phase # "done" /\ ~rotated
    /\ rotated' = TRUE
    /\ UNCHANGED <<vars, stored, shared, readNew>>

-----------------------------------------------------------------------------
\* fmt.Sprint of a decoded value: a number comes out as a float64 prints,
\* not as it was stored.
Sprint(held) ==
    CASE held = "number" -> "other"
      [] held = "null" -> "<nil>"
      [] OTHER -> held

Read(r) == [value |-> 1, whole |-> 1, text |-> Sprint(stored[r]), clear |-> stored[r] = "secret"]

Fail == phase' = "done" /\ outcome' = "error"

\* The values of rs join the material; the newer ones, if there are any.
Take(rs) ==
    /\ material' = [r \in Refs |-> IF r \in rs THEN Read(r) ELSE material[r]]
    /\ todo' = todo \ rs
    /\ readNew' = IF rotated THEN readNew \cup rs ELSE readNew

\* What a call of an API leaves alone.
NoProgram == UNCHANGED <<kind, attempt, procVars, bufVars, delay, ctxOver, history,
                         stored, shared, rotated>>

\* env: every variable has to be set, if only to nothing; the context is not
\* looked at.
LookupEnv ==
    /\ kind = "env" /\ phase = "next" /\ todo # {}
    /\ IF \E r \in Refs : stored[r] = "absent"
       THEN Fail /\ UNCHANGED <<todo, material, readNew>>
       ELSE Take(Refs) /\ UNCHANGED <<phase, outcome>>
    /\ UNCHANGED ref /\ NoProgram

\* No address, one that is neither https nor local, or no token.
VaultRefused ==
    /\ kind = "vault" /\ phase = "next" /\ todo # {}
    /\ Fail
    /\ UNCHANGED <<todo, ref, material, readNew>> /\ NoProgram

\* No client: KSM_CONFIG is not set, or the SDK does not take it.
ClientRefused ==
    /\ kind = Ksm /\ phase = "next" /\ todo = Refs
    /\ Fail
    /\ UNCHANGED <<todo, ref, material, readNew>> /\ NoProgram

\* NormalizeNotation refuses a reference without a record, whenever its turn
\* comes.
NotationRefused ==
    /\ kind = Ksm /\ phase = "next" /\ todo # {}
    /\ Fail
    /\ UNCHANGED <<todo, ref, material, readNew>> /\ NoProgram

Ask ==
    /\ kind \in {"vault", Ksm} /\ phase = "next" /\ todo # {}
    /\ phase' = "asking"
    /\ ref' \in (IF kind = Ksm THEN todo ELSE {ref})
    /\ UNCHANGED <<todo, outcome, material, readNew>> /\ NoProgram

\* As if vault asked for one field at a time.
VaultAnswersField ==
    /\ kind = "vault" /\ phase = "asking"
    /\ \E r \in todo : IF stored[r] = "absent"
          THEN Fail /\ UNCHANGED <<todo, material, readNew>>
          ELSE Take({r}) /\ phase' = "next" /\ UNCHANGED outcome
    /\ UNCHANGED ref /\ NoProgram

\* The answer of Vault: every field has to be in it.  Of two fields with one
\* variable, the one that the map gives last stays.
VaultAnswers ==
    /\ kind = "vault" /\ phase = "asking"
    /\ IF \E r \in Refs : stored[r] = "absent"
       THEN Fail /\ UNCHANGED <<todo, material, readNew>>
       ELSE /\ \E kept \in (IF shared THEN {{r} : r \in Refs} ELSE {Refs}) :
                  /\ material' = [r \in Refs |-> IF r \in kept THEN Read(r) ELSE Unread]
                  /\ readNew' = IF rotated THEN kept ELSE {}
            /\ todo' = {} /\ phase' = "next" /\ UNCHANGED outcome
    /\ UNCHANGED ref /\ NoProgram

\* An answer over 1 MiB, which is cut and no longer decodes, a status of 300
\* or more, a failed connection, the end of the context, or the ten seconds of
\* the client.
RequestFails ==
    /\ kind = "vault" /\ phase = "asking"
    /\ Fail
    /\ UNCHANGED <<todo, ref, material, readNew>> /\ NoProgram

\* As if a blank value were taken.
SdkAnswersBlank ==
    /\ kind = Ksm /\ phase = "asking"
    /\ IF stored[ref] = "absent"
       THEN Fail /\ UNCHANGED <<todo, material, readNew>>
       ELSE Take({ref}) /\ phase' = "next" /\ UNCHANGED outcome
    /\ UNCHANGED ref /\ NoProgram

\* The SDK answers a reference.  The context of the call is not passed on.
SdkAnswers ==
    /\ kind = Ksm /\ phase = "asking"
    /\ IF stored[ref] \in {"absent", ""}
       THEN Fail /\ UNCHANGED <<todo, material, readNew>>
       ELSE Take({ref}) /\ phase' = "next" /\ UNCHANGED outcome
    /\ UNCHANGED ref /\ NoProgram

SdkFails ==
    /\ kind = Ksm /\ phase = "asking"
    /\ Fail
    /\ UNCHANGED <<todo, ref, material, readNew>> /\ NoProgram

-----------------------------------------------------------------------------
Cli == kind \in CliKinds /\ (StartRun \/ StartFails \/ ValueRead \/ RunFails)

Api == LookupEnv \/ VaultRefused \/ ClientRefused \/ NotationRefused \/ Ask

\* The client of vault has a timeout, the SDK of Keeper none.
Answer == VaultAnswers \/ RequestFails \/ SdkAnswers \/ SdkFails

Next ==
    \/ (Cli \/ Finish \/ Runtime \/ Environment) /\ UNCHANGED storeVars
    \/ Api
    \/ Answer
    \/ Rotate

Spec == Init /\ [][Next]_allVars

Proceeds == ((Cli \/ Finish) /\ UNCHANGED storeVars) \/ Api

\* The runtime kills, copies and lets WaitDelay pass, the client of vault ends
\* its request, and the provider goes on.  Nothing is assumed of the program,
\* of what it leaves behind, of the context or of Keeper's SDK.
FairSpec ==
    /\ Spec
    /\ WF_allVars(Kill /\ UNCHANGED storeVars)
    /\ WF_allVars(Copy /\ UNCHANGED storeVars)
    /\ WF_allVars(DelayPasses /\ UNCHANGED storeVars)
    /\ WF_allVars(VaultAnswers \/ RequestFails)
    /\ WF_allVars(Proceeds)

\* A program that does what it came for, if it can.
ProgramProceeds ==
    /\ WF_allVars(ProcessWrites /\ UNCHANGED storeVars)
    /\ WF_allVars(ProcessExits /\ UNCHANGED storeVars)

-----------------------------------------------------------------------------
(* Properties.                                                             *)

\* The exec provider asks for the capability in one run.
Wanted == IF kind = "exec" THEN {ref} ELSE Refs

\* A value is what the store has under the reference, whenever that can be
\* told: a notice that comes before a password is not taken for it, known to
\* the parser or not, and neither is another text of its record.  Not to be
\* told is a notice that the parser does not know and that comes last, a
\* password that looks like chatter, and a number or null in Vault; but chatter
\* that the parser knows is never the value.  A value comes out as nothing only
\* from those that hand on what is set to nothing: env, vault, and exec, which
\* takes a program's env map as it is, even an empty one.
SecretsRead ==
    outcome = "material" =>
        \A r \in Refs : material[r].whole > 0 =>
            /\ material[r].clear => material[r].text = "secret"
            /\ material[r].text \notin Chatter
            /\ kind \notin {"env", "vault", "exec"} => material[r].text # ""

\* A program of op or keeper sees no credential of another service, and every
\* program sees a PATH, which may be replaced; no other variable is.
ProgramsConfined ==
    \A k \in CliKinds, ambient \in Ambients :
        LET env == Environ(k, ambient)
        IN  /\ env[Path] # ""
            /\ \A v \in DOMAIN env : v = Path \/ env[v] = ambient[v]
            /\ k # "exec" => \A v \in DOMAIN env :
                    v[1] \in {"VAULT_", "OP_", "KSM_", "KEEPER_", "GOOGLE_"} =>
                        v[1] = (IF k = "keeper" THEN "KEEPER_" ELSE "OP_")

\* The type invariant, what is read is the secret, and what programs see.
Inv == TypeOK /\ SecretsRead /\ ProgramsConfined

\* A material has a value for every ref, and every value is all there was:
\* neither the limit, nor a killed or failed program, nor pipes that WaitDelay
\* closed early make a part of a secret pass for the secret.  (Of exec it says
\* that the answer is all the program printed, not what is in its env map.)
\* Only a Vault binding that names one variable twice loses a field.  The
\* values of env and vault are all from before a rotation or all from after it.
MaterialComplete ==
    outcome = "material" =>
        /\ \A r \in Wanted : material[r].value = material[r].whole
        /\ shared \/ \A r \in Wanted : material[r].whole > 0
        /\ \E r \in Wanted : material[r].whole > 0
        /\ kind \in {"env", "vault"} /\ ~shared => readNew \in {{}, Refs}

\* Once a run has gone over the limit, the call starts no other program, the
\* JSON fallback of keeper included; but after any other run that gave no
\* password it does ask for the JSON, unless the context is over: keeper never
\* gives a reference up with half of its two commands untried.
FallbackDecided ==
    [][/\ overrun => runs' = runs
       /\ (kind = "keeper" /\ phase = "running" /\ phase' = "done") =>
            attempt = 2 \/ ctxOver \/ overrun']_allVars

\* A program that prints more than the limit is read to its end all the
\* same: it is never left blocked on a full pipe.
ProgramNeverStuck == ProgramProceeds => (proc = "alive" ~> proc # "alive")

\* A resolve ends after its context does, whatever the program and the
\* processes it left behind do.  Only exec, which sets no WaitDelay, waits on
\* for a process that holds the pipes of the program it has killed, and
\* keeper-secrets-manager, which drops the context, for an answer of its SDK.
ResolveEnds ==
    ctxOver ~> \/ phase = "done"
               \/ kind = "exec" /\ holder
               \/ kind = Ksm /\ phase = "asking"
=============================================================================
