--------------------------- MODULE ProviderProcess ---------------------------
(***************************************************************************)
(* The providers that answer a resolve by running a program: exec (one     *)
(* run of the configured command), onepassword (one `op read` per ref) and *)
(* keeper (one `keeper get` per ref, and one JSON fallback).  All of them  *)
(* capture the program's stdout and stderr with cliproc.LimitedBuffer      *)
(* through os/exec: the program writes into a pipe, a goroutine copies     *)
(* the pipe into the buffer, and cmd.Run returns when the program has      *)
(* exited and the pipes are closed, or, where WaitDelay is set, at most    *)
(* that long after the exit or the end of the context.                     *)
(*                                                                         *)
(* The bytes of a stream are counted, not kept: what the properties tell   *)
(* apart is whether a captured value is the whole of what was printed, and *)
(* what keeper's parsers find in an output that is.                        *)
(***************************************************************************)
EXTENDS Naturals, FiniteSets, KeeperOutput, ProviderPrograms

CONSTANTS
    Refs,      \* the secret references of a binding
    Limit,     \* cliproc.MaxOutput
    PipeSize,  \* what a pipe holds
    Printed,   \* [Streams -> the lengths a program may print on it]
    Screens,   \* what Commander may print as a password,
    Documents, \* and as JSON
    Ambients   \* the environment of pade: functions from variables to texts

CliKinds == {"exec", "onepassword", "keeper"}
Streams == {"stdout", "stderr"}
Lengths == UNION {Printed[s] : s \in Streams}

ASSUME RefsAssumption == IsFiniteSet(Refs) /\ Refs # {}
ASSUME LimitsAssumption == Limit \in Nat \ {0} /\ PipeSize \in Nat \ {0}
ASSUME PrintedAssumption == Printed \in [Streams -> SUBSET Nat]
ASSUME ScreensAssumption == \A s \in Screens : s \in Seq(Lines)
ASSUME DocumentsAssumption == \A d \in Documents :
    d \in [password : Values, fields : Seq([type : STRING, label : STRING, value : Values])]
VARIABLES
    kind,     \* the provider
    todo,     \* the refs without a value
    ref,      \* the ref the current or last run is for
    attempt,  \* of readRef: 1, or 2 for the JSON fallback of keeper
    phase,    \* "next", "running", "asking" (an API) or "done"
    proc,     \* "alive", "ok" (exit 0) or "bad" (another end)
    holder,   \* a process the program left behind holds the pipes open
    prints,   \* what the program prints on each stream
    written,  \* how much of it the program has written
    copied,   \* how much of that was read from the pipe
    captured, \* Buf of each LimitedBuffer
    exceed,   \* Exceed of each LimitedBuffer
    delay,    \* WaitDelay of this run has passed
    ctxOver,  \* the context of the call is done
    material, \* the values read: how much was captured, how much was there,
              \* the text made of it, and whether it could be told from others
    outcome,  \* "none", "error" or "material"
    overrun,  \* history: a run came back with a stream over the limit
    runs      \* history: programs started for each ref

callVars == <<kind, todo, ref, attempt, phase, material, outcome>>
procVars == <<proc, holder, prints, written>>
bufVars == <<copied, captured, exceed>>
history == <<overrun, runs>>
vars == <<callVars, procVars, bufVars, delay, ctxOver, history>>

None == [s \in Streams |-> 0]

Unread == [value |-> 0, whole |-> 0, text |-> "", clear |-> FALSE]

InitOf(Kinds) ==
    /\ kind \in Kinds
    /\ ref \in Refs
    /\ todo = IF kind = "exec" THEN {ref} ELSE Refs
    /\ attempt = 1 /\ phase = "next"
    /\ proc = "ok" /\ holder = FALSE
    /\ prints = None /\ written = None /\ copied = None /\ captured = None
    /\ exceed = [s \in Streams |-> FALSE]
    /\ delay = FALSE /\ ctxOver = FALSE
    /\ material = [r \in Refs |-> Unread]
    /\ outcome = "none"
    /\ overrun = FALSE
    /\ runs = [r \in Refs |-> 0]

-----------------------------------------------------------------------------
(* The environment: the program, what it leaves behind, the context.       *)

\* The program writes what the pipe has room for; with no room it blocks.
ProcessWrites ==
    /\ proc = "alive"
    /\ \E s \in Streams :
          /\ written[s] < prints[s]
          /\ written[s] - copied[s] < PipeSize
          /\ written' = [written EXCEPT ![s] = @ + 1]
    /\ UNCHANGED <<callVars, proc, holder, prints, bufVars, delay, ctxOver, history>>

\* It exits when it has printed everything.
ProcessExits ==
    /\ proc = "alive" /\ written = prints
    /\ proc' \in {"ok", "bad"}
    /\ UNCHANGED <<callVars, holder, prints, written, bufVars, delay, ctxOver, history>>

\* It fails half-way.
ProcessCrashes ==
    /\ proc = "alive" /\ written # prints
    /\ proc' = "bad"
    /\ UNCHANGED <<callVars, holder, prints, written, bufVars, delay, ctxOver, history>>

HolderCloses ==
    /\ holder /\ proc # "alive"
    /\ holder' = FALSE
    /\ UNCHANGED <<callVars, proc, prints, written, bufVars, delay, ctxOver, history>>

ContextEnds ==
    /\ ~ctxOver /\ phase # "done"
    /\ ctxOver' = TRUE
    /\ UNCHANGED <<callVars, procVars, bufVars, delay, history>>

-----------------------------------------------------------------------------
(* os/exec and the buffers.                                                *)

\* CommandContext kills the program, and the program only, once the context
\* is over; the processes it left behind live on.
Kill ==
    /\ phase = "running" /\ ctxOver /\ proc = "alive"
    /\ proc' = "bad"
    /\ UNCHANGED <<callVars, holder, prints, written, bufVars, delay, ctxOver, history>>

\* LimitedBuffer.Write of n bytes: it takes what fits and reports all of
\* them written, so that the copying goes on and the program never blocks.
Taken(s, n) ==
    IF exceed[s] THEN 0
    ELSE IF n > Limit - captured[s] THEN Limit - captured[s] ELSE n

WrittenStopping(s, n) == IF exceed[s] THEN 0 ELSE n

Written(s, n) == n

ExceedsFull(s, n) == exceed[s] \/ captured[s] = Limit

Exceeds(s, n) == exceed[s] \/ n > Limit - captured[s]

Copy ==
    /\ phase = "running" /\ ~delay
    /\ \E s \in Streams : \E n \in 1 .. (written[s] - copied[s]) :
          /\ copied' = [copied EXCEPT ![s] = @ + Written(s, n)]
          /\ captured' = [captured EXCEPT ![s] = @ + Taken(s, n)]
          /\ exceed' = [exceed EXCEPT ![s] = Exceeds(s, n)]
    /\ UNCHANGED <<callVars, procVars, delay, ctxOver, history>>

\* The pipes are at their end: nobody writes, everything is copied.
Drained == proc # "alive" /\ ~holder /\ copied = written

\* onepassword and keeper set cmd.WaitDelay, exec does not.
HasWaitDelayOnce == kind \in {"onepassword", "keeper"} /\ attempt = 1

HasWaitDelay == kind \in {"onepassword", "keeper"}

\* WaitDelay has passed since the exit or the end of the context: the pipes
\* are closed with whatever is still in them.
DelayPasses ==
    /\ phase = "running" /\ HasWaitDelay /\ ~delay
    /\ proc # "alive" \/ ctxOver
    /\ delay' = TRUE
    /\ UNCHANGED <<callVars, procVars, bufVars, ctxOver, history>>

-----------------------------------------------------------------------------
(* The providers.                                                          *)

\* exec.Provider.invoke, runPasswordCmd and readPasswordFromJSON up to
\* cmd.Run: fresh buffers, and a program whose parts nobody knows.
StartRun ==
    /\ phase = "next" /\ ~ctxOver /\ todo # {}
    /\ ref' \in (IF attempt = 2 THEN {ref} ELSE todo)
    /\ phase' = "running"
    /\ proc' = "alive" /\ holder' \in BOOLEAN
    /\ prints' \in {p \in [Streams -> Lengths] : \A s \in Streams : p[s] \in Printed[s]}
    /\ written' = None /\ copied' = None /\ captured' = None
    /\ exceed' = [s \in Streams |-> FALSE]
    /\ delay' = FALSE
    /\ runs' = [runs EXCEPT ![ref'] = @ + 1]
    /\ UNCHANGED <<kind, todo, attempt, material, outcome, ctxOver, overrun>>

\* The program is not found (resolveBin, cmd.Start) or the context is over
\* before the start; keeper asks again for JSON after a failure of cmd.Start.
StartFails ==
    /\ phase = "next" /\ todo # {}
    /\ \/ phase' = "done" /\ outcome' = "error" /\ UNCHANGED <<ref, attempt>>
       \/ /\ kind = "keeper" /\ attempt = 1 /\ ~ctxOver
          /\ ref' \in todo /\ attempt' = 2
          /\ UNCHANGED <<phase, outcome>>
    /\ UNCHANGED <<kind, todo, material, procVars, bufVars, delay, ctxOver, history>>

OverLimit == \E s \in Streams : exceed[s]

\* cmd.Run has returned without an error.  A WaitDelay that passes as the
\* pipes end may or may not be reported.
RunSucceeds == proc = "ok" /\ Drained

\* With or without one: the program has exited, and the pipes are closed.
RunReturned == phase = "running" /\ proc # "alive" /\ (Drained \/ delay)

\* shouldNotFallback, and the providers that have no second command.  Its test
\* for "not found" in the message is left out: a failed run says "failed for".
FinalAfterCancel == kind # "keeper" \/ attempt = 2 \/ ctxOver

FinalOnExit == kind # "keeper" \/ attempt = 2 \/ ctxOver \/ OverLimit \/ proc = "bad"

Final == kind # "keeper" \/ attempt = 2 \/ ctxOver \/ OverLimit

\* The secret is the last line but for known chatter, and not like chatter.
ClearScreen(lines) ==
    \E i \in DOMAIN lines :
        /\ lines[i] = "secret"
        /\ \A j \in DOMAIN lines : j > i => lines[j] \in Chatter \cup {""}

\* The secret is the record's password, or its first field of that type with
\* a text: no other text of the record comes before it.
ClearDocument(doc) ==
    \/ doc.password = "secret"
    \/ doc.password = "" /\ FirstFieldValue(doc, "type", "password") = "secret"

\* What the provider makes of a whole output: exec takes any value that a
\* program gives, a blank one or none at all in its env map among them,
\* onepassword trims its end, keeper looks for the secret in it.
Secret == [text |-> "secret", clear |-> TRUE]
Nothing == [text |-> "", clear |-> FALSE]
Readings ==
    IF kind # "keeper" THEN {Secret, Nothing}
    ELSE IF attempt = 1
    THEN {[text |-> PasswordFromCLIOutput(s), clear |-> ClearScreen(s)] : s \in Screens}
    ELSE {[text |-> SecretFromKeeperJSON(d), clear |-> ClearDocument(d)] : d \in Documents}

\* As if onepassword and keeper took a blank text, too.
ValueReadBlank ==
    /\ RunReturned /\ RunSucceeds /\ ~OverLimit
    /\ captured["stdout"] > 0
    /\ \E reading \in Readings :
          material' = [material EXCEPT ![ref] =
                          [value |-> captured["stdout"], whole |-> prints["stdout"],
                           text |-> reading.text, clear |-> reading.clear]]
    /\ todo' = todo \ {ref}
    /\ attempt' = 1 /\ phase' = "next"
    /\ UNCHANGED <<kind, ref, outcome, procVars, bufVars, delay, ctxOver, history>>

\* The run gives a value: the whole of stdout, parsed.  Only exec hands a
\* blank one on; it wants an env map, whatever is in it.
ValueRead ==
    /\ RunReturned /\ RunSucceeds /\ ~OverLimit
    /\ captured["stdout"] > 0
    /\ \E reading \in Readings :
          /\ kind = "exec" \/ reading.text # ""
          /\ material' = [material EXCEPT ![ref] =
                             [value |-> captured["stdout"], whole |-> prints["stdout"],
                              text |-> reading.text, clear |-> reading.clear]]
    /\ todo' = todo \ {ref}
    /\ attempt' = 1 /\ phase' = "next"
    /\ UNCHANGED <<kind, ref, outcome, procVars, bufVars, delay, ctxOver, history>>

\* As if keeper asked again and again.
RunFailsRetrying ==
    /\ RunReturned
    /\ overrun' = (overrun \/ OverLimit)
    /\ IF kind # "keeper" \/ ctxOver \/ OverLimit
       THEN phase' = "done" /\ outcome' = "error" /\ UNCHANGED attempt
       ELSE phase' = "next" /\ attempt' = 2 /\ UNCHANGED outcome
    /\ UNCHANGED <<kind, todo, ref, material, procVars, bufVars, delay, ctxOver, runs>>

\* Over the limit, or an error, or nothing the parser makes a value of: the
\* call fails, or keeper asks again for JSON.
RunFails ==
    /\ RunReturned
    /\ overrun' = (overrun \/ OverLimit)
    /\ IF Final
       THEN phase' = "done" /\ outcome' = "error" /\ UNCHANGED attempt
       ELSE phase' = "next" /\ attempt' = 2 /\ UNCHANGED outcome
    /\ UNCHANGED <<kind, todo, ref, material, procVars, bufVars, delay, ctxOver, runs>>

Finish ==
    /\ phase = "next" /\ todo = {}
    /\ phase' = "done" /\ outcome' = "material"
    /\ UNCHANGED <<kind, todo, ref, attempt, material, procVars, bufVars, delay, ctxOver, history>>

-----------------------------------------------------------------------------
Runtime == Kill \/ Copy \/ DelayPasses
Provider == StartRun \/ StartFails \/ ValueRead \/ RunFails \/ Finish
Environment == ProcessWrites \/ ProcessExits \/ ProcessCrashes \/ HolderCloses \/ ContextEnds
=============================================================================
