--------------------------- MODULE ProvidersProofs ---------------------------
(***************************************************************************)
(* Theorems about Providers, for every set of references, every limit,     *)
(* pipe and program, and everything a store may hold: a material is all    *)
(* there was, a run over the limit is the last, and programs see what they *)
(* are meant to see.                                                       *)
(*                                                                         *)
(* What Keeper's parsers find in a screen or a record of any length follows*)
(* from the least or the greatest of a set of places in it.                *)
(***************************************************************************)
EXTENDS Providers, WellFoundedInduction, TLAPS

Most == IF kind = "keeper" THEN 2 ELSE 1

(* TypeOK but for the texts, and for the buffers and runs below.           *)
Shapes ==
    /\ kind \in Kinds
    /\ todo \subseteq Refs /\ ref \in Refs
    /\ attempt \in 1 .. Most
    /\ phase \in {"next", "running", "asking", "done"}
    /\ proc \in {"alive", "ok", "bad"}
    /\ holder \in BOOLEAN /\ delay \in BOOLEAN /\ ctxOver \in BOOLEAN
    /\ outcome \in {"none", "error", "material"}
    /\ outcome # "none" <=> phase = "done"
    /\ overrun \in BOOLEAN
    /\ stored \in [Refs -> Holdings]
    /\ shared \in BOOLEAN /\ rotated \in BOOLEAN /\ readNew \subseteq Refs

(* A buffer has what was copied, up to the limit, and knows if that is not *)
(* all; what exits well has written everything.                            *)
BufferInv ==
    /\ prints \in [Streams -> Nat] /\ written \in [Streams -> Nat]
    /\ copied \in [Streams -> Nat] /\ captured \in [Streams -> Nat]
    /\ exceed \in [Streams -> BOOLEAN]
    /\ \A s \in Streams :
          /\ prints[s] \in Lengths \cup {0}
          /\ written[s] <= prints[s] /\ copied[s] <= written[s]
          /\ captured[s] = (IF copied[s] > Limit THEN Limit ELSE copied[s])
          /\ exceed[s] <=> copied[s] > Limit
    /\ phase = "running" /\ proc = "ok" => written = prints

(* A ref without a value was not tried, but for the one that is being read.*)
RunInv ==
    /\ runs \in [Refs -> Nat]
    /\ \A r \in Refs : runs[r] <= Most
    /\ \A r \in todo : r # ref \/ (phase = "next" /\ attempt = 1) => runs[r] = 0
    /\ phase = "next" /\ attempt = 2 => ref \in todo /\ runs[ref] <= 1
    /\ phase = "running" => ref \in todo /\ runs[ref] <= attempt
    /\ kind \notin CliKinds => phase # "running" /\ \A r \in Refs : runs[r] = 0
    /\ overrun => phase = "done"

(* What was read is whole, and there is a value for what is not to do.     *)
MaterialInv ==
    /\ material = [r \in Refs |-> [value |-> material[r].value, whole |-> material[r].whole,
                                   text |-> material[r].text, clear |-> material[r].clear]]
    /\ \A r \in Refs : material[r].value \in 0 .. Limit /\ material[r].value = material[r].whole
    /\ kind = "exec" => todo \subseteq {ref}
    /\ shared => kind = "vault"
    /\ ~shared => \A r \in Wanted \ todo : material[r].whole > 0
    /\ todo = {} => \E r \in Wanted : material[r].whole > 0
    /\ outcome = "material" => todo = {}
    /\ kind \in {"env", "vault"} /\ ~shared => readNew \in {{}, Refs}

IInv == Shapes /\ BufferInv /\ RunInv /\ MaterialInv

(* What is ever made of a store or an output: no chatter that is known.    *)
Told == {"", "secret", "notice", "other", "<nil>"}

(* A text is one that may come of a store or an output, and the secret where*)
(* that can be told.                                                       *)
TextInv == \A r \in Refs :
    /\ material[r].text \in Told /\ material[r].clear \in BOOLEAN
    /\ material[r].whole > 0 =>
        /\ material[r].clear = TRUE => material[r].text = "secret"
        /\ kind \notin {"env", "vault", "exec"} => material[r].text # ""

-----------------------------------------------------------------------------
(* The buffers.                                                            *)

LEMMA PrintedTyped == Lengths \subseteq Nat /\ \A s \in Streams : Printed[s] \subseteq Lengths
BY PrintedAssumption DEF Lengths

(* The variables of a call, all but the phase, have no part in it.         *)
LEMMA BuffersStay ==
    ASSUME BufferInv, UNCHANGED <<prints, written, copied, captured, exceed>>,
           phase' # "running" \/ (phase' = phase /\ proc' = proc)
    PROVE  BufferInv'
BY DEF BufferInv

LEMMA BufferStep ==
    ASSUME BufferInv, Shapes, Runtime \/ Environment
    PROVE  BufferInv'
<1> USE DEF BufferInv, callVars, procVars, bufVars
<1>1. CASE ProcessWrites
  <2>1. PICK s \in Streams : written[s] < prints[s] /\ written' = [written EXCEPT ![s] = @ + 1]
    BY <1>1 DEF ProcessWrites
  <2>2. /\ proc = "alive" /\ proc' = proc /\ phase' = phase
        /\ UNCHANGED <<prints, copied, captured, exceed>>
    BY <1>1 DEF ProcessWrites
  <2>3. written' \in [Streams -> Nat] /\ \A t \in Streams : written'[t] \in {written[t], written[t] + 1}
    BY <2>1
  <2>4. \A t \in Streams : written'[t] <= prints[t] /\ copied[t] <= written'[t]
    BY <2>1, <2>3
  <2> QED
    BY <2>2, <2>3, <2>4
<1>2. CASE Copy
  <2>0. PICK s \in Streams : \E n \in 1 .. (written[s] - copied[s]) :
          /\ copied' = [copied EXCEPT ![s] = @ + Written(s, n)]
          /\ captured' = [captured EXCEPT ![s] = @ + Taken(s, n)]
          /\ exceed' = [exceed EXCEPT ![s] = Exceeds(s, n)]
    BY <1>2, Zenon DEF Copy
  <2>1. PICK n \in 1 .. (written[s] - copied[s]) :
          /\ copied' = [copied EXCEPT ![s] = @ + Written(s, n)]
          /\ captured' = [captured EXCEPT ![s] = @ + Taken(s, n)]
          /\ exceed' = [exceed EXCEPT ![s] = Exceeds(s, n)]
    BY <2>0, Zenon
  <2>2. UNCHANGED <<prints, written, phase, proc>>
    BY <1>2 DEF Copy
  <2>3. Limit \in Nat /\ written[s] \in Nat /\ copied[s] \in Nat /\ captured[s] \in Nat
        /\ n \in Nat /\ copied[s] + n <= written[s]
    BY <2>1, LimitsAssumption
  <2>4. copied' = [copied EXCEPT ![s] = copied[s] + n]
    BY <2>1 DEF Written
  <2>5. CASE exceed[s]
    <3>1. captured[s] = Limit /\ copied[s] > Limit
      BY <2>3, <2>5
    <3>2. captured' = captured
      BY <2>1, <2>3, <2>5, <3>1 DEF Taken
    <3>3. exceed' = [exceed EXCEPT ![s] = TRUE]
      BY <2>1, <2>5 DEF Exceeds
    <3>4. /\ copied' \in [Streams -> Nat] /\ exceed' \in [Streams -> BOOLEAN]
          /\ copied'[s] = copied[s] + n /\ exceed'[s]
          /\ \A t \in Streams \ {s} : copied'[t] = copied[t] /\ exceed'[t] = exceed[t]
      BY <2>3, <2>4, <3>3
    <3> QED
      BY <2>2, <2>3, <3>1, <3>2, <3>4
  <2>6. CASE ~exceed[s] /\ n > Limit - captured[s]
    <3>1. captured[s] = copied[s] /\ copied[s] <= Limit
      BY <2>3, <2>6
    <3>2. captured' = [captured EXCEPT ![s] = Limit]
      <4>1. Taken(s, n) = Limit - captured[s]
        BY <2>6 DEF Taken
      <4>2. captured[s] + Taken(s, n) = Limit
        BY <2>3, <4>1
      <4> QED
        BY <2>1, <4>2
    <3>3. exceed' = [exceed EXCEPT ![s] = TRUE]
      BY <2>1, <2>6 DEF Exceeds
    <3> QED
      BY <2>2, <2>3, <2>4, <2>6, <3>1, <3>2, <3>3, LimitsAssumption
  <2>7. CASE ~exceed[s] /\ ~(n > Limit - captured[s])
    <3>1. captured[s] = copied[s] /\ copied[s] + n <= Limit
      BY <2>3, <2>7
    <3>2. captured' = [captured EXCEPT ![s] = captured[s] + n]
      BY <2>1, <2>3, <2>7, <3>1 DEF Taken
    <3>3. exceed' = [exceed EXCEPT ![s] = FALSE]
      BY <2>1, <2>7 DEF Exceeds
    <3> QED
      BY <2>2, <2>3, <2>4, <3>1, <3>2, <3>3
  <2> QED
    BY <2>5, <2>6, <2>7
<1>3. CASE ProcessExits \/ ProcessCrashes \/ Kill
  BY <1>3 DEF ProcessExits, ProcessCrashes, Kill
<1>4. CASE HolderCloses \/ ContextEnds \/ DelayPasses
  BY <1>4, BuffersStay DEF HolderCloses, ContextEnds, DelayPasses
<1> QED
  BY <1>1, <1>2, <1>3, <1>4 DEF Runtime, Environment

-----------------------------------------------------------------------------
(* The inductive invariant, by the parts of a step.                        *)

LEMMA InitInv == Init => IInv
<1> SUFFICES ASSUME Init PROVE IInv
  OBVIOUS
<1>1. /\ kind \in Kinds /\ ref \in Refs /\ todo = (IF kind = "exec" THEN {ref} ELSE Refs)
      /\ attempt = 1 /\ phase = "next" /\ proc = "ok" /\ holder = FALSE
      /\ delay = FALSE /\ ctxOver = FALSE /\ outcome = "none" /\ overrun = FALSE
  BY DEF Init, InitOf
<1>2. /\ prints = None /\ written = None /\ copied = None /\ captured = None
      /\ exceed = [s \in Streams |-> FALSE]
      /\ material = [r \in Refs |-> Unread] /\ runs = [r \in Refs |-> 0]
  BY DEF Init, InitOf
<1>3. /\ stored \in [Refs -> Holdings] /\ shared \in BOOLEAN /\ (shared => kind = "vault")
      /\ rotated = FALSE /\ readNew = {}
  <2>1. CASE kind \in CliKinds
    BY <1>1, <2>1 DEF Init, CliKinds, Holdings
  <2>2. CASE kind \notin CliKinds
    BY <1>1, <2>2 DEF Init, Holdings
  <2> QED
    BY <2>1, <2>2
<1>4. Shapes
  <2>1. attempt \in 1 .. Most /\ todo \subseteq Refs
    BY <1>1 DEF Most
  <2> QED
    BY <1>1, <1>3, <2>1 DEF Shapes
<1>5. BufferInv
  <2>1. Limit \in Nat /\ \A s \in Streams : None[s] = 0 /\ ~exceed[s]
    BY <1>2, LimitsAssumption DEF None
  <2> QED
    BY <1>1, <1>2, <2>1 DEF BufferInv, None
<1>6. RunInv
  <2>1. runs \in [Refs -> Nat] /\ \A r \in Refs : runs[r] = 0
    BY <1>2
  <2>2. Most \in {1, 2}
    BY DEF Most
  <2> QED
    BY <1>1, <2>1, <2>2 DEF RunInv
<1>7. MaterialInv
  <2>1. \A r \in Refs : material[r] = Unread
    BY <1>2
  <2>2. \A r \in Refs : material[r].value = 0 /\ material[r].whole = 0
    <3>1. Unread.value = 0 /\ Unread.whole = 0
      BY DEF Unread
    <3> QED
      BY <2>1, <3>1
  <2>3. material = [r \in Refs |-> [value |-> material[r].value, whole |-> material[r].whole,
                                    text |-> material[r].text, clear |-> material[r].clear]]
    BY <1>2 DEF Unread
  <2>4. Wanted \ todo = {} /\ todo # {} /\ (kind = "exec" => todo \subseteq {ref})
    BY <1>1, RefsAssumption DEF Wanted
  <2>5. \A r \in Refs : material[r].value \in 0 .. Limit
    BY <2>2, LimitsAssumption
  <2> QED
    BY <1>1, <1>3, <2>2, <2>3, <2>4, <2>5 DEF MaterialInv
<1> QED
  BY <1>4, <1>5, <1>6, <1>7 DEF IInv

(* The program, the runtime and the context.                               *)
LEMMA OutsideStep ==
    ASSUME IInv, Runtime \/ Environment, UNCHANGED storeVars
    PROVE  IInv'
<1>1. UNCHANGED <<callVars, history>>
  BY DEF Runtime, Environment, Kill, Copy, DelayPasses, ProcessWrites, ProcessExits,
         ProcessCrashes, HolderCloses, ContextEnds
<1>2. Shapes'
  <2>1. UNCHANGED <<callVars, history, storeVars>>
        /\ proc' \in {"alive", "ok", "bad"} /\ holder' \in BOOLEAN /\ delay' \in BOOLEAN
        /\ ctxOver' \in BOOLEAN
    BY <1>1 DEF Runtime, Environment, Kill, Copy, DelayPasses, ProcessWrites, ProcessExits,
                ProcessCrashes, HolderCloses, ContextEnds, procVars, IInv, Shapes
  <2> QED
    BY <2>1 DEF callVars, history, storeVars, IInv, Shapes, Most
<1>3. RunInv' /\ MaterialInv'
  BY <1>1 DEF callVars, history, storeVars, IInv, RunInv, MaterialInv, Most, Wanted
<1> QED
  BY <1>2, <1>3, BufferStep DEF IInv

(* A program is started, or cannot be.                                     *)
LEMMA StartStep ==
    ASSUME IInv, Cli, StartRun \/ StartFails, UNCHANGED storeVars
    PROVE  IInv'
<1> USE DEF IInv, Cli
<1>1. CASE StartRun
  <2> USE <1>1 DEF StartRun
  <2>1. /\ phase = "next" /\ phase' = "running" /\ ref' \in todo
        /\ UNCHANGED <<kind, todo, attempt, material, outcome, overrun, storeVars>>
    BY DEF RunInv
  <2>2. Shapes'
    BY <2>1 DEF Shapes, storeVars, Most
  <2>3. BufferInv'
    <3>1. prints' \in [Streams -> Lengths]
      OBVIOUS
    <3>2. written' = None /\ copied' = None /\ captured' = None /\ proc' = "alive"
          /\ exceed' = [s \in Streams |-> FALSE]
      OBVIOUS
    <3>3. \A s \in Streams : written'[s] = 0 /\ copied'[s] = 0 /\ captured'[s] = 0 /\ ~exceed'[s]
      BY <3>2 DEF None
    <3>4. /\ None \in [Streams -> Nat] /\ exceed' \in [Streams -> BOOLEAN] /\ prints' \in [Streams -> Nat]
          /\ Limit \in Nat
      BY <3>1, <3>2, PrintedTyped, LimitsAssumption DEF None
    <3>5. \A s \in Streams : prints'[s] \in Lengths \cup {0} /\ 0 <= prints'[s]
      BY <3>1, <3>4
    <3> QED
      BY <3>2, <3>3, <3>4, <3>5 DEF BufferInv
  <2>4. RunInv'
    <3>1. runs' = [runs EXCEPT ![ref'] = runs[ref'] + 1]
      OBVIOUS
    <3>2. runs[ref'] \in Nat /\ runs[ref'] + 1 <= attempt /\ attempt <= Most
      BY <2>1 DEF RunInv, Shapes, Most
    <3>3. \A r \in todo : r # ref' => runs[r] = 0
      BY <2>1 DEF RunInv, Shapes, Most
    <3>4. /\ runs' \in [Refs -> Nat] /\ runs'[ref'] <= attempt /\ ref' \in Refs
          /\ \A r \in Refs \ {ref'} : runs'[r] = runs[r]
      BY <2>1, <3>1, <3>2 DEF RunInv, Shapes
    <3>5. Most' = Most /\ Most \in Nat /\ attempt \in Nat /\ attempt <= Most
      BY <2>1 DEF Most, Shapes
    <3> QED
      BY <2>1, <3>3, <3>4, <3>5 DEF RunInv, Shapes
  <2>5. MaterialInv'
    <3>1. Wanted' = Wanted /\ (kind = "exec" => ref' = ref)
      BY <2>1 DEF MaterialInv, Wanted
    <3> QED
      BY <2>1, <3>1 DEF MaterialInv, storeVars
  <2> QED
    BY <2>2, <2>3, <2>4, <2>5
<1>2. CASE StartFails
  <2> USE <1>2 DEF StartFails, procVars, bufVars, history, storeVars
  <2>1. BufferInv'
    BY BuffersStay
  <2>2. Shapes' /\ RunInv' /\ MaterialInv'
    <3>1. CASE phase' = "done" /\ outcome' = "error" /\ UNCHANGED <<ref, attempt>>
      BY <3>1 DEF Shapes, RunInv, MaterialInv, Most, Wanted
    <3>2. CASE kind = "keeper" /\ attempt = 1 /\ ref' \in todo /\ attempt' = 2
               /\ UNCHANGED <<phase, outcome>>
      BY <3>2 DEF Shapes, RunInv, MaterialInv, Most, Wanted
    <3> QED
      BY <3>1, <3>2
  <2> QED
    BY <2>1, <2>2
<1> QED
  BY <1>1, <1>2

(* A run that succeeds within the limit was captured whole.                *)
LEMMA ReadWhole ==
    ASSUME BufferInv, RunReturned, RunSucceeds, ~OverLimit
    PROVE  captured["stdout"] = prints["stdout"] /\ captured["stdout"] \in 0 .. Limit
<1>1. "stdout" \in Streams
  BY DEF Streams
<1>2. copied = written /\ written = prints /\ ~exceed["stdout"]
  BY <1>1 DEF BufferInv, RunReturned, RunSucceeds, Drained, OverLimit
<1> QED
  BY <1>1, <1>2, LimitsAssumption DEF BufferInv

(* A value joins the material.                                             *)
LEMMA ReadStep ==
    ASSUME IInv, Cli, ValueRead, UNCHANGED storeVars
    PROVE  IInv'
<1>1. /\ phase = "running" /\ phase' = "next" /\ attempt' = 1 /\ todo' = todo \ {ref}
      /\ UNCHANGED <<kind, ref, outcome, procVars, bufVars, delay, ctxOver, history, storeVars>>
  BY DEF ValueRead, RunReturned
<1>2. PICK reading \in Readings :
        material' = [material EXCEPT ![ref] =
                        [value |-> captured["stdout"], whole |-> prints["stdout"],
                         text |-> reading.text, clear |-> reading.clear]]
  BY DEF ValueRead
<1>3. captured["stdout"] = prints["stdout"] /\ captured["stdout"] \in 0 .. Limit
      /\ captured["stdout"] > 0
  BY ReadWhole DEF ValueRead, IInv
<1>4. ref \in Refs /\ ref \in todo /\ kind \in CliKinds /\ ref \in Wanted
  BY <1>1 DEF Cli, IInv, Shapes, RunInv, Wanted
<1>5. Shapes'
  BY <1>1 DEF IInv, Shapes, procVars, history, storeVars, Most
<1>6. BufferInv'
  BY <1>1, BuffersStay DEF IInv, procVars, bufVars
<1>7. RunInv'
  BY <1>1, <1>4 DEF IInv, Shapes, RunInv, history, Most
<1>8. MaterialInv'
  <2>1. /\ material'[ref] = [value |-> captured["stdout"], whole |-> prints["stdout"],
                             text |-> reading.text, clear |-> reading.clear]
        /\ \A r \in Refs \ {ref} : material'[r] = material[r]
        /\ material' = [r \in Refs |-> material'[r]]
    BY <1>2, <1>4 DEF IInv, MaterialInv
  <2>2. material'[ref].value = captured["stdout"] /\ material'[ref].whole = captured["stdout"]
    BY <1>3, <2>1
  <2>3. material' = [r \in Refs |-> [value |-> material'[r].value, whole |-> material'[r].whole,
                                     text |-> material'[r].text, clear |-> material'[r].clear]]
    <3>1. \A r \in Refs : material'[r] =
             [value |-> material'[r].value, whole |-> material'[r].whole,
              text |-> material'[r].text, clear |-> material'[r].clear]
      BY <2>1 DEF IInv, MaterialInv
    <3> QED
      BY <2>1, <3>1
  <2>4. Wanted' = Wanted /\ Wanted \subseteq Refs
    BY <1>1, <1>4 DEF Wanted
  <2>5. /\ kind # "vault" /\ kind # "env" /\ ~shared
        /\ UNCHANGED <<kind, ref, outcome, shared>> /\ outcome # "material"
    BY <1>1, <1>4 DEF IInv, MaterialInv, Shapes, CliKinds, storeVars
  <2>6. \A r \in Refs : material'[r].value \in 0 .. Limit /\ material'[r].value = material'[r].whole
    BY <1>3, <2>1, <2>2 DEF IInv, MaterialInv
  <2>7. \A r \in Wanted \ todo' : material'[r].whole > 0
    BY <1>1, <1>3, <2>1, <2>2, <2>4, <2>5 DEF IInv, MaterialInv
  <2> QED
    BY <1>1, <1>3, <1>4, <2>2, <2>3, <2>4, <2>5, <2>6, <2>7 DEF IInv, MaterialInv
<1> QED
  BY <1>5, <1>6, <1>7, <1>8 DEF IInv

(* A run that gives none, and the end of the call.                         *)
LEMMA EndStep ==
    ASSUME IInv, (Cli /\ RunFails) \/ Finish, UNCHANGED storeVars
    PROVE  IInv'
<1>1. CASE Cli /\ RunFails
  <2> USE <1>1 DEF RunFails, procVars, bufVars, storeVars
  <2>1. BufferInv'
    BY BuffersStay DEF IInv
  <2>2. phase = "running" /\ kind \in CliKinds
    BY DEF RunReturned, Cli
  <2>3. CASE phase' = "done" /\ outcome' = "error" /\ UNCHANGED attempt
    BY <2>1, <2>2, <2>3 DEF IInv, Shapes, RunInv, MaterialInv, Most, Wanted
  <2>4. CASE ~Final /\ phase' = "next" /\ attempt' = 2 /\ UNCHANGED outcome
    <3>1. kind = "keeper" /\ attempt = 1 /\ ~OverLimit
      BY <2>4 DEF Final, IInv, Shapes, Most
    <3>2. ~overrun /\ overrun' = (overrun \/ OverLimit)
      BY <2>2 DEF IInv, RunInv
    <3>3. ~overrun'
      BY <3>1, <3>2
    <3>4. Shapes'
      BY <2>2, <2>4, <3>1, <3>3 DEF IInv, Shapes, Most
    <3>5. RunInv'
      BY <2>2, <2>4, <3>1, <3>3 DEF IInv, Shapes, RunInv, Most
    <3>6. MaterialInv'
      BY <2>4 DEF IInv, MaterialInv, Wanted
    <3> QED
      BY <2>1, <3>4, <3>5, <3>6 DEF IInv
  <2> QED
    BY <2>3, <2>4
<1>2. CASE Finish
  <2> USE <1>2 DEF Finish, procVars, bufVars, storeVars, history
  <2>1. BufferInv'
    BY BuffersStay DEF IInv
  <2>2. Shapes' /\ RunInv' /\ MaterialInv'
    BY DEF IInv, Shapes, RunInv, MaterialInv, Most, Wanted
  <2> QED
    BY <2>1, <2>2 DEF IInv
<1> QED
  BY <1>1, <1>2

-----------------------------------------------------------------------------
(* The calls of an API.                                                    *)

(* What an API leaves alone.                                               *)
LEMMA ApiKept ==
    ASSUME IInv, NoProgram, kind \notin CliKinds, phase' # "running",
           overrun => phase' = "done"
    PROVE  /\ BufferInv' /\ attempt' = 1 /\ Wanted' = Refs /\ Wanted = Refs
           /\ todo' \subseteq Refs => RunInv'
<1> USE DEF NoProgram
<1>1. BufferInv'
  BY BuffersStay DEF IInv, procVars, bufVars
<1>2. attempt = 1 /\ attempt' = 1 /\ kind # "exec" /\ kind # "keeper"
  BY DEF IInv, Shapes, Most, CliKinds
<1>3. todo' \subseteq Refs => RunInv'
  BY <1>2 DEF IInv, RunInv, history, Most
<1> QED
  BY <1>1, <1>2, <1>3 DEF Wanted

(* The call fails, or asks and has no answer yet.                          *)
LEMMA NothingTaken ==
    ASSUME IInv, NoProgram, kind \notin CliKinds, phase \in {"next", "asking"},
           UNCHANGED <<todo, material, readNew>>, ref' \in Refs,
           Fail \/ (phase' = "asking" /\ UNCHANGED outcome)
    PROVE  IInv'
<1>1. /\ phase' \in {"done", "asking"} /\ ~overrun
      /\ outcome' # "none" <=> phase' = "done"
      /\ outcome' \in {"none", "error"}
  BY DEF Fail, IInv, RunInv, Shapes
<1>2. BufferInv' /\ attempt' = 1 /\ RunInv' /\ Wanted' = Refs /\ Wanted = Refs
  BY <1>1, ApiKept DEF IInv, Shapes
<1>3. Shapes'
  BY <1>1, <1>2 DEF NoProgram, procVars, history, IInv, Shapes, Most
<1>4. MaterialInv'
  BY <1>1, <1>2 DEF NoProgram, IInv, MaterialInv, CliKinds
<1> QED
  BY <1>2, <1>3, <1>4 DEF IInv

(* Values are taken, all that are to be had in this call for env and vault.*)
LEMMA TakeStep ==
    ASSUME IInv, NoProgram, kind \notin CliKinds, phase \in {"next", "asking"},
           phase' = "next", UNCHANGED <<ref, outcome>>,
           NEW taken \in SUBSET Refs, taken # {}, NEW kept \in SUBSET taken, kept # {},
           shared \/ kept = taken, kind \in {"env", "vault"} => taken = Refs,
           todo' = todo \ taken,
           \A r \in kept : material'[r] = Read(r),
           \A r \in taken \ kept : material'[r] = Unread,
           \A r \in Refs \ taken : material'[r] = material[r],
           material' = [r \in Refs |-> material'[r]],
           readNew' \in {{}, kept, readNew, readNew \cup kept}
    PROVE  IInv'
<1>1. ~overrun /\ outcome = "none"
  BY DEF IInv, RunInv, Shapes
<1>2. BufferInv' /\ attempt' = 1 /\ RunInv' /\ Wanted' = Refs /\ Wanted = Refs
  BY <1>1, ApiKept DEF IInv, Shapes
<1>3. Shapes'
  BY <1>1, <1>2 DEF NoProgram, procVars, history, IInv, Shapes, Most
<1>4. MaterialInv'
  <2>1. /\ \A r : Read(r).value = 1 /\ Read(r).whole = 1
        /\ Unread.value = 0 /\ Unread.whole = 0
    BY DEF Read, Unread
  <2>2. \A r \in Refs : material'[r] =
             [value |-> material'[r].value, whole |-> material'[r].whole,
              text |-> material'[r].text, clear |-> material'[r].clear]
    <3>1. \A r : Read(r) = [value |-> Read(r).value, whole |-> Read(r).whole,
                            text |-> Read(r).text, clear |-> Read(r).clear]
      BY DEF Read
    <3>2. Unread = [value |-> Unread.value, whole |-> Unread.whole,
                    text |-> Unread.text, clear |-> Unread.clear]
      BY DEF Unread
    <3>3. \A r \in Refs \ taken : material[r] =
             [value |-> material[r].value, whole |-> material[r].whole,
              text |-> material[r].text, clear |-> material[r].clear]
      BY DEF IInv, MaterialInv
    <3> QED
      BY <3>1, <3>2, <3>3
  <2>3. material' = [r \in Refs |-> [value |-> material'[r].value, whole |-> material'[r].whole,
                                     text |-> material'[r].text, clear |-> material'[r].clear]]
    BY <2>2
  <2>4. \A r \in Refs : material'[r].value \in 0 .. Limit /\ material'[r].value = material'[r].whole
    BY <2>1, LimitsAssumption DEF IInv, MaterialInv
  <2>5. \A r \in kept : material'[r].whole > 0
    BY <2>1
  <2>6. ~shared => \A r \in Refs \ todo' : material'[r].whole > 0
    BY <1>2, <2>5 DEF IInv, MaterialInv
  <2>7. \E r \in Refs : material'[r].whole > 0
    BY <2>5
  <2>8. kind \in {"env", "vault"} /\ ~shared => readNew' \in {{}, Refs}
    BY DEF IInv, MaterialInv
  <2>9. UNCHANGED <<kind, shared, outcome>> /\ kind # "exec"
    BY DEF NoProgram, CliKinds
  <2> QED
    BY <1>1, <1>2, <2>3, <2>4, <2>6, <2>7, <2>8, <2>9 DEF IInv, MaterialInv
<1> QED
  BY <1>2, <1>3, <1>4 DEF IInv

LEMMA ApiStep ==
    ASSUME IInv, Api \/ Answer
    PROVE  IInv'
<1>1. CASE VaultRefused \/ ClientRefused \/ NotationRefused \/ RequestFails \/ SdkFails \/ Ask
  <2>1. /\ NoProgram /\ kind \notin CliKinds /\ phase \in {"next", "asking"}
        /\ UNCHANGED <<todo, material, readNew>>
        /\ Fail \/ (phase' = "asking" /\ UNCHANGED outcome)
    BY <1>1 DEF VaultRefused, ClientRefused, NotationRefused, RequestFails, SdkFails, Ask,
                CliKinds, Ksm
  <2>2. ref' \in Refs
    BY <1>1 DEF VaultRefused, ClientRefused, NotationRefused, RequestFails, SdkFails, Ask,
                IInv, Shapes
  <2> QED
    BY <2>1, <2>2, NothingTaken
<1>2. CASE LookupEnv
  <2>1. NoProgram /\ kind = "env" /\ kind \notin CliKinds /\ phase = "next" /\ ref' = ref
    BY <1>2 DEF LookupEnv, CliKinds
  <2>2. CASE Fail /\ UNCHANGED <<todo, material, readNew>>
    BY <2>1, <2>2, NothingTaken DEF IInv, Shapes
  <2>3. CASE Take(Refs) /\ UNCHANGED <<phase, outcome>>
    <3>1. /\ \A r \in Refs : material'[r] = Read(r)
          /\ material' = [r \in Refs |-> material'[r]]
          /\ todo' = todo \ Refs /\ readNew' \in {readNew, readNew \cup Refs}
      BY <2>3 DEF Take
    <3> QED
      BY <2>1, <2>3, <3>1, TakeStep, RefsAssumption
  <2> QED
    BY <1>2, <2>2, <2>3 DEF LookupEnv
<1>3. CASE VaultAnswers
  <2>1. NoProgram /\ kind = "vault" /\ kind \notin CliKinds /\ phase = "asking" /\ ref' = ref
    BY <1>3 DEF VaultAnswers, CliKinds
  <2>2. CASE Fail /\ UNCHANGED <<todo, material, readNew>>
    BY <2>1, <2>2, NothingTaken DEF IInv, Shapes
  <2>3. CASE /\ todo' = {} /\ phase' = "next" /\ UNCHANGED outcome
             /\ \E kept \in (IF shared THEN {{r} : r \in Refs} ELSE {Refs}) :
                  /\ material' = [r \in Refs |-> IF r \in kept THEN Read(r) ELSE Unread]
                  /\ readNew' = IF rotated THEN kept ELSE {}
    <3>1. PICK kept \in (IF shared THEN {{r} : r \in Refs} ELSE {Refs}) :
                  /\ material' = [r \in Refs |-> IF r \in kept THEN Read(r) ELSE Unread]
                  /\ readNew' = IF rotated THEN kept ELSE {}
      BY <2>3
    <3>2. kept \in SUBSET Refs /\ kept # {} /\ (shared \/ kept = Refs)
      BY RefsAssumption
    <3>3. /\ \A r \in kept : material'[r] = Read(r)
          /\ \A r \in Refs \ kept : material'[r] = Unread
          /\ material' = [r \in Refs |-> material'[r]]
          /\ readNew' \in {{}, kept} /\ todo' = todo \ Refs
      BY <2>3, <3>1, <3>2 DEF IInv, Shapes
    <3> QED
      BY <2>1, <2>3, <3>2, <3>3, TakeStep, RefsAssumption
  <2> QED
    BY <1>3, <2>2, <2>3 DEF VaultAnswers
<1>4. CASE SdkAnswers
  <2>1. /\ NoProgram /\ kind \notin CliKinds /\ kind \notin {"env", "vault"}
        /\ phase = "asking" /\ ref' = ref /\ ref \in Refs
    BY <1>4 DEF SdkAnswers, CliKinds, Ksm, IInv, Shapes
  <2>2. CASE Fail /\ UNCHANGED <<todo, material, readNew>>
    BY <2>1, <2>2, NothingTaken
  <2>3. CASE Take({ref}) /\ phase' = "next" /\ UNCHANGED outcome
    <3>1. /\ \A r \in {ref} : material'[r] = Read(r)
          /\ \A r \in Refs \ {ref} : material'[r] = material[r]
          /\ material' = [r \in Refs |-> material'[r]]
          /\ todo' = todo \ {ref} /\ readNew' \in {readNew, readNew \cup {ref}}
      BY <2>1, <2>3 DEF Take
    <3> QED
      BY <2>1, <2>3, <3>1, TakeStep
  <2> QED
    BY <1>4, <2>2, <2>3 DEF SdkAnswers
<1> QED
  BY <1>1, <1>2, <1>3, <1>4 DEF Api, Answer

LEMMA RotateStep ==
    ASSUME IInv, UNCHANGED <<vars, stored, shared, readNew>>, rotated' \in BOOLEAN
    PROVE  IInv'
<1> USE DEF vars, callVars, procVars, bufVars, history
<1>1. Shapes'
  BY DEF IInv, Shapes, Most
<1>2. BufferInv'
  BY DEF IInv, BufferInv
<1>3. RunInv'
  BY DEF IInv, RunInv, Most
<1>4. MaterialInv'
  BY DEF IInv, MaterialInv, Wanted
<1> QED
  BY <1>1, <1>2, <1>3, <1>4 DEF IInv

LEMMA Inductive == Spec => []IInv
<1>1. IInv /\ Next => IInv'
  BY OutsideStep, StartStep, ReadStep, EndStep, ApiStep, RotateStep DEF Next, Cli, Rotate
<1>2. IInv /\ UNCHANGED allVars => IInv'
  BY RotateStep DEF allVars, storeVars, IInv, Shapes
<1> QED
  BY <1>1, <1>2, InitInv, PTL DEF Spec

-----------------------------------------------------------------------------
(* What follows from it.                                                   *)

(* THEOREM: a material has a value for every reference, and every value is *)
(* all there was: neither the limit, nor a killed or failed program, nor   *)
(* pipes that WaitDelay closed early make a part of a secret pass for it;  *)
(* the values of env and vault are all from before a rotation or all from  *)
(* after it.                                                               *)
THEOREM MaterialWhole == Spec => []MaterialComplete
<1>1. IInv => MaterialComplete
  <2> SUFFICES ASSUME IInv, outcome = "material"
               PROVE  /\ \A r \in Wanted : material[r].value = material[r].whole
                      /\ shared \/ \A r \in Wanted : material[r].whole > 0
                      /\ \E r \in Wanted : material[r].whole > 0
                      /\ kind \in {"env", "vault"} /\ ~shared => readNew \in {{}, Refs}
    BY DEF MaterialComplete
  <2>1. todo = {} /\ Wanted \subseteq Refs
    BY DEF IInv, MaterialInv, Shapes, Wanted
  <2> QED
    BY <2>1 DEF IInv, MaterialInv
<1> QED
  BY <1>1, Inductive, PTL

(* THEOREM: once a run has gone over the limit, the call starts no other   *)
(* program; after any other run without a password, keeper asks for the    *)
(* JSON before it gives up, unless the context is over.                    *)
THEOREM FallbackIsDecided == Spec => FallbackDecided
<1>1. IInv /\ [Next]_allVars => [overrun => runs' = runs]_allVars
  <2> SUFFICES ASSUME IInv, [Next]_allVars, overrun PROVE runs' = runs
    OBVIOUS
  <2>1. phase = "done"
    BY DEF IInv, RunInv
  <2>2. CASE (Cli \/ Finish \/ Runtime \/ Environment)
    BY <2>1, <2>2 DEF Cli, StartRun, StartFails, ValueRead, RunReturned, RunFails, Finish,
          Runtime, Kill, Copy, DelayPasses, Environment, ProcessWrites, ProcessExits,
          ProcessCrashes, HolderCloses, ContextEnds, history
  <2>3. CASE Api \/ Answer
    BY <2>3 DEF Api, LookupEnv, VaultRefused, ClientRefused, NotationRefused, Ask, Answer,
          VaultAnswers, RequestFails, SdkAnswers, SdkFails, NoProgram, history
  <2>4. CASE Rotate \/ UNCHANGED allVars
    BY <2>4 DEF Rotate, allVars, vars, history
  <2> QED
    BY <2>2, <2>3, <2>4 DEF Next
<1>2. IInv /\ [Next]_allVars =>
        [(kind = "keeper" /\ phase = "running" /\ phase' = "done") =>
            attempt = 2 \/ ctxOver \/ overrun']_allVars
  <2> SUFFICES ASSUME IInv, [Next]_allVars, kind = "keeper", phase = "running", phase' = "done"
               PROVE  attempt = 2 \/ ctxOver \/ overrun'
    OBVIOUS
  <2>1. RunFails
    <3>1. CASE (Cli \/ Finish \/ Runtime \/ Environment)
      BY <3>1 DEF Cli, StartRun, StartFails, ValueRead, Finish, Runtime, Kill, Copy, DelayPasses,
            Environment, ProcessWrites, ProcessExits, ProcessCrashes, HolderCloses, ContextEnds,
            callVars
    <3>2. CASE Api \/ Answer
      BY <3>2 DEF Api, LookupEnv, VaultRefused, ClientRefused, NotationRefused, Ask, Answer,
            VaultAnswers, RequestFails, SdkAnswers, SdkFails
    <3>3. CASE Rotate \/ UNCHANGED allVars
      BY <3>3 DEF Rotate, allVars, vars, callVars
    <3> QED
      BY <3>1, <3>2, <3>3 DEF Next
  <2> QED
    BY <2>1 DEF RunFails, Final
<1> QED
  BY <1>1, <1>2, Inductive, PTL DEF Spec, FallbackDecided

(* THEOREM: whatever the environment of pade, the programs of op and keeper*)
(* see no credential of another service, every program sees a PATH, and no *)
(* other variable is replaced.                                             *)
THEOREM Confined == ProgramsConfined
<1> SUFFICES ASSUME NEW k \in CliKinds, NEW ambient \in Ambients
             PROVE  LET env == Environ(k, ambient) IN
                      /\ env[Path] # ""
                      /\ \A v \in DOMAIN env : v = Path \/ env[v] = ambient[v]
                      /\ k # "exec" => \A v \in DOMAIN env :
                            v[1] \in {"VAULT_", "OP_", "KSM_", "KEEPER_", "GOOGLE_"} =>
                                v[1] = (IF k = "keeper" THEN "KEEPER_" ELSE "OP_")
  BY DEF ProgramsConfined
<1> DEFINE env == Environ(k, ambient)
           kept == {v \in DOMAIN ambient : Allowed(k, v) /\ ~(v = Path /\ ambient[v] = "")}
<1>1. /\ DOMAIN env = kept \cup {Path}
      /\ \A v \in DOMAIN env : env[v] = (IF v \in kept THEN ambient[v] ELSE "minimal")
  BY DEF Environ
<1>2. \A v \in DOMAIN env : v = Path \/ Allowed(k, v)
  BY <1>1
<1>3. \A v \in AllowExact \cup {Path} : v[1] = ""
  <2>1. ASSUME NEW v \in AllowExact PROVE v[1] = ""
    <3>1. PICK name : v = <<"", name>>
      BY <2>1 DEF AllowExact
    <3> QED
      BY <3>1
  <2>2. Path[1] = ""
    BY DEF Path
  <2> QED
    BY <2>1, <2>2
<1>4. \A v \in DOMAIN env : v[1] \in {"", "LC_", "XDG_"} \cup ExtraPrefix(k)
  BY <1>2, <1>3 DEF Allowed
<1>5. k # "exec" => ExtraPrefix(k) = {IF k = "keeper" THEN "KEEPER_" ELSE "OP_"}
  BY DEF ExtraPrefix, CliKinds
<1>6. env[Path] # ""
  BY <1>1
<1>7. \A v \in DOMAIN env : v = Path \/ env[v] = ambient[v]
  BY <1>1
<1>8. k # "exec" => \A v \in DOMAIN env :
         v[1] \in {"VAULT_", "OP_", "KSM_", "KEEPER_", "GOOGLE_"} =>
             v[1] = (IF k = "keeper" THEN "KEEPER_" ELSE "OP_")
  BY <1>4, <1>5
<1> QED
  BY <1>6, <1>7, <1>8

-----------------------------------------------------------------------------
(* The texts.                                                              *)

(* The least and the greatest of a set of places.                          *)
LEMMA MinIsLeast ==
  ASSUME NEW S \in SUBSET Nat, S # {}
  PROVE  Min(S) \in S /\ \A y \in S : Min(S) <= y
<1>1. PICK x \in S : \A y \in S : ~ (<<y, x>> \in OpToRel(<, Nat))
  <2>1. S \subseteq Nat
    OBVIOUS
  <2> QED
    BY <2>1, NatLessThanWellFounded, WFMin
<1>2. \A y \in S : ~ (y < x)
  BY <1>1 DEF OpToRel
<1>3. x \in S /\ \A y \in S : x <= y
  BY <1>2
<1> QED
  BY <1>3 DEF Min

LEMMA MaxIsGreatest ==
  ASSUME NEW n \in Nat, NEW S \in SUBSET (1 .. n), S # {}
  PROVE  Max(S) \in S /\ \A y \in S : y <= Max(S)
<1> DEFINE T == {n - y : y \in S}
<1>1. T \in SUBSET Nat /\ T # {}
  <2>1. \A y \in S : n - y \in Nat
    OBVIOUS
  <2>2. \A t \in T : t \in Nat
    BY <2>1
  <2> QED
    BY <2>2
<1>2. Min(T) \in T /\ \A t \in T : Min(T) <= t
  BY <1>1, MinIsLeast
<1>3. PICK x \in S : Min(T) = n - x
  BY <1>2
<1>4. \A y \in S : n - x <= n - y
  BY <1>2, <1>3
<1>5. x \in S /\ \A y \in S : x >= y
  BY <1>4
<1> QED
  BY <1>5 DEF Max

(* A screen: the last line that tells is the secret if chatter follows it. *)
LEMMA ScreenTells ==
  ASSUME NEW s \in Screens
  PROVE  /\ PasswordFromCLIOutput(s) \in Told
         /\ ClearScreen(s) => PasswordFromCLIOutput(s) = "secret"
<1> DEFINE T == Telling(s)
<1>1. s \in Seq(Lines) /\ Len(s) \in Nat /\ DOMAIN s = 1 .. Len(s)
  BY ScreensAssumption
<1>2. \A i \in DOMAIN s : s[i] \in Lines
  BY <1>1
<1>3. T \in SUBSET (1 .. Len(s))
  BY <1>1 DEF Telling
<1>4. ASSUME T # {} PROVE Max(T) \in T /\ \A y \in T : y <= Max(T)
  BY <1>1, <1>3, <1>4, MaxIsGreatest
<1>5. PasswordFromCLIOutput(s) \in Told
  <2>1. CASE T = {}
    BY <2>1 DEF PasswordFromCLIOutput, Told
  <2>2. CASE T # {}
    <3>1. s[Max(T)] \in Lines \ (Chatter \cup {""})
      BY <1>2, <1>4, <2>2 DEF Telling
    <3> QED
      BY <2>2, <3>1 DEF PasswordFromCLIOutput, Told, Lines
  <2> QED
    BY <2>1, <2>2
<1>6. ASSUME ClearScreen(s) PROVE PasswordFromCLIOutput(s) = "secret"
  <2>1. PICK i \in DOMAIN s :
          /\ s[i] = "secret"
          /\ \A j \in DOMAIN s : j > i => s[j] \in Chatter \cup {""}
    BY <1>6 DEF ClearScreen
  <2>2. i \in T
    BY <2>1 DEF Telling, Chatter
  <2>3. \A j \in T : j <= i
    <3> SUFFICES ASSUME NEW j \in DOMAIN s, j \in T, j > i PROVE FALSE
      BY <1>1, <1>3
    <3>1. s[j] \notin Chatter \cup {""}
      BY DEF Telling
    <3> QED
      BY <2>1, <3>1
  <2>4. Max(T) = i
    BY <1>1, <1>3, <1>4, <2>2, <2>3
  <2> QED
    BY <2>1, <2>2, <2>4 DEF PasswordFromCLIOutput
<1> QED
  BY <1>5, <1>6

(* Of some texts the first that is not blank.                              *)
LEMMA FirstIsFound ==
  ASSUME NEW n \in Nat, NEW texts \in [1 .. n -> Values]
  PROVE  /\ FirstNonEmpty(texts) \in Values
         /\ 1 \in 1 .. n /\ texts[1] # "" => FirstNonEmpty(texts) = texts[1]
         /\ 2 \in 1 .. n /\ texts[1] = "" /\ texts[2] # "" => FirstNonEmpty(texts) = texts[2]
<1> DEFINE found == {i \in DOMAIN texts : texts[i] # ""}
<1>1. DOMAIN texts = 1 .. n /\ 1 .. n \subseteq Nat \ {0}
  OBVIOUS
<1>2. \A i : i \in found <=> i \in 1 .. n /\ texts[i] # ""
  BY <1>1, Zenon
<1>3. FirstNonEmpty(texts) = IF found = {} THEN "" ELSE texts[Min(found)]
  BY Zenon DEF FirstNonEmpty
<1> HIDE DEF found
<1>4. found \in SUBSET (Nat \ {0}) /\ found \in SUBSET Nat
  BY <1>1, <1>2, Zenon
<1>5. ASSUME NEW i \in found
      PROVE  Min(found) \in found /\ Min(found) <= i
  BY <1>4, MinIsLeast, Zenon
<1>6. FirstNonEmpty(texts) \in Values
  <2>1. CASE found = {}
    BY <1>3, <2>1 DEF Values
  <2>2. CASE found # {}
    BY <1>2, <1>3, <1>5, <2>2, Zenon
  <2> QED
    BY <2>1, <2>2
<1>7. ASSUME 1 \in found PROVE Min(found) = 1
  <2>1. Min(found) \in Nat \ {0} /\ Min(found) <= 1
    BY <1>4, <1>5, <1>7, Zenon
  <2> QED
    BY <2>1
<1>8. ASSUME 2 \in found, 1 \notin found PROVE Min(found) = 2
  <2>1. /\ Min(found) \in found /\ Min(found) <= 2
        /\ Min(found) \in Nat \ {0}
    BY <1>4, <1>5, <1>8, Zenon
  <2>2. Min(found) # 1
    BY <1>8, <2>1, Zenon
  <2> QED
    BY <2>1, <2>2
<1>9. ASSUME 1 \in 1 .. n, texts[1] # "" PROVE FirstNonEmpty(texts) = texts[1]
  BY <1>2, <1>3, <1>7, <1>9, Zenon
<1>10. ASSUME 2 \in 1 .. n, texts[1] = "", texts[2] # "" PROVE FirstNonEmpty(texts) = texts[2]
  BY <1>2, <1>3, <1>8, <1>10, Zenon
<1> QED
  BY <1>6, <1>9, <1>10

(* The text of a field is one of a record.                                 *)
LEMMA FieldTyped ==
  ASSUME NEW d \in Documents, NEW want, NEW wanted
  PROVE  FirstFieldValue(d, want, wanted) \in Values
<1> DEFINE found == {i \in DOMAIN d.fields :
                       d.fields[i][want] = wanted /\ d.fields[i].value # ""}
           Fields == [type : STRING, label : STRING, value : Values]
<1>1. d.fields \in Seq(Fields)
  BY DocumentsAssumption
<1>2. ASSUME NEW fields \in Seq(Fields)
      PROVE  DOMAIN fields \in SUBSET Nat /\ \A i \in DOMAIN fields : fields[i].value \in Values
  <2>1. DOMAIN fields = 1 .. Len(fields) /\ \A i \in DOMAIN fields : fields[i] \in Fields
    <3> HIDE DEF Fields
    <3> QED
      OBVIOUS
  <2>2. \A f \in Fields : f.value \in Values
    OBVIOUS
  <2>3. 1 .. Len(fields) \subseteq Nat
    OBVIOUS
  <2> QED
    BY <2>1, <2>2, <2>3, Zenon
<1>3. found \in SUBSET DOMAIN d.fields
  BY Zenon
<1>4. FirstFieldValue(d, want, wanted) = IF found = {} THEN "" ELSE d.fields[Min(found)].value
  BY Zenon DEF FirstFieldValue
<1> HIDE DEF found, Fields
<1>5. found \in SUBSET Nat /\ \A i \in found : d.fields[i].value \in Values
  BY <1>1, <1>2, <1>3, Zenon
<1>6. found # {} => Min(found) \in found
  BY <1>5, MinIsLeast, Zenon
<1>7. "" \in Values
  BY DEF Values
<1> QED
  BY <1>4, <1>5, <1>6, <1>7, Zenon

(* A record: the password at the top or in the first field of its type is  *)
(* found before any other text.                                            *)
LEMMA DocumentTells ==
  ASSUME NEW d \in Documents
  PROVE  /\ SecretFromKeeperJSON(d) \in Told
         /\ ClearDocument(d) => SecretFromKeeperJSON(d) = "secret"
<1> DEFINE texts == <<d.password, FirstNonEmpty(ByType(d)), FirstNonEmpty(ByLabel(d))>>
<1>1. d.password \in Values
  BY DocumentsAssumption
<1>2. /\ ByType(d) \in [1 .. 3 -> Values]
      /\ ByType(d)[1] = FirstFieldValue(d, "type", "password")
  <2>1. ByType(d) = [i \in 1 .. 3 |-> FirstFieldValue(d, "type", PreferTypes[i])]
    BY DEF ByType, PreferTypes
  <2>2. PreferTypes[1] = "password" /\ 1 \in 1 .. 3
    BY DEF PreferTypes
  <2>3. \A i \in 1 .. 3 : FirstFieldValue(d, "type", PreferTypes[i]) \in Values
    BY FieldTyped, Zenon
  <2>4. ByType(d)[1] = FirstFieldValue(d, "type", PreferTypes[1])
    BY <2>1, <2>2, Zenon
  <2>5. ByType(d) \in [1 .. 3 -> Values]
    BY <2>1, <2>3, Zenon
  <2> QED
    BY <2>2, <2>4, <2>5
<1>3. ByLabel(d) \in [1 .. 7 -> Values]
  <2>1. ByLabel(d) = [i \in 1 .. 7 |-> FirstFieldValue(d, "label", PreferLabels[i])]
    BY DEF ByLabel, PreferLabels
  <2> QED
    BY <2>1, FieldTyped, Zenon
<1>4. FirstNonEmpty(ByType(d)) \in Values /\ FirstNonEmpty(ByLabel(d)) \in Values
  <2>1. 3 \in Nat /\ 7 \in Nat
    OBVIOUS
  <2> QED
    BY <1>2, <1>3, <2>1, FirstIsFound, Zenon
<1>5. ByType(d)[1] = "secret" => FirstNonEmpty(ByType(d)) = "secret"
  <2>1. 3 \in Nat /\ 1 \in 1 .. 3 /\ "secret" # ""
    OBVIOUS
  <2> QED
    BY <1>2, <2>1, FirstIsFound, Zenon
<1>6. /\ texts \in [1 .. 3 -> Values]
      /\ texts[1] = d.password /\ texts[2] = FirstNonEmpty(ByType(d))
  BY <1>1, <1>4
<1>7. SecretFromKeeperJSON(d) = FirstNonEmpty(texts)
  BY DEF SecretFromKeeperJSON
<1> HIDE DEF texts
<1>8. /\ FirstNonEmpty(texts) \in Values
      /\ texts[1] # "" => FirstNonEmpty(texts) = texts[1]
      /\ texts[1] = "" /\ texts[2] # "" => FirstNonEmpty(texts) = texts[2]
  <2>1. 3 \in Nat /\ 1 \in 1 .. 3 /\ 2 \in 1 .. 3
    OBVIOUS
  <2> QED
    BY <1>6, <2>1, FirstIsFound, Zenon
<1>9. SecretFromKeeperJSON(d) \in Told
  BY <1>7, <1>8 DEF Told, Values
<1>10. "secret" # ""
  OBVIOUS
<1> QED
  BY <1>2, <1>5, <1>6, <1>7, <1>8, <1>9, <1>10, Zenon DEF ClearDocument

(* What is read of an output.                                              *)
LEMMA ReadingTells ==
    ASSUME NEW reading \in Readings
    PROVE  /\ reading.text \in Told /\ reading.clear \in BOOLEAN
           /\ reading.clear = TRUE => reading.text = "secret"
<1>1. CASE reading = Secret
  BY <1>1 DEF Secret, Told
<1>2. CASE reading = Nothing
  BY <1>2 DEF Nothing, Told
<1>3. ASSUME NEW s \in Screens,
             reading = [text |-> PasswordFromCLIOutput(s), clear |-> ClearScreen(s)]
      PROVE  /\ reading.text \in Told /\ reading.clear \in BOOLEAN
             /\ reading.clear = TRUE => reading.text = "secret"
  <2>1. ClearScreen(s) \in BOOLEAN
    BY DEF ClearScreen
  <2> QED
    BY <1>3, <2>1, ScreenTells
<1>4. ASSUME NEW d \in Documents,
             reading = [text |-> SecretFromKeeperJSON(d), clear |-> ClearDocument(d)]
      PROVE  /\ reading.text \in Told /\ reading.clear \in BOOLEAN
             /\ reading.clear = TRUE => reading.text = "secret"
  <2>1. ClearDocument(d) \in BOOLEAN
    BY DEF ClearDocument
  <2> QED
    BY <1>4, <2>1, DocumentTells
<1>5. \/ reading \in {Secret, Nothing}
      \/ \E s \in Screens :
             reading = [text |-> PasswordFromCLIOutput(s), clear |-> ClearScreen(s)]
      \/ \E d \in Documents :
             reading = [text |-> SecretFromKeeperJSON(d), clear |-> ClearDocument(d)]
  BY DEF Readings
<1> QED
  BY <1>1, <1>2, <1>3, <1>4, <1>5

(* What is read of a store.                                                *)
LEMMA StoreTells ==
    ASSUME Shapes, NEW r \in Refs, stored[r] # "absent"
    PROVE  /\ Read(r).text \in Told /\ Read(r).clear \in BOOLEAN
           /\ Read(r).clear = TRUE => Read(r).text = "secret"
           /\ stored[r] # "" => Read(r).text # ""
<1>1. stored[r] \in {"secret", "", "number", "null"}
  BY DEF Shapes, Holdings
<1>2. Read(r).text = Sprint(stored[r]) /\ Read(r).clear = (stored[r] = "secret")
  BY DEF Read
<1>3. /\ Sprint(stored[r]) \in Told
      /\ stored[r] = "secret" => Sprint(stored[r]) = "secret"
      /\ stored[r] # "" => Sprint(stored[r]) # ""
  BY <1>1 DEF Sprint, Told
<1> QED
  BY <1>2, <1>3

LEMMA TextStep ==
    ASSUME IInv, TextInv, [Next]_allVars
    PROVE  TextInv'
<1>1. ASSUME UNCHANGED <<kind, material>> PROVE TextInv'
  BY <1>1 DEF TextInv
<1>2. CASE Cli /\ ValueRead
  <2>1. PICK reading \in Readings :
          /\ kind = "exec" \/ reading.text # ""
          /\ material' = [material EXCEPT ![ref] =
                             [value |-> captured["stdout"], whole |-> prints["stdout"],
                              text |-> reading.text, clear |-> reading.clear]]
    BY <1>2 DEF ValueRead
  <2>2. ref \in Refs /\ kind' = kind
    BY <1>2 DEF ValueRead, IInv, Shapes
  <2>3. material'[ref].text = reading.text /\ material'[ref].clear = reading.clear
    BY <2>1, <2>2 DEF IInv, MaterialInv
  <2>4. \A r \in Refs \ {ref} : material'[r] = material[r]
    BY <2>1 DEF IInv, MaterialInv
  <2> QED
    BY <2>1, <2>2, <2>3, <2>4, ReadingTells DEF TextInv
<1>3. ASSUME NEW rs \in SUBSET Refs, kind' = kind,
             \A r \in rs : stored[r] # "absent" /\ (kind \notin {"env", "vault", "exec"} => stored[r] # ""),
             \A r \in Refs : \/ r \in rs /\ material'[r] = Read(r)
                             \/ material'[r] \in {material[r], Unread}
      PROVE  TextInv'
  <2> SUFFICES ASSUME NEW r \in Refs
               PROVE  /\ material'[r].text \in Told /\ material'[r].clear \in BOOLEAN
                      /\ material'[r].whole > 0 =>
                          /\ material'[r].clear = TRUE => material'[r].text = "secret"
                          /\ kind \notin {"env", "vault", "exec"} => material'[r].text # ""
    BY <1>3 DEF TextInv
  <2>1. CASE r \in rs /\ material'[r] = Read(r)
    BY <1>3, <2>1, StoreTells DEF IInv
  <2>2. CASE material'[r] = material[r]
    BY <2>2 DEF TextInv
  <2>3. CASE material'[r] = Unread
    <3>0. Unread.whole = 0
      BY DEF Unread
    <3>1. Unread.text = "" /\ Unread.clear = FALSE
      BY DEF Unread
    <3>2. material'[r].text \in Told /\ material'[r].clear \in BOOLEAN
      BY <2>3, <3>1 DEF Told
    <3>3. ~(material'[r].whole > 0)
      BY <2>3, <3>0
    <3> QED
      BY <3>2, <3>3
  <2> QED
    BY <1>3, <2>1, <2>2, <2>3
<1>4. CASE LookupEnv \/ VaultAnswers \/ SdkAnswers
  <2>1. kind' = kind
    BY <1>4 DEF LookupEnv, VaultAnswers, SdkAnswers, NoProgram
  <2>2. CASE UNCHANGED material
    BY <1>1, <2>1, <2>2
  <2>3. ASSUME NEW rs \in SUBSET Refs, Take(rs),
               \A r \in rs : stored[r] # "absent" /\ (kind \notin {"env", "vault", "exec"} => stored[r] # "")
        PROVE  TextInv'
    BY <1>3, <2>1, <2>3 DEF Take
  <2>4. CASE LookupEnv
    BY <2>2, <2>3, <2>4 DEF LookupEnv, Fail
  <2>5. CASE SdkAnswers
    BY <2>2, <2>3, <2>5 DEF SdkAnswers, Fail, IInv, Shapes
  <2>6. CASE VaultAnswers /\ ~UNCHANGED material
    <3>1. PICK kept \in SUBSET Refs :
             material' = [r \in Refs |-> IF r \in kept THEN Read(r) ELSE Unread]
      BY <2>6 DEF VaultAnswers
    <3>2. kind = "vault" /\ \A r \in Refs : stored[r] # "absent"
      BY <2>6 DEF VaultAnswers
    <3>3. \A r \in Refs : \/ r \in kept /\ material'[r] = Read(r)
                          \/ material'[r] \in {material[r], Unread}
      BY <3>1
    <3> QED
      BY <1>3, <2>1, <3>2, <3>3
  <2> QED
    BY <1>4, <2>2, <2>4, <2>5, <2>6
<1>5. CASE (Cli /\ (StartRun \/ StartFails \/ RunFails)) \/ Finish \/ Runtime \/ Environment
  BY <1>1, <1>5 DEF StartRun, StartFails, RunFails, Finish, Runtime, Kill, Copy, DelayPasses,
        Environment, ProcessWrites, ProcessExits, ProcessCrashes, HolderCloses, ContextEnds, callVars
<1>6. CASE VaultRefused \/ ClientRefused \/ NotationRefused \/ Ask \/ RequestFails \/ SdkFails
  BY <1>1, <1>6 DEF VaultRefused, ClientRefused, NotationRefused, Ask, RequestFails, SdkFails, NoProgram
<1>7. CASE Rotate \/ UNCHANGED allVars
  BY <1>1, <1>7 DEF Rotate, allVars, vars, callVars
<1> QED
  BY <1>2, <1>4, <1>5, <1>6, <1>7 DEF Next, Cli, Api, Answer

\* What is told is a text, and not known chatter.
LEMMA ToldTyped == Told \subseteq Texts /\ Told \cap Chatter = {}
BY DEF Told, Texts, Lines, Values, Chatter

(* The type invariant is what IInv and TextInv say together.               *)
LEMMA Typed == IInv /\ TextInv => TypeOK
<1> SUFFICES ASSUME IInv, TextInv PROVE TypeOK
  OBVIOUS
<1>1. material \in [Refs -> [value : 0 .. Limit, whole : Nat, text : Texts, clear : BOOLEAN]]
  <2>0. \A r \in Refs : material[r].value \in 0 .. Limit /\ material[r].whole \in Nat
    BY LimitsAssumption DEF IInv, MaterialInv
  <2>1. \A r \in Refs : /\ material[r].value \in 0 .. Limit /\ material[r].whole \in Nat
                        /\ material[r].text \in Texts /\ material[r].clear \in BOOLEAN
    BY <2>0, ToldTyped DEF TextInv
  <2>2. \A r \in Refs : material[r] \in [value : 0 .. Limit, whole : Nat, text : Texts, clear : BOOLEAN]
    BY <2>1 DEF IInv, MaterialInv
  <2> QED
    BY <2>2 DEF IInv, MaterialInv
<1>2. \A s \in Streams :
          /\ written[s] \in 0 .. prints[s]
          /\ copied[s] \in 0 .. written[s]
          /\ captured[s] \in 0 .. Limit /\ captured[s] <= copied[s]
  BY LimitsAssumption DEF IInv, BufferInv
<1>3. \A s \in Streams : exceed[s] = (copied[s] > Limit)
  BY DEF IInv, BufferInv
<1>4. prints \in [Streams -> Lengths \cup {0}]
  BY DEF IInv, BufferInv
<1>5. \A r \in Refs : runs[r] <= (IF kind = "keeper" THEN 2 ELSE 1)
  BY DEF IInv, RunInv, Most
<1>6. (outcome # "none") = (phase = "done")
  BY DEF IInv, Shapes
<1> QED
  BY <1>1, <1>2, <1>3, <1>4, <1>5, <1>6 DEF IInv, Shapes, Most, TypeOK

(* THEOREM: a value of any provider is what its store or the output of its *)
(* program has under the reference, whenever that can be told, and nothing *)
(* only where env, vault or the answer of an exec program has it so; and   *)
(* programs see what they are meant to.                                    *)
THEOREM Invariance == Spec => []Inv
<1>1. Init => TextInv
  <2> SUFFICES ASSUME Init, NEW r \in Refs
               PROVE  /\ material[r].text \in Told /\ material[r].clear \in BOOLEAN
                      /\ ~(material[r].whole > 0)
    BY DEF TextInv
  <2>1. material[r] = Unread
    BY DEF Init, InitOf
  <2>0. Unread.whole = 0
    BY DEF Unread
  <2>2. Unread.text = "" /\ Unread.clear = FALSE
    BY DEF Unread
  <2>3. material[r].text \in Told /\ material[r].clear \in BOOLEAN
    BY <2>1, <2>2 DEF Told
  <2>4. ~(material[r].whole > 0)
    BY <2>0, <2>1
  <2> QED
    BY <2>3, <2>4
<1>2. IInv /\ TextInv /\ [Next]_allVars => TextInv'
  BY TextStep
<1>3. IInv /\ TextInv => Inv
  BY Typed, ToldTyped, Confined DEF Inv, SecretsRead, TextInv
<1> QED
  BY <1>1, <1>2, <1>3, Inductive, PTL DEF Spec

=============================================================================
