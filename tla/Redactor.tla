------------------------------ MODULE Redactor ------------------------------
(***************************************************************************)
(* The streaming redactor of a child's stdout or stderr                    *)
(* (internal/execution/redact.go): what the child writes, in pieces of any *)
(* size, comes out with each secret replaced by a placeholder, holding     *)
(* back only as much as may turn out to begin a secret.                    *)
(*                                                                         *)
(* The bytes a placeholder stands for are kept in the output and marked    *)
(* hidden, so that the output can be compared with the input; the          *)
(* placeholder's own text is nobody's secret.  One goroutine writes to a   *)
(* redactor, and Close comes when that has ended: its calls are in order.  *)
(***************************************************************************)
EXTENDS Naturals, Sequences, FiniteSets

CONSTANTS
    Bytes,
    Continuation,  \* bytes that do not start a UTF-8 rune
    SecretSets,    \* the secrets a redactor may be made for
    Chunks,        \* what the child may write at once
    MaxInput       \* bound: the length of what the child writes

Emitted == [byte : Bytes, hidden : BOOLEAN]

ASSUME BytesAssumption == Continuation \subseteq Bytes
ASSUME SecretsAssumption == \A S \in SecretSets :
    IsFiniteSet(S) /\ S \subseteq Seq(Bytes) \ {<<>>}
ASSUME ChunksAssumption == Chunks \subseteq Seq(Bytes) /\ MaxInput \in Nat

VARIABLES
    secrets,  \* the unique, non-empty secrets
    pending,  \* bytes received and not yet passed on
    output,   \* what the destination has received
    failed,   \* writeErr # nil: the destination has refused a write
    phase,    \* "idle", "flush" (of a Write), "final" (of Close), "closed"
    input     \* history: what was accepted by Write

vars == <<secrets, pending, output, failed, phase, input>>

-----------------------------------------------------------------------------
(* maxLen, of secrets that are not empty.                                  *)
Longest == Len(CHOOSE s \in secrets : \A t \in secrets : Len(t) <= Len(s))

Occurs(s, text, i) ==
    i + Len(s) - 1 <= Len(text) /\ SubSeq(text, i, i + Len(s) - 1) = s

Occurrences(text) ==
    {o \in (1 .. Len(text)) \X secrets : Occurs(o[2], text, o[1])}

(* A mutant of FirstSecret: the longest secret, wherever it is.            *)
LongestSecret(text) == CHOOSE o \in Occurrences(text) :
    \A p \in Occurrences(text) : Len(p[2]) <= Len(o[2])

(* findSecret: the earliest secret, and the longest of those there.        *)
FirstSecret(text) == CHOOSE o \in Occurrences(text) :
    \A p \in Occurrences(text) :
        o[1] < p[1] \/ (o[1] = p[1] /\ Len(p[2]) <= Len(o[2]))

(* A mutant of Withheld: one byte too few.                                 *)
WithheldShort(text) ==
    IF Len(text) < Longest - 1 THEN Len(text)
    ELSE IF Longest >= 2 THEN Longest - 2 ELSE 0

(* A mutant of Withheld: one byte too many.                                *)
WithheldLong(text) == IF Len(text) < Longest THEN Len(text) ELSE Longest

(* A mutant of EmitEnd: a rune may be cut.                                 *)
EmitEndBytes(text) == Len(text) - (IF Len(text) < Longest - 1 THEN Len(text) ELSE Longest - 1)

(* The length of a suffix that might begin a secret.                       *)
Withheld(text) == IF Len(text) < Longest - 1 THEN Len(text) ELSE Longest - 1

(* How much of a text without secrets is passed on: up to what is          *)
(* withheld, and back to the start of a rune.                              *)
EmitEnd(text) ==
    LET end == Len(text) - Withheld(text)
        Boundary(i) == i = 0 \/ i = Len(text) \/ text[i + 1] \notin Continuation
    IN CHOOSE i \in 0 .. end :
        Boundary(i) /\ \A j \in i + 1 .. end : ~Boundary(j)

Prefix(text, n) == SubSeq(text, 1, n)
Suffix(text, n) == SubSeq(text, n + 1, Len(text))
Plain(text) == [i \in 1 .. Len(text) |-> [byte |-> text[i], hidden |-> FALSE]]
Hidden(text) == [i \in 1 .. Len(text) |-> [byte |-> text[i], hidden |-> TRUE]]

-----------------------------------------------------------------------------
Init ==
    /\ secrets \in SecretSets
    /\ pending = <<>> /\ output = <<>> /\ input = <<>>
    /\ failed = FALSE
    /\ phase = "idle"

(* A mutant of DestinationFails: the error is not remembered.              *)
DestinationFailsForgotten(text) ==
    /\ \E n \in 0 .. Len(text) : output' = output \o Plain(Prefix(text, n))
    /\ failed' = FALSE
    /\ phase' = IF phase = "final" THEN "closed" ELSE "idle"

(* The destination takes only part of a text, and the call returns.        *)
DestinationFails(text) ==
    /\ \E n \in 0 .. Len(text) : output' = output \o Plain(Prefix(text, n))
    /\ failed' = TRUE
    /\ phase' = IF phase = "final" THEN "closed" ELSE "idle"

(* Write appends to what is pending, before flush(false); with no secrets  *)
(* it passes everything on.  After a failure it does nothing.              *)
Write(chunk) ==
    /\ phase = "idle" /\ ~failed
    /\ Len(input) + Len(chunk) <= MaxInput
    /\ input' = input \o chunk
    /\ \/ /\ secrets # {}
          /\ pending' = pending \o chunk
          /\ phase' = "flush"
          /\ UNCHANGED <<output, failed>>
       \/ /\ secrets = {}
          /\ \/ output' = output \o Plain(chunk) /\ UNCHANGED <<failed, phase>>
             \/ DestinationFails(chunk)
          /\ UNCHANGED pending
    /\ UNCHANGED secrets

(* Close, before flush(true).                                              *)
Close ==
    /\ phase = "idle"
    /\ phase' = IF failed THEN "closed" ELSE "final"
    /\ UNCHANGED <<secrets, pending, output, failed, input>>

(* A mutant of Replace: the placeholder replaces as much as the longest    *)
(* secret has.                                                             *)
ReplaceLongest ==
    /\ phase \in {"flush", "final"}
    /\ Occurrences(pending) # {}
    /\ LET first == FirstSecret(pending)
           before == Prefix(pending, first[1] - 1)
           length == IF first[1] - 1 + Longest > Len(pending)
                     THEN Len(pending) - (first[1] - 1) ELSE Longest
       IN \/ /\ output' = output \o Plain(before)
                  \o Hidden(Prefix(Suffix(pending, first[1] - 1), length))
             /\ pending' = Suffix(pending, first[1] - 1 + length)
             /\ UNCHANGED <<failed, phase>>
          \/ DestinationFails(before) /\ UNCHANGED pending
    /\ UNCHANGED <<secrets, input>>

(* An iteration of the loop of flush: the text before the first secret is  *)
(* passed on, then the placeholder.                                        *)
Replace ==
    /\ phase \in {"flush", "final"}
    /\ Occurrences(pending) # {}
    /\ LET first == FirstSecret(pending)
           before == Prefix(pending, first[1] - 1)
       IN \/ /\ output' = output \o Plain(before) \o Hidden(first[2])
             /\ pending' = Suffix(pending, first[1] - 1 + Len(first[2]))
             /\ UNCHANGED <<failed, phase>>
          \/ DestinationFails(before) /\ UNCHANGED pending
    /\ UNCHANGED <<secrets, input>>

(* The end of flush: no secret is left in what is pending; Close passes    *)
(* all of it on, a Write what cannot begin a secret.                       *)
EmitRest ==
    /\ phase \in {"flush", "final"}
    /\ Occurrences(pending) = {}
    /\ LET n == IF phase = "final" THEN Len(pending) ELSE EmitEnd(pending) IN
        \/ /\ output' = output \o Plain(Prefix(pending, n))
           /\ pending' = Suffix(pending, n)
           /\ phase' = IF phase = "final" THEN "closed" ELSE "idle"
           /\ UNCHANGED failed
        \/ n > 0 /\ DestinationFails(Prefix(pending, n)) /\ UNCHANGED pending
    /\ UNCHANGED <<secrets, input>>

Next == (\E chunk \in Chunks : Write(chunk)) \/ Close \/ Replace \/ EmitRest

Spec == Init /\ [][Next]_vars

-----------------------------------------------------------------------------
(* Every variable holds a value of its kind.                               *)
TypeOK ==
    /\ secrets \in SecretSets
    /\ pending \in Seq(Bytes) /\ input \in Seq(Bytes)
    /\ output \in Seq(Emitted)
    /\ failed \in BOOLEAN
    /\ phase \in {"idle", "flush", "final", "closed"}

EmittedBytes == [i \in 1 .. Len(output) |-> output[i].byte]

(* Nothing is lost, repeated or reordered: what was passed on, followed by *)
(* what is pending, is what the child wrote; Close leaves nothing pending. *)
(* A failed destination has a prefix of it.                                *)
NothingLost ==
    /\ ~failed => EmittedBytes \o pending = input
    /\ failed =>
        /\ Len(output) <= Len(input)
        /\ EmittedBytes = SubSeq(input, 1, Len(output))
    /\ phase = "closed" /\ ~failed => pending = <<>>

(* Between two writes no more is held back than might begin a secret, but  *)
(* for the rest of one rune: what is held beyond that are continuation     *)
(* bytes.  (Output that is not UTF-8 may have any number of those.)        *)
PendingBounded == phase = "idle" /\ ~failed /\ secrets # {} =>
    \A i \in 2 .. Len(pending) :
        i <= Len(pending) + 2 - Longest => pending[i] \in Continuation

(* What is passed on does not end within a rune, unless a secret does.     *)
RunesWhole ==
    (/\ phase = "idle" /\ ~failed
     /\ output # <<>> /\ pending # <<>> /\ pending[1] \in Continuation)
    => output[Len(output)].hidden

(* The type invariant; no byte is lost, and none is held back for long.    *)
Inv == TypeOK /\ NothingLost /\ PendingBounded /\ RunesWhole

(* No secret ever comes out whole, whatever the writes it is split over:   *)
(* a run of visible bytes holds none, even when the destination fails.     *)
WholeSecretsHidden == \A s \in secrets : \A i \in 1 .. Len(output) :
    i + Len(s) - 1 <= Len(output) =>
        \E j \in 0 .. Len(s) - 1 : output[i + j].hidden \/ output[i + j].byte # s[j + 1]

(* Nothing but secrets is hidden: each hidden byte belongs to a secret     *)
(* that is hidden from its first byte to its last.                         *)
OnlySecretsHidden == \A i \in 1 .. Len(output) : output[i].hidden =>
    \E s \in secrets, start \in 1 .. i :
        /\ i < start + Len(s)
        /\ Occurs(s, EmittedBytes, start)
        /\ \A j \in start .. start + Len(s) - 1 : output[j].hidden

SecretsAt(text, i) == {s \in secrets : Occurs(s, text, i)}
LengthAt(text, i) == Len(CHOOSE s \in SecretsAt(text, i) :
    \A t \in SecretsAt(text, i) : Len(t) <= Len(s))

(* The positions that a redactor hides, from each position on, that sees   *)
(* the whole text: from left to right, the longest secret at a position.   *)
HiddenFrom(text) ==
    LET from[i \in 1 .. Len(text) + 1] ==
            IF i > Len(text) THEN {}
            ELSE IF SecretsAt(text, i) = {} THEN from[i + 1]
            ELSE (i .. i + LengthAt(text, i) - 1) \cup from[i + LengthAt(text, i)]
    IN from

(* The reference for the redactor that is written to piece by piece.       *)
HiddenAtOnce(text) == HiddenFrom(text)[1]

HiddenPositions == {i \in 1 .. Len(output) : output[i].hidden}

Within(s, t) == \E i \in 1 .. Len(t) : Occurs(s, t, i)
Separate == \A s, t \in secrets : s # t => ~Within(s, t)

Closed == phase = "closed" /\ ~failed

(* If no secret is contained in another, it makes no difference how the    *)
(* child's output was split into writes.                                   *)
SplitIndependent == Closed /\ Separate => HiddenPositions = HiddenAtOnce(input)

(* docs/security/2026-10-boundary-investigation.md:98-99, "Exact values    *)
(* split across consecutive writes to one stream are redacted": a value    *)
(* that would be redacted were it written at once is redacted.             *)
SplitValuesRedacted == Closed => HiddenAtOnce(input) \subseteq HiddenPositions
=============================================================================
