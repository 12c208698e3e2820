---------------------------- MODULE RedactorProofs ----------------------------
(***************************************************************************)
(* Proofs about Redactor, for every alphabet, every finite set of secrets  *)
(* and outputs of any length: no byte is lost, no secret comes out whole,  *)
(* only secrets are hidden, and, if no secret is contained in another, it  *)
(* makes no difference how the output was split into writes.               *)
(*                                                                         *)
(* Sequences are compared position by position.  What would need induction *)
(* (a longest secret, the first occurrence, the recursion of HiddenFrom,   *)
(* the way from the end of the output to its start) is proved from a least *)
(* or a greatest counterexample, which a well-founded order has.           *)
(***************************************************************************)
EXTENDS Redactor, FiniteSetTheorems, WellFoundedInduction, SequenceTheorems, TLAPS

(* A set of natural numbers has a least one.                               *)
LEMMA Least ==
    ASSUME NEW T \in SUBSET Nat, T # {}
    PROVE  \E x \in T : \A y \in T : x <= y
<1>1. PICK x \in T : \A y \in T : ~ (<<y, x>> \in OpToRel(<, Nat))
    <2>1. T \subseteq Nat
        OBVIOUS
    <2> QED
        BY <2>1, NatLessThanWellFounded, WFMin
<1>2. \A y \in T : ~ (y < x)
    BY <1>1 DEF OpToRel
<1> QED
    BY <1>2

(* A bounded set of natural numbers has a greatest one.                    *)
LEMMA Greatest ==
    ASSUME NEW T \in SUBSET Nat, T # {}, NEW n \in Nat, \A y \in T : y <= n
    PROVE  \E x \in T : \A y \in T : y <= x
<1> DEFINE U == {m \in Nat : \E y \in T : m = n - y}
<1>1. U \in SUBSET Nat /\ U # {}
    <2>1. PICK y \in T : TRUE
        OBVIOUS
    <2>2. n - y \in Nat
        OBVIOUS
    <2>3. n - y \in U
        BY <2>2
    <2> QED
        BY <2>3
<1>2. PICK m \in U : \A k \in U : m <= k
    <2> HIDE DEF U
    <2> QED
        BY <1>1, Least
<1>3. PICK x \in T : m = n - x
    OBVIOUS
<1>4. \A y \in T : n - y \in U
    OBVIOUS
<1>5. \A y \in T : m <= n - y
    BY <1>2, <1>4
<1> QED
    BY <1>3, <1>5

(* A finite set of texts that is not empty has a longest one.              *)
LEMMA LongestExists ==
    ASSUME NEW S, IsFiniteSet(S), S \subseteq Seq(Bytes), S # {}
    PROVE  \E s \in S : \A t \in S : Len(t) <= Len(s)
<1> DEFINE R == StrictSubsetOrdering(S)
           Without == {U \in SUBSET S :
               U # {} /\ ~ \E s \in U : \A t \in U : Len(t) <= Len(s)}
<1>1. SUFFICES ASSUME S \in Without
               PROVE  FALSE
    OBVIOUS
<1>2. IsWellFoundedOn(R, SUBSET S)
    BY FS_StrictSubsetOrderingWellFounded, FS_FiniteSubsetsOfFinite
<1>3. PICK U \in Without : \A V \in Without : ~ (<<V, U>> \in R)
    <2>1. Without \subseteq SUBSET S /\ Without # {}
        BY <1>1
    <2> HIDE DEF Without, R
    <2> QED
        BY <1>2, <2>1, WFMin
<1>4. PICK x \in U : TRUE
    OBVIOUS
<1>5. U \ {x} \notin Without
    BY <1>3, <1>4 DEF StrictSubsetOrdering
<1>6. \A t \in S : Len(t) \in Nat
    BY LenProperties
<1>7. CASE U \ {x} = {}
    <2>1. \A t \in U : t = x
        BY <1>7
    <2>2. Len(x) <= Len(x)
        BY <1>6
    <2> QED
        BY <1>4, <2>1, <2>2
<1>8. CASE U \ {x} # {}
    <2>1. PICK s \in U \ {x} : \A t \in U \ {x} : Len(t) <= Len(s)
        BY <1>5, <1>8
    <2>2. CASE Len(x) <= Len(s)
        <3>1. \A t \in U : Len(t) <= Len(s)
            BY <2>1, <2>2
        <3> QED
            BY <2>1, <3>1
    <2>3. CASE Len(s) <= Len(x)
        <3>1. Len(x) <= Len(x)
            BY <1>6
        <3>2. \A t \in U : Len(t) <= Len(x)
            <4>1. TAKE t \in U
            <4>2. Len(t) \in Nat /\ Len(s) \in Nat /\ Len(x) \in Nat
                BY <1>6, <1>4, <2>1
            <4>3. CASE t = x
                BY <3>1, <4>3
            <4>4. CASE t # x
                <5>1. Len(t) <= Len(s)
                    BY <2>1, <4>4
                <5> QED
                    BY <2>3, <4>2, <5>1
            <4> QED
                BY <4>3, <4>4
        <3> QED
            BY <1>4, <3>2
    <2>4. Len(x) \in Nat /\ Len(s) \in Nat
        BY <1>6, <1>4, <2>1
    <2>5. Len(x) <= Len(s) \/ Len(s) <= Len(x)
        BY <2>4
    <2> QED
        BY <2>2, <2>3, <2>5
<1> QED
    BY <1>7, <1>8

-----------------------------------------------------------------------------
(* A part of a text, position by position.                                 *)
LEMMA PartOf ==
    ASSUME NEW S, NEW text \in Seq(S), NEW m \in Nat \ {0}, NEW n \in Nat,
           n <= Len(text), m <= n + 1
    PROVE  /\ SubSeq(text, m, n) \in Seq(S)
           /\ Len(SubSeq(text, m, n)) = n - m + 1
           /\ \A k \in 1 .. n - m + 1 : SubSeq(text, m, n)[k] = text[m + k - 1]
<1>1. \A i \in m .. n : text[i] \in S
    BY ElementOfSeq, LenProperties
<1>2. SubSeq(text, m, n) \in Seq(S)
    BY <1>1, SubSeqProperties
<1>3. Len(SubSeq(text, m, n)) = IF m <= n THEN n - m + 1 ELSE 0
    BY <1>1, SubSeqProperties
<1>4. \A k \in 1 .. n - m + 1 : SubSeq(text, m, n)[k] = text[m + k - 1]
    BY <1>1, SubSeqProperties
<1> QED
    BY <1>2, <1>3, <1>4

LEMMA PrefixIs ==
    ASSUME NEW S, NEW text \in Seq(S), NEW n \in 0 .. Len(text)
    PROVE  /\ Prefix(text, n) \in Seq(S)
           /\ Len(Prefix(text, n)) = n
           /\ \A k \in 1 .. n : Prefix(text, n)[k] = text[k]
<1>1. n \in Nat /\ n <= Len(text) /\ 1 <= n + 1 /\ Len(text) \in Nat
    BY LenProperties
<1>2. \A k \in 1 .. n : k = 1 + k - 1
    BY <1>1
<1>3. 1 \in Nat \ {0} /\ n - 1 + 1 = n
    BY <1>1
<1>4. /\ SubSeq(text, 1, n) \in Seq(S)
      /\ Len(SubSeq(text, 1, n)) = n - 1 + 1
      /\ \A k \in 1 .. n - 1 + 1 : SubSeq(text, 1, n)[k] = text[1 + k - 1]
    BY <1>1, <1>3, PartOf
<1> QED
    BY <1>1, <1>2, <1>3, <1>4 DEF Prefix

LEMMA SuffixIs ==
    ASSUME NEW S, NEW text \in Seq(S), NEW n \in 0 .. Len(text)
    PROVE  /\ Suffix(text, n) \in Seq(S)
           /\ Len(Suffix(text, n)) = Len(text) - n
           /\ \A k \in 1 .. Len(text) - n : Suffix(text, n)[k] = text[n + k]
<1>1. n \in Nat /\ n <= Len(text) /\ Len(text) \in Nat
    BY LenProperties
<1>2. n + 1 \in Nat \ {0} /\ n + 1 <= Len(text) + 1
    BY <1>1
<1>3. Len(text) - (n + 1) + 1 = Len(text) - n
    BY <1>1
<1>4. \A k \in 1 .. Len(text) - n : n + 1 + k - 1 = n + k
    BY <1>1
<1>5. /\ SubSeq(text, n + 1, Len(text)) \in Seq(S)
      /\ Len(SubSeq(text, n + 1, Len(text))) = Len(text) - (n + 1) + 1
      /\ \A k \in 1 .. Len(text) - (n + 1) + 1 :
            SubSeq(text, n + 1, Len(text))[k] = text[n + 1 + k - 1]
    BY <1>1, <1>2, PartOf
<1> QED
    BY <1>3, <1>4, <1>5 DEF Suffix

(* A text passed on, plain or hidden, after what was passed on before.     *)
LEMMA PlainIs ==
    ASSUME NEW text \in Seq(Bytes)
    PROVE  /\ Plain(text) \in Seq(Emitted)
           /\ Len(Plain(text)) = Len(text)
           /\ \A k \in 1 .. Len(text) :
                Plain(text)[k] = [byte |-> text[k], hidden |-> FALSE]
<1>1. Len(text) \in Nat /\ \A k \in 1 .. Len(text) : text[k] \in Bytes
    BY LenProperties, ElementOfSeq
<1>2. Plain(text) \in [1 .. Len(text) -> Emitted]
    BY <1>1 DEF Plain, Emitted
<1>3. Plain(text) \in Seq(Emitted)
    BY <1>1, <1>2, SeqDef
<1>4. Len(Plain(text)) = Len(text)
    BY <1>1, <1>2, <1>3, LenProperties
<1> QED
    BY <1>3, <1>4 DEF Plain

LEMMA HiddenIs ==
    ASSUME NEW text \in Seq(Bytes)
    PROVE  /\ Hidden(text) \in Seq(Emitted)
           /\ Len(Hidden(text)) = Len(text)
           /\ \A k \in 1 .. Len(text) :
                Hidden(text)[k] = [byte |-> text[k], hidden |-> TRUE]
<1>1. Len(text) \in Nat /\ \A k \in 1 .. Len(text) : text[k] \in Bytes
    BY LenProperties, ElementOfSeq
<1>2. Hidden(text) \in [1 .. Len(text) -> Emitted]
    BY <1>1 DEF Hidden, Emitted
<1>3. Hidden(text) \in Seq(Emitted)
    BY <1>1, <1>2, SeqDef
<1>4. Len(Hidden(text)) = Len(text)
    BY <1>1, <1>2, <1>3, LenProperties
<1> QED
    BY <1>3, <1>4 DEF Hidden

LEMMA Joined ==
    ASSUME NEW S, NEW s \in Seq(S), NEW t \in Seq(S)
    PROVE  /\ s \o t \in Seq(S)
           /\ Len(s \o t) = Len(s) + Len(t)
           /\ \A k \in 1 .. Len(s) : (s \o t)[k] = s[k]
           /\ \A k \in 1 .. Len(t) : (s \o t)[Len(s) + k] = t[k]
<1>1. Len(s) \in Nat /\ Len(t) \in Nat
    BY LenProperties
<1>2. \A k \in 1 .. Len(s) + Len(t) :
        (s \o t)[k] = IF k <= Len(s) THEN s[k] ELSE t[k - Len(s)]
    BY ConcatProperties
<1>3. \A k \in 1 .. Len(s) : (s \o t)[k] = s[k]
    BY <1>1, <1>2
<1>4. \A k \in 1 .. Len(t) : (s \o t)[Len(s) + k] = t[k]
    <2>1. TAKE k \in 1 .. Len(t)
    <2>2. /\ Len(s) + k \in 1 .. Len(s) + Len(t)
          /\ ~ (Len(s) + k <= Len(s))
          /\ Len(s) + k - Len(s) = k
        BY <1>1
    <2> QED
        BY <1>2, <2>2
<1> QED
    BY <1>3, <1>4, ConcatProperties

(* Where a secret occurs, position by position.                            *)
LEMMA OccursIs ==
    ASSUME NEW s \in Seq(Bytes), s # <<>>, NEW text \in Seq(Bytes),
           NEW i \in Nat \ {0}
    PROVE  Occurs(s, text, i) <=>
               /\ i + Len(s) - 1 <= Len(text)
               /\ \A k \in 1 .. Len(s) : text[i + k - 1] = s[k]
<1>1. Len(text) \in Nat /\ Len(s) \in Nat \ {0}
    BY LenProperties, EmptySeq
<1>2. SUFFICES ASSUME i + Len(s) - 1 <= Len(text)
               PROVE  SubSeq(text, i, i + Len(s) - 1) = s
                      <=> \A k \in 1 .. Len(s) : text[i + k - 1] = s[k]
    BY DEF Occurs
<1> DEFINE n == i + Len(s) - 1
           part == SubSeq(text, i, n)
<1>3. n \in Nat /\ i <= n + 1 /\ n - i + 1 = Len(s) /\ n <= Len(text)
    BY <1>1, <1>2
<1>4. /\ part \in Seq(Bytes)
      /\ Len(part) = n - i + 1
      /\ \A k \in 1 .. n - i + 1 : part[k] = text[i + k - 1]
    <2> HIDE DEF n
    <2> QED
        BY <1>3, PartOf
<1>5. Len(part) = Len(s) /\ \A k \in 1 .. Len(s) : part[k] = text[i + k - 1]
    BY <1>3, <1>4
<1>6. part = s <=> \A k \in 1 .. Len(s) : part[k] = s[k]
    <2> HIDE DEF part
    <2> QED
        BY <1>4, <1>5, SeqEqual
<1> QED
    BY <1>5, <1>6

-----------------------------------------------------------------------------
LEMMA SecretsAre ==
    ASSUME secrets \in SecretSets
    PROVE  /\ IsFiniteSet(secrets) /\ secrets \subseteq Seq(Bytes)
           /\ \A s \in secrets :
                /\ s \in Seq(Bytes) /\ s # <<>> /\ Len(s) \in Nat \ {0}
                /\ \A k \in 1 .. Len(s) : s[k] \in Bytes
<1>1. /\ IsFiniteSet(secrets) /\ secrets \subseteq Seq(Bytes)
      /\ \A s \in secrets : s # <<>>
    BY SecretsAssumption
<1>2. \A s \in secrets :
        s \in Seq(Bytes) /\ s # <<>> /\ Len(s) \in Nat \ {0}
    BY <1>1, EmptySeq
<1>3. \A s \in secrets : \A k \in 1 .. Len(s) : s[k] \in Bytes
    BY <1>1, ElementOfSeq
<1> QED
    BY <1>1, <1>2, <1>3

LEMMA LongestIs ==
    ASSUME secrets \in SecretSets, secrets # {}
    PROVE  Longest \in Nat \ {0} /\ \A s \in secrets : Len(s) <= Longest
<1>1. \E s \in secrets : \A t \in secrets : Len(t) <= Len(s)
    BY SecretsAre, LongestExists
<1> DEFINE longest == CHOOSE s \in secrets : \A t \in secrets : Len(t) <= Len(s)
<1>2. longest \in secrets /\ \A t \in secrets : Len(t) <= Len(longest)
    BY <1>1
<1>3. Longest = Len(longest)
    BY DEF Longest
<1> QED
    BY <1>2, <1>3, SecretsAre

(* findSecret returns a secret that is there, and none is there earlier.   *)
LEMMA FirstIs ==
    ASSUME secrets \in SecretSets, NEW text \in Seq(Bytes),
           Occurrences(text) # {}
    PROVE  LET first == FirstSecret(text) IN
           /\ first[1] \in 1 .. Len(text) /\ first[2] \in secrets
           /\ Occurs(first[2], text, first[1])
           /\ \A s \in secrets : \A i \in 1 .. Len(text) :
                Occurs(s, text, i) => first[1] <= i
<1>0. Len(text) \in Nat
    BY LenProperties
<1> DEFINE At == {i \in 1 .. Len(text) : \E s \in secrets : Occurs(s, text, i)}
<1>1. At \in SUBSET Nat /\ At # {}
    BY <1>0 DEF Occurrences
<1>2. PICK i \in At : \A j \in At : i <= j
    <2> HIDE DEF At
    <2> QED
        BY <1>1, Least
<1> DEFINE Here == {s \in secrets : Occurs(s, text, i)}
           Lengths == {n \in Nat : \E s \in Here : n = Len(s)}
<1>3. \A s \in Here : Len(s) \in Nat /\ Len(s) <= Len(text)
    BY <1>0, SecretsAre DEF Occurs
<1>4. PICK n \in Lengths : \A m \in Lengths : m <= n
    <2>1. Lengths \in SUBSET Nat /\ Lengths # {}
        BY <1>3
    <2>2. \A m \in Lengths : m <= Len(text)
        BY <1>3
    <2> HIDE DEF Lengths
    <2> QED
        BY <1>0, <2>1, <2>2, Greatest
<1>5. PICK s \in Here : n = Len(s)
    OBVIOUS
<1> DEFINE Best(o) == \A p \in Occurrences(text) :
               o[1] < p[1] \/ (o[1] = p[1] /\ Len(p[2]) <= Len(o[2]))
<1>6. <<i, s>> \in Occurrences(text) /\ Best(<<i, s>>)
    <2>1. <<i, s>> \in Occurrences(text)
        BY <1>5 DEF Occurrences
    <2>2. ASSUME NEW p \in Occurrences(text)
          PROVE  i < p[1] \/ (i = p[1] /\ Len(p[2]) <= Len(s))
        <3>1. p[1] \in 1 .. Len(text) /\ p[2] \in secrets /\ Occurs(p[2], text, p[1])
            BY DEF Occurrences
        <3>2. i <= p[1]
            BY <1>2, <3>1
        <3>3. CASE i = p[1]
            <4>1. p[2] \in Here
                BY <3>1, <3>3
            <4>2. Len(p[2]) \in Lengths
                BY <1>3, <4>1
            <4> QED
                BY <1>4, <1>5, <3>3, <4>2
        <3> QED
            BY <1>0, <1>2, <3>1, <3>2, <3>3
    <2> QED
        BY <2>1, <2>2
<1> DEFINE first == FirstSecret(text)
<1>7. first \in Occurrences(text) /\ Best(first)
    BY <1>6 DEF FirstSecret
<1>8. /\ first[1] \in 1 .. Len(text) /\ first[2] \in secrets
      /\ Occurs(first[2], text, first[1])
    BY <1>7 DEF Occurrences
<1>9. ASSUME NEW t \in secrets, NEW j \in 1 .. Len(text), Occurs(t, text, j)
      PROVE  first[1] <= j
    <2>1. <<j, t>> \in Occurrences(text)
        BY <1>9 DEF Occurrences
    <2>2. first[1] < j \/ first[1] = j
        BY <1>7, <2>1
    <2> QED
        BY <1>0, <1>8, <2>2
<1> QED
    BY <1>8, <1>9

(* What a Write passes on of a text without secrets ends where a rune      *)
(* starts, leaves room for a secret, and is as much as that allows.        *)
LEMMA EmitEndIs ==
    ASSUME secrets \in SecretSets, secrets # {}, NEW text \in Seq(Bytes)
    PROVE  LET n == EmitEnd(text) IN
           /\ n \in 0 .. Len(text)
           /\ n > 0 => n + Longest - 1 <= Len(text)
           /\ n = 0 \/ n = Len(text) \/ text[n + 1] \notin Continuation
           /\ \A j \in n + 1 .. Len(text) : j + Longest - 1 <= Len(text) =>
                j # Len(text) /\ text[j + 1] \in Continuation
<1>1. Len(text) \in Nat /\ Longest \in Nat \ {0}
    BY LenProperties, LongestIs
<1> DEFINE end == Len(text) - Withheld(text)
           Boundary(i) == i = 0 \/ i = Len(text) \/ text[i + 1] \notin Continuation
           Ends == {i \in 0 .. end : Boundary(i)}
<1>2. /\ end \in 0 .. Len(text)
      /\ end > 0 => end + Longest - 1 = Len(text)
      /\ \A j \in 1 .. Len(text) : j + Longest - 1 <= Len(text) => j <= end
    BY <1>1 DEF Withheld
<1> HIDE DEF end
<1>3. PICK m \in Ends : \A j \in Ends : j <= m
    <2>1. Ends \in SUBSET Nat /\ Ends # {}
        BY <1>2
    <2>2. \A j \in Ends : j <= end
        BY <1>2
    <2>3. end \in Nat
        BY <1>1, <1>2
    <2> HIDE DEF Ends
    <2> QED
        BY <2>1, <2>2, <2>3, Greatest
<1>4. Boundary(m) /\ \A j \in m + 1 .. end : ~Boundary(j)
    BY <1>2, <1>3
<1> DEFINE n == EmitEnd(text)
<1>5. n \in 0 .. end /\ Boundary(n) /\ \A j \in n + 1 .. end : ~Boundary(j)
    BY <1>3, <1>4 DEF EmitEnd, end
<1> HIDE DEF n
<1>6. \A j \in n + 1 .. Len(text) : j + Longest - 1 <= Len(text) =>
        j # Len(text) /\ text[j + 1] \in Continuation
    BY <1>2, <1>5
<1> QED
    BY <1>1, <1>2, <1>5, <1>6 DEF n

-----------------------------------------------------------------------------
(* NothingLost, position by position.                                      *)
Kept ==
    /\ ~failed =>
        /\ Len(input) = Len(output) + Len(pending)
        /\ \A k \in 1 .. Len(output) : output[k].byte = input[k]
        /\ \A k \in 1 .. Len(pending) : pending[k] = input[Len(output) + k]
    /\ failed =>
        /\ Len(output) <= Len(input)
        /\ \A k \in 1 .. Len(output) : output[k].byte = input[k]
    /\ phase = "closed" /\ ~failed => pending = <<>>

(* A failed redactor is not asked to flush, one without secrets has        *)
(* nothing to hold back, and one whose secrets are single bytes neither,   *)
(* between two writes.                                                     *)
Held ==
    /\ failed => phase \in {"idle", "closed"}
    /\ phase = "flush" => secrets # {}
    /\ secrets = {} => pending = <<>>
    /\ phase = "idle" /\ ~failed /\ secrets # {} /\ Longest = 1 => pending = <<>>

(* RunesWhole, and during a flush too: visible output ends where what is   *)
(* pending starts a rune.                                                  *)
RuneStarts ==
    phase \in {"idle", "flush"} /\ ~failed /\ secrets # {} /\ output # <<>> =>
        \/ output[Len(output)].hidden
        \/ pending # <<>> /\ pending[1] \notin Continuation
        \/ Longest = 1

(* At position k of what was passed on and is pending there is a byte that *)
(* nobody can take for b: it is hidden, or another one.                    *)
Differs(k, b) ==
    \/ k <= Len(output) /\ (output[k].hidden \/ output[k].byte # b)
    \/ /\ Len(output) < k /\ k <= Len(output) + Len(pending)
       /\ pending[k - Len(output)] # b

(* A secret does not begin in what was passed on, whatever comes next.     *)
Settled == phase # "closed" /\ ~failed =>
    \A s \in secrets : \A i \in 1 .. Len(output) :
        \E j \in 1 .. Len(s) : Differs(i + j - 1, s[j])

(* WholeSecretsHidden, counting the bytes of a secret from 1.              *)
Covered == \A s \in secrets : \A i \in 1 .. Len(output) :
    i + Len(s) - 1 <= Len(output) =>
        \E j \in 1 .. Len(s) :
            output[i + j - 1].hidden \/ output[i + j - 1].byte # s[j]

(* OnlySecretsHidden, position by position.                                *)
HiddenWhole == \A i \in 1 .. Len(output) : output[i].hidden =>
    \E s \in secrets, start \in 1 .. i :
        /\ i < start + Len(s)
        /\ start + Len(s) - 1 <= Len(output)
        /\ \A k \in 1 .. Len(s) :
            output[start + k - 1].hidden /\ output[start + k - 1].byte = s[k]

IInv ==
    /\ TypeOK /\ Kept /\ PendingBounded /\ Held /\ RuneStarts
    /\ Settled /\ Covered /\ HiddenWhole

-----------------------------------------------------------------------------
LEMMA Shapes ==
    ASSUME TypeOK
    PROVE  /\ Len(pending) \in Nat /\ Len(input) \in Nat /\ Len(output) \in Nat
           /\ \A k \in 1 .. Len(pending) : pending[k] \in Bytes
           /\ \A k \in 1 .. Len(output) :
                /\ output[k] \in Emitted
                /\ output[k].byte \in Bytes /\ output[k].hidden \in BOOLEAN
<1>1. pending \in Seq(Bytes) /\ input \in Seq(Bytes) /\ output \in Seq(Emitted)
    BY DEF TypeOK
<1>2. Len(pending) \in Nat /\ Len(input) \in Nat /\ Len(output) \in Nat
    BY <1>1, LenProperties
<1>3. \A k \in 1 .. Len(pending) : pending[k] \in Bytes
    BY <1>1, ElementOfSeq
<1>4. \A k \in 1 .. Len(output) : output[k] \in Emitted
    BY <1>1, ElementOfSeq
<1> QED
    BY <1>2, <1>3, <1>4 DEF Emitted

LEMMA EmittedBytesAre ==
    ASSUME TypeOK
    PROVE  /\ EmittedBytes \in Seq(Bytes)
           /\ Len(EmittedBytes) = Len(output)
           /\ \A k \in 1 .. Len(output) : EmittedBytes[k] = output[k].byte
<1>1. EmittedBytes \in [1 .. Len(output) -> Bytes]
    BY Shapes DEF EmittedBytes
<1>2. EmittedBytes \in Seq(Bytes)
    BY <1>1, Shapes, SeqDef
<1>3. Len(EmittedBytes) = Len(output)
    BY <1>1, <1>2, Shapes, LenProperties
<1> QED
    BY <1>2, <1>3 DEF EmittedBytes

LEMMA KeptIsNothingLost ==
    ASSUME TypeOK, Kept
    PROVE  NothingLost
<1>1. /\ EmittedBytes \in Seq(Bytes) /\ Len(EmittedBytes) = Len(output)
      /\ \A k \in 1 .. Len(output) : EmittedBytes[k] = output[k].byte
    BY EmittedBytesAre
<1>2. pending \in Seq(Bytes) /\ input \in Seq(Bytes)
    BY DEF TypeOK
<1>3. ASSUME ~failed
      PROVE  EmittedBytes \o pending = input
    <2> DEFINE e == EmittedBytes
               whole == e \o pending
    <2>1. /\ whole \in Seq(Bytes)
          /\ Len(whole) = Len(e) + Len(pending)
          /\ \A k \in 1 .. Len(e) : whole[k] = e[k]
          /\ \A k \in 1 .. Len(pending) : whole[Len(e) + k] = pending[k]
        <3>1. e \in Seq(Bytes) /\ pending \in Seq(Bytes)
            BY <1>1, <1>2
        <3> HIDE DEF e
        <3> QED
            BY <3>1, Joined
    <2>2. ASSUME NEW k \in 1 .. Len(output) + Len(pending)
          PROVE  whole[k] = input[k]
        <3> HIDE DEF whole
        <3>0. Len(output) \in Nat /\ Len(pending) \in Nat
            BY Shapes
        <3>1. CASE k <= Len(output)
            <4>1. k \in 1 .. Len(output)
                BY <3>1, Shapes
            <4> QED
                BY <1>1, <1>3, <2>1, <4>1 DEF Kept
        <3>2. CASE k > Len(output)
            <4> DEFINE i == k - Len(output)
            <4>1. i \in 1 .. Len(pending) /\ k = Len(output) + i
                BY <3>2, Shapes
            <4> HIDE DEF i
            <4>2. whole[Len(output) + i] = pending[i]
                BY <1>1, <2>1, <4>1
            <4>3. pending[i] = input[Len(output) + i]
                BY <1>3, <4>1 DEF Kept
            <4> QED
                BY <4>1, <4>2, <4>3
        <3> QED
            BY <3>0, <3>1, <3>2
    <2>3. Len(whole) = Len(input) /\ \A k \in 1 .. Len(whole) : whole[k] = input[k]
        <3> HIDE DEF whole
        <3> QED
            BY <1>1, <1>3, <2>1, <2>2 DEF Kept
    <2>4. whole = input
        <3> HIDE DEF whole
        <3> QED
            BY <1>2, <2>1, <2>3, SeqEqual
    <2> QED
        BY <2>4
<1>4. ASSUME failed
      PROVE  Len(output) <= Len(input) /\ EmittedBytes = SubSeq(input, 1, Len(output))
    <2>1. Len(output) <= Len(input) /\ Len(output) \in 0 .. Len(input)
        BY <1>4, Shapes DEF Kept
    <2>2. /\ Prefix(input, Len(output)) \in Seq(Bytes)
          /\ Len(Prefix(input, Len(output))) = Len(output)
          /\ \A k \in 1 .. Len(output) : Prefix(input, Len(output))[k] = input[k]
        BY <1>2, <2>1, PrefixIs
    <2>3. \A k \in 1 .. Len(output) : EmittedBytes[k] = Prefix(input, Len(output))[k]
        BY <1>1, <1>4, <2>2 DEF Kept
    <2>4. EmittedBytes = Prefix(input, Len(output))
        BY <1>1, <2>2, <2>3, SeqEqual
    <2> QED
        BY <2>1, <2>4 DEF Prefix
<1> QED
    BY <1>3, <1>4 DEF NothingLost, Kept

LEMMA CoveredIsHidden ==
    ASSUME TypeOK, Covered
    PROVE  WholeSecretsHidden
<1>1. SUFFICES ASSUME NEW s \in secrets, NEW i \in 1 .. Len(output),
                      i + Len(s) - 1 <= Len(output)
               PROVE  \E j \in 0 .. Len(s) - 1 :
                        output[i + j].hidden \/ output[i + j].byte # s[j + 1]
    BY DEF WholeSecretsHidden
<1>2. PICK j \in 1 .. Len(s) :
        output[i + j - 1].hidden \/ output[i + j - 1].byte # s[j]
    BY <1>1 DEF Covered
<1>3. Len(s) \in Nat /\ Len(output) \in Nat
    BY SecretsAre, Shapes DEF TypeOK
<1>4. j - 1 \in 0 .. Len(s) - 1 /\ i + j - 1 = i + (j - 1) /\ (j - 1) + 1 = j
    BY <1>3
<1> DEFINE h == j - 1
<1>5. output[i + h].hidden \/ output[i + h].byte # s[h + 1]
    BY <1>2, <1>4
<1> QED
    BY <1>4, <1>5

LEMMA HiddenWholeIsOnly ==
    ASSUME TypeOK, HiddenWhole
    PROVE  OnlySecretsHidden
<1>1. SUFFICES ASSUME NEW i \in 1 .. Len(output), output[i].hidden
               PROVE  \E s \in secrets, start \in 1 .. i :
                        /\ i < start + Len(s)
                        /\ Occurs(s, EmittedBytes, start)
                        /\ \A j \in start .. start + Len(s) - 1 : output[j].hidden
    BY DEF OnlySecretsHidden
<1>2. PICK s \in secrets, start \in 1 .. i :
        /\ i < start + Len(s)
        /\ start + Len(s) - 1 <= Len(output)
        /\ \A k \in 1 .. Len(s) :
            output[start + k - 1].hidden /\ output[start + k - 1].byte = s[k]
    BY <1>1 DEF HiddenWhole
<1>3. /\ s \in Seq(Bytes) /\ s # <<>> /\ Len(s) \in Nat \ {0}
      /\ Len(output) \in Nat
    BY SecretsAre, Shapes DEF TypeOK
<1>4. \A k \in 1 .. Len(s) : EmittedBytes[start + k - 1] = s[k]
    <2>1. TAKE k \in 1 .. Len(s)
    <2>2. start + k - 1 \in 1 .. Len(output)
        BY <1>2, <1>3
    <2> QED
        BY <1>2, <2>2, EmittedBytesAre
<1>5. Occurs(s, EmittedBytes, start)
    <2>1. start \in Nat \ {0}
        OBVIOUS
    <2> QED
        BY <1>2, <1>3, <1>4, <2>1, EmittedBytesAre, OccursIs
<1>6. \A j \in start .. start + Len(s) - 1 : output[j].hidden
    <2>1. TAKE j \in start .. start + Len(s) - 1
    <2> DEFINE k == j - start + 1
    <2>2. k \in 1 .. Len(s) /\ j = start + k - 1
        BY <1>3
    <2> HIDE DEF k
    <2> QED
        BY <1>2, <2>2
<1> QED
    BY <1>2, <1>5, <1>6

LEMMA RuneStartsAreWhole ==
    ASSUME TypeOK, Held, RuneStarts
    PROVE  RunesWhole
BY DEF Held, RuneStarts, RunesWhole

-----------------------------------------------------------------------------
(* The first m bytes that are pending are passed on, some of them hidden.  *)
Moves(m) ==
    /\ UNCHANGED <<secrets, failed, input>>
    /\ output' \in Seq(Emitted) /\ Len(output') = Len(output) + m
    /\ \A k \in 1 .. Len(output) : output'[k] = output[k]
    /\ \A k \in 1 .. m : output'[Len(output) + k].byte = pending[k]
    /\ pending' \in Seq(Bytes) /\ Len(pending') = Len(pending) - m
    /\ \A k \in 1 .. Len(pending) - m : pending'[k] = pending[m + k]

(* A position of what is passed on was there before or is new.             *)
LEMMA OldOrNew ==
    ASSUME NEW a \in Nat, NEW m \in Nat, NEW i \in 1 .. a + m
    PROVE  i \in 1 .. a \/ \E k \in 1 .. m : i = a + k
<1>1. CASE i <= a
    BY <1>1
<1>2. CASE i > a
    <2>1. i - a \in 1 .. m /\ i = a + (i - a)
        BY <1>2
    <2> QED
        BY <2>1
<1> QED
    BY <1>1, <1>2

LEMMA MovesKept ==
    ASSUME TypeOK, Kept, ~failed, phase # "closed",
           NEW m \in 0 .. Len(pending), Moves(m),
           phase' = "closed" => m = Len(pending)
    PROVE  Kept'
<1>1. /\ Len(pending) \in Nat /\ Len(output) \in Nat /\ m \in Nat
      /\ Len(output') = Len(output) + m /\ Len(pending') = Len(pending) - m
      /\ input' = input /\ failed' = failed
    BY Shapes DEF Moves
<1>2. /\ Len(input) = Len(output) + Len(pending)
      /\ \A k \in 1 .. Len(output) : output[k].byte = input[k]
      /\ \A k \in 1 .. Len(pending) : pending[k] = input[Len(output) + k]
    BY DEF Kept
<1>3. Len(input') = Len(output') + Len(pending')
    BY <1>1, <1>2
<1>4. ASSUME NEW i \in 1 .. Len(output')
      PROVE  output'[i].byte = input[i]
    <2>1. CASE i \in 1 .. Len(output)
        BY <1>2, <2>1 DEF Moves
    <2>2. ASSUME NEW k \in 1 .. m, i = Len(output) + k
          PROVE  output'[i].byte = input[i]
        <3>1. k \in 1 .. Len(pending)
            BY <1>1
        <3> QED
            BY <1>2, <2>2, <3>1 DEF Moves
    <2>3. i \in 1 .. Len(output) \/ \E k \in 1 .. m : i = Len(output) + k
        BY <1>1, OldOrNew
    <2> QED
        BY <2>1, <2>2, <2>3
<1>5. ASSUME NEW k \in 1 .. Len(pending')
      PROVE  pending'[k] = input[Len(output') + k]
    <2>1. /\ m + k \in 1 .. Len(pending) /\ k \in 1 .. Len(pending) - m
          /\ Len(output') + k = Len(output) + (m + k)
        BY <1>1
    <2> DEFINE i == m + k
    <2>2. pending'[k] = pending[i]
        BY <2>1 DEF Moves
    <2>3. pending[i] = input[Len(output) + i]
        BY <1>2, <2>1
    <2> QED
        BY <2>1, <2>2, <2>3
<1>6. phase' = "closed" => pending' = <<>>
    <2>1. pending' \in Seq(Bytes)
        BY DEF Moves
    <2>2. m = Len(pending) => Len(pending') = 0
        BY <1>1
    <2> QED
        BY <2>1, <2>2, EmptySeq
<1> QED
    BY <1>1, <1>3, <1>4, <1>5, <1>6 DEF Kept

(* What tells a position from a byte goes on doing so.                     *)
LEMMA MovesDiffers ==
    ASSUME TypeOK, NEW m \in 0 .. Len(pending), Moves(m),
           NEW i \in Nat \ {0}, NEW b \in Bytes, Differs(i, b)
    PROVE  Differs(i, b)'
<1>1. /\ Len(pending) \in Nat /\ Len(output) \in Nat /\ m \in Nat
      /\ Len(output') = Len(output) + m /\ Len(pending') = Len(pending) - m
    BY Shapes DEF Moves
<1>2. CASE i <= Len(output) /\ (output[i].hidden \/ output[i].byte # b)
    <2>1. i \in 1 .. Len(output)
        BY <1>1, <1>2
    <2>2. output'[i] = output[i] /\ i <= Len(output')
        BY <1>1, <2>1 DEF Moves
    <2> QED
        BY <1>2, <2>2 DEF Differs
<1>3. CASE /\ Len(output) < i /\ i <= Len(output) + Len(pending)
           /\ pending[i - Len(output)] # b
    <2> DEFINE k == i - Len(output)
    <2>1. k \in 1 .. Len(pending) /\ i = Len(output) + k
        BY <1>1, <1>3
    <2>2. pending[k] # b
        BY <1>3
    <2> HIDE DEF k
    <2>3. CASE k <= m
        <3>1. k \in 1 .. m
            BY <2>1, <2>3
        <3>2. output'[i].byte = pending[k]
            BY <2>1, <3>1 DEF Moves
        <3>3. i <= Len(output')
            BY <1>1, <2>1, <3>1
        <3> QED
            BY <2>2, <3>2, <3>3 DEF Differs
    <2>4. CASE m < k
        <3> DEFINE l == k - m
        <3>1. l \in 1 .. Len(pending) - m /\ k = m + l
            BY <1>1, <2>1, <2>4
        <3>2. i - Len(output') = l
            BY <1>1, <2>1
        <3> HIDE DEF l
        <3>3. pending'[l] = pending[k]
            BY <3>1 DEF Moves
        <3>4. Len(output') < i /\ i <= Len(output') + Len(pending')
            BY <1>1, <2>1, <2>4
        <3> QED
            BY <2>2, <3>2, <3>3, <3>4 DEF Differs
    <2> QED
        BY <1>1, <2>1, <2>3, <2>4
<1> QED
    BY <1>2, <1>3 DEF Differs

(* A secret that is not found at a place has another byte there.           *)
LEMMA Mismatch ==
    ASSUME TypeOK, NEW s \in secrets, NEW text \in Seq(Bytes),
           NEW k \in Nat \ {0},
           k + Len(s) - 1 <= Len(text), ~ Occurs(s, text, k)
    PROVE  \E j \in 1 .. Len(s) : text[k + j - 1] # s[j]
<1>1. s \in Seq(Bytes) /\ s # <<>>
    BY SecretsAre DEF TypeOK
<1> QED
    BY <1>1, OccursIs

(* With such a byte pending, the secret does not begin there.              *)
LEMMA MovesSettleNew ==
    ASSUME TypeOK, NEW m \in 0 .. Len(pending), Moves(m), NEW s \in secrets,
           NEW k \in 1 .. m, k + Len(s) - 1 <= Len(pending),
           ~ Occurs(s, pending, k),
           NEW i \in Nat, i = Len(output) + k
    PROVE  \E j \in 1 .. Len(s) : Differs(i + j - 1, s[j])'
<1>1. PICK j \in 1 .. Len(s) : pending[k + j - 1] # s[j]
    BY Mismatch DEF TypeOK
<1>2. /\ Len(pending) \in Nat /\ Len(output) \in Nat /\ Len(s) \in Nat
      /\ s[j] \in Bytes
    BY Shapes, SecretsAre DEF TypeOK
<1> DEFINE q == i + j - 1
<1>3. /\ q \in Nat \ {0} /\ Len(output) < q /\ q <= Len(output) + Len(pending)
      /\ q - Len(output) = k + j - 1
    BY <1>2
<1> HIDE DEF q
<1>4. q \in Nat \ {0} /\ Differs(q, s[j])
    BY <1>1, <1>3 DEF Differs
<1>5. Differs(q, s[j])'
    BY <1>2, <1>4, MovesDiffers
<1> QED
    BY <1>5 DEF q

LEMMA MovesSettleOld ==
    ASSUME TypeOK, Settled, ~failed, phase # "closed",
           NEW m \in 0 .. Len(pending), Moves(m),
           NEW s \in secrets, NEW i \in 1 .. Len(output)
    PROVE  \E j \in 1 .. Len(s) : Differs(i + j - 1, s[j])'
<1>1. PICK j \in 1 .. Len(s) : Differs(i + j - 1, s[j])
    BY DEF Settled
<1>2. Len(output) \in Nat /\ Len(s) \in Nat /\ s[j] \in Bytes
    BY Shapes, SecretsAre DEF TypeOK
<1> DEFINE k == i + j - 1
<1>3. k \in Nat \ {0} /\ Differs(k, s[j])
    BY <1>1, <1>2
<1> HIDE DEF k
<1>4. Differs(k, s[j])'
    BY <1>2, <1>3, MovesDiffers
<1> QED
    BY <1>4 DEF k

(* A place where no secret can begin is one where none has come out whole. *)
LEMMA SettledIsCovered ==
    ASSUME TypeOK', NEW s \in secrets', NEW i \in 1 .. Len(output'),
           i + Len(s) - 1 <= Len(output'),
           \E j \in 1 .. Len(s) : Differs(i + j - 1, s[j])'
    PROVE  \E j \in 1 .. Len(s) :
                output'[i + j - 1].hidden \/ output'[i + j - 1].byte # s[j]
<1>1. PICK j \in 1 .. Len(s) : Differs(i + j - 1, s[j])'
    OBVIOUS
<1>2. s \in Seq(Bytes) /\ output' \in Seq(Emitted)
    BY SecretsAssumption DEF TypeOK
<1>3. Len(s) \in Nat /\ Len(output') \in Nat
    BY <1>2, LenProperties
<1>4. i + j - 1 <= Len(output')
    BY <1>3
<1> DEFINE k == i + j - 1
<1>5. ~ (Len(output') < k) /\ Differs(k, s[j])'
    BY <1>1, <1>3, <1>4
<1> HIDE DEF k
<1>6. output'[k].hidden \/ output'[k].byte # s[j]
    BY <1>5 DEF Differs
<1> QED
    BY <1>6 DEF k

(* What was hidden as a secret stays so, whatever follows it.              *)
LEMMA HiddenOld ==
    ASSUME TypeOK, HiddenWhole, secrets' = secrets,
           Len(output') \in Nat, Len(output) <= Len(output'),
           \A k \in 1 .. Len(output) : output'[k] = output[k],
           NEW i \in 1 .. Len(output), output'[i].hidden
    PROVE  \E s \in secrets', start \in 1 .. i :
              /\ i < start + Len(s)
              /\ start + Len(s) - 1 <= Len(output')
              /\ \A k \in 1 .. Len(s) : /\ output'[start + k - 1].hidden
                                        /\ output'[start + k - 1].byte = s[k]
<1>1. PICK s \in secrets, start \in 1 .. i :
        /\ i < start + Len(s)
        /\ start + Len(s) - 1 <= Len(output)
        /\ \A k \in 1 .. Len(s) :
            output[start + k - 1].hidden /\ output[start + k - 1].byte = s[k]
    BY DEF HiddenWhole
<1>2. Len(s) \in Nat /\ Len(output) \in Nat
    BY SecretsAre, Shapes DEF TypeOK
<1>3. \A k \in 1 .. Len(s) : output'[start + k - 1] = output[start + k - 1]
    <2>1. TAKE k \in 1 .. Len(s)
    <2>2. start + k - 1 \in 1 .. Len(output)
        BY <1>1, <1>2
    <2> QED
        BY <2>2
<1>4. \A k \in 1 .. Len(s) :
        output'[start + k - 1].hidden /\ output'[start + k - 1].byte = s[k]
    BY <1>1, <1>3
<1>5. start + Len(s) - 1 <= Len(output')
    BY <1>1, <1>2
<1> QED
    BY <1>1, <1>4, <1>5

(* The output, with a text passed on.                                      *)
LEMMA PlainAfter ==
    ASSUME TypeOK, NEW text \in Seq(Bytes)
    PROVE  LET out == output \o Plain(text) IN
           /\ out \in Seq(Emitted) /\ Len(out) = Len(output) + Len(text)
           /\ \A k \in 1 .. Len(output) : out[k] = output[k]
           /\ \A k \in 1 .. Len(text) :
                /\ out[Len(output) + k].byte = text[k]
                /\ ~ out[Len(output) + k].hidden
<1> DEFINE plain == Plain(text)
           out == output \o plain
<1>1. /\ plain \in Seq(Emitted) /\ Len(plain) = Len(text)
      /\ \A k \in 1 .. Len(text) :
            plain[k] = [byte |-> text[k], hidden |-> FALSE]
    BY PlainIs
<1> HIDE DEF plain
<1>2. /\ out \in Seq(Emitted) /\ Len(out) = Len(output) + Len(plain)
      /\ \A k \in 1 .. Len(output) : out[k] = output[k]
      /\ \A k \in 1 .. Len(plain) : out[Len(output) + k] = plain[k]
    <2>1. output \in Seq(Emitted)
        BY DEF TypeOK
    <2>2. plain \in Seq(Emitted)
        BY <1>1
    <2> QED
        BY <2>1, <2>2, Joined
<1> HIDE DEF out
<1>3. ASSUME NEW k \in 1 .. Len(text)
      PROVE  out[Len(output) + k].byte = text[k] /\ ~ out[Len(output) + k].hidden
    <2>1. out[Len(output) + k] = [byte |-> text[k], hidden |-> FALSE]
        BY <1>1, <1>2
    <2>2. out[Len(output) + k].hidden = FALSE
        BY <2>1
    <2> QED
        BY <2>1, <2>2
<1> QED
    BY <1>1, <1>2, <1>3 DEF out, plain

-----------------------------------------------------------------------------
(* A destination that fails has had a part of a text without secrets, and  *)
(* nothing follows it.                                                     *)
LEMMA FailsKeeps ==
    ASSUME IInv, NEW text \in Seq(Bytes), DestinationFails(text),
           ~failed, phase # "closed",
           secrets' = secrets, input' \in Seq(Bytes), pending' = pending,
           Len(output) + Len(text) <= Len(input'),
           \A k \in 1 .. Len(output) : input'[k] = input[k],
           \A k \in 1 .. Len(text) : input'[Len(output) + k] = text[k],
           secrets # {} =>
                /\ Len(text) <= Len(pending)
                /\ \A k \in 1 .. Len(text) : text[k] = pending[k],
           \A s \in secrets : \A k \in 1 .. Len(text) :
                k + Len(s) - 1 <= Len(text) => ~ Occurs(s, text, k)
    PROVE  IInv'
<1>1. TypeOK /\ Kept /\ Held /\ Settled /\ HiddenWhole
    BY DEF IInv
<1>2. PICK n \in 0 .. Len(text) : output' = output \o Plain(Prefix(text, n))
    BY DEF DestinationFails
<1>3. failed' = TRUE /\ phase' \in {"idle", "closed"}
    BY DEF DestinationFails
<1>4. Len(text) \in Nat /\ Len(output) \in Nat /\ n \in Nat /\ n <= Len(text)
      /\ Len(pending) \in Nat /\ Len(input') \in Nat
    BY <1>1, <1>2, Shapes, LenProperties
<1> DEFINE part == Prefix(text, n)
<1>5. /\ part \in Seq(Bytes) /\ Len(part) = n
      /\ \A k \in 1 .. n : part[k] = text[k]
    BY <1>2, PrefixIs
<1> HIDE DEF part
<1>6. /\ output' \in Seq(Emitted) /\ Len(output') = Len(output) + n
      /\ \A k \in 1 .. Len(output) : output'[k] = output[k]
      /\ \A k \in 1 .. n : /\ output'[Len(output) + k].byte = text[k]
                           /\ ~ output'[Len(output) + k].hidden
    <2>1. output' = output \o Plain(part)
        BY <1>2 DEF part
    <2> QED
        BY <1>1, <1>5, <2>1, PlainAfter
<1>7. TypeOK'
    BY <1>1, <1>3, <1>6 DEF TypeOK
<1>8. \A i \in 1 .. Len(output') :
        i \in 1 .. Len(output) \/ \E k \in 1 .. n : i = Len(output) + k
    <2>1. TAKE i \in 1 .. Len(output')
    <2>2. i \in 1 .. Len(output) + n
        BY <1>6
    <2>3. Len(output) \in Nat /\ n \in Nat
        BY <1>4
    <2> QED
        BY <2>2, <2>3, OldOrNew
<1>9. Kept'
    <2>1. Len(output') <= Len(input')
        BY <1>4, <1>6
    <2>2. ASSUME NEW i \in 1 .. Len(output')
          PROVE  output'[i].byte = input'[i]
        <3>1. CASE i \in 1 .. Len(output)
            <4>1. output[i].byte = input[i]
                BY <1>1, <3>1 DEF Kept
            <4> QED
                BY <1>6, <3>1, <4>1
        <3>2. ASSUME NEW k \in 1 .. n, i = Len(output) + k
              PROVE  output'[i].byte = input'[i]
            <4>1. k \in 1 .. Len(text)
                BY <1>4
            <4> QED
                BY <1>6, <3>2, <4>1
        <3> QED
            BY <1>8, <3>1, <3>2
    <2> QED
        BY <1>3, <2>1, <2>2 DEF Kept
<1>10. PendingBounded' /\ RuneStarts' /\ Settled'
    BY <1>3 DEF PendingBounded, RuneStarts, Settled
<1>11. Held'
    BY <1>1, <1>3 DEF Held
<1>12. Covered'
    <2>1. SUFFICES ASSUME NEW s \in secrets, NEW i \in 1 .. Len(output'),
                          i + Len(s) - 1 <= Len(output')
                   PROVE  \E j \in 1 .. Len(s) :
                            output'[i + j - 1].hidden \/ output'[i + j - 1].byte # s[j]
        BY DEF Covered
    <2>2. Len(s) \in Nat /\ s \in secrets
        BY <1>1, SecretsAre DEF TypeOK
    <2>3. CASE i \in 1 .. Len(output)
        <3>1. PICK j \in 1 .. Len(s) : Differs(i + j - 1, s[j])
            BY <1>1, <2>3 DEF Settled
        <3> DEFINE q == i + j - 1
        <3>2. q \in 1 .. Len(output') /\ Differs(q, s[j])
            BY <1>4, <1>6, <2>1, <2>2, <3>1
        <3> HIDE DEF q
        <3>3. CASE q \in 1 .. Len(output)
            <4>1. output[q].hidden \/ output[q].byte # s[j]
                BY <1>4, <3>2, <3>3 DEF Differs
            <4>2. output'[q].hidden \/ output'[q].byte # s[j]
                BY <1>6, <3>3, <4>1
            <4> QED
                BY <4>2 DEF q
        <3>4. ASSUME NEW k \in 1 .. n, q = Len(output) + k
              PROVE  output'[q].byte # s[j]
            <4>1. ~ (q <= Len(output)) /\ q - Len(output) = k
                BY <1>4, <3>4
            <4>2. pending[k] # s[j]
                BY <3>2, <4>1 DEF Differs
            <4>3. k \in 1 .. Len(text)
                BY <1>4
            <4>4. text[k] = pending[k]
                BY <4>3
            <4> QED
                BY <1>6, <3>4, <4>2, <4>4
        <3>5. CASE \E k \in 1 .. n : q = Len(output) + k
            <4>1. output'[q].byte # s[j]
                BY <3>4, <3>5
            <4> QED
                BY <4>1 DEF q
        <3> QED
            BY <1>8, <3>2, <3>3, <3>5
    <2>4. ASSUME NEW k \in 1 .. n, i = Len(output) + k
          PROVE  \E j \in 1 .. Len(s) : output'[i + j - 1].byte # s[j]
        <3>1. k \in Nat \ {0} /\ k \in 1 .. Len(text)
            BY <1>4
        <3>2. k + Len(s) - 1 <= n /\ k + Len(s) - 1 <= Len(text)
            BY <1>4, <1>6, <2>1, <2>2, <2>4
        <3>3. ~ Occurs(s, text, k)
            BY <3>1, <3>2
        <3>4. PICK j \in 1 .. Len(s) : text[k + j - 1] # s[j]
            BY <1>1, <3>1, <3>2, <3>3, Mismatch
        <3> DEFINE l == k + j - 1
        <3>5. l \in 1 .. n /\ i + j - 1 = Len(output) + l
            BY <1>4, <2>2, <2>4, <3>1, <3>2, <3>4
        <3> HIDE DEF l
        <3>6. output'[Len(output) + l].byte = text[l]
            BY <1>6, <3>5
        <3>7. text[l] # s[j]
            BY <3>4 DEF l
        <3> QED
            BY <3>5, <3>6, <3>7
    <2> QED
        BY <1>8, <2>3, <2>4
<1>13. HiddenWhole'
    <2>1. ASSUME NEW i \in 1 .. Len(output'), output'[i].hidden
          PROVE  i \in 1 .. Len(output)
        BY <1>6, <1>8, <2>1
    <2>2. Len(output') \in Nat /\ Len(output) <= Len(output')
        BY <1>4, <1>6
    <2>3. ASSUME NEW i \in 1 .. Len(output'), output'[i].hidden
          PROVE  \E s \in secrets', start \in 1 .. i :
                    /\ i < start + Len(s)
                    /\ start + Len(s) - 1 <= Len(output')
                    /\ \A k \in 1 .. Len(s) :
                        /\ output'[start + k - 1].hidden
                        /\ output'[start + k - 1].byte = s[k]
        <3>1. i \in 1 .. Len(output)
            BY <2>1, <2>3
        <3> QED
            BY <1>1, <1>6, <2>2, <2>3, <3>1, HiddenOld
    <2> QED
        BY <2>3 DEF HiddenWhole
<1> QED
    BY <1>7, <1>9, <1>10, <1>11, <1>12, <1>13 DEF IInv

LEMMA InitKeeps ==
    ASSUME Init
    PROVE  IInv
<1>1. /\ secrets \in SecretSets /\ failed = FALSE /\ phase = "idle"
      /\ pending = <<>> /\ output = <<>> /\ input = <<>>
    BY DEF Init
<1>2. /\ <<>> \in Seq(Bytes) /\ <<>> \in Seq(Emitted) /\ Len(<<>>) = 0
    BY EmptySeq
<1>3. TypeOK
    BY <1>1, <1>2 DEF TypeOK
<1>4. Len(output) = 0 /\ Len(pending) = 0 /\ Len(input) = 0
    BY <1>1, <1>2
<1>5. Kept
    BY <1>1, <1>4 DEF Kept
<1>6. PendingBounded /\ Held /\ RuneStarts
    <2>1. PendingBounded
        BY <1>4 DEF PendingBounded
    <2> QED
        BY <1>1, <2>1 DEF Held, RuneStarts
<1>7. Settled /\ Covered /\ HiddenWhole
    BY <1>4 DEF Settled, Covered, HiddenWhole
<1> QED
    BY <1>3, <1>5, <1>6, <1>7 DEF IInv

(* A Write to a redactor with secrets, up to its flush.                    *)
LEMMA WriteKeeps ==
    ASSUME IInv, NEW chunk \in Seq(Bytes), phase = "idle", ~failed,
           secrets # {}, UNCHANGED <<secrets, output, failed>>,
           input' = input \o chunk, pending' = pending \o chunk, phase' = "flush"
    PROVE  IInv'
<1>1. TypeOK /\ Kept /\ Held /\ RuneStarts /\ Settled /\ Covered /\ HiddenWhole
    BY DEF IInv
<1>2. pending \in Seq(Bytes) /\ input \in Seq(Bytes)
    BY <1>1 DEF TypeOK
<1>3. /\ Len(pending) \in Nat /\ Len(output) \in Nat /\ Len(input) \in Nat
      /\ Len(chunk) \in Nat
    BY <1>1, Shapes, LenProperties
<1>4. /\ pending' \in Seq(Bytes) /\ Len(pending') = Len(pending) + Len(chunk)
      /\ \A k \in 1 .. Len(pending) : pending'[k] = pending[k]
      /\ \A k \in 1 .. Len(chunk) : pending'[Len(pending) + k] = chunk[k]
    BY <1>2, Joined
<1>5. /\ input' \in Seq(Bytes) /\ Len(input') = Len(input) + Len(chunk)
      /\ \A k \in 1 .. Len(input) : input'[k] = input[k]
      /\ \A k \in 1 .. Len(chunk) : input'[Len(input) + k] = chunk[k]
    BY <1>2, Joined
<1>6. TypeOK'
    BY <1>1, <1>4, <1>5 DEF TypeOK
<1>7. /\ Len(input) = Len(output) + Len(pending)
      /\ \A k \in 1 .. Len(output) : output[k].byte = input[k]
      /\ \A k \in 1 .. Len(pending) : pending[k] = input[Len(output) + k]
    BY <1>1 DEF Kept
<1>8. Kept'
    <2>1. Len(input') = Len(output) + Len(pending')
        BY <1>3, <1>4, <1>5, <1>7
    <2>2. ASSUME NEW k \in 1 .. Len(output)
          PROVE  output[k].byte = input'[k]
        <3>1. k \in 1 .. Len(input)
            BY <1>3, <1>7
        <3> QED
            BY <1>5, <1>7, <3>1
    <2>3. ASSUME NEW k \in 1 .. Len(pending')
          PROVE  pending'[k] = input'[Len(output) + k]
        <3>1. CASE k \in 1 .. Len(pending)
            <4>1. Len(output) + k \in 1 .. Len(input)
                BY <1>3, <1>7, <3>1
            <4>2. input'[Len(output) + k] = input[Len(output) + k]
                BY <1>5, <4>1
            <4> QED
                BY <1>4, <1>7, <3>1, <4>2
        <3>2. ASSUME NEW l \in 1 .. Len(chunk), k = Len(pending) + l
              PROVE  pending'[k] = input'[Len(output) + k]
            <4>1. Len(output) + k = Len(input) + l
                BY <1>3, <1>7, <3>2
            <4> QED
                BY <1>4, <1>5, <3>2, <4>1
        <3>3. k \in 1 .. Len(pending) \/ \E l \in 1 .. Len(chunk) : k = Len(pending) + l
            <4>1. k \in 1 .. Len(pending) + Len(chunk)
                BY <1>4
            <4> QED
                BY <1>3, <4>1, OldOrNew
        <3> QED
            BY <3>1, <3>2, <3>3
    <2> QED
        BY <2>1, <2>2, <2>3 DEF Kept
<1>9. PendingBounded' /\ Held'
    BY <1>1 DEF PendingBounded, Held
<1>10. RuneStarts'
    <2>1. pending # <<>> => pending' # <<>> /\ pending'[1] = pending[1]
        <3>1. ASSUME pending # <<>>
              PROVE  1 \in 1 .. Len(pending) /\ Len(pending') # 0
            BY <1>2, <1>3, <1>4, <3>1, EmptySeq
        <3>2. Len(<<>>) = 0
            BY EmptySeq
        <3> QED
            BY <1>4, <3>1, <3>2
    <2>2. Longest' = Longest
        BY DEF Longest
    <2> QED
        BY <1>1, <2>1, <2>2 DEF RuneStarts
<1>11. Settled'
    <2>1. SUFFICES ASSUME NEW s \in secrets, NEW i \in 1 .. Len(output)
                   PROVE  \E j \in 1 .. Len(s) : Differs(i + j - 1, s[j])'
        BY DEF Settled
    <2>2. PICK j \in 1 .. Len(s) : Differs(i + j - 1, s[j])
        BY <1>1 DEF Settled
    <2> DEFINE q == i + j - 1
    <2>3. Differs(q, s[j]) /\ q \in Int
        <3>1. Len(s) \in Nat
            BY <1>1, SecretsAre DEF TypeOK
        <3> QED
            BY <1>3, <2>2, <3>1
    <2> HIDE DEF q
    <2>4. Differs(q, s[j])'
        <3>1. CASE q <= Len(output) /\ (output[q].hidden \/ output[q].byte # s[j])
            BY <3>1 DEF Differs
        <3>2. CASE /\ Len(output) < q /\ q <= Len(output) + Len(pending)
                   /\ pending[q - Len(output)] # s[j]
            <4>1. q - Len(output) \in 1 .. Len(pending)
                BY <1>3, <2>3, <3>2
            <4>2. pending'[q - Len(output)] # s[j]
                BY <1>4, <3>2, <4>1
            <4>3. q <= Len(output) + Len(pending')
                BY <1>3, <1>4, <2>3, <3>2
            <4> QED
                BY <3>2, <4>2, <4>3 DEF Differs
        <3> QED
            BY <2>3, <3>1, <3>2 DEF Differs
    <2> QED
        BY <2>4 DEF q
<1>12. Covered' /\ HiddenWhole'
    BY <1>1 DEF Covered, HiddenWhole
<1> QED
    BY <1>6, <1>8, <1>9, <1>10, <1>11, <1>12 DEF IInv

(* A Write to a redactor without secrets.                                  *)
LEMMA PassKeeps ==
    ASSUME IInv, NEW chunk \in Seq(Bytes), phase = "idle", ~failed,
           secrets = {}, secrets' = secrets, pending' = pending,
           input' = input \o chunk,
           \/ output' = output \o Plain(chunk) /\ UNCHANGED <<failed, phase>>
           \/ DestinationFails(chunk)
    PROVE  IInv'
<1>1. TypeOK /\ Kept /\ Held /\ HiddenWhole
    BY DEF IInv
<1>2. pending = <<>> /\ pending \in Seq(Bytes) /\ input \in Seq(Bytes)
    BY <1>1 DEF TypeOK, Held
<1>3. /\ Len(pending) = 0 /\ Len(output) \in Nat /\ Len(input) \in Nat
      /\ Len(chunk) \in Nat
    BY <1>1, <1>2, Shapes, EmptySeq, LenProperties
<1>4. /\ input' \in Seq(Bytes) /\ Len(input') = Len(input) + Len(chunk)
      /\ \A k \in 1 .. Len(input) : input'[k] = input[k]
      /\ \A k \in 1 .. Len(chunk) : input'[Len(input) + k] = chunk[k]
    BY <1>2, Joined
<1>5. /\ Len(input) = Len(output)
      /\ \A k \in 1 .. Len(output) : output[k].byte = input[k]
    BY <1>1, <1>3 DEF Kept
<1>6. CASE output' = output \o Plain(chunk) /\ UNCHANGED <<failed, phase>>
    <2>1. /\ output' \in Seq(Emitted) /\ Len(output') = Len(output) + Len(chunk)
          /\ \A k \in 1 .. Len(output) : output'[k] = output[k]
          /\ \A k \in 1 .. Len(chunk) :
                /\ output'[Len(output) + k].byte = chunk[k]
                /\ ~ output'[Len(output) + k].hidden
        BY <1>1, <1>6, PlainAfter
    <2>2. TypeOK'
        BY <1>1, <1>4, <1>6, <2>1 DEF TypeOK
    <2>3. ASSUME NEW i \in 1 .. Len(output')
          PROVE  i \in 1 .. Len(output) \/ \E k \in 1 .. Len(chunk) : i = Len(output) + k
        <3>1. i \in 1 .. Len(output) + Len(chunk)
            BY <2>1
        <3>2. Len(output) \in Nat /\ Len(chunk) \in Nat
            BY <1>3
        <3> QED
            BY <3>1, <3>2, OldOrNew
    <2>4. Kept'
        <3>1. ASSUME NEW i \in 1 .. Len(output')
              PROVE  output'[i].byte = input'[i]
            <4>1. CASE i \in 1 .. Len(output)
                BY <1>4, <1>5, <2>1, <4>1
            <4>2. ASSUME NEW k \in 1 .. Len(chunk), i = Len(output) + k
                  PROVE  output'[i].byte = input'[i]
                BY <1>4, <1>5, <2>1, <4>2
            <4> QED
                BY <2>3, <4>1, <4>2
        <3>2. Len(input') = Len(output') + Len(pending')
            BY <1>3, <1>4, <1>5, <2>1
        <3>3. \A k \in 1 .. Len(pending') : pending'[k] = input'[Len(output') + k]
            BY <1>3
        <3> QED
            BY <1>6, <3>1, <3>2, <3>3 DEF Kept
    <2>5. /\ PendingBounded' /\ RuneStarts' /\ Settled' /\ Covered'
          /\ Held'
        BY <1>1, <1>2, <1>6 DEF PendingBounded, RuneStarts, Settled, Covered, Held
    <2>6. HiddenWhole'
        <3>1. ASSUME NEW i \in 1 .. Len(output)
              PROVE  ~ output[i].hidden
            BY <1>1 DEF HiddenWhole
        <3>2. ASSUME NEW i \in 1 .. Len(output')
              PROVE  ~ output'[i].hidden
            <4>1. CASE i \in 1 .. Len(output)
                BY <2>1, <3>1, <4>1
            <4>2. CASE \E k \in 1 .. Len(chunk) : i = Len(output) + k
                BY <2>1, <4>2
            <4> QED
                BY <2>3, <4>1, <4>2
        <3> QED
            BY <3>2 DEF HiddenWhole
    <2> QED
        BY <2>2, <2>4, <2>5, <2>6 DEF IInv
<1>7. CASE DestinationFails(chunk)
    <2>1. \A k \in 1 .. Len(output) : input'[k] = input[k]
        BY <1>4, <1>5
    <2>2. \A k \in 1 .. Len(chunk) : input'[Len(output) + k] = chunk[k]
        BY <1>4, <1>5
    <2>3. Len(output) + Len(chunk) <= Len(input') /\ input' \in Seq(Bytes)
        BY <1>3, <1>4, <1>5
    <2>4. phase # "closed"
        OBVIOUS
    <2> QED
        BY <1>7, <2>1, <2>2, <2>3, <2>4, FailsKeeps
<1> QED
    BY <1>6, <1>7

LEMMA CloseKeeps ==
    ASSUME IInv, Close
    PROVE  IInv'
<1>1. TypeOK /\ Kept /\ Held /\ Settled /\ Covered /\ HiddenWhole
    BY DEF IInv
<1>2. /\ UNCHANGED <<secrets, pending, output, failed, input>>
      /\ phase = "idle" /\ phase' = IF failed THEN "closed" ELSE "final"
    BY DEF Close
<1>3. TypeOK'
    BY <1>1, <1>2 DEF TypeOK
<1>4. Kept' /\ PendingBounded' /\ Held' /\ RuneStarts'
    BY <1>1, <1>2 DEF Kept, PendingBounded, Held, RuneStarts
<1>5. Settled'
    <2>1. SUFFICES ASSUME ~failed, NEW s \in secrets, NEW i \in 1 .. Len(output)
                   PROVE  \E j \in 1 .. Len(s) : Differs(i + j - 1, s[j])'
        BY <1>2 DEF Settled
    <2>2. PICK j \in 1 .. Len(s) : Differs(i + j - 1, s[j])
        BY <1>1, <1>2, <2>1 DEF Settled
    <2>3. Differs(i + j - 1, s[j])'
        BY <1>2, <2>2 DEF Differs
    <2> QED
        BY <2>3
<1>6. Covered' /\ HiddenWhole'
    BY <1>1, <1>2 DEF Covered, HiddenWhole
<1> QED
    BY <1>3, <1>4, <1>5, <1>6 DEF IInv

(* A part of what is pending, of which no secret is a part, may be passed  *)
(* to a destination that fails.                                            *)
LEMMA PendingFails ==
    ASSUME IInv, phase \in {"flush", "final"}, NEW n \in 0 .. Len(pending),
           DestinationFails(Prefix(pending, n)),
           UNCHANGED <<secrets, input, pending>>,
           \A s \in secrets : \A k \in 1 .. n :
                k + Len(s) - 1 <= n => ~ Occurs(s, pending, k)
    PROVE  IInv'
<1>1. TypeOK /\ Kept /\ Held
    BY DEF IInv
<1>2. /\ pending \in Seq(Bytes) /\ input \in Seq(Bytes)
      /\ Len(pending) \in Nat /\ Len(output) \in Nat
    BY <1>1, Shapes DEF TypeOK
<1> DEFINE text == Prefix(pending, n)
<1>3. /\ text \in Seq(Bytes) /\ Len(text) = n
      /\ \A k \in 1 .. n : text[k] = pending[k]
    BY <1>2, PrefixIs
<1>4. DestinationFails(text)
    OBVIOUS
<1> HIDE DEF text
<1>5. ~failed /\ phase # "closed"
    BY <1>1 DEF Held
<1>6. /\ Len(input) = Len(output) + Len(pending)
      /\ \A k \in 1 .. Len(output) : output[k].byte = input[k]
      /\ \A k \in 1 .. Len(pending) : pending[k] = input[Len(output) + k]
    BY <1>1, <1>5 DEF Kept
<1>7. Len(output) + Len(text) <= Len(input) /\ Len(text) <= Len(pending)
    BY <1>2, <1>3, <1>6
<1>8. \A k \in 1 .. Len(text) :
        text[k] = pending[k] /\ input[Len(output) + k] = text[k]
    BY <1>2, <1>3, <1>6
<1>9. ASSUME NEW s \in secrets, NEW k \in 1 .. Len(text),
             k + Len(s) - 1 <= Len(text)
      PROVE  ~ Occurs(s, text, k)
    <2>1. /\ s \in Seq(Bytes) /\ s # <<>> /\ Len(s) \in Nat
          /\ k \in Nat \ {0} /\ k \in 1 .. n
        BY <1>1, <1>2, <1>3, SecretsAre DEF TypeOK
    <2>2. k + Len(s) - 1 <= Len(pending)
        BY <1>2, <1>3, <1>9, <2>1
    <2>3. ~ Occurs(s, pending, k)
        BY <1>3, <1>9, <2>1
    <2>4. PICK j \in 1 .. Len(s) : pending[k + j - 1] # s[j]
        BY <1>1, <1>2, <2>1, <2>2, <2>3, Mismatch
    <2>5. k + j - 1 \in 1 .. n
        BY <1>3, <1>9, <2>1, <2>4
    <2>6. text[k + j - 1] # s[j]
        BY <1>3, <2>4, <2>5
    <2> QED
        BY <1>3, <2>1, <2>4, <2>6, OccursIs
<1>10. /\ secrets' = secrets /\ pending' = pending
       /\ input' \in Seq(Bytes)
       /\ Len(output) + Len(text) <= Len(input')
       /\ \A k \in 1 .. Len(output) : input'[k] = output[k].byte
       /\ \A k \in 1 .. Len(output) : input'[k] = input[k]
       /\ \A k \in 1 .. Len(text) : input'[Len(output) + k] = text[k]
    BY <1>2, <1>6, <1>7, <1>8
<1> QED
    BY <1>3, <1>4, <1>5, <1>7, <1>8, <1>9, <1>10, FailsKeeps

(* An iteration of the loop of flush: the secret that is found, at p, and  *)
(* what is before it are passed on, or the destination fails.              *)
LEMMA ReplaceMoves ==
    ASSUME TypeOK, Replace
    PROVE  \E p \in 1 .. Len(pending), secret \in secrets :
            /\ Occurs(secret, pending, p)
            /\ \A s \in secrets : \A k \in 1 .. p - 1 : ~ Occurs(s, pending, k)
            /\ \/ DestinationFails(Prefix(pending, p - 1)) /\ UNCHANGED pending
               \/ /\ p - 1 + Len(secret) \in 0 .. Len(pending)
                  /\ Moves(p - 1 + Len(secret)) /\ phase' = phase
                  /\ \A k \in 1 .. p - 1 : ~ output'[Len(output) + k].hidden
                  /\ \A k \in 1 .. Len(secret) :
                        output'[Len(output) + (p - 1) + k].hidden = TRUE
<1>1. /\ pending \in Seq(Bytes) /\ output \in Seq(Emitted)
      /\ Len(pending) \in Nat /\ Len(output) \in Nat
    BY Shapes DEF TypeOK
<1>2. Occurrences(pending) # {} /\ UNCHANGED <<secrets, input>>
    BY DEF Replace
<1>3. /\ FirstSecret(pending)[1] \in 1 .. Len(pending)
      /\ FirstSecret(pending)[2] \in secrets
      /\ Occurs(FirstSecret(pending)[2], pending, FirstSecret(pending)[1])
      /\ \A s \in secrets : \A i \in 1 .. Len(pending) :
            Occurs(s, pending, i) => FirstSecret(pending)[1] <= i
    BY <1>1, <1>2, FirstIs DEF TypeOK
<1>4. PICK p \in 1 .. Len(pending) : p = FirstSecret(pending)[1]
    BY <1>3
<1>5. PICK secret \in secrets : secret = FirstSecret(pending)[2]
    BY <1>3
<1> DEFINE before == Prefix(pending, p - 1)
           m == p - 1 + Len(secret)
<1>6. \/ /\ output' = output \o Plain(before) \o Hidden(secret)
         /\ pending' = Suffix(pending, m)
         /\ UNCHANGED <<failed, phase>>
      \/ DestinationFails(before) /\ UNCHANGED pending
    BY <1>4, <1>5 DEF Replace
<1>7. secret \in Seq(Bytes) /\ secret # <<>> /\ Len(secret) \in Nat \ {0}
    BY SecretsAre DEF TypeOK
<1>8. /\ p \in Nat \ {0} /\ m \in 0 .. Len(pending)
      /\ Occurs(secret, pending, p)
      /\ \A k \in 1 .. Len(secret) : pending[p + k - 1] = secret[k]
    <2>1. p \in Nat \ {0} /\ Occurs(secret, pending, p)
        BY <1>1, <1>3, <1>4, <1>5
    <2>2. /\ p + Len(secret) - 1 <= Len(pending)
          /\ \A k \in 1 .. Len(secret) : pending[p + k - 1] = secret[k]
        BY <1>1, <1>7, <2>1, OccursIs
    <2> QED
        BY <1>1, <1>7, <2>1, <2>2
<1>9. ASSUME NEW s \in secrets, NEW k \in 1 .. p - 1
      PROVE  ~ Occurs(s, pending, k)
    <2>1. k \in 1 .. Len(pending) /\ ~ (p <= k)
        BY <1>1, <1>8
    <2> QED
        BY <1>3, <1>4, <2>1
<1>10. CASE DestinationFails(before) /\ UNCHANGED pending
    BY <1>8, <1>9, <1>10
<1>11. CASE /\ output' = output \o Plain(before) \o Hidden(secret)
            /\ pending' = Suffix(pending, m)
            /\ UNCHANGED <<failed, phase>>
    <2> HIDE DEF before, m
    <2>1. /\ before \in Seq(Bytes) /\ Len(before) = p - 1
          /\ \A k \in 1 .. p - 1 : before[k] = pending[k]
        <3>1. p - 1 \in 0 .. Len(pending)
            BY <1>1, <1>8
        <3> QED
            BY <1>1, <3>1, PrefixIs DEF before
    <2> DEFINE mid == output \o Plain(before)
               tail == Hidden(secret)
    <2>2. /\ mid \in Seq(Emitted) /\ Len(mid) = Len(output) + (p - 1)
          /\ \A k \in 1 .. Len(output) : mid[k] = output[k]
          /\ \A k \in 1 .. p - 1 : mid[Len(output) + k].byte = before[k]
          /\ \A k \in 1 .. p - 1 : ~ mid[Len(output) + k].hidden
        BY <2>1, PlainAfter
    <2>3. /\ tail \in Seq(Emitted) /\ Len(tail) = Len(secret)
          /\ \A k \in 1 .. Len(secret) :
                tail[k] = [byte |-> secret[k], hidden |-> TRUE]
        BY <1>7, HiddenIs
    <2>4. output' = mid \o tail
        BY <1>11
    <2> HIDE DEF mid, tail
    <2>5. /\ output' \in Seq(Emitted) /\ Len(output') = Len(mid) + Len(tail)
          /\ \A k \in 1 .. Len(mid) : output'[k] = mid[k]
          /\ \A k \in 1 .. Len(tail) : output'[Len(mid) + k] = tail[k]
        <3>1. mid \in Seq(Emitted) /\ tail \in Seq(Emitted)
            BY <2>2, <2>3
        <3> QED
            BY <2>4, <3>1, Joined
    <2>6. Len(output') = Len(output) + m
        BY <1>1, <1>7, <1>8, <2>2, <2>3, <2>5 DEF m
    <2>7. \A k \in 1 .. Len(output) : output'[k] = output[k]
        <3>1. TAKE k \in 1 .. Len(output)
        <3>2. k \in 1 .. Len(mid)
            BY <1>1, <1>8, <2>2
        <3> QED
            BY <2>2, <2>5, <3>2
    <2>8. ASSUME NEW k \in 1 .. p - 1
          PROVE  /\ output'[Len(output) + k].byte = pending[k]
                 /\ ~ output'[Len(output) + k].hidden
        <3>1. Len(output) + k \in 1 .. Len(mid)
            BY <1>1, <1>8, <2>2
        <3>2. output'[Len(output) + k] = mid[Len(output) + k]
            BY <2>5, <3>1
        <3> QED
            BY <2>1, <2>2, <3>2
    <2>9. ASSUME NEW k \in 1 .. Len(secret), NEW i \in Nat,
                 i = Len(output) + (p - 1) + k
          PROVE  output'[i].byte = secret[k] /\ output'[i].hidden = TRUE
        <3>1. i = Len(mid) + k /\ k \in 1 .. Len(tail)
            BY <2>2, <2>3, <2>9
        <3>2. output'[i] = [byte |-> secret[k], hidden |-> TRUE]
            BY <2>3, <2>5, <3>1
        <3> QED
            BY <3>2
    <2>10. ASSUME NEW k \in 1 .. m
           PROVE  k \in 1 .. p - 1 \/ \E j \in 1 .. Len(secret) : k = (p - 1) + j
        <3>1. p - 1 \in Nat /\ Len(secret) \in Nat /\ k \in 1 .. (p - 1) + Len(secret)
            BY <1>7, <1>8 DEF m
        <3> QED
            BY <3>1, OldOrNew
    <2>11. \A k \in 1 .. m : output'[Len(output) + k].byte = pending[k]
        <3>1. TAKE k \in 1 .. m
        <3>2. CASE k \in 1 .. p - 1
            BY <2>8, <3>2
        <3>3. ASSUME NEW j \in 1 .. Len(secret), k = (p - 1) + j
              PROVE  output'[Len(output) + k].byte = pending[k]
            <4> DEFINE i == Len(output) + k
            <4>1. i \in Nat /\ i = Len(output) + (p - 1) + j /\ k = p + j - 1
                BY <1>1, <1>7, <1>8, <3>3
            <4> HIDE DEF i
            <4>2. output'[i].byte = secret[j]
                BY <2>9, <4>1
            <4> QED
                BY <1>8, <4>1, <4>2 DEF i
        <3> QED
            BY <2>10, <3>2, <3>3
    <2>12. /\ pending' \in Seq(Bytes) /\ Len(pending') = Len(pending) - m
           /\ \A k \in 1 .. Len(pending) - m : pending'[k] = pending[m + k]
        BY <1>1, <1>8, <1>11, SuffixIs
    <2>13. Moves(m)
        BY <1>2, <1>11, <2>5, <2>6, <2>7, <2>11, <2>12 DEF Moves
    <2>14. \A k \in 1 .. Len(secret) :
            output'[Len(output) + (p - 1) + k].hidden = TRUE
        <3>1. TAKE k \in 1 .. Len(secret)
        <3>2. Len(output) + (p - 1) + k \in Nat
            BY <1>1, <1>7, <1>8
        <3> QED
            BY <2>9, <3>2
    <2> QED
        BY <1>8, <1>9, <1>11, <2>8, <2>13, <2>14 DEF m
<1> QED
    BY <1>6, <1>10, <1>11

LEMMA ReplaceKeeps ==
    ASSUME IInv, Replace
    PROVE  IInv'
<1>1. TypeOK /\ Kept /\ Held /\ Settled /\ HiddenWhole
    BY DEF IInv
<1>2. Len(pending) \in Nat /\ Len(output) \in Nat /\ pending \in Seq(Bytes)
    BY <1>1, Shapes DEF TypeOK
<1>3. phase \in {"flush", "final"} /\ UNCHANGED <<secrets, input>>
    BY DEF Replace
<1>4. ~failed /\ phase # "closed"
    BY <1>1, <1>3 DEF Held
<1>5. PICK p \in 1 .. Len(pending), secret \in secrets :
        /\ Occurs(secret, pending, p)
        /\ \A s \in secrets : \A k \in 1 .. p - 1 : ~ Occurs(s, pending, k)
        /\ \/ DestinationFails(Prefix(pending, p - 1)) /\ UNCHANGED pending
           \/ /\ p - 1 + Len(secret) \in 0 .. Len(pending)
              /\ Moves(p - 1 + Len(secret)) /\ phase' = phase
              /\ \A k \in 1 .. p - 1 : ~ output'[Len(output) + k].hidden
              /\ \A k \in 1 .. Len(secret) :
                    output'[Len(output) + (p - 1) + k].hidden = TRUE
    BY <1>1, ReplaceMoves
<1> DEFINE m == p - 1 + Len(secret)
<1>6. secret \in Seq(Bytes) /\ secret # <<>> /\ Len(secret) \in Nat \ {0}
    BY <1>1, SecretsAre DEF TypeOK
<1>7. p \in Nat \ {0}
    BY <1>2
<1>8. \A k \in 1 .. Len(secret) : pending[p + k - 1] = secret[k]
    BY <1>2, <1>5, <1>6, <1>7, OccursIs
<1>9. \A s \in secrets : \A k \in 1 .. p - 1 : ~ Occurs(s, pending, k)
    BY <1>5
<1>10. CASE DestinationFails(Prefix(pending, p - 1)) /\ UNCHANGED pending
    <2>1. p - 1 \in 0 .. Len(pending)
        BY <1>2, <1>7
    <2> QED
        BY <1>3, <1>9, <1>10, <2>1, PendingFails
<1>11. CASE /\ m \in 0 .. Len(pending)
            /\ Moves(m) /\ phase' = phase
            /\ \A k \in 1 .. p - 1 : ~ output'[Len(output) + k].hidden
            /\ \A k \in 1 .. Len(secret) :
                    output'[Len(output) + (p - 1) + k].hidden = TRUE
    <2>1. m \in 0 .. Len(pending) /\ m \in Nat /\ Moves(m) /\ phase' = phase
        BY <1>2, <1>11
    <2>2. /\ \A k \in 1 .. p - 1 : ~ output'[Len(output) + k].hidden
          /\ \A k \in 1 .. Len(secret) :
                output'[Len(output) + (p - 1) + k].hidden = TRUE
        BY <1>11
    <2>3. m = (p - 1) + Len(secret) /\ p + Len(secret) = m + 1
        BY <1>6, <1>7
    <2> HIDE DEF m
    <2>4. /\ output' \in Seq(Emitted) /\ Len(output') = Len(output) + m
          /\ \A k \in 1 .. Len(output) : output'[k] = output[k]
          /\ \A k \in 1 .. m : output'[Len(output) + k].byte = pending[k]
          /\ pending' \in Seq(Bytes)
          /\ secrets' = secrets /\ input' = input /\ failed' = failed
        BY <2>1 DEF Moves
    <2>5. ASSUME NEW k \in 1 .. m
          PROVE  k \in 1 .. p - 1 \/ \E j \in 1 .. Len(secret) : k = (p - 1) + j
        <3>1. p - 1 \in Nat /\ Len(secret) \in Nat /\ k \in 1 .. (p - 1) + Len(secret)
            BY <1>6, <1>7, <2>3
        <3> QED
            BY <3>1, OldOrNew
    <2>6. ASSUME NEW i \in 1 .. Len(output')
          PROVE  i \in 1 .. Len(output) \/ \E k \in 1 .. m : i = Len(output) + k
        <3>1. Len(output) \in Nat /\ m \in Nat /\ i \in 1 .. Len(output) + m
            BY <1>2, <2>1, <2>4
        <3> QED
            BY <3>1, OldOrNew
    <2>7. ASSUME NEW k \in 1 .. Len(secret), NEW i \in Nat,
                 i = Len(output) + (p - 1) + k
          PROVE  output'[i].byte = secret[k] /\ output'[i].hidden = TRUE
        <3>1. output'[i].hidden = TRUE
            BY <2>2, <2>7
        <3> DEFINE l == p + k - 1
        <3>2. l \in 1 .. m /\ i = Len(output) + l
            BY <1>2, <1>6, <1>7, <2>3, <2>7
        <3>3. output'[i].byte = pending[l]
            <4> HIDE DEF l
            <4> QED
                BY <2>4, <3>2
        <3> QED
            BY <1>8, <3>1, <3>3
    <2>8. TypeOK'
        BY <1>1, <2>1, <2>4 DEF TypeOK
    <2>9. Kept'
        BY <1>1, <1>4, <2>1, MovesKept
    <2>10. PendingBounded'
        BY <1>3, <2>1 DEF PendingBounded
    <2>11. Held'
        BY <1>1, <1>3, <1>4, <1>5, <2>1, <2>4 DEF Held
    <2>12. RuneStarts'
        <3> DEFINE last == Len(output) + m
        <3>1. /\ last \in Nat /\ last = Len(output) + (p - 1) + Len(secret)
              /\ Len(secret) \in 1 .. Len(secret)
            BY <1>2, <1>6, <1>7, <2>1, <2>3
        <3>2. output'[last].hidden = TRUE
            <4> HIDE DEF last
            <4> QED
                BY <2>7, <3>1
        <3> QED
            BY <2>4, <3>2 DEF RuneStarts
    <2>13. ASSUME NEW s \in secrets, NEW i \in 1 .. Len(output')
           PROVE  \E j \in 1 .. Len(s) : Differs(i + j - 1, s[j])'
        <3>1. CASE i \in 1 .. Len(output)
            BY <1>1, <1>4, <2>1, <3>1, MovesSettleOld
        <3>2. ASSUME NEW k \in 1 .. m, i = Len(output) + k
              PROVE  \E j \in 1 .. Len(s) : Differs(i + j - 1, s[j])'
            <4>1. Len(s) \in Nat \ {0} /\ i \in Nat /\ k \in Nat \ {0}
                BY <1>1, <1>2, <2>1, <3>2, SecretsAre DEF TypeOK
            <4>2. CASE k \in 1 .. p - 1 /\ k + Len(s) - 1 <= Len(pending)
                <5>1. ~ Occurs(s, pending, k)
                    BY <1>9, <4>2
                <5> QED
                    BY <1>1, <2>1, <3>2, <4>1, <4>2, <5>1, MovesSettleNew
            <4>3. CASE k \in 1 .. p - 1 /\ ~ (k + Len(s) - 1 <= Len(pending))
                <5>1. PICK j \in 1 .. Len(s) : j = p - k + 1
                    BY <1>2, <1>7, <4>1, <4>3
                <5> DEFINE q == i + j - 1
                <5>2. /\ q = Len(output) + (p - 1) + 1 /\ q \in Nat
                      /\ 1 \in 1 .. Len(secret) /\ q <= Len(output')
                    BY <1>2, <1>6, <1>7, <2>3, <2>4, <3>2, <4>1, <4>3, <5>1
                <5> HIDE DEF q
                <5>3. output'[q].hidden = TRUE
                    BY <2>7, <5>2
                <5>4. Differs(q, s[j])'
                    BY <5>2, <5>3 DEF Differs
                <5> QED
                    BY <5>4 DEF q
            <4>4. CASE \E j \in 1 .. Len(secret) : k = (p - 1) + j
                <5>1. PICK l \in 1 .. Len(secret) : k = (p - 1) + l
                    BY <4>4
                <5>2. i = Len(output) + (p - 1) + l
                    BY <1>2, <1>6, <1>7, <3>2, <5>1
                <5>3. output'[i].hidden = TRUE
                    BY <2>7, <4>1, <5>2
                <5> DEFINE q == i + 1 - 1
                <5>4. q = i /\ 1 \in 1 .. Len(s) /\ i <= Len(output')
                    BY <4>1
                <5> HIDE DEF q
                <5>5. Differs(q, s[1])'
                    BY <5>3, <5>4 DEF Differs
                <5> QED
                    BY <5>4, <5>5 DEF q
            <4> QED
                BY <2>5, <4>2, <4>3, <4>4
        <3> QED
            BY <2>6, <3>1, <3>2
    <2>14. Settled'
        BY <2>4, <2>13 DEF Settled
    <2>15. Covered'
        BY <2>4, <2>8, <2>13, SettledIsCovered DEF Covered
    <2>16. HiddenWhole'
        <3>1. ASSUME NEW i \in 1 .. Len(output'), output'[i].hidden
              PROVE  \E s \in secrets', start \in 1 .. i :
                        /\ i < start + Len(s)
                        /\ start + Len(s) - 1 <= Len(output')
                        /\ \A k \in 1 .. Len(s) :
                            /\ output'[start + k - 1].hidden
                            /\ output'[start + k - 1].byte = s[k]
            <4>1. CASE i \in 1 .. Len(output)
                <5>1. Len(output') \in Nat /\ Len(output) <= Len(output')
                    BY <1>2, <2>1, <2>4
                <5> QED
                    BY <1>1, <2>4, <3>1, <4>1, <5>1, HiddenOld
            <4>2. ASSUME NEW k \in 1 .. m, i = Len(output) + k
                  PROVE  \E j \in 1 .. Len(secret) : i = Len(output) + (p - 1) + j
                <5>1. k \notin 1 .. p - 1
                    BY <2>2, <3>1, <4>2
                <5>2. PICK j \in 1 .. Len(secret) : k = (p - 1) + j
                    BY <2>5, <5>1
                <5>3. i = Len(output) + (p - 1) + j
                    BY <1>2, <1>6, <1>7, <4>2, <5>2
                <5> QED
                    BY <5>3
            <4>3. CASE i \notin 1 .. Len(output)
                <5>1. PICK j \in 1 .. Len(secret) : i = Len(output) + (p - 1) + j
                    BY <2>6, <4>2, <4>3
                <5>2. PICK start \in 1 .. i : start = Len(output) + p
                    BY <1>2, <1>6, <1>7, <5>1
                <5>3. i < start + Len(secret) /\ start + Len(secret) - 1 <= Len(output')
                    BY <1>2, <1>6, <1>7, <2>1, <2>3, <2>4, <5>1, <5>2
                <5>4. ASSUME NEW k \in 1 .. Len(secret)
                      PROVE  /\ output'[start + k - 1].hidden
                             /\ output'[start + k - 1].byte = secret[k]
                    <6> DEFINE q == start + k - 1
                    <6>1. q \in Nat /\ q = Len(output) + (p - 1) + k
                        BY <1>2, <1>6, <1>7, <5>2
                    <6> HIDE DEF q
                    <6>2. output'[q].byte = secret[k] /\ output'[q].hidden = TRUE
                        BY <2>7, <6>1
                    <6>3. output'[q].hidden
                        BY <6>2
                    <6> QED
                        BY <6>2, <6>3 DEF q
                <5> QED
                    BY <2>4, <5>3, <5>4
            <4> QED
                BY <4>1, <4>3
        <3> QED
            BY <3>1 DEF HiddenWhole
    <2> QED
        BY <2>8, <2>9, <2>10, <2>11, <2>12, <2>14, <2>15, <2>16 DEF IInv
<1> QED
    BY <1>5, <1>10, <1>11

(* The end of flush: a part of what is pending is passed on.               *)
LEMMA EmitRestMoves ==
    ASSUME TypeOK, Held, EmitRest
    PROVE  \E n \in 0 .. Len(pending) :
            /\ phase = "final" => n = Len(pending)
            /\ phase = "flush" =>
                /\ n > 0 => n + Longest - 1 <= Len(pending)
                /\ n = 0 \/ n = Len(pending) \/ pending[n + 1] \notin Continuation
                /\ \A j \in n + 1 .. Len(pending) :
                    j + Longest - 1 <= Len(pending) =>
                        j # Len(pending) /\ pending[j + 1] \in Continuation
            /\ \/ DestinationFails(Prefix(pending, n)) /\ UNCHANGED pending
               \/ /\ Moves(n) /\ \A k \in 1 .. n : ~ output'[Len(output) + k].hidden
                  /\ phase' = IF phase = "final" THEN "closed" ELSE "idle"
<1>1. /\ pending \in Seq(Bytes)
      /\ Len(pending) \in Nat /\ Len(output) \in Nat
    BY Shapes DEF TypeOK
<1>2. phase \in {"flush", "final"} /\ UNCHANGED <<secrets, input>>
    BY DEF EmitRest
<1>3. phase = "flush" =>
        LET e == EmitEnd(pending) IN
        /\ e \in 0 .. Len(pending)
        /\ e > 0 => e + Longest - 1 <= Len(pending)
        /\ e = 0 \/ e = Len(pending) \/ pending[e + 1] \notin Continuation
        /\ \A j \in e + 1 .. Len(pending) : j + Longest - 1 <= Len(pending) =>
                j # Len(pending) /\ pending[j + 1] \in Continuation
    <2>1. SUFFICES ASSUME secrets # {}
                   PROVE  LET e == EmitEnd(pending) IN
                    /\ e \in 0 .. Len(pending)
                    /\ e > 0 => e + Longest - 1 <= Len(pending)
                    /\ e = 0 \/ e = Len(pending) \/ pending[e + 1] \notin Continuation
                    /\ \A j \in e + 1 .. Len(pending) :
                        j + Longest - 1 <= Len(pending) =>
                            j # Len(pending) /\ pending[j + 1] \in Continuation
        BY DEF Held
    <2> QED
        BY <1>1, <2>1, EmitEndIs DEF TypeOK
<1>4. PICK n \in 0 .. Len(pending) :
        n = IF phase = "final" THEN Len(pending) ELSE EmitEnd(pending)
    BY <1>1, <1>2, <1>3
<1>5. /\ phase = "final" => n = Len(pending)
      /\ phase = "flush" => n = EmitEnd(pending)
    BY <1>4
<1>6. \/ /\ output' = output \o Plain(Prefix(pending, n))
         /\ pending' = Suffix(pending, n)
         /\ phase' = IF phase = "final" THEN "closed" ELSE "idle"
         /\ UNCHANGED failed
      \/ DestinationFails(Prefix(pending, n)) /\ UNCHANGED pending
    BY <1>4 DEF EmitRest
<1>7. ASSUME output' = output \o Plain(Prefix(pending, n)),
             pending' = Suffix(pending, n), UNCHANGED failed
      PROVE  Moves(n) /\ \A k \in 1 .. n : ~ output'[Len(output) + k].hidden
    <2> DEFINE text == Prefix(pending, n)
    <2>1. /\ text \in Seq(Bytes) /\ Len(text) = n
          /\ \A k \in 1 .. n : text[k] = pending[k]
        BY <1>1, PrefixIs
    <2>2. output' = output \o Plain(text)
        BY <1>7
    <2> HIDE DEF text
    <2>3. /\ output' \in Seq(Emitted) /\ Len(output') = Len(output) + n
          /\ \A k \in 1 .. Len(output) : output'[k] = output[k]
          /\ \A k \in 1 .. n : /\ output'[Len(output) + k].byte = text[k]
                               /\ ~ output'[Len(output) + k].hidden
        BY <2>1, <2>2, PlainAfter
    <2>4. /\ pending' \in Seq(Bytes) /\ Len(pending') = Len(pending) - n
          /\ \A k \in 1 .. Len(pending) - n : pending'[k] = pending[n + k]
        BY <1>1, <1>7, SuffixIs
    <2>5. \A k \in 1 .. n : output'[Len(output) + k].byte = pending[k]
        BY <2>1, <2>3
    <2>6. UNCHANGED <<secrets, failed, input>>
        BY <1>2, <1>7
    <2> QED
        BY <2>3, <2>4, <2>5, <2>6 DEF Moves
<1>8. phase = "flush" =>
        /\ n > 0 => n + Longest - 1 <= Len(pending)
        /\ n = 0 \/ n = Len(pending) \/ pending[n + 1] \notin Continuation
        /\ \A j \in n + 1 .. Len(pending) : j + Longest - 1 <= Len(pending) =>
                j # Len(pending) /\ pending[j + 1] \in Continuation
    BY <1>3, <1>5
<1> QED
    BY <1>5, <1>6, <1>7, <1>8

LEMMA EmitRestKeeps ==
    ASSUME IInv, EmitRest
    PROVE  IInv'
<1>1. TypeOK /\ Kept /\ Held /\ RuneStarts /\ Settled /\ HiddenWhole
    BY DEF IInv
<1>2. /\ pending \in Seq(Bytes)
      /\ Len(pending) \in Nat /\ Len(output) \in Nat
    BY <1>1, Shapes DEF TypeOK
<1>3. /\ phase \in {"flush", "final"} /\ Occurrences(pending) = {}
      /\ UNCHANGED <<secrets, input>>
    BY DEF EmitRest
<1>4. ~failed /\ phase # "closed" /\ (phase = "flush" => secrets # {})
    BY <1>1, <1>3 DEF Held
<1>5. PICK n \in 0 .. Len(pending) :
        /\ phase = "final" => n = Len(pending)
        /\ phase = "flush" =>
            /\ n > 0 => n + Longest - 1 <= Len(pending)
            /\ n = 0 \/ n = Len(pending) \/ pending[n + 1] \notin Continuation
            /\ \A j \in n + 1 .. Len(pending) :
                j + Longest - 1 <= Len(pending) =>
                    j # Len(pending) /\ pending[j + 1] \in Continuation
        /\ \/ DestinationFails(Prefix(pending, n)) /\ UNCHANGED pending
           \/ /\ Moves(n) /\ \A k \in 1 .. n : ~ output'[Len(output) + k].hidden
              /\ phase' = IF phase = "final" THEN "closed" ELSE "idle"
    BY <1>1, EmitRestMoves
<1>6. phase = "final" => n = Len(pending)
    BY <1>5
<1>7. phase = "flush" =>
        /\ n > 0 => n + Longest - 1 <= Len(pending)
        /\ n = 0 \/ n = Len(pending) \/ pending[n + 1] \notin Continuation
        /\ \A j \in n + 1 .. Len(pending) : j + Longest - 1 <= Len(pending) =>
             j # Len(pending) /\ pending[j + 1] \in Continuation
    BY <1>5
<1>8. n \in 0 .. Len(pending) /\ n \in Nat
    BY <1>2
<1>9. \A s \in secrets : \A k \in 1 .. Len(pending) : ~ Occurs(s, pending, k)
    <2>1. SUFFICES ASSUME NEW s \in secrets, NEW k \in 1 .. Len(pending),
                          Occurs(s, pending, k)
                   PROVE  FALSE
        OBVIOUS
    <2>2. <<k, s>> \in Occurrences(pending)
        BY <2>1 DEF Occurrences
    <2> QED
        BY <1>3, <2>2
<1>10. CASE DestinationFails(Prefix(pending, n)) /\ UNCHANGED pending
    <2>1. \A s \in secrets : \A k \in 1 .. n : ~ Occurs(s, pending, k)
        BY <1>2, <1>8, <1>9
    <2> QED
        BY <1>3, <1>8, <1>10, <2>1, PendingFails
<1>11. CASE /\ Moves(n) /\ \A k \in 1 .. n : ~ output'[Len(output) + k].hidden
            /\ phase' = IF phase = "final" THEN "closed" ELSE "idle"
    <2>1. phase' = IF phase = "final" THEN "closed" ELSE "idle"
        BY <1>11
    <2>2. \A k \in 1 .. n : ~ output'[Len(output) + k].hidden
        BY <1>11
    <2>3. /\ output' \in Seq(Emitted) /\ Len(output') = Len(output) + n
          /\ \A k \in 1 .. Len(output) : output'[k] = output[k]
          /\ secrets' = secrets /\ input' = input /\ failed' = failed
        BY <1>11 DEF Moves
    <2>4. /\ pending' \in Seq(Bytes) /\ Len(pending') = Len(pending) - n
          /\ \A k \in 1 .. Len(pending) - n : pending'[k] = pending[n + k]
        BY <1>11 DEF Moves
    <2>5. Moves(n)
        BY <1>11
    <2>6. TypeOK'
        BY <1>1, <1>3, <2>1, <2>3, <2>4 DEF TypeOK
    <2>7. Kept'
        <3>1. phase' = "closed" => n = Len(pending)
            BY <1>3, <1>6, <2>1
        <3> QED
            BY <1>1, <1>4, <1>8, <2>5, <3>1, MovesKept
    <2>8. /\ secrets' = secrets /\ failed' = failed /\ Longest' = Longest
          /\ phase = "flush" <=> phase' = "idle"
          /\ phase = "final" <=> phase' = "closed"
          /\ phase' \in {"idle", "closed"}
        BY <1>3, <2>1, <2>3 DEF Longest
    <2>9. phase' = "idle" => Longest \in Nat \ {0}
        BY <1>1, <1>4, <2>8, LongestIs DEF TypeOK
    <2>10. PendingBounded'
        <3>1. SUFFICES ASSUME phase' = "idle", NEW i \in 2 .. Len(pending'),
                              i <= Len(pending') + 2 - Longest
                       PROVE  pending'[i] \in Continuation
            BY <2>8 DEF PendingBounded
        <3> DEFINE j == n + (i - 1)
        <3>2. /\ j \in n + 1 .. Len(pending) /\ j + Longest - 1 <= Len(pending)
              /\ j + 1 = n + i /\ i \in 1 .. Len(pending) - n
            BY <1>2, <1>8, <2>4, <2>9, <3>1
        <3> HIDE DEF j
        <3>3. pending[j + 1] \in Continuation
            BY <1>7, <2>8, <3>1, <3>2
        <3> QED
            BY <2>4, <3>2, <3>3
    <2>11. Held'
        <3>1. phase' = "idle" /\ Longest = 1 => pending' = <<>>
            <4>1. SUFFICES ASSUME phase' = "idle", Longest = 1
                           PROVE  Len(pending') = 0
                BY <2>4, EmptySeq
            <4>2. n = Len(pending)
                <5>1. SUFFICES ASSUME n < Len(pending)
                               PROVE  FALSE
                    BY <1>2, <1>8
                <5>2. /\ Len(pending) \in n + 1 .. Len(pending)
                      /\ Len(pending) + Longest - 1 <= Len(pending)
                    BY <1>2, <1>8, <4>1, <5>1
                <5> QED
                    BY <1>7, <2>8, <4>1, <5>2
            <4> QED
                BY <1>2, <2>4, <4>2
        <3>2. secrets = {} => pending' = <<>>
            <4>1. SUFFICES ASSUME secrets = {}
                           PROVE  Len(pending') = 0
                BY <2>4, EmptySeq
            <4>2. Len(pending) = 0 /\ n = 0
                BY <1>1, <1>8, <4>1, EmptySeq DEF Held
            <4> QED
                BY <2>4, <4>2
        <3> QED
            BY <1>4, <2>8, <3>1, <3>2 DEF Held
    <2>12. RuneStarts'
        <3>1. SUFFICES ASSUME phase' = "idle", output' # <<>>, Longest # 1
                       PROVE  \/ output'[Len(output')].hidden
                              \/ pending' # <<>> /\ pending'[1] \notin Continuation
            BY <2>8 DEF RuneStarts
        <3>2. CASE n = 0
            <4>1. Len(output') = Len(output) /\ Len(output) # 0
                BY <1>2, <2>3, <3>1, <3>2, EmptySeq
            <4>2. output # <<>>
                BY <4>1, EmptySeq
            <4>3. output'[Len(output')] = output[Len(output)]
                BY <1>2, <2>3, <4>1
            <4>4. CASE output[Len(output)].hidden
                BY <4>3, <4>4
            <4>5. CASE pending # <<>> /\ pending[1] \notin Continuation
                <5>1. Len(pending) # 0
                    BY <1>2, <4>5, EmptySeq
                <5>2. Len(pending') # 0 /\ 1 \in 1 .. Len(pending) - n /\ n + 1 = 1
                    BY <1>2, <2>4, <3>2, <5>1
                <5>3. pending'[1] = pending[1]
                    BY <2>4, <5>2
                <5>4. pending' # <<>>
                    BY <5>2, EmptySeq
                <5> QED
                    BY <4>5, <5>3, <5>4
            <4> QED
                BY <1>1, <1>4, <2>8, <3>1, <4>2, <4>4, <4>5 DEF RuneStarts
        <3>3. CASE n > 0
            <4>1. n < Len(pending)
                BY <1>2, <1>7, <1>8, <2>8, <2>9, <3>1, <3>3
            <4>2. pending[n + 1] \notin Continuation
                BY <1>2, <1>7, <1>8, <2>8, <3>1, <3>3, <4>1
            <4>3. Len(pending') # 0 /\ 1 \in 1 .. Len(pending) - n
                BY <1>2, <1>8, <2>4, <4>1
            <4>4. pending'[1] = pending[n + 1]
                BY <2>4, <4>3
            <4>5. pending' # <<>>
                BY <4>3, EmptySeq
            <4> QED
                BY <4>2, <4>4, <4>5
        <3> QED
            BY <1>8, <3>2, <3>3
    <2>13. ASSUME NEW i \in 1 .. Len(output')
           PROVE  i \in 1 .. Len(output) \/ \E k \in 1 .. n : i = Len(output) + k
        <3>1. Len(output) \in Nat /\ n \in Nat /\ i \in 1 .. Len(output) + n
            BY <1>2, <1>8, <2>3
        <3> QED
            BY <3>1, OldOrNew
    <2>14. ASSUME NEW s \in secrets, NEW i \in 1 .. Len(output'),
                  phase' = "idle" \/ i + Len(s) - 1 <= Len(output')
           PROVE  \E j \in 1 .. Len(s) : Differs(i + j - 1, s[j])'
        <3>1. CASE i \in 1 .. Len(output)
            BY <1>1, <1>4, <1>8, <2>5, <3>1, MovesSettleOld
        <3>2. ASSUME NEW k \in 1 .. n, i = Len(output) + k
              PROVE  \E j \in 1 .. Len(s) : Differs(i + j - 1, s[j])'
            <4>1. Len(s) \in Nat /\ i \in Nat /\ k \in 1 .. Len(pending)
                BY <1>1, <1>2, <1>8, <3>2, SecretsAre DEF TypeOK
            <4>2. CASE phase' = "idle"
                <5>1. n + Longest - 1 <= Len(pending) /\ Len(s) <= Longest
                    BY <1>1, <1>4, <1>7, <1>8, <2>8, <4>2, LongestIs DEF TypeOK
                <5>2. k + Len(s) - 1 <= Len(pending)
                    BY <1>2, <1>8, <2>9, <4>1, <4>2, <5>1
                <5> QED
                    BY <1>1, <1>8, <1>9, <2>5, <3>2, <4>1, <5>2, MovesSettleNew
            <4>3. CASE i + Len(s) - 1 <= Len(output')
                <5>1. k + Len(s) - 1 <= Len(pending)
                    BY <1>2, <1>8, <2>3, <3>2, <4>1, <4>3
                <5> QED
                    BY <1>1, <1>8, <1>9, <2>5, <3>2, <4>1, <5>1, MovesSettleNew
            <4> QED
                BY <2>14, <4>2, <4>3
        <3> QED
            BY <2>13, <3>1, <3>2
    <2>15. Settled'
        BY <2>8, <2>14 DEF Settled
    <2>16. Covered'
        BY <2>6, <2>8, <2>14, SettledIsCovered DEF Covered
    <2>17. HiddenWhole'
        <3>1. ASSUME NEW i \in 1 .. Len(output'), output'[i].hidden
              PROVE  \E s \in secrets', start \in 1 .. i :
                        /\ i < start + Len(s)
                        /\ start + Len(s) - 1 <= Len(output')
                        /\ \A k \in 1 .. Len(s) :
                            /\ output'[start + k - 1].hidden
                            /\ output'[start + k - 1].byte = s[k]
            <4>1. i \in 1 .. Len(output)
                BY <2>2, <2>13, <3>1
            <4>2. Len(output') \in Nat /\ Len(output) <= Len(output')
                BY <1>2, <1>8, <2>3
            <4> QED
                BY <1>1, <2>3, <2>8, <3>1, <4>1, <4>2, HiddenOld
        <3> QED
            BY <3>1 DEF HiddenWhole
    <2> QED
        BY <2>6, <2>7, <2>10, <2>11, <2>12, <2>15, <2>16, <2>17 DEF IInv
<1> QED
    BY <1>5, <1>10, <1>11

-----------------------------------------------------------------------------
(* No secret is at position i of the input, whatever is still written.     *)
Absent(i) == \A s \in secrets :
    \/ \E j \in 1 .. Len(s) : i + j - 1 <= Len(input) /\ input[i + j - 1] # s[j]
    \/ phase = "closed" /\ Len(input) < i + Len(s) - 1

(* From position i one comes to the next of C over a byte that is visible  *)
(* and where no secret is, or over a secret that is hidden.                *)
Follows(C, i) ==
    \/ ~ output[i].hidden /\ i + 1 \in C /\ Absent(i)
    \/ \E s \in secrets :
        /\ i + Len(s) - 1 <= Len(output) /\ i + Len(s) \in C
        /\ \A k \in 1 .. Len(s) : output[i + k - 1].hidden /\ input[i + k - 1] = s[k]

(* The output was made from left to right, a visible byte or a secret at a *)
(* time, if no secret is contained in another.                             *)
LeftToRight == Separate /\ ~failed =>
    \E C \in SUBSET (1 .. Len(output) + 1) :
        /\ 1 \in C /\ Len(output) + 1 \in C
        /\ \A i \in C : i <= Len(output) => Follows(C, i)

(* A secret that would begin before another one, and end after what is     *)
(* known of the text, is not there: it would contain the other one.        *)
LEMMA NoOverlap ==
    ASSUME secrets \in SecretSets, Separate, NEW text \in Seq(Bytes),
           NEW s \in secrets, NEW t \in secrets,
           NEW p \in Nat \ {0}, NEW k \in 1 .. p - 1,
           Occurs(t, text, p), Len(text) < k + Len(s) - 1
    PROVE  \E j \in 1 .. Len(s) : k + j - 1 <= Len(text) /\ text[k + j - 1] # s[j]
<1>1. /\ s \in Seq(Bytes) /\ s # <<>> /\ Len(s) \in Nat \ {0}
      /\ t \in Seq(Bytes) /\ t # <<>> /\ Len(t) \in Nat \ {0}
      /\ Len(text) \in Nat /\ k \in Nat \ {0} /\ k < p
    BY SecretsAre, LenProperties
<1>2. /\ p + Len(t) - 1 <= Len(text)
      /\ \A l \in 1 .. Len(t) : text[p + l - 1] = t[l]
    BY <1>1, OccursIs
<1>3. SUFFICES ASSUME \A j \in 1 .. Len(s) :
                        k + j - 1 <= Len(text) => text[k + j - 1] = s[j]
               PROVE  FALSE
    OBVIOUS
<1>4. s # t
    BY <1>1, <1>2
<1> DEFINE i == p - k + 1
<1>5. /\ i \in 1 .. Len(s) /\ i \in Nat \ {0}
      /\ i + Len(t) - 1 <= Len(s)
    BY <1>1, <1>2
<1>6. ASSUME NEW l \in 1 .. Len(t)
      PROVE  s[i + l - 1] = t[l]
    <2> DEFINE j == i + l - 1
    <2>1. /\ j \in 1 .. Len(s) /\ k + j - 1 = p + l - 1
          /\ k + j - 1 <= Len(text)
        BY <1>1, <1>2, <1>5
    <2> HIDE DEF j
    <2>2. text[k + j - 1] = s[j]
        BY <1>3, <2>1
    <2>3. text[p + l - 1] = t[l]
        BY <1>2
    <2> QED
        BY <2>1, <2>2, <2>3 DEF j
<1> HIDE DEF i
<1>7. Occurs(t, s, i)
    BY <1>1, <1>5, <1>6, OccursIs
<1>8. Within(t, s)
    BY <1>5, <1>7 DEF Within
<1> QED
    BY <1>4, <1>8 DEF Separate

(* What was made from left to right stays so when more is.                 *)
LEMMA PathGrows ==
    ASSUME TypeOK, LeftToRight, Kept, ~failed, phase # "closed",
           secrets' = secrets,
           output' \in Seq(Emitted), NEW m \in Nat, Len(output') = Len(output) + m,
           \A k \in 1 .. Len(output) : output'[k] = output[k],
           input' \in Seq(Bytes), Len(input) <= Len(input'),
           \A k \in 1 .. Len(input) : input'[k] = input[k],
           Separate => \E D \in SUBSET (Len(output) + 1 .. Len(output) + m + 1) :
                /\ Len(output) + 1 \in D /\ Len(output) + m + 1 \in D
                /\ \A i \in D : i <= Len(output') => Follows(D, i)'
    PROVE  LeftToRight'
<1>1. /\ Len(output) \in Nat /\ Len(input) \in Nat /\ Len(input') \in Nat
      /\ Len(output) <= Len(input)
    <2>1. Len(output) \in Nat /\ Len(input) \in Nat /\ Len(pending) \in Nat
        BY Shapes
    <2>2. Len(input) = Len(output) + Len(pending)
        BY DEF Kept
    <2> QED
        BY <2>1, <2>2, LenProperties
<1>2. SUFFICES ASSUME Separate
               PROVE  \E E \in SUBSET (1 .. Len(output') + 1) :
                        /\ 1 \in E /\ Len(output') + 1 \in E
                        /\ \A i \in E : i <= Len(output') => Follows(E, i)'
    <2>1. Separate' => Separate
        BY DEF Separate, Within, Occurs
    <2> QED
        BY <2>1 DEF LeftToRight
<1>3. PICK C \in SUBSET (1 .. Len(output) + 1) :
        /\ 1 \in C /\ Len(output) + 1 \in C
        /\ \A i \in C : i <= Len(output) => Follows(C, i)
    BY <1>2 DEF LeftToRight
<1>4. PICK D \in SUBSET (Len(output) + 1 .. Len(output) + m + 1) :
        /\ Len(output) + 1 \in D /\ Len(output) + m + 1 \in D
        /\ \A i \in D : i <= Len(output') => Follows(D, i)'
    BY <1>2
<1> DEFINE E == C \cup D
<1>5. E \in SUBSET (1 .. Len(output') + 1) /\ 1 \in E /\ Len(output') + 1 \in E
    BY <1>1, <1>3, <1>4
<1>6. ASSUME NEW i \in C, i <= Len(output)
      PROVE  Follows(E, i)'
    <2>1. i \in 1 .. Len(output)
        BY <1>1, <1>6
    <2>2. Follows(C, i)
        BY <1>3, <1>6
    <2>3. CASE ~ output[i].hidden /\ i + 1 \in C /\ Absent(i)
        <3>1. ASSUME NEW s \in secrets
              PROVE  \E j \in 1 .. Len(s) :
                        i + j - 1 <= Len(input') /\ input'[i + j - 1] # s[j]
            <4>1. PICK j \in 1 .. Len(s) :
                    i + j - 1 <= Len(input) /\ input[i + j - 1] # s[j]
                BY <2>3 DEF Absent
            <4>2. Len(s) \in Nat
                BY SecretsAre DEF TypeOK
            <4> DEFINE q == i + j - 1
            <4>3. q \in 1 .. Len(input) /\ q <= Len(input')
                BY <1>1, <2>1, <4>1, <4>2
            <4>4. input[q] # s[j]
                BY <4>1
            <4> HIDE DEF q
            <4>5. q <= Len(input') /\ input'[q] # s[j]
                BY <4>3, <4>4
            <4> QED
                BY <4>5 DEF q
        <3>2. Absent(i)'
            BY <3>1 DEF Absent
        <3> QED
            BY <2>1, <2>3, <3>2 DEF Follows
    <2>4. ASSUME NEW s \in secrets,
                 i + Len(s) - 1 <= Len(output), i + Len(s) \in C,
                 \A k \in 1 .. Len(s) :
                    output[i + k - 1].hidden /\ input[i + k - 1] = s[k]
          PROVE  Follows(E, i)'
        <3>1. Len(s) \in Nat
            BY SecretsAre DEF TypeOK
        <3>2. ASSUME NEW k \in 1 .. Len(s)
              PROVE  output'[i + k - 1].hidden /\ input'[i + k - 1] = s[k]
            <4> DEFINE q == i + k - 1
            <4>1. q \in 1 .. Len(output) /\ q \in 1 .. Len(input)
                BY <1>1, <2>1, <2>4, <3>1
            <4>2. output[q].hidden /\ input[q] = s[k]
                BY <2>4
            <4> HIDE DEF q
            <4>3. output'[q].hidden /\ input'[q] = s[k]
                BY <4>1, <4>2
            <4> QED
                BY <4>3 DEF q
        <3>3. i + Len(s) - 1 <= Len(output')
            BY <1>1, <2>1, <2>4, <3>1
        <3> QED
            BY <2>4, <3>2, <3>3 DEF Follows
    <2> QED
        BY <2>2, <2>3, <2>4 DEF Follows
<1>7. ASSUME NEW i \in D, i <= Len(output')
      PROVE  Follows(E, i)'
    <2>1. Follows(D, i)'
        BY <1>4, <1>7
    <2> QED
        BY <2>1 DEF Follows
<1>8. ASSUME NEW i \in E, i <= Len(output')
      PROVE  Follows(E, i)'
    <2>1. CASE i \in D
        BY <1>7, <1>8, <2>1
    <2>2. CASE i \in C /\ i \notin D
        <3>1. i # Len(output) + 1 /\ i \in 1 .. Len(output) + 1
            BY <1>3, <1>4, <2>2
        <3>2. i <= Len(output)
            BY <1>1, <3>1
        <3> QED
            BY <1>6, <2>2, <3>2
    <2> QED
        BY <2>1, <2>2
<1> QED
    BY <1>5, <1>8

(* A byte that is pending is the input's byte at that place.               *)
LEMMA PendingAbsent ==
    ASSUME TypeOK, Kept, ~failed, NEW s \in secrets,
           NEW k \in 1 .. Len(pending), NEW i \in Nat, i = Len(output) + k,
           \E j \in 1 .. Len(s) : k + j - 1 <= Len(pending) /\ pending[k + j - 1] # s[j]
    PROVE  \E j \in 1 .. Len(s) : i + j - 1 <= Len(input) /\ input[i + j - 1] # s[j]
<1>1. PICK j \in 1 .. Len(s) : k + j - 1 <= Len(pending) /\ pending[k + j - 1] # s[j]
    OBVIOUS
<1>2. /\ Len(output) \in Nat /\ Len(pending) \in Nat /\ Len(s) \in Nat
      /\ Len(input) = Len(output) + Len(pending)
    BY Shapes, SecretsAre DEF TypeOK, Kept
<1> DEFINE l == k + j - 1
<1>3. /\ l \in 1 .. Len(pending) /\ i + j - 1 = Len(output) + l
      /\ i + j - 1 <= Len(input)
    <2>1. j \in Nat \ {0} /\ k \in Nat \ {0} /\ k + j - 1 <= Len(pending)
        BY <1>1, <1>2
    <2> QED
        BY <1>2, <2>1
<1>4. pending[l] # s[j]
    BY <1>1
<1> HIDE DEF l
<1>5. input[Len(output) + l] = pending[l]
    BY <1>3 DEF Kept
<1> QED
    BY <1>3, <1>4, <1>5

LEMMA WriteInOrder ==
    ASSUME IInv, LeftToRight, NEW chunk \in Seq(Bytes), Write(chunk)
    PROVE  LeftToRight'
<1>1. TypeOK /\ Kept /\ Held
    BY DEF IInv
<1>2. /\ input \in Seq(Bytes) /\ output \in Seq(Emitted)
      /\ Len(output) \in Nat /\ Len(input) \in Nat /\ Len(chunk) \in Nat
    BY <1>1, Shapes, LenProperties DEF TypeOK
<1>3. phase = "idle" /\ ~failed /\ secrets' = secrets /\ input' = input \o chunk
    BY DEF Write
<1>4. /\ input' \in Seq(Bytes) /\ Len(input') = Len(input) + Len(chunk)
      /\ \A k \in 1 .. Len(input) : input'[k] = input[k]
    BY <1>2, <1>3, Joined
<1>5. Len(input) <= Len(input')
    BY <1>2, <1>4
<1>6. PICK o \in Nat : o = Len(output)
    BY <1>2
<1>7. CASE secrets # {}
    <2>1. output' = output
        BY <1>7 DEF Write
    <2>2. Len(output') = Len(output) + 0
        BY <1>2, <2>1
    <2> DEFINE D == {o + 1}
    <2>3. /\ D \in SUBSET (Len(output) + 1 .. Len(output) + 0 + 1)
          /\ Len(output) + 1 \in D /\ Len(output) + 0 + 1 \in D
          /\ \A i \in D : ~ (i <= Len(output'))
        BY <1>6, <2>1
    <2> HIDE DEF D
    <2> QED
        BY <1>1, <1>2, <1>3, <1>4, <1>5, <2>1, <2>2, <2>3, PathGrows
<1>8. CASE secrets = {}
    <2>1. CASE output' = output \o Plain(chunk)
        <3>1. /\ output' \in Seq(Emitted) /\ Len(output') = Len(output) + Len(chunk)
              /\ \A k \in 1 .. Len(output) : output'[k] = output[k]
              /\ \A k \in 1 .. Len(chunk) : ~ output'[Len(output) + k].hidden
            BY <1>1, <2>1, PlainAfter
        <3>2. PICK m \in Nat : m = Len(chunk)
            BY <1>2
        <3> DEFINE D == o + 1 .. o + m + 1
        <3>3. /\ D \in SUBSET (Len(output) + 1 .. Len(output) + m + 1)
              /\ Len(output) + 1 \in D /\ Len(output) + m + 1 \in D
            BY <1>6
        <3>4. ASSUME NEW i \in D, i <= Len(output')
              PROVE  Follows(D, i)'
            <4>1. PICK k \in 1 .. m : i = o + k
                <5>1. i - o \in 1 .. m /\ i = o + (i - o)
                    BY <1>6, <3>1, <3>2, <3>4
                <5> QED
                    BY <5>1
            <4>2. ~ output'[i].hidden
                BY <1>6, <3>1, <3>2, <4>1
            <4>3. i + 1 \in D
                BY <4>1
            <4>4. Absent(i)'
                BY <1>3, <1>8 DEF Absent
            <4> HIDE DEF D
            <4> QED
                BY <4>2, <4>3, <4>4 DEF Follows
        <3> HIDE DEF D
        <3>5. Len(output') = Len(output) + m
            BY <3>1, <3>2
        <3> QED
            BY <1>1, <1>3, <1>4, <1>5, <3>1, <3>3, <3>4, <3>5, PathGrows
    <2>2. CASE DestinationFails(chunk)
        BY <2>2 DEF DestinationFails, LeftToRight
    <2> QED
        BY <1>8, <2>1, <2>2 DEF Write
<1> QED
    BY <1>7, <1>8

LEMMA CloseInOrder ==
    ASSUME IInv, LeftToRight, Close
    PROVE  LeftToRight'
<1>1. /\ UNCHANGED <<secrets, pending, output, failed, input>>
      /\ phase = "idle" /\ phase' = IF failed THEN "closed" ELSE "final"
    BY DEF Close
<1>2. CASE failed
    BY <1>1, <1>2 DEF LeftToRight
<1>3. CASE ~failed
    <2>1. phase' # "closed" /\ phase # "closed"
        BY <1>1, <1>3
    <2>2. ASSUME NEW i
          PROVE  Absent(i) => Absent(i)'
        BY <1>1, <2>1 DEF Absent
    <2>3. ASSUME NEW C, NEW i
          PROVE  Follows(C, i) => Follows(C, i)'
        BY <1>1, <2>2 DEF Follows
    <2>4. Separate' => Separate
        BY <1>1 DEF Separate, Within, Occurs
    <2> QED
        BY <1>1, <1>3, <2>3, <2>4 DEF LeftToRight
<1> QED
    BY <1>2, <1>3

LEMMA ReplaceInOrder ==
    ASSUME IInv, LeftToRight, Replace
    PROVE  LeftToRight'
<1>1. TypeOK /\ Kept /\ Held
    BY DEF IInv
<1>2. /\ pending \in Seq(Bytes) /\ input \in Seq(Bytes)
      /\ Len(pending) \in Nat /\ Len(output) \in Nat /\ Len(input) \in Nat
    BY <1>1, Shapes DEF TypeOK
<1>3. phase \in {"flush", "final"} /\ UNCHANGED <<secrets, input>>
    BY DEF Replace
<1>4. ~failed /\ phase # "closed"
    BY <1>1, <1>3 DEF Held
<1>5. PICK p \in 1 .. Len(pending), secret \in secrets :
        /\ Occurs(secret, pending, p)
        /\ \A s \in secrets : \A k \in 1 .. p - 1 : ~ Occurs(s, pending, k)
        /\ \/ DestinationFails(Prefix(pending, p - 1)) /\ UNCHANGED pending
           \/ /\ p - 1 + Len(secret) \in 0 .. Len(pending)
              /\ Moves(p - 1 + Len(secret)) /\ phase' = phase
              /\ \A k \in 1 .. p - 1 : ~ output'[Len(output) + k].hidden
              /\ \A k \in 1 .. Len(secret) :
                    output'[Len(output) + (p - 1) + k].hidden = TRUE
    BY <1>1, ReplaceMoves
<1>6. secret \in Seq(Bytes) /\ secret # <<>> /\ Len(secret) \in Nat \ {0}
    BY <1>1, SecretsAre DEF TypeOK
<1>7. p \in Nat \ {0}
    BY <1>2
<1>8. \A k \in 1 .. Len(secret) : pending[p + k - 1] = secret[k]
    BY <1>2, <1>5, <1>6, <1>7, OccursIs
<1>9. CASE DestinationFails(Prefix(pending, p - 1))
    BY <1>9 DEF DestinationFails, LeftToRight
<1>10. ASSUME p - 1 + Len(secret) \in 0 .. Len(pending),
              Moves(p - 1 + Len(secret)),
              \A k \in 1 .. p - 1 : ~ output'[Len(output) + k].hidden,
              \A k \in 1 .. Len(secret) :
                    output'[Len(output) + (p - 1) + k].hidden = TRUE
       PROVE  LeftToRight'
    <2>1. PICK m \in Nat : m = p - 1 + Len(secret)
        BY <1>6, <1>7
    <2>2. PICK o \in Nat : o = Len(output)
        BY <1>2
    <2>3. /\ output' \in Seq(Emitted) /\ Len(output') = Len(output) + m
          /\ \A k \in 1 .. Len(output) : output'[k] = output[k]
          /\ secrets' = secrets /\ input' = input /\ m <= Len(pending)
        BY <1>10, <2>1 DEF Moves
    <2>4. /\ Len(input) = o + Len(pending)
          /\ \A k \in 1 .. Len(pending) : input[o + k] = pending[k]
        BY <1>1, <1>4, <2>2 DEF Kept
    <2> DEFINE D == (o + 1 .. o + p) \cup {o + m + 1}
    <2>5. /\ D \in SUBSET (Len(output) + 1 .. Len(output) + m + 1)
          /\ Len(output) + 1 \in D /\ Len(output) + m + 1 \in D
        BY <1>6, <1>7, <2>1, <2>2
    <2>6. ASSUME Separate, NEW i \in D, i <= Len(output')
          PROVE  Follows(D, i)'
        <3>1. PICK k \in 1 .. p : i = o + k
            <4>1. i - o \in 1 .. p /\ i = o + (i - o)
                BY <1>7, <2>1, <2>2, <2>3, <2>6
            <4> QED
                BY <4>1
        <3>2. k \in 1 .. Len(pending) /\ k \in Nat \ {0} /\ i \in Nat
            BY <1>2, <1>7, <3>1
        <3>3. CASE k = p
            <4>1. i + Len(secret) - 1 <= Len(output') /\ i + Len(secret) \in D
                BY <1>6, <1>7, <2>1, <2>2, <2>3, <3>1, <3>3
            <4>2. ASSUME NEW l \in 1 .. Len(secret)
                  PROVE  output'[i + l - 1].hidden /\ input'[i + l - 1] = secret[l]
                <5> DEFINE q == i + l - 1
                           r == p + l - 1
                <5>1. /\ q = Len(output) + (p - 1) + l /\ q = o + r
                      /\ r \in 1 .. Len(pending)
                    BY <1>2, <1>6, <1>7, <2>1, <2>2, <2>3, <3>1, <3>3
                <5> HIDE DEF q
                <5>2. output'[q].hidden
                    BY <1>10, <5>1
                <5>3. pending[r] = secret[l]
                    BY <1>8
                <5> HIDE DEF r
                <5>4. input'[q] = secret[l]
                    BY <2>3, <2>4, <5>1, <5>3
                <5> QED
                    BY <5>2, <5>4 DEF q
            <4> HIDE DEF D
            <4> QED
                BY <2>3, <4>1, <4>2 DEF Follows
        <3>4. CASE k # p
            <4>1. k \in 1 .. p - 1
                BY <1>7, <3>1, <3>4
            <4>2. ~ output'[i].hidden /\ i + 1 \in D
                <5>1. ~ output'[i].hidden
                    BY <1>10, <2>2, <3>1, <4>1
                <5>2. k + 1 \in 1 .. p /\ i + 1 = o + (k + 1)
                    BY <1>7, <3>1, <4>1
                <5>3. i + 1 \in o + 1 .. o + p
                    BY <1>7, <5>2
                <5> QED
                    BY <5>1, <5>3
            <4>3. ASSUME NEW s \in secrets
                  PROVE  \E j \in 1 .. Len(s) :
                            i + j - 1 <= Len(input) /\ input[i + j - 1] # s[j]
                <5>1. Len(s) \in Nat
                    BY <1>1, SecretsAre DEF TypeOK
                <5>2. CASE k + Len(s) - 1 <= Len(pending)
                    <6>1. ~ Occurs(s, pending, k)
                        BY <1>5, <4>1
                    <6>2. PICK j \in 1 .. Len(s) : pending[k + j - 1] # s[j]
                        BY <1>1, <1>2, <3>2, <5>2, <6>1, Mismatch
                    <6>3. k + j - 1 <= Len(pending)
                        BY <1>2, <3>2, <5>1, <5>2, <6>2
                    <6> QED
                        BY <1>1, <1>4, <2>2, <3>1, <3>2, <6>2, <6>3, PendingAbsent
                <5>3. CASE Len(pending) < k + Len(s) - 1
                    <6>1. \E j \in 1 .. Len(s) :
                            k + j - 1 <= Len(pending) /\ pending[k + j - 1] # s[j]
                        <7>1. Occurs(secret, pending, p) /\ secrets \in SecretSets
                            BY <1>1, <1>5 DEF TypeOK
                        <7>2. Separate /\ pending \in Seq(Bytes)
                            BY <1>2, <2>6
                        <7>3. secret \in secrets /\ s \in secrets
                            OBVIOUS
                        <7> QED
                            BY ONLY <1>7, <4>1, <5>3, <7>1, <7>2, <7>3, NoOverlap
                    <6> QED
                        BY <1>1, <1>4, <2>2, <3>1, <3>2, <6>1, PendingAbsent
                <5> QED
                    BY <1>2, <3>2, <5>1, <5>2, <5>3
            <4>4. Absent(i)'
                BY <2>3, <4>3 DEF Absent
            <4> HIDE DEF D
            <4> QED
                BY <4>2, <4>4 DEF Follows
        <3> QED
            BY <3>3, <3>4
    <2> HIDE DEF D
    <2>7. Len(input) <= Len(input') /\ input' \in Seq(Bytes)
        BY <1>2, <2>3
    <2> QED
        BY <1>1, <1>4, <2>3, <2>5, <2>6, <2>7, PathGrows
<1> QED
    BY <1>5, <1>9, <1>10

LEMMA EmitRestInOrder ==
    ASSUME IInv, LeftToRight, EmitRest
    PROVE  LeftToRight'
<1>1. TypeOK /\ Kept /\ Held
    BY DEF IInv
<1>2. /\ pending \in Seq(Bytes) /\ input \in Seq(Bytes)
      /\ Len(pending) \in Nat /\ Len(output) \in Nat /\ Len(input) \in Nat
    BY <1>1, Shapes DEF TypeOK
<1>3. /\ phase \in {"flush", "final"} /\ Occurrences(pending) = {}
      /\ UNCHANGED <<secrets, input>>
    BY DEF EmitRest
<1>4. ~failed /\ phase # "closed" /\ (phase = "flush" => secrets # {})
    BY <1>1, <1>3 DEF Held
<1>5. PICK n \in 0 .. Len(pending) :
        /\ phase = "final" => n = Len(pending)
        /\ phase = "flush" =>
            /\ n > 0 => n + Longest - 1 <= Len(pending)
            /\ n = 0 \/ n = Len(pending) \/ pending[n + 1] \notin Continuation
            /\ \A j \in n + 1 .. Len(pending) :
                j + Longest - 1 <= Len(pending) =>
                    j # Len(pending) /\ pending[j + 1] \in Continuation
        /\ \/ DestinationFails(Prefix(pending, n)) /\ UNCHANGED pending
           \/ /\ Moves(n) /\ \A k \in 1 .. n : ~ output'[Len(output) + k].hidden
              /\ phase' = IF phase = "final" THEN "closed" ELSE "idle"
    BY <1>1, EmitRestMoves
<1>6. CASE DestinationFails(Prefix(pending, n))
    BY <1>6 DEF DestinationFails, LeftToRight
<1>7. ASSUME Moves(n), \A k \in 1 .. n : ~ output'[Len(output) + k].hidden,
             phase' = IF phase = "final" THEN "closed" ELSE "idle"
      PROVE  LeftToRight'
    <2>1. n \in Nat /\ n <= Len(pending)
        BY <1>2
    <2>2. PICK o \in Nat : o = Len(output)
        BY <1>2
    <2>3. /\ output' \in Seq(Emitted) /\ Len(output') = Len(output) + n
          /\ \A k \in 1 .. Len(output) : output'[k] = output[k]
          /\ secrets' = secrets /\ input' = input
        BY <1>7 DEF Moves
    <2>4. Len(input) = o + Len(pending)
        BY <1>1, <1>4, <2>2 DEF Kept
    <2> DEFINE D == o + 1 .. o + n + 1
    <2>5. /\ D \in SUBSET (Len(output) + 1 .. Len(output) + n + 1)
          /\ Len(output) + 1 \in D /\ Len(output) + n + 1 \in D
        BY <2>1, <2>2
    <2>6. ASSUME NEW i \in D, i <= Len(output')
          PROVE  Follows(D, i)'
        <3>1. PICK k \in 1 .. n : i = o + k
            <4>1. i - o \in 1 .. n /\ i = o + (i - o)
                BY <2>1, <2>2, <2>3, <2>6
            <4> QED
                BY <4>1
        <3>2. k \in 1 .. Len(pending) /\ k \in Nat \ {0} /\ i \in Nat
            BY <1>2, <2>1, <3>1
        <3>3. ~ output'[i].hidden /\ i + 1 \in D
            BY <1>7, <2>1, <2>2, <3>1
        <3>4. ASSUME NEW s \in secrets
              PROVE  \/ \E j \in 1 .. Len(s) :
                            i + j - 1 <= Len(input) /\ input[i + j - 1] # s[j]
                     \/ phase' = "closed" /\ Len(input) < i + Len(s) - 1
            <4>1. Len(s) \in Nat
                BY <1>1, SecretsAre DEF TypeOK
            <4>2. CASE k + Len(s) - 1 <= Len(pending)
                <5>1. ~ Occurs(s, pending, k)
                    <6>1. SUFFICES ASSUME Occurs(s, pending, k)
                                   PROVE  FALSE
                        OBVIOUS
                    <6>2. <<k, s>> \in Occurrences(pending)
                        BY <3>2, <6>1 DEF Occurrences
                    <6> QED
                        BY <1>3, <6>2
                <5>2. PICK j \in 1 .. Len(s) : pending[k + j - 1] # s[j]
                    BY <1>1, <1>2, <3>2, <4>2, <5>1, Mismatch
                <5>3. k + j - 1 <= Len(pending)
                    BY <1>2, <3>2, <4>1, <4>2, <5>2
                <5> QED
                    BY <1>1, <1>4, <2>2, <3>1, <3>2, <5>2, <5>3, PendingAbsent
            <4>3. CASE Len(pending) < k + Len(s) - 1
                <5>1. phase # "flush"
                    <6>1. SUFFICES ASSUME phase = "flush"
                                   PROVE  FALSE
                        OBVIOUS
                    <6>2. /\ Len(s) <= Longest /\ Longest \in Nat
                          /\ n + Longest - 1 <= Len(pending)
                        BY <1>1, <1>4, <1>5, <2>1, <3>1, <6>1, LongestIs DEF TypeOK
                    <6> QED
                        BY <1>2, <2>1, <3>1, <4>1, <4>3, <6>2
                <5>2. phase' = "closed"
                    BY <1>3, <1>7, <5>1
                <5>3. Len(input) < i + Len(s) - 1
                    BY <1>2, <2>4, <3>1, <4>1, <4>3
                <5> QED
                    BY <5>2, <5>3
            <4> QED
                BY <1>2, <3>2, <4>1, <4>2, <4>3
        <3>5. Absent(i)'
            BY <2>3, <3>4 DEF Absent
        <3> HIDE DEF D
        <3> QED
            BY <3>3, <3>5 DEF Follows
    <2> HIDE DEF D
    <2>7. Len(input) <= Len(input') /\ input' \in Seq(Bytes)
        BY <1>2, <2>3
    <2> QED
        BY <1>1, <1>4, <2>1, <2>3, <2>5, <2>6, <2>7, PathGrows
<1> QED
    BY <1>5, <1>6, <1>7

-----------------------------------------------------------------------------
LEMMA LengthAtIs ==
    ASSUME secrets \in SecretSets, NEW text \in Seq(Bytes),
           NEW i \in 1 .. Len(text), SecretsAt(text, i) # {}
    PROVE  /\ LengthAt(text, i) \in Nat \ {0}
           /\ i + LengthAt(text, i) - 1 <= Len(text)
           /\ \E s \in SecretsAt(text, i) : LengthAt(text, i) = Len(s)
<1> DEFINE S == SecretsAt(text, i)
<1>1. IsFiniteSet(S) /\ S \subseteq Seq(Bytes) /\ S \subseteq secrets
    BY SecretsAre, FS_Subset DEF SecretsAt
<1>2. \E s \in S : \A t \in S : Len(t) <= Len(s)
    <2> HIDE DEF S
    <2>1. S # {}
        BY DEF S
    <2> QED
        BY <1>1, <2>1, LongestExists
<1> DEFINE longest == CHOOSE s \in S : \A t \in S : Len(t) <= Len(s)
<1>3. longest \in S
    BY <1>2
<1>4. LengthAt(text, i) = Len(longest)
    BY DEF LengthAt
<1>5. longest \in secrets /\ i + Len(longest) - 1 <= Len(text)
    BY <1>3 DEF SecretsAt, Occurs
<1> HIDE DEF longest
<1> QED
    BY <1>3, <1>4, <1>5, SecretsAre

(* The recursion of the reference is one: from the end of the text, by the *)
(* least number of positions for which it would not be.                    *)
LEMMA HiddenFromIs ==
    ASSUME secrets \in SecretSets, NEW text \in Seq(Bytes)
    PROVE  \A i \in 1 .. Len(text) + 1 :
            HiddenFrom(text)[i] =
                IF i > Len(text) THEN {}
                ELSE IF SecretsAt(text, i) = {} THEN HiddenFrom(text)[i + 1]
                ELSE (i .. i + LengthAt(text, i) - 1)
                        \cup HiddenFrom(text)[i + LengthAt(text, i)]
<1> DEFINE N == Len(text)
           Rest(g, i) ==
                IF i > N THEN {}
                ELSE IF SecretsAt(text, i) = {} THEN g[i + 1]
                ELSE (i .. i + LengthAt(text, i) - 1) \cup g[i + LengthAt(text, i)]
           Solved(g, d) == \A i \in N + 1 - d .. N + 1 : g[i] = Rest(g, i)
           Unsolved == {d \in 0 .. N : ~ \E g : Solved(g, d)}
<1>1. N \in Nat
    BY LenProperties
<1>2. ASSUME NEW i \in 1 .. N, SecretsAt(text, i) # {}
      PROVE  i + LengthAt(text, i) \in i + 1 .. N + 1
    BY <1>1, <1>2, LengthAtIs
<1>3. ASSUME NEW g, NEW h, NEW i \in 1 .. N + 1,
             \A j \in i + 1 .. N + 1 : g[j] = h[j]
      PROVE  Rest(g, i) = Rest(h, i)
    <2>1. CASE i > N
        BY <2>1
    <2>2. CASE i \in 1 .. N /\ SecretsAt(text, i) = {}
        <3>1. i + 1 \in i + 1 .. N + 1
            BY <1>1, <2>2
        <3> QED
            BY <1>3, <2>2, <3>1
    <2>3. CASE i \in 1 .. N /\ SecretsAt(text, i) # {}
        BY <1>2, <1>3, <2>3
    <2> QED
        BY <1>1, <2>1, <2>2, <2>3
<1> HIDE DEF Rest
<1>4. Unsolved = {}
    <2>1. SUFFICES ASSUME Unsolved # {}
                   PROVE  FALSE
        OBVIOUS
    <2>2. PICK d \in Unsolved : \A e \in Unsolved : d <= e
        <3>1. Unsolved \in SUBSET Nat
            BY <1>1
        <3> HIDE DEF Unsolved
        <3> QED
            BY <2>1, <3>1, Least
    <2>3. d \in 0 .. N /\ d \in Nat
        BY <1>1
    <2> DEFINE m == N + 1 - d
    <2>4. PICK g : \A i \in m + 1 .. N + 1 : g[i] = Rest(g, i)
        <3>1. CASE d = 0
            BY <1>1, <3>1
        <3>2. CASE d # 0
            <4>1. d - 1 \in 0 .. N /\ ~ (d <= d - 1)
                BY <1>1, <2>3, <3>2
            <4>2. d - 1 \notin Unsolved
                BY <2>2, <4>1
            <4>3. \E g : Solved(g, d - 1)
                BY <4>1, <4>2
            <4>4. N + 1 - (d - 1) = m + 1
                BY <1>1, <2>3
            <4> QED
                BY <4>3, <4>4
        <3> QED
            BY <3>1, <3>2
    <2>5. m \in 1 .. N + 1
        BY <1>1, <2>3
    <2> DEFINE h == [i \in m .. N + 1 |-> IF i = m THEN Rest(g, m) ELSE g[i]]
    <2> HIDE DEF m
    <2>6. /\ \A i \in m + 1 .. N + 1 : h[i] = g[i]
          /\ h[m] = Rest(g, m)
        BY <1>1, <2>5
    <2> HIDE DEF h
    <2>7. ASSUME NEW i \in m .. N + 1
          PROVE  h[i] = Rest(h, i)
        <3>1. i \in 1 .. N + 1
            BY <1>1, <2>5
        <3>2. \A j \in i + 1 .. N + 1 : g[j] = h[j]
            BY <1>1, <2>5, <2>6
        <3>3. Rest(g, i) = Rest(h, i)
            BY <1>3, <3>1, <3>2
        <3>4. h[i] = Rest(g, i)
            BY <1>1, <2>4, <2>5, <2>6
        <3> QED
            BY <3>3, <3>4
    <2>8. Solved(h, d)
        BY <2>7 DEF m
    <2> QED
        BY <2>8
<1>5. PICK g : \A i \in 1 .. N + 1 : g[i] = Rest(g, i)
    <2>1. N \in 0 .. N /\ N \notin Unsolved
        BY <1>1, <1>4
    <2>2. \E g : Solved(g, N)
        BY <2>1
    <2>3. N + 1 - N = 1
        BY <1>1
    <2> QED
        BY <2>2, <2>3
<1> DEFINE f == [i \in 1 .. N + 1 |-> g[i]]
<1>6. f = [i \in 1 .. N + 1 |-> Rest(f, i)]
    <2>1. ASSUME NEW i \in 1 .. N + 1
          PROVE  g[i] = Rest(f, i)
        <3>1. \A j \in i + 1 .. N + 1 : g[j] = f[j]
            BY <1>1
        <3> HIDE DEF f
        <3> QED
            BY <1>3, <1>5, <3>1
    <2> QED
        BY <2>1
<1> DEFINE Is(e) == e = [i \in 1 .. N + 1 |-> Rest(e, i)]
<1>7. HiddenFrom(text) = CHOOSE e : Is(e)
    BY DEF HiddenFrom, Rest
<1>8. Is(HiddenFrom(text))
    <2>1. Is(f)
        BY <1>6
    <2> HIDE DEF Is, f
    <2> QED
        BY <1>7, <2>1
<1> DEFINE from == HiddenFrom(text)
<1>9. \A i \in 1 .. N + 1 : from[i] = Rest(from, i)
    <2>1. from = [i \in 1 .. N + 1 |-> Rest(from, i)]
        BY <1>8
    <2> HIDE DEF from
    <2> QED
        BY <2>1
<1> QED
    BY <1>9 DEF Rest

(* If no secret is contained in another, one at most is at a position.     *)
LEMMA OneAt ==
    ASSUME secrets \in SecretSets, Separate, NEW text \in Seq(Bytes),
           NEW i \in Nat \ {0}, NEW s \in secrets, NEW t \in secrets,
           Occurs(s, text, i), Occurs(t, text, i)
    PROVE  s = t
<1>1. ASSUME NEW u \in secrets, NEW v \in secrets,
             Occurs(u, text, i), Occurs(v, text, i), Len(u) <= Len(v)
      PROVE  Within(u, v)
    <2>1. /\ u \in Seq(Bytes) /\ u # <<>> /\ Len(u) \in Nat \ {0}
          /\ v \in Seq(Bytes) /\ v # <<>> /\ Len(v) \in Nat \ {0}
        BY SecretsAre
    <2>2. /\ \A k \in 1 .. Len(u) : text[i + k - 1] = u[k]
          /\ \A k \in 1 .. Len(v) : text[i + k - 1] = v[k]
        BY <1>1, <2>1, OccursIs
    <2>3. ASSUME NEW k \in 1 .. Len(u)
          PROVE  v[1 + k - 1] = u[k]
        <3>1. k \in 1 .. Len(v) /\ 1 + k - 1 = k
            BY <1>1, <2>1
        <3> QED
            BY <2>2, <3>1
    <2>4. 1 + Len(u) - 1 <= Len(v) /\ 1 \in 1 .. Len(v) /\ 1 \in Nat \ {0}
        BY <1>1, <2>1
    <2>5. Occurs(u, v, 1)
        BY <2>1, <2>3, <2>4, OccursIs
    <2> QED
        BY <2>4, <2>5 DEF Within
<1>2. Len(s) \in Nat /\ Len(t) \in Nat
    BY SecretsAre
<1>3. Len(s) <= Len(t) \/ Len(t) <= Len(s)
    BY <1>2
<1> QED
    BY <1>1, <1>3 DEF Separate

LEMMA AtOnce ==
    ASSUME IInv, LeftToRight, Closed, Separate
    PROVE  HiddenPositions = HiddenAtOnce(input)
<1> DEFINE N == Len(input)
           from == HiddenFrom(input)
           After(i) == {k \in 1 .. N : output[k].hidden /\ i <= k}
<1>1. TypeOK /\ Kept /\ phase = "closed" /\ ~failed
    BY DEF IInv, Closed
<1>2. input \in Seq(Bytes) /\ N \in Nat /\ secrets \in SecretSets
    BY <1>1, Shapes DEF TypeOK
<1>3. Len(output) = N
    <2>1. Len(pending) = 0 /\ Len(output) \in Nat
        BY <1>1, EmptySeq, Shapes DEF Kept
    <2> QED
        BY <1>1, <2>1 DEF Kept
<1>4. PICK C \in SUBSET (1 .. N + 1) :
        1 \in C /\ \A i \in C : i <= N => Follows(C, i)
    BY <1>1, <1>3 DEF LeftToRight
<1>5. \A i \in 1 .. N + 1 :
        from[i] = IF i > N THEN {}
                  ELSE IF SecretsAt(input, i) = {} THEN from[i + 1]
                  ELSE (i .. i + LengthAt(input, i) - 1)
                            \cup from[i + LengthAt(input, i)]
    BY <1>2, HiddenFromIs
<1> HIDE DEF from
<1> DEFINE Wrong == {i \in C : from[i] # After(i)}
<1>6. Wrong = {}
    <2>1. SUFFICES ASSUME Wrong # {}
                   PROVE  FALSE
        OBVIOUS
    <2>2. PICK i \in Wrong : \A j \in Wrong : j <= i
        <3>1. \A j \in C : j \in Nat /\ j <= N + 1
            BY <1>2, <1>4
        <3>2. Wrong \in SUBSET Nat /\ \A j \in Wrong : j <= N + 1
            BY <3>1
        <3>3. N + 1 \in Nat
            BY <1>2
        <3> HIDE DEF Wrong
        <3> QED
            BY <2>1, <3>2, <3>3, Greatest
    <2>3. i \in C /\ i \in 1 .. N + 1 /\ from[i] # After(i)
        OBVIOUS
    <2>4. /\ i > N => from[i] = {}
          /\ i \in 1 .. N /\ SecretsAt(input, i) = {} => from[i] = from[i + 1]
          /\ i \in 1 .. N /\ SecretsAt(input, i) # {} =>
                from[i] = (i .. i + LengthAt(input, i) - 1)
                            \cup from[i + LengthAt(input, i)]
        <3>1. from[i] = IF i > N THEN {}
                        ELSE IF SecretsAt(input, i) = {} THEN from[i + 1]
                        ELSE (i .. i + LengthAt(input, i) - 1)
                                \cup from[i + LengthAt(input, i)]
            <4> HIDE DEF N, After
            <4> QED
                BY <1>5, <2>3
        <3>2. i \in 1 .. N => ~ (i > N)
            BY <1>2
        <3> QED
            BY <3>1, <3>2
    <2>5. ASSUME NEW j \in C, i < j
          PROVE  from[j] = After(j)
        <3>1. ~ (j <= i)
            BY <1>2, <2>3, <2>5
        <3> QED
            BY <2>2, <3>1
    <2> HIDE DEF Wrong
    <2>6. CASE i = N + 1
        <3>1. from[i] = {}
            BY <1>2, <2>4, <2>6
        <3>2. After(i) = {}
            BY <1>2, <2>6
        <3> QED
            BY <2>3, <3>1, <3>2
    <2>7. CASE i \in 1 .. N
        <3>1. Follows(C, i)
            BY <1>4, <2>3, <2>7
        <3>2. CASE ~ output[i].hidden /\ i + 1 \in C /\ Absent(i)
            <4>1. ASSUME NEW s \in secrets, Occurs(s, input, i)
                  PROVE  FALSE
                <5>1. /\ s \in Seq(Bytes) /\ s # <<>> /\ Len(s) \in Nat
                      /\ i \in Nat \ {0}
                    BY <1>2, <2>7, SecretsAre
                <5>2. /\ i + Len(s) - 1 <= N
                      /\ \A k \in 1 .. Len(s) : input[i + k - 1] = s[k]
                    BY <1>2, <4>1, <5>1, OccursIs
                <5>3. ~ (N < i + Len(s) - 1)
                    BY <1>2, <5>1, <5>2
                <5> QED
                    BY <3>2, <5>2, <5>3 DEF Absent
            <4>2. SecretsAt(input, i) = {}
                BY <4>1 DEF SecretsAt
            <4>3. from[i] = from[i + 1]
                BY <2>4, <2>7, <4>2
            <4>4. from[i + 1] = After(i + 1)
                BY <1>2, <2>5, <2>7, <3>2
            <4>5. After(i) = After(i + 1)
                <5>1. ASSUME NEW k \in 1 .. N, output[k].hidden
                      PROVE  i <= k <=> i + 1 <= k
                    <6>1. k # i
                        BY <3>2, <5>1
                    <6> QED
                        BY <1>2, <2>7, <6>1
                <5> QED
                    BY <5>1
            <4> QED
                BY <2>3, <4>3, <4>4, <4>5
        <3>3. ASSUME NEW s \in secrets,
                     i + Len(s) - 1 <= Len(output), i + Len(s) \in C,
                     \A k \in 1 .. Len(s) :
                        output[i + k - 1].hidden /\ input[i + k - 1] = s[k]
              PROVE  FALSE
            <4>1. /\ s \in Seq(Bytes) /\ s # <<>> /\ Len(s) \in Nat \ {0}
                  /\ i \in Nat \ {0}
                BY <1>2, <2>7, SecretsAre
            <4>2. Occurs(s, input, i)
                BY <1>2, <1>3, <3>3, <4>1, OccursIs
            <4>3. SecretsAt(input, i) # {}
                BY <4>2 DEF SecretsAt
            <4>4. PICK t \in SecretsAt(input, i) : LengthAt(input, i) = Len(t)
                BY <1>2, <2>7, <4>3, LengthAtIs
            <4>5. t \in secrets /\ Occurs(t, input, i)
                BY DEF SecretsAt
            <4>6. t = s
                BY <1>2, <4>1, <4>2, <4>5, OneAt
            <4>7. LengthAt(input, i) = Len(s)
                BY <4>4, <4>6
            <4> DEFINE next == i + Len(s)
            <4>8. from[i] = (i .. next - 1) \cup from[next]
                BY <2>4, <2>7, <4>3, <4>7
            <4>9. next \in C /\ i < next
                BY <3>3, <4>1
            <4>10. next - 1 <= N /\ next \in Nat
                BY <1>3, <3>3, <4>1
            <4>11. \A k \in i .. next - 1 : output[k].hidden
                <5>1. TAKE k \in i .. next - 1
                <5> DEFINE l == k - i + 1
                <5>2. l \in 1 .. Len(s) /\ k = i + l - 1
                    BY <4>1
                <5> HIDE DEF l
                <5> QED
                    BY <3>3, <5>2
            <4> HIDE DEF next
            <4>12. from[next] = After(next)
                BY <2>5, <4>9
            <4>13. After(i) = (i .. next - 1) \cup After(next)
                <5>1. ASSUME NEW k
                      PROVE  k \in After(i) <=> k \in i .. next - 1 \/ k \in After(next)
                    <6>1. CASE k \in i .. next - 1
                        <7>1. k \in 1 .. N /\ i <= k
                            BY <1>2, <2>7, <4>10, <6>1
                        <7> QED
                            BY <4>11, <6>1, <7>1
                    <6>2. CASE k \notin i .. next - 1
                        <7>1. ASSUME k \in 1 .. N
                              PROVE  i <= k <=> next <= k
                            BY <1>2, <2>7, <4>9, <4>10, <6>2, <7>1
                        <7> QED
                            BY <6>2, <7>1
                    <6> QED
                        BY <6>1, <6>2
                <5> HIDE DEF After
                <5> QED
                    BY <5>1
            <4> QED
                BY <2>3, <4>8, <4>12, <4>13
        <3> QED
            BY <3>1, <3>2, <3>3 DEF Follows
    <2> QED
        BY <1>2, <2>3, <2>6, <2>7
<1>7. from[1] = After(1)
    BY <1>4, <1>6
<1>8. After(1) = HiddenPositions
    BY <1>3 DEF HiddenPositions
<1> QED
    BY <1>7, <1>8 DEF HiddenAtOnce, from

-----------------------------------------------------------------------------
LEMMA StepKeeps == IInv /\ [Next]_vars => IInv'
<1> SUFFICES ASSUME IInv, [Next]_vars
             PROVE  IInv'
    OBVIOUS
<1>1. ASSUME NEW chunk \in Chunks, Write(chunk)
      PROVE  IInv'
    <2>1. chunk \in Seq(Bytes)
        BY ChunksAssumption
    <2>2. CASE secrets # {}
        BY <1>1, <2>1, <2>2, WriteKeeps DEF Write
    <2>3. CASE secrets = {}
        BY <1>1, <2>1, <2>3, PassKeeps DEF Write
    <2> QED
        BY <2>2, <2>3
<1>2. CASE Close
    BY <1>2, CloseKeeps
<1>3. CASE Replace
    BY <1>3, ReplaceKeeps
<1>4. CASE EmitRest
    BY <1>4, EmitRestKeeps
<1>5. CASE UNCHANGED vars
    <2>1. UNCHANGED <<secrets, pending, output, failed, phase, input>>
        BY <1>5 DEF vars
    <2>2. TypeOK' /\ Kept' /\ PendingBounded' /\ Held' /\ RuneStarts'
        BY <2>1 DEF IInv, TypeOK, Kept, PendingBounded, Held, RuneStarts, Longest
    <2>3. Settled' /\ Covered' /\ HiddenWhole'
        BY <2>1 DEF IInv, Settled, Differs, Covered, HiddenWhole
    <2> QED
        BY <2>2, <2>3 DEF IInv
<1> QED
    BY <1>1, <1>2, <1>3, <1>4, <1>5 DEF Next

LEMMA StepInOrder == IInv /\ LeftToRight /\ [Next]_vars => LeftToRight'
<1> SUFFICES ASSUME IInv, LeftToRight, [Next]_vars
             PROVE  LeftToRight'
    OBVIOUS
<1>1. ASSUME NEW chunk \in Chunks, Write(chunk)
      PROVE  LeftToRight'
    <2>1. chunk \in Seq(Bytes)
        BY ChunksAssumption
    <2> QED
        BY <1>1, <2>1, WriteInOrder
<1>2. CASE Close
    BY <1>2, CloseInOrder
<1>3. CASE Replace
    BY <1>3, ReplaceInOrder
<1>4. CASE EmitRest
    BY <1>4, EmitRestInOrder
<1>5. CASE UNCHANGED vars
    <2>1. UNCHANGED <<secrets, pending, output, failed, phase, input>>
        BY <1>5 DEF vars
    <2>2. ASSUME NEW i
          PROVE  Absent(i) => Absent(i)'
        BY <2>1 DEF Absent
    <2>3. ASSUME NEW C, NEW i
          PROVE  Follows(C, i) => Follows(C, i)'
        BY <2>1, <2>2 DEF Follows
    <2>4. Separate' => Separate
        BY <2>1 DEF Separate, Within, Occurs
    <2> QED
        BY <2>1, <2>3, <2>4 DEF LeftToRight
<1> QED
    BY <1>1, <1>2, <1>3, <1>4, <1>5 DEF Next

LEMMA InitInOrder == Init => LeftToRight
<1> SUFFICES ASSUME Init
             PROVE  LeftToRight
    OBVIOUS
<1>1. Len(output) = 0
    BY EmptySeq DEF Init
<1> DEFINE C == {1}
<1>2. C \in SUBSET (1 .. Len(output) + 1) /\ 1 \in C /\ Len(output) + 1 \in C
    BY <1>1
<1>3. \A i \in C : ~ (i <= Len(output))
    BY <1>1
<1> HIDE DEF C
<1> QED
    BY <1>2, <1>3 DEF LeftToRight

LEMMA AlwaysIInv == Spec => [](IInv /\ LeftToRight)
<1>1. Init => IInv /\ LeftToRight
    BY InitKeeps, InitInOrder
<1>2. (IInv /\ LeftToRight) /\ [Next]_vars => (IInv /\ LeftToRight)'
    BY StepKeeps, StepInOrder
<1> QED
    BY <1>1, <1>2, PTL DEF Spec

(* flush, Write and Close: no byte the child wrote is lost, repeated or    *)
(* reordered; between two writes no more is held back than may begin a     *)
(* secret, or belongs to a rune that is not complete.                      *)
THEOREM Invariance == Spec => []Inv
<1>1. IInv => Inv
    BY KeptIsNothingLost, RuneStartsAreWhole DEF IInv, Inv
<1> QED
    BY <1>1, AlwaysIInv, PTL

(* redact.go: no secret comes out whole, whatever the writes it is split   *)
(* over, and wherever the destination fails.                               *)
THEOREM NoSecretOut == Spec => []WholeSecretsHidden
<1>1. IInv => WholeSecretsHidden
    BY CoveredIsHidden DEF IInv
<1> QED
    BY <1>1, AlwaysIInv, PTL

(* redact.go: each placeholder stands for a secret that was written there. *)
THEOREM PlaceholderIsSecret == Spec => []OnlySecretsHidden
<1>1. IInv => OnlySecretsHidden
    BY HiddenWholeIsOnly DEF IInv
<1> QED
    BY <1>1, AlwaysIInv, PTL

(* redact.go: with no secret contained in another, it makes no difference  *)
(* how the output was split into writes: what is hidden is what would have *)
(* been, had it been written at once.                                      *)
THEOREM SplitMakesNoDifference == Spec => []SplitIndependent
<1>1. IInv /\ LeftToRight => SplitIndependent
    BY AtOnce DEF SplitIndependent
<1> QED
    BY <1>1, AlwaysIInv, PTL
=============================================================================
