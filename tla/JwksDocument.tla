----------------------------- MODULE JwksDocument -----------------------------
(***************************************************************************)
(* Which keys the verifier takes from a JWKS document (parseJWKS of        *)
(* internal/broker/verify.go).  A document is the sequence of its entries. *)
(***************************************************************************)
EXTENDS Integers, Sequences

CONSTANT Kids  \* key identifiers the issuer may ever publish

(* An entry: its kid ("" if it has none), whether it is an RSA key with a  *)
(* modulus and an exponent, its alg and use ("" if blank, "other" if not   *)
(* RS256 and not sig), and whether modulus and exponent decode.            *)
Entry == [kid : Kids \cup {""}, rsa : BOOLEAN, alg : {"", "RS256", "other"},
          use : {"", "sig", "other"}, decodes : BOOLEAN]

(* The entries that are looked at; the others are passed over.             *)
Considered(d) == {i \in DOMAIN d : d[i].rsa /\ d[i].kid # ""}

Usable(d) == {i \in Considered(d) : d[i].decodes}

ForSigning(e) == e.alg # "other" /\ e.use # "other"

(* Mutant: of two keys with one kid the later one is taken.                *)
RefusedButRepeated(d) == \E i \in Considered(d) : ~ForSigning(d[i])

(* One entry refuses the document: a key for something else, or one whose  *)
(* kid an earlier key has, unless that one did not decode.                 *)
Refused(d) ==
    \E i \in Considered(d) :
        \/ ~ForSigning(d[i])
        \/ \E j \in Usable(d) : j < i /\ d[j].kid = d[i].kid

(* The kids of the keys parseJWKS returns, none where it returns an error. *)
ParseJWKS(d) == IF Refused(d) THEN {} ELSE {d[i].kid : i \in Usable(d)}

(* A kid of an accepted document names one key of it, and all its keys are *)
(* for signing.                                                            *)
NamesOneKey(d) == ParseJWKS(d) # {} =>
    /\ \A i, j \in Usable(d) : d[i].kid = d[j].kid => i = j
    /\ \A i \in Considered(d) : ForSigning(d[i])
=============================================================================
