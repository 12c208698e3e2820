---------------------------- MODULE MCJwksCache ----------------------------
(* Instances of JwksCache for TLC.  Times are scaled: one unit stands for  *)
(* the HTTP timeout, the throttle interval is longer than it and the TTL   *)
(* longer still, as jwksTimeout < jwksUnknownKidMinInterval < jwksCacheTTL.*)
EXTENDS JwksCache, TLC

CONSTANTS k1, k2

Token(kid, rs256, signed, claims, exp) ==
    [kid |-> kid, rs256 |-> rs256, signed |-> signed, claims |-> claims,
     exp |-> exp]

(* One good token of each kid: the tokens the cache tells apart.           *)
GoodTokens == {Token(k1, TRUE, TRUE, TRUE, 6), Token(k2, TRUE, TRUE, TRUE, 6)}

(* A token of another algorithm as well.                                   *)
MixedTokens == GoodTokens \cup {Token(k2, FALSE, TRUE, TRUE, 6)}

(* A token that, with a lifetime of 2 and a skew of 1, lives too long      *)
(* until time 2.                                                           *)
DatedTokens == {Token(k1, TRUE, TRUE, TRUE, 5)}

(* Documents of at most three entries: good keys of both kids, one without *)
(* a kid, an elliptic one, and keys that are for encryption, for another   *)
(* algorithm, or do not decode.                                            *)
Good(kid) == [kid |-> kid, rsa |-> TRUE, alg |-> "RS256", use |-> "sig", decodes |-> TRUE]
Entries == {Good(k1), Good(k2), [Good(k1) EXCEPT !.alg = ""], [Good(k1) EXCEPT !.kid = ""],
            [Good(k2) EXCEPT !.rsa = FALSE], [Good(k2) EXCEPT !.use = "other"],
            [Good(k2) EXCEPT !.alg = "other"], [Good(k1) EXCEPT !.decodes = FALSE]}
SomeDocuments == UNION {[1 .. n -> Entries] : n \in 0 .. 3}

(* Threads are alike.                                                      *)
AlikeThreads == Permutations(Threads)
=============================================================================
