---------------------------- MODULE MCScopedRun ----------------------------
(* An instance of ScopedRun for TLC: a provider that omits a key of its    *)
(* own, one that does not, and one the consumer's registry does not know.  *)
EXTENDS ScopedRun, TLC

CONSTANTS cap1, cap2, vault, keepersm, exec, key, bootstrap, v1, v2

AllBindings == {
    (cap1 :> vault @@ cap2 :> keepersm),
    (cap1 :> keepersm @@ cap2 :> vault),
    (cap1 :> vault @@ cap2 :> vault),
    (cap1 :> vault),
    (cap1 :> vault @@ cap2 :> exec)}
AllRequests == {<<>>, <<cap1>>, <<cap1, cap2>>, <<cap2, cap1>>,
                <<cap1, cap1, cap2>>, <<cap1, cap2, cap1>>}
Ambient == key :> v1 @@ bootstrap :> v2
Omits == vault :> {} @@ keepersm :> {bootstrap} @@ exec :> {}

M(env, expires, sound) == [env |-> env, expires |-> expires, sound |-> sound]
SomeMaterials ==
    {M(e, x, TRUE) : e \in {key :> v1, key :> v2, bootstrap :> v1, key :> Blank,
                            key :> v2 @@ bootstrap :> v2},
                     x \in {1, 2, MaxClock + 1}}
    \cup {M(EmptyEnv, MaxClock + 1, TRUE), M(key :> v1, MaxClock + 1, FALSE)}
=============================================================================
