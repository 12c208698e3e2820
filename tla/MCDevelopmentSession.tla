------------------------ MODULE MCDevelopmentSession ------------------------
(* An instance of DevelopmentSession for TLC: two capabilities, one of     *)
(* them bound in some files, and files that must be refused.               *)
EXTENDS DevelopmentSession, TLC

CONSTANTS cap1, cap2, blankName

B(provider, sound) == [provider |-> provider, sound |-> sound]
SomeConfigs == {
    cap1 :> B("vault", TRUE),
    cap1 :> B("broker", TRUE) @@ cap2 :> B("env", TRUE),
    cap2 :> B("exec", TRUE),
    cap1 :> B("vault", FALSE)}

Doc(caps) == [yaml |-> "ok", version |-> FALSE, apiVersion |-> "v1alpha1", kind |-> TRUE,
              extra |-> FALSE, name |-> "dns", capabilities |-> caps]
C(provider, env) == [provider |-> provider, env |-> env]
One == Doc(cap1 :> C("", {}))
SomeManifests == {
    One,
    Doc(cap1 :> C("", {}) @@ cap2 :> C("vault", {"name"})),
    Doc(cap1 :> C("vault", {"name", "assignment"})),
    Doc(blankName :> C("", {})),
    [One EXCEPT !.version = TRUE, !.apiVersion = "absent"]}
SomeRequests == {{}, {cap1}, {cap1, cap2}}
=============================================================================
