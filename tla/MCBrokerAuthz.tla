--------------------------- MODULE MCBrokerAuthz ---------------------------
(* Policy files with up to two rules over two issuers, written with and    *)
(* without surrounding space, and tokens of both issuers, for TLC; every   *)
(* listener with one of the files, and every file with one listener.       *)
EXTENDS BrokerAuthz, TLC

T(name) == [name |-> name, padded |-> FALSE]
Padded(name) == [name |-> name, padded |-> TRUE]
Config(issuer, jwks) == [issuer |-> issuer, audience |-> T("aud"), jwksURL |-> jwks]

AllNames == {"alpha", "beta", "issA", "issB", "keysA", "keysB", "cursorKeys",
             "aud", "other", "sub", "read", "write"}
AllHosts == {"host"}
AllPaths == {"Repo", "repo"}

ConfigA == Config(T("issA"), T("keysA"))
ConfigB == Config(T("issB"), T("keysB"))
NoConfig == [issuer |-> T(""), audience |-> T(""), jwksURL |-> T("")]

IssuerMaps == {
    [a \in {T("alpha")} |-> ConfigA],
    [a \in {T("alpha"), T("beta")} |-> IF a = T("alpha") THEN ConfigA ELSE ConfigB],
    [a \in {T("alpha"), T("beta")} |->
        IF a = T("alpha") THEN Config(Padded("issA"), T("keysA")) ELSE ConfigB],
    [a \in {T("alpha"), T("beta")} |-> ConfigA],
    [a \in {T("alpha"), Padded("alpha")} |->
        IF a = T("alpha") THEN ConfigA ELSE ConfigB],
    [a \in {T("alpha")} |-> Config(T("issA"), T(""))]}

R(form, path, suffix, upper) ==
    [form |-> form, host |-> "host", upper |-> upper, path |-> path, suffix |-> suffix]
Plain == R("url", "Repo", "none", FALSE)

RulesOf(aliases) ==
    {[issuer |-> a, subject |-> s, requireRepoURLs |-> q[1],
      repositories |-> q[2], capabilities |-> {c}] :
        a \in aliases, s \in {T("sub"), Padded("sub")}, c \in {T("read"), Padded("write")},
        q \in {<<"false", {}>>, <<"true", {Plain}>>, <<"unset", {}>>}}

OneOrTwo(S) == {<<r>> : r \in S} \cup {<<r1, r2>> : r1, r2 \in S}

File(version, legacy, issuers, policies) ==
    [version |-> version, legacy |-> legacy, issuers |-> issuers, policies |-> policies]

MultiFiles == {File("0.1", NoConfig, m, ps) : m \in IssuerMaps,
                  ps \in OneOrTwo(RulesOf({T("alpha"), Padded("alpha"), T("beta")}))}
LegacyFiles == {File("", l, <<>>, ps) :
                  l \in {ConfigA, Config(Padded("issA"), T("")), Config(T(""), T("keysA"))},
                  ps \in OneOrTwo(RulesOf({T("")}))}
OddRule == [issuer |-> T("alpha"), subject |-> T("sub"), requireRepoURLs |-> "true",
            repositories |-> {}, capabilities |-> {T("read")}]
BrokenFiles == {
    File("0.2", ConfigA, <<>>, <<[OddRule EXCEPT !.issuer = T("")]>>),
    File("0.1", ConfigA, <<>>, <<>>),
    File("0.1", ConfigA, <<>>, <<OddRule>>),
    File("0.1", ConfigA, [a \in {T("alpha")} |-> ConfigA], <<OddRule>>)}

Behind(word) == [listen |-> [form |-> "blank"], port |-> [form |-> "integer", n |-> 8080],
                 termination |-> [word |-> word, styled |-> TRUE], cert |-> "", key |-> ""]
B(provider) == [provider |-> provider, sound |-> TRUE]
Bindings(caps) == [version |-> "0.1", capabilities |-> caps]
Server == Bindings(T("read") :> B("vault") @@ T("write") :> B("exec"))
Deploy(p, f, b) == [policy |-> p, flags |-> f, bindings |-> b]

SomeFlags == {[listen |-> l, port |-> p, termination |-> t, cert |-> c, key |-> k] :
    l \in Address,
    p \in {[form |-> f] : f \in {"blank", "words"}} \cup
          {[form |-> "integer", n |-> n] : n \in {0, 1, 65535, 65536}},
    t \in [word : {"", "proxy", "other"}, styled : {FALSE}],
    c \in {"", "space", "path"}, k \in {"", "space", "path"}}
SomeBindings ==
    {Bindings(T("read") :> B(p)) : p \in {"vault", "broker", "other"}}
    \cup {Bindings(Padded("read") :> B("env")), Bindings(T("") :> B("vault")),
          Bindings(T("read") :> [B("exec") EXCEPT !.sound = FALSE]),
          [Server EXCEPT !.version = ""], [Server EXCEPT !.version = "0.2"]}
OneFile == File("", ConfigA, <<>>, <<[issuer |-> T(""), subject |-> T("sub"),
    requireRepoURLs |-> "false", repositories |-> {}, capabilities |-> {T("read")}]>>)

AllDeployments ==
    {Deploy(p, Behind("proxy"), Server) : p \in MultiFiles \cup LegacyFiles \cup BrokenFiles}
    \cup {Deploy(OneFile, f, Server) : f \in SomeFlags}
    \cup {Deploy(OneFile, Behind("proxy"), b) : b \in SomeBindings}

SomeTokens == {[iss |-> i, aud |-> T("aud"), sub |-> T("sub"), repos |-> {Plain},
                signedBy |-> k] : i \in {T("issA"), T("issB")},
                                  k \in {"keysA", "keysB", "cursorKeys"}}
    \cup {[iss |-> T("issA"), aud |-> T("aud"), sub |-> T("sub"), repos |-> rs,
           signedBy |-> "keysA"] :
            rs \in {{}, {R("url", "Repo", ".git", TRUE)}, {R("url", "Repo", "/.git", FALSE)},
                    {R("url", "Repo", ".git/", FALSE)}, {R("opaque", "Repo", "none", FALSE)},
                    {R("url", "repo", "none", FALSE)}, {Plain, R("bare", "Repo", "none", FALSE)},
                    {Plain, R("malformed", "Repo", "none", FALSE)}}}
    \cup {[iss |-> Padded("issA"), aud |-> T("aud"), sub |-> T("sub"), repos |-> {Plain},
           signedBy |-> "keysA"],
          [iss |-> T("issA"), aud |-> T("other"), sub |-> T("sub"), repos |-> {Plain},
           signedBy |-> "keysA"],
          [iss |-> T("issA"), aud |-> T("aud"), sub |-> Padded("sub"), repos |-> {Plain},
           signedBy |-> "keysA"],
          [iss |-> T("issA"), aud |-> T("aud"), sub |-> T(""), repos |-> {Plain},
           signedBy |-> "keysA"]}

SomeCapabilities == {T("read"), Padded("write"), Padded("")}
=============================================================================
