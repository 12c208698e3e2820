-------------------------- MODULE MCProviderProcess --------------------------
(* A binding of two refs.  The buffers capture one unit and a pipe holds   *)
(* two: a program prints nothing, exactly the limit, one more, or enough   *)
(* to fill the pipe after the buffer.                                      *)
EXTENDS Providers

CONSTANTS r1, r2

TwoRefs == {r1, r2}
SomeLengths == [s \in Streams |-> IF s = "stdout" THEN {0, 1, 2, 5} ELSE {0, 2}]

\* The password after notices that are known and one that is not, before a
\* known and before an unknown one; a screen without a password; and a
\* password that looks like chatter under an unknown notice.
SomeScreens == {
    <<"logging in", "notice", "", "secret", "decrypted">>,
    <<"secret", "", "notice">>,
    <<"syncing", "">>,
    <<"notice", "password:">>}

Field(type, label, value) == [type |-> type, label |-> label, value |-> value]

\* The password at the top, in a field after one with a telling label, in a
\* custom field by its label only, and nowhere.
SomeDocuments == {
    [password |-> "secret", fields |-> <<Field("password", "", "other")>>],
    [password |-> "", fields |-> <<Field("text", "token", "other"), Field("password", "", "secret")>>],
    [password |-> "", fields |-> <<Field("text", "pat", "other")>>],
    [password |-> "", fields |-> <<Field("password", "", ""), Field("url", "site", "other")>>]}

\* A host without PATH, one with an ordinary one, and one with a blank one and
\* with the variables of every service.
SomeAmbients == {
    [v \in {<<"GITHUB_", "APP_ID">>} |-> "app"],
    [v \in {<<"PADE_", "PROVIDER_FAKE">>, Path} |-> "1"],
    [v \in {Path, <<"OP_", "TOKEN">>, <<"KEEPER_", "PASSWORD">>, <<"VAULT_", "TOKEN">>, <<"LC_", "ALL">>,
             <<"GITHUB_", "APP_ID">>} |-> IF v = Path THEN "" ELSE "set"]}
=============================================================================
