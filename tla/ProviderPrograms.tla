--------------------------- MODULE ProviderPrograms ---------------------------
(***************************************************************************)
(* What the programs of the providers see of the environment of pade       *)
(* (internal/binding/cliproc).                                             *)
(*                                                                         *)
(* A variable is <<prefix, rest>>, the prefix being one the allowlists     *)
(* name, or that of another service; a text is "" when it is blank.        *)
(***************************************************************************)

Path == <<"", "PATH">>

AllowExact == {<<"", name>> : name \in {"PATH", "HOME", "USER", "LOGNAME", "SHELL",
    "TMPDIR", "TMP", "TEMP", "LANG", "LANGUAGE", "TZ", "TERM"}}

ExtraPrefix(kind) ==
    CASE kind = "exec" -> {"PADE_", "VAULT_", "OP_", "KSM_", "KEEPER_", "CLOUDSDK_", "GOOGLE_"}
      [] kind = "onepassword" -> {"OP_"}
      [] kind = "keeper" -> {"KEEPER_"}

Allowed(kind, v) == v \in AllowExact \/ v[1] \in {"LC_", "XDG_"} \cup ExtraPrefix(kind)

\* As if a blank PATH were a PATH.
EnvironWithPath(kind, ambient) ==
    LET kept == {v \in DOMAIN ambient : Allowed(kind, v)}
    IN  [v \in kept \cup {Path} |-> IF v \in kept THEN ambient[v] ELSE "minimal"]

\* cliproc.Environ: a PATH that is missing or blank is replaced.
Environ(kind, ambient) ==
    LET kept == {v \in DOMAIN ambient : Allowed(kind, v) /\ ~(v = Path /\ ambient[v] = "")}
    IN  [v \in kept \cup {Path} |-> IF v \in kept THEN ambient[v] ELSE "minimal"]

=============================================================================
