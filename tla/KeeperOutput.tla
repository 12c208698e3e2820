---------------------------- MODULE KeeperOutput ----------------------------
(***************************************************************************)
(* What the keeper provider makes of the output of Keeper Commander        *)
(* (internal/binding/keeper/parse.go).                                     *)
(*                                                                         *)
(* A screen is the sequence of the lines of --format=password, without     *)
(* colours and surrounding space: "" for a blank line, and a name for any  *)
(* other.  A document is the record of --format=json: its "password", and  *)
(* its fields in the order "fields", "custom", "custom_fields", each with  *)
(* its type, its label or else its name, and the text of its value.  ""    *)
(* stands for no text: absent, blank, or a number.                         *)
(***************************************************************************)
EXTENDS Naturals, Sequences, FiniteSetsExt

\* Lines that begin like the eight kinds of login and sync chatter.
Chatter == {"logging in", "syncing", "decrypted", "password:"}

\* What the lines and the texts of records are told apart by.
Lines == Chatter \cup {"", "secret", "notice"}
Values == {"", "secret", "other"}

\* The places of the lines that are not skipped.
Telling(lines) == {i \in DOMAIN lines : lines[i] # "" /\ lines[i] \notin Chatter}

\* As if the first line that is not chatter were the password.
FirstLine(lines) == IF Telling(lines) = {} THEN "" ELSE lines[Min(Telling(lines))]

\* The last line that is not chatter.
PasswordFromCLIOutput(lines) ==
    IF Telling(lines) = {} THEN "" ELSE lines[Max(Telling(lines))]

FirstNonEmpty(texts) ==
    LET found == {i \in DOMAIN texts : texts[i] # ""}
    IN  IF found = {} THEN "" ELSE texts[Min(found)]

FirstFieldValue(doc, want, wanted) ==
    LET found == {i \in DOMAIN doc.fields :
                     doc.fields[i][want] = wanted /\ doc.fields[i].value # ""}
    IN  IF found = {} THEN "" ELSE doc.fields[Min(found)].value

PreferTypes == <<"password", "secret", "oneTimeCode">>

PreferLabels == <<"password", "credential", "token", "secret", "pat", "api key", "apikey">>

ByType(doc) == [i \in DOMAIN PreferTypes |-> FirstFieldValue(doc, "type", PreferTypes[i])]

ByLabel(doc) == [i \in DOMAIN PreferLabels |-> FirstFieldValue(doc, "label", PreferLabels[i])]

\* As if labels came before types.
LabelFirst(doc) ==
    FirstNonEmpty(<<doc.password, FirstNonEmpty(ByLabel(doc)), FirstNonEmpty(ByType(doc))>>)

\* The password of the record, the first field of a preferred type, or the
\* first one with a preferred label; "" where the code returns an error.
SecretFromKeeperJSON(doc) ==
    FirstNonEmpty(<<doc.password, FirstNonEmpty(ByType(doc)), FirstNonEmpty(ByLabel(doc))>>)
=============================================================================
