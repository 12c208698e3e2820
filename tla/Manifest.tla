------------------------------- MODULE Manifest -------------------------------
(***************************************************************************)
(* pade.yaml (internal/manifest, and the schema of spec/ that it embeds):  *)
(* which documents are loaded, and which of these are valid.  A document   *)
(* d has                                                                   *)
(*   d.yaml         "ok", "malformed", or "oddKeys": it decodes, but has a *)
(*                  mapping that JSON cannot express                       *)
(*   d.version      the key of the format before v1alpha1 is there         *)
(*   d.apiVersion   "absent", "v1alpha1" or "other"                        *)
(*   d.kind         the kind is DevelopmentSession                         *)
(*   d.extra        a field that the schema does not know, or a wrong type *)
(*   d.name         the class of metadata.name: "", "blank", "dns", "odd"  *)
(*                  or "long"                                              *)
(*   d.capabilities a function from names to [provider, env], env the set  *)
(*                  of the classes of its entries                          *)
(***************************************************************************)

(* Parse and detectLegacyManifest.                                         *)
Loads(d) == d.yaml # "malformed" /\ (d.version => d.apiVersion # "absent")

(* yamlToJSONDocument: a failure is an error, not an invalid manifest.     *)
Judged(d) == d.yaml = "ok"

(* The schema's part; it knows no version either.                          *)
SchemaHolds(d) ==
    /\ d.apiVersion = "v1alpha1" /\ d.kind
    /\ ~d.version /\ ~d.extra
    /\ d.name = "dns"

NameValid(d) == d.name = "dns"

(* A mutant of CapabilityValid: only provider env has its entries checked. *)
CapabilityValidOfEnv(name, cap, blank) ==
    /\ name # blank
    /\ cap.provider = "env" => cap.env # {} /\ cap.env \subseteq {"name"}

(* validateCapability, with blank for a name that is only space.           *)
CapabilityValid(name, cap, blank) ==
    /\ name # blank
    /\ cap.provider = "env" => cap.env # {}
    /\ cap.env \subseteq {"name"}

Valid(d, blank) ==
    /\ SchemaHolds(d)
    /\ NameValid(d)
    /\ \A c \in DOMAIN d.capabilities : CapabilityValid(c, d.capabilities[c], blank)
=============================================================================
