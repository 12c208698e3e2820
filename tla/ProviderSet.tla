------------------------------ MODULE ProviderSet ------------------------------
(* The provider names a bindings file may use, what is asked of its        *)
(* entries, and the registries of the consumer and of the broker           *)
(* (internal/binding/config_validate.go, internal/providerset).            *)

Validated == {"env", "vault", "onepassword", "keeper",
              "keeper-secrets-manager", "broker", "exec"}

(* An entry of a bindings file is its provider, and whether its section    *)
(* for that provider is sound.                                             *)
ValidEntry(entry) == entry.provider \in Validated /\ entry.sound

(* providerset.Consumer                                                    *)
Consumer == Validated \ {"exec"}

(* Mutant: a broker may call another.                                      *)
BrokerNested == Validated

(* providerset.Broker                                                      *)
Broker == Validated \ {"broker"}
=============================================================================
