----------------------------- MODULE BrokerListen -----------------------------
(***************************************************************************)
(* Where the broker listens and who terminates TLS (internal/broker/       *)
(* listen.go): the address chosen from -listen and PORT, and the table of  *)
(* address, certificate, key and -tls-termination that admits a transport. *)
(*                                                                         *)
(* A host is the class of its spelling, an address is a host or something  *)
(* that net.SplitHostPort refuses, and a file flag is absent, only space,  *)
(* or a path.                                                              *)
(***************************************************************************)
EXTENDS Integers

(* "lookalike" is a name that begins like a loopback address, "mixed" the  *)
(* name LocalHost, "empty" the host of ":8787".                            *)
Spellings == {"localhost", "mixed", "loopback4", "loopback6", "lookalike",
              "wildcard", "empty", "public"}
Address == [form : {"blank", "malformed"}] \cup [form : {"split"}, host : Spellings]

DefaultListenAddr == [form |-> "split", host |-> "loopback4"]
NoAddress == [form |-> "malformed"]

(* The flags and the PORT of the environment.                              *)
ListenFlags == [listen : Address,
                port : [form : {"blank", "words"}] \cup [form : {"integer"}, n : Int],
                termination : [word : {"", "proxy", "other"}, styled : BOOLEAN],
                cert : {"", "space", "path"}, key : {"", "space", "path"}]

-----------------------------------------------------------------------------
(* ResolveListenAddr: the flag wins, then PORT, on all interfaces.         *)
PortUsable(port) == port.form = "integer" /\ port.n \in 1 .. 65535

ResolveListenAddr(listen, port) ==
    CASE listen.form # "blank" -> listen
      [] listen.form = "blank" /\ port.form = "blank" -> DefaultListenAddr
      [] listen.form = "blank" /\ PortUsable(port) ->
            [form |-> "split", host |-> "wildcard"]
      [] OTHER -> NoAddress

(* Mutant: whatever begins like a loopback address is one.                 *)
IsLoopbackPrefix(host) == host \in {"localhost", "loopback4", "loopback6", "lookalike"}

(* isLoopbackHost: the name as it stands, or an address that parses.       *)
IsLoopbackHost(host) == host \in {"localhost", "loopback4", "loopback6"}

Given(file) == file = "path"
Proxied(flags) == flags.termination.word = "proxy"

(* ListenConfig.Validate of the address chosen: certificate and key come   *)
(* together, not with a proxy, and without any of them only loopback.      *)
Admissible(flags, addr) ==
    /\ addr.form = "split"
    /\ flags.termination.word \in {"", "proxy"}
    /\ Given(flags.cert) = Given(flags.key)
    /\ ~(Proxied(flags) /\ Given(flags.cert))
    /\ Given(flags.cert) \/ Proxied(flags) \/ IsLoopbackHost(addr.host)

TransportOf(flags) ==
    IF Given(flags.cert) THEN "tls" ELSE IF Proxied(flags) THEN "tls-proxy" ELSE "local"
=============================================================================
