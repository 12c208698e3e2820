---------------------------- MODULE MCBrokerCall ----------------------------
(* An instance of TimedCall for TLC: a broker over TLS, one on this host, *)
(* another port of it, another host, and one in the clear.                 *)
EXTENDS TimedCall

E(tls, loopback, host) == [tls |-> tls, loopback |-> loopback, host |-> host]
SomeEndpoints == {
    E(TRUE, FALSE, "broker"), E(TRUE, FALSE, "mirror"),
    E(TRUE, TRUE, "here"), E(FALSE, TRUE, "here"), E(FALSE, FALSE, "broker")}
=============================================================================
