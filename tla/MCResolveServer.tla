-------------------------- MODULE MCResolveServer --------------------------
(* Instances of ResolveServer for TLC.                                     *)
EXTENDS ResolveServer
=============================================================================
