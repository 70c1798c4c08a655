---- MODULE MCChat ----
(* Instances of Chat for TLC. *)
EXTENDS ChatProps

CONSTANTS c1, k1, k2

MCClients == {c1}
MCConns == {k1, k2}
MCForeign == {k2}
MCPorts == {80, 81}
MCBytes == 0..1
====
