--------------------------- MODULE MCPulseConnect ---------------------------
(***************************************************************************)
(* PulseConnect with one genuine peer and one that is wrong in each way,   *)
(* and an option of every kind, with a value that its check refuses.       *)
(***************************************************************************)
EXTENDS PulseConnect

Opt(kind, value) == [kind |-> kind, value |-> value]
Cert(ca, name, key, alpn) == [ca |-> ca, name |-> name, key |-> key, alpn |-> alpn]

MCMakes ==
  {Opt("token", "token"), Opt("rootCAs", None), Opt("rootCAs", Shared),
   Opt("serverName", ""), Opt("serverName", "pulse"), Opt("pin", "the pin"),
   Opt("insecure", TRUE), Opt("nil", None), Opt("ackTimeout", 0),
   Opt("preambleTimeout", 0), Opt("sigQueueCapacity", 0), Opt("sigQueueCapacity", 1)}

MCPools == {{"private"}, {"private", "rogue"}}
MCLists == {{"a"}, {"b"}}

MCPeers ==
  {Cert("public", "pulse", "k1", "pulse"), Cert("private", "pulse", "k1", "pulse"),
   Cert("private", "pulse", "k2", "pulse"), Cert("rogue", "pulse", "k1", "pulse"),
   Cert("private", "::1", "k1", "pulse"), Cert("private", "pulse", "k1", "h3")}
=============================================================================
