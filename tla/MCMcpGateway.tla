---------------------------- MODULE MCMcpGateway ----------------------------
(* Instances of McpGateway for TLC.                                         *)
EXTENDS McpGateway, TLC

\* Requests and registrars are interchangeable; so are sockets.
Symmetry ==
    Permutations(Sockets) \cup Permutations(Registrars) \cup Permutations(Requests)
=============================================================================
