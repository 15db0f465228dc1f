---------------------------- MODULE DirectServer ----------------------------
(***************************************************************************)
(* The desktop's own monitor server: one accept thread per bound address   *)
(* and one thread per connection.  A stopped server joins its accept       *)
(* thread only; connection threads go on until their socket ends, and give *)
(* their place back to the counter of the server that took them, which may *)
(* be gone by then.                                                        *)
(*                                                                         *)
(* A connection is followed from its request head to its end.  A snapshot  *)
(* request, a pairing (module PairingRelay), an unknown route and a head   *)
(* that never comes whole change nothing here and are one way to end.      *)
(***************************************************************************)
EXTENDS Integers, FiniteSets

CONSTANTS
    Stacks,       \* the addresses bound, IPv4 and IPv6
    Conns,        \* bound: connection threads alive at once
    Devices,      \* paired phones
    MaxActive,    \* MAX_ACTIVE_CONNECTIONS
    None

ASSUME DirectServerAssumption == MaxActive \in Nat /\ None \notin Stacks \cup Devices

VARIABLES
    loop,       \* per address: where its accept thread is, "off" without a server
    stop,       \* per address: the stop flag of its server
    count,      \* per address: active_connections
    conn,       \* per connection thread: where it is, whose it is, its phone
    registry    \* the paired devices of the desktop

serverVars == <<loop, stop, count>>
directVars == <<loop, stop, count, conn, registry>>

NoConn == [at |-> "none", of |-> None, device |-> None]

DirectTypeOK ==
    /\ loop \in [Stacks -> {"off", "on", "full"}]
    /\ stop \in [Stacks -> BOOLEAN]
    /\ count \in [Stacks -> 0..(MaxActive + 1)]
    /\ conn \in [Conns -> [at: {"none", "head", "hello", "socket"},
                           of: Stacks \cup {None}, device: Devices \cup {None}]]
    /\ registry \in SUBSET Devices

DirectInit ==
    /\ loop = [s \in Stacks |-> "off"] /\ stop = [s \in Stacks |-> FALSE]
    /\ count = [s \in Stacks |-> 0] /\ conn = [c \in Conns |-> NoConn]
    /\ registry = Devices

Running == {s \in Stacks : loop[s] # "off"}
Live(s) == {c \in Conns : conn[c].of = s}

-----------------------------------------------------------------------------
(* The accept thread                                                       *)

\* The thread finds the stop flag and ends, and its listener with it.
AcceptEnds(s) ==
    /\ loop[s] = "on" /\ stop[s]
    /\ loop' = [loop EXCEPT ![s] = "off"] /\ stop' = [stop EXCEPT ![s] = FALSE]
    /\ count' = [count EXCEPT ![s] = 0]
    /\ conn' = [c \in Conns |->
                  IF conn[c].of = s THEN [conn[c] EXCEPT !.of = None] ELSE conn[c]]
    /\ UNCHANGED registry

\* fetch_add: the value it returns decides between a thread and a refusal.  Nobody but this
\* thread reads the stop flag, so a connection it takes after the flag was set is the same as
\* one it took just before.
Accept(s) ==
    /\ loop[s] = "on" /\ ~stop[s]
    /\ count' = [count EXCEPT ![s] = @ + 1]
    /\ IF count[s] >= MaxActive
         THEN loop' = [loop EXCEPT ![s] = "full"] /\ UNCHANGED conn
         ELSE /\ UNCHANGED loop
              /\ \E c \in Conns :
                    /\ conn[c] = NoConn
                    /\ conn' = [conn EXCEPT ![c] = [NoConn EXCEPT !.at = "head", !.of = s]]
    /\ UNCHANGED <<stop, registry>>

\* Bug: the place of a refused connection is not given back.
RefuseKeepingPlace(s) ==
    /\ loop[s] = "full"
    /\ loop' = [loop EXCEPT ![s] = "on"]
    /\ UNCHANGED <<stop, count, conn, registry>>
Refuse(s) ==
    /\ loop[s] = "full"
    /\ loop' = [loop EXCEPT ![s] = "on"]
    /\ count' = [count EXCEPT ![s] = @ - 1]
    /\ UNCHANGED <<stop, conn, registry>>

-----------------------------------------------------------------------------
(* A connection thread                                                     *)

\* The thread returns: ConnectionGuard gives its place back to its own server's counter.
Gone(c) ==
    /\ conn' = [conn EXCEPT ![c] = NoConn]
    /\ count' = [s \in Stacks |-> IF conn[c].of = s THEN count[s] - 1 ELSE count[s]]

\* The socket closed, failed, timed out or was answered in full.
End(c) ==
    /\ conn[c].at \in {"head", "hello", "socket"}
    /\ Gone(c)
    /\ UNCHANGED <<loop, stop, registry>>

\* A head with the token of a paired device opens a monitor socket.
ReadHead(c, d) ==
    /\ conn[c].at = "head" /\ d \in registry
    /\ conn' = [conn EXCEPT ![c].at = "hello", ![c].device = d]
    /\ UNCHANGED <<serverVars, registry>>

\* HelloAck and the first snapshot, which is made for a paired device only.
Hello(c) ==
    /\ conn[c].at = "hello" /\ conn[c].device \in registry
    /\ conn' = [conn EXCEPT ![c].at = "socket"]
    /\ UNCHANGED <<serverVars, registry>>

\* Bug: the authorization of the handshake is taken to last.
RejectRevokedAtHello(c) ==
    /\ conn[c].at = "hello" /\ conn[c].device \notin registry
    /\ Gone(c)
    /\ UNCHANGED <<loop, stop, registry>>
\* Each turn of the loop asks auth_checker again, and the snapshot provider the registry.
RejectRevoked(c) ==
    /\ conn[c].at \in {"hello", "socket"} /\ conn[c].device \notin registry
    /\ Gone(c)
    /\ UNCHANGED <<loop, stop, registry>>

\* A paired phone revokes itself, over HTTPS or on its socket: revoke_handler removes it
\* everywhere and the connection ends.  One that fails changes nothing, and is End.
RevokeSelf(c, d) ==
    /\ d \in registry
    /\ conn[c].at = "head" \/ (conn[c].at = "socket" /\ conn[c].device = d)
    /\ registry' = registry \ {d} /\ Gone(c)
    /\ UNCHANGED <<loop, stop>>

\* The desktop's user or the relay removes a device (module DeviceLifecycle).
RevokeElsewhere(d) ==
    /\ d \in registry /\ registry' = registry \ {d}
    /\ UNCHANGED <<serverVars, conn>>

DirectNext ==
    \/ \E s \in Stacks : AcceptEnds(s) \/ Accept(s) \/ Refuse(s)
    \/ \E c \in Conns :
         \/ End(c) \/ Hello(c) \/ RejectRevoked(c)
         \/ \E d \in Devices : ReadHead(c, d) \/ RevokeSelf(c, d)
    \/ \E d \in Devices : RevokeElsewhere(d)

-----------------------------------------------------------------------------
(* What the commands do to the servers                                     *)

\* start_monitor_server for the addresses that could be bound.
StartServers(bound) == loop' = [s \in Stacks |-> IF s \in bound THEN "on" ELSE "off"]

\* MonitorServerHandle::drop, one server after the other: the flag is set and the accept
\* thread is joined.
DropServer(s) ==
    /\ s \in Running /\ \A t \in Stacks : ~stop[t]
    /\ stop' = [stop EXCEPT ![s] = TRUE]
    /\ UNCHANGED <<loop, count, conn, registry>>

\* The process ends, and every thread with it.
KillServers ==
    /\ loop' = [s \in Stacks |-> "off"] /\ stop' = [s \in Stacks |-> FALSE]
    /\ count' = [s \in Stacks |-> 0] /\ conn' = [c \in Conns |-> NoConn]
    /\ UNCHANGED registry

-----------------------------------------------------------------------------
(* Every place of a server's counter is held by a thread of that server,   *)
(* or by the connection its accept thread is about to refuse, and there    *)
(* are never more threads than the limit: restarts, refusals and threads   *)
(* that outlive their server leak no place.                                *)
ConnectionsCounted ==
    \A s \in Stacks :
        /\ count[s] = Cardinality(Live(s)) + (IF loop[s] = "full" THEN 1 ELSE 0)
        /\ Cardinality(Live(s)) <= MaxActive

(* A monitor socket of a device that was revoked, from either side, is     *)
(* closed by the server, also after the server itself was stopped.         *)
RevokedSocketCloses ==
    \A c \in Conns, d \in Devices :
        (conn[c].device = d /\ d \notin registry) ~> (conn[c].device # d)
=============================================================================
