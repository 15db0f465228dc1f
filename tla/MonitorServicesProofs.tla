------------------------ MODULE MonitorServicesProofs ------------------------
(***************************************************************************)
(* The desktop's monitor services, for any number of addresses,            *)
(* connections, phones, ports, relay servers and client threads: the       *)
(* connection counters leak nothing, no client thread strays, and the      *)
(* services follow the saved settings.                                     *)
(***************************************************************************)
EXTENDS MonitorServices, FiniteSetTheorems, TLAPS

\* Threads of connections are finite in number for every server, so that they can be counted.
LiveFinite == \A s \in Stacks : IsFiniteSet(Live(s))

\* A client thread there is, is the one in the slot; while the commands join it, it is the one
\* that was told to stop, and nobody has put another in its place.
OneClient ==
    /\ \A i, j \in Clients : client[i] # NoClient /\ client[j] # NoClient => i = j
    /\ \A i \in Clients : client[i].pc = "none" => client[i] = NoClient
    /\ at = "joinClient" => slot = None
    /\ at = "gone" => slot = None
    /\ slot # None => client[slot] # NoClient
    /\ at = "joinClient" => \A i \in Clients : client[i] # NoClient => client[i].stop
    /\ at # "joinClient" => \A i \in Clients : client[i] # NoClient => i = slot /\ ~client[i].stop
    /\ connected => Alive # {}

\* The relay is on only with the monitor.
RelayNeedsMonitor(s) == s.relay => s.mon

\* A client that was started for settings s.
Fits(s) == slot # None => s.relay /\ client[slot].url = s.url

\* What a command has kept in prev and cmd agrees with what it has written so far.
CommandAgrees ==
    /\ at = "tunnel" \/ (at = "joinClient" /\ cmd.op = "network") =>
          /\ prev \in Settings /\ RelayNeedsMonitor(prev)
          /\ prev.port = settings.port /\ (settings.mon => prev.mon)
    /\ at = "joinServers" /\ cmd.op = "monitor" =>
          /\ cmd.next \in Settings /\ RelayNeedsMonitor(cmd.next)
          /\ cmd.next.mon => /\ prev = settings /\ cmd.next.url = settings.url
                             /\ settings.relay => cmd.next.relay

\* The services follow the settings at every moment of a command, not only between commands,
\* but for the ones in drift; while the tunnel restarts, the client still follows the settings
\* before, which are the ones saved if the command has not changed them.
AlwaysFollow ==
    /\ RelayNeedsMonitor(settings)
    /\ ServersFit \/ "servers" \in drift
    /\ at = "tunnel" => (Fits(prev) /\ (prev = cmd.next => prev = settings)) \/ "client" \in drift
    /\ at # "tunnel" => Fits(settings) \/ "client" \in drift

\* The types of what only the commands change, and of the relay client.
Thread == [pc: {"none", "away", "open", "handling", "ended"}, stop: BOOLEAN, url: Urls \cup {None}]

MainTypes ==
    /\ settings \in Settings /\ cred \in Relays \cup {NoUrl}
    /\ at \in {"gone", "idle", "acquire", "tunnel", "joinClient", "joinServers"}
    /\ cmd \in [op: {"none", "monitor", "network", "register", "quit"}, next: Settings \cup {None}]
    /\ prev \in Settings \cup {None}
    /\ coord \in {"free", "main", "worker"} /\ worker \in {"none", "waiting", "running"}
    /\ drift \in SUBSET Services /\ sport \in Ports \cup {None}

RelayTypes == slot \in Clients \cup {None} /\ client \in [Clients -> Thread] /\ connected \in BOOLEAN

ServicesInv == MainTypes /\ RelayTypes /\ OneClient /\ CommandAgrees /\ AlwaysFollow

-----------------------------------------------------------------------------
(* The direct server                                                       *)

\* All that a step of the desktop can do to the direct server.
LEMMA DirectEffects ==
    ASSUME [Next]_vars
    PROVE  \/ UNCHANGED directVars
           \/ DirectNext
           \/ KillServers
           \/ \E s \in Stacks : DropServer(s)
           \/ \E bound \in SUBSET Stacks :
                 Running = {} /\ StartServers(bound) /\ UNCHANGED <<stop, count, conn, registry>>
<1> DEFINE Effect ==
       \/ UNCHANGED directVars
       \/ DirectNext
       \/ KillServers
       \/ \E s \in Stacks : DropServer(s)
       \/ \E bound \in SUBSET Stacks :
             Running = {} /\ StartServers(bound) /\ UNCHANGED <<stop, count, conn, registry>>
<1>s. ASSUME NEW s, NEW bound \in SUBSET Stacks, StartMonitor(s, bound),
          UNCHANGED <<stop, count, conn, registry>>
      PROVE  Effect
  BY <1>s, Zenon DEF StartMonitor, directVars
<1>1. CASE DirectStep
  BY <1>1, Zenon DEF DirectStep
<1>2. CASE Acquire
  BY <1>2, Zenon DEF Acquire, QuitHolding, SaveNetwork, Register
<1>3. CASE MainStep
  <2>1. CASE QuitDone
    BY <2>1, Zenon DEF QuitDone, Dead
  <2>2. CASE ServersJoined
    BY <2>2, Zenon DEF ServersJoined, ApplyMonitor, StartMonitor, directVars
  <2>3. CASE RestartTunnel \/ ClientJoined \/ RestartClient
    BY <2>3, Zenon DEF RestartTunnel, ClientJoined, RestartClient
  <2>4. CASE \E s \in Stacks : StopServer(s)
    BY <2>4, Zenon DEF StopServer
  <2>q. QED BY <1>3, <2>1, <2>2, <2>3, <2>4, Zenon DEF MainStep
<1>4. CASE Boot \/ EnsureServers
  BY <1>4, <1>s, Zenon DEF Boot, EnsureServers
<1>5. CASE Crash
  BY <1>5, Zenon DEF Crash, Dead
<1>6. ASSUME NEW on \in BOOLEAN, NEW port \in Ports, SetMonitorEnabled(on, port) PROVE Effect
  BY <1>6, Zenon DEF SetMonitorEnabled, ApplyMonitor, StartMonitor, directVars
<1>7. ASSUME NEW op, StartNetworkCommand(op) PROVE Effect
  BY <1>7, Zenon DEF StartNetworkCommand
<1>8. ASSUME NEW i \in Clients,
             ClientStep(i) \/ Connect(i) \/ HelloAck(i) \/ SessionEnds(i) \/ DeviceRequest(i)
      PROVE  Effect
  BY <1>8, Zenon DEF ClientStep, StopSeen, HandleRequest, Connect, HelloAck, SessionEnds, DeviceRequest
<1>9. CASE (\E c \in Conns : DirectRequest(c)) \/ WorkerHolds \/ WorkerDone
  BY <1>9, Zenon DEF DirectRequest, WorkerHolds, WorkerDone
<1>10. CASE UNCHANGED vars
  BY <1>10, Zenon DEF vars
<1>q. QED
  BY <1>1, <1>2, <1>3, <1>4, <1>5, <1>6, <1>7, <1>8, <1>9, <1>10, Zenon DEF Next

\* Every step of the server and every command keeps the types, and counts the threads of every
\* server: one step per way a thread or a place comes or goes.
LEMMA CountStep ==
    ASSUME DirectTypeOK, LiveFinite, ConnectionsCounted, [Next]_vars
    PROVE  DirectTypeOK' /\ LiveFinite' /\ ConnectionsCounted'
<1> DEFINE Conn == [at: {"none", "head", "hello", "socket"}, of: Stacks \cup {None},
                    device: Devices \cup {None}]
           Loops == {"off", "on", "full"}
           Goal == DirectTypeOK /\ LiveFinite /\ ConnectionsCounted
           Extra(s) == IF loop[s] = "full" THEN 1 ELSE 0
           Counted(s) == /\ IsFiniteSet(Live(s)) /\ Cardinality(Live(s)) \in Nat
                         /\ count[s] = Cardinality(Live(s)) + Extra(s) /\ Cardinality(Live(s)) <= MaxActive
<1>t. /\ loop \in [Stacks -> Loops] /\ stop \in [Stacks -> BOOLEAN]
           /\ count \in [Stacks -> 0..(MaxActive + 1)]
      /\ conn \in [Conns -> Conn] /\ registry \in SUBSET Devices /\ MaxActive \in Nat
      /\ None \notin Stacks /\ None \notin Devices
  BY DirectServerAssumption DEF DirectTypeOK
<1>c. \A s \in Stacks : Counted(s)
  BY FS_CardinalityType DEF LiveFinite, ConnectionsCounted
<1>n. NoConn \in Conn /\ NoConn.of = None
  BY DEF NoConn
<1>g. ASSUME loop' \in [Stacks -> Loops], stop' \in [Stacks -> BOOLEAN], conn' \in [Conns -> Conn],
             registry' \in SUBSET Devices, count' \in [Stacks -> Int],
             \A s \in Stacks : Counted(s)'
      PROVE  Goal'
  <2>1. count' \in [Stacks -> 0..(MaxActive + 1)]
    BY <1>t, <1>g
  <2>q. QED BY <1>g, <2>1 DEF DirectTypeOK, LiveFinite, ConnectionsCounted
<1>1. CASE UNCHANGED directVars
  BY <1>1 DEF directVars, DirectTypeOK, LiveFinite, ConnectionsCounted, Live
<1>2. CASE KillServers
  <2>1. /\ loop' = [s \in Stacks |-> "off"] /\ stop' = [s \in Stacks |-> FALSE]
        /\ count' = [s \in Stacks |-> 0] /\ conn' = [c \in Conns |-> NoConn] /\ registry' = registry
    BY <1>2 DEF KillServers
  <2>2. \A s \in Stacks : Live(s)' = {}
    BY <1>n, <1>t, <2>1 DEF Live
  <2>3. \A s \in Stacks : IsFiniteSet(Live(s)') /\ Cardinality(Live(s)') = 0
    BY <2>2, FS_EmptySet
  <2>q. QED BY <1>g, <1>n, <1>t, <2>1, <2>3
<1>3. ASSUME NEW s \in Stacks, DropServer(s) PROVE Goal'
  <2>1. /\ stop' = [stop EXCEPT ![s] = TRUE] /\ UNCHANGED <<loop, count, conn, registry>>
    BY <1>3 DEF DropServer
  <2>2. \A t \in Stacks : Live(t)' = Live(t)
    BY <2>1 DEF Live
  <2>q. QED BY <1>c, <1>g, <1>t, <2>1, <2>2
<1>4. ASSUME NEW bound \in SUBSET Stacks, Running = {}, StartServers(bound),
             UNCHANGED <<stop, count, conn, registry>>
      PROVE  Goal'
  <2>1. loop' = [s \in Stacks |-> IF s \in bound THEN "on" ELSE "off"]
    BY <1>4 DEF StartServers
  <2>2. \A s \in Stacks : loop[s] # "full"
    BY <1>4 DEF Running
  <2>3. \A s \in Stacks : Live(s)' = Live(s)
    BY <1>4 DEF Live
  <2>q. QED BY <1>c, <1>g, <1>t, <1>4, <2>1, <2>2, <2>3
<1>5. ASSUME NEW s \in Stacks, AcceptEnds(s) PROVE Goal'
  <2>1. /\ loop[s] = "on" /\ loop' = [loop EXCEPT ![s] = "off"] /\ stop' = [stop EXCEPT ![s] = FALSE]
        /\ count' = [count EXCEPT ![s] = 0] /\ registry' = registry
        /\ conn' = [c \in Conns |-> IF conn[c].of = s THEN [conn[c] EXCEPT !.of = None] ELSE conn[c]]
    BY <1>5 DEF AcceptEnds
  <2>2. \A c \in Conns : /\ conn'[c] \in Conn
                         /\ conn'[c].of = IF conn[c].of = s THEN None ELSE conn[c].of
    BY <1>t, <2>1
  <2>3. conn' \in [Conns -> Conn]
    BY <2>1, <2>2
  <2>4. Live(s)' = {} /\ \A t \in Stacks \ {s} : Live(t)' = Live(t)
    BY <1>t, <2>2 DEF Live
  <2>5. IsFiniteSet(Live(s)') /\ Cardinality(Live(s)') = 0
    BY <2>4, FS_EmptySet
  <2>6. ASSUME NEW t \in Stacks PROVE Counted(t)'
    <3>1. CASE t = s
      BY <1>t, <2>1, <2>5, <3>1
    <3>2. CASE t # s
      BY <1>c, <1>t, <2>1, <2>4, <3>2
    <3>q. QED BY <3>1, <3>2
  <2>7. loop' \in [Stacks -> Loops] /\ stop' \in [Stacks -> BOOLEAN] /\ count' \in [Stacks -> Int]
    BY <1>t, <2>1
  <2>q. QED BY <1>g, <1>t, <2>1, <2>3, <2>6, <2>7
<1>6. ASSUME NEW s \in Stacks, Accept(s) PROVE Goal'
  <2>1. loop[s] = "on" /\ count' = [count EXCEPT ![s] = @ + 1] /\ UNCHANGED <<stop, registry>>
    BY <1>6, Zenon DEF Accept
  <2>2. CASE count[s] >= MaxActive
    <3>1. loop' = [loop EXCEPT ![s] = "full"] /\ conn' = conn
      BY <1>6, <2>2, Zenon DEF Accept
    <3>2. \A t \in Stacks : Live(t)' = Live(t)
      BY <3>1 DEF Live
    <3>3. ASSUME NEW t \in Stacks PROVE Counted(t)'
      <4>1. CASE t = s
        BY <1>c, <1>t, <2>1, <3>1, <3>2, <4>1
      <4>2. CASE t # s
        BY <1>c, <1>t, <2>1, <3>1, <3>2, <4>2
      <4>q. QED BY <4>1, <4>2
    <3>4. loop' \in [Stacks -> Loops] /\ count' \in [Stacks -> Int]
      BY <1>t, <2>1, <3>1
    <3>q. QED BY <1>g, <1>t, <2>1, <3>1, <3>3, <3>4
  <2>3. CASE ~(count[s] >= MaxActive)
    <3>1. loop' = loop
      BY <1>6, <2>3, Zenon DEF Accept
    <3>2. PICK c \in Conns : /\ conn[c] = NoConn
                             /\ conn' = [conn EXCEPT ![c] = [NoConn EXCEPT !.at = "head", !.of = s]]
      BY <1>6, <2>3, Zenon DEF Accept
    <3>3. [NoConn EXCEPT !.at = "head", !.of = s] \in Conn /\ [NoConn EXCEPT !.at = "head", !.of = s].of = s
      BY DEF NoConn
    <3>4. conn' \in [Conns -> Conn] /\ conn'[c].of = s /\ \A x \in Conns \ {c} : conn'[x] = conn[x]
      BY <1>t, <3>2, <3>3
    <3>5. c \notin Live(s) /\ Live(s)' = Live(s) \cup {c} /\ \A t \in Stacks \ {s} : Live(t)' = Live(t)
      BY <1>n, <1>t, <3>2, <3>4 DEF Live
    <3>6. IsFiniteSet(Live(s)') /\ Cardinality(Live(s)') = Cardinality(Live(s)) + 1
      BY <1>c, <3>5, FS_AddElement
    <3>7. ASSUME NEW t \in Stacks PROVE Counted(t)'
      <4>1. CASE t = s
        BY <1>c, <1>t, <2>1, <2>3, <3>1, <3>6, <4>1
      <4>2. CASE t # s
        BY <1>c, <1>t, <2>1, <3>1, <3>5, <4>2
      <4>q. QED BY <4>1, <4>2
    <3>8. loop' \in [Stacks -> Loops] /\ count' \in [Stacks -> Int]
      BY <1>t, <2>1, <3>1
    <3>q. QED BY <1>g, <1>t, <2>1, <3>4, <3>7, <3>8
  <2>q. QED BY <2>2, <2>3
<1>7. ASSUME NEW s \in Stacks, Refuse(s) PROVE Goal'
  <2>1. /\ loop[s] = "full" /\ loop' = [loop EXCEPT ![s] = "on"] /\ count' = [count EXCEPT ![s] = @ - 1]
        /\ UNCHANGED <<stop, conn, registry>>
    BY <1>7 DEF Refuse
  <2>2. \A t \in Stacks : Live(t)' = Live(t)
    BY <2>1 DEF Live
  <2>3. ASSUME NEW t \in Stacks PROVE Counted(t)'
    <3>1. CASE t = s
      BY <1>c, <1>t, <2>1, <2>2, <3>1
    <3>2. CASE t # s
      BY <1>c, <1>t, <2>1, <2>2, <3>2
    <3>q. QED BY <3>1, <3>2
  <2>4. loop' \in [Stacks -> Loops] /\ count' \in [Stacks -> Int]
    BY <1>t, <2>1
  <2>q. QED BY <1>g, <1>t, <2>1, <2>3, <2>4
\* A thread that ends gives its place back to the server that took it, if it still runs.
<1>8. ASSUME NEW c \in Conns, Gone(c), UNCHANGED <<loop, stop>>, registry' \in SUBSET Devices PROVE Goal'
  <2>1. /\ conn' = [conn EXCEPT ![c] = NoConn]
        /\ count' = [s \in Stacks |-> IF conn[c].of = s THEN count[s] - 1 ELSE count[s]]
    BY <1>8 DEF Gone
  <2>2. conn' \in [Conns -> Conn] /\ conn'[c].of = None /\ \A x \in Conns \ {c} : conn'[x] = conn[x]
    BY <1>n, <1>t, <2>1
  <2>3. ASSUME NEW s \in Stacks
        PROVE  Counted(s)'
    <3>1. CASE conn[c].of = s
      <4>1. Live(s)' = Live(s) \ {c} /\ c \in Live(s)
        BY <1>t, <2>2, <3>1 DEF Live
      <4>2. /\ IsFiniteSet(Live(s) \ {c})
            /\ Cardinality(Live(s) \ {c}) = Cardinality(Live(s)) - 1
        BY <1>c, <4>1, FS_RemoveElement
      <4>3. Cardinality(Live(s)') \in Nat
        BY <4>1, <4>2, FS_CardinalityType
      <4>q. QED BY <1>c, <1>t, <1>8, <2>1, <3>1, <4>1, <4>2, <4>3
    <3>2. CASE conn[c].of # s
      <4>1. Live(s)' = Live(s)
        BY <1>t, <2>2, <3>2 DEF Live
      <4>q. QED BY <1>c, <1>8, <2>1, <3>2, <4>1
    <3>q. QED BY <3>1, <3>2
  <2>q. QED BY <1>g, <1>t, <1>8, <2>1, <2>2, <2>3
<1>9. ASSUME NEW c \in Conns, End(c) \/ RejectRevoked(c) PROVE Goal'
  BY <1>t, <1>8, <1>9 DEF End, RejectRevoked
<1>10. ASSUME NEW c \in Conns, NEW d \in Devices, RevokeSelf(c, d) PROVE Goal'
  BY <1>t, <1>8, <1>10 DEF RevokeSelf
\* A thread that reads on stays with its server.
<1>11. ASSUME conn' \in [Conns -> Conn], \A x \in Conns : conn'[x].of = conn[x].of,
              UNCHANGED <<loop, stop, count>>, registry' \in SUBSET Devices
       PROVE  Goal'
  <2>1. \A t \in Stacks : Live(t)' = Live(t)
    BY <1>11 DEF Live
  <2>q. QED BY <1>c, <1>g, <1>t, <1>11, <2>1
<1>12. ASSUME NEW c \in Conns, NEW d \in Devices, ReadHead(c, d) PROVE Goal'
  <2>1. /\ conn' = [conn EXCEPT ![c].at = "hello", ![c].device = d]
             /\ UNCHANGED <<loop, stop, count, registry>>
    BY <1>12 DEF ReadHead, serverVars
  <2>2. conn' = [conn EXCEPT ![c] = [conn[c] EXCEPT !.at = "hello", !.device = d]]
    BY <1>t, <2>1
  <2>3. /\ [conn[c] EXCEPT !.at = "hello", !.device = d] \in Conn
        /\ [conn[c] EXCEPT !.at = "hello", !.device = d].of = conn[c].of
    BY <1>t
  <2>q. QED BY <1>t, <1>11, <2>1, <2>2, <2>3
<1>13. ASSUME NEW c \in Conns, Hello(c) PROVE Goal'
  <2>1. conn' = [conn EXCEPT ![c].at = "socket"] /\ UNCHANGED <<loop, stop, count, registry>>
    BY <1>13 DEF Hello, serverVars
  <2>q. QED BY <1>t, <1>11, <2>1
<1>14. ASSUME NEW d \in Devices, RevokeElsewhere(d) PROVE Goal'
  BY <1>t, <1>11, <1>14 DEF RevokeElsewhere, serverVars
<1>15. CASE DirectNext
  BY <1>5, <1>6, <1>7, <1>9, <1>10, <1>12, <1>13, <1>14, <1>15 DEF DirectNext
<1>q. QED
  BY <1>1, <1>2, <1>3, <1>4, <1>15, DirectEffects

\* Between restarts, refusals and threads that outlive their server, the counter of every
\* address counts exactly its threads, for any limit and any number of connections.
THEOREM PlacesAreCounted == Spec => [](DirectTypeOK /\ ConnectionsCounted)
<1>1. Init => DirectTypeOK /\ LiveFinite /\ ConnectionsCounted
  <2> SUFFICES ASSUME DirectInit PROVE DirectTypeOK /\ LiveFinite /\ ConnectionsCounted
    BY DEF Init
  <2>1. \A s \in Stacks : Live(s) = {}
    BY DirectServerAssumption DEF DirectInit, Live, NoConn
  <2>2. LiveFinite /\ ConnectionsCounted
    BY <2>1, FS_EmptySet, DirectServerAssumption DEF DirectInit, LiveFinite, ConnectionsCounted
  <2>3. DirectTypeOK
    BY DirectServerAssumption DEF DirectInit, DirectTypeOK, NoConn
  <2>q. QED BY <2>2, <2>3
<1>q. QED
  BY <1>1, CountStep, PTL DEF Spec

-----------------------------------------------------------------------------
(* The relay client                                                        *)

\* What there is to know of the record of no thread.
LEMMA NoClientFacts == NoClient \in Thread /\ NoClient.pc = "none" /\ NoClient.stop = FALSE
  BY DEF NoClient, Thread

\* A step that leaves the client alone and does not begin or end a join.
LEMMA ClientAlone ==
    ASSUME RelayTypes, OneClient, UNCHANGED relayVars, at # "joinClient", at' # "joinClient",
           at' = "gone" => at = "gone"
    PROVE  RelayTypes' /\ OneClient'
  BY DEF RelayTypes, OneClient, relayVars, Alive

\* stop_relay_client takes the one thread there is out of its slot and tells it to stop.
LEMMA TakeOne ==
    ASSUME RelayTypes, OneClient, at # "joinClient", TakeClient, at' = "joinClient"
    PROVE  RelayTypes' /\ OneClient' /\ slot' = None
<1> USE MonitorServicesAssumption, NoClientFacts
<1>1. /\ slot' = None /\ connected' = connected
      /\ client' = [i \in Clients |-> IF i = slot THEN [client[i] EXCEPT !.stop = TRUE] ELSE client[i]]
  BY DEF TakeClient
<1>2. \A i \in Clients : client[i] \in Thread
  BY DEF RelayTypes
<1>3. \A i \in Clients : [client[i] EXCEPT !.stop = TRUE] \in Thread
  BY <1>2 DEF Thread
<1>4. \A i \in Clients : /\ client'[i] \in Thread /\ client'[i].pc = client[i].pc
                         /\ i = slot => client'[i].stop
                         /\ i # slot => client'[i] = client[i]
  BY <1>1, <1>2, <1>3 DEF Thread
<1>5. client' \in [Clients -> Thread]
  BY <1>1, <1>4
<1>6. \A i \in Clients : i # slot => client[i] = NoClient
  BY DEF OneClient
<1>7. \A i \in Clients : i = slot => client[i].pc # "none"
  BY DEF OneClient
<1>8. (connected => Alive # {})'
  BY <1>1, <1>4 DEF OneClient, Alive
<1>9. OneClient'
  BY <1>1, <1>4, <1>6, <1>7, <1>8 DEF OneClient
<1>q. QED BY <1>1, <1>5, <1>9 DEF RelayTypes

\* When the join is over no thread is left.
LEMMA ReapedAll ==
    ASSUME RelayTypes, OneClient, at = "joinClient", Joined
    PROVE  Reaped = [i \in Clients |-> NoClient]
<1>1. ASSUME NEW i \in Clients
      PROVE  (IF client[i].stop /\ client[i].pc = "ended" THEN NoClient ELSE client[i]) = NoClient
  BY <1>1, NoClientFacts DEF OneClient, Joined
<1>q. QED BY <1>1 DEF Reaped

\* start_relay_client_for_settings where no thread is left: none, or the one for its settings.
LEMMA StartOne ==
    ASSUME slot = None, NEW others, others = [i \in Clients |-> NoClient],
           at' \notin {"joinClient", "gone"}, NEW s \in Settings, ClientFor(s, others) \/ NoSpawn(others)
    PROVE  /\ RelayTypes' /\ OneClient'
           /\ slot' # None => s.relay /\ client'[slot'].url = s.url
<1> USE MonitorServicesAssumption, NoClientFacts
<1>1. CASE NoSpawn(others)
  <2>1. slot' = None /\ client' = others /\ connected' = FALSE
    BY <1>1 DEF NoSpawn
  <2>2. RelayTypes'
    BY <2>1 DEF RelayTypes
  <2>3. OneClient'
    BY <2>1 DEF OneClient
  <2>q. QED BY <2>1, <2>2, <2>3
<1>2. CASE s.relay /\ cred = s.url /\ SpawnClient(s.url, others)
  <2> DEFINE i == CHOOSE j \in Clients : others[j] = NoClient
  <2>1. i \in Clients
    <3>1. \E j \in Clients : others[j] = NoClient
      OBVIOUS
    <3>q. QED BY <3>1
  <2> HIDE DEF i
  <2>2. PICK pc \in {"away", "ended"} :
           /\ slot' = i /\ connected' = FALSE
           /\ client' = [others EXCEPT ![i] = [pc |-> pc, stop |-> FALSE, url |-> s.url]]
    BY <1>2, Zenon DEF SpawnClient, i
  <2> DEFINE new == [pc |-> pc, stop |-> FALSE, url |-> s.url]
  <2>3. new \in Thread /\ new.pc = pc /\ new.stop = FALSE /\ new.url = s.url
    BY DEF Thread, Settings
  <2> HIDE DEF new
  <2>4. client' = [others EXCEPT ![i] = new]
    BY <2>2, Zenon DEF new
  <2>5. client' \in [Clients -> Thread] /\ client'[i] = new /\ \A j \in Clients \ {i} : client'[j] = NoClient
    BY <2>1, <2>3, <2>4
  <2>6. RelayTypes'
    BY <2>1, <2>2, <2>5 DEF RelayTypes
  <2>7. OneClient'
    BY <2>1, <2>2, <2>3, <2>5 DEF OneClient
  <2>q. QED BY <1>2, <2>2, <2>3, <2>5, <2>6, <2>7
<1>q. QED
  BY <1>1, <1>2 DEF ClientFor

\* A thread that goes from one place to another, and tells the status when it loses the relay.
LEMMA ThreadMoves ==
    ASSUME RelayTypes, OneClient, NEW i \in Clients, NEW pc \in {"away", "open", "handling", "ended"},
           client[i].pc # "none", Go(i, pc), slot' = slot, at' = at,
           connected' \in BOOLEAN, connected' => pc # "ended"
    PROVE  /\ RelayTypes' /\ OneClient'
           /\ slot # None => client'[slot].url = client[slot].url
<1> USE NoClientFacts
<1>1. client' = [client EXCEPT ![i].pc = pc]
  BY DEF Go
<1>2. /\ client' \in [Clients -> Thread]
      /\ client'[i].pc = pc /\ client'[i].stop = client[i].stop
      /\ \A j \in Clients : client'[j].url = client[j].url
      /\ \A j \in Clients \ {i} : client'[j] = client[j]
  BY <1>1 DEF RelayTypes, Thread
<1>3. client[i] # NoClient /\ client'[i] # NoClient
  BY <1>2
<1>4. connected' => i \in Alive'
  BY <1>2 DEF Alive
<1>5. OneClient'
  BY <1>2, <1>3, <1>4 DEF OneClient
<1>q. QED BY <1>2, <1>5 DEF RelayTypes

-----------------------------------------------------------------------------
(* The commands                                                            *)

\* Servers that end or refuse leave no server running that did not run before.
LEMMA ServersOnlyEnd ==
    ASSUME DirectTypeOK, DirectNext \/ UNCHANGED loop
    PROVE  Running' \subseteq Running
<1>t. loop \in [Stacks -> {"off", "on", "full"}]
  BY DEF DirectTypeOK
<1>1. CASE loop' = loop
  BY <1>1 DEF Running
<1>2. ASSUME NEW s \in Stacks, NEW place, loop[s] # "off", loop' = [loop EXCEPT ![s] = place]
      PROVE  Running' \subseteq Running
  BY <1>t, <1>2 DEF Running
<1>3. ASSUME NEW s \in Stacks, AcceptEnds(s) \/ Accept(s) \/ Refuse(s)
      PROVE  Running' \subseteq Running
  <2>1. \/ loop' = loop
        \/ loop[s] \in {"on", "full"} /\ \E place : loop' = [loop EXCEPT ![s] = place]
    BY <1>3, Zenon DEF AcceptEnds, Accept, Refuse
  <2>q. QED BY <1>1, <1>2, <2>1
<1>4. ASSUME NEW c \in Conns,
             \/ End(c) \/ Hello(c) \/ RejectRevoked(c)
             \/ \E d \in Devices : ReadHead(c, d) \/ RevokeSelf(c, d)
      PROVE  loop' = loop
  BY <1>4, Zenon DEF End, Hello, RejectRevoked, ReadHead, RevokeSelf, serverVars
<1>5. ASSUME NEW d \in Devices, RevokeElsewhere(d) PROVE loop' = loop
  BY <1>5, Zenon DEF RevokeElsewhere, serverVars
<1>q. QED
  BY <1>1, <1>3, <1>4, <1>5 DEF DirectNext

\* What start_monitor_service leaves: the servers there were, or servers on the port of its
\* settings.
LEMMA StartedServers ==
    ASSUME NEW s \in Settings, NEW bound \in SUBSET Stacks, StartMonitor(s, bound),
           sport \in Ports \cup {None}
    PROVE  /\ sport' \in Ports \cup {None}
           /\ \/ Running' = Running /\ sport' = sport
              \/ Running' # {} => s.mon /\ sport' = s.port
<1>1. CASE ~s.mon \/ Running # {}
  <2>1. loop' = loop /\ sport' = sport
    BY <1>1, Zenon DEF StartMonitor
  <2>2. Running' = Running
    BY <2>1 DEF Running
  <2>q. QED BY <2>1, <2>2
<1>2. CASE ~(~s.mon \/ Running # {})
  <2>1. /\ loop' = [x \in Stacks |-> IF x \in bound THEN "on" ELSE "off"]
        /\ sport' = IF bound = {} THEN None ELSE s.port
    BY <1>2, Zenon DEF StartMonitor, StartServers
  <2>2. Running' = bound
    BY <2>1 DEF Running
  <2>3. s.port \in Ports
    BY DEF Settings
  <2>q. QED BY <1>2, <2>1, <2>2, <2>3
<1>q. QED BY <1>1, <1>2

\* A service leaves drift only when it follows the settings again.
LEMMA DriftKept ==
    ASSUME NEW lapse \in SUBSET Services, drift \in SUBSET Services, Drifts(lapse)
    PROVE  /\ drift' \in SUBSET Services
           /\ "servers" \in drift \cup lapse => ServersFit' \/ "servers" \in drift'
           /\ "client" \in drift \cup lapse => Fits(settings)' \/ "client" \in drift'
<1>1. drift' = (drift \cup lapse) \cap Astray'
  BY DEF Drifts
<1>2. "servers" \in Astray' \/ ServersFit'
  BY DEF Astray, Services
<1>3. "client" \in Astray' \/ ClientFits'
  BY DEF Astray, Services
<1>4. ClientFits' <=> Fits(settings)'
  BY DEF ClientFits, Fits
<1>q. QED BY <1>1, <1>2, <1>3, <1>4

\* Steps that leave settings, commands and client alone: servers, workers and their threads.
LEMMA AsideKeeps ==
    ASSUME ServicesInv, worker' \in {"none", "waiting", "running"}, coord' \in {"free", "main", "worker"},
           UNCHANGED <<settings, cred, mainVars, relayVars, sport, drift>>, Running' \subseteq Running
    PROVE  ServicesInv'
<1>1. UNCHANGED <<settings, cred, at, cmd, prev, slot, client, connected, sport, drift>>
  BY DEF mainVars, relayVars
<1>2. MainTypes'
  BY <1>1 DEF ServicesInv, MainTypes
<1>3. RelayTypes' /\ OneClient'
  BY <1>1 DEF ServicesInv, RelayTypes, OneClient, Alive
<1>4. CommandAgrees'
  BY <1>1 DEF ServicesInv, CommandAgrees, RelayNeedsMonitor
<1>5. AlwaysFollow'
  BY <1>1 DEF ServicesInv, AlwaysFollow, RelayNeedsMonitor, Fits, ServersFit
<1>q. QED BY <1>2, <1>3, <1>4, <1>5 DEF ServicesInv

\* The client thread changes nothing but its place, the status and the worker.
LEMMA ThreadKeeps ==
    ASSUME DirectTypeOK, ServicesInv, NEW i \in Clients,
           ClientStep(i) \/ Connect(i) \/ HelloAck(i) \/ SessionEnds(i) \/ DeviceRequest(i)
    PROVE  ServicesInv'
<1>t. RelayTypes /\ OneClient /\ connected \in BOOLEAN /\ worker \in {"none", "waiting", "running"}
  BY DEF ServicesInv, RelayTypes, MainTypes
<1>f. ASSUME UNCHANGED <<directVars, settings, cred, mainVars, coord, slot, sport, drift>>,
             worker' \in {"none", "waiting", "running"}, RelayTypes', OneClient',
             slot # None => client'[slot].url = client[slot].url
      PROVE  ServicesInv'
  <2>1. UNCHANGED <<settings, cred, at, cmd, prev, coord, slot, sport, drift, loop>>
    BY <1>f DEF mainVars, directVars
  <2>2. MainTypes'
    BY <1>f, <2>1 DEF ServicesInv, MainTypes
  <2>3. CommandAgrees'
    BY <2>1 DEF ServicesInv, CommandAgrees, RelayNeedsMonitor
  <2>4. Running' = Running
    BY <2>1 DEF Running
  <2>5. AlwaysFollow'
    BY <1>f, <2>1, <2>4 DEF ServicesInv, AlwaysFollow, RelayNeedsMonitor, Fits, ServersFit
  <2>q. QED BY <1>f, <2>2, <2>3, <2>5 DEF ServicesInv
<1>m. ASSUME NEW pc \in {"away", "open", "handling", "ended"}, client[i].pc # "none", Go(i, pc),
             UNCHANGED <<directVars, settings, cred, mainVars, coord, slot, sport, drift>>,
             worker' \in {"none", "waiting", "running"}, connected' \in BOOLEAN, connected' => pc # "ended"
      PROVE  ServicesInv'
  <2>1. at' = at /\ slot' = slot
    BY <1>m DEF mainVars
  <2>q. QED BY <1>f, <1>m, <1>t, <2>1, ThreadMoves
<1>1. CASE StopSeen(i)
  BY <1>1, <1>m, <1>t DEF StopSeen
<1>2. CASE HandleRequest(i)
  <2>1. worker' \in {"none", "waiting", "running"}
    BY <1>2, <1>t DEF HandleRequest, Trigger
  <2>q. QED BY <1>2, <1>m, <1>t, <2>1 DEF HandleRequest
<1>3. CASE Connect(i)
  BY <1>3, <1>m, <1>t DEF Connect
<1>4. CASE HelloAck(i)
  <2>1. /\ client[i].pc = "open" /\ connected' = TRUE /\ worker' = worker
        /\ UNCHANGED <<directVars, settings, cred, mainVars, coord, slot, client, sport, drift>>
    BY <1>4 DEF HelloAck
  <2>2. Alive' # {} /\ at' = at
    BY <2>1 DEF Alive, mainVars
  <2>3. RelayTypes' /\ OneClient'
    BY <1>t, <2>1, <2>2 DEF RelayTypes, OneClient
  <2>q. QED BY <1>f, <1>t, <2>1, <2>3
<1>5. CASE SessionEnds(i)
  BY <1>5, <1>m, <1>t DEF SessionEnds
<1>6. CASE DeviceRequest(i)
  BY <1>6, <1>m, <1>t DEF DeviceRequest
<1>q. QED
  BY <1>1, <1>2, <1>3, <1>4, <1>5, <1>6 DEF ClientStep

\* The process begins, ends, or brings up a server between two commands.
LEMMA ProcessKeeps ==
    ASSUME ServicesInv, Boot \/ QuitDone \/ Crash \/ EnsureServers
    PROVE  ServicesInv'
<1>t. MainTypes /\ RelayTypes /\ OneClient /\ AlwaysFollow
  BY DEF ServicesInv
<1>b. PICK s : s = settings
  OBVIOUS
<1>s. s \in Settings /\ sport \in Ports \cup {None}
  BY <1>b, <1>t DEF MainTypes
<1>1. CASE Dead
  <2>1. /\ at' = "gone" /\ cmd' = NoCmd /\ prev' = None /\ coord' = "free" /\ worker' = "none"
        /\ slot' = None /\ client' = [i \in Clients |-> NoClient]
        /\ connected' = FALSE /\ sport' = None /\ drift' = {} /\ UNCHANGED <<settings, cred>>
        /\ loop' = [x \in Stacks |-> "off"]
    BY <1>1 DEF Dead, KillServers
  <2>2. Running' = {}
    BY <2>1 DEF Running
  <2>3. MainTypes'
    BY <1>t, <2>1 DEF MainTypes, NoCmd
  <2>4. RelayTypes' /\ OneClient'
    BY <2>1, NoClientFacts DEF RelayTypes, OneClient
  <2>5. CommandAgrees' /\ AlwaysFollow'
    BY <1>t, <2>1, <2>2 DEF CommandAgrees, AlwaysFollow, RelayNeedsMonitor, Fits, ServersFit
  <2>q. QED BY <2>3, <2>4, <2>5 DEF ServicesInv
<1>2. CASE Boot
  <2>1. /\ at = "gone" /\ at' = "idle"
        /\ UNCHANGED <<settings, cred, cmd, prev, coord, worker, drift>>
    BY <1>2 DEF Boot
  <2>2. PICK bound \in SUBSET Stacks : StartMonitor(settings, bound)
    BY <1>2, Zenon DEF Boot
  <2>3. StartMonitor(s, bound)
    BY <1>b, <2>2, Zenon DEF StartMonitor
  <2>4. /\ sport' \in Ports \cup {None}
        /\ \/ Running' = Running /\ sport' = sport
           \/ Running' # {} => s.mon /\ sport' = s.port
    BY <1>s, <2>3, StartedServers
  <2>5. slot = None /\ client = [i \in Clients |-> NoClient]
    BY <1>t, <2>1, MonitorServicesAssumption DEF OneClient, RelayTypes
  <2>6. RelayTypes' /\ OneClient' /\ (slot' # None => s.relay /\ client'[slot'].url = s.url)
    <3>1. CASE UNCHANGED relayVars
      <4>1. slot' = slot
        BY <3>1 DEF relayVars
      <4>q. QED BY <1>t, <2>1, <2>5, <3>1, <4>1, ClientAlone
    <3>2. CASE ClientFor(settings, client)
      <4>1. PICK others : others = client
        OBVIOUS
      <4>2. ClientFor(s, others)
        BY <1>b, <3>2, <4>1, Zenon DEF ClientFor, SpawnClient, NoSpawn
      <4>q. QED BY <1>s, <1>t, <2>1, <2>5, <4>1, <4>2, StartOne DEF MainTypes
    <3>q. QED BY <1>2, <3>1, <3>2 DEF Boot
  <2>7. MainTypes'
    BY <1>t, <2>1, <2>4 DEF MainTypes
  <2>8. CommandAgrees' /\ AlwaysFollow'
    BY <1>b, <1>t, <2>1, <2>4, <2>6 DEF CommandAgrees, AlwaysFollow, RelayNeedsMonitor, Fits, ServersFit
  <2>q. QED BY <2>6, <2>7, <2>8 DEF ServicesInv
<1>3. CASE EnsureServers
  <2>1. UNCHANGED <<settings, cred, at, cmd, prev, coord, worker, relayVars, drift>> /\ at = "idle"
    BY <1>3 DEF EnsureServers, mainVars
  <2>2. PICK bound \in SUBSET Stacks : StartMonitor(settings, bound)
    BY <1>3, Zenon DEF EnsureServers
  <2>3. StartMonitor(s, bound)
    BY <1>b, <2>2, Zenon DEF StartMonitor
  <2>4. /\ sport' \in Ports \cup {None}
        /\ \/ Running' = Running /\ sport' = sport
           \/ Running' # {} => s.mon /\ sport' = s.port
    BY <1>s, <2>3, StartedServers
  <2>5. RelayTypes' /\ OneClient'
    BY <1>t, <2>1, ClientAlone
  <2>6. MainTypes'
    BY <1>t, <2>1, <2>4 DEF MainTypes
  <2>7. CommandAgrees' /\ AlwaysFollow'
    BY <1>b, <1>t, <2>1, <2>4 DEF CommandAgrees, AlwaysFollow, RelayNeedsMonitor, Fits, ServersFit, relayVars
  <2>q. QED BY <2>5, <2>6, <2>7 DEF ServicesInv
<1>q. QED
  BY <1>1, <1>2, <1>3 DEF QuitDone, Crash

\* The part of a network command that begins a join of the client.
LEMMA JoinBegins ==
    ASSUME ServicesInv, at # "joinClient", at' = "joinClient", TakeClient,
           NEW lapse \in SUBSET Services, Drifts(lapse),
           UNCHANGED <<directVars, sport>>, MainTypes', CommandAgrees',
           RelayNeedsMonitor(settings'), settings'.port = settings.port, settings.mon => settings'.mon
    PROVE  ServicesInv'
<1>1. RelayTypes' /\ OneClient' /\ slot' = None
  BY TakeOne DEF ServicesInv
<1>2. Running' = Running
  BY DEF Running, directVars
<1>3. ServersFit' \/ "servers" \in drift'
  BY <1>2, DriftKept DEF ServicesInv, MainTypes, AlwaysFollow, ServersFit
<1>4. AlwaysFollow'
  BY <1>1, <1>3 DEF ServicesInv, AlwaysFollow, RelayNeedsMonitor, Fits
<1>q. QED BY <1>1, <1>4 DEF ServicesInv

\* The part of a network command that leaves the client alone.
LEMMA ClientLeft ==
    ASSUME ServicesInv, at \notin {"joinClient", "gone"}, at' \notin {"joinClient", "gone"},
           UNCHANGED <<directVars, relayVars, sport>>, MainTypes', CommandAgrees',
           RelayNeedsMonitor(settings'), settings'.port = settings.port, settings.mon => settings'.mon,
           "servers" \in drift => ServersFit' \/ "servers" \in drift',
           at' = "tunnel" =>
              (Fits(prev)' /\ (prev' = cmd'.next => prev' = settings')) \/ "client" \in drift',
           at' # "tunnel" => Fits(settings)' \/ "client" \in drift'
    PROVE  ServicesInv'
<1>1. RelayTypes' /\ OneClient'
  BY ClientAlone DEF ServicesInv
<1>2. Running' = Running
  BY DEF Running, directVars
<1>3. ServersFit' \/ "servers" \in drift'
  BY <1>2 DEF ServicesInv, AlwaysFollow, ServersFit
<1>4. AlwaysFollow'
  BY <1>3 DEF ServicesInv, AlwaysFollow, RelayNeedsMonitor
<1>q. QED BY <1>1, <1>4 DEF ServicesInv

\* A network command asks for the coordinator, and obtains it to quit.
LEMMA AskKeeps ==
    ASSUME ServicesInv, QuitHolding \/ \E op \in {"network", "register", "quit"} : StartNetworkCommand(op)
    PROVE  ServicesInv'
<1>t. MainTypes /\ AlwaysFollow
  BY DEF ServicesInv
<1>1. ASSUME NEW op \in {"network", "register", "quit"}, StartNetworkCommand(op) PROVE ServicesInv'
  <2>1. /\ at = "idle" /\ at' = "acquire" /\ cmd' = [op |-> op, next |-> None]
        /\ UNCHANGED <<directVars, settings, cred, prev, coord, worker, relayVars, sport, drift>>
    BY <1>1 DEF StartNetworkCommand
  <2>2. MainTypes' /\ CommandAgrees'
    BY <1>t, <2>1 DEF MainTypes, CommandAgrees
  <2>q. QED BY <1>t, <2>1, <2>2, ClientLeft DEF AlwaysFollow, Fits, RelayNeedsMonitor, relayVars
<1>2. CASE QuitHolding
  <2>1. /\ at = "acquire" /\ cmd.op = "quit" /\ coord' = "main" /\ at' = "joinClient" /\ TakeClient
        /\ UNCHANGED <<directVars, settings, cred, cmd, prev, worker, sport>>
    BY <1>2 DEF QuitHolding
  <2>2. PICK lapse \in SUBSET Services : lapse = {}
    OBVIOUS
  <2>3. Drifts(lapse)
    BY <1>2, <2>2 DEF QuitHolding
  <2>4. drift' \in SUBSET Services
    BY <1>t, <2>3, DriftKept DEF MainTypes
  <2>5. MainTypes' /\ CommandAgrees'
    BY <1>t, <2>1, <2>4 DEF MainTypes, CommandAgrees
  <2>q. QED BY <1>t, <2>1, <2>3, <2>5, JoinBegins DEF AlwaysFollow, RelayNeedsMonitor
<1>q. QED BY <1>1, <1>2

\* set_network_settings writes the settings and goes on to the tunnel or the client.
LEMMA SaveKeeps ==
    ASSUME ServicesInv, NEW on \in BOOLEAN, NEW proxy \in BOOLEAN, NEW url \in Urls,
           SaveNetwork(on, url, proxy)
    PROVE  ServicesInv'
<1>t. MainTypes /\ AlwaysFollow
  BY DEF ServicesInv
<1>1. /\ at = "acquire" /\ cmd.op = "network" /\ coord = "free"
      /\ UNCHANGED <<directVars, cred, worker, sport>>
  BY Zenon DEF SaveNetwork
<1>2. CASE Return /\ UNCHANGED <<settings, relayVars, drift>>
  <2>1. at' = "idle" /\ MainTypes' /\ CommandAgrees'
    BY <1>1, <1>2, <1>t DEF Return, MainTypes, CommandAgrees, NoCmd
  <2>q. QED BY <1>1, <1>2, <1>t, <2>1, ClientLeft DEF AlwaysFollow, RelayNeedsMonitor, Fits, relayVars
<1>3. ASSUME NEW old, old = settings \/ old = RelayDefaults,
             NEW next, next = [old EXCEPT !.relay = on, !.url = url],
             NEW lapse, lapse = IF old = settings THEN {} ELSE {"client"},
             on => old = settings /\ settings.mon /\ url # NoUrl,
             settings' = next \/ (next = old /\ settings' = settings),
             IF proxy
               THEN /\ prev' = old /\ at' = "tunnel" /\ coord' = "main"
                    /\ cmd' = [cmd EXCEPT !.next = next]
                    /\ drift' = drift \cup lapse /\ UNCHANGED relayVars
               ELSE /\ RelayPart(old # next, lapse)
                    /\ prev' = IF old # next THEN old ELSE None
      PROVE  ServicesInv'
  <2>1. /\ old \in Settings /\ RelayNeedsMonitor(old)
        /\ old.mon = settings.mon /\ old.port = settings.port
    BY <1>3, <1>t, MonitorServicesAssumption DEF MainTypes, AlwaysFollow, Settings, RelayDefaults,
        RelayNeedsMonitor
  <2>2. /\ next \in Settings /\ next.mon = settings.mon /\ next.port = settings.port
        /\ next.relay = on /\ next.url = url
    BY <1>3, <2>1 DEF Settings
  <2>3. /\ settings' \in Settings /\ RelayNeedsMonitor(settings')
        /\ settings'.port = settings.port /\ settings'.mon = settings.mon
    BY <1>3, <1>t, <2>2 DEF MainTypes, AlwaysFollow, RelayNeedsMonitor
  <2>4. lapse \in SUBSET Services /\ (old = settings \/ "client" \in lapse)
    BY <1>3 DEF Services
  <2>5. CASE /\ prev' = old /\ at' = "tunnel" /\ coord' = "main"
             /\ cmd' = [cmd EXCEPT !.next = next]
             /\ drift' = drift \cup lapse /\ UNCHANGED relayVars
    <3>1. cmd' \in [op: {"none", "monitor", "network", "register", "quit"}, next: Settings \cup {None}]
          /\ cmd'.next = next /\ cmd'.op = "network"
      BY <1>1, <1>t, <2>2, <2>5 DEF MainTypes
    <3>2. MainTypes' /\ CommandAgrees'
      BY <1>1, <1>t, <2>1, <2>3, <2>4, <2>5, <3>1 DEF MainTypes, CommandAgrees, RelayNeedsMonitor
    <3>3. old = settings => Fits(old) \/ "client" \in drift
      BY <1>1, <1>t DEF AlwaysFollow
    <3>4. Fits(prev)' <=> Fits(old)
      BY <2>5 DEF Fits, relayVars
    <3>5. (Fits(prev)' /\ (prev' = cmd'.next => prev' = settings')) \/ "client" \in drift'
      BY <1>3, <2>4, <2>5, <3>1, <3>3, <3>4
    <3>q. QED BY <1>1, <2>3, <2>5, <3>2, <3>5, ClientLeft
  <2>6. CASE RelayPart(old # next, lapse) /\ prev' = IF old # next THEN old ELSE None
    <3>1. Drifts(lapse)
      BY <2>6 DEF RelayPart
    <3>2. /\ drift' \in SUBSET Services
          /\ "servers" \in drift => ServersFit' \/ "servers" \in drift'
          /\ "client" \in drift \cup lapse => Fits(settings)' \/ "client" \in drift'
      BY <1>t, <2>4, <3>1, DriftKept DEF MainTypes
    <3>3. CASE old # next
      <4>1. /\ at' = "joinClient" /\ TakeClient /\ coord' = "main" /\ prev' = old
            /\ cmd' = [cmd EXCEPT !.next = None]
        BY <2>6, <3>3, Zenon DEF RelayPart
      <4>2. cmd' \in [op: {"none", "monitor", "network", "register", "quit"}, next: Settings \cup {None}]
        BY <1>t, <4>1 DEF MainTypes
      <4>3. MainTypes' /\ CommandAgrees'
        BY <1>1, <1>t, <2>1, <2>3, <3>2, <4>1, <4>2 DEF MainTypes, CommandAgrees, RelayNeedsMonitor
      <4>q. QED BY <1>1, <2>3, <2>4, <3>1, <4>1, <4>3, JoinBegins
    <3>4. CASE old = next
      <4>1. /\ at' = "idle" /\ cmd' = NoCmd /\ coord' = "free" /\ UNCHANGED relayVars /\ prev' = None
        BY <2>6, <3>4, Zenon DEF RelayPart
      <4>2. MainTypes' /\ CommandAgrees'
        BY <1>1, <1>t, <2>3, <3>2, <4>1 DEF MainTypes, CommandAgrees, NoCmd
      <4>3. old = settings => settings' = settings
        BY <1>3, <3>4
      <4>4. Fits(settings)' \/ "client" \in drift'
        BY <1>1, <1>t, <2>4, <3>2, <4>1, <4>3 DEF AlwaysFollow, Fits, relayVars
      <4>q. QED BY <1>1, <2>3, <3>2, <4>1, <4>2, <4>4, ClientLeft
    <3>q. QED BY <3>3, <3>4
  <2>q. QED BY <1>3, <2>5, <2>6, Zenon
<1>4. ASSUME ~(Return /\ UNCHANGED <<settings, relayVars, drift>>) PROVE ServicesInv'
  <2>1. PICK old \in {settings, RelayDefaults} :
           LET next == [old EXCEPT !.relay = on, !.url = url]
               lapse == IF old = settings THEN {} ELSE {"client"}
           IN  /\ on => old = settings /\ settings.mon /\ url # NoUrl
               /\ settings' = next \/ (next = old /\ settings' = settings)
               /\ IF proxy
                    THEN /\ prev' = old /\ at' = "tunnel" /\ coord' = "main"
                         /\ cmd' = [cmd EXCEPT !.next = next]
                         /\ drift' = drift \cup lapse /\ UNCHANGED relayVars
                    ELSE /\ RelayPart(old # next, lapse)
                         /\ prev' = IF old # next THEN old ELSE None
    BY <1>4, Zenon DEF SaveNetwork
  <2>2. PICK next : next = [old EXCEPT !.relay = on, !.url = url]
    OBVIOUS
  <2>3. PICK lapse : lapse = IF old = settings THEN {} ELSE {"client"}
    OBVIOUS
  <2>4. /\ on => old = settings /\ settings.mon /\ url # NoUrl
        /\ settings' = next \/ (next = old /\ settings' = settings)
        /\ IF proxy
             THEN /\ prev' = old /\ at' = "tunnel" /\ coord' = "main"
                  /\ cmd' = [cmd EXCEPT !.next = next]
                  /\ drift' = drift \cup lapse /\ UNCHANGED relayVars
             ELSE /\ RelayPart(old # next, lapse)
                  /\ prev' = IF old # next THEN old ELSE None
    BY <2>1, <2>2, <2>3, Zenon DEF RelayPart, Drifts
  <2>q. QED BY <1>3, <2>1, <2>2, <2>3, <2>4, Zenon
<1>q. QED BY <1>2, <1>4

\* The tunnel has been restarted for a new proxy, or the settings are taken back.
LEMMA TunnelKeeps ==
    ASSUME ServicesInv, RestartTunnel
    PROVE  ServicesInv'
<1>t. MainTypes /\ AlwaysFollow /\ CommandAgrees
  BY DEF ServicesInv
<1>1. at = "tunnel" /\ UNCHANGED <<directVars, cred, worker, sport>>
  BY Zenon DEF RestartTunnel
<1>p. /\ prev \in Settings /\ RelayNeedsMonitor(prev) /\ prev.port = settings.port
      /\ (settings.mon => prev.mon) /\ RelayNeedsMonitor(settings)
      /\ (Fits(prev) /\ (prev = cmd.next => prev = settings)) \/ "client" \in drift
  BY <1>1, <1>t DEF CommandAgrees, AlwaysFollow
<1>2. ASSUME NEW lapse \in SUBSET Services, Drifts(lapse)
      PROVE  /\ drift' \in SUBSET Services
             /\ "servers" \in drift => ServersFit' \/ "servers" \in drift'
             /\ "client" \in drift \cup lapse => Fits(settings)' \/ "client" \in drift'
  BY <1>2, <1>t, DriftKept DEF MainTypes
<1>3. PICK none \in SUBSET Services : none = {}
  OBVIOUS
<1>4. CASE /\ prev # cmd.next /\ at' = "joinClient" /\ TakeClient /\ coord' = "main"
           /\ cmd' = [cmd EXCEPT !.next = None] /\ prev' = prev /\ settings' = settings /\ Drifts(none)
  <2>1. /\ cmd' \in [op: {"none", "monitor", "network", "register", "quit"}, next: Settings \cup {None}]
        /\ cmd'.op = cmd.op
    BY <1>4, <1>t DEF MainTypes
  <2>2. MainTypes' /\ CommandAgrees'
    BY <1>1, <1>2, <1>4, <1>p, <1>t, <2>1 DEF MainTypes, CommandAgrees, RelayNeedsMonitor
  <2>q. QED BY <1>1, <1>4, <1>p, <2>2, JoinBegins
<1>5. CASE /\ prev = cmd.next /\ at' = "idle" /\ cmd' = NoCmd /\ coord' = "free" /\ UNCHANGED relayVars
           /\ prev' = None /\ settings' = settings /\ Drifts(none)
  <2>1. MainTypes' /\ CommandAgrees'
    BY <1>1, <1>2, <1>5, <1>t DEF MainTypes, CommandAgrees, NoCmd
  <2>2. Fits(settings)' \/ "client" \in drift'
    BY <1>2, <1>5, <1>p DEF Fits, relayVars
  <2>q. QED BY <1>1, <1>2, <1>5, <1>p, <2>1, <2>2, ClientLeft
<1>6. CASE Return /\ UNCHANGED relayVars /\ settings' = prev /\ Drifts(none)
  <2>1. at' = "idle" /\ MainTypes' /\ CommandAgrees'
    BY <1>1, <1>2, <1>6, <1>p, <1>t DEF Return, MainTypes, CommandAgrees, NoCmd
  <2>2. Fits(settings)' \/ "client" \in drift'
    BY <1>2, <1>6, <1>p DEF Fits, relayVars
  <2>q. QED BY <1>1, <1>2, <1>6, <1>p, <2>1, <2>2, ClientLeft DEF RelayNeedsMonitor
<1>7. CASE Return /\ UNCHANGED relayVars /\ settings' = settings /\ Drifts({"client"})
  <2>1. PICK lapse \in SUBSET Services : lapse = {"client"}
    BY DEF Services
  <2>2. Drifts(lapse)
    BY <1>7, <2>1
  <2>3. at' = "idle" /\ MainTypes' /\ CommandAgrees'
    BY <1>1, <1>2, <1>7, <1>t, <2>2 DEF Return, MainTypes, CommandAgrees, NoCmd
  <2>q. QED BY <1>1, <1>2, <1>7, <1>p, <2>1, <2>2, <2>3, ClientLeft DEF RelayNeedsMonitor
<1>8. Drifts({}) => Drifts(none)
  BY <1>3
<1>q. QED
  BY <1>4, <1>5, <1>6, <1>7, <1>8, Zenon DEF RestartTunnel, RelayPart

\* register_relay_desktop saves the credentials, the settings, and restarts a client there is.
LEMMA RegisterKeeps ==
    ASSUME ServicesInv, NEW url \in Relays, Register(url)
    PROVE  ServicesInv'
<1>t. MainTypes /\ AlwaysFollow
  BY DEF ServicesInv
<1> DEFINE next == [settings EXCEPT !.url = url]
<1>n. /\ next \in Settings /\ next.mon = settings.mon /\ next.port = settings.port
      /\ next.relay = settings.relay /\ next.url = url
  BY <1>t, MonitorServicesAssumption DEF MainTypes, Settings
<1> HIDE DEF next
<1>1. at = "acquire" /\ cmd.op = "register" /\ coord = "free" /\ UNCHANGED <<directVars, worker, sport>>
  BY Zenon DEF Register
<1>2. CASE cred' \in Relays \cup {NoUrl} /\ Return /\ UNCHANGED <<settings, relayVars, drift>>
  <2>1. at' = "idle" /\ MainTypes' /\ CommandAgrees'
    BY <1>1, <1>2, <1>t DEF Return, MainTypes, CommandAgrees, NoCmd
  <2>q. QED BY <1>1, <1>2, <1>t, <2>1, ClientLeft DEF AlwaysFollow, RelayNeedsMonitor, Fits, relayVars
<1>3. ASSUME NEW on, on = settings.relay \/ on = FALSE,
             NEW lapse, lapse = IF on = settings.relay THEN {} ELSE {"client"},
             cred' = url, settings' = next, UNCHANGED prev, RelayPart(on, lapse)
      PROVE  ServicesInv'
  <2>1. /\ lapse \in SUBSET Services /\ on \in BOOLEAN /\ Drifts(lapse)
        /\ on = settings.relay \/ "client" \in lapse
    BY <1>3, <1>t DEF MainTypes, Settings, Services, RelayPart
  <2>2. /\ drift' \in SUBSET Services
        /\ "servers" \in drift => ServersFit' \/ "servers" \in drift'
        /\ "client" \in drift \cup lapse => Fits(settings)' \/ "client" \in drift'
    BY <1>t, <2>1, DriftKept DEF MainTypes
  <2>3. RelayNeedsMonitor(settings') /\ settings'.port = settings.port /\ (settings.mon => settings'.mon)
    BY <1>3, <1>n, <1>t DEF AlwaysFollow, RelayNeedsMonitor
  <2>4. CASE on
    <3>1. at' = "joinClient" /\ TakeClient /\ coord' = "main" /\ cmd' = [cmd EXCEPT !.next = None]
      BY <1>3, <2>4, Zenon DEF RelayPart
    <3>2. /\ cmd' \in [op: {"none", "monitor", "network", "register", "quit"}, next: Settings \cup {None}]
          /\ cmd'.op = "register"
      BY <1>1, <1>t, <3>1 DEF MainTypes
    <3>3. MainTypes' /\ CommandAgrees'
      BY <1>1, <1>3, <1>n, <1>t, <2>2, <3>1, <3>2 DEF MainTypes, CommandAgrees
    <3>q. QED BY <1>1, <2>1, <2>3, <3>1, <3>3, JoinBegins
  <2>5. CASE ~on
    <3>1. at' = "idle" /\ cmd' = NoCmd /\ coord' = "free" /\ UNCHANGED relayVars
      BY <1>3, <2>5, Zenon DEF RelayPart
    <3>2. MainTypes' /\ CommandAgrees'
      BY <1>1, <1>3, <1>n, <1>t, <2>2, <3>1 DEF MainTypes, CommandAgrees, NoCmd
    <3>3. Fits(settings)' \/ "client" \in drift'
      BY <1>1, <1>t, <2>1, <2>2, <2>5, <3>1 DEF AlwaysFollow, Fits, relayVars
    <3>q. QED BY <1>1, <2>2, <2>3, <3>1, <3>2, <3>3, ClientLeft
  <2>q. QED BY <2>1, <2>4, <2>5
<1>4. ASSUME NEW on \in {settings.relay, FALSE}, cred' = url, settings' = next, UNCHANGED prev,
             RelayPart(on, IF on = settings.relay THEN {} ELSE {"client"})
      PROVE  ServicesInv'
  <2>1. PICK lapse : lapse = IF on = settings.relay THEN {} ELSE {"client"}
    OBVIOUS
  <2>2. RelayPart(on, lapse)
    BY <1>4, <2>1, Zenon DEF RelayPart, Drifts
  <2>q. QED BY <1>3, <1>4, <2>1, <2>2
<1>5. cred \in Relays \cup {NoUrl}
  BY <1>t DEF MainTypes
<1>q. QED
  BY <1>2, <1>4, <1>5, Zenon DEF Register, next


\* The join of the client is over: to disable the monitor, to quit, or to start another.
LEMMA JoinEnds ==
    ASSUME ServicesInv, ClientJoined \/ RestartClient
    PROVE  ServicesInv'
<1>t. MainTypes /\ RelayTypes /\ OneClient /\ AlwaysFollow /\ CommandAgrees
  BY DEF ServicesInv
<1>1. at = "joinClient" /\ Joined /\ UNCHANGED <<directVars, cred, worker, sport, drift>>
  BY Zenon DEF ClientJoined, RestartClient
<1>2. slot = None /\ Reaped = [i \in Clients |-> NoClient]
  BY <1>1, <1>t, ReapedAll DEF OneClient
<1>3. PICK others : others = Reaped
  OBVIOUS
<1>4. Running' = Running
  BY <1>1 DEF Running, directVars
\* Whatever is started, is started for settings s, which are the ones saved.
<1>5. ASSUME NEW s \in Settings, ClientFor(s, others) \/ NoSpawn(others), settings' = s,
             RelayNeedsMonitor(s), s.port = settings.port, settings.mon => s.mon,
             at' \in {"idle", "joinServers"}, MainTypes', CommandAgrees'
      PROVE  ServicesInv'
  <2>1. RelayTypes' /\ OneClient' /\ (slot' # None => s.relay /\ client'[slot'].url = s.url)
    BY <1>2, <1>3, <1>5, StartOne
  <2>2. AlwaysFollow'
    BY <1>1, <1>4, <1>5, <1>t, <2>1 DEF AlwaysFollow, RelayNeedsMonitor, Fits, ServersFit
  <2>q. QED BY <1>5, <2>1, <2>2 DEF ServicesInv
<1>6. PICK s : s = settings
  OBVIOUS
<1>7. s \in Settings /\ RelayNeedsMonitor(s)
  BY <1>6, <1>t DEF MainTypes, AlwaysFollow
<1>8. CASE ClientJoined
  <2>1. NoSpawn(others) /\ settings' = s
    BY <1>3, <1>6, <1>8, Zenon DEF ClientJoined, NoSpawn
  <2>2. \/ at' = "joinServers" /\ cmd.op = "quit" /\ UNCHANGED <<cmd, prev, coord>>
        \/ Return
    BY <1>8, Zenon DEF ClientJoined
  <2>3. at' \in {"idle", "joinServers"} /\ MainTypes' /\ CommandAgrees'
    BY <1>1, <1>6, <1>t, <2>1, <2>2 DEF Return, NoCmd, MainTypes, CommandAgrees
  <2>q. QED BY <1>5, <1>6, <1>7, <2>1, <2>3
<1>9. CASE RestartClient /\ settings' = settings
  <2>1. Return
    BY <1>9, Zenon DEF RestartClient
  <2>2. at' = "idle" /\ MainTypes' /\ CommandAgrees'
    BY <1>1, <1>9, <1>t, <2>1 DEF Return, NoCmd, MainTypes, CommandAgrees
  <2>3. \/ ClientFor(settings, Reaped) \/ NoSpawn(Reaped)
        \/ cmd.op = "network" /\ settings' = prev /\ ClientFor(prev, Reaped)
    BY <1>9, Zenon DEF RestartClient
  <2>4. ClientFor(s, others) \/ NoSpawn(others)
    <3>1. settings' = prev => prev = s
      BY <1>6, <1>9
    <3>q. QED BY <1>3, <1>6, <2>3, <3>1, Zenon DEF ClientFor, SpawnClient, NoSpawn
  <2>q. QED BY <1>5, <1>6, <1>7, <1>9, <2>2, <2>4
<1>10. CASE RestartClient /\ settings' # settings
  <2>1. Return /\ cmd.op = "network" /\ settings' = prev /\ (ClientFor(prev, Reaped) \/ NoSpawn(Reaped))
    BY <1>10, Zenon DEF RestartClient
  <2>2. PICK p : p = prev
    OBVIOUS
  <2>3. ClientFor(p, others) \/ NoSpawn(others)
    BY <1>3, <2>1, <2>2, Zenon DEF ClientFor, SpawnClient, NoSpawn
  <2>4. p \in Settings /\ RelayNeedsMonitor(p) /\ p.port = settings.port /\ (settings.mon => p.mon)
    BY <1>1, <1>t, <2>1, <2>2 DEF CommandAgrees
  <2>5. at' = "idle" /\ MainTypes' /\ CommandAgrees'
    BY <1>1, <1>t, <2>1, <2>2, <2>4 DEF Return, NoCmd, MainTypes, CommandAgrees
  <2>q. QED BY <1>5, <2>1, <2>2, <2>3, <2>4, <2>5
<1>q. QED BY <1>8, <1>9, <1>10

\* set_monitor_enabled with the servers it stops stopped: the new settings, or the old ones, which
\* are the ones saved unless the command lapsed.
LEMMA ApplyKeeps ==
    ASSUME ServicesInv, NEW old \in Settings, NEW next \in Settings, NEW lapse \in SUBSET Services,
           at \in {"idle", "joinServers"}, ApplyMonitor(old, next, lapse), UNCHANGED <<cred, worker>>,
           RelayNeedsMonitor(next), RelayNeedsMonitor(old), ~next.mon => Running = {},
           \/ lapse = Services
           \/ /\ old = settings
              /\ next.mon => /\ next.url = settings.url /\ (settings.relay => next.relay)
                             /\ Running # {} /\ settings.mon => next.port = settings.port
    PROVE  ServicesInv'
<1>t. MainTypes /\ RelayTypes /\ OneClient /\ AlwaysFollow
  BY DEF ServicesInv
\* The client is left alone: new settings that keep the monitor suit it as the old ones did.
<1>1. ASSUME next.mon, Return, UNCHANGED relayVars, Drifts(lapse), NEW s \in {old, next}, settings' = s,
             sport' \in Ports \cup {None},
             \/ Running' = Running /\ (sport' = sport \/ Running = {})
             \/ Running' # {} => s.mon /\ sport' = s.port
      PROVE  ServicesInv'
  <2>1. /\ drift' \in SUBSET Services
        /\ "servers" \in drift \cup lapse => ServersFit' \/ "servers" \in drift'
        /\ "client" \in drift \cup lapse => Fits(settings)' \/ "client" \in drift'
    BY <1>1, <1>t, DriftKept DEF MainTypes
  <2>2. at' = "idle" /\ MainTypes' /\ CommandAgrees'
    BY <1>1, <1>t, <2>1 DEF Return, NoCmd, MainTypes, CommandAgrees
  <2>3. RelayTypes' /\ OneClient'
    BY <1>1, <1>t, <2>2, ClientAlone
  <2>4. slot' = slot /\ client' = client
    BY <1>1 DEF relayVars
  <2>5. Fits(settings)' \/ "client" \in drift'
    <3>1. CASE "client" \in drift \cup lapse
      BY <2>1, <3>1
    <3>2. CASE "client" \notin drift \cup lapse
      <4>1. Fits(settings) /\ old = settings
        BY <1>t, <3>2 DEF AlwaysFollow, Services
      <4>q. QED BY <1>1, <2>4, <3>2, <4>1 DEF Fits, Services
    <3>q. QED BY <3>1, <3>2
  <2>6. ServersFit' \/ "servers" \in drift'
    <3>1. CASE "servers" \in drift \cup lapse
      BY <2>1, <3>1
    <3>2. CASE "servers" \notin drift \cup lapse
      <4>1. ServersFit /\ old = settings
        BY <1>t, <3>2 DEF AlwaysFollow, Services
      <4>q. QED BY <1>1, <3>2, <4>1 DEF ServersFit, Services
    <3>q. QED BY <3>1, <3>2
  <2>7. AlwaysFollow'
    BY <1>1, <2>2, <2>5, <2>6 DEF AlwaysFollow, RelayNeedsMonitor
  <2>q. QED BY <2>2, <2>3, <2>7 DEF ServicesInv
<1>2. CASE /\ Return /\ sport' = (IF Running = {} THEN None ELSE sport)
           /\ UNCHANGED <<settings, loop, relayVars, drift>>
  <2>1. Running' = Running
    BY <1>2 DEF Running
  <2>2. at' = "idle" /\ MainTypes' /\ CommandAgrees'
    BY <1>2, <1>t DEF Return, NoCmd, MainTypes, CommandAgrees
  <2>3. RelayTypes' /\ OneClient'
    BY <1>2, <1>t, <2>2, ClientAlone
  <2>4. AlwaysFollow'
    BY <1>2, <1>t, <2>1, <2>2 DEF AlwaysFollow, RelayNeedsMonitor, Fits, ServersFit, relayVars
  <2>q. QED BY <2>2, <2>3, <2>4 DEF ServicesInv
<1>3. CASE /\ ~next.mon
           /\ settings' = next /\ TakeClient /\ sport' = None /\ drift' = {}
           /\ at' = "joinClient" /\ cmd' = [NoCmd EXCEPT !.op = "monitor"] /\ prev' = None
           /\ UNCHANGED <<loop, coord>>
  <2>1. Running' = {}
    BY <1>3 DEF Running
  <2>2. cmd'.op = "monitor" /\ cmd'.next = None
    BY <1>3 DEF NoCmd
  <2>3. MainTypes' /\ CommandAgrees'
    BY <1>3, <1>t, <2>2 DEF MainTypes, CommandAgrees, NoCmd
  <2>4. RelayTypes' /\ OneClient' /\ slot' = None
    BY <1>3, <1>t, TakeOne
  <2>5. AlwaysFollow'
    BY <1>3, <2>1, <2>4 DEF AlwaysFollow, RelayNeedsMonitor, Fits, ServersFit
  <2>q. QED BY <2>3, <2>4, <2>5 DEF ServicesInv
<1>4. ASSUME NEW bound \in SUBSET Stacks, next.mon, settings' = next, StartMonitor(next, bound),
             Return, UNCHANGED relayVars, Drifts(lapse)
      PROVE  ServicesInv'
  <2>1. sport \in Ports \cup {None}
    BY <1>t DEF MainTypes
  <2>2. /\ sport' \in Ports \cup {None}
        /\ \/ Running' = Running /\ sport' = sport
           \/ Running' # {} => next.mon /\ sport' = next.port
    BY <1>4, <2>1, StartedServers
  <2>q. QED BY <1>1, <1>4, <2>2
<1>5. ASSUME NEW bound \in SUBSET Stacks, next.mon, settings' \in {old, next},
             IF old.mon THEN StartMonitor(settings', bound)
                        ELSE sport' = (IF Running = {} THEN None ELSE sport) /\ UNCHANGED loop,
             Return, UNCHANGED relayVars, Drifts(lapse)
      PROVE  ServicesInv'
  <2>1. PICK s : s = settings'
    OBVIOUS
  <2>2. s \in {old, next} /\ s \in Settings /\ sport \in Ports \cup {None}
    BY <1>5, <1>t, <2>1 DEF MainTypes
  <2>3. CASE ~old.mon
    <3>1. Running' = Running /\ (sport' = sport \/ Running = {}) /\ sport' \in Ports \cup {None}
      BY <1>5, <2>2, <2>3 DEF Running
    <3>q. QED BY <1>1, <1>5, <2>1, <2>2, <3>1
  <2>4. CASE old.mon
    <3>1. StartMonitor(s, bound)
      BY <1>5, <2>1, <2>4, Zenon DEF StartMonitor
    <3>2. /\ sport' \in Ports \cup {None}
          /\ \/ Running' = Running /\ sport' = sport
             \/ Running' # {} => s.mon /\ sport' = s.port
      BY <2>2, <3>1, StartedServers
    <3>q. QED BY <1>1, <1>5, <2>1, <2>2, <3>2
  <2>q. QED BY <2>3, <2>4
<1>q. QED
  BY <1>2, <1>3, <1>4, <1>5, Zenon DEF ApplyMonitor

\* set_monitor_enabled, from its call to the join of the servers and after it.
LEMMA MonitorKeeps ==
    ASSUME ServicesInv, ServersJoined \/ \E on \in BOOLEAN, port \in Ports : SetMonitorEnabled(on, port)
    PROVE  ServicesInv'
<1>t. MainTypes /\ RelayTypes /\ OneClient /\ AlwaysFollow /\ CommandAgrees
  BY DEF ServicesInv
<1>1. CASE ServersJoined
  <2>1. /\ at = "joinServers" /\ cmd.op = "monitor" /\ Running = {}
        /\ ApplyMonitor(prev, cmd.next, {}) /\ UNCHANGED <<cred, worker>>
    BY <1>1, Zenon DEF ServersJoined
  <2>2. PICK next : next = cmd.next
    OBVIOUS
  <2>3. PICK old : old = settings
    OBVIOUS
  <2>4. PICK lapse \in SUBSET Services : lapse = {}
    OBVIOUS
  <2>5. /\ next \in Settings /\ RelayNeedsMonitor(next)
        /\ next.mon => prev = old /\ next.url = settings.url /\ (settings.relay => next.relay)
    BY <1>t, <2>1, <2>2, <2>3 DEF CommandAgrees
  <2>6. old \in Settings /\ RelayNeedsMonitor(old)
    BY <1>t, <2>3 DEF MainTypes, AlwaysFollow
  <2>7. ApplyMonitor(old, next, lapse)
    <3>1. CASE prev = old
      BY <2>1, <2>2, <2>4, <3>1, Zenon DEF ApplyMonitor, StartMonitor, Drifts
    <3>2. CASE ~next.mon
      BY <2>1, <2>2, <2>4, <3>2, Zenon DEF ApplyMonitor
    <3>q. QED BY <2>5, <3>1, <3>2
  <2>q. QED BY <2>1, <2>3, <2>5, <2>6, <2>7, ApplyKeeps
<1>2. ASSUME NEW on \in BOOLEAN, NEW port \in Ports, SetMonitorEnabled(on, port) PROVE ServicesInv'
  <2>1. PICK old \in {settings, MonitorDefaults} :
           LET next == [old EXCEPT !.mon = on, !.port = port, !.relay = on /\ @]
               restart == old.mon /\ on /\ old.port # port
           IN  IF restart \/ ~on
                 THEN /\ at' = "joinServers" /\ cmd' = [op |-> "monitor", next |-> next]
                      /\ prev' = IF on THEN old ELSE None
                      /\ UNCHANGED <<settings, loop, sport, coord, relayVars, drift>>
                 ELSE ApplyMonitor(old, next, IF old = settings THEN {} ELSE Services)
    BY <1>2, Zenon DEF SetMonitorEnabled
  <2>2. at = "idle" /\ UNCHANGED <<cred, worker>>
    BY <1>2, Zenon DEF SetMonitorEnabled
  <2>3. /\ old \in Settings /\ RelayNeedsMonitor(old) /\ old.url = settings.url
        /\ old.mon => old = settings
    BY <1>t, <2>1, MonitorServicesAssumption
       DEF MainTypes, AlwaysFollow, Settings, MonitorDefaults, RelayNeedsMonitor
  <2>4. PICK next : next = [old EXCEPT !.mon = on, !.port = port, !.relay = on /\ @]
    OBVIOUS
  <2>5. /\ next \in Settings /\ next.mon = on /\ next.port = port
        /\ next.relay = (on /\ old.relay) /\ next.url = old.url
    BY <2>3, <2>4 DEF Settings
  <2>6. RelayNeedsMonitor(next)
    BY <2>3, <2>5 DEF RelayNeedsMonitor
  <2>7. PICK lapse : lapse = IF old = settings THEN {} ELSE Services
    OBVIOUS
  <2>8. CASE ~((old.mon /\ on /\ old.port # port) \/ ~on)
    <3>1. ApplyMonitor(old, next, lapse)
      BY <2>1, <2>4, <2>7, <2>8, Zenon DEF ApplyMonitor, StartMonitor, Drifts
    <3>2. /\ lapse \in SUBSET Services
          /\ \/ lapse = Services
             \/ /\ old = settings
                /\ next.mon => /\ next.url = settings.url /\ (settings.relay => next.relay)
                               /\ Running # {} /\ settings.mon => next.port = settings.port
      BY <2>3, <2>5, <2>7, <2>8 DEF Settings
    <3>3. ~next.mon => Running = {}
      BY <2>5, <2>8
    <3>q. QED BY <2>2, <2>3, <2>5, <2>6, <3>1, <3>2, <3>3, ApplyKeeps
  <2>9. CASE (old.mon /\ on /\ old.port # port) \/ ~on
    <3>1. /\ at' = "joinServers" /\ cmd' = [op |-> "monitor", next |-> next]
          /\ prev' = (IF on THEN old ELSE None)
          /\ UNCHANGED <<settings, loop, sport, coord, relayVars, drift>>
      BY <2>1, <2>4, <2>9, Zenon
    <3>2. on => old = settings
      BY <2>3, <2>9
    <3>3. MainTypes' /\ CommandAgrees'
      BY <1>t, <2>2, <2>3, <2>5, <2>6, <3>1, <3>2 DEF MainTypes, CommandAgrees, RelayNeedsMonitor
    <3>4. RelayTypes' /\ OneClient'
      BY <1>t, <2>2, <3>1, ClientAlone
    <3>5. Running' = Running
      BY <3>1 DEF Running
    <3>6. AlwaysFollow'
      BY <1>t, <2>2, <3>1, <3>5 DEF AlwaysFollow, RelayNeedsMonitor, Fits, ServersFit, relayVars
    <3>q. QED BY <3>3, <3>4, <3>6 DEF ServicesInv
  <2>q. QED BY <2>8, <2>9
<1>q. QED BY <1>1, <1>2

-----------------------------------------------------------------------------
(* The theorems                                                            *)

\* Every step of the desktop keeps the invariant of the services: one step per operation.
LEMMA ServicesStep ==
    ASSUME DirectTypeOK, ServicesInv, [Next]_vars
    PROVE  ServicesInv'
<1>w. worker \in {"none", "waiting", "running"} /\ coord \in {"free", "main", "worker"}
  BY DEF ServicesInv, MainTypes
<1>1. CASE DirectStep
  <2>1. DirectNext /\ UNCHANGED <<settings, cred, mainVars, coord, worker, relayVars, sport, drift>>
    BY <1>1 DEF DirectStep
  <2>2. Running' \subseteq Running
    BY <2>1, ServersOnlyEnd
  <2>q. QED BY <1>w, <2>1, <2>2, AsideKeeps
<1>2. CASE Acquire
  BY <1>2, AskKeeps, SaveKeeps, RegisterKeeps DEF Acquire
\* What leaves the servers as they run.
<1>a. ASSUME UNCHANGED <<loop, settings, cred, mainVars, relayVars, sport, drift>>,
             worker' \in {"none", "waiting", "running"}, coord' \in {"free", "main", "worker"}
      PROVE  ServicesInv'
  <2>1. Running' \subseteq Running
    BY <1>a DEF Running
  <2>q. QED BY <1>a, <2>1, AsideKeeps
<1>3. ASSUME NEW s \in Stacks, StopServer(s) PROVE ServicesInv'
  BY <1>3, <1>a, <1>w DEF StopServer, DropServer
<1>4. CASE MainStep
  BY <1>3, <1>4, ProcessKeeps, MonitorKeeps, TunnelKeeps, JoinEnds DEF MainStep
<1>5. CASE Boot \/ Crash \/ EnsureServers
  BY <1>5, ProcessKeeps
<1>6. CASE \E on \in BOOLEAN, port \in Ports : SetMonitorEnabled(on, port)
  BY <1>6, MonitorKeeps
<1>7. CASE \E op \in {"network", "register", "quit"} : StartNetworkCommand(op)
  BY <1>7, AskKeeps
<1>8. CASE \E i \in Clients :
             ClientStep(i) \/ Connect(i) \/ HelloAck(i) \/ SessionEnds(i) \/ DeviceRequest(i)
  BY <1>8, ThreadKeeps
<1>9. ASSUME NEW c \in Conns, DirectRequest(c) PROVE ServicesInv'
  <2>1. worker' \in {"none", "waiting", "running"}
    BY <1>9, <1>w DEF DirectRequest, Trigger
  <2>2. UNCHANGED <<loop, settings, cred, mainVars, coord, relayVars, sport, drift>>
    BY <1>9 DEF DirectRequest, directVars
  <2>q. QED BY <1>a, <1>w, <2>1, <2>2
<1>10. CASE WorkerHolds
  BY <1>10, <1>a DEF WorkerHolds, directVars
<1>11. CASE WorkerDone
  BY <1>11, <1>a DEF WorkerDone, directVars
<1>12. CASE UNCHANGED vars
  BY <1>12, <1>a, <1>w DEF vars, directVars
<1>q. QED
  BY <1>1, <1>2, <1>4, <1>5, <1>6, <1>7, <1>8, <1>9, <1>10, <1>11, <1>12 DEF Next

\* The invariant holds always, at every moment of every command.
LEMMA ServicesInvariant == Spec => [](DirectTypeOK /\ ServicesInv)
<1>1. Init => ServicesInv
  <2> SUFFICES ASSUME Init PROVE ServicesInv
    OBVIOUS
  <2>1. /\ settings \in Settings /\ RelayNeedsMonitor(settings)
        /\ cred \in Relays \cup {NoUrl}
        /\ at = "gone" /\ cmd = NoCmd /\ prev = None /\ coord = "free" /\ worker = "none"
        /\ slot = None /\ client = [i \in Clients |-> NoClient]
        /\ connected = FALSE /\ sport = None /\ drift = {}
    BY DEF Init, RelayNeedsMonitor
  <2>2. Running = {}
    BY DEF Init, DirectInit, Running
  <2>3. MainTypes
    BY <2>1 DEF MainTypes, NoCmd
  <2>4. RelayTypes /\ OneClient
    BY <2>1, NoClientFacts DEF RelayTypes, OneClient
  <2>5. CommandAgrees /\ AlwaysFollow
    BY <2>1, <2>2 DEF CommandAgrees, AlwaysFollow, Fits, ServersFit
  <2>q. QED BY <2>3, <2>4, <2>5 DEF ServicesInv
<1>q. QED
  BY <1>1, PlacesAreCounted, ServicesStep, PTL DEF Spec

\* The types of all the desktop keeps for its monitor services.
THEOREM MonitorTypes == Spec => []TypeOK
<1>1. DirectTypeOK /\ ServicesInv => TypeOK
  BY DEF ServicesInv, MainTypes, RelayTypes, Thread, TypeOK
<1>q. QED
  BY <1>1, ServicesInvariant, PTL

\* Whatever commands come, fail or are killed, for any number of client threads: the commands
\* never lose one, never run two, and the status never says connected without one.
THEOREM ClientNeverStrays == Spec => []NoStrayClient
<1>1. ServicesInv => NoStrayClient
  <2> SUFFICES ASSUME ServicesInv PROVE NoStrayClient
    OBVIOUS
  <2>1. \A i \in Alive : i \in Clients /\ client[i] # NoClient
    BY NoClientFacts DEF Alive
  <2>2. Cardinality(Alive) <= 1
    <3>1. CASE Alive = {}
      BY <3>1, FS_EmptySet
    <3>2. ASSUME NEW i \in Alive PROVE Cardinality(Alive) <= 1
      <4>1. Alive = {i}
        BY <2>1, <3>2 DEF ServicesInv, OneClient
      <4>2. Cardinality({i}) = 1
        BY FS_Singleton
      <4>q. QED BY <4>1, <4>2
    <3>q. QED BY <3>1, <3>2
  <2>3. at # "joinClient" => Alive \subseteq {slot}
    BY <2>1 DEF ServicesInv, OneClient
  <2>4. connected => Alive # {}
    BY DEF ServicesInv, OneClient
  <2>q. QED BY <2>2, <2>3, <2>4 DEF NoStrayClient
<1>q. QED
  BY <1>1, ServicesInvariant, PTL

\* Whatever failed in the commands before, between two of them the services are the ones the
\* saved settings ask for, but for the ones left astray by a rollback that could not be written
\* or by a command that could not read the settings.
THEOREM SettingsAreFollowed == Spec => []ServicesFollowSettings
<1>1. ServicesInv => ServicesFollowSettings
  BY DEF ServicesInv, AlwaysFollow, RelayNeedsMonitor, Fits, ServicesFollowSettings, ClientFits,
         Astray, Services
<1>q. QED
  BY <1>1, ServicesInvariant, PTL
=============================================================================
