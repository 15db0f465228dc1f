-------------------------- MODULE MonitorServices ---------------------------
(***************************************************************************)
(* The commands that start and stop the desktop's two monitor services,    *)
(* the direct server (module DirectServer) and the relay client thread,    *)
(* and keep them in step with the saved settings.                          *)
(*                                                                         *)
(* The commands are synchronous: they run on the main thread, one at a     *)
(* time.  They meet other threads in three places: they join the accept    *)
(* threads, they join the client thread, and network commands hold the     *)
(* connection coordinator, a blocking lock, while they do.  The client     *)
(* thread runs the handlers of phones' requests itself; the one that needs *)
(* the coordinator gives the work to a thread of its own (worker).         *)
(***************************************************************************)
EXTENDS DirectServer

CONSTANTS
    Ports,      \* values of monitor_port
    DefaultPort,\* default_monitor_port
    Urls,       \* values of relay.base_url
    NoUrl,      \* the empty base_url, which is the default
    Relays,     \* the base_urls of the servers this desktop can register with
    Clients     \* names of client threads

ASSUME MonitorServicesAssumption ==
    /\ Clients # {} /\ None \notin Clients
    /\ DefaultPort \in Ports /\ NoUrl \in Urls /\ Relays \subseteq Urls \ {NoUrl}

Settings == [mon: BOOLEAN, port: Ports, relay: BOOLEAN, url: Urls]
Services == {"servers", "client"}

VARIABLES
    settings,   \* the saved settings
    cred,       \* the base_url of the saved relay credentials, or NoUrl
    at,         \* where the main thread is
    cmd,        \* the command it runs
    prev,       \* the settings that command began with, as far as it may write them back
    coord,      \* the connection coordinator: who holds it
    worker,     \* the thread of reconnect_tunnel
    slot,       \* state.relay.client
    client,     \* per client thread: where it is, its stop flag, its base_url
    connected,  \* RelayStatus.connected
    sport,      \* the port of the running servers
    drift       \* services that a rollback not written, or settings not read, have left running
                \* against the saved settings

mainVars == <<at, cmd, prev>>
relayVars == <<slot, client, connected>>
vars == <<directVars, settings, cred, mainVars, coord, worker, relayVars, sport, drift>>

NoClient == [pc |-> "none", stop |-> FALSE, url |-> None]
NoCmd == [op |-> "none", next |-> None]
Alive == {i \in Clients : client[i].pc \notin {"none", "ended"}}

TypeOK ==
    /\ DirectTypeOK
    /\ settings \in Settings /\ cred \in Relays \cup {NoUrl}
    /\ at \in {"gone", "idle", "acquire", "tunnel", "joinClient", "joinServers"}
    /\ cmd \in [op: {"none", "monitor", "network", "register", "quit"},
                next: Settings \cup {None}]
    /\ prev \in Settings \cup {None}
    /\ coord \in {"free", "main", "worker"} /\ worker \in {"none", "waiting", "running"}
    /\ slot \in Clients \cup {None}
    /\ client \in [Clients -> [pc: {"none", "away", "open", "handling", "ended"},
                               stop: BOOLEAN, url: Urls \cup {None}]]
    /\ connected \in BOOLEAN /\ drift \in SUBSET Services
    /\ sport \in Ports \cup {None}

Init ==
    /\ DirectInit
    /\ settings \in {s \in Settings : s.relay => s.mon /\ s.url # NoUrl} /\ cred \in Relays \cup {NoUrl}
    /\ at = "gone" /\ cmd = NoCmd /\ prev = None
    /\ coord = "free" /\ worker = "none"
    /\ slot = None /\ client = [i \in Clients |-> NoClient]
    /\ connected = FALSE /\ sport = None /\ drift = {}

-----------------------------------------------------------------------------
(* Parts of the commands                                                   *)

Return ==
    /\ at' = "idle" /\ cmd' = NoCmd /\ prev' = None
    /\ coord' = IF coord = "main" THEN "free" ELSE coord

\* start_monitor_service with settings s: servers that run are kept, else one on each address
\* that can be bound; none at all is an error.
StartMonitor(s, bound) ==
    IF ~s.mon \/ Running # {}
      THEN UNCHANGED <<loop, sport>>
      ELSE StartServers(bound) /\ sport' = IF bound = {} THEN None ELSE s.port

\* stop_relay_client up to the join: the handle leaves its slot and its stop flag is set.
TakeClient ==
    /\ slot' = None
    /\ client' = [i \in Clients |-> IF i = slot THEN [client[i] EXCEPT !.stop = TRUE] ELSE client[i]]
    /\ UNCHANGED connected

\* Bug: the handle is dropped without waiting for its thread.
JoinedNot == TRUE
\* RelayClientHandle::drop: the thread that was told to stop has ended.
Joined == \A i \in Clients : client[i].stop => client[i].pc = "ended"

Reaped ==
    [i \in Clients |-> IF client[i].stop /\ client[i].pc = "ended" THEN NoClient ELSE client[i]]

\* relay::start_client beside the threads of others; one that cannot build its runtime ends at
\* once.
SpawnClient(url, others) ==
    LET i == CHOOSE j \in Clients : others[j] = NoClient
    IN  \E pc \in {"away", "ended"} :
          /\ slot' = i /\ connected' = FALSE
          /\ client' = [others EXCEPT ![i] = [pc |-> pc, stop |-> FALSE, url |-> url]]

NoSpawn(others) == connected' = FALSE /\ client' = others /\ UNCHANGED slot

\* start_relay_client_for_settings after its stop: no thread if the relay is off or the
\* credentials are another server's.
ClientFor(s, others) ==
    IF s.relay /\ cred = s.url THEN SpawnClient(s.url, others) ELSE NoSpawn(others)

ClientFits == slot # None => settings.relay /\ client[slot].url = settings.url
ServersFit == Running # {} => settings.mon /\ sport = settings.port

\* The services that run against the saved settings, and what a command that lapsed leaves of
\* them: the ones it left astray itself, and the ones that were and still are.
Astray == {x \in Services : IF x = "client" THEN ~ClientFits ELSE ~ServersFit}
Drifts(lapse) == drift' = (drift \cup lapse) \cap Astray'

-----------------------------------------------------------------------------
(* Start and end of the process                                            *)

\* main: both services by the saved settings; what fails is logged.
Boot ==
    /\ at = "gone"
    /\ at' = "idle"
    /\ \E bound \in SUBSET Stacks : StartMonitor(settings, bound)
    /\ \/ settings.mon /\ ClientFor(settings, client)
       \/ UNCHANGED relayVars
    /\ UNCHANGED <<stop, count, conn, registry, settings, cred, cmd, prev, coord, worker, drift>>

\* stop_on_exit, with the coordinator.
QuitHolding ==
    /\ at = "acquire" /\ cmd.op = "quit" /\ coord = "free"
    /\ coord' = "main" /\ at' = "joinClient" /\ TakeClient
    /\ UNCHANGED <<directVars, settings, cred, cmd, prev, worker, sport>>
    /\ Drifts({})

Dead ==
    /\ KillServers
    /\ at' = "gone" /\ cmd' = NoCmd /\ prev' = None /\ coord' = "free" /\ worker' = "none"
    /\ slot' = None /\ client' = [i \in Clients |-> NoClient]
    /\ connected' = FALSE /\ sport' = None /\ drift' = {}
    /\ UNCHANGED <<settings, cred>>

QuitDone == at = "joinServers" /\ cmd.op = "quit" /\ Running = {} /\ Dead

\* The process is killed between any two steps; settings and credentials are on disk.
Crash == at # "gone" /\ Dead

-----------------------------------------------------------------------------
(* set_monitor_enabled                                                     *)

\* The settings are written; when they cannot be, the command ends there.  Disabling, which
\* finds the servers stopped, goes on with stop_relay_client.  A start that fails, which the
\* registry of devices can make it even with servers running, takes the settings back, if they
\* can be written, and the old ones are tried.
ApplyMonitor(old, next, lapse) ==
    \/ /\ Return /\ sport' = (IF Running = {} THEN None ELSE sport)
       /\ UNCHANGED <<settings, loop, relayVars, drift>>
    \/ /\ ~next.mon
       /\ settings' = next /\ TakeClient /\ sport' = None /\ drift' = {}
       /\ at' = "joinClient" /\ cmd' = [NoCmd EXCEPT !.op = "monitor"] /\ prev' = None
       /\ UNCHANGED <<loop, coord>>
    \/ \E bound \in SUBSET Stacks :
         /\ next.mon /\ Running \cup bound # {}
         /\ settings' = next /\ StartMonitor(next, bound)
         /\ Return /\ UNCHANGED relayVars /\ Drifts(lapse)
    \/ \E bound \in SUBSET Stacks :
         /\ next.mon
         /\ settings' \in {old, next}
         /\ IF old.mon
              THEN StartMonitor(settings', bound)
              ELSE sport' = (IF Running = {} THEN None ELSE sport) /\ UNCHANGED loop
         /\ Return /\ UNCHANGED relayVars /\ Drifts(lapse)

\* load_settings: a file that cannot be read gives the defaults, to a command that goes on with
\* them.  set_monitor_enabled writes back all of them but base_url.
MonitorDefaults == [settings EXCEPT !.mon = FALSE, !.port = DefaultPort, !.relay = FALSE]

\* A new port and a disabled monitor stop the servers first (stop_monitor_service).
SetMonitorEnabled(on, port) ==
    /\ at = "idle"
    /\ \E old \in {settings, MonitorDefaults} :
         LET next == [old EXCEPT !.mon = on, !.port = port, !.relay = on /\ @]
             restart == old.mon /\ on /\ old.port # port
         IN  IF restart \/ ~on
               THEN /\ at' = "joinServers" /\ cmd' = [op |-> "monitor", next |-> next]
                    /\ prev' = IF on THEN old ELSE None
                    /\ UNCHANGED <<settings, loop, sport, coord, relayVars, drift>>
               ELSE ApplyMonitor(old, next, IF old = settings THEN {} ELSE Services)
    /\ UNCHANGED <<stop, count, conn, registry, cred, worker>>

StopServer(s) ==
    /\ at = "joinServers" /\ DropServer(s)
    /\ UNCHANGED <<settings, cred, mainVars, coord, worker, relayVars, sport, drift>>

ServersJoined ==
    /\ at = "joinServers" /\ cmd.op = "monitor" /\ Running = {}
    /\ ApplyMonitor(prev, cmd.next, {})
    /\ UNCHANGED <<stop, count, conn, registry, cred, worker>>

\* create_pairing brings up a server that is not running before it makes a code.
EnsureServers ==
    /\ at = "idle"
    /\ \E bound \in SUBSET Stacks : StartMonitor(settings, bound)
    /\ UNCHANGED <<stop, count, conn, registry, settings, cred, mainVars, coord, worker, relayVars, drift>>

-----------------------------------------------------------------------------
(* set_network_settings and register_relay_desktop                         *)

\* The command waits for the coordinator; what it does with its arguments comes after.
StartNetworkCommand(op) ==
    /\ at = "idle"
    /\ at' = "acquire" /\ cmd' = [op |-> op, next |-> None]
    /\ UNCHANGED <<directVars, settings, cred, prev, coord, worker, relayVars, sport, drift>>

\* What follows the settings and the tunnel: the client is replaced if its settings changed.
RelayPart(changed, lapse) ==
    /\ IF changed
         THEN /\ at' = "joinClient" /\ TakeClient
              /\ coord' = "main" /\ cmd' = [cmd EXCEPT !.next = None]
         ELSE at' = "idle" /\ cmd' = NoCmd /\ coord' = "free" /\ UNCHANGED relayVars
    /\ Drifts(lapse)

\* The defaults load_settings gives in place of settings it cannot read, for a command that
\* writes back only the relay's.
RelayDefaults == [settings EXCEPT !.relay = FALSE, !.url = NoUrl]

\* With the coordinator: a relay without the monitor, which settings not read do not show, or
\* without a base_url, and a failed write are refused.  A payload for the proxy alone leaves the
\* relay's settings as they are.  A new proxy has the tunnel restarted before the relay's part.
SaveNetwork(on, url, proxy) ==
    /\ at = "acquire" /\ cmd.op = "network" /\ coord = "free"
    /\ UNCHANGED <<directVars, cred, worker, sport>>
    /\ \/ Return /\ UNCHANGED <<settings, relayVars, drift>>
       \/ \E old \in {settings, RelayDefaults} :
            LET next == [old EXCEPT !.relay = on, !.url = url]
                lapse == IF old = settings THEN {} ELSE {"client"}
            IN  /\ on => old = settings /\ settings.mon /\ url # NoUrl
                /\ settings' = next \/ (next = old /\ settings' = settings)
                /\ IF proxy
                     THEN /\ prev' = old /\ at' = "tunnel" /\ coord' = "main"
                          /\ cmd' = [cmd EXCEPT !.next = next]
                          /\ drift' = drift \cup lapse /\ UNCHANGED relayVars
                     ELSE /\ RelayPart(old # next, lapse)
                          /\ prev' = IF old # next THEN old ELSE None

\* Bug: a tunnel that does not start leaves the new settings in place.
RestartTunnelUnsaved ==
    /\ at = "tunnel"
    /\ UNCHANGED <<directVars, settings, cred, worker, sport>>
    /\ \/ /\ prev' = (IF prev # cmd.next THEN prev ELSE None)
          /\ RelayPart(prev # cmd.next, {})
       \/ Return /\ UNCHANGED relayVars /\ Drifts({})
\* start_runtime_connection for the new proxy.  When it fails the settings are taken back, if
\* they can be written, and the client, not touched yet, is left alone.
RestartTunnel ==
    /\ at = "tunnel"
    /\ UNCHANGED <<directVars, cred, worker, sport>>
    /\ \/ /\ prev' = (IF prev # cmd.next THEN prev ELSE None) /\ UNCHANGED settings
          /\ RelayPart(prev # cmd.next, {})
       \/ /\ Return /\ UNCHANGED relayVars
          /\ \/ settings' = prev /\ Drifts({})
             \/ UNCHANGED settings /\ Drifts({"client"})

\* Registered at url: the credentials are saved, then the settings; each may fail.  Settings not
\* read when the command began show no relay whose client has to be restarted.
Register(url) ==
    /\ at = "acquire" /\ cmd.op = "register" /\ coord = "free"
    /\ UNCHANGED <<directVars, worker, sport>>
    /\ \/ Return /\ UNCHANGED <<settings, cred, relayVars, drift>>
       \/ cred' = url /\ Return /\ UNCHANGED <<settings, relayVars, drift>>
       \/ \E on \in {settings.relay, FALSE} :
            /\ cred' = url /\ settings' = [settings EXCEPT !.url = url] /\ UNCHANGED prev
            /\ RelayPart(on, IF on = settings.relay THEN {} ELSE {"client"})

ClientJoined ==
    /\ at = "joinClient" /\ cmd.op \in {"monitor", "quit"} /\ Joined
    /\ NoSpawn(Reaped)
    /\ IF cmd.op = "quit" THEN at' = "joinServers" /\ UNCHANGED <<cmd, prev, coord>> ELSE Return
    /\ UNCHANGED <<directVars, settings, cred, worker, sport, drift>>

\* start_relay_client_for_settings goes on with the start, and starts nothing when it cannot read
\* the settings.  With credentials, reading the devices or the key may fail, which rolls
\* set_network_settings back, if that can be written: the old settings and a client for them.
RestartClient ==
    /\ at = "joinClient" /\ cmd.op \in {"network", "register"} /\ Joined
    /\ \/ ClientFor(settings, Reaped) /\ UNCHANGED settings
       \/ NoSpawn(Reaped) /\ UNCHANGED settings
       \/ /\ settings.relay /\ cred = settings.url /\ cmd.op = "network"
          /\ settings' = prev
          /\ ClientFor(prev, Reaped) \/ NoSpawn(Reaped)
    /\ Return /\ UNCHANGED <<directVars, cred, worker, sport, drift>>

-----------------------------------------------------------------------------
(* The client thread: relay_loop and relay_session.  Nobody else reads its *)
(* stop flag, so what it does between the flag being set and its seeing it *)
(* is the same as done just before, and is left out.                       *)

Go(i, pc) == client' = [client EXCEPT ![i].pc = pc]

\* Away: waiting out the delay of wait_for_network_recovery, or connecting.
Connect(i) ==
    /\ client[i].pc = "away" /\ ~client[i].stop /\ Go(i, "open")
    /\ UNCHANGED <<directVars, settings, cred, mainVars, coord, worker, slot, connected, sport, drift>>

HelloAck(i) ==
    /\ client[i].pc = "open" /\ ~client[i].stop /\ ~connected /\ connected' = TRUE
    /\ UNCHANGED <<directVars, settings, cred, mainVars, coord, worker, slot, client, sport, drift>>

\* The connection was refused, timed out, was closed or was silent for too long: the status
\* says so and the next attempt waits.
SessionEnds(i) ==
    /\ client[i].pc \in {"away", "open"} /\ ~client[i].stop
    /\ connected' = FALSE /\ Go(i, "away")
    /\ UNCHANGED <<directVars, settings, cred, mainVars, coord, worker, slot, sport, drift>>

\* stop_signal, which every wait of the thread listens to: the loop is left, the uploader
\* aborted and the status cleared.
StopSeen(i) ==
    /\ client[i].pc \in {"away", "open"} /\ client[i].stop
    /\ connected' = FALSE /\ Go(i, "ended")
    /\ UNCHANGED <<directVars, settings, cred, mainVars, coord, worker, slot, sport, drift>>

DeviceRequest(i) ==
    /\ client[i].pc = "open" /\ ~client[i].stop /\ connected /\ Go(i, "handling")
    /\ UNCHANGED <<directVars, settings, cred, mainVars, coord, worker, slot, connected, sport, drift>>

\* trigger_tunnel_reconnect: one worker at a time, else the request is refused.
Trigger == worker' = IF worker = "none" THEN "waiting" ELSE worker

\* Bug: the reconnect runs in the handler, which waits for the coordinator itself.
HandleInline(i) ==
    /\ client[i].pc = "handling" /\ coord = "free"
    /\ \/ Go(i, "open") /\ UNCHANGED connected
       \/ Go(i, "away") /\ connected' = FALSE
    /\ UNCHANGED <<directVars, settings, cred, mainVars, coord, worker, slot, sport, drift>>
\* The handler answers; the answer is sent or the session fails.
HandleRequest(i) ==
    /\ client[i].pc = "handling"
    /\ Trigger \/ UNCHANGED worker
    /\ \/ Go(i, "open") /\ UNCHANGED connected
       \/ Go(i, "away") /\ connected' = FALSE
    /\ UNCHANGED <<directVars, settings, cred, mainVars, coord, slot, sport, drift>>

\* The same request on a direct socket.
DirectRequest(c) ==
    /\ conn[c].at = "socket" /\ conn[c].device \in registry /\ worker = "none"
    /\ Trigger
    /\ UNCHANGED <<directVars, settings, cred, mainVars, coord, relayVars, sport, drift>>

WorkerHolds ==
    /\ worker = "waiting" /\ coord = "free"
    /\ worker' = "running" /\ coord' = "worker"
    /\ UNCHANGED <<directVars, settings, cred, mainVars, relayVars, sport, drift>>

\* start_runtime_connection is over, or the intent was withdrawn meanwhile.  What the worker
\* verifies after it let the coordinator go touches nothing here.
WorkerDone ==
    /\ worker = "running" /\ worker' = "none" /\ coord' = "free"
    /\ UNCHANGED <<directVars, settings, cred, mainVars, relayVars, sport, drift>>

-----------------------------------------------------------------------------
DirectStep ==
    /\ at # "gone" /\ DirectNext
    /\ UNCHANGED <<settings, cred, mainVars, coord, worker, relayVars, sport, drift>>

Acquire ==
    \/ QuitHolding
    \/ \E on, proxy \in BOOLEAN, url \in Urls : SaveNetwork(on, url, proxy)
    \/ \E url \in Relays : Register(url)

MainStep ==
    \/ QuitDone \/ ServersJoined \/ RestartTunnel \/ ClientJoined \/ RestartClient
    \/ \E s \in Stacks : StopServer(s)

ClientStep(i) == StopSeen(i) \/ HandleRequest(i)

Next ==
    \/ DirectStep \/ Acquire \/ MainStep \/ Boot \/ Crash \/ EnsureServers
    \/ \E on \in BOOLEAN, port \in Ports : SetMonitorEnabled(on, port)
    \/ \E op \in {"network", "register", "quit"} : StartNetworkCommand(op)
    \/ \E i \in Clients :
         ClientStep(i) \/ Connect(i) \/ HelloAck(i) \/ SessionEnds(i) \/ DeviceRequest(i)
    \/ \E c \in Conns : DirectRequest(c)
    \/ WorkerHolds \/ WorkerDone

(* Threads run, and the coordinator, asked for again and again, is         *)
(* obtained.                                                               *)
Fairness ==
    /\ SF_vars(Acquire) /\ WF_vars(MainStep) /\ WF_vars(WorkerDone)
    /\ WF_vars(\E i \in Clients : ClientStep(i))
    /\ WF_vars(\E s \in Stacks : (AcceptEnds(s) \/ Refuse(s)) /\ DirectStep)
    /\ \A c \in Conns : WF_vars(RejectRevoked(c) /\ DirectStep)

Spec == Init /\ [][Next]_vars /\ Fairness

-----------------------------------------------------------------------------
(* There is never a second client thread, and none the commands no longer  *)
(* hold, except the one they are waiting for; and the status says          *)
(* connected only while a client thread is there to be connected.          *)
NoStrayClient ==
    /\ Cardinality(Alive) <= 1
    /\ at # "joinClient" => Alive \subseteq {slot}
    /\ connected => Alive # {}

(* Between two commands, whatever failed in the last ones: the relay is on *)
(* only with the monitor, servers run only for an enabled monitor and on   *)
(* the saved port, and the client, if there is one, is the one the saved   *)
(* settings ask for.  Two failures excuse a service until it is next       *)
(* stopped: a rollback of the network settings that could not be written,  *)
(* which the command reports, and a command whose load_settings fell back  *)
(* to the defaults, which nobody reports.                                  *)
ServicesFollowSettings ==
    at = "idle" =>
        /\ settings.relay => settings.mon
        /\ Astray \subseteq drift

(* Every command returns: joining a client thread with the coordinator     *)
(* held never waits for a thread that waits for the coordinator.           *)
CommandReturns == at \notin {"idle", "gone"} ~> at \in {"idle", "gone"}
=============================================================================
