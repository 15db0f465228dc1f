--------------------------- MODULE ConnectionModes ---------------------------
(***************************************************************************)
(* The two MCP transports of the desktop, the Secure MCP Tunnel and HTTPS  *)
(* MCP, of which at most one may run.  The user starts and stops them; the *)
(* reconnect monitor and the phone restart the tunnel; ChatX may crash,    *)
(* quit and start again.  What has to survive is on disk: one stop marker  *)
(* per transport and two flags of settings.json.                           *)
(*                                                                         *)
(* All operations that start or stop a transport hold the mutex of the     *)
(* ConnectionCoordinator; runtime_operation is only taken inside it.  A    *)
(* user operation is one action per write to disk or per transport         *)
(* started or stopped, and op says where it is.  The monitor and the phone *)
(* hold the mutex for one step.  Settings are written to a temporary file  *)
(* and renamed, so a write happens or fails.                               *)
(***************************************************************************)
EXTENDS Naturals

CONSTANTS
    Faults,      \* the kinds of operation that may fail
    Legacy,      \* start from settings of a version that allowed both modes
    Thresholds,  \* failed checks before a reconnect, 1, 2 or 8 in the code
    Limit,       \* no threshold is larger; inactive_checks is not counted beyond it
    MaxOps,      \* user operations
    MaxCrashes,  \* crashes
    MaxSlips     \* times the runtime dies by itself

FaultKinds ==
    {"marker", "save", "read", "stop", "start", "status", "secret", "revoke"}

ASSUME ModesAssumption ==
    /\ Faults \subseteq FaultKinds
    /\ Legacy \in BOOLEAN
    /\ Limit \in Nat /\ Thresholds \subseteq 1..Limit
    /\ MaxOps \in Nat /\ MaxCrashes \in Nat /\ MaxSlips \in Nat

VARIABLES
    markers,      \* disk: the transports with a manually-stopped flag file
    intent,       \* disk: settings.connection_intent
    enabled,      \* disk: settings.https_mcp.enabled
    auto,         \* disk: settings.auto_reconnect
    tunnel,       \* the tunnel runtime runs; it is a daemon of its own
    https,        \* the HTTPS supervisor runs; it dies with the process
    proc,         \* "down", "booting", "up", "quitting" or "exiting"
    desired,      \* AppState.desired_connected
    reconnecting, \* AppState.reconnecting
    running,      \* monitor_control.reconnect_running
    key,          \* session_runtime_key is set
    op,           \* the next step of the user operation that holds the mutex
    scope,        \* the transports that operation starts or stops
    marked,       \* of a stop: the transports whose marker was written
    halted,       \* of a stop: the transports that were stopped
    monitor,      \* the reconnect monitor: "idle", "looking", "trying", "verifying"
    wants,        \* its copy of desired
    retry,        \* its copy of auto
    checks,       \* its inactive_checks
    backoff,      \* next_reconnect_at is in the future
    remote,       \* the phone's reconnect: "idle", "checked", "queued", "verifying"
    stopped,      \* history: stopped by the user and not started since
    consent,      \* history: started by the user, with success, and not stopped since
    ops, crashes, slips

disk == <<markers, intent, enabled, auto>>
memory == <<desired, reconnecting, running, key>>
operation == <<op, scope, marked, halted>>
monitoring == <<monitor, wants, retry, checks, backoff>>
history == <<stopped, consent>>
bounds == <<ops, crashes, slips>>
vars == <<disk, tunnel, https, proc, memory, operation, monitoring, remote,
          history, bounds>>

Transports == {"tunnel", "https"}
StartSteps == {"mark", "markOther", "stopOld", "disable", "start", "save",
               "secret", "clear"}
StopSteps == {"stopMark", "stopHalt", "stopRecord"}
OtherSteps == {"rotate", "resume", "proxy", "restart", "rollback"}

TypeOK ==
    /\ markers \subseteq Transports
    /\ intent \in BOOLEAN /\ enabled \in BOOLEAN /\ auto \in BOOLEAN
    /\ tunnel \in BOOLEAN /\ https \in BOOLEAN
    /\ proc \in {"down", "booting", "up", "quitting", "exiting"}
    /\ desired \in BOOLEAN /\ reconnecting \in BOOLEAN
    /\ running \in BOOLEAN /\ key \in BOOLEAN
    /\ wants \in BOOLEAN /\ retry \in BOOLEAN /\ backoff \in BOOLEAN
    /\ op \in {"none"} \cup StartSteps \cup StopSteps \cup OtherSteps
    /\ scope \subseteq Transports
    /\ op \in StartSteps => scope \in {{"tunnel"}, {"https"}}
    /\ marked \subseteq Transports /\ halted \subseteq Transports
    /\ monitor \in {"idle", "looking", "trying", "verifying"}
    /\ checks \in 0..Limit
    /\ remote \in {"idle", "checked", "queued", "verifying"}
    /\ stopped \subseteq Transports /\ consent \subseteq Transports
    /\ ops \in 0..MaxOps /\ crashes \in 0..MaxCrashes /\ slips \in 0..MaxSlips

\* An upgrade from a version that allowed both modes finds both flags set and
\* perhaps a running tunnel; anything else grows from a fresh installation.
Init ==
    /\ markers = {}
    /\ intent = Legacy /\ enabled = Legacy
    /\ tunnel \in (IF Legacy THEN BOOLEAN ELSE {FALSE})
    /\ consent = (IF Legacy THEN Transports ELSE {})
    /\ auto = TRUE
    /\ https = FALSE /\ proc = "down"
    /\ desired = FALSE /\ reconnecting = FALSE /\ running = FALSE /\ key = FALSE
    /\ op = "none" /\ scope = {} /\ marked = {} /\ halted = {}
    /\ monitor = "idle" /\ wants = FALSE /\ retry = FALSE /\ checks = 0 /\ backoff = FALSE
    /\ remote = "idle"
    /\ stopped = {}
    /\ ops = 0 /\ crashes = 0 /\ slips = 0

-----------------------------------------------------------------------------
(* What several operations share                                            *)

May(fault) == fault \in Faults
Alive == proc \in {"up", "quitting", "exiting"}
MutexFree == op = "none"

\* The UI's commands and the tray run on the main thread, one at a time; the
\* password rotation has a thread of its own.
MainIdle == proc = "up" /\ op \in {"none", "rotate", "resume"}

\* load_settings: an unreadable file counts as the default settings.
Loaded == {[intent |-> intent, enabled |-> enabled, auto |-> auto]}
              \cup {s \in {[intent |-> FALSE, enabled |-> FALSE, auto |-> TRUE]} : May("read")}

\* runtime_status: an error is reported as a runtime that is not alive.
Status == {tunnel} \cup {b \in {FALSE} : May("status")}

\* restore_allowed, with an unreadable marker read as a stop.
RestoreAllowed(t) == {t \notin markers} \cup {b \in {FALSE} : May("marker")}

\* stop_runtime: with the tunnel down or stopped by it; or it fails.
StopRuntime(ok) ==
    \/ ok /\ tunnel' = FALSE
    \/ ~ok /\ May("stop") /\ tunnel /\ UNCHANGED tunnel

\* The runtime part of start_runtime_connection: stop the old runtime, connect
\* the new one.  If either fails the runtime may or may not be there.
StartRuntime(ok) ==
    \/ ok /\ tunnel' = TRUE
    \/ ~ok /\ May("start") /\ tunnel' \in BOOLEAN

\* ensure_runtime_start_intent, for a start that is not the user's own.
IntentHeld(s) == s.intent /\ desired

CancelIntent ==
    /\ desired' = FALSE /\ reconnecting' = FALSE /\ key' = FALSE
    /\ UNCHANGED running

\* The operation returns and releases the mutex.
Return == op' = "none" /\ scope' = {} /\ marked' = {} /\ halted' = {}
Goto(step) == op' = step /\ UNCHANGED <<scope, marked, halted>>

\* update_settings with the two connection flags, or its failure.
SaveFlags(ok, i, e) ==
    \/ ok /\ intent' = i /\ enabled' = e /\ UNCHANGED <<markers, auto>>
    \/ ~ok /\ May("save") /\ UNCHANGED disk

Begin(step, ts) ==
    /\ MutexFree /\ ops < MaxOps
    /\ op' = step /\ scope' = ts /\ marked' = {} /\ halted' = {}
    /\ ops' = ops + 1
    /\ UNCHANGED <<disk, tunnel, https, proc, memory, monitoring, remote,
                   history, crashes, slips>>

Rest == <<proc, monitoring, remote, bounds>>

-----------------------------------------------------------------------------
(* Starting a transport: connect_tunnel, start_https_mcp                    *)

BeginStart(t) == proc = "up" /\ Begin("mark", {t})

MarkTarget ==
    /\ op = "mark"
    /\ \/ markers' = markers \cup scope /\ Goto("markOther")
       \/ May("marker") /\ UNCHANGED markers /\ Return
    /\ UNCHANGED <<intent, enabled, auto, tunnel, https, memory, history, Rest>>

\* From here on neither mode may come back by itself.
MarkOther ==
    /\ op = "markOther"
    /\ \/ markers' = Transports /\ consent' = {} /\ Goto("stopOld")
       \/ May("marker") /\ UNCHANGED <<markers, consent>> /\ Return
    /\ UNCHANGED <<intent, enabled, auto, tunnel, https, memory, stopped, Rest>>

\* Bug: a tunnel that could not be stopped does not end the switch to HTTPS.
StopOldGoesOn ==
    /\ op = "stopOld"
    /\ https' = FALSE
    /\ IF "tunnel" \in scope
          THEN /\ stopped' = stopped \cup {"https"}
               /\ UNCHANGED <<tunnel, memory>>
          ELSE /\ CancelIntent
               /\ \E ok \in BOOLEAN :
                     /\ StopRuntime(ok)
                     /\ stopped' = stopped \cup (IF ok THEN Transports ELSE {"https"})
    /\ Goto("disable")
    /\ UNCHANGED <<disk, consent, Rest>>

\* HTTPS is stopped in both cases, the tunnel only to make way for HTTPS: a new
\* tunnel replaces the old one when it starts.
StopOld ==
    /\ op = "stopOld"
    /\ https' = FALSE
    /\ IF "tunnel" \in scope
          THEN /\ stopped' = stopped \cup {"https"}
               /\ Goto("disable")
               /\ UNCHANGED <<tunnel, memory>>
          ELSE /\ CancelIntent
               /\ \E ok \in BOOLEAN :
                     /\ StopRuntime(ok)
                     /\ stopped' = stopped \cup (IF ok THEN Transports ELSE {"https"})
                     /\ IF ok THEN Goto("disable") ELSE Return
    /\ UNCHANGED <<disk, consent, Rest>>

\* persist_disabled; connect_tunnel then forgets the old connection in memory.
Disable ==
    /\ op = "disable"
    /\ \E ok \in BOOLEAN :
          /\ SaveFlags(ok, FALSE, FALSE)
          /\ IF ok THEN Goto("start") ELSE Return
          /\ IF ok /\ "tunnel" \in scope
                THEN desired' = FALSE /\ reconnecting' = FALSE /\ key' = TRUE
                     /\ UNCHANGED running
                ELSE UNCHANGED memory
    /\ UNCHANGED <<tunnel, https, history, Rest>>

StartTunnel ==
    /\ op = "start" /\ "tunnel" \in scope
    /\ \E ok \in BOOLEAN :
          /\ StartRuntime(ok)
          /\ IF ok THEN /\ Goto("save")
                        /\ desired' = TRUE
                        /\ UNCHANGED <<reconnecting, running, key>>
                   ELSE Return /\ CancelIntent
    /\ stopped' = stopped \ {"tunnel"}
    /\ UNCHANGED <<disk, https, consent, Rest>>

\* start_inner: the supervisor's thread starts, or its settings are refused.
StartHttps ==
    /\ op = "start" /\ "https" \in scope
    /\ \/ https' = TRUE /\ stopped' = stopped \ {"https"} /\ Goto("save")
       \/ May("start") /\ UNCHANGED <<https, stopped>> /\ Return
    /\ UNCHANGED <<disk, tunnel, memory, consent, Rest>>

\* What a failed start undoes: a rollback that fails leaves the runtime.
Rollback == CancelIntent /\ \E ok \in BOOLEAN : StopRuntime(ok)

\* Bug: the marker is cleared before the settings are saved.
SaveTunnelAfterClear ==
    /\ op = "save" /\ "tunnel" \in scope
    /\ \E ok \in BOOLEAN :
          /\ \/ ok /\ intent' = TRUE /\ enabled' = FALSE
                /\ markers' = markers \ {"tunnel"} /\ UNCHANGED auto
             \/ ~ok /\ SaveFlags(FALSE, TRUE, FALSE)
          /\ IF ok THEN Goto("secret") /\ UNCHANGED <<memory, tunnel>>
                   ELSE Return /\ Rollback
    /\ UNCHANGED <<https, history, Rest>>

SaveTunnel ==
    /\ op = "save" /\ "tunnel" \in scope
    /\ \E ok \in BOOLEAN :
          /\ SaveFlags(ok, TRUE, FALSE)
          /\ IF ok THEN Goto("secret") /\ UNCHANGED <<memory, tunnel>>
                   ELSE Return /\ Rollback
    /\ UNCHANGED <<https, history, Rest>>

\* The runtime key; previous_settings was read after Disable, with no intent.
SaveSecret ==
    /\ op = "secret"
    /\ \/ Goto("clear") /\ UNCHANGED <<disk, memory, tunnel>>
       \/ /\ May("secret")
          /\ \E ok \in BOOLEAN : SaveFlags(ok, FALSE, enabled)
          /\ Return /\ Rollback
    /\ UNCHANGED <<https, history, Rest>>

ClearTunnel ==
    /\ op = "clear" /\ "tunnel" \in scope
    /\ \/ /\ markers' = markers \ {"tunnel"} /\ consent' = {"tunnel"}
          /\ Return
          /\ UNCHANGED <<intent, enabled, auto, memory, tunnel>>
       \/ /\ May("marker")
          /\ \E ok \in BOOLEAN : SaveFlags(ok, FALSE, enabled)
          /\ Return /\ Rollback
          /\ UNCHANGED consent
    /\ UNCHANGED <<https, stopped, Rest>>

SaveHttps ==
    /\ op = "save" /\ "https" \in scope
    /\ \E ok \in BOOLEAN :
          /\ SaveFlags(ok, FALSE, TRUE)
          /\ IF ok THEN Goto("clear") /\ UNCHANGED https
                   ELSE Return /\ https' = FALSE
    /\ UNCHANGED <<tunnel, memory, history, Rest>>

ClearHttps ==
    /\ op = "clear" /\ "https" \in scope
    /\ \/ /\ markers' = markers \ {"https"} /\ consent' = {"https"}
          /\ UNCHANGED <<intent, enabled, auto, https>>
       \/ /\ May("marker")
          /\ https' = FALSE
          /\ \E ok \in BOOLEAN : SaveFlags(ok, intent, FALSE)
          /\ UNCHANGED consent
    /\ Return
    /\ UNCHANGED <<tunnel, memory, stopped, Rest>>

Start ==
    \/ \E t \in Transports : BeginStart(t)
    \/ MarkTarget \/ MarkOther \/ StopOld \/ Disable
    \/ StartTunnel \/ SaveTunnel \/ SaveSecret \/ ClearTunnel
    \/ StartHttps \/ SaveHttps \/ ClearHttps

-----------------------------------------------------------------------------
(* Stopping: stop_requested of both transports, stop_all                    *)

\* Each stop goes on after a failure and reports it at the end.
BeginStop(ts) == proc = "up" /\ Begin("stopMark", ts)

StopMark ==
    /\ op = "stopMark"
    /\ marked' \in {ts \in SUBSET scope : ts = scope \/ May("marker")}
    /\ markers' = markers \cup marked'
    /\ op' = "stopHalt" /\ UNCHANGED <<scope, halted>>
    /\ UNCHANGED <<intent, enabled, auto, tunnel, https, memory, history, Rest>>

\* Bug: the runtime is stopped, the wish to be connected stays.
StopHaltKeepsIntent ==
    /\ op = "stopHalt"
    /\ https' = (https /\ "https" \notin scope)
    /\ \E ok \in BOOLEAN :
          /\ IF "tunnel" \in scope THEN StopRuntime(ok) ELSE ok /\ UNCHANGED tunnel
          /\ halted' = IF ok THEN scope ELSE scope \ {"tunnel"}
    /\ op' = "stopRecord" /\ UNCHANGED <<scope, marked>>
    /\ UNCHANGED <<disk, memory, history, Rest>>

StopHalt ==
    /\ op = "stopHalt"
    /\ https' = (https /\ "https" \notin scope)
    /\ IF "tunnel" \in scope
          THEN /\ CancelIntent
               /\ \E ok \in BOOLEAN :
                     /\ StopRuntime(ok)
                     /\ halted' = IF ok THEN scope ELSE scope \ {"tunnel"}
          ELSE halted' = scope /\ UNCHANGED <<memory, tunnel>>
    /\ op' = "stopRecord" /\ UNCHANGED <<scope, marked>>
    /\ UNCHANGED <<disk, history, Rest>>

\* One of the two records, marker or settings, is enough for the stop to last.
StopRecord ==
    /\ op = "stopRecord"
    /\ \E ok \in BOOLEAN :
          /\ SaveFlags(ok, intent /\ "tunnel" \notin scope,
                           enabled /\ "https" \notin scope)
          /\ LET lasting == IF ok THEN scope ELSE marked
             IN  /\ stopped' = stopped \cup (halted \cap lasting)
                 /\ consent' = consent \ lasting
    /\ Return
    /\ UNCHANGED <<tunnel, https, memory, Rest>>

Stop ==
    \/ \E ts \in SUBSET Transports \ {{}} : BeginStop(ts)
    \/ StopMark \/ StopHalt \/ StopRecord

-----------------------------------------------------------------------------
(* Password rotation, proxy change, the auto-reconnect switch               *)

BeginRotate == proc = "up" /\ Begin("rotate", {})

\* rotate_with_recovery: revoke, stop, and decide from what was read before
\* whether to start again.
Rotate ==
    /\ op = "rotate"
    /\ \/ \E s \in Loaded, allowed \in RestoreAllowed("https") :
             /\ https' = FALSE
             /\ IF s.enabled /\ allowed THEN Goto("resume") ELSE Return
       \/ May("revoke") /\ UNCHANGED https /\ Return
    /\ UNCHANGED <<disk, tunnel, memory, history, Rest>>

Resume ==
    /\ op = "resume"
    /\ https' \in {TRUE} \cup {b \in {FALSE} : May("start")}
    /\ Return
    /\ UNCHANGED <<disk, tunnel, memory, history, Rest>>

BeginProxy == proc = "up" /\ Begin("proxy", {})

\* set_network_settings up to the save: the tunnel is restarted if it is wanted
\* and the proxy is new; without a key, or if the save fails, nothing happens.
ProxySaved ==
    /\ op = "proxy"
    /\ Return \/ (desired /\ Goto("restart"))
    /\ UNCHANGED <<disk, tunnel, https, memory, history, Rest>>

\* The restart.  If it fails, or the relay client does not start, the old proxy
\* is saved again and, unless that fails, the tunnel is restarted once more.
ProxyRestart ==
    /\ op \in {"restart", "rollback"}
    /\ \E s \in Loaded, ok \in BOOLEAN :
          /\ IF IntentHeld(s) THEN StartRuntime(ok) ELSE ~ok /\ UNCHANGED tunnel
          /\ \/ (ok \/ op = "rollback" \/ May("save")) /\ Return
             \/ op = "restart" /\ (~ok \/ May("start")) /\ Goto("rollback")
    /\ UNCHANGED <<disk, https, memory, history, Rest>>

SetAutoReconnect(b) ==
    /\ MainIdle /\ ops < MaxOps
    /\ auto' = b
    /\ reconnecting' = (reconnecting /\ b)
    /\ ops' = ops + 1
    /\ UNCHANGED <<markers, intent, enabled, tunnel, https, proc, desired, running,
                   key, operation, monitoring, remote, history, crashes, slips>>

Settings ==
    \/ BeginRotate \/ Rotate \/ Resume
    \/ BeginProxy \/ ProxySaved \/ ProxyRestart
    \/ \E b \in BOOLEAN : SetAutoReconnect(b)

-----------------------------------------------------------------------------
(* The reconnect monitor's thread                                           *)

Elsewhere == <<proc, operation, remote, history, bounds>>

\* The top of the loop; HTTPS on disk ends the wish for a tunnel.
MonitorLoads ==
    /\ monitor = "idle" /\ proc = "up"
    /\ \E s \in Loaded :
          /\ desired' = (desired /\ ~s.enabled)
          /\ reconnecting' = (reconnecting /\ ~s.enabled)
          /\ retry' = s.auto
    /\ wants' = desired'
    /\ monitor' = "looking"
    /\ UNCHANGED <<disk, tunnel, https, running, key, checks, backoff, Elsewhere>>

\* inactive_checks after one more check.
Counted == IF checks < Limit THEN checks + 1 ELSE checks

\* The status arrives: nothing to do, or nothing to do yet.  A runtime that is
\* alive may still not be ready.
MonitorRests ==
    /\ monitor = "looking" /\ Alive
    /\ \/ /\ ~wants \/ tunnel \/ ~retry
          /\ reconnecting' = FALSE /\ checks' = 0 /\ backoff' = FALSE
       \/ /\ wants /\ retry /\ reconnecting
          /\ UNCHANGED <<reconnecting, checks, backoff>>
       \/ /\ wants /\ retry /\ ~reconnecting
          /\ backoff \/ \E n \in Thresholds : Counted < n
          /\ checks' = Counted
          /\ UNCHANGED <<reconnecting, backoff>>
    /\ monitor' = "idle"
    /\ UNCHANGED <<disk, tunnel, https, desired, running, key, wants, retry, Elsewhere>>

\* An attempt is due and nobody else is at it.
Due ==
    /\ monitor = "looking" /\ Alive
    /\ wants /\ retry /\ ~reconnecting /\ ~backoff
    /\ \E n \in Thresholds : Counted >= n

\* Bug: an attempt given up before it starts keeps its claim.
MonitorClaimsForever ==
    /\ Due
    /\ \E s \in Loaded :
          LET go == key /\ desired /\ s.auto
          IN  /\ reconnecting' = TRUE
              /\ monitor' = (IF go THEN "trying" ELSE "idle")
    /\ backoff' = ~key
    /\ checks' = Counted
    /\ UNCHANGED <<disk, tunnel, https, desired, running, key, wants, retry, Elsewhere>>

\* The monitor claims the attempt, then gives it up without a key, or if the
\* connection is no longer wanted.
MonitorClaims ==
    /\ Due
    /\ \E s \in Loaded :
          LET go == key /\ desired /\ s.auto
          IN  /\ reconnecting' = go
              /\ monitor' = (IF go THEN "trying" ELSE "idle")
    /\ backoff' = ~key
    /\ checks' = Counted
    /\ UNCHANGED <<disk, tunnel, https, desired, running, key, wants, retry, Elsewhere>>

\* Under the mutex the checks are made again, twice, on settings read again; the
\* last one ends the attempt without an error.
MonitorReconnects ==
    /\ monitor = "trying" /\ Alive /\ MutexFree
    /\ \E s \in Loaded, held \in Loaded, ok \in BOOLEAN :
          LET go == desired /\ proc = "up" /\ ~s.enabled /\ s.auto /\ IntentHeld(held)
          IN  /\ IF go /\ held.auto THEN StartRuntime(ok) ELSE UNCHANGED tunnel
              /\ IF go /\ (held.auto => ok)
                    THEN monitor' = "verifying" /\ UNCHANGED <<backoff, reconnecting>>
                    ELSE monitor' = "idle" /\ backoff' = TRUE /\ reconnecting' = FALSE
    /\ UNCHANGED <<disk, https, desired, running, key, wants, retry, checks, Elsewhere>>

\* wait_for_runtime_recovery, at most 15 seconds.
MonitorVerifies ==
    /\ monitor = "verifying" /\ Alive
    /\ \/ desired /\ tunnel /\ checks' = 0 /\ backoff' = FALSE
       \/ (\E s \in Loaded : backoff' = (desired /\ s.auto)) /\ UNCHANGED checks
    /\ reconnecting' = FALSE
    /\ monitor' = "idle"
    /\ UNCHANGED <<disk, tunnel, https, desired, running, key, wants, retry, Elsewhere>>

\* The delay before the next attempt is over.
BackoffEnds ==
    /\ backoff
    /\ backoff' = FALSE
    /\ UNCHANGED <<disk, tunnel, https, memory, monitor, wants, retry, checks, Elsewhere>>

Monitor ==
    \/ MonitorLoads \/ MonitorRests \/ MonitorClaims
    \/ MonitorReconnects \/ MonitorVerifies

-----------------------------------------------------------------------------
(* The phone's reconnect_tunnel                                             *)

Aside == <<disk, https, proc, operation, monitoring, history, bounds>>

\* The checks of trigger_tunnel_reconnect up to the swap.
RemoteChecks ==
    /\ remote = "idle" /\ Alive
    /\ \E s \in Loaded : ~s.enabled /\ IntentHeld(s)
    /\ ~running /\ ~reconnecting
    /\ remote' = "checked"
    /\ UNCHANGED <<tunnel, memory, Aside>>

RemoteSubmits ==
    /\ remote = "checked" /\ Alive
    /\ running' = TRUE /\ reconnecting' = TRUE
    /\ remote' = "queued"
    /\ UNCHANGED <<tunnel, desired, key, Aside>>

\* The spawned thread: it takes the mutex and checks again.
RemoteReconnects ==
    /\ remote = "queued" /\ Alive /\ MutexFree
    /\ \E s \in Loaded, held \in Loaded, ok \in BOOLEAN :
          IF proc = "up" /\ ~s.enabled /\ IntentHeld(s) /\ IntentHeld(held)
             THEN StartRuntime(ok)
             ELSE UNCHANGED tunnel
    /\ remote' = "verifying"
    /\ UNCHANGED <<memory, Aside>>

RemoteEnds ==
    /\ remote = "verifying" /\ Alive
    /\ running' = FALSE /\ reconnecting' = FALSE
    /\ remote' = "idle"
    /\ UNCHANGED <<tunnel, desired, key, Aside>>

Remote == RemoteChecks \/ RemoteSubmits \/ RemoteReconnects \/ RemoteEnds

-----------------------------------------------------------------------------
(* The life of the process                                                  *)

\* restore_persisted_connection_state, before any command or thread.  With both
\* flags set HTTPS wins; a runtime nobody wants is stopped.
BootTunnel ==
    /\ proc = "down"
    /\ proc' = "booting"
    /\ \E unreadable \in {b \in BOOLEAN : b => May("read")},
          allowed \in RestoreAllowed("tunnel"), seen \in Status :
          LET both == intent /\ enabled /\ ~unreadable
              wish == intent /\ ~enabled /\ allowed /\ ~unreadable
          IN  /\ desired' = wish
              /\ key' \in {b \in BOOLEAN : b => wish}
              /\ IF both
                    THEN /\ markers' \in {markers \cup {"tunnel"}} \cup {m \in {markers} : May("marker")}
                         /\ intent' \in {FALSE} \cup {i \in {TRUE} : May("save")}
                    ELSE UNCHANGED <<markers, intent>>
              /\ IF ~wish /\ seen
                    THEN \E ok \in BOOLEAN : StopRuntime(ok)
                    ELSE UNCHANGED tunnel
    /\ UNCHANGED <<enabled, auto, https, reconnecting, running, operation,
                   monitoring, remote, history, bounds>>

\* https_mcp::restore.
BootHttps ==
    /\ proc = "booting"
    /\ proc' = "up"
    /\ \E s \in Loaded, allowed \in RestoreAllowed("https"), seen \in Status :
          IF s.enabled /\ allowed /\ ~seen
             THEN https' \in {TRUE} \cup {b \in {FALSE} : May("start")}
             ELSE UNCHANGED https
    /\ UNCHANGED <<disk, tunnel, memory, operation, monitoring, remote, history,
                   bounds>>

\* The threads and everything in memory end with the process; the job object or
\* the watchdog ends the HTTPS children, the tunnel's daemon stays.
ProcessEnds ==
    /\ proc' = "down" /\ https' = FALSE
    /\ desired' = FALSE /\ reconnecting' = FALSE /\ running' = FALSE /\ key' = FALSE
    /\ Return
    /\ monitor' = "idle" /\ wants' = FALSE /\ retry' = FALSE /\ checks' = 0
    /\ backoff' = FALSE /\ remote' = "idle"

Crash ==
    /\ proc # "down" /\ crashes < MaxCrashes
    /\ crashes' = crashes + 1
    /\ ProcessEnds
    /\ UNCHANGED <<disk, tunnel, history, ops, slips>>

\* stop_on_exit, called by the tray's "quit" and again when the loop ends: the
\* transports stop, what is on disk stays.
Quit ==
    /\ MainIdle /\ ops < MaxOps
    /\ ops' = ops + 1
    /\ proc' = "quitting"
    /\ UNCHANGED <<disk, tunnel, https, memory, operation, monitoring, remote,
                   history, crashes, slips>>

QuitStops ==
    /\ proc = "quitting" /\ MutexFree
    /\ https' = FALSE
    /\ Rollback
    /\ proc' = "exiting"
    /\ UNCHANGED <<disk, operation, monitoring, remote, history, bounds>>

Exit ==
    /\ proc = "exiting" /\ MutexFree
    /\ \E ok \in BOOLEAN : StopRuntime(ok)
    /\ ProcessEnds
    /\ UNCHANGED <<disk, history, bounds>>

\* The tunnel's daemon dies.
RuntimeDies ==
    /\ tunnel /\ slips < MaxSlips
    /\ tunnel' = FALSE /\ slips' = slips + 1
    /\ UNCHANGED <<disk, https, proc, memory, operation, monitoring, remote,
                   history, ops, crashes>>

Process ==
    BootTunnel \/ BootHttps \/ Crash \/ Quit \/ QuitStops \/ Exit \/ RuntimeDies

Next == Start \/ Stop \/ Settings \/ Monitor \/ BackoffEnds \/ Remote \/ Process

Spec == Init /\ [][Next]_vars

\* The mutex is released, the threads run and their timers expire.  Not every
\* attempt to start a runtime fails.  Nothing is asked of the user, of the phone
\* or of the runtime once it runs.
Fairness ==
    /\ WF_vars(MarkTarget \/ MarkOther \/ StopOld \/ Disable \/ StartTunnel
                  \/ SaveTunnel \/ SaveSecret \/ ClearTunnel
                  \/ StartHttps \/ SaveHttps \/ ClearHttps)
    /\ WF_vars(StopMark \/ StopHalt \/ StopRecord)
    /\ WF_vars(Rotate \/ Resume \/ ProxySaved \/ ProxyRestart)
    /\ WF_vars(Monitor) /\ WF_vars(BackoffEnds)
    /\ WF_vars(RemoteSubmits \/ RemoteReconnects \/ RemoteEnds)
    /\ SF_vars((MonitorReconnects \/ RemoteReconnects) /\ tunnel')

FairSpec == Spec /\ Fairness

-----------------------------------------------------------------------------
(* Properties                                                               *)

\* A transport the user stopped, or replaced by the other one, stays down until
\* the user starts it: not the monitor, the phone, a password rotation, a proxy
\* change or a restart of ChatX brings it back, also if only one of marker and
\* settings could be written.
StopHolds ==
    /\ "tunnel" \in stopped => ~tunnel
    /\ "https" \in stopped => ~https

\* The two transports never run at the same time.
OneTransport == ~(tunnel /\ https)

\* ChatX starts a transport again by itself only if the user's last start of it
\* went through and was followed by no stop and no mode switch: a crash or a
\* failed write in the middle of a switch restores neither mode.
RestoreNeedsConsent ==
    [][/\ proc = "down" /\ proc' = "booting" /\ desired' => "tunnel" \in consent
       /\ proc = "booting" /\ https' => "https" \in consent]_vars

\* A tunnel that is wanted and has died is started again, unless the user
\* changes his mind or ChatX ends: no claim on the attempt is left behind by a
\* monitor, a phone or an operation that gave up.
AutoReconnects ==
    (proc = "up" /\ desired /\ auto /\ key /\ ~tunnel)
        ~> (tunnel \/ ~desired \/ ~auto \/ proc # "up")

=============================================================================
