--------------------------- MODULE DesktopPresence ---------------------------
(***************************************************************************)
(* How the relay tracks whether a desktop is connected                     *)
(* (relay-server/src/desktop_session.rs): every desktop websocket enters   *)
(* itself in two maps, online_desktops and desktop_channels, under two     *)
(* locks, tells the phones, and undoes all that when it ends.  Phones      *)
(* (device_session.rs) read the maps when they connect and are told of     *)
(* later changes.                                                          *)
(*                                                                         *)
(* A route in desktop_channels holds the sender of its session's channel.  *)
(* A phone keeps a clone of the route it looked up for as long as it is    *)
(* connected, and a pairing, control or revoke call for as long as it      *)
(* lasts, so the channel may outlive its entry in the map.                 *)
(*                                                                         *)
(* One desktop; its websockets overlap whenever it reconnects before the   *)
(* relay has noticed that the old connection is dead.                      *)
(***************************************************************************)
EXTENDS Integers

CONSTANTS
    Sessions,   \* websockets of the desktop
    Phones,     \* websockets of its phones
    None

ASSUME DesktopPresenceAssumption == None \notin Sessions

VARIABLES
    pc,         \* where each desktop_socket is
    online,     \* online_desktops: the session entered there
    channel,    \* desktop_channels: the session whose sender is entered
    phone,      \* where each device_socket is
    seen,       \* the route a phone looked up when it connected
    lent,       \* the routes that calls have clones of
    told        \* the last presence sent to each phone

presenceVars == <<pc, online, channel, phone, seen, lent, told>>
phoneVars == <<phone, seen, lent, told>>

SessionState == {"new", "hello", "entered", "routed", "acking", "loop", "stuck",
                 "leaving", "unroute", "announce", "gone"}
PhoneState == {"new", "looked", "connected", "gone"}

\* Some clone of the session's route is left outside the map.
Held(s) ==
    \/ s \in lent
    \/ \E p \in Phones : seen[p] = s /\ phone[p] \in {"looked", "connected"}

Goto(s, state) == pc' = [pc EXCEPT ![s] = state]

\* broadcast_desktop_presence: to every subscribed phone, in one order.
BroadcastPresence(value) ==
    /\ told' = [p \in Phones |-> IF phone[p] = "connected" THEN value ELSE told[p]]
    /\ UNCHANGED <<phone, seen, lent>>

-----------------------------------------------------------------------------
(* desktop_socket()                                                         *)

Hello(s) ==
    /\ pc[s] = "new"
    /\ Goto(s, "hello")
    /\ UNCHANGED <<online, channel, phoneVars>>

EnterOnline(s) ==
    /\ pc[s] = "hello"
    /\ online' = s
    /\ Goto(s, "entered")
    /\ UNCHANGED <<channel, phoneVars>>

EnterChannel(s) ==
    /\ pc[s] = "entered"
    /\ channel' = s
    /\ Goto(s, "routed")
    /\ UNCHANGED <<online, phoneVars>>

AnnounceOnline(s) ==
    /\ pc[s] = "routed"
    /\ BroadcastPresence(TRUE)
    /\ Goto(s, "acking")
    /\ UNCHANGED <<online, channel>>

Ack(s) ==
    /\ pc[s] = "acking"
    /\ Goto(s, "loop")
    /\ UNCHANGED <<online, channel, phoneVars>>

\* The peer is gone, the ack cannot be sent, or nothing came for 45 seconds.
ConnectionLost(s) ==
    /\ pc[s] \in {"acking", "loop", "stuck"}
    /\ Goto(s, "leaving")
    /\ UNCHANGED <<online, channel, phoneVars>>

\* The loop waits for ever in an arm of its select: in a send to a desktop that
\* keeps the connection and reads nothing, for none has a timeout, or for the
\* lock of control_connections while a phone's task holds it in such a send.
\* (A wait that ends is a slow step.)
SendStuck(s) ==
    /\ pc[s] = "loop"
    /\ Goto(s, "stuck")
    /\ UNCHANGED <<online, channel, phoneVars>>

\* Bug: a closed channel is treated like a lagging one, and the loop goes on.
RouteClosedIgnored(s) ==
    /\ pc[s] = "loop"
    /\ channel # s /\ ~Held(s)
    /\ UNCHANGED presenceVars

\* Another session's route replaced this one's in the map, and with the last
\* clone of it the sender is gone: desktop_receiver.recv() gives Closed.
RouteClosed(s) ==
    /\ pc[s] = "loop"
    /\ channel # s /\ ~Held(s)
    /\ Goto(s, "leaving")
    /\ UNCHANGED <<online, channel, phoneVars>>

-----------------------------------------------------------------------------
(* remove_online_if_current()                                               *)

\* Bug: the entry is left to whoever connects next.
LeaveOnlineEarly(s) ==
    /\ pc[s] = "leaving"
    /\ Goto(s, "gone")
    /\ UNCHANGED <<online, channel, phoneVars>>

LeaveOnline(s) ==
    /\ pc[s] = "leaving"
    /\ IF online = s
         THEN online' = None /\ Goto(s, "unroute")
         ELSE Goto(s, "gone") /\ UNCHANGED online
    /\ UNCHANGED <<channel, phoneVars>>

LeaveChannel(s) ==
    /\ pc[s] = "unroute"
    /\ channel' = IF channel = s THEN None ELSE channel
    /\ Goto(s, "announce")
    /\ UNCHANGED <<online, phoneVars>>

AnnounceOffline(s) ==
    /\ pc[s] = "announce"
    /\ BroadcastPresence(FALSE)
    /\ Goto(s, "gone")
    /\ UNCHANGED <<online, channel>>

-----------------------------------------------------------------------------
(* device_socket()                                                          *)

\* desktop_online and the capabilities come from one read of the route.
PhoneLooks(p) ==
    /\ phone[p] = "new"
    /\ phone' = [phone EXCEPT ![p] = "looked"]
    /\ seen' = [seen EXCEPT ![p] = channel]
    /\ UNCHANGED <<pc, online, channel, lent, told>>

\* The phone subscribes and is acknowledged with what was looked up.
PhoneSubscribes(p) ==
    /\ phone[p] = "looked"
    /\ phone' = [phone EXCEPT ![p] = "connected"]
    /\ told' = [told EXCEPT ![p] = (seen[p] # None)]
    /\ UNCHANGED <<pc, online, channel, seen, lent>>

PhoneLeaves(p) ==
    /\ phone[p] = "connected"
    /\ phone' = [phone EXCEPT ![p] = "gone"]
    /\ UNCHANGED <<pc, online, channel, seen, lent, told>>

-----------------------------------------------------------------------------
(* pairing_socket(), request_desktop_revoke() and the Control message of    *)
(* device_socket().                                                         *)

CallClones ==
    /\ channel # None
    /\ lent' = lent \cup {channel}
    /\ UNCHANGED <<pc, online, channel, phone, seen, told>>

\* The last call that has a clone of the route returns.
CallReturns(s) ==
    /\ s \in lent
    /\ lent' = lent \ {s}
    /\ UNCHANGED <<pc, online, channel, phone, seen, told>>

-----------------------------------------------------------------------------
PresenceInit ==
    /\ pc = [s \in Sessions |-> "new"]
    /\ online = None
    /\ channel = None
    /\ phone = [p \in Phones |-> "new"]
    /\ seen = [p \in Phones |-> None]
    /\ lent = {}
    /\ told = [p \in Phones |-> FALSE]

SessionNext(s) ==
    \/ Hello(s) \/ EnterOnline(s) \/ EnterChannel(s) \/ AnnounceOnline(s) \/ Ack(s)
    \/ ConnectionLost(s) \/ SendStuck(s) \/ RouteClosed(s)
    \/ LeaveOnline(s) \/ LeaveChannel(s) \/ AnnounceOffline(s)

PhoneNext(p) == PhoneLooks(p) \/ PhoneSubscribes(p) \/ PhoneLeaves(p)

PresenceNext ==
    \/ CallClones
    \/ \E s \in Sessions : SessionNext(s) \/ CallReturns(s)
    \/ \E p \in Phones : PhoneNext(p)

PresenceSpec == PresenceInit /\ [][PresenceNext]_presenceVars

\* The relay's own steps are taken, except that nothing makes a send end;
\* connections may live or die, and phones and calls stay as long as they like.
\* A closed channel is ready in every turn of the loop, and select picks a
\* ready arm at random.
ServerStep(s) ==
    \/ EnterOnline(s) \/ EnterChannel(s) \/ AnnounceOnline(s)
    \/ RouteClosed(s)
    \/ LeaveOnline(s) \/ LeaveChannel(s) \/ AnnounceOffline(s)

FairSpec == PresenceSpec /\ \A s \in Sessions : WF_presenceVars(ServerStep(s))

-----------------------------------------------------------------------------
(* Properties.                                                              *)

\* Every variable has its type.
PresenceTypeOK ==
    /\ pc \in [Sessions -> SessionState]
    /\ online \in Sessions \cup {None}
    /\ channel \in Sessions \cup {None}
    /\ phone \in [Phones -> PhoneState]
    /\ seen \in [Phones -> Sessions \cup {None}]
    /\ lent \in SUBSET Sessions
    /\ told \in [Phones -> BOOLEAN]

\* What /healthz and the phone's HTTP route report: a desktop entered in
\* online_desktops has a session that has entered it and has not left, in
\* every overlap of old and new connections.
OnlineIsLive ==
    online # None =>
        pc[online] \in {"entered", "routed", "acking", "loop", "stuck", "leaving"}

\* Of several overlapping sessions at most one survives, but not at once: a
\* session whose route was replaced ends by itself, without waiting for its
\* connection to die, when the last phone and the last call that looked the
\* route up are gone, unless it waits in a send to a desktop that does not read.
EvictedSessionLeaves ==
    \A s \in Sessions :
        pc[s] = "loop" /\ channel # s /\ ~Held(s) ~> pc[s] \in {"gone", "stuck"}
=============================================================================
