---------------------------- MODULE PairingRelay ----------------------------
(***************************************************************************)
(* Pairing a phone through the relay.  create_pairing of the desktop opens *)
(* a route at the relay, stores the one-time grant and shows a QR code;    *)
(* phones that scanned a code connect to its route, the relay forwards     *)
(* their request to the desktop and the answer back.  Routes, waiting      *)
(* connections and grants live in three places with a clock between them.  *)
(*                                                                         *)
(* create_pairing is a synchronous command, so a desktop makes one code at *)
(* a time.  The wait for a phone's request (7 s) and for the desktop's     *)
(* answer (PAIRING_TIMEOUT) may end at any moment of a clock period.       *)
(***************************************************************************)
EXTENDS Integers, Sequences, FiniteSets

CONSTANTS
    Desktops,     \* desktops whose pairings are followed
    Phones,       \* connections of phones to /v1/ws/pair
    MaxCodes,     \* bound: QR codes made in all
    Lifetime,     \* expiresAt of a code, 5 minutes
    MaxTime,      \* bound: the last clock period
    MaxRoutes,    \* MAX_PAIRING_ROUTES
    MaxSockets,   \* MAX_PAIRING_WS
    NoPairing

ASSUME PairingRelayAssumption ==
    /\ {MaxCodes, Lifetime, MaxTime, MaxRoutes, MaxSockets} \subseteq Nat
    /\ IsFiniteSet(Desktops)
    /\ NoPairing \notin Desktops \X (1..MaxCodes)

Codes == Desktops \X (1..MaxCodes)     \* a pairing id with its desktop

VARIABLES
    now,
    codes,      \* per desktop: codes made so far
    maker,      \* per desktop: where create_pairing is
    expires,    \* per code: expiresAt
    shown,      \* codes shown with a relay route to connect to
    offer,      \* per desktop: State.pairing
    routes,     \* keys of pairing_routes
    others,     \* how many more it has, of desktops that are not followed here
    phone,      \* per connection: where pairing_socket is
    code,       \* per connection: the code the phone scanned
    slots,      \* keys of pairing_connections
    online,     \* desktops with a relay session
    stale,      \* connections holding the sender of an ended session
    inbox,      \* per desktop: PairingRequests to it, in order
    handler,    \* per desktop: where handle_encrypted_monitor_pairing is
    serving,    \* per desktop: the connection it serves
    paired      \* codes that paired a phone

makeVars == <<codes, maker, expires, shown, others>>
phoneVars == <<phone, code, slots>>
deskVars == <<online, inbox, handler, serving>>
pairingVars == <<now, makeVars, offer, routes, phoneVars, stale, deskVars, paired>>

Active == {"upgraded", "checked", "pended", "waiting", "expired", "answered"}

PairingTypeOK ==
    /\ now \in 0..MaxTime
    /\ codes \in [Desktops -> 0..MaxCodes]
    /\ maker \in [Desktops -> {"idle", "opening", "opened", "direct"}]
    /\ expires \in [Codes -> 0..(MaxTime + Lifetime)]
    /\ shown \in SUBSET Codes
    /\ offer \in [Desktops -> Codes \cup {NoPairing}]
    /\ \A d \in Desktops : offer[d] \in ({d} \X (1..MaxCodes)) \cup {NoPairing}
    /\ routes \in SUBSET Codes /\ others \in 0..MaxRoutes
    /\ phone \in [Phones -> Active \cup {"idle", "done"}]
    /\ code \in [Phones -> Codes \cup {NoPairing}]
    /\ slots \in SUBSET Phones /\ stale \in SUBSET Phones
    /\ online \in SUBSET Desktops
    /\ inbox \in [Desktops -> Seq(Phones)]
    /\ handler \in [Desktops -> {"idle", "checked", "claimed", "paired", "ok", "error"}]
    /\ serving \in [Desktops -> Phones \cup {NoPairing}]
    /\ paired \in SUBSET Codes

PairingInit ==
    /\ now = 0
    /\ codes = [d \in Desktops |-> 0] /\ maker = [d \in Desktops |-> "idle"]
    /\ expires = [c \in Codes |-> 0]
    /\ shown = {} /\ offer = [d \in Desktops |-> NoPairing] /\ routes = {} /\ others = 0
    /\ phone = [k \in Phones |-> "idle"] /\ code = [k \in Phones |-> NoPairing]
    /\ slots = {} /\ stale = {} /\ online = Desktops
    /\ inbox = [d \in Desktops |-> <<>>]
    /\ handler = [d \in Desktops |-> "idle"] /\ serving = [d \in Desktops |-> NoPairing]
    /\ paired = {}

Tick ==
    /\ now < MaxTime /\ now' = now + 1
    /\ UNCHANGED <<makeVars, offer, routes, phoneVars, stale, deskVars, paired>>

-----------------------------------------------------------------------------
(* create_pairing                                                          *)

NewCode(d) == <<d, codes[d]>>

StartCode(d) ==
    /\ maker[d] = "idle" /\ Cardinality({c \in Codes : c[2] <= codes[c[1]]}) < MaxCodes
    /\ codes' = [codes EXCEPT ![d] = @ + 1]
    /\ expires' = [expires EXCEPT ![<<d, codes[d] + 1>>] = now + Lifetime]
    /\ maker' = [maker EXCEPT ![d] = "opening"]
    /\ UNCHANGED <<now, shown, others, offer, routes, phoneVars, stale, deskVars, paired>>

\* prepare_pairing_route_insert: what is left of the routes when desktop d opens another.
Pruned(d) == {c \in routes : expires[c] > now /\ c[1] # d}

Room(d) == others + Cardinality(Pruned(d)) < MaxRoutes

\* open_pairing_route at the relay.
OpenRoute(d) ==
    /\ maker[d] = "opening" /\ expires[NewCode(d)] > now /\ Room(d)
    /\ routes' = Pruned(d) \cup {NewCode(d)}
    /\ maker' = [maker EXCEPT ![d] = "opened"]
    /\ UNCHANGED <<now, codes, expires, shown, others, offer, phoneVars, stale, deskVars, paired>>

\* The relay was not reached, its answer was lost, or the table is full, which it finds after
\* the old routes are removed: the code is made with direct candidates only, or not at all.
OpenFails(d) ==
    /\ maker[d] = "opening"
    /\ \/ UNCHANGED routes
       \/ expires[NewCode(d)] > now /\ Room(d) /\ routes' = Pruned(d) \cup {NewCode(d)}
       \/ expires[NewCode(d)] > now /\ ~Room(d) /\ routes' = Pruned(d)
    /\ \E place \in {"direct", "idle"} : maker' = [maker EXCEPT ![d] = place]
    /\ UNCHANGED <<now, codes, expires, shown, others, offer, phoneVars, stale, deskVars, paired>>

\* Routes of other desktops come and go in what this one leaves free.
OtherRoutes ==
    /\ others' \in 0..(MaxRoutes - Cardinality(routes)) /\ others' # others
    /\ UNCHANGED <<now, codes, expires, maker, shown, offer, routes, phoneVars, stale, deskVars, paired>>

StoreGrant(d) ==
    /\ maker[d] \in {"opened", "direct"}
    /\ offer' = [offer EXCEPT ![d] = NewCode(d)]
    /\ shown' = IF maker[d] = "opened" THEN shown \cup {NewCode(d)} ELSE shown
    /\ maker' = [maker EXCEPT ![d] = "idle"]
    /\ UNCHANGED <<now, codes, expires, others, routes, phoneVars, stale, deskVars, paired>>

-----------------------------------------------------------------------------
(* pairing_ws and pairing_socket                                           *)

Move(k, place) == phone' = [phone EXCEPT ![k] = place]

\* The route is there; it is removed when it has expired, else the socket takes a permit.
PairingWs(k, c) ==
    /\ phone[k] = "idle" /\ c \in shown /\ c \in routes
    /\ IF now > expires[c]
         THEN routes' = routes \ {c} /\ UNCHANGED <<phone, code>>
         ELSE /\ Cardinality({j \in Phones : phone[j] \in Active}) < MaxSockets
              /\ Move(k, "upgraded") /\ code' = [code EXCEPT ![k] = c] /\ UNCHANGED routes
    /\ UNCHANGED <<now, makeVars, offer, slots, stale, deskVars, paired>>

Quit(k) == Move(k, "done")

\* Bug: the socket waits for the phone's request as long as the phone likes.
HelloWithoutLimit(k) == FALSE
\* No request in time, or one that does not parse or names another code.
NoHello(k) ==
    /\ phone[k] = "upgraded" /\ Quit(k)
    /\ UNCHANGED <<now, makeVars, offer, routes, code, slots, stale, deskVars, paired>>

Hello(k) ==
    /\ phone[k] = "upgraded"
    /\ IF code[k] \in routes /\ expires[code[k]] > now
         THEN Move(k, "checked") /\ UNCHANGED routes
         ELSE routes' = routes \ {code[k]} /\ Quit(k)
    /\ UNCHANGED <<now, makeVars, offer, code, slots, stale, deskVars, paired>>

\* The desktop's sender is cloned and the connection waits for an answer, or it is offline.
Pend(k) ==
    /\ phone[k] = "checked"
    /\ IF code[k][1] \in online
         THEN Move(k, "pended") /\ slots' = slots \cup {k}
         ELSE Quit(k) /\ UNCHANGED slots
    /\ UNCHANGED <<now, makeVars, offer, routes, code, stale, deskVars, paired>>

Send(k) ==
    /\ phone[k] = "pended"
    /\ IF k \in stale
         THEN slots' = slots \ {k} /\ Quit(k) /\ UNCHANGED inbox
         ELSE /\ inbox' = [inbox EXCEPT ![code[k][1]] = Append(@, k)]
              /\ Move(k, "waiting") /\ UNCHANGED slots
    /\ stale' = stale \ {k}
    /\ UNCHANGED <<now, makeVars, offer, routes, code, online, handler, serving, paired>>

PairingTimeout(k) ==
    /\ phone[k] = "waiting" /\ Move(k, "expired")
    /\ UNCHANGED <<now, makeVars, offer, routes, code, slots, stale, deskVars, paired>>

\* Bug: the phone had its chance, the route goes with it.
GiveUpAndClose(k) ==
    /\ phone[k] = "expired"
    /\ slots' = slots \ {k} /\ routes' = routes \ {code[k]} /\ Quit(k)
    /\ UNCHANGED <<now, makeVars, offer, code, stale, deskVars, paired>>
GiveUp(k) ==
    /\ phone[k] = "expired"
    /\ slots' = slots \ {k} /\ Quit(k)
    /\ UNCHANGED <<now, makeVars, offer, routes, code, stale, deskVars, paired>>

\* PairResult is sent to the phone, then the route is removed.
CloseRoute(k) ==
    /\ phone[k] = "answered"
    /\ routes' = routes \ {code[k]} /\ Quit(k)
    /\ UNCHANGED <<now, makeVars, offer, code, slots, stale, deskVars, paired>>

-----------------------------------------------------------------------------
(* The desktop: relay_session and handle_encrypted_monitor_pairing, and a  *)
(* phone on the local network.                                             *)

Handler(d, place) == handler' = [handler EXCEPT ![d] = place]
Valid(d, c) == offer[d] = c /\ now <= expires[c]
\* Looking at a grant that has expired removes it.
Look(d) == offer' = IF offer[d] # NoPairing /\ now > expires[offer[d]]
                      THEN [offer EXCEPT ![d] = NoPairing] ELSE offer

\* relay_session reads the request; its handler looks at the grant without taking it.
CheckGrant(d) ==
    /\ handler[d] = "idle" /\ d \in online /\ inbox[d] # <<>>
    /\ serving' = [serving EXCEPT ![d] = Head(inbox[d])]
    /\ inbox' = [inbox EXCEPT ![d] = Tail(@)]
    /\ Handler(d, IF Valid(d, code[Head(inbox[d])]) THEN "checked" ELSE "error")
    /\ Look(d)
    /\ UNCHANGED <<now, makeVars, routes, phoneVars, stale, online, paired>>

\* claim_pairing_grant: the grant may have been used or replaced since.
ClaimGrant(d) ==
    /\ handler[d] = "checked"
    /\ IF Valid(d, code[serving[d]])
         THEN Handler(d, "claimed") /\ offer' = [offer EXCEPT ![d] = NoPairing]
         ELSE Handler(d, "error") /\ Look(d)
    /\ UNCHANGED <<now, makeVars, routes, phoneVars, stale, online, inbox, serving, paired>>

\* complete_claimed_monitor_pairing, or its failure and restore_pairing_grant.
CompletePairing(d) ==
    /\ handler[d] = "claimed"
    /\ LET c == code[serving[d]] IN
         \/ paired' = paired \cup {c} /\ Handler(d, "paired") /\ UNCHANGED offer
         \/ /\ Handler(d, "error")
            /\ offer' = IF now <= expires[c] /\ offer[d] = NoPairing
                          THEN [offer EXCEPT ![d] = c] ELSE offer
            /\ UNCHANGED paired
    /\ UNCHANGED <<now, makeVars, routes, phoneVars, stale, online, inbox, serving>>

\* relay::delete_pairing_route, whose failure is ignored.
DeleteRoute(d) ==
    /\ handler[d] = "paired"
    /\ routes' = routes \ {code[serving[d]]} \/ UNCHANGED routes
    /\ Handler(d, "ok")
    /\ UNCHANGED <<now, makeVars, offer, phoneVars, stale, online, inbox, serving, paired>>

\* PairingResponse or PairingError reaches the relay, which finds the connection waiting or
\* gone; without a session the answer is lost.
Answer(d) ==
    /\ handler[d] \in {"ok", "error"}
    /\ LET k == serving[d] IN
         IF d \in online /\ k \in slots
           THEN /\ slots' = slots \ {k}
                /\ phone' = IF phone[k] # "waiting" THEN phone
                            ELSE [phone EXCEPT ![k] = IF handler[d] = "ok" THEN "answered" ELSE "done"]
           ELSE UNCHANGED <<slots, phone>>
    /\ Handler(d, "idle") /\ serving' = [serving EXCEPT ![d] = NoPairing]
    /\ UNCHANGED <<now, makeVars, offer, routes, code, stale, online, inbox, paired>>

\* handle_pair_socket: a phone on the local network pairs with the code while no other
\* pairing holds the devices lock; the route is deleted as above.
PairDirect(d) ==
    /\ offer[d] # NoPairing /\ Valid(d, offer[d]) /\ handler[d] # "claimed"
    /\ paired' = paired \cup {offer[d]}
    /\ offer' = [offer EXCEPT ![d] = NoPairing]
    /\ routes' = routes \ {offer[d]} \/ UNCHANGED routes
    /\ UNCHANGED <<now, makeVars, phoneVars, stale, deskVars>>

\* The session ends: requests on their way are lost and cloned senders have no receiver.
DesktopLeaves(d) ==
    /\ d \in online /\ online' = online \ {d}
    /\ inbox' = [inbox EXCEPT ![d] = <<>>]
    /\ stale' = stale \cup {k \in Phones : phone[k] = "pended" /\ code[k][1] = d}
    /\ UNCHANGED <<now, makeVars, offer, routes, phoneVars, handler, serving, paired>>

DesktopReturns(d) ==
    /\ d \notin online /\ handler[d] = "idle" /\ online' = online \cup {d}
    /\ UNCHANGED <<now, makeVars, offer, routes, phoneVars, stale, inbox, handler, serving, paired>>

-----------------------------------------------------------------------------
Socket(k) == NoHello(k) \/ Pend(k) \/ Send(k) \/ PairingTimeout(k) \/ GiveUp(k) \/ CloseRoute(k)

Desktop(d) ==
    \/ StartCode(d) \/ OpenRoute(d) \/ OpenFails(d) \/ StoreGrant(d)
    \/ CheckGrant(d) \/ ClaimGrant(d) \/ CompletePairing(d) \/ DeleteRoute(d) \/ Answer(d)
    \/ PairDirect(d) \/ DesktopLeaves(d) \/ DesktopReturns(d)

PairingNext ==
    \/ Tick \/ OtherRoutes
    \/ \E k \in Phones : Hello(k) \/ Socket(k) \/ \E c \in Codes : PairingWs(k, c)
    \/ \E d \in Desktops : Desktop(d)

\* The relay's task of a connection runs on: every wait in it has a timeout.  That the phone
\* sends its request (Hello) is not assumed.
PairingFairness == \A k \in Phones : WF_pairingVars(Socket(k))

PairingSpec == PairingInit /\ [][PairingNext]_pairingVars /\ PairingFairness

-----------------------------------------------------------------------------
\* A route that has not expired leaves the relay only because its code paired a phone or its
\* desktop asked for another: a phone that is late, gives up or fails can try again.
RouteOutlivesFailure ==
    [][\A c \in routes : (c \notin routes' /\ expires[c] > now)
          => c \in paired' \/ maker[c[1]] = "opening"]_pairingVars

\* Every pairing connection ends and gives back its permit and its key in pairing_connections,
\* whatever the phone and the desktop do.
PairingReleased == \A k \in Phones : (phone[k] \in Active) ~> (phone[k] = "done" /\ k \notin slots)
=============================================================================
