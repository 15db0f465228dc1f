--------------------------- MODULE DeviceLifecycle ---------------------------
(***************************************************************************)
(* The life of a paired phone across the desktop and the relay: pairing    *)
(* with a one-time grant, revocation from the desktop and revocation from  *)
(* the phone.  The desktop (src-tauri/src/monitor_manager.rs) and the      *)
(* relay (relay-server/src/main.rs, registry_routes.rs) each keep a list   *)
(* of devices, and no transaction spans the two.                           *)
(*                                                                         *)
(* A call to the relay is one step with three outcomes: it takes effect,   *)
(* it is refused, or it takes effect and its answer is lost.  Every pairing*)
(* draws a fresh device id.  The relay is configured and matches.          *)
(***************************************************************************)
EXTENDS Integers, FiniteSets

CONSTANTS
    Devices,        \* device ids, in the order chance hands them out
    Grants,         \* one-time pairing grants (QR codes)
    Pairers,        \* pairing requests, direct or through the relay
    Revokers,       \* revocations by the desktop user or over a direct socket
    PhoneRevokers,  \* revocations by the phone through the relay
    MaxDevices,     \* the limit of 32 paired devices
    Windows,        \* the #[cfg(windows)] build of save_monitor_devices
    Faults,         \* what may fail: "call", "answer", "save", "timeout", "crash"
    None

ASSUME DeviceLifecycleAssumption ==
    /\ None \notin Devices \cup Grants \cup Pairers \cup {"ok", "error"}
    /\ Revokers \cap PhoneRevokers = {}
    /\ IsFiniteSet(Devices)
    /\ MaxDevices \in Nat
    /\ Windows \in BOOLEAN
    /\ Faults \subseteq {"call", "answer", "save", "timeout", "crash"}

VARIABLES
    relay,          \* Registry.desktops[..].devices
    local,          \* State.devices
    disk,           \* monitor-devices.json
    lock,           \* who holds State.devices across a call to the relay
    grant,          \* State.pairing
    grants,         \* grants created so far
    pair,           \* where each pairing is
    claim,          \* the grant it claimed
    drawn,          \* the device id it drew
    revoke,         \* where each desktop revocation is
    ask,            \* where each phone revocation is
    target,         \* the device of each revocation
    mail,           \* device_revoke messages on their way to the desktop
    ack,            \* the desktop's answer to each phone revocation
    phones,         \* devices whose phone received its credentials
    revoked,        \* devices whose revocation was confirmed to somebody
    tried,          \* history: devices somebody tried to revoke
    faulted         \* history: something has failed

vars == <<relay, local, disk, lock, grant, grants, pair, claim, drawn, revoke,
          ask, target, mail, ack, phones, revoked, tried, faulted>>
pairVars == <<lock, grant, grants, pair, claim, drawn, phones>>
revokeVars == <<revoke, ask, target, mail, ack, revoked, tried>>
lists == <<relay, local, disk>>

Fails(fault) == fault \in Faults /\ faulted' = TRUE
Works == UNCHANGED faulted
At(pcs, a, state) == [pcs EXCEPT ![a] = state]

\* save_monitor_devices fails; on Windows the old file may be gone by then.
SaveFails ==
    /\ Fails("save")
    /\ disk' \in IF Windows THEN {disk, {}} ELSE {disk}

-----------------------------------------------------------------------------
(* create_pairing and complete_monitor_pairing                              *)

CreateGrant(g) ==
    /\ g \notin grants
    /\ grants' = grants \cup {g}
    /\ grant' = g
    /\ UNCHANGED <<lists, lock, pair, claim, drawn, phones, revokeVars, faulted>>

\* The QR code's five minutes are over; the next look clears it.
GrantExpires ==
    /\ grant # None
    /\ grant' = None
    /\ UNCHANGED <<lists, lock, grants, pair, claim, drawn, phones, revokeVars, faulted>>

\* Bug: the grant is copied, not taken.
ClaimByCopy(p) ==
    /\ pair[p] = "ready"
    /\ grant # None
    /\ claim' = At(claim, p, grant)
    /\ pair' = At(pair, p, "claimed")
    /\ UNCHANGED <<lists, lock, grant, grants, drawn, phones, revokeVars, faulted>>

\* claim_pairing_grant
Claim(p) ==
    /\ pair[p] = "ready"
    /\ grant # None
    /\ claim' = At(claim, p, grant)
    /\ grant' = None
    /\ pair' = At(pair, p, "claimed")
    /\ UNCHANGED <<lists, lock, grants, drawn, phones, revokeVars, faulted>>

\* complete_claimed_monitor_pairing takes the devices lock and keeps it.
PairLock(p) ==
    /\ pair[p] = "claimed"
    /\ lock = None
    /\ IF Cardinality(local) >= MaxDevices
         THEN /\ pair' = At(pair, p, "restore")
              /\ UNCHANGED <<lock, drawn>>
         ELSE /\ \E d \in Devices :
                     /\ \A q \in Pairers : drawn[q] # d
                     /\ drawn' = At(drawn, p, d)
              /\ lock' = p
              /\ pair' = At(pair, p, "authorize")
    /\ UNCHANGED <<lists, grant, grants, claim, phones, revokeVars, faulted>>

\* relay::authorize_device(..)?
PairAuthorize(p) ==
    /\ pair[p] = "authorize"
    /\ \/ /\ relay' = relay \cup {drawn[p]}
          /\ pair' = At(pair, p, "save")
          /\ Works
          /\ UNCHANGED lock
       \/ /\ \/ Fails("call") /\ UNCHANGED relay
             \/ Fails("answer") /\ relay' = relay \cup {drawn[p]}
          /\ pair' = At(pair, p, "restore")
          /\ lock' = None
    /\ UNCHANGED <<local, disk, grant, grants, claim, drawn, phones, revokeVars>>

\* Bug: the list is only kept in memory.
PairSaveInMemory(p) ==
    /\ pair[p] = "save"
    /\ local' = local \cup {drawn[p]}
    /\ pair' = At(pair, p, "answer")
    /\ UNCHANGED <<relay, disk, lock, grant, grants, claim, drawn, phones, revokeVars, faulted>>

PairSave(p) ==
    /\ pair[p] = "save"
    /\ \/ /\ local' = local \cup {drawn[p]}
          /\ disk' = local'
          /\ pair' = At(pair, p, "answer")
          /\ Works
       \/ /\ SaveFails
          /\ pair' = At(pair, p, "rollback")
          /\ UNCHANGED local
    /\ UNCHANGED <<relay, lock, grant, grants, claim, drawn, phones, revokeVars>>

\* The pairing was not saved: the relay's authorization is taken back.
PairRollback(p) ==
    /\ pair[p] = "rollback"
    /\ \/ relay' = relay \ {drawn[p]} /\ Works
       \/ Fails("call") /\ UNCHANGED relay
    /\ pair' = At(pair, p, "restore")
    /\ lock' = None
    /\ UNCHANGED <<local, disk, grant, grants, claim, drawn, phones, revokeVars>>

\* restore_pairing_grant: unless it expired or a newer one was created.
PairRestore(p) ==
    /\ pair[p] = "restore"
    /\ \/ grant = None /\ grant' = claim[p]
       \/ UNCHANGED grant
    /\ pair' = At(pair, p, "failed")
    /\ UNCHANGED <<lists, lock, grants, claim, drawn, phones, revokeVars, faulted>>

\* The credentials are sent to the phone, which may be gone.
PairAnswer(p) ==
    /\ pair[p] = "answer"
    /\ pair' = At(pair, p, "done")
    /\ lock' = None
    /\ \/ phones' = phones \cup {drawn[p]} /\ Works
       \/ Fails("answer") /\ UNCHANGED phones
    /\ UNCHANGED <<lists, grant, grants, claim, drawn, revokeVars>>

\* monitor_device_token_authorized: a phone connects directly and the list
\* is saved with its new last_seen_at; a failure is ignored.
TouchLastSeen ==
    /\ lock = None
    /\ local \cap phones # {}
    /\ \/ disk' = local /\ Works
       \/ SaveFails
    /\ UNCHANGED <<relay, local, pairVars, revokeVars>>

-----------------------------------------------------------------------------
(* revoke_monitor_device_everywhere                                         *)

\* Bug: the relay is not told.
RevokeAtRelaySkipped(r) ==
    /\ revoke[r] = "ready"
    /\ \E d \in local : target' = At(target, r, d) /\ tried' = tried \cup {d}
    /\ revoke' = At(revoke, r, "local")
    /\ UNCHANGED <<lists, pairVars, ask, mail, ack, revoked, faulted>>

\* First the relay; when that fails the local record is kept.
RevokeAtRelay(r) ==
    /\ revoke[r] = "ready"
    /\ \E d \in local :
           /\ target' = At(target, r, d)
           /\ tried' = tried \cup {d}
           /\ \/ /\ relay' = relay \ {d}
                 /\ revoke' = At(revoke, r, "local")
                 /\ Works
              \/ /\ \/ Fails("call") /\ UNCHANGED relay
                    \/ Fails("answer") /\ relay' = relay \ {d}
                 /\ revoke' = At(revoke, r, "failed")
    /\ UNCHANGED <<local, disk, pairVars, ask, mail, ack, revoked>>

\* Bug: the removal is not saved.
RevokeLocallyInMemory(r) ==
    /\ revoke[r] = "local"
    /\ lock = None
    /\ local' = local \ {target[r]}
    /\ revoke' = At(revoke, r, "done")
    /\ revoked' = revoked \cup {target[r]}
    /\ UNCHANGED <<relay, disk, pairVars, ask, target, mail, ack, tried, faulted>>

\* revoke_monitor_device_local
RevokeLocally(r) ==
    /\ revoke[r] = "local"
    /\ lock = None
    /\ IF target[r] \notin local
         THEN /\ revoke' = At(revoke, r, "absent")
              /\ Works
              /\ UNCHANGED <<local, disk, revoked>>
         ELSE \/ /\ local' = local \ {target[r]}
                 /\ disk' = local'
                 /\ revoke' = At(revoke, r, "done")
                 /\ revoked' = revoked \cup {target[r]}
                 /\ Works
              \/ /\ SaveFails
                 /\ revoke' = At(revoke, r, "compensate")
                 /\ UNCHANGED <<local, revoked>>
    /\ UNCHANGED <<relay, pairVars, ask, target, mail, ack, tried>>

\* The local removal failed: authorize the device at the relay again.
Compensate(r) ==
    /\ revoke[r] = "compensate"
    /\ \/ relay' = relay \cup {target[r]} /\ Works
       \/ Fails("call") /\ UNCHANGED relay
    /\ revoke' = At(revoke, r, "failed")
    /\ UNCHANGED <<local, disk, pairVars, ask, target, mail, ack, revoked, tried>>

-----------------------------------------------------------------------------
(* device_revoke_http and RevokeSelf: request_desktop_revoke, then          *)
(* finalize_device_revoke                                                   *)

AskDesktop(q) ==
    /\ ask[q] = "ready"
    /\ \E d \in relay \cap phones :
           /\ target' = At(target, q, d)
           /\ tried' = tried \cup {d}
    /\ mail' = mail \cup {q}
    /\ ask' = At(ask, q, "waiting")
    /\ UNCHANGED <<lists, pairVars, revoke, ack, revoked, faulted>>

\* The desktop's revoke handler, however late; a device that is not in the
\* list is answered like one that was removed.
DesktopRevokes(q) ==
    /\ q \in mail
    /\ lock = None
    /\ mail' = mail \ {q}
    /\ \/ /\ local' = local \ {target[q]}
          /\ disk' = IF target[q] \in local THEN local' ELSE disk
          /\ ack' = At(ack, q, "ok")
          /\ Works
       \/ /\ target[q] \in local
          /\ SaveFails
          /\ ack' = At(ack, q, "error")
          /\ UNCHANGED local
    /\ UNCHANGED <<relay, pairVars, revoke, ask, target, revoked, tried>>

\* The message or the answer is lost with the desktop's websocket.
MailLost(q) ==
    /\ q \in mail
    /\ Fails("answer")
    /\ mail' = mail \ {q}
    /\ UNCHANGED <<lists, pairVars, revoke, ask, target, ack, revoked, tried>>

TakeAck(q) ==
    /\ ask[q] = "waiting"
    /\ ack[q] # None
    /\ ask' = At(ask, q, IF ack[q] = "ok" THEN "finalize" ELSE "failed")
    /\ UNCHANGED <<lists, pairVars, revoke, target, mail, ack, revoked, tried, faulted>>

\* REVOKE_TIMEOUT, or the phone hangs up.
AskTimeout(q) ==
    /\ ask[q] = "waiting"
    /\ Fails("timeout")
    /\ ask' = At(ask, q, "failed")
    /\ UNCHANGED <<lists, pairVars, revoke, target, mail, ack, revoked, tried>>

\* finalize_device_revoke
Finalize(q) ==
    /\ ask[q] = "finalize"
    /\ \/ /\ relay' = relay \ {target[q]}
          /\ ask' = At(ask, q, "done")
          /\ revoked' = revoked \cup {target[q]}
          /\ Works
       \/ /\ Fails("call")
          /\ ask' = At(ask, q, "failed")
          /\ UNCHANGED <<relay, revoked>>
    /\ UNCHANGED <<local, disk, pairVars, revoke, target, mail, ack, tried>>

-----------------------------------------------------------------------------
\* The desktop dies and starts again: what it was doing is lost, and so are
\* the grant and its list in memory.
DesktopCrash ==
    /\ Fails("crash")
    /\ local' = disk
    /\ lock' = None
    /\ grant' = None
    /\ pair' = [p \in Pairers |->
                   IF pair[p] \in {"ready", "done", "failed"} THEN pair[p] ELSE "failed"]
    /\ revoke' = [r \in Revokers |->
                   IF revoke[r] \in {"local", "compensate"} THEN "failed" ELSE revoke[r]]
    /\ mail' = {}
    /\ UNCHANGED <<relay, disk, grants, claim, drawn, ask, target, ack, phones, revoked, tried>>

Init ==
    /\ relay = {} /\ local = {} /\ disk = {}
    /\ lock = None
    /\ grant = None /\ grants = {}
    /\ pair = [p \in Pairers |-> "ready"]
    /\ claim = [p \in Pairers |-> None]
    /\ drawn = [p \in Pairers |-> None]
    /\ revoke = [r \in Revokers |-> "ready"]
    /\ ask = [q \in PhoneRevokers |-> "ready"]
    /\ target = [a \in Revokers \cup PhoneRevokers |-> None]
    /\ mail = {}
    /\ ack = [q \in PhoneRevokers |-> None]
    /\ phones = {} /\ revoked = {} /\ tried = {}
    /\ faulted = FALSE

PairNext(p) ==
    \/ Claim(p) \/ PairLock(p) \/ PairAuthorize(p) \/ PairSave(p)
    \/ PairRollback(p) \/ PairRestore(p) \/ PairAnswer(p)

RevokeNext(r) == RevokeAtRelay(r) \/ RevokeLocally(r) \/ Compensate(r)

AskNext(q) ==
    \/ AskDesktop(q) \/ DesktopRevokes(q) \/ MailLost(q)
    \/ TakeAck(q) \/ AskTimeout(q) \/ Finalize(q)

Next ==
    \/ \E g \in Grants : CreateGrant(g)
    \/ GrantExpires
    \/ \E p \in Pairers : PairNext(p)
    \/ TouchLastSeen
    \/ \E r \in Revokers : RevokeNext(r)
    \/ \E q \in PhoneRevokers : AskNext(q)
    \/ DesktopCrash

Spec == Init /\ [][Next]_vars

-----------------------------------------------------------------------------
(* Properties.                                                              *)

\* Every variable has its type.
TypeOK ==
    /\ relay \subseteq Devices /\ local \subseteq Devices /\ disk \subseteq Devices
    /\ phones \subseteq Devices /\ revoked \subseteq Devices /\ tried \subseteq Devices
    /\ lock \in Pairers \cup {None}
    /\ grant \in Grants \cup {None} /\ grants \subseteq Grants
    /\ pair \in [Pairers -> {"ready", "claimed", "authorize", "save", "rollback",
                             "restore", "answer", "done", "failed"}]
    /\ claim \in [Pairers -> Grants \cup {None}]
    /\ drawn \in [Pairers -> Devices \cup {None}]
    /\ revoke \in [Revokers -> {"ready", "local", "compensate", "done", "absent", "failed"}]
    /\ ask \in [PhoneRevokers -> {"ready", "waiting", "finalize", "done", "failed"}]
    /\ target \in [Revokers \cup PhoneRevokers -> Devices \cup {None}]
    /\ mail \subseteq PhoneRevokers
    /\ ack \in [PhoneRevokers -> {None, "ok", "error"}]
    /\ faulted \in BOOLEAN

\* A device whose revocation was confirmed to the phone or to the user is out
\* of the desktop's list for good, in memory and on disk: no failed save, no
\* crash and no concurrent pairing or revocation brings it back.
RevocationHolds ==
    revoked \cap (local \cup disk) = {}

\* A phone that received its credentials and that nobody tried to revoke is
\* known to the relay and to the desktop, also after a crash.
PairedSurvives ==
    phones \ tried \subseteq relay \cap local \cap disk

\* One QR code pairs at most one phone, however many requests present it and
\* however often a failed pairing puts it back.
GrantPairsOnce ==
    \A p, q \in Pairers :
        p # q /\ {pair[p], pair[q]} \subseteq {"answer", "done"} => claim[p] # claim[q]

\* Concurrency alone never makes the two lists disagree: while nothing has
\* failed, whatever pairings and revocations overlapped, relay and desktop
\* agree as soon as none is in progress.
ListsAgreeAtRest ==
    /\ ~faulted
    /\ lock = None /\ mail = {}
    /\ \A r \in Revokers : revoke[r] \notin {"local", "compensate"}
    /\ \A q \in PhoneRevokers : ask[q] \notin {"waiting", "finalize"}
    => relay = local

=============================================================================
