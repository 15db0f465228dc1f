----------------------------- MODULE Registration -----------------------------
(***************************************************************************)
(* The relay's registration routes (relay-server/src/registry_routes.rs):  *)
(* desktops register with the bootstrap token or with a single-use         *)
(* registration code, authorize phones and revoke them, concurrently, with *)
(* saves that fail and a server that restarts.                             *)
(*                                                                         *)
(* A handler checks its caller before it takes the registry mutex, and the *)
(* clock moves on and other handlers run in between.  Saving is one step   *)
(* here: RegistryStore shows what the file operations add.  One desktop.   *)
(***************************************************************************)
EXTENDS Integers

CONSTANTS
    Handlers,       \* requests, each served once
    Codes,          \* the nonces of the signed registration codes
    ExpiresAt,      \* when each code expires
    Devices,        \* phones
    MaxLifetime,    \* MAX_INVITE_LIFETIME_MS
    MaxTime,        \* bound: how far the clock runs
    None            \* no code: the bootstrap token itself

ASSUME RegistrationAssumption ==
    /\ None \notin Codes
    /\ ExpiresAt \in [Codes -> Nat]
    /\ MaxLifetime \in Nat
    /\ MaxTime \in Nat

VARIABLES
    now,            \* now_ms()
    registry,       \* AppState.registry
    disk,           \* what a restart would load
    pc,             \* where each handler is
    op,             \* what each handler was asked to do
    granted,        \* history: the phones whose authorization stands
    liveUses,       \* history: registrations with a code before it expired
    uses            \* history: registrations with a code

vars == <<now, registry, disk, pc, op, granted, liveUses, uses>>
history == <<granted, liveUses, uses>>

Registry == [used : SUBSET Codes, token : Nat, devices : SUBSET Devices]
NoOp == [kind |-> "none"]
Op == {NoOp}
      \cup [kind : {"register"}, code : Codes \cup {None}]
      \cup [kind : {"authorize", "revoke"}, device : Devices]

Goto(h, state) == pc' = [pc EXCEPT ![h] = state]

-----------------------------------------------------------------------------
(* The checks before the lock.                                              *)

\* registration_invite: signed, not expired, and not dated too far ahead.
ValidNow(code) ==
    \/ code = None
    \/ /\ now < ExpiresAt[code]
       /\ ExpiresAt[code] <= now + MaxLifetime

CheckRegister(h) ==
    /\ pc[h] = "ready"
    /\ \E code \in Codes \cup {None} :
           /\ op' = [op EXCEPT ![h] = [kind |-> "register", code |-> code]]
           /\ Goto(h, IF ValidNow(code) THEN "checked" ELSE "refused")
    /\ UNCHANGED <<now, registry, disk, history>>

\* desktop_authorized: the caller holds the desktop's credential.
CheckDesktop(h) ==
    /\ pc[h] = "ready"
    /\ registry.token > 0
    /\ \E kind \in {"authorize", "revoke"}, d \in Devices :
           op' = [op EXCEPT ![h] = [kind |-> kind, device |-> d]]
    /\ Goto(h, "checked")
    /\ UNCHANGED <<now, registry, disk, history>>

-----------------------------------------------------------------------------
(* The sections under the registry mutex.                                   *)

\* Bug: the failed registration keeps the code it used.
SaveKeepingCodes(h, new) ==
    \/ /\ registry' = new
       /\ disk' = new
       /\ Goto(h, "accepted")
    \/ /\ registry' = [registry EXCEPT !.used = new.used]
       /\ disk' = disk
       /\ Goto(h, "failed")

\* save_registry, and the handler's rollback when it fails.
Save(h, new) ==
    \/ /\ registry' = new
       /\ disk' = new
       /\ Goto(h, "accepted")
    \/ /\ Goto(h, "failed")
       /\ UNCHANGED <<registry, disk>>

\* Bug: a code is not remembered.
AfterUseForgetful(code) == {c \in registry.used : ExpiresAt[c] > now}

\* Entries of expired codes are dropped, the code's own is added.
AfterUse(code) ==
    IF code = None THEN registry.used
    ELSE {c \in registry.used : ExpiresAt[c] > now} \cup {code}

\* Bug: a registration starts from an empty record.
ReplacementAfresh(code) ==
    [used |-> AfterUse(code), token |-> registry.token + 1, devices |-> {}]

\* desktop_registration_record: a new credential, the same phones.
Replacement(code) ==
    [used |-> AfterUse(code), token |-> registry.token + 1, devices |-> registry.devices]

CommitRegister(h) ==
    /\ pc[h] = "checked"
    /\ op[h].kind = "register"
    /\ LET code == op[h].code IN
         IF code \in registry.used
           THEN /\ Goto(h, "refused")
                /\ UNCHANGED <<registry, disk, liveUses, uses>>
           ELSE /\ Save(h, Replacement(code))
                /\ IF pc'[h] = "accepted" /\ code # None
                     THEN /\ uses' = [uses EXCEPT ![code] = @ + 1]
                          /\ liveUses' = IF now < ExpiresAt[code]
                               THEN [liveUses EXCEPT ![code] = @ + 1] ELSE liveUses
                     ELSE UNCHANGED <<liveUses, uses>>
    /\ UNCHANGED <<now, op, granted>>

CommitAuthorize(h) ==
    /\ pc[h] = "checked"
    /\ op[h].kind = "authorize"
    /\ LET devices == registry.devices \cup {op[h].device} IN
         /\ Save(h, [registry EXCEPT !.devices = devices])
         /\ granted' = IF pc'[h] = "accepted" THEN granted \cup {op[h].device} ELSE granted
    /\ UNCHANGED <<now, op, liveUses, uses>>

CommitRevoke(h) ==
    /\ pc[h] = "checked"
    /\ op[h].kind = "revoke"
    /\ LET devices == registry.devices \ {op[h].device} IN
         /\ Save(h, [registry EXCEPT !.devices = devices])
         /\ granted' = IF pc'[h] = "accepted" THEN granted \ {op[h].device} ELSE granted
    /\ UNCHANGED <<now, op, liveUses, uses>>

-----------------------------------------------------------------------------
(* The environment.                                                         *)

Tick ==
    /\ now < MaxTime
    /\ now' = now + 1
    /\ UNCHANGED <<registry, disk, pc, op, history>>

\* The server restarts: requests in progress are lost, the registry is what
\* the last successful save wrote.
Restart ==
    /\ registry' = disk
    /\ pc' = [h \in Handlers |-> IF pc[h] = "checked" THEN "failed" ELSE pc[h]]
    /\ UNCHANGED <<now, disk, op, history>>

Init ==
    /\ now = 0
    /\ registry = [used |-> {}, token |-> 0, devices |-> {}]
    /\ disk = registry
    /\ pc = [h \in Handlers |-> "ready"]
    /\ op = [h \in Handlers |-> NoOp]
    /\ granted = {}
    /\ liveUses = [c \in Codes |-> 0]
    /\ uses = [c \in Codes |-> 0]

HandlerNext(h) ==
    \/ CheckRegister(h)
    \/ CheckDesktop(h)
    \/ CommitRegister(h)
    \/ CommitAuthorize(h)
    \/ CommitRevoke(h)

Next ==
    \/ \E h \in Handlers : HandlerNext(h)
    \/ Tick
    \/ Restart

Spec == Init /\ [][Next]_vars

-----------------------------------------------------------------------------
(* Properties.                                                              *)

\* Every variable has its type.
TypeOK ==
    /\ now \in Nat
    /\ registry \in Registry
    /\ disk \in Registry
    /\ pc \in [Handlers -> {"ready", "checked", "accepted", "refused", "failed"}]
    /\ op \in [Handlers -> Op]
    /\ granted \in SUBSET Devices
    /\ liveUses \in [Codes -> Nat]
    /\ uses \in [Codes -> Nat]

\* A code that has not expired registers at most one desktop, however many
\* requests present it at once and whenever the server restarts.
CodeUsedOnce ==
    \A c \in Codes : liveUses[c] <= 1

\* A registration that could not be saved does not consume its code.
FailureKeepsCode ==
    \A c \in registry.used : uses[c] > 0

\* A phone is authorized exactly when its last acknowledged authorize or
\* revoke says so: neither a credential rotation nor a failed save nor a
\* restart adds or loses one.
DevicesAsGranted ==
    registry.devices = granted

=============================================================================
