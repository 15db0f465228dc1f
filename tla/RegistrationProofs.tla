-------------------------- MODULE RegistrationProofs --------------------------
(***************************************************************************)
(* What the registration routes guarantee for any number of requests,      *)
(* codes and phones and any clock: a live code registers one desktop, a    *)
(* failed registration does not consume its code, and the phones of a      *)
(* desktop are the ones it authorized.                                     *)
(***************************************************************************)
EXTENDS Registration, TLAPS

\* The handlers save before they release the registry mutex and roll back
\* when that fails, so a restart loads what was in memory.
DiskCurrent == disk = registry

\* While a code that was used is live it is remembered: this is what makes
\* CodeUsedOnce inductive, and what pruning must not break.
LiveUseRemembered ==
    \A c \in Codes : liveUses[c] > 0 /\ now < ExpiresAt[c] => c \in registry.used

IndInv ==
    /\ TypeOK
    /\ DiskCurrent
    /\ LiveUseRemembered
    /\ CodeUsedOnce
    /\ FailureKeepsCode
    /\ DevicesAsGranted

-----------------------------------------------------------------------------
\* A code's use is added and only entries of expired codes are dropped.
LEMMA AfterUseKeepsLive ==
    ASSUME TypeOK, NEW code \in Codes \cup {None}
    PROVE  /\ AfterUse(code) \in SUBSET Codes
           /\ code # None => code \in AfterUse(code)
           /\ \A c \in registry.used : ExpiresAt[c] > now => c \in AfterUse(code)
           /\ AfterUse(code) \subseteq registry.used \cup ({code} \ {None})
BY RegistrationAssumption DEF AfterUse, TypeOK, Registry

\* What a handler in the middle of a registration was asked for.
LEMMA RegisterOp ==
    ASSUME TypeOK, NEW h \in Handlers, op[h].kind = "register"
    PROVE  op[h].code \in Codes \cup {None}
BY DEF TypeOK, Op, NoOp

\* A saved registration keeps every part of the invariant, a failed one
\* changes nothing.
LEMMA RegisterStep ==
    ASSUME IndInv, NEW h \in Handlers, CommitRegister(h)
    PROVE  IndInv'
<1> DEFINE code == op[h].code
<1> USE RegistrationAssumption
<1>1. code \in Codes \cup {None}
  BY RegisterOp DEF IndInv, CommitRegister
<1>2. CASE code \in registry.used
  BY <1>2 DEF CommitRegister, Goto, IndInv, TypeOK, DiskCurrent, LiveUseRemembered,
              CodeUsedOnce, FailureKeepsCode, DevicesAsGranted
<1>3. CASE code \notin registry.used /\ UNCHANGED <<registry, disk, liveUses, uses>>
  BY <1>3 DEF CommitRegister, Save, Goto, IndInv, TypeOK, DiskCurrent, LiveUseRemembered,
              CodeUsedOnce, FailureKeepsCode, DevicesAsGranted
<1>4. CASE /\ code \notin registry.used
           /\ registry' = Replacement(code)
           /\ disk' = Replacement(code)
           /\ pc' = [pc EXCEPT ![h] = "accepted"]
  <2>1. /\ registry' = [used |-> AfterUse(code), token |-> registry.token + 1,
                        devices |-> registry.devices]
        /\ disk' = registry'
        /\ UNCHANGED <<now, op, granted>>
    BY <1>4 DEF Replacement, CommitRegister
  <2>2. pc'[h] = "accepted"
    BY <1>4 DEF IndInv, TypeOK
  <2>3. IF code # None
          THEN /\ uses' = [uses EXCEPT ![code] = @ + 1]
               /\ liveUses' = IF now < ExpiresAt[code]
                    THEN [liveUses EXCEPT ![code] = @ + 1] ELSE liveUses
          ELSE UNCHANGED <<liveUses, uses>>
    BY <1>4, <2>2 DEF CommitRegister
  <2>4. /\ AfterUse(code) \in SUBSET Codes
        /\ code # None => code \in AfterUse(code)
        /\ \A c \in registry.used : ExpiresAt[c] > now => c \in AfterUse(code)
        /\ AfterUse(code) \subseteq registry.used \cup ({code} \ {None})
    BY <1>1, AfterUseKeepsLive DEF IndInv
  <2>5. TypeOK'
    BY <1>1, <1>4, <2>1, <2>3, <2>4 DEF IndInv, TypeOK, Registry
  <2>6. LiveUseRemembered' /\ CodeUsedOnce'
    BY <1>1, <1>4, <2>1, <2>3, <2>4 DEF IndInv, TypeOK, LiveUseRemembered, CodeUsedOnce
  <2>7. FailureKeepsCode'
    BY <1>1, <2>1, <2>3, <2>4 DEF IndInv, TypeOK, Registry, FailureKeepsCode
  <2>q. QED
    BY <2>1, <2>5, <2>6, <2>7 DEF IndInv, DiskCurrent, DevicesAsGranted
<1>q. QED
  BY <1>2, <1>3, <1>4 DEF CommitRegister, Save, Goto, IndInv, TypeOK

\* Authorizing and revoking touch only the phones, saved or rolled back.
LEMMA DeviceStep ==
    ASSUME IndInv, NEW h \in Handlers, CommitAuthorize(h) \/ CommitRevoke(h)
    PROVE  IndInv'
<1>1. op[h].device \in Devices
  BY DEF IndInv, TypeOK, Op, NoOp, CommitAuthorize, CommitRevoke
<1>2. PICK devices \in SUBSET Devices :
         \/ /\ registry' = [registry EXCEPT !.devices = devices]
            /\ disk' = registry'
            /\ granted' = devices
         \/ UNCHANGED <<registry, disk, granted>>
  BY <1>1 DEF IndInv, TypeOK, Registry, DevicesAsGranted, CommitAuthorize, CommitRevoke, Save, Goto
<1>3. /\ pc' \in [Handlers -> {"ready", "checked", "accepted", "refused", "failed"}]
      /\ UNCHANGED <<now, op, liveUses, uses>>
  BY DEF IndInv, TypeOK, CommitAuthorize, CommitRevoke, Save, Goto
<1>q. QED
  BY <1>2, <1>3 DEF IndInv, TypeOK, Registry, DiskCurrent, LiveUseRemembered, CodeUsedOnce,
                    FailureKeepsCode, DevicesAsGranted

-----------------------------------------------------------------------------
\* The inductive invariant holds initially and in every reachable state.
THEOREM Invariance == Spec => []IndInv
<1> USE RegistrationAssumption
<1>1. Init => IndInv
  BY DEF Init, IndInv, TypeOK, Registry, Op, DiskCurrent, LiveUseRemembered, CodeUsedOnce,
         FailureKeepsCode, DevicesAsGranted
<1>2. IndInv /\ [Next]_vars => IndInv'
  <2> SUFFICES ASSUME IndInv, [Next]_vars PROVE IndInv'
    OBVIOUS
  <2> USE DEF IndInv, TypeOK, DiskCurrent, LiveUseRemembered, CodeUsedOnce,
              FailureKeepsCode, DevicesAsGranted
  <2>1. ASSUME NEW h \in Handlers, CheckRegister(h) PROVE IndInv'
    BY <2>1 DEF CheckRegister, Goto, Op, history
  <2>2. ASSUME NEW h \in Handlers, CheckDesktop(h) PROVE IndInv'
    BY <2>2 DEF CheckDesktop, Goto, Op, history
  <2>3. ASSUME NEW h \in Handlers, CommitRegister(h) PROVE IndInv'
    BY <2>3, RegisterStep
  <2>4. ASSUME NEW h \in Handlers, CommitAuthorize(h) \/ CommitRevoke(h) PROVE IndInv'
    BY <2>4, DeviceStep
  <2>5. CASE Tick
    BY <2>5 DEF Tick, history
  <2>6. CASE Restart
    BY <2>6 DEF Restart, history
  <2>7. CASE UNCHANGED vars
    BY <2>7 DEF vars
  <2>q. QED
    BY <2>1, <2>2, <2>3, <2>4, <2>5, <2>6, <2>7 DEF Next, HandlerNext
<1>q. QED
  BY <1>1, <1>2, PTL DEF Spec

\* Every variable keeps its type.
THEOREM TypeCorrect == Spec => []TypeOK
BY Invariance, PTL DEF IndInv

\* A live code registers at most one desktop, for any number of concurrent
\* requests, failed saves and restarts.
THEOREM LiveCodeOnce == Spec => []CodeUsedOnce
BY Invariance, PTL DEF IndInv

\* A registration that could not be saved does not consume its code.
THEOREM FailedRegistrationFree == Spec => []FailureKeepsCode
BY Invariance, PTL DEF IndInv

\* The phones the relay accepts are the ones whose authorization stands.
THEOREM DevicesExact == Spec => []DevicesAsGranted
BY Invariance, PTL DEF IndInv
=============================================================================
