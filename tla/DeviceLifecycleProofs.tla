------------------------ MODULE DeviceLifecycleProofs ------------------------
(***************************************************************************)
(* Pairing and revocation for any number of devices, grants, pairings and  *)
(* revocations, whatever fails and whenever the desktop crashes: a         *)
(* confirmed revocation holds, a paired phone is not forgotten (on a       *)
(* build whose saves are atomic), one QR code pairs one phone, and while   *)
(* nothing fails relay and desktop agree once everything has settled.      *)
(* The last part is about PairingRelay, which shares no state with it: a   *)
(* failed attempt to pair never costs a code its route at the relay.       *)
(***************************************************************************)
EXTENDS DeviceLifecycle, PairingRelay, FiniteSetTheorems, TLAPS

\* What a crash would load is the list in memory; a failed save on Windows
\* can only lose entries.
FileCurrent ==
    /\ disk \subseteq local
    /\ ~Windows => disk = local

\* Every device anybody knows of was drawn by one pairing, and the id of a
\* pairing that is not saved yet is unknown to phones and revocations.
DrawnFresh ==
    /\ \A p, q \in Pairers : p # q /\ drawn[p] = drawn[q] => drawn[p] = None
    /\ \A d \in local \cup phones \cup tried : \E p \in Pairers : drawn[p] = d
    /\ \A p \in Pairers :
           /\ pair[p] \in {"ready", "claimed"} => drawn[p] = None
           /\ pair[p] \in {"authorize", "save", "rollback", "answer"} => drawn[p] \in Devices
           /\ pair[p] \in {"authorize", "save", "rollback"} =>
                  drawn[p] \notin local \cup phones \cup tried

\* A revocation in progress aims at a tried device, and the desktop's "ok"
\* means that the device has left its list.
TargetsTried ==
    /\ \A r \in Revokers : revoke[r] \in {"local", "compensate"} => target[r] \in tried
    /\ \A q \in PhoneRevokers :
           /\ ask[q] = "ready" => q \notin mail /\ ack[q] # "ok"
           /\ q \in mail \/ ask[q] \in {"waiting", "finalize"} => target[q] \in tried
           /\ ask[q] = "finalize" => ack[q] = "ok"
           /\ ack[q] = "ok" => target[q] \in tried \ local
    /\ revoked \subseteq tried \ local

\* From its authorization on a device stays at the relay, and from its save
\* on in the desktop's list, until somebody tries to revoke it.
PairedStays ==
    /\ \A p \in Pairers :
           /\ pair[p] = "save" => drawn[p] \in relay
           /\ pair[p] = "answer" => drawn[p] \in tried \cup (relay \cap local)
    /\ phones \ tried \subseteq relay \cap local

\* A grant is in the slot or with one pairing, never both.
GrantInOnePlace ==
    LET Holders == {p \in Pairers : pair[p] \notin {"ready", "failed"}} IN
    /\ grant # None => grant \in grants
    /\ \A p \in Holders : claim[p] \in grants \ {grant, None}
    /\ \A p, q \in Holders : p # q => claim[p] # claim[q]

\* A pairing holds the devices lock from the moment it draws a device id.
LockHeld ==
    \A p \in Pairers :
        pair[p] \in {"authorize", "save", "rollback", "answer"} => lock = p

\* While nothing has failed nothing is compensated or refused, and a device
\* that only one side knows is the business of an operation in progress: a
\* revocation that has reached the relay and not the list, a pairing that
\* has reached the relay and not the list, or a phone's revocation that has
\* reached the list and not the relay.
Settling ==
    /\ \A r \in Revokers :
           /\ revoke[r] # "compensate"
           /\ revoke[r] = "local" => target[r] \notin relay
    /\ \A q \in PhoneRevokers :
           /\ q \in mail => ask[q] = "waiting" /\ ack[q] = None
           /\ ack[q] # "error"
    /\ \A p \in Pairers :
           /\ pair[p] = "save" => drawn[p] \in relay
           /\ pair[p] # "rollback"
    /\ \A d \in local \ relay : \E r \in Revokers : revoke[r] = "local" /\ target[r] = d
    /\ \A d \in relay \ local :
           \/ \E p \in Pairers : pair[p] = "save" /\ drawn[p] = d
           \/ \E q \in PhoneRevokers : ask[q] \in {"waiting", "finalize"} /\ target[q] = d

IndInv ==
    /\ TypeOK
    /\ FileCurrent
    /\ DrawnFresh
    /\ TargetsTried
    /\ (~Windows => PairedStays)
    /\ GrantInOnePlace
    /\ LockHeld
    /\ (~faulted => Settling)
-----------------------------------------------------------------------------
\* The types are kept.
LEMMA TypeStep ==
    ASSUME TypeOK, DrawnFresh, TargetsTried, [Next]_vars
    PROVE  TypeOK'
<1> USE DeviceLifecycleAssumption DEF TypeOK, lists, pairVars, revokeVars
<1>1. ASSUME NEW g \in Grants, CreateGrant(g) PROVE TypeOK'
  BY <1>1 DEF CreateGrant
<1>2. ASSUME NEW p \in Pairers, Claim(p) PROVE TypeOK'
  BY <1>2 DEF Claim, At
<1>3. ASSUME NEW p \in Pairers, PairLock(p) PROVE TypeOK'
  BY <1>3 DEF PairLock, At
<1>4. ASSUME NEW p \in Pairers, PairAuthorize(p) PROVE TypeOK'
  <2>1. drawn[p] \in Devices
    BY <1>4 DEF PairAuthorize, At, Works, Fails, DrawnFresh
  <2>q. QED BY <1>4, <2>1 DEF PairAuthorize, At, Works, Fails
<1>5. ASSUME NEW p \in Pairers, PairSave(p) PROVE TypeOK'
  <2>1. drawn[p] \in Devices
    BY <1>5 DEF PairSave, At, SaveFails, Works, Fails, DrawnFresh
  <2>q. QED BY <1>5, <2>1 DEF PairSave, At, SaveFails, Works, Fails
<1>6. ASSUME NEW p \in Pairers, PairRollback(p) PROVE TypeOK'
  BY <1>6 DEF PairRollback, At, Works, Fails
<1>7. ASSUME NEW p \in Pairers, PairRestore(p) PROVE TypeOK'
  BY <1>7 DEF PairRestore, At
<1>8. ASSUME NEW p \in Pairers, PairAnswer(p) PROVE TypeOK'
  <2>1. drawn[p] \in Devices
    BY <1>8 DEF PairAnswer, At, Works, Fails, DrawnFresh
  <2>q. QED BY <1>8, <2>1 DEF PairAnswer, At, Works, Fails
<1>9. ASSUME NEW r \in Revokers, RevokeAtRelay(r) PROVE TypeOK'
  <2>1. PICK d \in local :
            /\ target' = [target EXCEPT ![r] = d]
            /\ tried' = tried \cup {d}
            /\ relay' \in {relay, relay \ {d}}
    BY <1>9 DEF RevokeAtRelay, At, Works, Fails
  <2>2. revoke' \in [Revokers -> {"ready", "local", "compensate", "done", "absent", "failed"}]
    BY <1>9 DEF RevokeAtRelay, At, Works, Fails
  <2>3. faulted' \in BOOLEAN
    BY <1>9 DEF RevokeAtRelay, At, Works, Fails
  <2>q. QED BY <1>9, <2>1, <2>2, <2>3 DEF RevokeAtRelay
<1>10. ASSUME NEW r \in Revokers, RevokeLocally(r) PROVE TypeOK'
  <2>1. target[r] \in Devices
    BY <1>10 DEF RevokeLocally, At, SaveFails, Works, Fails, TargetsTried
  <2>2. revoke' \in [Revokers -> {"ready", "local", "compensate", "done", "absent", "failed"}]
    BY <1>10 DEF RevokeLocally, At, SaveFails, Works, Fails
  <2>3. /\ local' \subseteq Devices /\ disk' \subseteq Devices
        /\ revoked' \subseteq Devices
    BY <1>10, <2>1 DEF RevokeLocally, At, SaveFails, Works, Fails
  <2>4. faulted' \in BOOLEAN
    BY <1>10 DEF RevokeLocally, At, SaveFails, Works, Fails
  <2>q. QED BY <1>10, <2>2, <2>3, <2>4 DEF RevokeLocally
<1>11. ASSUME NEW r \in Revokers, Compensate(r) PROVE TypeOK'
  <2>1. target[r] \in Devices
    BY <1>11 DEF Compensate, At, Works, Fails, TargetsTried
  <2>q. QED BY <1>11, <2>1 DEF Compensate, At, Works, Fails
<1>12. ASSUME NEW q \in PhoneRevokers, AskDesktop(q) PROVE TypeOK'
  BY <1>12 DEF AskDesktop, At
<1>13. ASSUME NEW q \in PhoneRevokers, DesktopRevokes(q) PROVE TypeOK'
  BY <1>13 DEF DesktopRevokes, At, SaveFails, Works, Fails
<1>14. ASSUME NEW q \in PhoneRevokers, MailLost(q) PROVE TypeOK'
  BY <1>14 DEF MailLost, Fails
<1>15. ASSUME NEW q \in PhoneRevokers, TakeAck(q) PROVE TypeOK'
  BY <1>15 DEF TakeAck, At
<1>16. ASSUME NEW q \in PhoneRevokers, AskTimeout(q) PROVE TypeOK'
  BY <1>16 DEF AskTimeout, At, Fails
<1>17. ASSUME NEW q \in PhoneRevokers, Finalize(q) PROVE TypeOK'
  <2>1. target[q] \in Devices
    BY <1>17 DEF Finalize, At, Works, Fails, TargetsTried
  <2>q. QED BY <1>17, <2>1 DEF Finalize, At, Works, Fails
<1>18. CASE GrantExpires
  BY <1>18 DEF GrantExpires
<1>19. CASE TouchLastSeen
  BY <1>19 DEF TouchLastSeen, SaveFails, Works, Fails
<1>20. CASE DesktopCrash
  BY <1>20 DEF DesktopCrash, Fails
<1>21. CASE UNCHANGED vars
  BY <1>21 DEF vars
<1>q. QED
  BY <1>1, <1>2, <1>3, <1>4, <1>5, <1>6, <1>7, <1>8, <1>9, <1>10,
     <1>11, <1>12, <1>13, <1>14, <1>15, <1>16, <1>17, <1>18, <1>19, <1>20, <1>21
  DEF Next, PairNext, RevokeNext, AskNext

\* The file follows the list in memory.
LEMMA FileStep ==
    ASSUME TypeOK, FileCurrent, [Next]_vars
    PROVE  FileCurrent'
<1> USE DeviceLifecycleAssumption DEF TypeOK, FileCurrent, lists, pairVars, revokeVars
<1>1. ASSUME NEW g \in Grants, CreateGrant(g) PROVE FileCurrent'
  BY <1>1 DEF CreateGrant
<1>2. ASSUME NEW p \in Pairers, Claim(p) PROVE FileCurrent'
  BY <1>2 DEF Claim, At
<1>3. ASSUME NEW p \in Pairers, PairLock(p) PROVE FileCurrent'
  BY <1>3 DEF PairLock, At
<1>4. ASSUME NEW p \in Pairers, PairAuthorize(p) PROVE FileCurrent'
  BY <1>4 DEF PairAuthorize, At, Works, Fails
<1>5. ASSUME NEW p \in Pairers, PairSave(p) PROVE FileCurrent'
  BY <1>5 DEF PairSave, At, SaveFails, Works, Fails
<1>6. ASSUME NEW p \in Pairers, PairRollback(p) PROVE FileCurrent'
  BY <1>6 DEF PairRollback, At, Works, Fails
<1>7. ASSUME NEW p \in Pairers, PairRestore(p) PROVE FileCurrent'
  BY <1>7 DEF PairRestore, At
<1>8. ASSUME NEW p \in Pairers, PairAnswer(p) PROVE FileCurrent'
  BY <1>8 DEF PairAnswer, At, Works, Fails
<1>9. ASSUME NEW r \in Revokers, RevokeAtRelay(r) PROVE FileCurrent'
  BY <1>9 DEF RevokeAtRelay, At, Works, Fails
<1>10. ASSUME NEW r \in Revokers, RevokeLocally(r) PROVE FileCurrent'
  BY <1>10 DEF RevokeLocally, At, SaveFails, Works, Fails
<1>11. ASSUME NEW r \in Revokers, Compensate(r) PROVE FileCurrent'
  BY <1>11 DEF Compensate, At, Works, Fails
<1>12. ASSUME NEW q \in PhoneRevokers, AskDesktop(q) PROVE FileCurrent'
  BY <1>12 DEF AskDesktop, At
<1>13. ASSUME NEW q \in PhoneRevokers, DesktopRevokes(q) PROVE FileCurrent'
  <2>1. CASE target[q] \in local
    BY <1>13, <2>1 DEF DesktopRevokes, At, SaveFails, Works, Fails
  <2>2. CASE target[q] \notin local
    <3>1. local \ {target[q]} = local
      BY <2>2
    <3>q. QED BY <1>13, <2>2, <3>1 DEF DesktopRevokes, At, SaveFails, Works, Fails
  <2>q. QED BY <2>1, <2>2
<1>14. ASSUME NEW q \in PhoneRevokers, MailLost(q) PROVE FileCurrent'
  BY <1>14 DEF MailLost, Fails
<1>15. ASSUME NEW q \in PhoneRevokers, TakeAck(q) PROVE FileCurrent'
  BY <1>15 DEF TakeAck, At
<1>16. ASSUME NEW q \in PhoneRevokers, AskTimeout(q) PROVE FileCurrent'
  BY <1>16 DEF AskTimeout, At, Fails
<1>17. ASSUME NEW q \in PhoneRevokers, Finalize(q) PROVE FileCurrent'
  BY <1>17 DEF Finalize, At, Works, Fails
<1>18. CASE GrantExpires
  BY <1>18 DEF GrantExpires
<1>19. CASE TouchLastSeen
  BY <1>19 DEF TouchLastSeen, SaveFails, Works, Fails
<1>20. CASE DesktopCrash
  BY <1>20 DEF DesktopCrash, Fails
<1>21. CASE UNCHANGED vars
  BY <1>21 DEF vars
<1>q. QED
  BY <1>1, <1>2, <1>3, <1>4, <1>5, <1>6, <1>7, <1>8, <1>9, <1>10,
     <1>11, <1>12, <1>13, <1>14, <1>15, <1>16, <1>17, <1>18, <1>19, <1>20, <1>21
  DEF Next, PairNext, RevokeNext, AskNext

\* A pairing in progress holds a device id nobody has seen.
LEMMA FreshStep ==
    ASSUME TypeOK, FileCurrent, DrawnFresh, [Next]_vars
    PROVE  DrawnFresh'
<1> USE DeviceLifecycleAssumption DEF TypeOK, FileCurrent, DrawnFresh, lists, pairVars, revokeVars
<1>1. ASSUME NEW g \in Grants, CreateGrant(g) PROVE DrawnFresh'
  BY <1>1 DEF CreateGrant
<1>2. ASSUME NEW p \in Pairers, Claim(p) PROVE DrawnFresh'
  BY <1>2 DEF Claim, At
<1>3. ASSUME NEW p \in Pairers, PairLock(p) PROVE DrawnFresh'
  BY <1>3 DEF PairLock, At
<1>4. ASSUME NEW p \in Pairers, PairAuthorize(p) PROVE DrawnFresh'
  BY <1>4 DEF PairAuthorize, At, Works, Fails
<1>5. ASSUME NEW p \in Pairers, PairSave(p) PROVE DrawnFresh'
  BY <1>5 DEF PairSave, At, SaveFails, Works, Fails
<1>6. ASSUME NEW p \in Pairers, PairRollback(p) PROVE DrawnFresh'
  BY <1>6 DEF PairRollback, At, Works, Fails
<1>7. ASSUME NEW p \in Pairers, PairRestore(p) PROVE DrawnFresh'
  BY <1>7 DEF PairRestore, At
<1>8. ASSUME NEW p \in Pairers, PairAnswer(p) PROVE DrawnFresh'
  BY <1>8 DEF PairAnswer, At, Works, Fails
<1>9. ASSUME NEW r \in Revokers, RevokeAtRelay(r) PROVE DrawnFresh'
  BY <1>9 DEF RevokeAtRelay, At, Works, Fails
<1>10. ASSUME NEW r \in Revokers, RevokeLocally(r) PROVE DrawnFresh'
  BY <1>10 DEF RevokeLocally, At, SaveFails, Works, Fails
<1>11. ASSUME NEW r \in Revokers, Compensate(r) PROVE DrawnFresh'
  BY <1>11 DEF Compensate, At, Works, Fails
<1>12. ASSUME NEW q \in PhoneRevokers, AskDesktop(q) PROVE DrawnFresh'
  BY <1>12 DEF AskDesktop, At
<1>13. ASSUME NEW q \in PhoneRevokers, DesktopRevokes(q) PROVE DrawnFresh'
  BY <1>13 DEF DesktopRevokes, At, SaveFails, Works, Fails
<1>14. ASSUME NEW q \in PhoneRevokers, MailLost(q) PROVE DrawnFresh'
  BY <1>14 DEF MailLost, Fails
<1>15. ASSUME NEW q \in PhoneRevokers, TakeAck(q) PROVE DrawnFresh'
  BY <1>15 DEF TakeAck, At
<1>16. ASSUME NEW q \in PhoneRevokers, AskTimeout(q) PROVE DrawnFresh'
  BY <1>16 DEF AskTimeout, At, Fails
<1>17. ASSUME NEW q \in PhoneRevokers, Finalize(q) PROVE DrawnFresh'
  BY <1>17 DEF Finalize, At, Works, Fails
<1>18. CASE GrantExpires
  BY <1>18 DEF GrantExpires
<1>19. CASE TouchLastSeen
  BY <1>19 DEF TouchLastSeen, SaveFails, Works, Fails
<1>20. CASE DesktopCrash
  BY <1>20 DEF DesktopCrash, Fails
<1>21. CASE UNCHANGED vars
  BY <1>21 DEF vars
<1>q. QED
  BY <1>1, <1>2, <1>3, <1>4, <1>5, <1>6, <1>7, <1>8, <1>9, <1>10,
     <1>11, <1>12, <1>13, <1>14, <1>15, <1>16, <1>17, <1>18, <1>19, <1>20, <1>21
  DEF Next, PairNext, RevokeNext, AskNext

\* A revocation keeps to a device that somebody tried to revoke.
LEMMA TargetStep ==
    ASSUME TypeOK, FileCurrent, DrawnFresh, TargetsTried, [Next]_vars
    PROVE  TargetsTried'
<1> USE DeviceLifecycleAssumption DEF TypeOK, FileCurrent, DrawnFresh, TargetsTried, lists, pairVars,
        revokeVars
<1>1. ASSUME NEW g \in Grants, CreateGrant(g) PROVE TargetsTried'
  BY <1>1 DEF CreateGrant
<1>2. ASSUME NEW p \in Pairers, Claim(p) PROVE TargetsTried'
  BY <1>2 DEF Claim, At
<1>3. ASSUME NEW p \in Pairers, PairLock(p) PROVE TargetsTried'
  BY <1>3 DEF PairLock, At
<1>4. ASSUME NEW p \in Pairers, PairAuthorize(p) PROVE TargetsTried'
  BY <1>4 DEF PairAuthorize, At, Works, Fails
<1>5. ASSUME NEW p \in Pairers, PairSave(p) PROVE TargetsTried'
  BY <1>5 DEF PairSave, At, SaveFails, Works, Fails
<1>6. ASSUME NEW p \in Pairers, PairRollback(p) PROVE TargetsTried'
  BY <1>6 DEF PairRollback, At, Works, Fails
<1>7. ASSUME NEW p \in Pairers, PairRestore(p) PROVE TargetsTried'
  BY <1>7 DEF PairRestore, At
<1>8. ASSUME NEW p \in Pairers, PairAnswer(p) PROVE TargetsTried'
  BY <1>8 DEF PairAnswer, At, Works, Fails
<1>9. ASSUME NEW r \in Revokers, RevokeAtRelay(r) PROVE TargetsTried'
  BY <1>9 DEF RevokeAtRelay, At, Works, Fails
<1>10. ASSUME NEW r \in Revokers, RevokeLocally(r) PROVE TargetsTried'
  BY <1>10 DEF RevokeLocally, At, SaveFails, Works, Fails
<1>11. ASSUME NEW r \in Revokers, Compensate(r) PROVE TargetsTried'
  BY <1>11 DEF Compensate, At, Works, Fails
<1>12. ASSUME NEW q \in PhoneRevokers, AskDesktop(q) PROVE TargetsTried'
  BY <1>12 DEF AskDesktop, At
<1>13. ASSUME NEW q \in PhoneRevokers, DesktopRevokes(q) PROVE TargetsTried'
  BY <1>13 DEF DesktopRevokes, At, SaveFails, Works, Fails
<1>14. ASSUME NEW q \in PhoneRevokers, MailLost(q) PROVE TargetsTried'
  BY <1>14 DEF MailLost, Fails
<1>15. ASSUME NEW q \in PhoneRevokers, TakeAck(q) PROVE TargetsTried'
  BY <1>15 DEF TakeAck, At
<1>16. ASSUME NEW q \in PhoneRevokers, AskTimeout(q) PROVE TargetsTried'
  BY <1>16 DEF AskTimeout, At, Fails
<1>17. ASSUME NEW q \in PhoneRevokers, Finalize(q) PROVE TargetsTried'
  BY <1>17 DEF Finalize, At, Works, Fails
<1>18. CASE GrantExpires
  BY <1>18 DEF GrantExpires
<1>19. CASE TouchLastSeen
  BY <1>19 DEF TouchLastSeen, SaveFails, Works, Fails
<1>20. CASE DesktopCrash
  BY <1>20 DEF DesktopCrash, Fails
<1>21. CASE UNCHANGED vars
  BY <1>21 DEF vars
<1>q. QED
  BY <1>1, <1>2, <1>3, <1>4, <1>5, <1>6, <1>7, <1>8, <1>9, <1>10,
     <1>11, <1>12, <1>13, <1>14, <1>15, <1>16, <1>17, <1>18, <1>19, <1>20, <1>21
  DEF Next, PairNext, RevokeNext, AskNext

\* Nothing but a revocation takes a paired phone away.
LEMMA SurviveStep ==
    ASSUME ~Windows, TypeOK, FileCurrent, DrawnFresh, TargetsTried, PairedStays, [Next]_vars
    PROVE  PairedStays'
<1> USE DeviceLifecycleAssumption DEF TypeOK, FileCurrent, DrawnFresh, TargetsTried, PairedStays, lists,
        pairVars, revokeVars
<1>1. ASSUME NEW g \in Grants, CreateGrant(g) PROVE PairedStays'
  BY <1>1 DEF CreateGrant
<1>2. ASSUME NEW p \in Pairers, Claim(p) PROVE PairedStays'
  BY <1>2 DEF Claim, At
<1>3. ASSUME NEW p \in Pairers, PairLock(p) PROVE PairedStays'
  BY <1>3 DEF PairLock, At
<1>4. ASSUME NEW p \in Pairers, PairAuthorize(p) PROVE PairedStays'
  BY <1>4 DEF PairAuthorize, At, Works, Fails
<1>5. ASSUME NEW p \in Pairers, PairSave(p) PROVE PairedStays'
  BY <1>5 DEF PairSave, At, SaveFails, Works, Fails
<1>6. ASSUME NEW p \in Pairers, PairRollback(p) PROVE PairedStays'
  BY <1>6 DEF PairRollback, At, Works, Fails
<1>7. ASSUME NEW p \in Pairers, PairRestore(p) PROVE PairedStays'
  BY <1>7 DEF PairRestore, At
<1>8. ASSUME NEW p \in Pairers, PairAnswer(p) PROVE PairedStays'
  BY <1>8 DEF PairAnswer, At, Works, Fails
<1>9. ASSUME NEW r \in Revokers, RevokeAtRelay(r) PROVE PairedStays'
  BY <1>9 DEF RevokeAtRelay, At, Works, Fails
<1>10. ASSUME NEW r \in Revokers, RevokeLocally(r) PROVE PairedStays'
  BY <1>10 DEF RevokeLocally, At, SaveFails, Works, Fails
<1>11. ASSUME NEW r \in Revokers, Compensate(r) PROVE PairedStays'
  BY <1>11 DEF Compensate, At, Works, Fails
<1>12. ASSUME NEW q \in PhoneRevokers, AskDesktop(q) PROVE PairedStays'
  BY <1>12 DEF AskDesktop, At
<1>13. ASSUME NEW q \in PhoneRevokers, DesktopRevokes(q) PROVE PairedStays'
  BY <1>13 DEF DesktopRevokes, At, SaveFails, Works, Fails
<1>14. ASSUME NEW q \in PhoneRevokers, MailLost(q) PROVE PairedStays'
  BY <1>14 DEF MailLost, Fails
<1>15. ASSUME NEW q \in PhoneRevokers, TakeAck(q) PROVE PairedStays'
  BY <1>15 DEF TakeAck, At
<1>16. ASSUME NEW q \in PhoneRevokers, AskTimeout(q) PROVE PairedStays'
  BY <1>16 DEF AskTimeout, At, Fails
<1>17. ASSUME NEW q \in PhoneRevokers, Finalize(q) PROVE PairedStays'
  BY <1>17 DEF Finalize, At, Works, Fails
<1>18. CASE GrantExpires
  BY <1>18 DEF GrantExpires
<1>19. CASE TouchLastSeen
  BY <1>19 DEF TouchLastSeen, SaveFails, Works, Fails
<1>20. CASE DesktopCrash
  BY <1>20 DEF DesktopCrash, Fails
<1>21. CASE UNCHANGED vars
  BY <1>21 DEF vars
<1>q. QED
  BY <1>1, <1>2, <1>3, <1>4, <1>5, <1>6, <1>7, <1>8, <1>9, <1>10,
     <1>11, <1>12, <1>13, <1>14, <1>15, <1>16, <1>17, <1>18, <1>19, <1>20, <1>21
  DEF Next, PairNext, RevokeNext, AskNext

\* A grant is in one place at a time.
LEMMA GrantStep ==
    ASSUME TypeOK, GrantInOnePlace, [Next]_vars
    PROVE  GrantInOnePlace'
<1> USE DeviceLifecycleAssumption DEF TypeOK, GrantInOnePlace, lists, pairVars, revokeVars
<1>1. ASSUME NEW g \in Grants, CreateGrant(g) PROVE GrantInOnePlace'
  BY <1>1 DEF CreateGrant
<1>2. ASSUME NEW p \in Pairers, Claim(p) PROVE GrantInOnePlace'
  BY <1>2 DEF Claim, At
<1>3. ASSUME NEW p \in Pairers, PairLock(p) PROVE GrantInOnePlace'
  BY <1>3 DEF PairLock, At
<1>4. ASSUME NEW p \in Pairers, PairAuthorize(p) PROVE GrantInOnePlace'
  BY <1>4 DEF PairAuthorize, At, Works, Fails
<1>5. ASSUME NEW p \in Pairers, PairSave(p) PROVE GrantInOnePlace'
  BY <1>5 DEF PairSave, At, SaveFails, Works, Fails
<1>6. ASSUME NEW p \in Pairers, PairRollback(p) PROVE GrantInOnePlace'
  BY <1>6 DEF PairRollback, At, Works, Fails
<1>7. ASSUME NEW p \in Pairers, PairRestore(p) PROVE GrantInOnePlace'
  BY <1>7 DEF PairRestore, At
<1>8. ASSUME NEW p \in Pairers, PairAnswer(p) PROVE GrantInOnePlace'
  BY <1>8 DEF PairAnswer, At, Works, Fails
<1>9. ASSUME NEW r \in Revokers, RevokeAtRelay(r) PROVE GrantInOnePlace'
  BY <1>9 DEF RevokeAtRelay, At, Works, Fails
<1>10. ASSUME NEW r \in Revokers, RevokeLocally(r) PROVE GrantInOnePlace'
  BY <1>10 DEF RevokeLocally, At, SaveFails, Works, Fails
<1>11. ASSUME NEW r \in Revokers, Compensate(r) PROVE GrantInOnePlace'
  BY <1>11 DEF Compensate, At, Works, Fails
<1>12. ASSUME NEW q \in PhoneRevokers, AskDesktop(q) PROVE GrantInOnePlace'
  BY <1>12 DEF AskDesktop, At
<1>13. ASSUME NEW q \in PhoneRevokers, DesktopRevokes(q) PROVE GrantInOnePlace'
  BY <1>13 DEF DesktopRevokes, At, SaveFails, Works, Fails
<1>14. ASSUME NEW q \in PhoneRevokers, MailLost(q) PROVE GrantInOnePlace'
  BY <1>14 DEF MailLost, Fails
<1>15. ASSUME NEW q \in PhoneRevokers, TakeAck(q) PROVE GrantInOnePlace'
  BY <1>15 DEF TakeAck, At
<1>16. ASSUME NEW q \in PhoneRevokers, AskTimeout(q) PROVE GrantInOnePlace'
  BY <1>16 DEF AskTimeout, At, Fails
<1>17. ASSUME NEW q \in PhoneRevokers, Finalize(q) PROVE GrantInOnePlace'
  BY <1>17 DEF Finalize, At, Works, Fails
<1>18. CASE GrantExpires
  BY <1>18 DEF GrantExpires
<1>19. CASE TouchLastSeen
  BY <1>19 DEF TouchLastSeen, SaveFails, Works, Fails
<1>20. CASE DesktopCrash
  BY <1>20 DEF DesktopCrash, Fails
<1>21. CASE UNCHANGED vars
  BY <1>21 DEF vars
<1>q. QED
  BY <1>1, <1>2, <1>3, <1>4, <1>5, <1>6, <1>7, <1>8, <1>9, <1>10,
     <1>11, <1>12, <1>13, <1>14, <1>15, <1>16, <1>17, <1>18, <1>19, <1>20, <1>21
  DEF Next, PairNext, RevokeNext, AskNext

\* Whoever is past the lock holds it.
LEMMA LockStep ==
    ASSUME TypeOK, LockHeld, [Next]_vars
    PROVE  LockHeld'
<1> USE DeviceLifecycleAssumption DEF TypeOK, LockHeld, lists, pairVars, revokeVars
<1>1. ASSUME NEW g \in Grants, CreateGrant(g) PROVE LockHeld'
  BY <1>1 DEF CreateGrant
<1>2. ASSUME NEW p \in Pairers, Claim(p) PROVE LockHeld'
  BY <1>2 DEF Claim, At
<1>3. ASSUME NEW p \in Pairers, PairLock(p) PROVE LockHeld'
  BY <1>3 DEF PairLock, At
<1>4. ASSUME NEW p \in Pairers, PairAuthorize(p) PROVE LockHeld'
  BY <1>4 DEF PairAuthorize, At, Works, Fails
<1>5. ASSUME NEW p \in Pairers, PairSave(p) PROVE LockHeld'
  BY <1>5 DEF PairSave, At, SaveFails, Works, Fails
<1>6. ASSUME NEW p \in Pairers, PairRollback(p) PROVE LockHeld'
  BY <1>6 DEF PairRollback, At, Works, Fails
<1>7. ASSUME NEW p \in Pairers, PairRestore(p) PROVE LockHeld'
  BY <1>7 DEF PairRestore, At
<1>8. ASSUME NEW p \in Pairers, PairAnswer(p) PROVE LockHeld'
  BY <1>8 DEF PairAnswer, At, Works, Fails
<1>9. ASSUME NEW r \in Revokers, RevokeAtRelay(r) PROVE LockHeld'
  BY <1>9 DEF RevokeAtRelay, At, Works, Fails
<1>10. ASSUME NEW r \in Revokers, RevokeLocally(r) PROVE LockHeld'
  BY <1>10 DEF RevokeLocally, At, SaveFails, Works, Fails
<1>11. ASSUME NEW r \in Revokers, Compensate(r) PROVE LockHeld'
  BY <1>11 DEF Compensate, At, Works, Fails
<1>12. ASSUME NEW q \in PhoneRevokers, AskDesktop(q) PROVE LockHeld'
  BY <1>12 DEF AskDesktop, At
<1>13. ASSUME NEW q \in PhoneRevokers, DesktopRevokes(q) PROVE LockHeld'
  BY <1>13 DEF DesktopRevokes, At, SaveFails, Works, Fails
<1>14. ASSUME NEW q \in PhoneRevokers, MailLost(q) PROVE LockHeld'
  BY <1>14 DEF MailLost, Fails
<1>15. ASSUME NEW q \in PhoneRevokers, TakeAck(q) PROVE LockHeld'
  BY <1>15 DEF TakeAck, At
<1>16. ASSUME NEW q \in PhoneRevokers, AskTimeout(q) PROVE LockHeld'
  BY <1>16 DEF AskTimeout, At, Fails
<1>17. ASSUME NEW q \in PhoneRevokers, Finalize(q) PROVE LockHeld'
  BY <1>17 DEF Finalize, At, Works, Fails
<1>18. CASE GrantExpires
  BY <1>18 DEF GrantExpires
<1>19. CASE TouchLastSeen
  BY <1>19 DEF TouchLastSeen, SaveFails, Works, Fails
<1>20. CASE DesktopCrash
  BY <1>20 DEF DesktopCrash, Fails
<1>21. CASE UNCHANGED vars
  BY <1>21 DEF vars
<1>q. QED
  BY <1>1, <1>2, <1>3, <1>4, <1>5, <1>6, <1>7, <1>8, <1>9, <1>10,
     <1>11, <1>12, <1>13, <1>14, <1>15, <1>16, <1>17, <1>18, <1>19, <1>20, <1>21
  DEF Next, PairNext, RevokeNext, AskNext

\* While nothing fails, every difference between the lists has its operation.
LEMMA SettlingStep ==
    ASSUME TypeOK, DrawnFresh, TargetsTried, ~faulted => Settling, [Next]_vars
    PROVE  ~faulted' => Settling'
<1> SUFFICES ASSUME ~faulted' PROVE Settling'
  OBVIOUS
<1> USE DeviceLifecycleAssumption DEF TypeOK, DrawnFresh, TargetsTried, Settling, lists, pairVars, revokeVars
<1>1. ASSUME NEW g \in Grants, CreateGrant(g) PROVE Settling'
  BY <1>1 DEF CreateGrant
<1>2. ASSUME NEW p \in Pairers, Claim(p) PROVE Settling'
  BY <1>2 DEF Claim, At
<1>3. ASSUME NEW p \in Pairers, PairLock(p) PROVE Settling'
  BY <1>3 DEF PairLock, At
<1>4. ASSUME NEW p \in Pairers, PairAuthorize(p) PROVE Settling'
  BY <1>4 DEF PairAuthorize, At, Works, Fails
<1>5. ASSUME NEW p \in Pairers, PairSave(p) PROVE Settling'
  BY <1>5 DEF PairSave, At, SaveFails, Works, Fails
<1>6. ASSUME NEW p \in Pairers, PairRollback(p) PROVE Settling'
  BY <1>6 DEF PairRollback, At, Works, Fails
<1>7. ASSUME NEW p \in Pairers, PairRestore(p) PROVE Settling'
  BY <1>7 DEF PairRestore, At
<1>8. ASSUME NEW p \in Pairers, PairAnswer(p) PROVE Settling'
  BY <1>8 DEF PairAnswer, At, Works, Fails
<1>9. ASSUME NEW r \in Revokers, RevokeAtRelay(r) PROVE Settling'
  BY <1>9 DEF RevokeAtRelay, At, Works, Fails
<1>10. ASSUME NEW r \in Revokers, RevokeLocally(r) PROVE Settling'
  BY <1>10 DEF RevokeLocally, At, SaveFails, Works, Fails
<1>11. ASSUME NEW r \in Revokers, Compensate(r) PROVE Settling'
  BY <1>11 DEF Compensate, At, Works, Fails
<1>12. ASSUME NEW q \in PhoneRevokers, AskDesktop(q) PROVE Settling'
  BY <1>12 DEF AskDesktop, At
<1>13. ASSUME NEW q \in PhoneRevokers, DesktopRevokes(q) PROVE Settling'
  BY <1>13 DEF DesktopRevokes, At, SaveFails, Works, Fails
<1>14. ASSUME NEW q \in PhoneRevokers, MailLost(q) PROVE Settling'
  BY <1>14 DEF MailLost, Fails
<1>15. ASSUME NEW q \in PhoneRevokers, TakeAck(q) PROVE Settling'
  <2>1. ~faulted /\ ack[q] = "ok"
    BY <1>15 DEF TakeAck
  <2>2. ask' = [ask EXCEPT ![q] = "finalize"]
    BY <1>15, <2>1 DEF TakeAck, At
  <2>3. UNCHANGED <<relay, local, pair, drawn, revoke, target, mail, ack>> /\ q \notin mail
    BY <1>15 DEF TakeAck
  <2>4. \A k \in PhoneRevokers : ask[k] \in {"waiting", "finalize"} => ask'[k] \in {"waiting", "finalize"}
    BY <2>2
  <2>q. QED BY <2>1, <2>2, <2>3, <2>4
<1>16. ASSUME NEW q \in PhoneRevokers, AskTimeout(q) PROVE Settling'
  BY <1>16 DEF AskTimeout, At, Fails
<1>17. ASSUME NEW q \in PhoneRevokers, Finalize(q) PROVE Settling'
  BY <1>17 DEF Finalize, At, Works, Fails
<1>18. CASE GrantExpires
  BY <1>18 DEF GrantExpires
<1>19. CASE TouchLastSeen
  BY <1>19 DEF TouchLastSeen, SaveFails, Works, Fails
<1>20. CASE DesktopCrash
  BY <1>20 DEF DesktopCrash, Fails
<1>21. CASE UNCHANGED vars
  BY <1>21 DEF vars
<1>q. QED
  BY <1>1, <1>2, <1>3, <1>4, <1>5, <1>6, <1>7, <1>8, <1>9, <1>10,
     <1>11, <1>12, <1>13, <1>14, <1>15, <1>16, <1>17, <1>18, <1>19, <1>20, <1>21
  DEF Next, PairNext, RevokeNext, AskNext

-----------------------------------------------------------------------------
\* The inductive invariant holds in every reachable state.
THEOREM Invariance == Spec => []IndInv
<1>1. Init => IndInv
  <2> SUFFICES ASSUME Init PROVE IndInv
    OBVIOUS
  <2> USE DeviceLifecycleAssumption DEF Init
  <2>1. TypeOK
    BY DEF TypeOK
  <2>2. FileCurrent /\ DrawnFresh
    BY DEF FileCurrent, DrawnFresh
  <2>3. TargetsTried
    BY DEF TargetsTried
  <2>4. PairedStays
    BY DEF PairedStays
  <2>5. GrantInOnePlace
    BY DEF GrantInOnePlace
  <2>6. LockHeld /\ Settling
    BY DEF LockHeld, Settling
  <2>q. QED BY <2>1, <2>2, <2>3, <2>4, <2>5, <2>6 DEF IndInv
<1>2. IndInv /\ [Next]_vars => IndInv'
  BY TypeStep, FileStep, FreshStep, TargetStep, SurviveStep, GrantStep, LockStep, SettlingStep
  DEF IndInv
<1>q. QED
  BY <1>1, <1>2, PTL DEF Spec

\* Every variable keeps its type.
THEOREM TypeCorrect == Spec => []TypeOK
BY Invariance, PTL DEF IndInv

\* A confirmed revocation holds on the desktop, on every build.
THEOREM RevocationIsFinal == Spec => []RevocationHolds
<1>1. IndInv => RevocationHolds
  BY DEF IndInv, FileCurrent, TargetsTried, RevocationHolds
<1>q. QED
  BY <1>1, Invariance, PTL

\* Where a save replaces the file atomically no paired phone is forgotten.
\* With Windows = TRUE a failed save followed by a crash refutes it.
THEOREM PairingIsDurable ==
    ASSUME ~Windows
    PROVE  Spec => []PairedSurvives
<1>1. IndInv => PairedSurvives
  BY DEF IndInv, FileCurrent, PairedStays, PairedSurvives
<1>q. QED
  BY <1>1, Invariance, PTL

\* One QR code pairs at most one phone.
THEOREM OneGrantOnePhone == Spec => []GrantPairsOnce
<1>1. IndInv => GrantPairsOnce
  BY DEF IndInv, GrantInOnePlace, GrantPairsOnce
<1>q. QED
  BY <1>1, Invariance, PTL
\* Overlapping pairings and revocations alone never leave the relay and the
\* desktop with different lists.
THEOREM ListsSettle == Spec => []ListsAgreeAtRest
<1>1. IndInv => ListsAgreeAtRest
  <2> SUFFICES ASSUME IndInv, ~faulted, lock = None, mail = {},
                      \A r \in Revokers : revoke[r] \notin {"local", "compensate"},
                      \A q \in PhoneRevokers : ask[q] \notin {"waiting", "finalize"}
               PROVE  relay = local
    BY DEF ListsAgreeAtRest
  <2>1. Settling
    BY DEF IndInv
  <2>2. \A p \in Pairers : pair[p] # "save"
    BY DeviceLifecycleAssumption DEF IndInv, LockHeld
  <2>3. local \ relay = {}
    BY <2>1 DEF Settling
  <2>4. relay \ local = {}
    BY <2>1, <2>2 DEF Settling
  <2>q. QED BY <2>3, <2>4
<1>q. QED
  BY <1>1, Invariance, PTL

-----------------------------------------------------------------------------
(* PairingRelay: a route that has not expired outlives failed attempts.     *)

\* A desktop that is making a code has counted it.
CodeCounted ==
    \A d \in Desktops : maker[d] # "idle" => codes[d] \in 1..MaxCodes

\* A connection that has begun knows the code it was opened with.
CodeScanned ==
    \A k \in Phones : phone[k] # "idle" => code[k] \in Codes

\* Requests on their way and the one the desktop works on belong to
\* connections that have begun, and only the desktop's own code is claimed.
RequestBegun ==
    \A d \in Desktops :
        /\ \A i \in 1..Len(inbox[d]) : phone[inbox[d][i]] # "idle"
        /\ handler[d] # "idle" => serving[d] \in Phones /\ phone[serving[d]] # "idle"
        /\ handler[d] = "claimed" => code[serving[d]] \in {d} \X (1..MaxCodes)

\* Whoever is about to remove a route because a phone was paired is right.
PairedFirst ==
    /\ \A k \in Phones : phone[k] = "answered" => code[k] \in paired
    /\ \A d \in Desktops :
           handler[d] \in {"paired", "ok"} => code[serving[d]] \in paired

PairingInv ==
    /\ PairingTypeOK
    /\ CodeCounted
    /\ CodeScanned
    /\ RequestBegun
    /\ PairedFirst

\* There are finitely many codes.
LEMMA CodesFinite == IsFiniteSet(Codes)
<1>1. 1 \in Int /\ MaxCodes \in Int
  BY PairingRelayAssumption
<1>2. IsFiniteSet(1..MaxCodes)
  BY <1>1, FS_Interval
<1>q. QED
  BY <1>2, PairingRelayAssumption, FS_Product DEF Codes

\* While fewer codes than the bound were made, each desktop made fewer.
LEMMA CodesLeft ==
    ASSUME codes \in [Desktops -> 0..MaxCodes], NEW d \in Desktops,
           Cardinality({c \in Codes : c[2] <= codes[c[1]]}) < MaxCodes
    PROVE  codes[d] + 1 \in 1..MaxCodes
<1> DEFINE Made == {c \in Codes : c[2] <= codes[c[1]]}
           Own == {d} \X (1..codes[d])
<1>1. MaxCodes \in Nat /\ IsFiniteSet(Desktops)
  BY PairingRelayAssumption
<1>2. IsFiniteSet(Made)
  BY CodesFinite, FS_Subset
<1>3. Own \subseteq Made
  BY <1>1 DEF Codes
<1>4. Cardinality(Own) = codes[d]
  <2>1. codes[d] \in Nat /\ 1 \in Int
    BY <1>1
  <2>2. IsFiniteSet(1..codes[d]) /\ Cardinality(1..codes[d]) = codes[d]
    BY <2>1, FS_Interval
  <2>3. IsFiniteSet({d}) /\ Cardinality({d}) = 1
    BY FS_Singleton
  <2>4. Cardinality(Own) = Cardinality({d}) * Cardinality(1..codes[d])
    BY <2>2, <2>3, FS_Product
  <2>q. QED BY <2>1, <2>2, <2>3, <2>4
<1>5. Cardinality(Own) <= Cardinality(Made)
  BY <1>2, <1>3, FS_Subset
<1>6. Cardinality(Made) \in Nat
  BY <1>2, FS_CardinalityType
<1>q. QED
  BY <1>1, <1>4, <1>5, <1>6

\* A connection never begins again, keeps its code, and a pairing is final.
LEMMA ConnectionGoesOn ==
    ASSUME PairingTypeOK, [PairingNext]_pairingVars
    PROVE  /\ \A k \in Phones : phone[k] # "idle" => phone'[k] # "idle" /\ code'[k] = code[k]
           /\ paired \subseteq paired'
<1> DEFINE GoesOn == /\ \A k \in Phones : phone[k] # "idle" => phone'[k] # "idle" /\ code'[k] = code[k]
                     /\ paired \subseteq paired'
<1> USE PairingRelayAssumption DEF makeVars, phoneVars, deskVars, PairingTypeOK
<1>1. CASE Tick
  BY <1>1 DEF Tick
<1>2. CASE OtherRoutes
  BY <1>2 DEF OtherRoutes
<1>3. ASSUME NEW k \in Phones, Hello(k) PROVE GoesOn
  BY <1>3 DEF Hello, Move, Quit
<1>4. ASSUME NEW k \in Phones, NoHello(k) PROVE GoesOn
  BY <1>4 DEF NoHello, Move, Quit
<1>5. ASSUME NEW k \in Phones, Pend(k) PROVE GoesOn
  BY <1>5 DEF Pend, Move, Quit
<1>6. ASSUME NEW k \in Phones, Send(k) PROVE GoesOn
  BY <1>6 DEF Send, Move, Quit
<1>7. ASSUME NEW k \in Phones, PairingTimeout(k) PROVE GoesOn
  BY <1>7 DEF PairingTimeout, Move
<1>8. ASSUME NEW k \in Phones, GiveUp(k) PROVE GoesOn
  BY <1>8 DEF GiveUp, Move, Quit
<1>9. ASSUME NEW k \in Phones, CloseRoute(k) PROVE GoesOn
  BY <1>9 DEF CloseRoute, Move, Quit
<1>10. ASSUME NEW k \in Phones, NEW c \in Codes, PairingWs(k, c) PROVE GoesOn
  BY <1>10 DEF PairingWs, Move
<1>11. ASSUME NEW d \in Desktops, StartCode(d) PROVE GoesOn
  BY <1>11 DEF StartCode
<1>12. ASSUME NEW d \in Desktops, OpenRoute(d) PROVE GoesOn
  BY <1>12 DEF OpenRoute
<1>13. ASSUME NEW d \in Desktops, OpenFails(d) PROVE GoesOn
  BY <1>13 DEF OpenFails
<1>14. ASSUME NEW d \in Desktops, StoreGrant(d) PROVE GoesOn
  BY <1>14 DEF StoreGrant
<1>15. ASSUME NEW d \in Desktops, CheckGrant(d) PROVE GoesOn
  BY <1>15 DEF CheckGrant, Handler, Look
<1>16. ASSUME NEW d \in Desktops, ClaimGrant(d) PROVE GoesOn
  BY <1>16 DEF ClaimGrant, Handler, Look, Valid
<1>17. ASSUME NEW d \in Desktops, CompletePairing(d) PROVE GoesOn
  BY <1>17 DEF CompletePairing, Handler
<1>18. ASSUME NEW d \in Desktops, DeleteRoute(d) PROVE GoesOn
  BY <1>18 DEF DeleteRoute, Handler
<1>19. ASSUME NEW d \in Desktops, Answer(d) PROVE GoesOn
  BY <1>19 DEF Answer, Handler
<1>20. ASSUME NEW d \in Desktops, PairDirect(d) PROVE GoesOn
  BY <1>20 DEF PairDirect, Valid
<1>21. ASSUME NEW d \in Desktops, DesktopLeaves(d) PROVE GoesOn
  BY <1>21 DEF DesktopLeaves
<1>22. ASSUME NEW d \in Desktops, DesktopReturns(d) PROVE GoesOn
  BY <1>22 DEF DesktopReturns
<1>23. CASE UNCHANGED pairingVars
  BY <1>23 DEF pairingVars
<1>q. QED
  BY <1>1, <1>2, <1>3, <1>4, <1>5, <1>6, <1>7, <1>8, <1>9, <1>10, <1>11, <1>12,
     <1>13, <1>14, <1>15, <1>16, <1>17, <1>18, <1>19, <1>20, <1>21, <1>22, <1>23
  DEF PairingNext, Socket, Desktop

\* The types are kept.
LEMMA PairingTypeStep ==
    ASSUME PairingInv, [PairingNext]_pairingVars
    PROVE  PairingTypeOK'
<1> USE PairingRelayAssumption DEF makeVars, phoneVars, deskVars, PairingInv, PairingTypeOK, CodeCounted,
        NewCode, Active
<1>1. CASE Tick
  BY <1>1 DEF Tick
<1>2. CASE OtherRoutes
  <2>1. Cardinality(routes) \in Nat
    BY CodesFinite, FS_Subset, FS_CardinalityType
  <2>2. others' \in 0..MaxRoutes
    BY <1>2, <2>1 DEF OtherRoutes
  <2>q. QED BY <1>2, <2>2 DEF OtherRoutes
<1>3. ASSUME NEW k \in Phones, Hello(k) PROVE PairingTypeOK'
  BY <1>3 DEF Hello, Move, Quit
<1>4. ASSUME NEW k \in Phones, NoHello(k) PROVE PairingTypeOK'
  BY <1>4 DEF NoHello, Move, Quit
<1>5. ASSUME NEW k \in Phones, Pend(k) PROVE PairingTypeOK'
  <2>1. phone' = [phone EXCEPT ![k] = "pended"] \/ phone' = [phone EXCEPT ![k] = "done"]
    BY <1>5 DEF Pend, Move, Quit
  <2>2. slots' \in SUBSET Phones
    BY <1>5 DEF Pend
  <2>q. QED BY <1>5, <2>1, <2>2 DEF Pend
<1>6. ASSUME NEW k \in Phones, Send(k) PROVE PairingTypeOK'
  <2>1. phone' \in [Phones -> Active \cup {"idle", "done"}] /\ slots' \in SUBSET Phones
    BY <1>6 DEF Send, Move, Quit
  <2>2. inbox' = inbox \/ inbox' = [inbox EXCEPT ![code[k][1]] = Append(inbox[code[k][1]], k)]
    BY <1>6, Zenon DEF Send
  <2>3. inbox' \in [Desktops -> Seq(Phones)]
    <3>1. \A e \in Desktops : inbox[e] \in Seq(Phones) /\ Append(inbox[e], k) \in Seq(Phones)
      OBVIOUS
    <3>2. CASE inbox' = inbox
      BY <3>2
    <3>3. CASE inbox' = [inbox EXCEPT ![code[k][1]] = Append(inbox[code[k][1]], k)]
      BY <3>1, <3>3
    <3>q. QED BY <2>2, <3>2, <3>3
  <2>q. QED BY <1>6, <2>1, <2>3 DEF Send
<1>7. ASSUME NEW k \in Phones, PairingTimeout(k) PROVE PairingTypeOK'
  BY <1>7 DEF PairingTimeout, Move
<1>8. ASSUME NEW k \in Phones, GiveUp(k) PROVE PairingTypeOK'
  BY <1>8 DEF GiveUp, Move, Quit
<1>9. ASSUME NEW k \in Phones, CloseRoute(k) PROVE PairingTypeOK'
  BY <1>9 DEF CloseRoute, Move, Quit
<1>10. ASSUME NEW k \in Phones, NEW c \in Codes, PairingWs(k, c) PROVE PairingTypeOK'
  <2>1. phone' = phone \/ phone' = [phone EXCEPT ![k] = "upgraded"]
    BY <1>10, Zenon DEF PairingWs, Move
  <2>2. code' = code \/ code' = [code EXCEPT ![k] = c]
    BY <1>10, Zenon DEF PairingWs
  <2>3. phone' \in [Phones -> Active \cup {"idle", "done"}]
    BY <2>1
  <2>4. code' \in [Phones -> Codes \cup {NoPairing}]
    BY <2>2
  <2>5. routes' \in SUBSET Codes
    BY <1>10 DEF PairingWs
  <2>6. UNCHANGED <<now, makeVars, offer, slots, stale, deskVars, paired>>
    BY <1>10, Zenon DEF PairingWs
  <2>q. QED BY <2>3, <2>4, <2>5, <2>6
<1>11. ASSUME NEW d \in Desktops, StartCode(d) PROVE PairingTypeOK'
  <2>1. codes[d] + 1 \in 1..MaxCodes
    BY <1>11, CodesLeft DEF StartCode
  <2>2. codes' \in [Desktops -> 0..MaxCodes]
    BY <1>11, <2>1 DEF StartCode
  <2>3. now + Lifetime \in 0..(MaxTime + Lifetime)
    OBVIOUS
  <2>4. expires' \in [Codes -> 0..(MaxTime + Lifetime)]
    BY <1>11, <2>3 DEF StartCode
  <2>5. maker' \in [Desktops -> {"idle", "opening", "opened", "direct"}]
    BY <1>11 DEF StartCode
  <2>q. QED BY <1>11, <2>2, <2>4, <2>5 DEF StartCode
<1>12. ASSUME NEW d \in Desktops, OpenRoute(d) PROVE PairingTypeOK'
  <2>1. NewCode(d) \in Codes
    BY <1>12 DEF OpenRoute, Codes
  <2>2. routes' \in SUBSET Codes
    BY <1>12, <2>1 DEF OpenRoute, Pruned
  <2>3. maker' \in [Desktops -> {"idle", "opening", "opened", "direct"}]
    BY <1>12 DEF OpenRoute
  <2>q. QED BY <1>12, <2>2, <2>3 DEF OpenRoute
<1>13. ASSUME NEW d \in Desktops, OpenFails(d) PROVE PairingTypeOK'
  <2>1. NewCode(d) \in Codes
    BY <1>13 DEF OpenFails, Codes
  <2>2. routes' \in SUBSET Codes
    <3>1. Pruned(d) \in SUBSET Codes
      BY DEF Pruned
    <3>2. routes' = routes \/ routes' = Pruned(d) \cup {NewCode(d)} \/ routes' = Pruned(d)
      BY <1>13, Zenon DEF OpenFails
    <3>q. QED BY <2>1, <3>1, <3>2
  <2>3. maker' \in [Desktops -> {"idle", "opening", "opened", "direct"}]
    BY <1>13 DEF OpenFails
  <2>q. QED BY <1>13, <2>2, <2>3 DEF OpenFails
<1>14. ASSUME NEW d \in Desktops, StoreGrant(d) PROVE PairingTypeOK'
  <2>1. NewCode(d) \in {d} \X (1..MaxCodes) /\ NewCode(d) \in Codes
    BY <1>14 DEF StoreGrant, Codes
  <2>2. /\ offer' \in [Desktops -> Codes \cup {NoPairing}]
        /\ \A e \in Desktops : offer'[e] \in ({e} \X (1..MaxCodes)) \cup {NoPairing}
    BY <1>14, <2>1 DEF StoreGrant
  <2>3. shown' \in SUBSET Codes
    BY <1>14, <2>1 DEF StoreGrant
  <2>4. maker' \in [Desktops -> {"idle", "opening", "opened", "direct"}]
    BY <1>14 DEF StoreGrant
  <2>q. QED BY <1>14, <2>2, <2>3, <2>4 DEF StoreGrant
<1>15. ASSUME NEW d \in Desktops, CheckGrant(d) PROVE PairingTypeOK'
  <2>1. Head(inbox[d]) \in Phones /\ Tail(inbox[d]) \in Seq(Phones)
    BY <1>15 DEF CheckGrant
  <2>2. serving' \in [Desktops -> Phones \cup {NoPairing}]
    BY <1>15, <2>1 DEF CheckGrant
  <2>3. inbox' \in [Desktops -> Seq(Phones)]
    BY <1>15, <2>1 DEF CheckGrant
  <2>4. handler' \in [Desktops -> {"idle", "checked", "claimed", "paired", "ok", "error"}]
    BY <1>15 DEF CheckGrant, Handler
  <2>5. /\ offer' \in [Desktops -> Codes \cup {NoPairing}]
        /\ \A e \in Desktops : offer'[e] \in ({e} \X (1..MaxCodes)) \cup {NoPairing}
    BY <1>15 DEF CheckGrant, Look
  <2>q. QED BY <1>15, <2>2, <2>3, <2>4, <2>5 DEF CheckGrant
<1>16. ASSUME NEW d \in Desktops, ClaimGrant(d) PROVE PairingTypeOK'
  <2>1. handler' = [handler EXCEPT ![d] = "claimed"] \/ handler' = [handler EXCEPT ![d] = "error"]
    BY <1>16, Zenon DEF ClaimGrant, Handler
  <2>2. handler' \in [Desktops -> {"idle", "checked", "claimed", "paired", "ok", "error"}]
    BY <2>1
  <2>3. offer' = [offer EXCEPT ![d] = NoPairing] \/ offer' = offer
    BY <1>16, Zenon DEF ClaimGrant, Look
  <2>4. /\ offer' \in [Desktops -> Codes \cup {NoPairing}]
        /\ \A e \in Desktops : offer'[e] \in ({e} \X (1..MaxCodes)) \cup {NoPairing}
    BY <2>3
  <2>5. UNCHANGED <<now, makeVars, routes, phoneVars, stale, online, inbox, serving, paired>>
    BY <1>16, Zenon DEF ClaimGrant
  <2>q. QED BY <2>2, <2>4, <2>5
<1>17. ASSUME NEW d \in Desktops, CompletePairing(d) PROVE PairingTypeOK'
  <2> DEFINE c == code[serving[d]]
  <2>1. c \in {d} \X (1..MaxCodes) /\ c \in Codes
    BY <1>17 DEF CompletePairing, RequestBegun, Codes
  <2>2. paired' \in SUBSET Codes
    BY <1>17, <2>1 DEF CompletePairing
  <2>3. handler' \in [Desktops -> {"idle", "checked", "claimed", "paired", "ok", "error"}]
    BY <1>17 DEF CompletePairing, Handler
  <2>4. offer' = offer \/ offer' = [offer EXCEPT ![d] = c]
    BY <1>17 DEF CompletePairing
  <2>5. /\ offer' \in [Desktops -> Codes \cup {NoPairing}]
        /\ \A e \in Desktops : offer'[e] \in ({e} \X (1..MaxCodes)) \cup {NoPairing}
    BY <2>1, <2>4
  <2>q. QED BY <1>17, <2>2, <2>3, <2>5 DEF CompletePairing
<1>18. ASSUME NEW d \in Desktops, DeleteRoute(d) PROVE PairingTypeOK'
  BY <1>18 DEF DeleteRoute, Handler
<1>19. ASSUME NEW d \in Desktops, Answer(d) PROVE PairingTypeOK'
  <2>1. phone' \in [Phones -> Active \cup {"idle", "done"}] /\ slots' \in SUBSET Phones
    BY <1>19 DEF Answer
  <2>2. handler' \in [Desktops -> {"idle", "checked", "claimed", "paired", "ok", "error"}]
    BY <1>19 DEF Answer, Handler
  <2>3. serving' \in [Desktops -> Phones \cup {NoPairing}]
    BY <1>19 DEF Answer
  <2>q. QED BY <1>19, <2>1, <2>2, <2>3 DEF Answer
<1>20. ASSUME NEW d \in Desktops, PairDirect(d) PROVE PairingTypeOK'
  BY <1>20 DEF PairDirect, Valid
<1>21. ASSUME NEW d \in Desktops, DesktopLeaves(d) PROVE PairingTypeOK'
  <2>1. inbox' = [inbox EXCEPT ![d] = <<>>]
    BY <1>21 DEF DesktopLeaves
  <2>2. inbox' \in [Desktops -> Seq(Phones)]
    BY <2>1
  <2>3. online' \in SUBSET Desktops /\ stale' \in SUBSET Phones
    BY <1>21 DEF DesktopLeaves
  <2>4. UNCHANGED <<now, makeVars, offer, routes, phoneVars, handler, serving, paired>>
    BY <1>21, Zenon DEF DesktopLeaves
  <2>q. QED BY <2>2, <2>3, <2>4
<1>22. ASSUME NEW d \in Desktops, DesktopReturns(d) PROVE PairingTypeOK'
  BY <1>22 DEF DesktopReturns
<1>23. CASE UNCHANGED pairingVars
  BY <1>23 DEF pairingVars
<1>q. QED
  BY <1>1, <1>2, <1>3, <1>4, <1>5, <1>6, <1>7, <1>8, <1>9, <1>10, <1>11, <1>12,
     <1>13, <1>14, <1>15, <1>16, <1>17, <1>18, <1>19, <1>20, <1>21, <1>22, <1>23
  DEF PairingNext, Socket, Desktop

\* Making a code goes on with the code that was counted.
LEMMA CountedStep ==
    ASSUME PairingTypeOK, CodeCounted, [PairingNext]_pairingVars
    PROVE  CodeCounted'
<1> USE PairingRelayAssumption DEF makeVars, phoneVars, deskVars, PairingTypeOK, CodeCounted
<1>1. CASE Tick
  BY <1>1 DEF Tick
<1>2. CASE OtherRoutes
  BY <1>2 DEF OtherRoutes
<1>3. ASSUME NEW k \in Phones, Hello(k) PROVE CodeCounted'
  BY <1>3 DEF Hello, Move, Quit
<1>4. ASSUME NEW k \in Phones, NoHello(k) PROVE CodeCounted'
  BY <1>4 DEF NoHello, Move, Quit
<1>5. ASSUME NEW k \in Phones, Pend(k) PROVE CodeCounted'
  BY <1>5 DEF Pend, Move, Quit
<1>6. ASSUME NEW k \in Phones, Send(k) PROVE CodeCounted'
  BY <1>6 DEF Send, Move, Quit
<1>7. ASSUME NEW k \in Phones, PairingTimeout(k) PROVE CodeCounted'
  BY <1>7 DEF PairingTimeout, Move
<1>8. ASSUME NEW k \in Phones, GiveUp(k) PROVE CodeCounted'
  BY <1>8 DEF GiveUp, Move, Quit
<1>9. ASSUME NEW k \in Phones, CloseRoute(k) PROVE CodeCounted'
  BY <1>9 DEF CloseRoute, Move, Quit
<1>10. ASSUME NEW k \in Phones, NEW c \in Codes, PairingWs(k, c) PROVE CodeCounted'
  BY <1>10 DEF PairingWs, Move
<1>11. ASSUME NEW d \in Desktops, StartCode(d) PROVE CodeCounted'
  <2>1. codes[d] + 1 \in 1..MaxCodes
    BY <1>11, CodesLeft DEF StartCode
  <2>q. QED BY <1>11, <2>1 DEF StartCode
<1>12. ASSUME NEW d \in Desktops, OpenRoute(d) PROVE CodeCounted'
  BY <1>12 DEF OpenRoute
<1>13. ASSUME NEW d \in Desktops, OpenFails(d) PROVE CodeCounted'
  BY <1>13 DEF OpenFails
<1>14. ASSUME NEW d \in Desktops, StoreGrant(d) PROVE CodeCounted'
  BY <1>14 DEF StoreGrant
<1>15. ASSUME NEW d \in Desktops, CheckGrant(d) PROVE CodeCounted'
  BY <1>15 DEF CheckGrant, Handler, Look
<1>16. ASSUME NEW d \in Desktops, ClaimGrant(d) PROVE CodeCounted'
  BY <1>16 DEF ClaimGrant, Handler, Look, Valid
<1>17. ASSUME NEW d \in Desktops, CompletePairing(d) PROVE CodeCounted'
  BY <1>17 DEF CompletePairing, Handler
<1>18. ASSUME NEW d \in Desktops, DeleteRoute(d) PROVE CodeCounted'
  BY <1>18 DEF DeleteRoute, Handler
<1>19. ASSUME NEW d \in Desktops, Answer(d) PROVE CodeCounted'
  BY <1>19 DEF Answer, Handler
<1>20. ASSUME NEW d \in Desktops, PairDirect(d) PROVE CodeCounted'
  BY <1>20 DEF PairDirect, Valid
<1>21. ASSUME NEW d \in Desktops, DesktopLeaves(d) PROVE CodeCounted'
  BY <1>21 DEF DesktopLeaves
<1>22. ASSUME NEW d \in Desktops, DesktopReturns(d) PROVE CodeCounted'
  BY <1>22 DEF DesktopReturns
<1>23. CASE UNCHANGED pairingVars
  BY <1>23 DEF pairingVars
<1>q. QED
  BY <1>1, <1>2, <1>3, <1>4, <1>5, <1>6, <1>7, <1>8, <1>9, <1>10, <1>11, <1>12,
     <1>13, <1>14, <1>15, <1>16, <1>17, <1>18, <1>19, <1>20, <1>21, <1>22, <1>23
  DEF PairingNext, Socket, Desktop

\* A connection begins with a code.
LEMMA ScannedStep ==
    ASSUME PairingTypeOK, CodeScanned, [PairingNext]_pairingVars
    PROVE  CodeScanned'
<1> USE PairingRelayAssumption DEF makeVars, phoneVars, deskVars, PairingTypeOK, CodeScanned
<1>1. CASE Tick
  BY <1>1 DEF Tick
<1>2. CASE OtherRoutes
  BY <1>2 DEF OtherRoutes
<1>3. ASSUME NEW k \in Phones, Hello(k) PROVE CodeScanned'
  BY <1>3 DEF Hello, Move, Quit
<1>4. ASSUME NEW k \in Phones, NoHello(k) PROVE CodeScanned'
  BY <1>4 DEF NoHello, Move, Quit
<1>5. ASSUME NEW k \in Phones, Pend(k) PROVE CodeScanned'
  BY <1>5 DEF Pend, Move, Quit
<1>6. ASSUME NEW k \in Phones, Send(k) PROVE CodeScanned'
  BY <1>6 DEF Send, Move, Quit
<1>7. ASSUME NEW k \in Phones, PairingTimeout(k) PROVE CodeScanned'
  BY <1>7 DEF PairingTimeout, Move
<1>8. ASSUME NEW k \in Phones, GiveUp(k) PROVE CodeScanned'
  BY <1>8 DEF GiveUp, Move, Quit
<1>9. ASSUME NEW k \in Phones, CloseRoute(k) PROVE CodeScanned'
  BY <1>9 DEF CloseRoute, Move, Quit
<1>10. ASSUME NEW k \in Phones, NEW c \in Codes, PairingWs(k, c) PROVE CodeScanned'
  BY <1>10 DEF PairingWs, Move
<1>11. ASSUME NEW d \in Desktops, StartCode(d) PROVE CodeScanned'
  BY <1>11 DEF StartCode
<1>12. ASSUME NEW d \in Desktops, OpenRoute(d) PROVE CodeScanned'
  BY <1>12 DEF OpenRoute
<1>13. ASSUME NEW d \in Desktops, OpenFails(d) PROVE CodeScanned'
  BY <1>13 DEF OpenFails
<1>14. ASSUME NEW d \in Desktops, StoreGrant(d) PROVE CodeScanned'
  BY <1>14 DEF StoreGrant
<1>15. ASSUME NEW d \in Desktops, CheckGrant(d) PROVE CodeScanned'
  BY <1>15 DEF CheckGrant, Handler, Look
<1>16. ASSUME NEW d \in Desktops, ClaimGrant(d) PROVE CodeScanned'
  BY <1>16 DEF ClaimGrant, Handler, Look, Valid
<1>17. ASSUME NEW d \in Desktops, CompletePairing(d) PROVE CodeScanned'
  BY <1>17 DEF CompletePairing, Handler
<1>18. ASSUME NEW d \in Desktops, DeleteRoute(d) PROVE CodeScanned'
  BY <1>18 DEF DeleteRoute, Handler
<1>19. ASSUME NEW d \in Desktops, Answer(d) PROVE CodeScanned'
  BY <1>19 DEF Answer, Handler
<1>20. ASSUME NEW d \in Desktops, PairDirect(d) PROVE CodeScanned'
  BY <1>20 DEF PairDirect, Valid
<1>21. ASSUME NEW d \in Desktops, DesktopLeaves(d) PROVE CodeScanned'
  BY <1>21 DEF DesktopLeaves
<1>22. ASSUME NEW d \in Desktops, DesktopReturns(d) PROVE CodeScanned'
  BY <1>22 DEF DesktopReturns
<1>23. CASE UNCHANGED pairingVars
  BY <1>23 DEF pairingVars
<1>q. QED
  BY <1>1, <1>2, <1>3, <1>4, <1>5, <1>6, <1>7, <1>8, <1>9, <1>10, <1>11, <1>12,
     <1>13, <1>14, <1>15, <1>16, <1>17, <1>18, <1>19, <1>20, <1>21, <1>22, <1>23
  DEF PairingNext, Socket, Desktop

\* Requests come from connections that have begun.
LEMMA BegunStep ==
    ASSUME PairingTypeOK, CodeScanned, RequestBegun, [PairingNext]_pairingVars
    PROVE  RequestBegun'
<1> USE PairingRelayAssumption DEF makeVars, phoneVars, deskVars, PairingTypeOK, CodeScanned, RequestBegun
<1>0. /\ \A k \in Phones : phone[k] # "idle" => phone'[k] # "idle" /\ code'[k] = code[k]
      /\ paired \subseteq paired'
  BY ConnectionGoesOn
<1> USE <1>0
<1>1. CASE Tick
  BY <1>1 DEF Tick
<1>2. CASE OtherRoutes
  BY <1>2 DEF OtherRoutes
<1>3. ASSUME NEW k \in Phones, Hello(k) PROVE RequestBegun'
  BY <1>3 DEF Hello, Move, Quit
<1>4. ASSUME NEW k \in Phones, NoHello(k) PROVE RequestBegun'
  BY <1>4 DEF NoHello, Move, Quit
<1>5. ASSUME NEW k \in Phones, Pend(k) PROVE RequestBegun'
  BY <1>5 DEF Pend, Move, Quit
<1>6. ASSUME NEW k \in Phones, Send(k) PROVE RequestBegun'
  <2>1. UNCHANGED <<handler, serving, code>>
    BY <1>6 DEF Send
  <2>2. inbox' = inbox \/ inbox' = [inbox EXCEPT ![code[k][1]] = Append(inbox[code[k][1]], k)]
    BY <1>6, Zenon DEF Send
  <2>3. phone'[k] # "idle"
    BY <1>6 DEF Send
  <2>4. ASSUME NEW e \in Desktops PROVE \A i \in 1..Len(inbox'[e]) : phone'[inbox'[e][i]] # "idle"
    <3>1. PICK s \in Seq(Phones) : s = inbox[e]
      OBVIOUS
    <3>2. \A i \in 1..Len(s) : s[i] \in Phones /\ phone[s[i]] # "idle"
      BY <3>1
    <3>3. \A i \in 1..Len(s) : phone'[s[i]] # "idle"
      BY <3>2
    <3>4. inbox'[e] = s \/ inbox'[e] = Append(s, k)
      <4>1. CASE inbox' = inbox
        BY <3>1, <4>1
      <4>2. CASE inbox' = [inbox EXCEPT ![code[k][1]] = Append(inbox[code[k][1]], k)]
        <5>1. CASE e = code[k][1]
          BY <3>1, <4>2, <5>1
        <5>2. CASE e # code[k][1]
          BY <3>1, <4>2, <5>2
        <5>q. QED BY <5>1, <5>2
      <4>q. QED BY <2>2, <4>1, <4>2
    <3>5. \A i \in 1..Len(Append(s, k)) : Append(s, k)[i] = k \/ (i \in 1..Len(s) /\ Append(s, k)[i] = s[i])
      OBVIOUS
    <3>6. \A i \in 1..Len(Append(s, k)) : phone'[Append(s, k)[i]] # "idle"
      BY <2>3, <3>3, <3>5
    <3>7. CASE inbox'[e] = s
      BY <3>3, <3>7, Zenon
    <3>8. CASE inbox'[e] = Append(s, k)
      BY <3>6, <3>8, Zenon
    <3>q. QED BY <3>4, <3>7, <3>8
  <2>q. QED BY <2>1, <2>4
<1>7. ASSUME NEW k \in Phones, PairingTimeout(k) PROVE RequestBegun'
  BY <1>7 DEF PairingTimeout, Move
<1>8. ASSUME NEW k \in Phones, GiveUp(k) PROVE RequestBegun'
  BY <1>8 DEF GiveUp, Move, Quit
<1>9. ASSUME NEW k \in Phones, CloseRoute(k) PROVE RequestBegun'
  BY <1>9 DEF CloseRoute, Move, Quit
<1>10. ASSUME NEW k \in Phones, NEW c \in Codes, PairingWs(k, c) PROVE RequestBegun'
  BY <1>10 DEF PairingWs, Move
<1>11. ASSUME NEW d \in Desktops, StartCode(d) PROVE RequestBegun'
  BY <1>11 DEF StartCode
<1>12. ASSUME NEW d \in Desktops, OpenRoute(d) PROVE RequestBegun'
  BY <1>12 DEF OpenRoute
<1>13. ASSUME NEW d \in Desktops, OpenFails(d) PROVE RequestBegun'
  BY <1>13 DEF OpenFails
<1>14. ASSUME NEW d \in Desktops, StoreGrant(d) PROVE RequestBegun'
  BY <1>14 DEF StoreGrant
<1>15. ASSUME NEW d \in Desktops, CheckGrant(d) PROVE RequestBegun'
  <2>1. UNCHANGED <<phone, code>>
    BY <1>15 DEF CheckGrant
  <2>2. /\ inbox[d] \in Seq(Phones) /\ inbox[d] # <<>>
        /\ Head(inbox[d]) = inbox[d][1] /\ 1 \in 1..Len(inbox[d])
    BY <1>15 DEF CheckGrant
  <2>3. Head(inbox[d]) \in Phones /\ phone[Head(inbox[d])] # "idle"
    BY <2>2
  <2>4. \A i \in 1..Len(Tail(inbox[d])) : phone[Tail(inbox[d])[i]] # "idle"
    BY <2>2
  <2>5. \A e \in Desktops : \A i \in 1..Len(inbox'[e]) : phone[inbox'[e][i]] # "idle"
    <3>1. inbox'[d] = Tail(inbox[d]) /\ \A e \in Desktops \ {d} : inbox'[e] = inbox[e]
      BY <1>15 DEF CheckGrant
    <3>2. \A i \in 1..Len(inbox'[d]) : phone[inbox'[d][i]] # "idle"
      BY <2>4, <3>1, Zenon
    <3>3. \A e \in Desktops \ {d} : \A i \in 1..Len(inbox'[e]) : phone[inbox'[e][i]] # "idle"
      BY <3>1
    <3>q. QED BY <3>2, <3>3, Zenon
  <2>6. \A e \in Desktops : e # d => handler'[e] = handler[e] /\ serving'[e] = serving[e]
    BY <1>15 DEF CheckGrant, Handler
  <2>7. handler'[d] # "claimed" /\ serving'[d] = Head(inbox[d])
    BY <1>15 DEF CheckGrant, Handler
  <2>8. ASSUME NEW e \in Desktops, e # d
        PROVE  /\ handler'[e] # "idle" => serving'[e] \in Phones /\ phone[serving'[e]] # "idle"
               /\ handler'[e] = "claimed" => code[serving'[e]] \in {e} \X (1..MaxCodes)
    <3>1. handler'[e] = handler[e] /\ serving'[e] = serving[e]
      BY <2>6, <2>8
    <3>q. QED BY <3>1
  <2>9. ASSUME NEW e \in Desktops
        PROVE  /\ handler'[e] # "idle" => serving'[e] \in Phones /\ phone[serving'[e]] # "idle"
               /\ handler'[e] = "claimed" => code[serving'[e]] \in {e} \X (1..MaxCodes)
    <3>1. CASE e = d
      BY <2>3, <2>7, <3>1
    <3>2. CASE e # d
      BY <2>8, <3>2
    <3>q. QED BY <3>1, <3>2
  <2>q. QED BY <2>1, <2>5, <2>9
<1>16. ASSUME NEW d \in Desktops, ClaimGrant(d) PROVE RequestBegun'
  <2>1. UNCHANGED <<phone, code, inbox, serving>>
    BY <1>16 DEF ClaimGrant
  <2>2. serving[d] \in Phones /\ phone[serving[d]] # "idle"
    BY <1>16 DEF ClaimGrant
  <2>3. \A e \in Desktops : e # d => handler'[e] = handler[e]
    BY <1>16 DEF ClaimGrant, Handler
  <2>4. handler'[d] = "claimed" => code[serving[d]] = offer[d]
    BY <1>16 DEF ClaimGrant, Handler, Valid
  <2>5. code[serving[d]] # NoPairing
    BY <2>2 DEF Codes
  <2>q. QED BY <2>1, <2>2, <2>3, <2>4, <2>5
<1>17. ASSUME NEW d \in Desktops, CompletePairing(d) PROVE RequestBegun'
  <2>1. UNCHANGED <<phone, code, inbox, serving>>
    BY <1>17 DEF CompletePairing
  <2>2. handler' = [handler EXCEPT ![d] = "paired"] \/ handler' = [handler EXCEPT ![d] = "error"]
    BY <1>17, Zenon DEF CompletePairing, Handler
  <2>3. \A e \in Desktops : /\ handler'[e] # "idle" => handler[e] # "idle" \/ e = d
                            /\ handler'[e] = "claimed" => handler[e] = "claimed"
    BY <2>2
  <2>4. handler[d] # "idle"
    BY <1>17 DEF CompletePairing
  <2>q. QED BY <2>1, <2>3, <2>4
<1>18. ASSUME NEW d \in Desktops, DeleteRoute(d) PROVE RequestBegun'
  BY <1>18 DEF DeleteRoute, Handler
<1>19. ASSUME NEW d \in Desktops, Answer(d) PROVE RequestBegun'
  <2>1. UNCHANGED <<code, inbox>>
    BY <1>19 DEF Answer
  <2>2. \A e \in Desktops : e # d => handler'[e] = handler[e] /\ serving'[e] = serving[e]
    BY <1>19 DEF Answer, Handler
  <2>3. handler'[d] = "idle"
    BY <1>19 DEF Answer, Handler
  <2>4. \A e \in Desktops : \A i \in 1..Len(inbox[e]) : inbox[e][i] \in Phones
    OBVIOUS
  <2>5. \A e \in Desktops : \A i \in 1..Len(inbox[e]) : phone'[inbox[e][i]] # "idle"
    BY <2>4
  <2>6. ASSUME NEW e \in Desktops, handler'[e] # "idle"
        PROVE  /\ serving'[e] \in Phones /\ phone'[serving'[e]] # "idle"
               /\ handler'[e] = "claimed" => code[serving'[e]] \in {e} \X (1..MaxCodes)
    <3>1. handler'[e] = handler[e] /\ serving'[e] = serving[e]
      BY <2>2, <2>3, <2>6
    <3>q. QED BY <2>6, <3>1
  <2>q. QED BY <2>1, <2>3, <2>5, <2>6
<1>20. ASSUME NEW d \in Desktops, PairDirect(d) PROVE RequestBegun'
  <2>1. UNCHANGED <<phone, code, inbox, handler, serving>>
    BY <1>20 DEF PairDirect
  <2>q. QED BY <2>1
<1>21. ASSUME NEW d \in Desktops, DesktopLeaves(d) PROVE RequestBegun'
  <2>1. UNCHANGED <<phone, code, handler, serving>>
    BY <1>21 DEF DesktopLeaves
  <2>2. \A e \in Desktops : inbox'[e] = IF e = d THEN <<>> ELSE inbox[e]
    BY <1>21 DEF DesktopLeaves
  <2>3. \A e \in Desktops : \A i \in 1..Len(inbox'[e]) : phone[inbox'[e][i]] # "idle"
    <3>1. Len(<<>>) = 0
      OBVIOUS
    <3>2. \A i \in 1..Len(inbox'[d]) : phone[inbox'[d][i]] # "idle"
      BY <2>2, <3>1
    <3>3. \A e \in Desktops \ {d} : \A i \in 1..Len(inbox'[e]) : phone[inbox'[e][i]] # "idle"
      BY <2>2
    <3>q. QED BY <3>2, <3>3, Zenon
  <2>q. QED BY <2>1, <2>3
<1>22. ASSUME NEW d \in Desktops, DesktopReturns(d) PROVE RequestBegun'
  BY <1>22 DEF DesktopReturns
<1>23. CASE UNCHANGED pairingVars
  BY <1>23 DEF pairingVars
<1>q. QED
  BY <1>1, <1>2, <1>3, <1>4, <1>5, <1>6, <1>7, <1>8, <1>9, <1>10, <1>11, <1>12,
     <1>13, <1>14, <1>15, <1>16, <1>17, <1>18, <1>19, <1>20, <1>21, <1>22, <1>23
  DEF PairingNext, Socket, Desktop

\* A phone is told that it was paired after it was.
LEMMA PairedFirstStep ==
    ASSUME PairingTypeOK, RequestBegun, PairedFirst, [PairingNext]_pairingVars
    PROVE  PairedFirst'
<1> USE PairingRelayAssumption DEF makeVars, phoneVars, deskVars, PairingTypeOK, RequestBegun, PairedFirst
<1>0. /\ \A k \in Phones : phone[k] # "idle" => phone'[k] # "idle" /\ code'[k] = code[k]
      /\ paired \subseteq paired'
  BY ConnectionGoesOn
<1> USE <1>0
<1>1. CASE Tick
  BY <1>1 DEF Tick
<1>2. CASE OtherRoutes
  BY <1>2 DEF OtherRoutes
<1>3. ASSUME NEW k \in Phones, Hello(k) PROVE PairedFirst'
  BY <1>3 DEF Hello, Move, Quit
<1>4. ASSUME NEW k \in Phones, NoHello(k) PROVE PairedFirst'
  BY <1>4 DEF NoHello, Move, Quit
<1>5. ASSUME NEW k \in Phones, Pend(k) PROVE PairedFirst'
  BY <1>5 DEF Pend, Move, Quit
<1>6. ASSUME NEW k \in Phones, Send(k) PROVE PairedFirst'
  BY <1>6 DEF Send, Move, Quit
<1>7. ASSUME NEW k \in Phones, PairingTimeout(k) PROVE PairedFirst'
  BY <1>7 DEF PairingTimeout, Move
<1>8. ASSUME NEW k \in Phones, GiveUp(k) PROVE PairedFirst'
  BY <1>8 DEF GiveUp, Move, Quit
<1>9. ASSUME NEW k \in Phones, CloseRoute(k) PROVE PairedFirst'
  BY <1>9 DEF CloseRoute, Move, Quit
<1>10. ASSUME NEW k \in Phones, NEW c \in Codes, PairingWs(k, c) PROVE PairedFirst'
  <2>1. UNCHANGED <<handler, serving, paired>> /\ phone[k] = "idle"
    BY <1>10 DEF PairingWs
  <2>2. \A j \in Phones : phone'[j] = "answered" => phone[j] = "answered"
    BY <1>10 DEF PairingWs, Move
  <2>q. QED BY <2>1, <2>2
<1>11. ASSUME NEW d \in Desktops, StartCode(d) PROVE PairedFirst'
  BY <1>11 DEF StartCode
<1>12. ASSUME NEW d \in Desktops, OpenRoute(d) PROVE PairedFirst'
  BY <1>12 DEF OpenRoute
<1>13. ASSUME NEW d \in Desktops, OpenFails(d) PROVE PairedFirst'
  BY <1>13 DEF OpenFails
<1>14. ASSUME NEW d \in Desktops, StoreGrant(d) PROVE PairedFirst'
  BY <1>14 DEF StoreGrant
<1>15. ASSUME NEW d \in Desktops, CheckGrant(d) PROVE PairedFirst'
  <2>1. UNCHANGED <<phone, code, paired>>
    BY <1>15 DEF CheckGrant
  <2>2. \A e \in Desktops : e # d => handler'[e] = handler[e] /\ serving'[e] = serving[e]
    BY <1>15 DEF CheckGrant, Handler
  <2>3. handler'[d] \in {"checked", "error"}
    BY <1>15 DEF CheckGrant, Handler
  <2>q. QED BY <2>1, <2>2, <2>3
<1>16. ASSUME NEW d \in Desktops, ClaimGrant(d) PROVE PairedFirst'
  <2>1. UNCHANGED <<phone, code, serving, paired>>
    BY <1>16 DEF ClaimGrant
  <2>2. handler' = [handler EXCEPT ![d] = "claimed"] \/ handler' = [handler EXCEPT ![d] = "error"]
    BY <1>16, Zenon DEF ClaimGrant, Handler
  <2>q. QED BY <2>1, <2>2
<1>17. ASSUME NEW d \in Desktops, CompletePairing(d) PROVE PairedFirst'
  <2>1. UNCHANGED <<phone, code, serving>>
    BY <1>17 DEF CompletePairing
  <2>2. \/ handler' = [handler EXCEPT ![d] = "paired"] /\ paired' = paired \cup {code[serving[d]]}
        \/ handler' = [handler EXCEPT ![d] = "error"] /\ paired' = paired
    BY <1>17, Zenon DEF CompletePairing, Handler
  <2>3. CASE handler' = [handler EXCEPT ![d] = "paired"] /\ paired' = paired \cup {code[serving[d]]}
    BY <2>1, <2>3
  <2>4. CASE handler' = [handler EXCEPT ![d] = "error"] /\ paired' = paired
    BY <2>1, <2>4
  <2>q. QED BY <2>2, <2>3, <2>4
<1>18. ASSUME NEW d \in Desktops, DeleteRoute(d) PROVE PairedFirst'
  BY <1>18 DEF DeleteRoute, Handler
<1>19. ASSUME NEW d \in Desktops, Answer(d) PROVE PairedFirst'
  BY <1>19 DEF Answer, Handler
<1>20. ASSUME NEW d \in Desktops, PairDirect(d) PROVE PairedFirst'
  BY <1>20 DEF PairDirect, Valid
<1>21. ASSUME NEW d \in Desktops, DesktopLeaves(d) PROVE PairedFirst'
  BY <1>21 DEF DesktopLeaves
<1>22. ASSUME NEW d \in Desktops, DesktopReturns(d) PROVE PairedFirst'
  BY <1>22 DEF DesktopReturns
<1>23. CASE UNCHANGED pairingVars
  BY <1>23 DEF pairingVars
<1>q. QED
  BY <1>1, <1>2, <1>3, <1>4, <1>5, <1>6, <1>7, <1>8, <1>9, <1>10, <1>11, <1>12,
     <1>13, <1>14, <1>15, <1>16, <1>17, <1>18, <1>19, <1>20, <1>21, <1>22, <1>23
  DEF PairingNext, Socket, Desktop

\* The inductive invariant of the pairing routes.
THEOREM PairingInvariance == PairingSpec => []PairingInv
<1>1. PairingInit => PairingInv
  <2> SUFFICES ASSUME PairingInit PROVE PairingInv
    OBVIOUS
  <2> USE PairingRelayAssumption DEF PairingInit
  <2>1. PairingTypeOK
    BY DEF PairingTypeOK
  <2>2. CodeCounted /\ CodeScanned /\ RequestBegun /\ PairedFirst
    BY DEF CodeCounted, CodeScanned, RequestBegun, PairedFirst
  <2>q. QED BY <2>1, <2>2 DEF PairingInv
<1>2. PairingInv /\ [PairingNext]_pairingVars => PairingInv'
  BY PairingTypeStep, CountedStep, ScannedStep, BegunStep, PairedFirstStep DEF PairingInv
<1>q. QED
  BY <1>1, <1>2, PTL DEF PairingSpec

\* Every variable of the pairing routes keeps its type.
THEOREM PairingTyped == PairingSpec => []PairingTypeOK
BY PairingInvariance, PTL DEF PairingInv

\* A step that takes away an unexpired route has paired its code, or its desktop is
\* opening another.
LEMMA RouteStep ==
    ASSUME PairingInv, [PairingNext]_pairingVars, NEW r \in routes, r \notin routes', expires[r] > now
    PROVE  r \in paired' \/ maker[r[1]] = "opening"
<1> USE PairingRelayAssumption DEF makeVars, phoneVars, deskVars, PairingInv, PairingTypeOK, RequestBegun,
        PairedFirst
<1>1. CASE Tick
  BY <1>1 DEF Tick
<1>2. CASE OtherRoutes
  BY <1>2 DEF OtherRoutes
<1>3. ASSUME NEW k \in Phones, Hello(k) PROVE r \in paired' \/ maker[r[1]] = "opening"
  BY <1>3 DEF Hello, Move, Quit
<1>4. ASSUME NEW k \in Phones, NoHello(k) PROVE r \in paired' \/ maker[r[1]] = "opening"
  BY <1>4 DEF NoHello, Move, Quit
<1>5. ASSUME NEW k \in Phones, Pend(k) PROVE r \in paired' \/ maker[r[1]] = "opening"
  BY <1>5 DEF Pend, Move, Quit
<1>6. ASSUME NEW k \in Phones, Send(k) PROVE r \in paired' \/ maker[r[1]] = "opening"
  BY <1>6 DEF Send, Move, Quit
<1>7. ASSUME NEW k \in Phones, PairingTimeout(k) PROVE r \in paired' \/ maker[r[1]] = "opening"
  BY <1>7 DEF PairingTimeout, Move
<1>8. ASSUME NEW k \in Phones, GiveUp(k) PROVE r \in paired' \/ maker[r[1]] = "opening"
  BY <1>8 DEF GiveUp, Move, Quit
<1>9. ASSUME NEW k \in Phones, CloseRoute(k) PROVE r \in paired' \/ maker[r[1]] = "opening"
  BY <1>9 DEF CloseRoute, Move, Quit
<1>10. ASSUME NEW k \in Phones, NEW c \in Codes, PairingWs(k, c)
           PROVE r \in paired' \/ maker[r[1]] = "opening"
  BY <1>10 DEF PairingWs, Move
<1>11. ASSUME NEW d \in Desktops, StartCode(d) PROVE r \in paired' \/ maker[r[1]] = "opening"
  BY <1>11 DEF StartCode
<1>12. ASSUME NEW d \in Desktops, OpenRoute(d) PROVE r \in paired' \/ maker[r[1]] = "opening"
  BY <1>12 DEF OpenRoute, Pruned
<1>13. ASSUME NEW d \in Desktops, OpenFails(d) PROVE r \in paired' \/ maker[r[1]] = "opening"
  BY <1>13 DEF OpenFails, Pruned
<1>14. ASSUME NEW d \in Desktops, StoreGrant(d) PROVE r \in paired' \/ maker[r[1]] = "opening"
  BY <1>14 DEF StoreGrant
<1>15. ASSUME NEW d \in Desktops, CheckGrant(d) PROVE r \in paired' \/ maker[r[1]] = "opening"
  BY <1>15 DEF CheckGrant, Handler, Look
<1>16. ASSUME NEW d \in Desktops, ClaimGrant(d) PROVE r \in paired' \/ maker[r[1]] = "opening"
  BY <1>16 DEF ClaimGrant, Handler, Look, Valid
<1>17. ASSUME NEW d \in Desktops, CompletePairing(d) PROVE r \in paired' \/ maker[r[1]] = "opening"
  BY <1>17 DEF CompletePairing, Handler
<1>18. ASSUME NEW d \in Desktops, DeleteRoute(d) PROVE r \in paired' \/ maker[r[1]] = "opening"
  <2>1. handler[d] = "paired" /\ UNCHANGED paired
    BY <1>18 DEF DeleteRoute
  <2>2. r = code[serving[d]]
    BY <1>18 DEF DeleteRoute
  <2>q. QED BY <2>1, <2>2
<1>19. ASSUME NEW d \in Desktops, Answer(d) PROVE r \in paired' \/ maker[r[1]] = "opening"
  BY <1>19 DEF Answer, Handler
<1>20. ASSUME NEW d \in Desktops, PairDirect(d) PROVE r \in paired' \/ maker[r[1]] = "opening"
  BY <1>20 DEF PairDirect, Valid
<1>21. ASSUME NEW d \in Desktops, DesktopLeaves(d) PROVE r \in paired' \/ maker[r[1]] = "opening"
  BY <1>21 DEF DesktopLeaves
<1>22. ASSUME NEW d \in Desktops, DesktopReturns(d) PROVE r \in paired' \/ maker[r[1]] = "opening"
  BY <1>22 DEF DesktopReturns
<1>23. CASE UNCHANGED pairingVars
  BY <1>23 DEF pairingVars
<1>q. QED
  BY <1>1, <1>2, <1>3, <1>4, <1>5, <1>6, <1>7, <1>8, <1>9, <1>10, <1>11, <1>12,
     <1>13, <1>14, <1>15, <1>16, <1>17, <1>18, <1>19, <1>20, <1>21, <1>22, <1>23
  DEF PairingNext, Socket, Desktop

\* A failed or late attempt never costs a code its route.
THEOREM RoutesOutliveFailures == PairingSpec => RouteOutlivesFailure
<1>1. PairingInv /\ [PairingNext]_pairingVars
        => [\A c \in routes : (c \notin routes' /\ expires[c] > now)
               => c \in paired' \/ maker[c[1]] = "opening"]_pairingVars
  BY RouteStep
<1>q. QED
  BY <1>1, PairingInvariance, PTL DEF PairingSpec, RouteOutlivesFailure
=============================================================================
