------------------------ MODULE ConnectionModesProofs ------------------------
(***************************************************************************)
(* A stop holds, one transport runs and nothing is restored without the    *)
(* user's consent, for any number of operations, crashes and failures of   *)
(* every kind, from a fresh installation on.                               *)
(***************************************************************************)
EXTENDS ConnectionModes, TLAPS

\* The types that the argument uses; Boolean variables need none.
Shapes ==
    /\ markers \subseteq Transports
    /\ proc \in {"down", "booting", "up", "quitting", "exiting"}
    /\ op \in {"none"} \cup StartSteps \cup StopSteps \cup OtherSteps
    /\ scope \subseteq Transports
    /\ op \in StartSteps => scope \in {{"tunnel"}, {"https"}}
    /\ marked \subseteq Transports /\ halted \subseteq Transports
    /\ monitor \in {"idle", "looking", "trying", "verifying"}
    /\ checks \in 0..Limit
    /\ remote \in {"idle", "checked", "queued", "verifying"}
    /\ stopped \subseteq Transports /\ consent \subseteq Transports
    /\ ops \in 0..MaxOps /\ crashes \in 0..MaxCrashes /\ slips \in 0..MaxSlips

\* The steps of a start after both markers are on disk.
Switching == op \in {"stopOld", "disable", "start", "save", "secret", "clear"}

\* What a start has established at each of its steps.
StartFacts ==
    /\ Switching => markers = Transports
    /\ op \in {"disable", "start"} => ~https
    /\ op \in {"start", "save", "secret", "clear"} /\ "tunnel" \in scope
           => ~https /\ ~enabled
    /\ op \in {"disable", "start", "save", "clear"} /\ "https" \in scope
           => ~tunnel /\ ~desired
    /\ op \in {"start", "save", "clear"} /\ "https" \in scope => ~intent
    /\ op = "start" => ~intent /\ ~enabled
    /\ op = "secret" => "tunnel" \in scope
    /\ op \in {"save", "secret", "clear"} => scope \cap stopped = {}

\* What a stop has established at each of its steps.
StopFacts ==
    /\ op \in {"stopHalt", "stopRecord"} => marked \subseteq markers \cap scope
    /\ op = "stopRecord" =>
          /\ halted \subseteq scope
          /\ "tunnel" \in halted => ~tunnel /\ ~desired
          /\ "https" \in halted => ~https

\* A rotation that resumes was allowed to, and nothing has changed since.
ResumeFacts == op = "resume" => enabled /\ "https" \notin stopped

\* Before ChatX is up there is no operation and no HTTPS supervisor.
BootFacts == proc \in {"down", "booting"} => op = "none" /\ ~https

\* HTTPS, running or only chosen on disk, excludes the tunnel and the wish for it.
ModesApart ==
    /\ ~(intent /\ enabled)
    /\ enabled \/ https => ~tunnel /\ ~desired

\* A stop is on record where the next start of ChatX looks.
StopRecorded ==
    /\ "tunnel" \in stopped =>
          /\ ~tunnel /\ ~desired
          /\ "tunnel" \in markers \/ ~intent
    /\ "https" \in stopped =>
          /\ ~https
          /\ "https" \in markers \/ ~enabled

\* What may be restored was last started by the user.
ConsentRecorded ==
    /\ intent /\ "tunnel" \notin markers => "tunnel" \in consent
    /\ enabled /\ "https" \notin markers => "https" \in consent

IndInv ==
    /\ Shapes
    /\ StartFacts /\ StopFacts /\ ResumeFacts /\ BootFacts
    /\ ModesApart /\ StopRecorded /\ ConsentRecorded

\* What load_settings returns is on disk, or says that nothing is wanted.
LEMMA LoadedSays ==
    ASSUME NEW s \in Loaded
    PROVE  (s.intent => intent) /\ (s.enabled => enabled)
  BY DEF Loaded

\* Every step keeps the other types.
LEMMA ShapesStep ==
    ASSUME Shapes, [Next]_vars
    PROVE  Shapes'
<1> USE ModesAssumption DEF ModesAssumption, Shapes, Transports, StartSteps,
   StopSteps, OtherSteps
<1>1. CASE \E t \in Transports : BeginStart(t)
  BY <1>1 DEF disk, memory, monitoring, history, BeginStart, Begin, MutexFree
<1>2. CASE MarkTarget
  BY <1>2 DEF memory, monitoring, history, bounds, Rest, MarkTarget, May, Return, Goto
<1>3. CASE MarkOther
  BY <1>3 DEF memory, monitoring, bounds, Rest, MarkOther, May, Return, Goto
<1>4. CASE StopOld
  BY <1>4 DEF disk, memory, monitoring, bounds, Rest, StopOld, CancelIntent,
     StopRuntime, May, Return, Goto
<1>5. CASE Disable
  BY <1>5 DEF disk, memory, monitoring, history, bounds, Rest, Disable, SaveFlags,
     May, Return, Goto
<1>6. CASE StartTunnel
  BY <1>6 DEF disk, monitoring, bounds, Rest, StartTunnel, StartRuntime, CancelIntent,
     May, Return, Goto
<1>7. CASE SaveTunnel
  BY <1>7 DEF disk, memory, monitoring, history, bounds, Rest, SaveTunnel, SaveFlags,
     Rollback, CancelIntent, StopRuntime, May, Return, Goto
<1>8. CASE SaveSecret
  BY <1>8 DEF disk, memory, monitoring, history, bounds, Rest, SaveSecret, SaveFlags,
     Rollback, CancelIntent, StopRuntime, May, Return, Goto
<1>9. CASE ClearTunnel
  BY <1>9 DEF disk, memory, monitoring, bounds, Rest, ClearTunnel, SaveFlags,
     Rollback, CancelIntent, StopRuntime, May, Return
<1>10. CASE StartHttps
  BY <1>10 DEF disk, memory, monitoring, bounds, Rest, StartHttps, May, Return, Goto
<1>11. CASE SaveHttps
  BY <1>11 DEF disk, memory, monitoring, history, bounds, Rest, SaveHttps, SaveFlags,
     May, Return, Goto
<1>12. CASE ClearHttps
  BY <1>12 DEF disk, memory, monitoring, bounds, Rest, ClearHttps, SaveFlags, May,
     Return
<1>13. CASE \E ts \in SUBSET Transports \ {{}} : BeginStop(ts)
  BY <1>13 DEF disk, memory, monitoring, history, BeginStop, Begin, MutexFree
<1>14. CASE StopMark
  BY <1>14 DEF memory, monitoring, history, bounds, Rest, StopMark, May
<1>15. CASE StopHalt
  BY <1>15 DEF disk, memory, monitoring, history, bounds, Rest, StopHalt,
     CancelIntent, StopRuntime, May
<1>16. CASE StopRecord
  BY <1>16 DEF disk, memory, monitoring, bounds, Rest, StopRecord, SaveFlags, May,
     Return
<1>17. CASE BeginRotate
  BY <1>17 DEF disk, memory, monitoring, history, BeginRotate, Begin, MutexFree
<1>18. CASE Rotate
  <2>1. UNCHANGED <<markers, proc, monitor, checks, remote, stopped, consent, ops,
                    crashes, slips>>
    BY <1>18 DEF Rotate, disk, history, Rest, monitoring, bounds
  <2>2. /\ op' \in {"none", "resume"}
        /\ scope' \subseteq Transports
        /\ marked' \subseteq Transports /\ halted' \subseteq Transports
    BY <1>18 DEF Rotate, Return, Goto
  <2>3. QED
    BY <2>1, <2>2
<1>19. CASE Resume
  BY <1>19 DEF disk, memory, monitoring, history, bounds, Rest, Resume, May, Return
<1>20. CASE BeginProxy
  BY <1>20 DEF disk, memory, monitoring, history, BeginProxy, Begin, MutexFree
<1>21. CASE ProxySaved
  BY <1>21 DEF disk, memory, monitoring, history, bounds, Rest, ProxySaved, Return,
     Goto
<1>22. CASE ProxyRestart
  BY <1>22 DEF disk, memory, monitoring, history, bounds, Rest, ProxyRestart, Loaded,
     IntentHeld, StartRuntime, May, Return, Goto
<1>23. CASE \E b \in BOOLEAN : SetAutoReconnect(b)
  BY <1>23 DEF operation, monitoring, history, SetAutoReconnect
<1>24. CASE MonitorLoads
  BY <1>24 DEF disk, operation, history, bounds, Elsewhere, MonitorLoads, Loaded, May
<1>25. CASE MonitorRests
  BY <1>25 DEF disk, operation, history, bounds, Elsewhere, MonitorRests, Counted
<1>26. CASE MonitorClaims
  BY <1>26 DEF disk, operation, history, bounds, Elsewhere, MonitorClaims, Due,
     Loaded, Counted, May
<1>27. CASE MonitorReconnects
  BY <1>27 DEF disk, operation, history, bounds, Elsewhere, MonitorReconnects, Loaded,
     IntentHeld, MutexFree, StartRuntime, May
<1>28. CASE MonitorVerifies
  BY <1>28 DEF disk, operation, history, bounds, Elsewhere, MonitorVerifies, Loaded,
     May
<1>29. CASE BackoffEnds
  BY <1>29 DEF disk, memory, operation, history, bounds, Elsewhere, BackoffEnds
<1>30. CASE RemoteChecks
  BY <1>30 DEF disk, memory, operation, monitoring, history, bounds, Aside,
     RemoteChecks
<1>31. CASE RemoteSubmits
  BY <1>31 DEF disk, operation, monitoring, history, bounds, Aside, RemoteSubmits
<1>32. CASE RemoteReconnects
  BY <1>32 DEF disk, memory, operation, monitoring, history, bounds, Aside,
     RemoteReconnects, Loaded, IntentHeld, MutexFree, StartRuntime, May
<1>33. CASE RemoteEnds
  BY <1>33 DEF disk, operation, monitoring, history, bounds, Aside, RemoteEnds
<1>34. CASE BootTunnel
  <2>1. markers' \in {markers, markers \cup {"tunnel"}}
    BY <1>34 DEF BootTunnel
  <2>2. UNCHANGED <<op, scope, marked, halted, monitor, checks, remote, stopped,
                    consent, ops, crashes, slips>>
    BY <1>34 DEF BootTunnel, operation, monitoring, history, bounds
  <2>3. proc' = "booting"
    BY <1>34 DEF BootTunnel
  <2>4. QED
    BY <2>1, <2>2, <2>3
<1>35. CASE BootHttps
  BY <1>35 DEF disk, memory, operation, monitoring, history, bounds, BootHttps,
     Loaded, RestoreAllowed, Status, May
<1>36. CASE Crash
  BY <1>36 DEF disk, history, Crash, ProcessEnds, Return
<1>37. CASE Quit
  BY <1>37 DEF disk, memory, operation, monitoring, history, Quit
<1>38. CASE QuitStops
  BY <1>38 DEF disk, operation, monitoring, history, bounds, QuitStops, Rollback,
     CancelIntent, StopRuntime, May, MutexFree
<1>39. CASE Exit
  BY <1>39 DEF disk, history, bounds, Exit, StopRuntime, ProcessEnds, Return, May,
     MutexFree
<1>40. CASE RuntimeDies
  BY <1>40 DEF disk, memory, operation, monitoring, history, RuntimeDies
<1>41. CASE UNCHANGED vars
  BY <1>41 DEF vars, disk, memory, monitoring, operation, history, bounds
<1>42. QED
  BY <1>1, <1>2, <1>3, <1>4, <1>5, <1>6, <1>7, <1>8, <1>9, <1>10, <1>11, <1>12, <1>13,
     <1>14, <1>15, <1>16, <1>17, <1>18, <1>19, <1>20, <1>21, <1>22, <1>23, <1>24,
     <1>25, <1>26, <1>27, <1>28, <1>29, <1>30, <1>31, <1>32, <1>33, <1>34, <1>35,
     <1>36, <1>37, <1>38, <1>39, <1>40, <1>41 DEF Next, Start, Stop, Settings,
     Monitor, Remote, Process

\* Every step keeps the invariant.
LEMMA FactsStep ==
    ASSUME IndInv, [Next]_vars, ~Legacy
    PROVE  (/\ StartFacts /\ StopFacts /\ ResumeFacts /\ BootFacts
            /\ ModesApart /\ StopRecorded /\ ConsentRecorded)'
<1> USE DEF IndInv, Shapes, Transports, StartSteps, StopSteps, OtherSteps, StartFacts,
   Switching, StopFacts, ResumeFacts, BootFacts, ModesApart, StopRecorded,
   ConsentRecorded
<1>1. CASE \E t \in Transports : BeginStart(t)
  BY <1>1 DEF disk, memory, monitoring, history, BeginStart, Begin, MutexFree
<1>2. CASE MarkTarget
  BY <1>2 DEF memory, monitoring, history, bounds, Rest, MarkTarget, May, Return, Goto
<1>3. CASE MarkOther
  BY <1>3 DEF memory, monitoring, bounds, Rest, MarkOther, May, Return, Goto
<1>4. CASE StopOld
  <2> USE <1>4 DEF StopOld, CancelIntent, StopRuntime, May, Return, Goto, disk,
     memory, history, Rest
  <2>1. scope = {"tunnel"} \/ scope = {"https"}
    OBVIOUS
  <2>2. StartFacts'
    <3>1. CASE scope = {"tunnel"}
      BY <3>1
    <3>2. CASE scope = {"https"}
      BY <3>2
    <3>3. QED
      BY <2>1, <3>1, <3>2
  <2>3. StopFacts'
    OBVIOUS
  <2>4. ResumeFacts'
    OBVIOUS
  <2>5. ModesApart'
    OBVIOUS
  <2>6. StopRecorded'
    OBVIOUS
  <2>7. ConsentRecorded'
    OBVIOUS
  <2>8. BootFacts'
    OBVIOUS
  <2>9. QED
    BY <2>2, <2>3, <2>4, <2>5, <2>6, <2>7, <2>8
<1>5. CASE Disable
  <2> USE <1>5 DEF Disable, SaveFlags, May, Return, Goto, disk, memory, history, Rest
  <2>1. scope = {"tunnel"} \/ scope = {"https"}
    OBVIOUS
  <2>2. StartFacts'
    <3>1. CASE scope = {"tunnel"}
      BY <3>1
    <3>2. CASE scope = {"https"}
      BY <3>2
    <3>3. QED
      BY <2>1, <3>1, <3>2
  <2>3. StopFacts'
    OBVIOUS
  <2>4. ResumeFacts'
    OBVIOUS
  <2>5. ModesApart'
    OBVIOUS
  <2>6. StopRecorded'
    OBVIOUS
  <2>7. ConsentRecorded'
    OBVIOUS
  <2>8. BootFacts'
    OBVIOUS
  <2>9. QED
    BY <2>2, <2>3, <2>4, <2>5, <2>6, <2>7, <2>8
<1>6. CASE StartTunnel
  <2> USE <1>6 DEF StartTunnel, StartRuntime, CancelIntent, May, Return, Goto, disk,
     memory, history, Rest
  <2>1. scope = {"tunnel"} \/ scope = {"https"}
    OBVIOUS
  <2>2. StartFacts'
    <3>1. CASE scope = {"tunnel"}
      BY <3>1
    <3>2. CASE scope = {"https"}
      BY <3>2
    <3>3. QED
      BY <2>1, <3>1, <3>2
  <2>3. StopFacts'
    OBVIOUS
  <2>4. ResumeFacts'
    OBVIOUS
  <2>5. ModesApart'
    OBVIOUS
  <2>6. StopRecorded'
    OBVIOUS
  <2>7. ConsentRecorded'
    OBVIOUS
  <2>8. BootFacts'
    OBVIOUS
  <2>9. QED
    BY <2>2, <2>3, <2>4, <2>5, <2>6, <2>7, <2>8
<1>7. CASE SaveTunnel
  <2> USE <1>7 DEF SaveTunnel, SaveFlags, Rollback, CancelIntent, StopRuntime, May,
     Return, Goto, disk, memory, history, Rest
  <2>1. scope = {"tunnel"} \/ scope = {"https"}
    OBVIOUS
  <2>2. StartFacts'
    <3>1. CASE scope = {"tunnel"}
      BY <3>1
    <3>2. CASE scope = {"https"}
      BY <3>2
    <3>3. QED
      BY <2>1, <3>1, <3>2
  <2>3. StopFacts'
    OBVIOUS
  <2>4. ResumeFacts'
    OBVIOUS
  <2>5. ModesApart'
    OBVIOUS
  <2>6. StopRecorded'
    OBVIOUS
  <2>7. ConsentRecorded'
    OBVIOUS
  <2>8. BootFacts'
    OBVIOUS
  <2>9. QED
    BY <2>2, <2>3, <2>4, <2>5, <2>6, <2>7, <2>8
<1>8. CASE SaveSecret
  <2> USE <1>8 DEF SaveSecret, SaveFlags, Rollback, CancelIntent, StopRuntime, May,
     Return, Goto, disk, memory, history, Rest
  <2>1. scope = {"tunnel"} \/ scope = {"https"}
    OBVIOUS
  <2>2. StartFacts'
    <3>1. CASE scope = {"tunnel"}
      BY <3>1
    <3>2. CASE scope = {"https"}
      BY <3>2
    <3>3. QED
      BY <2>1, <3>1, <3>2
  <2>3. StopFacts'
    OBVIOUS
  <2>4. ResumeFacts'
    OBVIOUS
  <2>5. ModesApart'
    OBVIOUS
  <2>6. StopRecorded'
    OBVIOUS
  <2>7. ConsentRecorded'
    OBVIOUS
  <2>8. BootFacts'
    OBVIOUS
  <2>9. QED
    BY <2>2, <2>3, <2>4, <2>5, <2>6, <2>7, <2>8
<1>9. CASE ClearTunnel
  <2> USE <1>9 DEF ClearTunnel, SaveFlags, Rollback, CancelIntent, StopRuntime, May,
     Return, disk, memory, history, Rest
  <2>1. scope = {"tunnel"} \/ scope = {"https"}
    OBVIOUS
  <2>2. StartFacts'
    <3>1. CASE scope = {"tunnel"}
      BY <3>1
    <3>2. CASE scope = {"https"}
      BY <3>2
    <3>3. QED
      BY <2>1, <3>1, <3>2
  <2>3. StopFacts'
    OBVIOUS
  <2>4. ResumeFacts'
    OBVIOUS
  <2>5. ModesApart'
    OBVIOUS
  <2>6. StopRecorded'
    OBVIOUS
  <2>7. ConsentRecorded'
    OBVIOUS
  <2>8. BootFacts'
    OBVIOUS
  <2>9. QED
    BY <2>2, <2>3, <2>4, <2>5, <2>6, <2>7, <2>8
<1>10. CASE StartHttps
  <2> USE <1>10 DEF StartHttps, May, Return, Goto, disk, memory, history, Rest
  <2>1. scope = {"tunnel"} \/ scope = {"https"}
    OBVIOUS
  <2>2. StartFacts'
    <3>1. CASE scope = {"tunnel"}
      BY <3>1
    <3>2. CASE scope = {"https"}
      BY <3>2
    <3>3. QED
      BY <2>1, <3>1, <3>2
  <2>3. StopFacts'
    OBVIOUS
  <2>4. ResumeFacts'
    OBVIOUS
  <2>5. ModesApart'
    OBVIOUS
  <2>6. StopRecorded'
    OBVIOUS
  <2>7. ConsentRecorded'
    OBVIOUS
  <2>8. BootFacts'
    OBVIOUS
  <2>9. QED
    BY <2>2, <2>3, <2>4, <2>5, <2>6, <2>7, <2>8
<1>11. CASE SaveHttps
  <2> USE <1>11 DEF SaveHttps, SaveFlags, May, Return, Goto, disk, memory, history,
     Rest
  <2>1. scope = {"tunnel"} \/ scope = {"https"}
    OBVIOUS
  <2>2. StartFacts'
    <3>1. CASE scope = {"tunnel"}
      BY <3>1
    <3>2. CASE scope = {"https"}
      BY <3>2
    <3>3. QED
      BY <2>1, <3>1, <3>2
  <2>3. StopFacts'
    OBVIOUS
  <2>4. ResumeFacts'
    OBVIOUS
  <2>5. ModesApart'
    OBVIOUS
  <2>6. StopRecorded'
    OBVIOUS
  <2>7. ConsentRecorded'
    OBVIOUS
  <2>8. BootFacts'
    OBVIOUS
  <2>9. QED
    BY <2>2, <2>3, <2>4, <2>5, <2>6, <2>7, <2>8
<1>12. CASE ClearHttps
  <2> USE <1>12 DEF ClearHttps, SaveFlags, May, Return, disk, memory, history, Rest
  <2>1. scope = {"tunnel"} \/ scope = {"https"}
    OBVIOUS
  <2>2. StartFacts'
    <3>1. CASE scope = {"tunnel"}
      BY <3>1
    <3>2. CASE scope = {"https"}
      BY <3>2
    <3>3. QED
      BY <2>1, <3>1, <3>2
  <2>3. StopFacts'
    OBVIOUS
  <2>4. ResumeFacts'
    OBVIOUS
  <2>5. ModesApart'
    OBVIOUS
  <2>6. StopRecorded'
    OBVIOUS
  <2>7. ConsentRecorded'
    OBVIOUS
  <2>8. BootFacts'
    OBVIOUS
  <2>9. QED
    BY <2>2, <2>3, <2>4, <2>5, <2>6, <2>7, <2>8
<1>13. CASE \E ts \in SUBSET Transports \ {{}} : BeginStop(ts)
  BY <1>13 DEF disk, memory, monitoring, history, BeginStop, Begin, MutexFree
<1>14. CASE StopMark
  BY <1>14 DEF memory, monitoring, history, bounds, Rest, StopMark, May
<1>15. CASE StopHalt
  BY <1>15 DEF disk, memory, monitoring, history, bounds, Rest, StopHalt,
     CancelIntent, StopRuntime, May
<1>16. CASE StopRecord
  <2> HIDE DEF IndInv, Shapes, Transports, StartSteps, StopSteps, OtherSteps,
           StartFacts, Switching, StopFacts, ResumeFacts, BootFacts, ModesApart, StopRecorded, ConsentRecorded
  <2>1. PICK ok \in BOOLEAN :
            /\ SaveFlags(ok, intent /\ "tunnel" \notin scope, enabled /\ "https" \notin scope)
            /\ stopped' = stopped \cup (halted \cap (IF ok THEN scope ELSE marked))
            /\ consent' = consent \ (IF ok THEN scope ELSE marked)
    BY <1>16, Zenon DEF StopRecord
  <2>2. /\ op' = "none"
        /\ UNCHANGED <<markers, tunnel, https, desired, proc>>
    BY <1>16, <2>1, Zenon DEF StopRecord, Return, SaveFlags, Rest, memory, disk
  <2>3. /\ marked \subseteq markers \cap scope
        /\ halted \subseteq scope
        /\ "tunnel" \in halted => ~tunnel /\ ~desired
        /\ "https" \in halted => ~https
    BY <1>16 DEF IndInv, StopFacts, StopRecord
  <2>4. CASE ok
    <3>1. /\ intent' => intent /\ "tunnel" \notin scope
          /\ enabled' => enabled /\ "https" \notin scope
      BY <2>1, <2>4, Zenon DEF SaveFlags
    <3>2. stopped' = stopped \cup (halted \cap scope) /\ consent' = consent \ scope
      BY <2>1, <2>4
    <3>3. QED
      BY <2>2, <2>3, <3>1, <3>2 DEF IndInv, StartFacts, Switching, StopFacts,
         ResumeFacts, BootFacts, ModesApart, StopRecorded, ConsentRecorded
  <2>5. CASE ~ok
    <3>1. UNCHANGED <<intent, enabled>>
      BY <2>1, <2>5, Zenon DEF SaveFlags, disk
    <3>2. stopped' = stopped \cup (halted \cap marked) /\ consent' = consent \ marked
      BY <2>1, <2>5
    <3>3. QED
      BY <2>2, <2>3, <3>1, <3>2 DEF IndInv, StartFacts, Switching, StopFacts,
         ResumeFacts, BootFacts, ModesApart, StopRecorded, ConsentRecorded
  <2>6. QED
    BY <2>4, <2>5
<1>17. CASE BeginRotate
  BY <1>17 DEF disk, memory, monitoring, history, BeginRotate, Begin, MutexFree
<1>18. CASE Rotate
  <2> HIDE DEF IndInv, Shapes, Transports, StartSteps, StopSteps, OtherSteps,
           StartFacts, Switching, StopFacts, ResumeFacts, BootFacts, ModesApart, StopRecorded, ConsentRecorded
  <2>1. UNCHANGED <<markers, intent, enabled, tunnel, desired, stopped, consent>>
    BY <1>18 DEF Rotate, disk, memory, history
  <2>2. https' => https
    BY <1>18 DEF Rotate
  <2>3. op' \in {"none", "resume"} /\ proc' = proc /\ proc \notin {"down", "booting"}
    BY <1>18 DEF Rotate, Return, Goto, Rest, IndInv, BootFacts
  <2>4. op' = "resume" => enabled /\ "https" \notin stopped
    <3>1. SUFFICES ASSUME op' = "resume"
                   PROVE  enabled /\ "https" \notin stopped
      OBVIOUS
    <3>2. PICK s \in Loaded, allowed \in RestoreAllowed("https") : s.enabled /\ allowed
      BY <1>18, <3>1, Zenon DEF Rotate, Return
    <3>3. enabled
      BY <3>2, LoadedSays, Zenon
    <3>4. "https" \notin markers
      BY <3>2 DEF RestoreAllowed
    <3>5. QED
      BY <3>3, <3>4 DEF IndInv, StopRecorded
  <2>5. QED
    BY <2>1, <2>2, <2>3, <2>4 DEF IndInv, StartFacts, Switching, StopFacts,
       ResumeFacts, BootFacts, ModesApart, StopRecorded, ConsentRecorded
<1>19. CASE Resume
  BY <1>19 DEF disk, memory, monitoring, history, bounds, Rest, Resume, May, Return
<1>20. CASE BeginProxy
  BY <1>20 DEF disk, memory, monitoring, history, BeginProxy, Begin, MutexFree
<1>21. CASE ProxySaved
  BY <1>21 DEF disk, memory, monitoring, history, bounds, Rest, ProxySaved, Return,
     Goto
<1>22. CASE ProxyRestart
  BY <1>22 DEF disk, memory, monitoring, history, bounds, Rest, ProxyRestart, Loaded,
     IntentHeld, StartRuntime, May, Return, Goto
<1>23. CASE \E b \in BOOLEAN : SetAutoReconnect(b)
  BY <1>23 DEF operation, monitoring, history, SetAutoReconnect
<1>24. CASE MonitorLoads
  <2>1. UNCHANGED <<markers, intent, enabled, tunnel, https, op, scope, marked,
                    halted, stopped, consent>>
    BY <1>24 DEF MonitorLoads, disk, Elsewhere, operation, history
  <2>2. (desired' => desired) /\ proc' = proc
    BY <1>24 DEF MonitorLoads, Elsewhere
  <2>3. QED
    BY <2>1, <2>2
<1>25. CASE MonitorRests
  BY <1>25 DEF disk, operation, history, bounds, Elsewhere, MonitorRests, Counted
<1>26. CASE MonitorClaims
  BY <1>26 DEF disk, operation, history, bounds, Elsewhere, MonitorClaims, Due,
     Loaded, Counted, May
<1>27. CASE MonitorReconnects
  BY <1>27 DEF disk, operation, history, bounds, Elsewhere, MonitorReconnects, Loaded,
     IntentHeld, MutexFree, StartRuntime, May
<1>28. CASE MonitorVerifies
  BY <1>28 DEF disk, operation, history, bounds, Elsewhere, MonitorVerifies, Loaded,
     May
<1>29. CASE BackoffEnds
  BY <1>29 DEF disk, memory, operation, history, bounds, Elsewhere, BackoffEnds
<1>30. CASE RemoteChecks
  BY <1>30 DEF disk, memory, operation, monitoring, history, bounds, Aside,
     RemoteChecks
<1>31. CASE RemoteSubmits
  BY <1>31 DEF disk, operation, monitoring, history, bounds, Aside, RemoteSubmits
<1>32. CASE RemoteReconnects
  BY <1>32 DEF disk, memory, operation, monitoring, history, bounds, Aside,
     RemoteReconnects, Loaded, IntentHeld, MutexFree, StartRuntime, May
<1>33. CASE RemoteEnds
  BY <1>33 DEF disk, operation, monitoring, history, bounds, Aside, RemoteEnds
<1>34. CASE BootTunnel
  <2> HIDE DEF IndInv, Shapes, Transports, StartSteps, StopSteps, OtherSteps,
           StartFacts, Switching, StopFacts, ResumeFacts, BootFacts, ModesApart, StopRecorded, ConsentRecorded
  <2>1. ~(intent /\ enabled)
    BY DEF IndInv, ModesApart
  <2>2. UNCHANGED <<markers, intent, enabled, https, op, scope, marked, halted,
                    stopped, consent>>
    BY <1>34, <2>1 DEF BootTunnel, operation, history
  <2>3. tunnel' => tunnel
    BY <1>34 DEF BootTunnel, StopRuntime
  <2>4. desired' => intent /\ ~enabled /\ "tunnel" \notin markers
    BY <1>34 DEF BootTunnel, RestoreAllowed
  <2>5. op = "none" /\ ~https
    BY <1>34 DEF BootTunnel, IndInv, BootFacts
  <2>6. QED
    BY <2>2, <2>3, <2>4, <2>5 DEF IndInv, StartFacts, Switching, StopFacts,
       ResumeFacts, BootFacts, ModesApart, StopRecorded, ConsentRecorded
<1>35. CASE BootHttps
  <2> HIDE DEF IndInv, Shapes, Transports, StartSteps, StopSteps, OtherSteps,
           StartFacts, Switching, StopFacts, ResumeFacts, BootFacts, ModesApart, StopRecorded, ConsentRecorded
  <2>1. UNCHANGED <<markers, intent, enabled, tunnel, desired, op, scope, marked,
                    halted, stopped, consent>>
    BY <1>35 DEF BootHttps, disk, memory, operation, history
  <2>2. https' => https \/ (enabled /\ "https" \notin markers)
    BY <1>35, LoadedSays DEF BootHttps, RestoreAllowed
  <2>3. op = "none" /\ proc' = "up"
    BY <1>35 DEF BootHttps, IndInv, BootFacts
  <2>4. QED
    BY <2>1, <2>2, <2>3 DEF IndInv, StartFacts, Switching, StopFacts, ResumeFacts,
       BootFacts, ModesApart, StopRecorded, ConsentRecorded
<1>36. CASE Crash
  BY <1>36 DEF disk, history, Crash, ProcessEnds, Return
<1>37. CASE Quit
  BY <1>37 DEF disk, memory, operation, monitoring, history, Quit
<1>38. CASE QuitStops
  BY <1>38 DEF disk, operation, monitoring, history, bounds, QuitStops, Rollback,
     CancelIntent, StopRuntime, May, MutexFree
<1>39. CASE Exit
  BY <1>39 DEF disk, history, bounds, Exit, StopRuntime, ProcessEnds, Return, May,
     MutexFree
<1>40. CASE RuntimeDies
  BY <1>40 DEF disk, memory, operation, monitoring, history, RuntimeDies
<1>41. CASE UNCHANGED vars
  BY <1>41 DEF vars, disk, memory, monitoring, operation, history, bounds
<1>42. QED
  BY <1>1, <1>2, <1>3, <1>4, <1>5, <1>6, <1>7, <1>8, <1>9, <1>10, <1>11, <1>12, <1>13,
     <1>14, <1>15, <1>16, <1>17, <1>18, <1>19, <1>20, <1>21, <1>22, <1>23, <1>24,
     <1>25, <1>26, <1>27, <1>28, <1>29, <1>30, <1>31, <1>32, <1>33, <1>34, <1>35,
     <1>36, <1>37, <1>38, <1>39, <1>40, <1>41 DEF Next, Start, Stop, Settings,
     Monitor, Remote, Process

\* The invariant holds after a fresh installation; an upgrade may begin with both
\* modes enabled.
LEMMA FactsHold ==
    ASSUME ~Legacy
    PROVE  Spec => []IndInv
<1>1. Init => IndInv
  <2>1. Init => Shapes
    BY ModesAssumption DEF Init, Shapes, ModesAssumption, Transports, StartSteps,
       StopSteps, OtherSteps
  <2>2. QED
    BY <2>1, ~Legacy DEF Init, IndInv, StartFacts, Switching, StopFacts, ResumeFacts,
       BootFacts, ModesApart, StopRecorded, ConsentRecorded
<1>2. IndInv /\ [Next]_vars => IndInv'
  BY FactsStep, ShapesStep, ~Legacy DEF IndInv
<1>3. QED
  BY <1>1, <1>2, PTL DEF Spec

\* A transport the user stopped stays down until the user starts it, whatever
\* monitor, phone, rotation, proxy change and restart do and whatever fails.
THEOREM StopIsFinal ==
    ASSUME ~Legacy
    PROVE  Spec => []StopHolds
<1>1. IndInv => StopHolds
  BY DEF IndInv, StopRecorded, StopHolds
<1>2. QED
  BY <1>1, FactsHold, ~Legacy, PTL

\* Tunnel and HTTPS never run together, also if starts, stops, status commands
\* and writes fail.
THEOREM ModesExclude ==
    ASSUME ~Legacy
    PROVE  Spec => []OneTransport
<1>1. IndInv => OneTransport
  BY DEF IndInv, ModesApart, OneTransport
<1>2. QED
  BY <1>1, FactsHold, ~Legacy, PTL

\* Until ChatX is up only the two steps of its start do anything to a transport.
LEMMA BootSteps ==
    ASSUME IndInv, [Next]_vars, proc \in {"down", "booting"}
    PROVE  \/ BootTunnel
           \/ BootHttps
           \/ proc' # "booting" /\ ~https'
           \/ proc' = proc /\ ~https'
<1>1. op = "none" /\ ~https
  BY DEF IndInv, BootFacts
<1>2. ~Start
  BY <1>1 DEF Start, BeginStart, MarkTarget, MarkOther, StopOld, Disable, StartTunnel,
     SaveTunnel, SaveSecret, ClearTunnel, StartHttps, SaveHttps, ClearHttps
<1>3. ~Stop
  BY <1>1 DEF Stop, BeginStop, StopMark, StopHalt, StopRecord
<1>4. ~Settings
  BY <1>1 DEF Settings, BeginRotate, Rotate, Resume, BeginProxy, ProxySaved,
     ProxyRestart, SetAutoReconnect, MainIdle
<1>5. ~Monitor
  BY DEF Monitor, MonitorLoads, MonitorRests, MonitorClaims, Due, MonitorReconnects,
     MonitorVerifies, Alive
<1>6. ~Remote
  BY DEF Remote, RemoteChecks, RemoteSubmits, RemoteReconnects, RemoteEnds, Alive
<1>7. CASE BackoffEnds
  BY <1>1, <1>7 DEF BackoffEnds, Elsewhere
<1>8. CASE Process
  BY <1>1, <1>8 DEF Process, Crash, ProcessEnds, Quit, MainIdle, QuitStops, Exit,
     RuntimeDies
<1>9. CASE UNCHANGED vars
  BY <1>1, <1>9 DEF vars
<1>10. QED
  BY <1>2, <1>3, <1>4, <1>5, <1>6, <1>7, <1>8, <1>9 DEF Next

\* What a restarted ChatX brings back is what the user last started with success.
THEOREM RestoreIsConsented ==
    ASSUME ~Legacy
    PROVE  Spec => RestoreNeedsConsent
<1> DEFINE Consented ==
        /\ proc = "down" /\ proc' = "booting" /\ desired' => "tunnel" \in consent
        /\ proc = "booting" /\ https' => "https" \in consent
<1>1. IndInv /\ [Next]_vars => [Consented]_vars
  <2>1. SUFFICES ASSUME IndInv, [Next]_vars
                 PROVE  [Consented]_vars
    OBVIOUS
  <2>2. CASE BootTunnel
    <3>1. desired' => intent /\ "tunnel" \notin markers
      BY <2>2 DEF BootTunnel, RestoreAllowed
    <3>2. QED
      BY <2>1, <2>2, <3>1 DEF BootTunnel, IndInv, ConsentRecorded
  <2>3. CASE BootHttps
    <3>1. ~https
      BY <2>1, <2>3 DEF BootHttps, IndInv, BootFacts
    <3>2. https' => enabled /\ "https" \notin markers
      BY <2>3, <3>1, LoadedSays DEF BootHttps, RestoreAllowed
    <3>3. QED
      BY <2>1, <2>3, <3>2 DEF BootHttps, IndInv, ConsentRecorded
  <2>4. QED
    BY <2>1, <2>2, <2>3, BootSteps
<1>2. QED
  BY <1>1, FactsHold, ~Legacy, PTL DEF Spec, RestoreNeedsConsent

=============================================================================
