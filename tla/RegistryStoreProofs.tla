------------------------- MODULE RegistryStoreProofs -------------------------
(***************************************************************************)
(* The registry file survives every crash, for any number of saves and any *)
(* file operations that fail, except the two that Windows must not lose:   *)
(* putting the backup back after a failed replacement, and adopting it at  *)
(* the next start.  Without the exception save() deletes the only copy.    *)
(***************************************************************************)
EXTENDS RegistryStore, TLAPS

\* On Windows a backup that is the only copy left can be renamed back.
BackupReturns ==
    Windows => "unshelve" \notin Faults /\ "adopt" \notin Faults

\* The contents that the two registry files hold at each point of save().
FilesAtStep ==
    /\ primary # Torn /\ backup # Torn
    /\ pc \in {"idle", "write", "wipe", "shelve", "replace", "unshelve"} => Recovered = acked
    /\ pc \in {"idle", "write", "wipe", "shelve"} => (Exists(backup) => Exists(primary))
    /\ pc \in {"wipe", "shelve", "replace", "unshelve"} => temp = mem
    /\ pc \in {"replace", "unshelve"} /\ Windows => primary = NoFile
    /\ pc = "sweep" => primary = mem
    /\ pc = "down" => Recovered \in {acked, mem}

\* The handler's two copies of the registry and what was acknowledged.
CopiesAtStep ==
    /\ acked <= mem /\ mem <= versions
    /\ pc \in Saving => previous = acked
    /\ pc = "idle" => mem = acked

\* The steps of the Windows build are not taken by the POSIX one.
PosixSteps ==
    ~Windows => backup = NoFile /\ pc \in {"down", "idle", "write", "replace"}

IndInv ==
    /\ TypeOK
    /\ FilesAtStep
    /\ CopiesAtStep
    /\ PosixSteps

-----------------------------------------------------------------------------
\* Every step keeps the inductive invariant when the backup can return.
LEMMA IndInvStep ==
    ASSUME BackupReturns, IndInv, [Next]_vars
    PROVE  IndInv'
<1> USE RegistryStoreAssumption
    DEF IndInv, TypeOK, FilesAtStep, CopiesAtStep, PosixSteps, BackupReturns, Recovered, Exists,
        NoFile, Torn, Default, Content, File, Saving, files
<1>1. CASE Mutate
  BY <1>1 DEF Mutate
<1>2. CASE WriteTemp
  BY <1>2 DEF WriteTemp, Goto, RollBack
<1>3. CASE WipeBackup
  BY <1>3 DEF WipeBackup, Goto
<1>4. CASE ShelvePrimary
  BY <1>4 DEF ShelvePrimary, Goto, RollBack
<1>5. CASE ReplacePrimary
  BY <1>5 DEF ReplacePrimary, Goto, Answer, RollBack
<1>6. CASE SweepBackup
  BY <1>6 DEF SweepBackup, Answer
<1>7. CASE UnshelveBackup
  BY <1>7 DEF UnshelveBackup, RollBack
<1>8. CASE Crash
  BY <1>8 DEF Crash
<1>9. CASE Load
  BY <1>9 DEF Load
<1>10. CASE UNCHANGED vars
  BY <1>10 DEF vars
<1>q. QED
  BY <1>1, <1>2, <1>3, <1>4, <1>5, <1>6, <1>7, <1>8, <1>9, <1>10 DEF Next

\* The inductive invariant holds in every reachable state.
THEOREM Invariance ==
    ASSUME BackupReturns
    PROVE  Spec => []IndInv
<1>1. Init => IndInv
  BY RegistryStoreAssumption
  DEF Init, IndInv, TypeOK, FilesAtStep, CopiesAtStep, PosixSteps, Recovered, Exists,
      NoFile, Torn, Default, Content, File, Saving
<1>2. IndInv /\ [Next]_vars => IndInv'
  BY IndInvStep
<1>q. QED
  BY <1>1, <1>2, PTL DEF Spec

\* Whatever save() was doing when the process died, load() finds the last
\* acknowledged registry or the one being written.
THEOREM SurvivesCrash ==
    ASSUME BackupReturns
    PROVE  Spec => []CrashSafe
<1>1. IndInv => CrashSafe
  BY RegistryStoreAssumption
  DEF IndInv, TypeOK, FilesAtStep, CrashSafe, Saving, Recovered, Exists, NoFile, Content
<1>q. QED
  BY <1>1, Invariance, PTL

\* Between two handlers memory, disk and what was acknowledged agree.
THEOREM DurableWhenIdle ==
    ASSUME BackupReturns
    PROVE  Spec => []IdleDurable
<1>1. IndInv => IdleDurable
  BY DEF IndInv, FilesAtStep, CopiesAtStep, IdleDurable
<1>q. QED
  BY <1>1, Invariance, PTL

\* No failed save, crash or restart takes an acknowledged registry back.
THEOREM NeverRegresses ==
    ASSUME BackupReturns
    PROVE  Spec => AckedNeverRegresses
<1>1. IndInv /\ [Next]_vars => [acked' >= acked]_vars
  <2> SUFFICES ASSUME IndInv, Next PROVE acked' >= acked
    BY DEF vars
  <2> USE DEF IndInv, TypeOK, CopiesAtStep, FilesAtStep, Content
  <2>1. CASE Load
    BY <2>1, RegistryStoreAssumption DEF Load
  <2>2. CASE ReplacePrimary
    BY <2>2, RegistryStoreAssumption DEF ReplacePrimary, Goto, Answer, RollBack
  <2>3. CASE SweepBackup
    BY <2>3, RegistryStoreAssumption DEF SweepBackup, Answer
  <2>4. CASE Mutate \/ WriteTemp \/ WipeBackup \/ ShelvePrimary \/ UnshelveBackup \/ Crash
    BY <2>4, RegistryStoreAssumption
    DEF Mutate, WriteTemp, WipeBackup, ShelvePrimary, UnshelveBackup, Crash, Goto, RollBack
  <2>q. QED
    BY <2>1, <2>2, <2>3, <2>4 DEF Next
<1>q. QED
  BY <1>1, Invariance, PTL DEF Spec, AckedNeverRegresses

-----------------------------------------------------------------------------
\* Every step of save(), the handlers and load() is a step of the durable
\* registry, or leaves what it shows unchanged.
LEMMA DurableStep ==
    ASSUME BackupReturns, IndInv, IndInv', [Next]_vars
    PROVE  [Durable!Next]_(Durable!vars)
<1> USE RegistryStoreAssumption
    DEF IndInv, TypeOK, FilesAtStep, CopiesAtStep, PosixSteps, BackupReturns, Recovered, Exists,
        NoFile, Torn, Default, Content, File, Saving, files, Durable!vars
<1>1. CASE Mutate
  <2>1. Durable!Begin
    BY <1>1 DEF Mutate, Durable!Begin
  <2>q. QED
    BY <2>1 DEF Durable!Next
<1>2. CASE WriteTemp
  <2>1. Durable!Fail \/ UNCHANGED Durable!vars
    BY <1>2 DEF WriteTemp, Goto, RollBack, Durable!Fail
  <2>q. QED
    BY <2>1 DEF Durable!Next
<1>3. CASE WipeBackup
  BY <1>3 DEF WipeBackup, Goto
<1>4. CASE ShelvePrimary
  <2>1. Durable!Fail \/ UNCHANGED Durable!vars
    BY <1>4 DEF ShelvePrimary, Goto, RollBack, Durable!Fail
  <2>q. QED
    BY <2>1 DEF Durable!Next
<1>5. CASE ReplacePrimary
  <2>1. Durable!Commit \/ Durable!Succeed \/ Durable!Fail \/ UNCHANGED Durable!vars
    BY <1>5 DEF ReplacePrimary, Goto, Answer, RollBack, Durable!Commit, Durable!Succeed, Durable!Fail
  <2>q. QED
    BY <2>1 DEF Durable!Next
<1>6. CASE SweepBackup
  <2>1. Durable!Succeed
    BY <1>6 DEF SweepBackup, Answer, Durable!Succeed
  <2>q. QED
    BY <2>1 DEF Durable!Next
<1>7. CASE UnshelveBackup
  <2>1. Durable!Fail
    BY <1>7 DEF UnshelveBackup, RollBack, Durable!Fail
  <2>q. QED
    BY <2>1 DEF Durable!Next
<1>8. CASE Crash
  <2>1. Durable!Die
    BY <1>8 DEF Crash, Durable!Die
  <2>q. QED
    BY <2>1 DEF Durable!Next
<1>9. CASE Load
  <2>1. Durable!Restart
    BY <1>9 DEF Load, Durable!Restart
  <2>q. QED
    BY <2>1 DEF Durable!Next
<1>10. CASE UNCHANGED vars
  BY <1>10 DEF vars
<1>q. QED
  BY <1>1, <1>2, <1>3, <1>4, <1>5, <1>6, <1>7, <1>8, <1>9, <1>10 DEF Next

\* The registry file implements the durable registry, for any number of saves
\* and any failing file operations except the two renames of the backup.
THEOREM FileImplementsDurable ==
    ASSUME BackupReturns
    PROVE  Spec => ImplementsDurable
<1>1. Init => Durable!Init
  BY DEF Init, Durable!Init, Recovered, Exists, NoFile, Default, Saving
<1>2. IndInv /\ IndInv' /\ [Next]_vars => [Durable!Next]_(Durable!vars)
  BY DurableStep
<1>q. QED
  BY <1>1, <1>2, Invariance, PTL DEF Spec, ImplementsDurable, Durable!Spec
=============================================================================
