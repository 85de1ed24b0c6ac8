------------------------ MODULE RecordingProfileProofs ------------------------
(***************************************************************************)
(* Proofs about RecordingProfile for every bound on faults, crashes and    *)
(* launches, with and without a tf/cfg folder: the user's tf/cfg is never  *)
(* lost, a cleared recovery pointer means that everything is back (in calm *)
(* weather) or everything but the offline CFG (in any), and the protocol   *)
(* implements ProfileLease.  In calm weather tf/custom is never lost       *)
(* either.                                                                 *)
(***************************************************************************)
EXTENDS RecordingProfile, TLAPS

\* The steps of a restore after the named one has been taken.
AfterPrune  == {"hitsounds", "clearCfg", "putCfg", "dxLevel", "verify",
                "dropBackup", "dropPointer"}
AfterPutCfg == {"dxLevel", "verify", "dropBackup", "dropPointer"}
AfterVerify == {"dropBackup", "dropPointer"}

\* The staging steps that run with the original cfg in the backup.
AfterMoveCfg == {"copyCfg", "moveCustom", "fillCustom", "install", "writeCfg",
                 "launch"}
BeforeMoveCustom == {"moveCfg", "copyCfg", "moveCustom"}

\* What the user had is whole; the facts of a session describe it.
OrigInv ==
    /\ orig.custom = NoCustom \/ orig.custom.own = "orig"
    /\ orig.custom.helper \in {"absent", "orig"}
    /\ orig.cfg = NoCfg \/ orig.cfg.own = "orig"
    /\ orig.cfg.profileCfg \in {"absent", "orig"}
    /\ orig.cfg.offline \in {"absent", "orig"}

FactsInv ==
    Leased =>
        /\ pointer.customExisted = Here(orig.custom.own)
        /\ pointer.profileExisted = Here(orig.custom.helper)
        /\ pointer.profileCfgExisted = Here(orig.cfg.profileCfg)
        /\ pointer.cfgExisted = Here(orig.cfg.own)

\* Who may be at work: a launch stages alone and holds the lease from the
\* moment the first original moves; the lock is held by a caller that wants it.
ControlInv ==
    /\ StageAlone
    /\ ui \in {"prepare", "pointer"} => ~ Leased
    /\ ui \in {"moveCfg"} \cup AfterMoveCfg => Leased
    /\ ui \in {"boot", "relaunch", "undo"} => finalizer = "none"
    /\ ui = "down" => finalizer = "none" /\ lock = "free"
    /\ lock # "free" => Leased
    /\ lock = "ui" => ui \in RestoreFor
    /\ lock = "finalizer" => finalizer = "restore"

\* The user's cfg folder, maybe without its offline CFG.
Safe(content) ==
    /\ content.own = orig.cfg.own /\ content.profileCfg = orig.cfg.profileCfg
    /\ content.offline \in {"absent", orig.cfg.offline}

\* The original cfg folder is in the backup, or it is the live one; a restore
\* that saw it in the backup finds it there until it renames it back.
CfgInv ==
    /\ backup.cfg = NoCfg \/ (orig.cfg.own = "orig" /\ Safe(backup.cfg))
    /\ orig.cfg.own = "orig" /\ backup.cfg.own = "absent" =>
          /\ cfg.own = "orig" /\ cfg.profileCfg \in {"absent", orig.cfg.profileCfg}
          /\ cfg.offline \in {"absent", orig.cfg.offline}
    /\ orig.cfg.own = "absent" => cfg.own = "empty" \/ cfg = NoCfg
    /\ ui = "moveCfg" => backup.cfg = NoCfg /\ Safe(cfg)
    /\ ui \in AfterMoveCfg =>
          /\ backup.cfg.own = orig.cfg.own
          /\ orig.cfg.own = "absent" => cfg.own = "empty"
    /\ lock # "free" =>
          /\ snapshot /\ step \notin AfterPutCfg => Here(backup.cfg.own)
          /\ ~ snapshot \/ step \in AfterPutCfg => backup.cfg = NoCfg
          /\ step \in AfterVerify => Safe(cfg)

\* The same for tf/custom, as far as it goes: an isolated session may lose it
\* (CustomNeverLost does not hold), but no restore gets past putting it back
\* without having it.
CustomInv ==
    /\ backup.custom \in {NoCustom, orig.custom}
    /\ backup.helper \in {"absent", orig.custom.helper}
    /\ ui \in BeforeMoveCustom =>
          custom = orig.custom /\ backup.custom = NoCustom /\ backup.helper = "absent"
    /\ Leased /\ pointer.isolated => backup.helper = "absent"
    /\ Leased /\ ~ pointer.isolated =>
          /\ backup.custom = NoCustom
          /\ IF orig.custom.own = "orig" THEN custom.own = "orig"
             ELSE custom.own \in {"absent", "empty"}
          /\ ui = "fillCustom" =>
                custom.helper = orig.custom.helper /\ backup.helper = "absent"
    /\ lock # "free" =>
          /\ step = "putCustom" =>
                IF pointer.isolated THEN custom = NoCustom ELSE custom.helper = "absent"
          /\ step = "prune" =>
                /\ custom.helper = orig.custom.helper
                /\ backup.custom = NoCustom /\ backup.helper = "absent"
                /\ pointer.isolated => custom = orig.custom
          /\ step \in AfterPrune =>
                custom = orig.custom /\ backup.custom = NoCustom /\ backup.helper = "absent"

ClearedInv == ~ Leased => custom = orig.custom /\ Safe(cfg) /\ NothingStranded

IInv == /\ TypeOK /\ OrigInv /\ FactsInv /\ ControlInv /\ CfgInv /\ CustomInv
        /\ ClearedInv


-----------------------------------------------------------------------------
(* Type correctness *)

LEMMA InitTypeOK == Init => TypeOK
<1> SUFFICES ASSUME Init PROVE TypeOK
  OBVIOUS
<1> USE DEF CustomFolder, CfgFolder, FolderState, FileState, NoCustom, NoCfg
<1>1. orig \in [custom : CustomFolder, cfg : CfgFolder, hitsounds : BOOLEAN]
  <2>1. {NoCustom} \cup [own : {"orig"}, helper : {"absent", "orig"}]
            \subseteq CustomFolder
    OBVIOUS
  <2>2. /\ {NoCfg} \subseteq CfgFolder
        /\ [own : {"orig"}, profileCfg : {"absent", "orig"},
            offline : {"absent", "orig"}] \subseteq CfgFolder
    OBVIOUS
  <2> QED BY <2>1, <2>2 DEF Init
<1>2. custom \in CustomFolder /\ cfg \in CfgFolder
  BY <1>1 DEF Init
<1>3. backup \in Backup
  BY DEF Init, Backup, NoBackup
<1>4. /\ pointer = NoSession /\ ui = "down" /\ finalizer = "none" /\ lock = "free"
      /\ step = "clearCustom" /\ snapshot \in BOOLEAN /\ hlae \in BOOLEAN /\ tf2 = "off"
      /\ faults = 0 /\ crashes = 0 /\ launches = 0 /\ interrupted \in BOOLEAN
  BY DEF Init
<1> HIDE DEF CustomFolder, CfgFolder
<1> QED BY <1>1, <1>2, <1>3, <1>4, ProfileAssumption
        DEF TypeOK, ProfileAssumption, UiStates, RestoreSteps

\* The folders of the disk keep their types, whoever writes them.
DiskTypeOK == /\ custom \in CustomFolder /\ cfg \in CfgFolder /\ backup \in Backup
              /\ pointer \in Session \cup {NoSession}

ThreadsTypeOK ==
    /\ ui \in UiStates
    /\ finalizer \in {"none", "starting", "watching", "restore"}
    /\ lock \in Actors \cup {"free"}
    /\ step \in RestoreSteps
    /\ snapshot \in BOOLEAN

BoundsTypeOK == /\ faults \in 0..MaxFaults
                /\ crashes \in 0..MaxCrashes
                /\ launches \in 0..MaxLaunches
                /\ interrupted \in BOOLEAN

LEMMA FinishTypeOK ==
    ASSUME TypeOK, NEW a \in Actors, NEW ok \in BOOLEAN, Finish(a, ok)
    PROVE  ThreadsTypeOK'
  BY DEF TypeOK, Finish, ThreadsTypeOK, UiStates, StageSteps, RestoreFor, Actors, RestoreSteps

LEMMA FaultTypeOK ==
    ASSUME TypeOK, Fault \/ UNCHANGED bounds PROVE BoundsTypeOK'
  BY ProfileAssumption DEF TypeOK, Fault, bounds, BoundsTypeOK, ProfileAssumption

LEMMA DiskUnchanged ==
    ASSUME TypeOK, UNCHANGED <<files, pointer>> PROVE DiskTypeOK'
  BY DEF TypeOK, files, DiskTypeOK

LEMMA FolderTypes ==
    /\ {"absent", "temp"} \subseteq FileState /\ "empty" \in FolderState
    /\ NoCustom \in CustomFolder
    /\ NoCfg \in CfgFolder /\ EmptyCfg \in CfgFolder
    /\ NoBackup \in Backup
    /\ \A c \in FileState : Copied(c) \in FileState /\ PartlyRemoved(c) \in FileState
    /\ \A c \in FolderState : PartlyRemoved(c) \in FolderState
    /\ FileState \subseteq FolderState
  BY DEF FileState, FolderState, NoCustom, NoCfg, EmptyCfg, NoBackup, CustomFolder,
         CfgFolder, Backup, Copied, PartlyRemoved, Here

LEMMA StageTypeOK == TypeOK /\ Stage => TypeOK'
<1> SUFFICES ASSUME TypeOK, Stage PROVE TypeOK'
  OBVIOUS
<1>1. ThreadsTypeOK' /\ UNCHANGED <<orig, game, bounds>>
  BY DEF TypeOK, Stage, ThreadsTypeOK, Staging, UiStates, StageSteps, RestoreFor,
         PrepareBackup, WritePointer, MoveCfg, CopyCfg, MoveCustom, FillCustom,
         InstallResources, WriteProfileCfg
<1>2. DiskTypeOK'
  <2>0. DiskTypeOK /\ orig.hitsounds \in BOOLEAN
    BY DEF TypeOK, DiskTypeOK
  <2> USE <2>0, FolderTypes DEF DiskTypeOK, files
  <2>1. CASE PrepareBackup BY <2>1 DEF PrepareBackup, Backup, NoBackup
  <2>2. CASE WritePointer BY <2>2 DEF WritePointer, Captured, Session, Here
  <2>3. CASE MoveCfg BY <2>3 DEF MoveCfg, Backup
  <2>4. CASE CopyCfg BY <2>4 DEF CopyCfg, Backup, CfgFolder
  <2>5. CASE MoveCustom BY <2>5 DEF MoveCustom, Backup, CustomFolder
  <2>6. CASE FillCustom BY <2>6 DEF FillCustom, Backup, CustomFolder
  <2>7. CASE InstallResources BY <2>7 DEF InstallResources, CustomFolder
  <2>8. CASE WriteProfileCfg BY <2>8 DEF WriteProfileCfg, CfgFolder
  <2> QED BY Stage, <2>1, <2>2, <2>3, <2>4, <2>5, <2>6, <2>7, <2>8 DEF Stage
<1> QED BY <1>1, <1>2 DEF TypeOK, ThreadsTypeOK, DiskTypeOK, game, bounds

LEMMA RestoreTypeOK ==
    ASSUME TypeOK, NEW a \in Actors,
           BeginRestore(a) \/ RestoreStep(a) \/ RestoreBreaks(a)
    PROVE  TypeOK'
<1>1. (Fault \/ UNCHANGED bounds) /\ UNCHANGED <<orig, game>>
  BY DEF RestoreStep, RestoreBreaks, Restoring, BeginRestore, ClearCustom, PutCustom,
         PruneCustom, RestoreHitsounds, ClearCfg, PutCfg, RestoreDxLevel, Verify,
         DropBackup, DropPointer, StepFails, ClearCustomBreaks, ClearCfgBreaks,
         DropBackupBreaks, Continue
<1>2. ThreadsTypeOK'
  <2>1. \/ \E ok \in BOOLEAN : Finish(a, ok)
        \/ step' \in RestoreSteps /\ UNCHANGED <<ui, finalizer, lock, snapshot>>
        \/ /\ lock' = a /\ step' = "clearCustom" /\ snapshot' \in BOOLEAN
           /\ UNCHANGED <<ui, finalizer>>
    BY DEF RestoreStep, RestoreBreaks, Restoring, Abort, BeginRestore, ClearCustom,
           PutCustom, PruneCustom, RestoreHitsounds, ClearCfg, PutCfg, RestoreDxLevel,
           Verify, DropBackup, DropPointer, StepFails, ClearCustomBreaks,
           ClearCfgBreaks, DropBackupBreaks, Continue, RestoreSteps, Here
  <2> QED BY <2>1, FinishTypeOK DEF TypeOK, ThreadsTypeOK, RestoreSteps, Actors
<1>3. DiskTypeOK'
  <2>0. DiskTypeOK
    BY DEF TypeOK, DiskTypeOK
  <2>1. ASSUME BeginRestore(a) \/ RestoreHitsounds(a) \/ RestoreDxLevel(a)
               \/ Verify(a) \/ StepFails(a)
        PROVE  DiskTypeOK'
    BY <2>1, DiskUnchanged DEF BeginRestore, RestoreHitsounds, RestoreDxLevel, Verify,
                               StepFails, Abort, Continue
  <2>2. ASSUME DropPointer(a) PROVE DiskTypeOK'
    BY <2>0, <2>2 DEF DropPointer, DiskTypeOK, files
  <2> USE <2>0, FolderTypes DEF DiskTypeOK, Continue, Abort
  <2>3. ASSUME ClearCustom(a) PROVE DiskTypeOK'
    BY <2>3 DEF ClearCustom, CustomFolder
  <2>4. ASSUME PutCustom(a) PROVE DiskTypeOK'
    BY <2>4 DEF PutCustom, Backup, CustomFolder, files
  <2>5. ASSUME PruneCustom(a) PROVE DiskTypeOK'
    BY <2>5 DEF PruneCustom
  <2>6. ASSUME ClearCfg(a) PROVE DiskTypeOK'
    BY <2>6 DEF ClearCfg, CfgFolder
  <2>7. ASSUME PutCfg(a) PROVE DiskTypeOK'
    BY <2>7 DEF PutCfg, CfgFolder, Backup
  <2>8. ASSUME DropBackup(a) PROVE DiskTypeOK'
    BY <2>8 DEF DropBackup
  <2>9. ASSUME ClearCustomBreaks(a) PROVE DiskTypeOK'
    BY <2>9 DEF ClearCustomBreaks, CustomFolder
  <2>10. ASSUME ClearCfgBreaks(a) PROVE DiskTypeOK'
    BY <2>10 DEF ClearCfgBreaks, CfgFolder
  <2>11. ASSUME DropBackupBreaks(a) PROVE DiskTypeOK'
    BY <2>11 DEF DropBackupBreaks, Backup
  <2> QED BY <2>1, <2>2, <2>3, <2>4, <2>5, <2>6, <2>7, <2>8, <2>9, <2>10, <2>11
          DEF RestoreStep, RestoreBreaks
<1> QED BY <1>1, <1>2, <1>3, FaultTypeOK
        DEF TypeOK, ThreadsTypeOK, DiskTypeOK, BoundsTypeOK, game

LEMMA NextTypeOK == TypeOK /\ [Next]_vars => TypeOK'
<1> SUFFICES ASSUME TypeOK, [Next]_vars PROVE TypeOK'
  OBVIOUS
<1> USE DEF TypeOK, DiskTypeOK, BoundsTypeOK, UiStates, StageSteps, RestoreFor,
            RestoreSteps, Actors, game
<1>1. CASE Boot BY <1>1, DiskUnchanged DEF Boot, bounds
<1>2. CASE Launch
  <2>1. launches' \in 0..MaxLaunches
    BY <1>2, ProfileAssumption DEF Launch, ProfileAssumption
  <2> QED BY <1>2, <2>1, DiskUnchanged DEF Launch
<1>3. CASE CloseWindow BY <1>3, DiskUnchanged DEF CloseWindow, bounds
<1>4. CASE CloseTf2Stuck
  BY <1>4, DiskUnchanged, FaultTypeOK DEF CloseTf2Stuck, HelperGone
<1>5. CASE Stage BY <1>5, StageTypeOK
<1>6. CASE StageFails BY <1>6, DiskUnchanged, FaultTypeOK DEF StageFails
<1>7. CASE SpawnHlae BY <1>7, DiskUnchanged DEF SpawnHlae, bounds
<1>8. CASE SpawnFails \/ LaunchLogFails
  BY <1>8, DiskUnchanged, FaultTypeOK DEF SpawnFails, LaunchLogFails
<1>9. CASE HlaeStartsTf2 \/ Tf2Exits
  <2>1. DiskTypeOK' /\ UNCHANGED <<orig, control, bounds>>
    BY <1>9, DiskUnchanged DEF HlaeStartsTf2, Tf2Exits
  <2>2. hlae' \in BOOLEAN /\ tf2' \in {"off", "running"}
    BY <1>9 DEF HlaeStartsTf2, Tf2Exits
  <2> QED BY <2>1, <2>2 DEF control, bounds
<1>10. CASE Watch
  <2>1. DiskTypeOK' /\ BoundsTypeOK' /\ UNCHANGED <<orig, ui, lock, step, snapshot>>
    BY <1>10, DiskUnchanged, FaultTypeOK
       DEF Watch, SeeTf2, GiveUpOnTf2, ConfirmExit, StopStalled
  <2>2. /\ finalizer' \in {"watching", "restore"}
        /\ hlae' \in BOOLEAN /\ tf2' \in {"off", "running"}
    BY <1>10 DEF Watch, SeeTf2, GiveUpOnTf2, ConfirmExit, StopStalled
  <2> QED BY <2>1, <2>2
<1>11. CASE \E a \in Actors : BeginRestore(a) \/ RestoreStep(a) \/ RestoreBreaks(a)
  BY <1>11, RestoreTypeOK
<1>12. CASE Crash
  <2>1. crashes' \in 0..MaxCrashes /\ interrupted' \in BOOLEAN
    BY <1>12, ProfileAssumption DEF Crash, ProfileAssumption
  <2> QED BY <1>12, <2>1, DiskUnchanged DEF Crash, HelperGone
<1>13. CASE UNCHANGED vars BY <1>13 DEF vars, files, control, bounds
<1> QED BY <1>1, <1>2, <1>3, <1>4, <1>5, <1>6, <1>7, <1>8, <1>9, <1>10, <1>11,
           <1>12, <1>13 DEF Next

\* Every reachable state has the types the declarations of RecordingProfile say.
THEOREM TypeInvariant == Spec => []TypeOK
  BY InitTypeOK, NextTypeOK, PTL DEF Spec

-----------------------------------------------------------------------------
(* The inductive invariant.  A step is proved from the whole of IInv: the    *)
(* place of the original cfg folder, for instance, depends on who holds the  *)
(* lock (ControlInv) and on what the session record says (FactsInv).         *)

LEMMA InitIInv == Init => IInv
<1> SUFFICES ASSUME Init PROVE IInv
  OBVIOUS
<1>1. TypeOK BY InitTypeOK
<1>2. OrigInv
  BY DEF Init, OrigInv, NoCustom, NoCfg
<1>3. FactsInv /\ ControlInv
  BY DEF Init, FactsInv, ControlInv, StageAlone, Leased, StageSteps, AfterMoveCfg
<1>4. CfgInv
  BY <1>2 DEF Init, CfgInv, OrigInv, NoBackup, NoCfg, AfterMoveCfg
<1>5. CustomInv /\ ClearedInv
  BY DEF Init, CustomInv, ClearedInv, NothingStranded, Safe, Leased, BeforeMoveCustom,
         NoBackup
<1> QED BY <1>1, <1>2, <1>3, <1>4, <1>5 DEF IInv

\* The snapshot flag is read when the lock is taken, so it says where the
\* original cfg folder is at that moment.
LEMMA SnapshotCfgInv ==
    ASSUME OrigInv, CfgInv, UNCHANGED <<orig, cfg, backup, ui>>,
           step' = "clearCustom", snapshot' = (backup.cfg.own # "absent")
    PROVE  CfgInv'
<1>1. snapshot' \/ backup.cfg.own = "absent"
  BY Zenon
<1>2. ~ snapshot' \/ backup.cfg.own # "absent"
  BY Zenon
<1>3. backup.cfg.own = "absent" => backup.cfg = NoCfg
  BY DEF OrigInv, CfgInv, NoCfg, Safe
<1>4. step' \notin AfterPutCfg /\ step' \notin AfterVerify
  BY DEF AfterPutCfg, AfterVerify
<1> QED BY <1>1, <1>2, <1>3, <1>4 DEF CfgInv, Here, Safe

\* The parts of the invariant and the vocabulary of the actions: what every
\* step below looks into.
USE DEF IInv, OrigInv, FactsInv, ControlInv, StageAlone, CfgInv, CustomInv,
        ClearedInv, NothingStranded, Safe, AfterPrune, AfterPutCfg, AfterVerify,
        AfterMoveCfg, BeforeMoveCustom, Leased, StageSteps, RestoreFor, Actors,
        files, game, bounds, NoCustom, NoCfg, NoBackup, Here

\* Staging moves each original into the backup once, from where it is whole.
LEMMA StageIInv == IInv /\ TypeOK' /\ Stage => IInv'
<1> SUFFICES ASSUME IInv, TypeOK', Stage PROVE IInv'
  OBVIOUS
<1> USE DEF TypeOK, CustomFolder, CfgFolder, Backup, Session, NoSession, FolderState,
            FileState, Staging
<1>1. CASE PrepareBackup BY <1>1 DEF PrepareBackup
<1>2. CASE WritePointer BY <1>2 DEF WritePointer, Captured
<1>3. CASE MoveCfg BY <1>3 DEF MoveCfg, EmptyCfg
<1>4. CASE CopyCfg BY <1>4 DEF CopyCfg, Copied
<1>5. CASE MoveCustom BY <1>5 DEF MoveCustom
<1>6. CASE FillCustom BY <1>6 DEF FillCustom
<1>7. CASE InstallResources BY <1>7 DEF InstallResources
<1>8. CASE WriteProfileCfg BY <1>8 DEF WriteProfileCfg
<1> QED BY <1>1, <1>2, <1>3, <1>4, <1>5, <1>6, <1>7, <1>8 DEF Stage

\* Taking the lock, or finding that there is nothing left to restore.
LEMMA BeginRestoreIInv ==
    ASSUME IInv, TypeOK', NEW a \in Actors, BeginRestore(a) PROVE IInv'
<1>1. CASE Leased
  <2>1. /\ UNCHANGED <<orig, custom, cfg, backup, pointer, ui, finalizer>>
        /\ lock' = a /\ step' = "clearCustom"
    BY <1>1 DEF BeginRestore, Finish
  <2>2. snapshot' = (backup.cfg.own # "absent")
    BY <1>1 DEF BeginRestore
  <2>3. CfgInv'
    BY <2>1, <2>2, SnapshotCfgInv
  <2> QED BY <1>1, <2>1, <2>3 DEF BeginRestore, Wants, NoSession
<1>2. CASE ~ Leased
  <2>1. /\ UNCHANGED <<orig, custom, cfg, backup, pointer>>
        /\ Finish(a, TRUE)
    BY <1>2 DEF BeginRestore
  <2> QED BY <1>2, <2>1 DEF Finish, BeginRestore, Wants
<1> QED BY <1>1, <1>2

\* A restore puts each original back from where the session left it, and gets
\* past the verification only with both in place.
LEMMA RestoreIInv ==
    ASSUME IInv, TypeOK', NEW a \in Actors, RestoreStep(a) \/ RestoreBreaks(a)
    PROVE  IInv'
<1> USE DEF TypeOK, CustomFolder, CfgFolder, Backup, Session, NoSession, FolderState,
            FileState, Restoring, Continue, Abort, Finish
<1>1. CASE ClearCustom(a) BY <1>1 DEF ClearCustom
<1>2. CASE PutCustom(a) BY <1>2 DEF PutCustom, OriginalExisted, OriginalSaved
<1>3. CASE PruneCustom(a) BY <1>3 DEF PruneCustom
<1>4. CASE RestoreHitsounds(a) BY <1>4 DEF RestoreHitsounds
<1>5. CASE ClearCfg(a) BY <1>5 DEF ClearCfg
<1>6. CASE PutCfg(a) BY <1>6 DEF PutCfg
<1>7. CASE RestoreDxLevel(a) BY <1>7 DEF RestoreDxLevel
<1>8. CASE Verify(a) BY <1>8 DEF Verify, Verified
<1>9. CASE DropBackup(a) BY <1>9 DEF DropBackup
<1>10. CASE DropPointer(a) BY <1>10 DEF DropPointer
<1>11. CASE StepFails(a) BY <1>11 DEF StepFails
<1>12. CASE ClearCustomBreaks(a) BY <1>12 DEF ClearCustomBreaks, PartlyRemoved
<1>13. CASE ClearCfgBreaks(a) BY <1>13 DEF ClearCfgBreaks, PartlyRemoved
<1>14. CASE DropBackupBreaks(a) BY <1>14 DEF DropBackupBreaks
<1> QED BY <1>1, <1>2, <1>3, <1>4, <1>5, <1>6, <1>7, <1>8, <1>9, <1>10, <1>11,
           <1>12, <1>13, <1>14 DEF RestoreStep, RestoreBreaks

LEMMA NextIInv == IInv /\ [Next]_vars => IInv'
<1> SUFFICES ASSUME IInv, [Next]_vars PROVE IInv'
  OBVIOUS
<1>0. TypeOK'
  BY NextTypeOK
<1> USE <1>0
<1>1. CASE Boot BY <1>1 DEF Boot
<1>2. CASE Launch BY <1>2 DEF Launch
<1>3. CASE CloseWindow BY <1>3 DEF CloseWindow
<1>4. CASE CloseTf2Stuck BY <1>4 DEF CloseTf2Stuck, HelperGone
<1>5. CASE Stage BY <1>5, StageIInv
<1>6. CASE StageFails BY <1>6 DEF StageFails
<1>7. CASE SpawnHlae BY <1>7 DEF SpawnHlae
<1>8. CASE SpawnFails \/ LaunchLogFails BY <1>8 DEF SpawnFails, LaunchLogFails
<1>9. CASE HlaeStartsTf2 \/ Tf2Exits BY <1>9 DEF HlaeStartsTf2, Tf2Exits, control
<1>10. CASE Watch
  BY <1>10 DEF Watch, SeeTf2, GiveUpOnTf2, ConfirmExit, StopStalled
<1>11. CASE \E a \in Actors : BeginRestore(a) \/ RestoreStep(a) \/ RestoreBreaks(a)
  BY <1>11, BeginRestoreIInv, RestoreIInv
<1>12. CASE Crash BY <1>12 DEF Crash, HelperGone
<1>13. CASE UNCHANGED vars BY <1>13 DEF vars, control
<1> QED BY <1>1, <1>2, <1>3, <1>4, <1>5, <1>6, <1>7, <1>8, <1>9, <1>10, <1>11,
           <1>12, <1>13 DEF Next

HIDE DEF IInv, OrigInv, FactsInv, ControlInv, StageAlone, CfgInv, CustomInv,
         ClearedInv

\* The strengthened invariant of marker, backup and the two threads.
THEOREM InductiveInvariant == Spec => []IInv
  BY InitIInv, NextIInv, PTL DEF Spec

\* The user's tf/cfg is never lost, whatever fails and wherever the helper
\* dies: it is live, or it is the cfg_original of the backup folder.
THEOREM CfgIsNeverLost == Spec => []CfgNeverLost
<1>1. IInv => CfgNeverLost
  BY DEF IInv, OrigInv, CfgInv, CfgNeverLost, NoCfg, Safe
<1> QED BY <1>1, InductiveInvariant, PTL

\* One restore at a time, and none while the next profile is being staged.
THEOREM StagesAlone == Spec => []StageAlone
<1>1. IInv => StageAlone
  BY DEF IInv, ControlInv
<1> QED BY <1>1, InductiveInvariant, PTL

-----------------------------------------------------------------------------
(* Calm weather *)

BeforePutCfg == RestoreSteps \ AfterPutCfg

\* A session that has moved the folders keeps them in the backup until it has put
\* them back, and then no step of the restore gives up: the restore has seen
\* cfg_original, the hitsounds are saved, and the verification finds both folders.
CalmBody ==
    /\ ui = "pointer" => backup.hitsounds = orig.hitsounds
    /\ ~ Leased \/ ui = "moveCfg" => cfg = orig.cfg
    /\ ui \in AfterMoveCfg => backup.cfg = orig.cfg
    /\ Leased =>
          /\ pointer.hitsounds = orig.hitsounds
          /\ lock = "free" \/ step # "dropPointer" => backup.hitsounds = orig.hitsounds
    /\ Leased /\ ui \notin StageSteps =>
          /\ lock = "free" \/ step \in BeforePutCfg => backup.cfg = orig.cfg
          /\ lock # "free" /\ step \in BeforePutCfg => snapshot
          /\ lock # "free" /\ step \in AfterPutCfg => cfg = orig.cfg
    /\ Leased /\ pointer.isolated =>
          /\ ui \in {"fillCustom", "install", "writeCfg", "launch"} =>
                backup.custom = orig.custom
          /\ ui \notin StageSteps =>
                (lock = "free" \/ step \in {"clearCustom", "putCustom"} =>
                    backup.custom = orig.custom)

CalmInv == Calm => CalmBody

LEMMA InitCalm == Init => CalmInv
  BY DEF Init, CalmInv, CalmBody, Leased, StageSteps, AfterMoveCfg

\* A storm is not forgotten: no fault and no interruption is ever taken back.
LEMMA CalmBefore == TypeOK /\ [Next]_vars /\ Calm' => Calm
<1> SUFFICES ASSUME TypeOK, [Next]_vars, Calm' PROVE Calm
  OBVIOUS
<1>1. UNCHANGED orig
  BY DEF Next, Boot, Launch, CloseWindow, CloseTf2Stuck, HelperGone, Stage,
         PrepareBackup, WritePointer, MoveCfg, CopyCfg, MoveCustom, FillCustom,
         InstallResources, WriteProfileCfg, Staging, StageFails, SpawnHlae, SpawnFails,
         LaunchLogFails, HlaeStartsTf2, Tf2Exits, Watch, SeeTf2, GiveUpOnTf2,
         ConfirmExit, StopStalled, RestoreStep, RestoreBreaks, Restoring, BeginRestore,
         ClearCustom, PutCustom, PruneCustom, RestoreHitsounds, ClearCfg, PutCfg,
         RestoreDxLevel, Verify, DropBackup, DropPointer, StepFails, ClearCustomBreaks,
         ClearCfgBreaks, DropBackupBreaks, Crash, vars
<1>2. /\ Fault \/ UNCHANGED faults
      /\ interrupted => interrupted'
  <2>1. ASSUME NEW a \in Actors, BeginRestore(a) \/ RestoreStep(a) \/ RestoreBreaks(a)
        PROVE  Fault \/ UNCHANGED bounds
    BY <2>1 DEF RestoreStep, RestoreBreaks, BeginRestore, ClearCustom, PutCustom,
       PruneCustom, RestoreHitsounds, ClearCfg, PutCfg, RestoreDxLevel, Verify,
       DropBackup, DropPointer, StepFails, ClearCustomBreaks, ClearCfgBreaks,
       DropBackupBreaks, Continue
  <2>2. CASE Stage
    BY <2>2 DEF Stage, PrepareBackup, WritePointer, MoveCfg, CopyCfg, MoveCustom,
       FillCustom, InstallResources, WriteProfileCfg, Staging, bounds
  <2>3. CASE Boot \/ CloseWindow \/ SpawnHlae \/ HlaeStartsTf2 \/ Tf2Exits \/ Watch
             \/ CloseTf2Stuck \/ StageFails \/ SpawnFails \/ LaunchLogFails
    <3>1. Fault \/ UNCHANGED bounds
      BY <2>3 DEF Boot, CloseWindow, SpawnHlae, HlaeStartsTf2, Tf2Exits, Watch, SeeTf2,
         GiveUpOnTf2, ConfirmExit, StopStalled, CloseTf2Stuck, StageFails, SpawnFails,
         LaunchLogFails
    <3> QED BY <3>1 DEF Fault, bounds
  <2>4. CASE Launch \/ UNCHANGED vars
    BY <2>4 DEF Launch, vars, bounds
  <2>5. CASE Crash
    <3>1. interrupted' = (interrupted \/ ui # "idle" \/ lock # "free")
      BY <2>5 DEF Crash
    <3>2. interrupted => interrupted'
      BY ONLY <3>1, Zenon
    <3> QED BY <2>5, <3>2 DEF Crash
  <2> QED BY <2>1, <2>2, <2>3, <2>4, <2>5 DEF Next, Fault, bounds
<1>3. faults \in Nat
  BY ProfileAssumption DEF TypeOK, ProfileAssumption
<1> QED BY <1>1, <1>2, <1>3 DEF Calm, Fault

LEMMA NothingFails == TypeOK /\ Calm' => ~ Fault
<1> SUFFICES ASSUME TypeOK, Calm', Fault PROVE FALSE
  OBVIOUS
<1>1. faults \in Nat
  BY ProfileAssumption DEF TypeOK, ProfileAssumption
<1> QED BY <1>1 DEF Calm, Fault

USE DEF IInv, OrigInv, FactsInv, ControlInv, StageAlone, CfgInv, CustomInv,
        ClearedInv, CalmBody, BeforePutCfg, RestoreSteps

LEMMA StageCalm == IInv /\ TypeOK' /\ CalmBody /\ Calm /\ Stage => CalmBody'
<1> SUFFICES ASSUME IInv, TypeOK', CalmBody, Calm, Stage PROVE CalmBody'
  OBVIOUS
<1> USE DEF TypeOK, CustomFolder, CfgFolder, Backup, Session, NoSession, FolderState,
            FileState, Staging, Calm
<1>1. CASE PrepareBackup BY <1>1 DEF PrepareBackup
<1>2. CASE WritePointer BY <1>2 DEF WritePointer, Captured
<1>3. CASE MoveCfg BY <1>3 DEF MoveCfg, EmptyCfg
<1>4. CASE CopyCfg BY <1>4 DEF CopyCfg, Copied
<1>5. CASE MoveCustom BY <1>5 DEF MoveCustom
<1>6. CASE FillCustom BY <1>6 DEF FillCustom
<1>7. CASE InstallResources BY <1>7 DEF InstallResources
<1>8. CASE WriteProfileCfg BY <1>8 DEF WriteProfileCfg
<1> QED BY <1>1, <1>2, <1>3, <1>4, <1>5, <1>6, <1>7, <1>8 DEF Stage

LEMMA BeginRestoreCalm ==
    ASSUME IInv, TypeOK', CalmBody, Calm, NEW a \in Actors, BeginRestore(a)
    PROVE  CalmBody'
<1>1. CASE Leased
  <2>1. /\ UNCHANGED <<orig, custom, cfg, backup, pointer, ui, finalizer>>
        /\ lock' = a /\ step' = "clearCustom" /\ lock = "free" /\ ui \notin StageSteps
    BY <1>1 DEF BeginRestore, Finish, Wants
  <2>2. snapshot' = (backup.cfg.own # "absent")
    BY <1>1 DEF BeginRestore
  <2>3. snapshot'
    <3>1. backup.cfg.own = "orig"
      BY <1>1, <2>1 DEF Calm
    <3>2. backup.cfg.own # "absent"
      BY <3>1
    <3> QED BY ONLY <2>2, <3>2, Zenon
  <2> QED BY <1>1, <2>1, <2>3
<1>2. CASE ~ Leased
  <2>1. UNCHANGED <<orig, custom, cfg, backup, pointer>> /\ Finish(a, TRUE)
    BY <1>2 DEF BeginRestore
  <2> QED BY <1>2, <2>1 DEF Finish, BeginRestore, Wants
<1> QED BY <1>1, <1>2

LEMMA RestoreCalm ==
    ASSUME IInv, TypeOK', CalmBody, Calm, Calm', NEW a \in Actors,
           RestoreStep(a) \/ RestoreBreaks(a)
    PROVE  CalmBody'
<1> USE DEF TypeOK, CustomFolder, CfgFolder, Backup, Session, NoSession, FolderState,
            FileState, Restoring, Continue, Abort, Finish, Calm
<1>1. CASE ClearCustom(a) BY <1>1 DEF ClearCustom
<1>2. CASE PutCustom(a) BY <1>2 DEF PutCustom, OriginalExisted, OriginalSaved
<1>3. CASE PruneCustom(a) BY <1>3 DEF PruneCustom
<1>4. CASE RestoreHitsounds(a) BY <1>4 DEF RestoreHitsounds
<1>5. CASE ClearCfg(a) BY <1>5 DEF ClearCfg
<1>6. CASE PutCfg(a) BY <1>6 DEF PutCfg
<1>7. CASE RestoreDxLevel(a) BY <1>7 DEF RestoreDxLevel
<1>8. CASE Verify(a) BY <1>8 DEF Verify, Verified
<1>9. CASE DropBackup(a)
  <2>1. /\ UNCHANGED <<orig, custom, cfg, pointer, ui, lock, snapshot>>
        /\ lock = a /\ step = "dropBackup" /\ step' = "dropPointer" /\ lock # "free"
    BY <1>9 DEF DropBackup
  <2>2. ui \notin StageSteps
    BY <2>1
  <2> QED BY <2>1, <2>2
<1>10. CASE DropPointer(a) BY <1>10 DEF DropPointer
<1>11. CASE RestoreBreaks(a)
  BY <1>11, NothingFails
     DEF RestoreBreaks, StepFails, ClearCustomBreaks, ClearCfgBreaks, DropBackupBreaks
<1> QED BY <1>1, <1>2, <1>3, <1>4, <1>5, <1>6, <1>7, <1>8, <1>9, <1>10, <1>11
        DEF RestoreStep

LEMMA NextCalm == IInv /\ CalmInv /\ [Next]_vars => CalmInv'
<1> SUFFICES ASSUME IInv, CalmInv, [Next]_vars, Calm' PROVE CalmBody'
  BY DEF CalmInv
<1>0. TypeOK' /\ Calm /\ CalmBody
  BY NextTypeOK, CalmBefore DEF CalmInv
<1> USE <1>0
<1>1. CASE Boot BY <1>1 DEF Boot
<1>2. CASE Launch BY <1>2 DEF Launch
<1>3. CASE CloseWindow BY <1>3 DEF CloseWindow
<1>4. CASE CloseTf2Stuck \/ StageFails \/ SpawnFails \/ LaunchLogFails
  BY <1>4, NothingFails DEF CloseTf2Stuck, StageFails, SpawnFails, LaunchLogFails
<1>5. CASE Stage BY <1>5, StageCalm
<1>6. CASE SpawnHlae BY <1>6 DEF SpawnHlae
<1>7. CASE HlaeStartsTf2 \/ Tf2Exits BY <1>7 DEF HlaeStartsTf2, Tf2Exits, control
<1>8. CASE Watch
  BY <1>8, NothingFails DEF Watch, SeeTf2, GiveUpOnTf2, ConfirmExit, StopStalled
<1>9. CASE \E a \in Actors : BeginRestore(a) \/ RestoreStep(a) \/ RestoreBreaks(a)
  BY <1>9, BeginRestoreCalm, RestoreCalm
<1>10. CASE Crash
  <2>1. ui = "idle" /\ lock = "free"
    BY <1>10 DEF Crash, Calm
  <2> QED BY <1>10, <2>1 DEF Crash, HelperGone
<1>11. CASE UNCHANGED vars BY <1>11 DEF vars, control
<1> QED BY <1>1, <1>2, <1>3, <1>4, <1>5, <1>6, <1>7, <1>8, <1>9, <1>10, <1>11 DEF Next

LEMMA CalmKeepsCustom == IInv /\ CalmInv => CustomKeptInCalm
  BY DEF CustomKeptInCalm, CustomNeverLost, CalmInv, TypeOK, UiStates

\* Without a lease everything is back, or everything but the offline CFG.
LEMMA UnleasedIsReturned == IInv /\ CalmInv => ClearedMeansReturned
<1> SUFFICES ASSUME IInv, CalmInv, ~ Leased PROVE ClearedMeansReturned
  BY DEF ClearedMeansReturned
<1>1. custom = orig.custom /\ Safe(cfg) /\ NothingStranded
  OBVIOUS
<1>2. Calm => cfg = orig.cfg
  BY DEF CalmInv
<1>3. cfg = orig.cfg \/ cfg = [orig.cfg EXCEPT !.offline = "absent"]
  BY <1>1 DEF TypeOK, CfgFolder
<1> QED BY <1>1, <1>2, <1>3 DEF ClearedMeansReturned, AllBack, AllButOffline

HIDE DEF IInv, OrigInv, FactsInv, ControlInv, StageAlone, CfgInv, CustomInv,
         ClearedInv, NothingStranded, Safe, CalmBody, BeforePutCfg, RestoreSteps

THEOREM CalmInvariant == Spec => []CalmInv
<1>1. Init => CalmInv
  BY InitCalm
<1>2. IInv /\ CalmInv /\ [Next]_vars => CalmInv'
  BY NextCalm
<1> QED BY <1>1, <1>2, InductiveInvariant, PTL DEF Spec

\* The user's tf/custom is in its place or in the backup, at every moment of any
\* number of sessions, as long as no call fails, the helper dies between whole
\* operations only and tf/cfg was there when the helper came.
THEOREM CalmLosesNothing == Spec => []CustomKeptInCalm
<1>1. IInv /\ CalmInv => CustomKeptInCalm
  BY CalmKeepsCustom
<1> QED BY <1>1, InductiveInvariant, CalmInvariant, PTL

\* A cleared recovery pointer means that tf/custom and tf/cfg are the user's own
\* again, byte for byte in calm weather and but for the offline CFG in any other,
\* and that no backup holds anything of them.
THEOREM ClearedIsReturned == Spec => []ClearedMeansReturned
<1>1. IInv /\ CalmInv => ClearedMeansReturned
  BY UnleasedIsReturned
<1> QED BY <1>1, InductiveInvariant, CalmInvariant, PTL

-----------------------------------------------------------------------------
(* The refinement of ProfileLease *)

\* The lease begins and ends in steps that move no file and fail in nothing, and
\* without one no file moves.
LEMMA LeaseChanges ==
    IInv /\ [Next]_vars /\ (Leased' # Leased \/ ~ Leased)
        => UNCHANGED <<orig, custom, cfg>> /\ (Leased' # Leased => UNCHANGED bounds)
<1> SUFFICES ASSUME IInv, [Next]_vars, Leased' # Leased \/ ~ Leased
             PROVE  /\ UNCHANGED <<orig, custom, cfg>>
                    /\ Leased' # Leased => UNCHANGED bounds
  OBVIOUS
<1>1. /\ ui \in StageSteps \ {"prepare", "pointer"} => Leased
      /\ lock # "free" => Leased
  BY DEF IInv, ControlInv
<1>2. CASE ~ Leased
  <2>1. CASE PrepareBackup \/ WritePointer
    BY <2>1 DEF PrepareBackup, WritePointer, Staging, files
  <2>2. CASE ~ (PrepareBackup \/ WritePointer)
    <3>1. ~ Stage
      BY <1>1, <1>2, <2>2 DEF Stage, MoveCfg, CopyCfg, MoveCustom, FillCustom,
         InstallResources, WriteProfileCfg, Staging
    <3>2. ASSUME NEW a \in Actors PROVE ~ RestoreStep(a) /\ ~ RestoreBreaks(a)
      BY <1>1, <1>2 DEF RestoreStep, RestoreBreaks, Restoring, ClearCustom, PutCustom,
         PruneCustom, RestoreHitsounds, ClearCfg, PutCfg, RestoreDxLevel, Verify,
         DropBackup, DropPointer, StepFails, ClearCustomBreaks, ClearCfgBreaks,
         DropBackupBreaks, Actors
    <3>3. UNCHANGED <<orig, files, pointer>>
      BY <3>1, <3>2 DEF Next, Boot, Launch, CloseWindow, CloseTf2Stuck, HelperGone,
         StageFails, SpawnHlae, SpawnFails, LaunchLogFails, HlaeStartsTf2, Tf2Exits,
         Watch, SeeTf2, GiveUpOnTf2, ConfirmExit, StopStalled, BeginRestore, Crash, vars
    <3> QED BY <3>3 DEF files, Leased
  <2> QED BY <2>1, <2>2
<1>3. CASE Leased /\ Leased' # Leased
  <2>1. ASSUME NEW a \in Actors, BeginRestore(a) \/ RestoreStep(a) \/ RestoreBreaks(a)
        PROVE  DropPointer(a)
    BY <1>3, <2>1 DEF RestoreStep, RestoreBreaks, BeginRestore, ClearCustom, PutCustom,
       PruneCustom, RestoreHitsounds, ClearCfg, PutCfg, RestoreDxLevel, Verify,
       DropBackup, StepFails, ClearCustomBreaks, ClearCfgBreaks, DropBackupBreaks,
       Continue, Abort, Leased
  <2>2. ~ WritePointer
    BY <1>3 DEF WritePointer, Leased, Staging, IInv, ControlInv
  <2>3. \E a \in Actors : DropPointer(a)
    BY <1>3, <2>1, <2>2 DEF Next, Boot, Launch, CloseWindow, CloseTf2Stuck, HelperGone,
       Stage, PrepareBackup, MoveCfg, CopyCfg, MoveCustom, FillCustom,
       InstallResources, WriteProfileCfg, StageFails, SpawnHlae, SpawnFails,
       LaunchLogFails, HlaeStartsTf2, Tf2Exits, Watch, SeeTf2, GiveUpOnTf2,
       ConfirmExit, StopStalled, Crash, vars, Leased
  <2> QED BY <2>3 DEF DropPointer, Restoring, files
<1> QED BY <1>2, <1>3

LEMMA StepIsLeaseStep ==
    ASSUME IInv, ClearedMeansReturned', [Next]_vars
    PROVE  Lease!Next \/ UNCHANGED <<Leased, Given, Calm>>
<1>1. Given' \in {"all", "allButOffline", "some"}
  BY DEF Given
<1>2. Calm' => Calm
  BY CalmBefore DEF IInv
<1>3. Leased \in BOOLEAN /\ Leased' \in BOOLEAN
  BY DEF Leased
<1>4. Leased' # Leased \/ ~ Leased => UNCHANGED Given
  BY LeaseChanges DEF Given, AllBack, AllButOffline
<1>5. CASE Leased /\ Leased'
  BY <1>1, <1>2, <1>3, <1>5 DEF Lease!Next, Lease!Use
<1>6. CASE ~ Leased /\ Leased'
  BY <1>2, <1>3, <1>4, <1>6 DEF Lease!Next, Lease!Take
<1>7. CASE ~ Leased /\ ~ Leased'
  BY <1>2, <1>3, <1>4, <1>7 DEF Lease!Next, Lease!Trouble
<1>8. CASE Leased /\ ~ Leased'
  <2>1. AllBack' \/ (~ Calm' /\ AllButOffline')
    BY <1>8 DEF ClearedMeansReturned, Leased
  <2>2. UNCHANGED <<AllBack, AllButOffline, Calm>>
    BY <1>3, <1>8, LeaseChanges DEF AllBack, AllButOffline, Calm, bounds
  <2>3. Given = "all" \/ (~ Calm /\ Given = "allButOffline")
    BY <2>1, <2>2 DEF Given
  <2> QED BY <1>2, <1>3, <1>4, <1>8, <2>3 DEF Lease!Next, Lease!Return
<1> QED BY <1>3, <1>5, <1>6, <1>7, <1>8

\* Every behaviour of the profile code, with its failing calls and crashes,
\* keeps the promise of the lease.
THEOREM ImplementsLease == Spec => LeaseSpec
<1>1. Init => Lease!Init
  BY DEF Init, Lease!Init, Leased, Given, AllBack, Calm
<1>2. IInv /\ ClearedMeansReturned' /\ [Next]_vars
          => [Lease!Next]_<<Leased, Given, Calm>>
  BY StepIsLeaseStep
<1> QED BY <1>1, <1>2, InductiveInvariant, ClearedIsReturned, PTL
        DEF Spec, LeaseSpec, Lease!Spec, Lease!vars
=============================================================================
